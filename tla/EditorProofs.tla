---------------------------- MODULE EditorProofs ----------------------------
(***************************************************************************)
(* Theorems about Editor, for all documents, annotations and bounds.       *)
(***************************************************************************)
EXTENDS Editor, SequenceTheorems, FiniteSetTheorems, TLAPS

USE ConstantsAssumption, NullAssumption, MaxDepthAssumption

-----------------------------------------------------------------------------
(* What the methods of HistoryStack do to its two sequences *)

\* checkpoint (history.ts:41) returns a stack of states, at most MaxDepth of
\* them if there were at most MaxDepth before, and nothing to redo.
LEMMA CheckpointStack ==
    ASSUME NEW Elems, NEW h \in Stacks(Elems), NEW s \in Elems
    PROVE  /\ Checkpoint(h, s) \in Stacks(Elems)
           /\ Checkpoint(h, s).future = <<>>
           /\ Len(h.past) <= MaxDepth => Len(Checkpoint(h, s).past) <= MaxDepth
<1> DEFINE pushed == Append(h.past, s)
<1>1. pushed \in Seq(Elems) /\ Len(pushed) = Len(h.past) + 1 /\ pushed # <<>>
  <2>1. h.past \in Seq(Elems) /\ Len(h.past) \in Nat
    BY LenProperties DEF Stacks
  <2>2. pushed \in Seq(Elems) /\ Len(pushed) = Len(h.past) + 1
    BY <2>1, AppendProperties
  <2> QED BY <2>1, <2>2, EmptySeq
<1>2. Tail(pushed) \in Seq(Elems) /\ Len(Tail(pushed)) = Len(pushed) - 1
  BY <1>1, HeadTailProperties
<1>3. <<>> \in Seq(Elems)
  OBVIOUS
<1>4. Len(h.past) \in Nat
  BY DEF Stacks
<1> QED
  BY <1>1, <1>2, <1>3, <1>4 DEF Checkpoint, Stacks

\* undo (history.ts:54) moves one state from the past to the caller and the
\* caller's state to the future.
LEMMA UndoMovesOne ==
    ASSUME NEW Elems, NEW h \in Stacks(Elems), NEW s \in Elems, CanUndo(h)
    PROVE  /\ UndoStack(h, s) \in Stacks(Elems)
           /\ UndoResult(h) \in Elems
           /\ Len(UndoStack(h, s).past) = Len(h.past) - 1
           /\ Len(UndoStack(h, s).future) = Len(h.future) + 1
<1>1. h.past \in Seq(Elems) /\ h.future \in Seq(Elems) /\ Len(h.past) \in Nat \ {0}
  BY EmptySeq DEF Stacks, CanUndo
<1>2. \A i \in 1 .. Len(h.past) - 1 : h.past[i] \in Elems
  BY <1>1, ElementOfSeq
<1>3. /\ SubSeq(h.past, 1, Len(h.past) - 1) \in Seq(Elems)
      /\ Len(SubSeq(h.past, 1, Len(h.past) - 1)) = Len(h.past) - 1
  <2>1. Len(h.past) - 1 \in Int /\ 1 \in Int
    BY <1>1
  <2>2. Len(SubSeq(h.past, 1, Len(h.past) - 1))
          = IF 1 <= Len(h.past) - 1 THEN Len(h.past) - 1 - 1 + 1 ELSE 0
    BY <1>2, <2>1, SubSeqProperties
  <2> QED BY <1>1, <1>2, <2>1, <2>2, SubSeqProperties
<1>4. <<s>> \o h.future \in Seq(Elems) /\ Len(<<s>> \o h.future) = Len(h.future) + 1
  <2>1. <<s>> \in Seq(Elems) /\ Len(<<s>>) = 1
    OBVIOUS
  <2> QED BY <1>1, <2>1, ConcatProperties, LenProperties
<1>5. h.past[Len(h.past)] \in Elems
  BY <1>1, ElementOfSeq
<1> QED
  BY <1>3, <1>4, <1>5 DEF UndoStack, UndoResult, Stacks

\* redo (history.ts:65) moves one state from the future to the caller and the
\* caller's state to the past.
LEMMA RedoMovesOne ==
    ASSUME NEW Elems, NEW h \in Stacks(Elems), NEW s \in Elems, CanRedo(h)
    PROVE  /\ RedoStack(h, s) \in Stacks(Elems)
           /\ RedoResult(h) \in Elems
           /\ Len(RedoStack(h, s).past) = Len(h.past) + 1
           /\ Len(RedoStack(h, s).future) = Len(h.future) - 1
<1>1. h.past \in Seq(Elems) /\ h.future \in Seq(Elems) /\ h.future # <<>>
  BY DEF Stacks, CanRedo
<1>2. /\ Head(h.future) \in Elems
      /\ Tail(h.future) \in Seq(Elems)
      /\ Len(Tail(h.future)) = Len(h.future) - 1
  BY <1>1, HeadTailProperties
<1>3. Append(h.past, s) \in Seq(Elems) /\ Len(Append(h.past, s)) = Len(h.past) + 1
  BY <1>1
<1> QED
  BY <1>2, <1>3 DEF RedoStack, RedoResult, Stacks

-----------------------------------------------------------------------------
(* What the helpers return *)

\* Changing one annotation keeps the set a set of annotations, each made on
\* the document it was made on.
Of(d) == {a \in Annotation : a.doc = d}

LEMMA ChangedType ==
    ASSUME NEW set \in SUBSET Annotation, NEW i, NEW v \in Versions
    PROVE  Changed(set, i, v) \in SUBSET Annotation
BY DEF Changed, Annotation

LEMMA ChangedStays ==
    ASSUME NEW d, NEW set \in SUBSET Of(d), NEW i, NEW v \in Versions
    PROVE  Changed(set, i, v) \in SUBSET Of(d)
BY DEF Changed, Of, Annotation

LEMMA StaledType ==
    /\ \A c \in Callback : Staled(c) \in Callback
    /\ \A c \in Callback \cup {NoCallback} : Staled(c) \in Callback \cup {NoCallback}
BY DEF Staled, Callback

LEMMA FrozenType ==
    ASSUME annotations \in SUBSET Annotation, NEW t \in Capture \cup {NoTimer}
    PROVE  Frozen(t) \in Capture \cup {NoTimer}
BY DEF Frozen, Capture

-----------------------------------------------------------------------------
(* Types.  The actions with many open ends share lemmas. *)

LEMMA BeginLoadTypes ==
    ASSUME TypeOK, NEW d \in Docs, NEW s \in Session \cup {NoSession}, BeginLoad(d, s)
    PROVE  /\ pdfData' \in Docs /\ annotations' = {} /\ selected' = Nothing
           /\ openedAlone' \in BOOLEAN
           /\ history' \in Stacks(SUBSET Annotation)
           /\ scheduled' = FALSE
           /\ loads' \in SUBSET Load
           /\ dialog' \in [Dialogs -> Callback \cup {NoCallback}]
           /\ decoding' \in SUBSET Callback
           /\ timer' \in Capture \cup {NoTimer}
<1>1. history' \in Stacks(SUBSET Annotation)
  BY DEF BeginLoad, EmptyStack, Stacks
<1>2. loads' \in SUBSET Load
  BY DEF BeginLoad, TypeOK, Load
<1>3. dialog' \in [Dialogs -> Callback \cup {NoCallback}] /\ decoding' \in SUBSET Callback
  BY StaledType DEF BeginLoad, TypeOK
<1>4. timer' \in Capture \cup {NoTimer}
  BY FrozenType DEF BeginLoad, TypeOK
<1>5. openedAlone' \in BOOLEAN
  BY DEF BeginLoad, AllParsed
<1> QED BY <1>1, <1>2, <1>3, <1>4, <1>5 DEF BeginLoad

LEMMA ScheduleTypes ==
    ASSUME TypeOK, ScheduleAutosave(pdfData)
    PROVE  timer' \in Capture \cup {NoTimer} /\ scheduled' \in BOOLEAN
BY DEF ScheduleAutosave, TypeOK, Capture

LEMMA SnapshotTypes ==
    ASSUME TypeOK, SnapshotAnnotations
    PROVE  history' \in Stacks(SUBSET Annotation)
BY CheckpointStack DEF SnapshotAnnotations, TypeOK

LEMMA AskedType ==
    ASSUME TypeOK, NEW i \in Ids
    PROVE  Asked(i) \in Callback
BY DEF Asked, TypeOK, Callback

LEMMA CommitTypes ==
    ASSUME TypeOK, NEW c \in Callback, Commit(c)
    PROVE  /\ history' \in Stacks(SUBSET Annotation)
           /\ annotations' \in SUBSET Annotation
           /\ timer' \in Capture \cup {NoTimer} /\ scheduled' \in BOOLEAN
<1>1. [id |-> c.id, page |-> c.page, doc |-> c.doc, ver |-> Version0] \in Annotation
  BY DEF Callback, Annotation
<1> QED BY <1>1, ScheduleTypes, SnapshotTypes DEF Commit, TypeOK

LEMMA ExchangeTypes ==
    ASSUME TypeOK, NEW result \in SUBSET Annotation, NEW stack \in Stacks(SUBSET Annotation),
           Exchange(result, stack)
    PROVE  TypeOK'
<1>1. dialog' \in [Dialogs -> Callback \cup {NoCallback}] /\ decoding' \in SUBSET Callback
  BY StaledType DEF Exchange, TypeOK
<1>2. timer' \in Capture \cup {NoTimer} /\ scheduled' \in BOOLEAN
  BY ScheduleTypes DEF Exchange
<1> QED BY <1>1, <1>2 DEF Exchange, TypeOK, docVars, uiVars, backVars

LEMMA RestyleTypes ==
    ASSUME TypeOK, NEW v \in Versions, NEW kinds, Restyle(v, kinds),
           history' \in Stacks(SUBSET Annotation)
    PROVE  TypeOK'
<1>1. annotations' \in SUBSET Annotation
  BY ChangedType DEF Restyle, TypeOK
<1>2. timer' \in Capture \cup {NoTimer} /\ scheduled' \in BOOLEAN
  BY ScheduleTypes DEF Restyle
<1> QED BY <1>1, <1>2, SMTT(60) DEF Restyle, TypeOK, docVars, uiVars, backVars

\* Steps that open, parse, draw or leave documents
LEMMA LoadingTypes ==
    ASSUME TypeOK,
           \/ \E d \in Docs : OpenDocument(d)
           \/ LoadStep
           \/ \E p \in PagesOf(pdfDoc) : GoToPage(p)
    PROVE  TypeOK'
<1>1. ASSUME NEW d \in Docs, OpenDocument(d) PROVE TypeOK'
  <2>1. NoSession \in Session \cup {NoSession} /\ BeginLoad(d, NoSession)
    BY <1>1 DEF OpenDocument
  <2>2. /\ pdfDoc' = pdfDoc /\ currentPage' = currentPage /\ UNCHANGED uiVars
        /\ UNCHANGED <<usedIds, edits>> /\ UNCHANGED backVars
        /\ usedDocs' \in SUBSET Docs
    BY <1>1 DEF OpenDocument, BeginLoad, TypeOK
  <2> QED BY <2>1, <2>2, BeginLoadTypes DEF TypeOK, uiVars, backVars
<1>2. ASSUME NEW l \in loads, ParseDone(l) PROVE TypeOK'
  <2>1. l \in Load
    BY DEF TypeOK
  <2>2. l.doc \in Docs /\ [l EXCEPT !.phase = "draw"] \in Load
    BY <2>1 DEF Load
  <2>3. loads' \in SUBSET Load /\ pdfDoc' \in Docs
    BY <1>2, <2>2 DEF ParseDone, TypeOK
  <2> HIDE DEF Load
  <2> QED BY <1>2, <2>3, SMTT(60) DEF ParseDone, TypeOK, uiVars, backVars
<1>3. ASSUME NEW l \in loads, LoadFails(l) PROVE TypeOK'
  BY <1>3, SMTT(60) DEF LoadFails, TypeOK, uiVars
<1>4. ASSUME NEW l \in loads, LoadDone(l) PROVE TypeOK'
  <2>1. timer' \in Capture \cup {NoTimer} /\ scheduled' \in BOOLEAN
    BY <1>4, ScheduleTypes DEF LoadDone
  <2> QED BY <1>4, <2>1, SMTT(60) DEF LoadDone, TypeOK, uiVars, backVars
<1>5. ASSUME NEW l \in loads, RestoreDone(l) PROVE TypeOK'
  <2>1. l.session \in Session
    BY <1>5 DEF RestoreDone, TypeOK, Load
  <2>2. annotations' \in SUBSET Annotation
    BY <1>5, <2>1 DEF RestoreDone, Session
  <2>3. dialog' \in [Dialogs -> Callback \cup {NoCallback}] /\ decoding' \in SUBSET Callback
    BY <1>5, StaledType DEF RestoreDone, TypeOK
  <2>4. timer' \in Capture \cup {NoTimer}
    BY <1>5 DEF RestoreDone, TypeOK, Capture
  <2>5. selected' \in [id : Ids, live : BOOLEAN] \cup {Nothing}
    BY <1>5 DEF RestoreDone, TypeOK
  <2> QED BY <1>5, <2>2, <2>3, <2>4, <2>5 DEF RestoreDone, TypeOK, uiVars, backVars
<1>6. ASSUME NEW p \in PagesOf(pdfDoc), GoToPage(p) PROVE TypeOK'
  <2>1. p \in Nat \ {0}
    BY <1>6, SMTT(60) DEF PagesOf, TypeOK
  <2> QED BY <1>6, <2>1, SMTT(60) DEF GoToPage, TypeOK, uiVars, backVars
<1>7. CASE LoadStep
  <2>1. PICK l \in loads : ParseDone(l) \/ LoadFails(l) \/ LoadDone(l) \/ RestoreDone(l)
    BY <1>7 DEF LoadStep
  <2> QED BY <2>1, <1>2, <1>3, <1>4, <1>5
<1> QED BY <1>1, <1>6, <1>7

LEMMA AddingTypes == TypeOK /\ Adding => TypeOK'
<1> SUFFICES ASSUME TypeOK, Adding PROVE TypeOK'
  OBVIOUS
<1>1. ASSUME NEW i \in Ids, AddAtOnce(i) PROVE TypeOK'
  <2>1. Commit(Asked(i)) /\ Asked(i) \in Callback
    BY <1>1, AskedType DEF AddAtOnce
  <2> QED BY <1>1, <2>1, CommitTypes, ZenonT(60) DEF AddAtOnce, Place, TypeOK, docVars, uiVars, backVars
<1>2. ASSUME NEW i \in Ids, AskDialog(i) PROVE TypeOK'
  <2>1. Asked(i) \in Callback
    BY AskedType
  <2> QED BY <1>2, <2>1, ZenonT(60) DEF AskDialog, Place, TypeOK, docVars, uiVars, backVars
<1>3. ASSUME NEW i \in Ids, PickImage(i) PROVE TypeOK'
  <2>1. Asked(i) \in Callback
    BY AskedType
  <2> QED BY <1>3, <2>1 DEF PickImage, Place, TypeOK, docVars, uiVars, backVars
<1>4. ASSUME NEW i \in Ids, ReleaseHighlight(i) PROVE TypeOK'
  <2>1. Commit(Asked(i)) /\ Asked(i) \in Callback
    BY <1>4, AskedType DEF ReleaseHighlight
  <2> QED BY <1>4, <2>1, CommitTypes DEF ReleaseHighlight, TypeOK, docVars, backVars
<1>5. ASSUME NEW c \in decoding, ImageDecoded(c) PROVE TypeOK'
  <2>1. Commit(c) /\ c \in Callback
    BY <1>5 DEF ImageDecoded, TypeOK
  <2> QED BY <1>5, <2>1, CommitTypes, ZenonT(60) DEF ImageDecoded, TypeOK, docVars, uiVars, backVars
<1>6. ASSUME NEW c \in decoding, ImageDropped(c) PROVE TypeOK'
  BY <1>6, SMTT(60) DEF ImageDropped, TypeOK, docVars, uiVars, backVars
<1>7. ASSUME NEW s \in Dialogs, CancelDialog(s) PROVE TypeOK'
  BY <1>7, SMTT(60) DEF CancelDialog, TypeOK, docVars, uiVars, backVars
<1>8. CASE SubmitNewText
  <2>1. Commit(dialog["text"]) /\ dialog["text"] \in Callback
    BY <1>8 DEF SubmitNewText, TypeOK, Dialogs
  <2> QED BY <1>8, <2>1, CommitTypes, ZenonT(60) DEF SubmitNewText, TypeOK, docVars, uiVars, backVars
<1>9. CASE SubmitSignature
  <2>1. dialog["pad"] \in Callback
    BY <1>9 DEF SubmitSignature, TypeOK, Dialogs
  <2> QED BY <1>9, <2>1, ZenonT(60) DEF SubmitSignature, TypeOK, docVars, uiVars, backVars
<1>10. CASE PressHighlight
  BY <1>10 DEF PressHighlight, TypeOK, docVars, backVars
<1>11. CASE ReleaseTooSmall
  BY <1>11, SMTT(60) DEF ReleaseTooSmall, TypeOK, docVars, backVars
<1> QED
  BY <1>1, <1>2, <1>3, <1>4, <1>5, <1>6, <1>7, <1>8, <1>9, <1>10, <1>11 DEF Adding

LEMMA ChangingTypes == TypeOK /\ Changing => TypeOK'
<1> SUFFICES ASSUME TypeOK, Changing PROVE TypeOK'
  OBVIOUS
<1>1. ASSUME NEW a \in annotations, PressAnnotation(a) PROVE TypeOK'
  <2>1. a.id \in Ids
    BY DEF TypeOK, Annotation
  <2>2. history' \in Stacks(SUBSET Annotation)
    BY <1>1, SnapshotTypes DEF PressAnnotation, TypeOK
  <2>3. gesture' \in {"none", "drag", "resize", "draw"}
    BY <1>1 DEF PressAnnotation, TypeOK
  <2> QED BY <1>1, <2>1, <2>2, <2>3 DEF PressAnnotation, TypeOK, docVars, backVars
<1>2. ASSUME NEW a \in annotations, EditText(a) PROVE TypeOK'
  <2>1. a.id \in Ids /\ a.page \in Nat \ {0} /\ a.doc \in Docs \cup {NoDoc}
    BY DEF TypeOK, Annotation
  <2>2. [op |-> "edit", id |-> a.id, page |-> a.page, doc |-> a.doc, live |-> TRUE] \in Callback
    BY <2>1 DEF Callback
  <2> QED BY <1>2, <2>1, <2>2, ZenonT(60) DEF EditText, TypeOK, docVars, uiVars, backVars
<1>3. ASSUME NEW a \in annotations, NEW v \in Versions, ToggleCheckbox(a, v) PROVE TypeOK'
  <2>1. annotations' \in SUBSET Annotation
    BY <1>3, ChangedType DEF ToggleCheckbox, TypeOK
  <2>2. history' \in Stacks(SUBSET Annotation)
    BY <1>3, SnapshotTypes DEF ToggleCheckbox
  <2>3. timer' \in Capture \cup {NoTimer} /\ scheduled' \in BOOLEAN
    BY <1>3, ScheduleTypes DEF ToggleCheckbox
  <2> QED BY <1>3, <2>1, <2>2, <2>3 DEF ToggleCheckbox, TypeOK, docVars, uiVars, backVars
<1>4. ASSUME NEW v \in Versions, MovePointer(v) PROVE TypeOK'
  <2>1. annotations' \in SUBSET Annotation
    BY <1>4, ChangedType DEF MovePointer, TypeOK
  <2>2. timer' \in Capture \cup {NoTimer}
    <3>1. CASE timer' = timer
      BY <3>1 DEF TypeOK
    <3>2. CASE timer # NoTimer /\ timer' = [timer EXCEPT !.annots =
                                             Changed(timer.annots, selected.id, v)]
      <4>1. timer \in Capture /\ timer.annots \in SUBSET Annotation
        BY <3>2 DEF TypeOK, Capture
      <4>2. Changed(timer.annots, selected.id, v) \in SUBSET Annotation
        BY <4>1, ChangedType
      <4> QED BY <3>2, <4>1, <4>2 DEF Capture
    <3> QED BY <1>4, <3>1, <3>2 DEF MovePointer
  <2> QED BY <1>4, <2>1, <2>2, SMTT(60) DEF MovePointer, TypeOK, docVars, uiVars, backVars
<1>5. ASSUME NEW v \in Versions, ApplyColor(v) PROVE TypeOK'
  BY <1>5, SnapshotTypes, RestyleTypes DEF ApplyColor
<1>6. ASSUME NEW v \in Versions, ApplyImageSize(v) PROVE TypeOK'
  BY <1>6, SnapshotTypes, RestyleTypes DEF ApplyImageSize
<1>7. ASSUME NEW v \in Versions, SetOpacity(v) PROVE TypeOK'
  <2>1. history' \in Stacks(SUBSET Annotation)
    BY <1>7 DEF SetOpacity, TypeOK
  <2> QED BY <1>7, <2>1, RestyleTypes DEF SetOpacity
<1>8. ASSUME NEW v \in Versions, SubmitTextEdit(v) PROVE TypeOK'
  <2>1. annotations' \in SUBSET Annotation
    BY <1>8, ChangedType DEF SubmitTextEdit, TypeOK
  <2>2. history' \in Stacks(SUBSET Annotation)
    BY <1>8, SnapshotTypes DEF SubmitTextEdit
  <2>3. timer' \in Capture \cup {NoTimer} /\ scheduled' \in BOOLEAN
    BY <1>8, ScheduleTypes DEF SubmitTextEdit
  <2>4. edits' \in Nat
    BY <1>8 DEF SubmitTextEdit, TypeOK
  <2>5. dialog' \in [Dialogs -> Callback \cup {NoCallback}]
    <3>1. dialog \in [Dialogs -> Callback \cup {NoCallback}]
      BY DEF TypeOK
    <3>2. dialog' = [dialog EXCEPT !["text"] = NoCallback]
      BY <1>8 DEF SubmitTextEdit
    <3> QED BY <3>1, <3>2
  <2> QED BY <1>8, <2>1, <2>2, <2>3, <2>4, <2>5, ZenonT(60) DEF SubmitTextEdit, TypeOK, docVars, uiVars, backVars
<1>9. ASSUME NEW t \in {"select", "place"}, SetTool(t) PROVE TypeOK'
  BY <1>9, SMTT(60) DEF SetTool, TypeOK, docVars, backVars
<1>10. CASE Deselect
  BY <1>10, SMTT(60) DEF Deselect, TypeOK, docVars, uiVars, backVars
<1>11. CASE PressHandle
  BY <1>11, SnapshotTypes DEF PressHandle, TypeOK, docVars, backVars
<1>12. CASE ReleasePointer
  BY <1>12, ScheduleTypes DEF ReleasePointer, TypeOK, docVars, backVars
<1>13. CASE SecondFinger
  BY <1>13, SMTT(60) DEF SecondFinger, TypeOK, docVars, backVars
<1>14. CASE DeleteSelected
  <2>1. dialog' \in [Dialogs -> Callback \cup {NoCallback}] /\ decoding' \in SUBSET Callback
    BY <1>14, StaledType DEF DeleteSelected, TypeOK
  <2> QED BY <1>14, <2>1, SnapshotTypes, ScheduleTypes, SMTT(60)
             DEF DeleteSelected, TypeOK, docVars, uiVars, backVars
<1>15. CASE Undo
  <2>1. /\ UndoResult(history) \in SUBSET Annotation
        /\ UndoStack(history, annotations) \in Stacks(SUBSET Annotation)
    BY <1>15, UndoMovesOne DEF Undo, TypeOK
  <2> QED BY <1>15, <2>1, ExchangeTypes DEF Undo
<1>16. CASE Redo
  <2>1. /\ RedoResult(history) \in SUBSET Annotation
        /\ RedoStack(history, annotations) \in Stacks(SUBSET Annotation)
    BY <1>16, RedoMovesOne DEF Redo, TypeOK
  <2> QED BY <1>16, <2>1, ExchangeTypes DEF Redo
<1> QED
  BY <1>1, <1>2, <1>3, <1>4, <1>5, <1>6, <1>7, <1>8, <1>9, <1>10, <1>11, <1>12,
     <1>13, <1>14, <1>15, <1>16 DEF Changing

LEMMA SavingTypes ==
    TypeOK /\ (Saving \/ (\E tooOld \in BOOLEAN : Reload(tooOld)) \/ Restore \/ Dismiss)
    => TypeOK'
<1> SUFFICES ASSUME TypeOK,
                    Saving \/ (\E tooOld \in BOOLEAN : Reload(tooOld)) \/ Restore \/ Dismiss
             PROVE  TypeOK'
  OBVIOUS
<1>1. CASE AutosaveFires
  <2>1. writes' \in Seq(Session \cup {NoSession})
    <3>1. CASE timer.doc = NoDoc
      BY <1>1, <3>1 DEF AutosaveFires, TypeOK
    <3>2. CASE timer.doc # NoDoc
      <4>1. [doc |-> timer.doc, annots |-> IF timer.live THEN annotations ELSE timer.annots]
              \in Session
        BY <1>1, <3>2 DEF AutosaveFires, TypeOK, Capture, Session
      <4> QED BY <1>1, <3>2, <4>1 DEF AutosaveFires, TypeOK
    <3> QED BY <3>1, <3>2
  <2> QED BY <1>1, <2>1, SMTT(60) DEF AutosaveFires, TypeOK, docVars, uiVars
<1>2. CASE WriteDone
  BY <1>2, HeadTailProperties, SMTT(60) DEF WriteDone, TypeOK, docVars, uiVars
<1>3. CASE WriteFails
  BY <1>3, HeadTailProperties, SMTT(60) DEF WriteFails, TypeOK, docVars, uiVars
<1>4. ASSUME NEW tooOld \in BOOLEAN, Reload(tooOld) PROVE TypeOK'
  <2>1. history' \in Stacks(SUBSET Annotation) /\ writes' \in Seq(Session \cup {NoSession})
    BY <1>4 DEF Reload, EmptyStack, Stacks
  <2>2. dialog' \in [Dialogs -> Callback \cup {NoCallback}]
    BY <1>4 DEF Reload, NoDialog
  <2>3. /\ vault' \in Session \cup {NoSession} /\ offered' \in Session \cup {NoSession}
        /\ crashes' \in Nat
    BY <1>4, SMTT(60) DEF Reload, TypeOK
  <2>4. /\ usedIds' \in SUBSET Ids /\ usedDocs' \in SUBSET Docs
        /\ faults' \in Nat /\ edits' \in Nat
    BY <1>4 DEF Reload, TypeOK
  <2>5. /\ pdfData' = NoDoc /\ pdfDoc' = NoDoc /\ currentPage' = 1 /\ loads' = {}
        /\ scheduled' = FALSE /\ annotations' = {} /\ selected' = Nothing
        /\ tool' = "select" /\ gesture' = "none" /\ decoding' = {} /\ timer' = NoTimer
    BY <1>4 DEF Reload
  <2>6. /\ pdfData' \in Docs \cup {NoDoc} /\ pdfDoc' \in Docs \cup {NoDoc}
        /\ selected' \in [id : Ids, live : BOOLEAN] \cup {Nothing}
        /\ timer' \in Capture \cup {NoTimer}
    BY <2>5
  <2>8. /\ tool' \in {"select", "place"} /\ gesture' \in {"none", "drag", "resize", "draw"}
        /\ currentPage' \in Nat \ {0}
    BY <2>5
  <2>9. scheduled' \in BOOLEAN /\ openedAlone' \in BOOLEAN
    BY <1>4, <2>5 DEF Reload
  <2>7. /\ loads' \in SUBSET Load /\ annotations' \in SUBSET Annotation
        /\ decoding' \in SUBSET Callback
    BY <2>5
  <2> QED BY <2>1, <2>2, <2>3, <2>4, <2>6, <2>7, <2>8, <2>9 DEF TypeOK
<1>5. CASE Restore
  <2>1. offered.doc \in Docs /\ offered \in Session /\ BeginLoad(offered.doc, offered)
    BY <1>5 DEF Restore, TypeOK, Session
  <2>2. /\ UNCHANGED <<pdfDoc, currentPage, uiVars, usedIds, edits>>
        /\ UNCHANGED <<usedDocs, writes, vault, faults, crashes>> /\ offered' = NoSession
    BY <1>5 DEF Restore, BeginLoad
  <2> QED BY <2>1, <2>2, BeginLoadTypes DEF TypeOK, uiVars
<1>6. CASE Dismiss
  <2>1. writes' \in Seq(Session \cup {NoSession})
    BY <1>6 DEF Dismiss, TypeOK
  <2> QED BY <1>6, <2>1, SMTT(60) DEF Dismiss, TypeOK, docVars, uiVars
<1> QED
  BY <1>1, <1>2, <1>3, <1>4, <1>5, <1>6 DEF Saving

\* Every variable of the editor keeps its type, whatever the user, the browser
\* and the vault do.
THEOREM EditorTypes == Spec => []TypeOK
<1>1. Init => TypeOK
  <2>1. /\ EmptyStack \in Stacks(SUBSET Annotation)
        /\ NoDialog \in [Dialogs -> Callback \cup {NoCallback}]
        /\ <<>> \in Seq(Session \cup {NoSession})
    BY DEF EmptyStack, Stacks, NoDialog
  <2> SUFFICES ASSUME Init PROVE TypeOK
    OBVIOUS
  <2>2. /\ pdfData \in Docs \cup {NoDoc} /\ pdfDoc \in Docs \cup {NoDoc}
        /\ selected \in [id : Ids, live : BOOLEAN] \cup {Nothing}
        /\ timer \in Capture \cup {NoTimer}
    BY DEF Init
  <2>4. /\ tool \in {"select", "place"} /\ gesture \in {"none", "drag", "resize", "draw"}
        /\ currentPage \in Nat \ {0}
    BY DEF Init
  <2>5. scheduled \in BOOLEAN
    BY DEF Init
  <2>3. /\ loads \in SUBSET Load /\ annotations \in SUBSET Annotation
        /\ decoding \in SUBSET Callback /\ usedIds \in SUBSET Ids
        /\ usedDocs \in SUBSET Docs
    BY DEF Init
  <2> QED BY <2>1, <2>2, <2>3, <2>4, <2>5 DEF Init, TypeOK
<1>2. TypeOK /\ [Next]_vars => TypeOK'
  <2> SUFFICES ASSUME TypeOK, [Next]_vars PROVE TypeOK'
    OBVIOUS
  <2>1. CASE Next
    BY <2>1, LoadingTypes, AddingTypes, ChangingTypes, SavingTypes DEF Next
  <2>2. CASE UNCHANGED vars
    BY <2>2, SMTT(60) DEF vars, TypeOK, docVars, uiVars, backVars
  <2> QED BY <2>1, <2>2
<1> QED
  BY <1>1, <1>2, PTL DEF Spec

-----------------------------------------------------------------------------
(***************************************************************************)
(* One document at a time.  OneDocument is not inductive: a callback may   *)
(* push what it was asked for long ago, a timer may save what it captured, *)
(* a restored session puts its own annotations in.  What keeps them apart  *)
(* is that a reference to the array is live only while the document it was *)
(* taken for is open, and that a session is restored into its own document *)
(* - which needs that no other load overtakes the restoring one.           *)
(***************************************************************************)

\* The document's annotations, what undo knows and the references that still
\* reach the array.
Own ==
    /\ annotations \in SUBSET Of(pdfData)
    /\ history \in Stacks(SUBSET Of(pdfData))
    /\ \A c \in decoding : c.live => c.doc = pdfData
    /\ \A s \in Dialogs : dialog[s] # NoCallback /\ dialog[s].live => dialog[s].doc = pdfData

\* What is kept for recovery, or will be.
Kept ==
    /\ VaultUnmixed
    /\ timer # NoTimer => IF timer.live THEN timer.doc = pdfData
                          ELSE timer.annots \in SUBSET Of(timer.doc)

\* A session is restored into the document it was saved with.
Loaded ==
    /\ IsFiniteSet(loads)
    /\ \A l \in loads : l.session # NoSession =>
          l.session.doc = pdfData /\ Unmixed(l.session)
    /\ MaxCrashes = 0 => /\ offered = NoSession
                         /\ \A l \in loads : l.session = NoSession

IInv == TypeOK /\ Own /\ Kept /\ Loaded

LEMMA StaledDead ==
    /\ \A c \in Callback : Staled(c).live = FALSE
    /\ \A c \in Callback \cup {NoCallback} :
          Staled(c) # NoCallback => Staled(c).live = FALSE
BY DEF Staled, Callback

\* When no document is opened or restored, Loaded only has to hold on.
LEMMA LoadedStays ==
    ASSUME Loaded, UNCHANGED <<pdfData, loads>>, offered' \in {offered, NoSession}
    PROVE  Loaded'
BY DEF Loaded, Unmixed

\* Setting the timer anew keeps Kept, for it captures the live array.
LEMMA KeptStays ==
    ASSUME Kept, UNCHANGED <<pdfData, writes, vault, offered>>,
           timer' = timer \/ ScheduleAutosave(pdfData)
    PROVE  Kept'
BY DEF Kept, VaultUnmixed, Unmixed, ScheduleAutosave

LEMMA CommitOwn ==
    ASSUME TypeOK, Own, NEW c \in Callback, c.live => c.doc = pdfData, Commit(c),
           pdfData' = pdfData
    PROVE  annotations' \in SUBSET Of(pdfData') /\ history' \in Stacks(SUBSET Of(pdfData'))
<1>1. history' \in Stacks(SUBSET Of(pdfData))
  BY CheckpointStack DEF Commit, SnapshotAnnotations, Own
<1>2. [id |-> c.id, page |-> c.page, doc |-> c.doc, ver |-> Version0] \in Annotation
  BY DEF Callback, Annotation
<1>3. annotations' \in SUBSET Of(pdfData)
  BY <1>2 DEF Commit, Own, Of
<1> QED BY <1>1, <1>3

LEMMA SnapshotOwn ==
    ASSUME Own, SnapshotAnnotations, pdfData' = pdfData
    PROVE  history' \in Stacks(SUBSET Of(pdfData'))
BY CheckpointStack DEF SnapshotAnnotations, Own

\* Callbacks that stay as they are, or only become stale
LEMMA PendingOwn ==
    ASSUME TypeOK, Own, pdfData' = pdfData,
           \A c \in decoding' : c \in decoding \/ \E b \in decoding : c = Staled(b),
           \A s \in Dialogs : dialog'[s] \in {NoCallback, dialog[s], Staled(dialog[s])}
    PROVE  /\ \A c \in decoding' : c.live => c.doc = pdfData'
           /\ \A s \in Dialogs : dialog'[s] # NoCallback /\ dialog'[s].live
                                  => dialog'[s].doc = pdfData'
<1>1. ASSUME NEW c \in decoding', c.live PROVE c.doc = pdfData'
  <2>1. CASE c \in decoding
    BY <1>1, <2>1 DEF Own
  <2>2. ASSUME NEW b \in decoding, c = Staled(b) PROVE FALSE
    BY <1>1, <2>2, StaledDead DEF TypeOK
  <2> QED BY <2>1, <2>2
<1>2. ASSUME NEW s \in Dialogs, dialog'[s] # NoCallback, dialog'[s].live
      PROVE  dialog'[s].doc = pdfData'
  <2>1. dialog[s] \in Callback \cup {NoCallback}
    BY DEF TypeOK
  <2>2. CASE dialog'[s] = dialog[s]
    BY <1>2, <2>2 DEF Own
  <2>3. CASE dialog'[s] = Staled(dialog[s])
    BY <1>2, <2>1, <2>3, StaledDead
  <2> QED BY <1>2, <2>2, <2>3
<1> QED BY <1>1, <1>2

LEMMA BeginLoadKeeps ==
    ASSUME MaxLoads <= 1 \/ MaxCrashes = 0, IInv,
           NEW d \in Docs, NEW s \in Session \cup {NoSession}, BeginLoad(d, s),
           s # NoSession => s.doc = d /\ Unmixed(s),
           MaxCrashes = 0 => s = NoSession,
           UNCHANGED <<writes, vault>>, offered' \in {offered, NoSession}
    PROVE  Own' /\ Kept' /\ Loaded'
<1>1. Own'
  <2>1. annotations' \in SUBSET Of(pdfData') /\ history' \in Stacks(SUBSET Of(pdfData'))
    BY DEF BeginLoad, EmptyStack, Stacks
  <2>2. \A c \in decoding' : ~c.live
    BY StaledDead DEF BeginLoad, IInv, TypeOK
  <2>3. ASSUME NEW t \in Dialogs, dialog'[t] # NoCallback PROVE ~dialog'[t].live
    <3>1. dialog[t] \in Callback \cup {NoCallback} /\ dialog'[t] = Staled(dialog[t])
      BY DEF BeginLoad, IInv, TypeOK
    <3> QED BY <2>3, <3>1, StaledDead
  <2> QED BY <2>1, <2>2, <2>3 DEF Own
<1>2. Kept'
  <2>1. VaultUnmixed'
    BY DEF IInv, Kept, VaultUnmixed, Unmixed
  <2>2. CASE timer # NoTimer /\ timer.live
    <3>1. timer \in Capture /\ timer' = [timer EXCEPT !.live = FALSE, !.annots = annotations]
      BY <2>2 DEF BeginLoad, Frozen, IInv, TypeOK
    <3>2. timer'.live = FALSE /\ timer'.annots = annotations /\ timer'.doc = pdfData
      BY <2>2, <3>1 DEF Capture, IInv, Kept
    <3> QED BY <2>1, <3>2 DEF IInv, Kept, Own
  <2>3. CASE ~(timer # NoTimer /\ timer.live)
    <3>1. timer' = timer
      BY <2>3 DEF BeginLoad, Frozen
    <3> QED BY <2>1, <2>3, <3>1 DEF IInv, Kept
  <2> QED BY <2>2, <2>3
<1>3. Loaded'
  <2> DEFINE new == [doc |-> d, phase |-> "parse", session |-> s]
  <2>1. loads' = loads \cup {new} /\ pdfData' = d /\ Cardinality(loads) < MaxLoads
    BY DEF BeginLoad
  <2>2. IsFiniteSet(loads) /\ IsFiniteSet(loads')
    BY <2>1, FS_AddElement DEF IInv, Loaded
  <2>3. \A l \in loads : l.session = NoSession
    <3>1. CASE MaxCrashes = 0
      BY <3>1 DEF IInv, Loaded
    <3>2. CASE MaxLoads <= 1
      <4>1. Cardinality(loads) \in Nat
        BY <2>2, FS_CardinalityType
      <4>2. Cardinality(loads) = 0
        BY <2>1, <3>2, <4>1
      <4> QED BY <2>2, <4>2, FS_EmptySet
    <3> QED BY <3>1, <3>2
  <2>4. MaxCrashes = 0 => offered' = NoSession
    BY DEF IInv, Loaded
  <2> QED BY <2>1, <2>2, <2>3, <2>4 DEF Loaded, Unmixed
<1> QED BY <1>1, <1>2, <1>3

\* Opening, parsing, drawing, failing, restoring, turning pages
LEMMA LoadingKeeps ==
    ASSUME MaxLoads <= 1 \/ MaxCrashes = 0, IInv,
           \/ \E d \in Docs : OpenDocument(d)
           \/ LoadStep
           \/ \E p \in PagesOf(pdfDoc) : GoToPage(p)
    PROVE  Own' /\ Kept' /\ Loaded'
<1> USE DEF IInv
<1>1. ASSUME NEW d \in Docs, OpenDocument(d) PROVE Own' /\ Kept' /\ Loaded'
  <2>1. BeginLoad(d, NoSession) /\ UNCHANGED <<writes, vault>> /\ offered' = offered
    BY <1>1 DEF OpenDocument, backVars
  <2> QED BY <2>1, BeginLoadKeeps
<1>2. ASSUME NEW l \in loads, ParseDone(l) PROVE Own' /\ Kept' /\ Loaded'
  <2>1. /\ UNCHANGED <<pdfData, annotations, history, decoding, dialog, timer>>
        /\ UNCHANGED <<writes, vault, offered>>
    BY <1>2 DEF ParseDone, backVars
  <2>2. Loaded'
    <3>1. l \in Load /\ [l EXCEPT !.phase = "draw"].session = l.session
      BY DEF TypeOK, Load
    <3>2. IsFiniteSet(loads')
      BY <1>2, FS_RemoveElement, FS_AddElement DEF ParseDone, Loaded
    <3> QED BY <1>2, <2>1, <3>1, <3>2 DEF ParseDone, Loaded, Unmixed
  <2>3. Own'
    BY <2>1 DEF Own
  <2>4. Kept'
    BY <2>1 DEF Kept, VaultUnmixed, Unmixed
  <2> QED BY <2>2, <2>3, <2>4
<1>3. ASSUME NEW l \in loads, LoadFails(l) \/ LoadDone(l) PROVE Own' /\ Kept' /\ Loaded'
  <2>1. /\ UNCHANGED <<pdfData, annotations, history, decoding, dialog>>
        /\ UNCHANGED <<writes, vault, offered>>
        /\ timer' = timer \/ ScheduleAutosave(pdfData)
        /\ loads' = loads \ {l}
    BY <1>3 DEF LoadFails, LoadDone, backVars
  <2>2. Loaded'
    <3>1. IsFiniteSet(loads')
      BY <2>1, FS_RemoveElement DEF Loaded
    <3> QED BY <2>1, <3>1 DEF Loaded, Unmixed
  <2>3. Own'
    BY <2>1 DEF Own
  <2>4. Kept'
    BY <2>1, KeptStays
  <2> QED BY <2>2, <2>3, <2>4
<1>4. ASSUME NEW l \in loads, RestoreDone(l) PROVE Own' /\ Kept' /\ Loaded'
  <2>1. /\ l.session \in Session /\ l.session.doc = pdfData /\ Unmixed(l.session)
        /\ l.session # NoSession
    BY <1>4 DEF RestoreDone, TypeOK, Load, Loaded
  <2>2. /\ UNCHANGED <<pdfData, history>> /\ UNCHANGED <<writes, vault, offered>>
        /\ annotations' = l.session.annots
        /\ loads' = loads \ {l}
        /\ timer' = [doc |-> pdfData, live |-> FALSE, annots |-> annotations]
        /\ decoding' = {Staled(c) : c \in decoding}
        /\ dialog' = [s \in Dialogs |-> Staled(dialog[s])]
    BY <1>4 DEF RestoreDone, backVars
  <2>3. annotations' \in SUBSET Of(pdfData')
    BY <2>1, <2>2 DEF Session, Unmixed, Of
  <2>4. Own'
    BY <2>2, <2>3, PendingOwn DEF Own
  <2>5. Kept'
    BY <2>2 DEF Kept, VaultUnmixed, Unmixed, Own
  <2>6. Loaded'
    <3>1. IsFiniteSet(loads')
      BY <2>2, FS_RemoveElement DEF Loaded
    <3> QED BY <2>2, <3>1 DEF Loaded, Unmixed
  <2> QED BY <2>4, <2>5, <2>6
<1>5. ASSUME NEW p \in PagesOf(pdfDoc), GoToPage(p) PROVE Own' /\ Kept' /\ Loaded'
  <2>1. /\ UNCHANGED <<pdfData, loads, annotations, history, decoding, dialog, timer>>
        /\ UNCHANGED <<writes, vault, offered>>
    BY <1>5 DEF GoToPage, backVars
  <2> QED BY <2>1, LoadedStays, KeptStays DEF Own
<1>6. CASE LoadStep
  <2>1. PICK l \in loads : ParseDone(l) \/ LoadFails(l) \/ LoadDone(l) \/ RestoreDone(l)
    BY <1>6 DEF LoadStep
  <2> QED BY <2>1, <1>2, <1>3, <1>4
<1> QED BY <1>1, <1>5, <1>6

LEMMA AddingKeeps == IInv /\ Adding => Own' /\ Kept' /\ Loaded'
<1> SUFFICES ASSUME IInv, Adding PROVE Own' /\ Kept' /\ Loaded'
  OBVIOUS
<1> USE DEF IInv
<1>1. /\ UNCHANGED <<pdfData, loads>> /\ UNCHANGED <<writes, vault, offered>>
      /\ timer' = timer \/ ScheduleAutosave(pdfData)
  BY DEF Adding, AddAtOnce, AskDialog, PickImage, ReleaseHighlight, ImageDecoded, ImageDropped,
         CancelDialog, SubmitNewText, SubmitSignature, PressHighlight, ReleaseTooSmall, Commit,
         docVars, backVars
<1>2. Loaded' /\ Kept'
  BY <1>1, LoadedStays, KeptStays
<1>3. annotations' \in SUBSET Of(pdfData') /\ history' \in Stacks(SUBSET Of(pdfData'))
  <2>1. ASSUME NEW i \in Ids, AddAtOnce(i) \/ ReleaseHighlight(i)
        PROVE  annotations' \in SUBSET Of(pdfData') /\ history' \in Stacks(SUBSET Of(pdfData'))
    <3>1. Commit(Asked(i)) /\ Asked(i) \in Callback /\ Asked(i).doc = pdfData
      BY <2>1, AskedType DEF AddAtOnce, ReleaseHighlight, Asked
    <3> QED BY <1>1, <3>1, CommitOwn
  <2>2. ASSUME NEW c \in decoding, ImageDecoded(c)
        PROVE  annotations' \in SUBSET Of(pdfData') /\ history' \in Stacks(SUBSET Of(pdfData'))
    <3>1. Commit(c) /\ c \in Callback /\ (c.live => c.doc = pdfData)
      BY <2>2 DEF ImageDecoded, TypeOK, Own
    <3> QED BY <1>1, <3>1, CommitOwn
  <2>3. CASE SubmitNewText
    <3>1. "text" \in Dialogs
      BY DEF Dialogs
    <3>2. /\ Commit(dialog["text"]) /\ dialog["text"] \in Callback
          /\ dialog["text"].live => dialog["text"].doc = pdfData
      BY <2>3, <3>1 DEF SubmitNewText, TypeOK, Own
    <3> QED BY <1>1, <3>2, CommitOwn
  <2>4. CASE UNCHANGED <<annotations, history>>
    BY <1>1, <2>4 DEF Own
  <2> QED
    BY <2>1, <2>2, <2>3, <2>4
       DEF Adding, AskDialog, PickImage, ImageDropped, CancelDialog, SubmitSignature,
           PressHighlight, ReleaseTooSmall
<1>4. /\ \A c \in decoding' : c.live => c.doc = pdfData'
      /\ \A s \in Dialogs : dialog'[s] # NoCallback /\ dialog'[s].live
                             => dialog'[s].doc = pdfData'
  <2>1. ASSUME NEW i \in Ids, AskDialog(i) \/ PickImage(i)
        PROVE  /\ \A c \in decoding' : c.live => c.doc = pdfData'
               /\ \A s \in Dialogs : dialog'[s] # NoCallback /\ dialog'[s].live
                                      => dialog'[s].doc = pdfData'
    BY <1>1, <2>1, SMTT(60) DEF AskDialog, PickImage, Asked, Own, TypeOK
  <2>2. CASE SubmitSignature
    <3>1. "pad" \in Dialogs
      BY DEF Dialogs
    <3> QED BY <1>1, <2>2, <3>1 DEF SubmitSignature, Own, TypeOK
  <2>3. ASSUME decoding' \in SUBSET decoding,
               \A s \in Dialogs : dialog'[s] \in {NoCallback, dialog[s]}
        PROVE  /\ \A c \in decoding' : c.live => c.doc = pdfData'
               /\ \A s \in Dialogs : dialog'[s] # NoCallback /\ dialog'[s].live
                                      => dialog'[s].doc = pdfData'
    BY <1>1, <2>3 DEF Own
  <2>4. ASSUME NEW i \in Ids, AddAtOnce(i) \/ ReleaseHighlight(i)
        PROVE  UNCHANGED <<decoding, dialog>>
    BY <2>4 DEF AddAtOnce, ReleaseHighlight
  <2>5. ASSUME NEW c \in decoding, ImageDecoded(c) \/ ImageDropped(c)
        PROVE  decoding' \in SUBSET decoding /\ dialog' = dialog
    BY <2>5 DEF ImageDecoded, ImageDropped
  <2>6. ASSUME SubmitNewText \/ \E s \in Dialogs : CancelDialog(s)
        PROVE  decoding' = decoding /\ \A s \in Dialogs : dialog'[s] \in {NoCallback, dialog[s]}
    BY <2>6 DEF SubmitNewText, CancelDialog, TypeOK
  <2>7. CASE PressHighlight \/ ReleaseTooSmall
    BY <2>3, <2>7 DEF PressHighlight, ReleaseTooSmall
  <2> QED BY <2>1, <2>2, <2>3, <2>4, <2>5, <2>6, <2>7 DEF Adding
<1> QED BY <1>2, <1>3, <1>4 DEF Own

LEMMA ChangingKeeps == IInv /\ Changing => Own' /\ Kept' /\ Loaded'
<1> SUFFICES ASSUME IInv, Changing PROVE Own' /\ Kept' /\ Loaded'
  OBVIOUS
<1> USE DEF IInv
<1>1. /\ UNCHANGED <<pdfData, loads>> /\ UNCHANGED <<writes, vault, offered>>
      /\ decoding' \in {decoding, {Staled(c) : c \in decoding}}
  BY DEF Changing, PressAnnotation, EditText, ToggleCheckbox, MovePointer, ApplyColor,
         ApplyImageSize, SetOpacity, Restyle, SubmitTextEdit, SetTool, Deselect, PressHandle,
         ReleasePointer, SecondFinger, DeleteSelected, Undo, Redo, Exchange, docVars, backVars
<1>2. Loaded'
  BY <1>1, LoadedStays
<1>3. Kept'
  <2>1. CASE timer' = timer \/ ScheduleAutosave(pdfData)
    BY <1>1, <2>1, KeptStays
  <2>2. ASSUME NEW v \in Versions, MovePointer(v), timer' # timer PROVE Kept'
    <3>1. /\ timer # NoTimer /\ ~timer.live
          /\ timer' = [timer EXCEPT !.annots = Changed(timer.annots, selected.id, v)]
      BY <2>2 DEF MovePointer
    <3>2. timer \in Capture /\ timer.annots \in SUBSET Of(timer.doc)
      BY <3>1 DEF TypeOK, Kept
    <3>3. Changed(timer.annots, selected.id, v) \in SUBSET Of(timer.doc)
      BY <3>2, ChangedStays
    <3>4. /\ timer'.live = timer.live /\ timer'.doc = timer.doc
          /\ timer'.annots = Changed(timer.annots, selected.id, v)
      BY <3>1, <3>2 DEF Capture
    <3>5. VaultUnmixed'
      BY <1>1 DEF Kept, VaultUnmixed, Unmixed
    <3> QED BY <3>1, <3>3, <3>4, <3>5 DEF Kept
  <2>3. \/ timer' = timer \/ ScheduleAutosave(pdfData)
        \/ \E v \in Versions : MovePointer(v)
    BY DEF Changing, PressAnnotation, EditText, ToggleCheckbox, ApplyColor, ApplyImageSize,
           SetOpacity, Restyle, SubmitTextEdit, SetTool, Deselect, PressHandle,
           ReleasePointer, SecondFinger, DeleteSelected, Undo, Redo, Exchange
  <2> QED BY <2>1, <2>2, <2>3
<1>4. annotations' \in SUBSET Of(pdfData')
  <2>1. ASSUME NEW i, NEW v \in Versions,
               annotations' \in {annotations, Changed(annotations, i, v)}
        PROVE  annotations' \in SUBSET Of(pdfData')
    BY <1>1, <2>1, ChangedStays DEF Own
  <2>2. CASE annotations' \in SUBSET annotations
    BY <1>1, <2>2 DEF Own
  <2>3. CASE Undo
    BY <1>1, <2>3, UndoMovesOne DEF Undo, Exchange, Own
  <2>4. CASE Redo
    BY <1>1, <2>4, RedoMovesOne DEF Redo, Exchange, Own
  <2>5. ASSUME NEW v \in Versions, ApplyColor(v) \/ ApplyImageSize(v) \/ SetOpacity(v)
        PROVE  annotations' \in {annotations, Changed(annotations, selected.id, v)}
    BY <2>5 DEF ApplyColor, ApplyImageSize, SetOpacity, Restyle
  <2>6. ASSUME NEW v \in Versions, MovePointer(v)
        PROVE  annotations' \in {annotations, Changed(annotations, selected.id, v)}
    BY <2>6 DEF MovePointer
  <2>7. ASSUME NEW v \in Versions, SubmitTextEdit(v)
        PROVE  annotations' \in {annotations, Changed(annotations, dialog["text"].id, v)}
    BY <2>7 DEF SubmitTextEdit
  <2>8. ASSUME NEW a \in annotations, NEW v \in Versions, ToggleCheckbox(a, v)
        PROVE  annotations' \in {annotations, Changed(annotations, a.id, v)}
    BY <2>8 DEF ToggleCheckbox
  <2>9. CASE DeleteSelected
    BY <2>2, <2>9 DEF DeleteSelected
  <2>10. CASE UNCHANGED annotations
    BY <2>2, <2>10
  <2>11. \/ UNCHANGED annotations \/ Undo \/ Redo \/ DeleteSelected
         \/ \E a \in annotations, v \in Versions : ToggleCheckbox(a, v)
         \/ \E v \in Versions : \/ MovePointer(v) \/ SubmitTextEdit(v)
                               \/ ApplyColor(v) \/ ApplyImageSize(v) \/ SetOpacity(v)
    BY DEF Changing, PressAnnotation, EditText, SetTool, Deselect, PressHandle,
           ReleasePointer, SecondFinger
  <2> QED
    BY <2>1, <2>3, <2>4, <2>5, <2>6, <2>7, <2>8, <2>9, <2>10, <2>11
<1>5. history' \in Stacks(SUBSET Of(pdfData'))
  <2>1. CASE SnapshotAnnotations
    BY <1>1, <2>1, SnapshotOwn
  <2>2. CASE UNCHANGED history
    BY <1>1, <2>2 DEF Own
  <2>3. CASE Undo
    BY <1>1, <2>3, UndoMovesOne DEF Undo, Exchange, Own
  <2>4. CASE Redo
    BY <1>1, <2>4, RedoMovesOne DEF Redo, Exchange, Own
  <2>5. SnapshotAnnotations \/ UNCHANGED history \/ Undo \/ Redo
    BY DEF Changing, PressAnnotation, EditText, ToggleCheckbox, MovePointer, ApplyColor,
           ApplyImageSize, SetOpacity, SubmitTextEdit, SetTool, Deselect, PressHandle,
           ReleasePointer, SecondFinger, DeleteSelected
  <2> QED BY <2>1, <2>2, <2>3, <2>4, <2>5
<1>6. /\ \A c \in decoding' : c.live => c.doc = pdfData'
      /\ \A s \in Dialogs : dialog'[s] # NoCallback /\ dialog'[s].live
                             => dialog'[s].doc = pdfData'
  <2>1. ASSUME \A s \in Dialogs : dialog'[s] \in {NoCallback, dialog[s], Staled(dialog[s])}
        PROVE  /\ \A c \in decoding' : c.live => c.doc = pdfData'
               /\ \A s \in Dialogs : dialog'[s] # NoCallback /\ dialog'[s].live
                                      => dialog'[s].doc = pdfData'
    BY <1>1, <2>1, PendingOwn
  <2>2. ASSUME NEW a \in annotations, EditText(a)
        PROVE  /\ \A c \in decoding' : c.live => c.doc = pdfData'
               /\ \A s \in Dialogs : dialog'[s] # NoCallback /\ dialog'[s].live
                                      => dialog'[s].doc = pdfData'
    <3>1. a.doc = pdfData
      BY DEF Own, Of
    <3> QED BY <1>1, <2>2, <3>1 DEF EditText, Own, TypeOK
  <2>3. CASE DeleteSelected \/ Undo \/ Redo
    BY <2>1, <2>3 DEF DeleteSelected, Undo, Redo, Exchange
  <2>4. ASSUME NEW v \in Versions, SubmitTextEdit(v)
        PROVE  \A s \in Dialogs : dialog'[s] \in {NoCallback, dialog[s], Staled(dialog[s])}
    BY <2>4 DEF SubmitTextEdit, TypeOK
  <2>5. CASE UNCHANGED dialog
    BY <2>1, <2>5
  <2>6. \/ UNCHANGED dialog \/ DeleteSelected \/ Undo \/ Redo
        \/ \E a \in annotations : EditText(a)
        \/ \E v \in Versions : SubmitTextEdit(v)
    BY DEF Changing, PressAnnotation, ToggleCheckbox, MovePointer, ApplyColor, ApplyImageSize,
           SetOpacity, Restyle, SetTool, Deselect, PressHandle, ReleasePointer, SecondFinger
  <2> QED BY <2>1, <2>2, <2>3, <2>4, <2>5, <2>6
<1> QED BY <1>2, <1>3, <1>4, <1>5, <1>6 DEF Own

LEMMA SavingKeeps ==
    ASSUME MaxLoads <= 1 \/ MaxCrashes = 0, IInv,
           Saving \/ (\E tooOld \in BOOLEAN : Reload(tooOld)) \/ Restore \/ Dismiss
    PROVE  Own' /\ Kept' /\ Loaded'
<1> USE DEF IInv
<1>1. CASE AutosaveFires
  <2>1. /\ UNCHANGED <<pdfData, loads, annotations, history, decoding, dialog, vault, offered>>
        /\ timer # NoTimer /\ timer' = NoTimer
    BY <1>1 DEF AutosaveFires, docVars
  <2>2. VaultUnmixed'
    <3> DEFINE session == [doc    |-> timer.doc,
                           annots |-> IF timer.live THEN annotations ELSE timer.annots]
    <3>1. writes' = writes \/ writes' = Append(writes, session)
      BY <1>1 DEF AutosaveFires
    <3>2. \A a \in session.annots : a.doc = session.doc
      BY <2>1 DEF Kept, Own, Of
    <3> HIDE DEF session
    <3>3. Unmixed(session)
      BY <3>2 DEF Unmixed
    <3>4. writes \in Seq(Session \cup {NoSession})
      BY DEF TypeOK
    <3>5. ASSUME NEW n \in DOMAIN writes' PROVE Unmixed(writes'[n])
      <4>1. CASE writes' = writes
        BY <4>1 DEF Kept, VaultUnmixed, Unmixed
      <4>2. CASE writes' = Append(writes, session)
        <5>1. (n \in DOMAIN writes /\ writes'[n] = writes[n]) \/ writes'[n] = session
          BY <3>4, <4>2
        <5> QED BY <3>3, <5>1 DEF Kept, VaultUnmixed
      <4> QED BY <3>1, <4>1, <4>2
    <3> QED BY <2>1, <3>5 DEF Kept, VaultUnmixed, Unmixed
  <2> QED BY <2>1, <2>2, LoadedStays DEF Own, Kept
<1>2. CASE WriteDone \/ WriteFails
  <2>1. /\ UNCHANGED <<pdfData, loads, annotations, history, decoding, dialog, timer, offered>>
        /\ writes # <<>> /\ writes' = Tail(writes) /\ vault' \in {vault, writes[1]}
    BY <1>2 DEF WriteDone, WriteFails, docVars
  <2>2. writes \in Seq(Session \cup {NoSession})
    BY DEF TypeOK
  <2>3. \A n \in DOMAIN writes' : n + 1 \in DOMAIN writes /\ writes'[n] = writes[n + 1]
    BY <2>1, <2>2
  <2>4. 1 \in DOMAIN writes
    BY <2>1, <2>2, EmptySeq
  <2>5. VaultUnmixed'
    BY <2>1, <2>3, <2>4 DEF Kept, VaultUnmixed, Unmixed
  <2> QED BY <2>1, <2>5, LoadedStays DEF Own, Kept
<1>3. ASSUME NEW tooOld \in BOOLEAN, Reload(tooOld) PROVE Own' /\ Kept' /\ Loaded'
  <2>1. /\ annotations' = {} /\ history' = EmptyStack /\ decoding' = {} /\ dialog' = NoDialog
        /\ timer' = NoTimer /\ writes' = <<>> /\ loads' = {}
        /\ vault' \in {vault, NoSession} /\ offered' = vault'
    BY <1>3 DEF Reload
  <2>2. Own'
    <3>1. history' \in Stacks(SUBSET Of(pdfData'))
      BY <2>1 DEF EmptyStack, Stacks
    <3> QED BY <2>1, <3>1 DEF Own, NoDialog
  <2>3. Kept'
    BY <2>1 DEF Kept, VaultUnmixed, Unmixed
  <2>4. MaxCrashes # 0
    BY <1>3 DEF Reload, TypeOK
  <2>5. Loaded'
    BY <2>1, <2>4, FS_EmptySet DEF Loaded
  <2> QED BY <2>2, <2>3, <2>5
<1>4. CASE Restore
  <2>1. /\ BeginLoad(offered.doc, offered) /\ offered # NoSession /\ offered' = NoSession
        /\ UNCHANGED <<writes, vault>>
    BY <1>4 DEF Restore
  <2>2. offered \in Session /\ offered.doc \in Docs
    BY <2>1 DEF TypeOK, Session
  <2>3. Unmixed(offered) /\ MaxCrashes # 0
    BY <2>1 DEF Kept, VaultUnmixed, Loaded
  <2> QED BY <2>1, <2>2, <2>3, BeginLoadKeeps
<1>5. CASE Dismiss
  <2>1. /\ UNCHANGED <<pdfData, loads, annotations, history, decoding, dialog, vault, timer>>
        /\ offered' = NoSession /\ writes' = Append(writes, NoSession)
    BY <1>5 DEF Dismiss, docVars
  <2>2. writes \in Seq(Session \cup {NoSession})
    BY DEF TypeOK
  <2>3. \A n \in DOMAIN writes' : \/ n \in DOMAIN writes /\ writes'[n] = writes[n]
                                 \/ writes'[n] = NoSession
    BY <2>1, <2>2
  <2>4. VaultUnmixed'
    BY <2>1, <2>3 DEF Kept, VaultUnmixed, Unmixed
  <2> QED BY <2>1, <2>4, LoadedStays DEF Own, Kept
<1> QED BY <1>1, <1>2, <1>3, <1>4, <1>5 DEF Saving

\* Documents are kept apart as long as loads do not overlap, or no session is
\* ever restored.  Without the hypothesis they are not: a restore that another
\* load overtakes puts its annotations on the wrong document.
LEMMA DocumentsApart ==
    ASSUME MaxLoads <= 1 \/ MaxCrashes = 0
    PROVE  Spec => []Own /\ []Kept
<1>1. Init => Own /\ Kept /\ Loaded
  <2> SUFFICES ASSUME Init PROVE Own /\ Kept /\ Loaded
    OBVIOUS
  <2>1. Own
    <3>1. EmptyStack \in Stacks(SUBSET Of(pdfData))
      BY DEF EmptyStack, Stacks
    <3> QED BY <3>1 DEF Init, Own, NoDialog
  <2>2. Kept
    BY DEF Init, Kept, VaultUnmixed, Unmixed
  <2>3. Loaded
    BY FS_EmptySet DEF Init, Loaded
  <2> QED BY <2>1, <2>2, <2>3
<1>2. TypeOK /\ Own /\ Kept /\ Loaded /\ [Next]_vars => Own' /\ Kept' /\ Loaded'
  <2> SUFFICES ASSUME IInv, [Next]_vars PROVE Own' /\ Kept' /\ Loaded'
    BY DEF IInv
  <2>1. CASE Next
    BY <2>1, LoadingKeeps, AddingKeeps, ChangingKeeps, SavingKeeps DEF Next
  <2>2. CASE UNCHANGED vars
    <3>1. /\ UNCHANGED <<pdfData, loads, annotations, history, decoding, dialog, timer>>
          /\ UNCHANGED <<writes, vault, offered>>
      BY <2>2 DEF vars, docVars, backVars
    <3> QED BY <3>1, LoadedStays, KeptStays DEF IInv, Own
  <2> QED BY <2>1, <2>2
<1> QED
  BY <1>1, <1>2, EditorTypes, PTL DEF Spec

\* When loads do not overlap, or no session is ever restored, nothing made on
\* another document is shown with this one, or comes back by undo or redo.
THEOREM EditorKeepsOneDocument ==
    ASSUME MaxLoads <= 1 \/ MaxCrashes = 0
    PROVE  Spec => []OneDocument
<1>1. Own => OneDocument
  <2> SUFFICES ASSUME Own, NEW set \in {annotations} \cup Recorded(history), NEW a \in set
               PROVE  a.doc = pdfData
    BY DEF OneDocument
  <2>1. CASE set = annotations
    BY <2>1 DEF Own, Of
  <2>2. CASE set \in Recorded(history)
    <3>1. set \in SUBSET Of(pdfData)
      BY <2>2 DEF Own, Recorded, Stacks
    <3> QED BY <3>1 DEF Of
  <2> QED BY <2>1, <2>2
<1> QED
  BY <1>1, DocumentsApart, PTL

\* When loads do not overlap, or no session is ever restored, a stored session
\* and one that is offered have the annotations of their own document only.
THEOREM EditorKeepsVaultUnmixed ==
    ASSUME MaxLoads <= 1 \/ MaxCrashes = 0
    PROVE  Spec => []VaultUnmixed
<1>1. Kept => VaultUnmixed
  BY DEF Kept
<1> QED
  BY <1>1, DocumentsApart, PTL

-----------------------------------------------------------------------------
(* The selection and the autosave, as long as the page is not reloaded: then *)
(* there is no session to restore.                                           *)

NoRestores == offered = NoSession /\ \A l \in loads : l.session = NoSession

LEMMA ChangedIds ==
    ASSUME NEW set \in SUBSET Annotation, NEW i, NEW v \in Versions
    PROVE  IdsOf(set) \subseteq IdsOf(Changed(set, i, v))
<1> SUFFICES ASSUME NEW a \in set PROVE \E b \in Changed(set, i, v) : b.id = a.id
  BY DEF IdsOf
<1>1. CASE a.id = i
  <2>1. [a EXCEPT !.ver = v] \in Changed(set, i, v)
    BY <1>1 DEF Changed
  <2>2. [a EXCEPT !.ver = v].id = a.id
    BY DEF Annotation
  <2> QED BY <2>1, <2>2
<1>2. CASE a.id # i
  <2>1. a \in Changed(set, i, v)
    BY <1>2 DEF Changed
  <2> QED BY <2>1
<1> QED BY <1>1, <1>2

LEMMA NoRestoreStep ==
    ASSUME MaxCrashes = 0, TypeOK, NoRestores, [Next]_vars
    PROVE  /\ NoRestores'
           /\ ~Restore /\ ~Dismiss /\ (\A tooOld \in BOOLEAN : ~Reload(tooOld))
           /\ \A l \in loads : ~RestoreDone(l)
<1>1. ~Restore /\ ~Dismiss
  BY DEF NoRestores, Restore, Dismiss
<1>2. \A tooOld \in BOOLEAN : ~Reload(tooOld)
  BY DEF TypeOK, Reload
<1>3. \A l \in loads : ~RestoreDone(l)
  BY DEF NoRestores, RestoreDone
<1> SUFFICES NoRestores'
  BY <1>1, <1>2, <1>3
<1>4. CASE \E d \in Docs : OpenDocument(d)
  BY <1>4 DEF NoRestores, OpenDocument, BeginLoad, backVars
<1>5. CASE LoadStep
  <2>1. ASSUME NEW l \in loads, ParseDone(l) PROVE NoRestores'
    <3>1. [l EXCEPT !.phase = "draw"].session = NoSession
      BY DEF NoRestores, TypeOK, Load
    <3> QED BY <2>1, <3>1 DEF NoRestores, ParseDone, backVars
  <2>2. ASSUME NEW l \in loads, LoadFails(l) \/ LoadDone(l) PROVE NoRestores'
    BY <2>2 DEF NoRestores, LoadFails, LoadDone, backVars
  <2> QED BY <1>3, <1>5, <2>1, <2>2 DEF LoadStep
<1>6. ASSUME UNCHANGED <<loads, offered>> PROVE NoRestores'
  BY <1>6 DEF NoRestores
<1>7. CASE Adding
  BY <1>6, <1>7
     DEF Adding, AddAtOnce, AskDialog, PickImage, ReleaseHighlight, ImageDecoded,
         ImageDropped, CancelDialog, SubmitNewText, SubmitSignature, PressHighlight,
         ReleaseTooSmall, docVars, backVars
<1>8. CASE Changing
  BY <1>6, <1>8
     DEF Changing, PressAnnotation, EditText, ToggleCheckbox, MovePointer, ApplyColor,
         ApplyImageSize, SetOpacity, Restyle, SubmitTextEdit, SetTool, Deselect, PressHandle,
         ReleasePointer, SecondFinger, DeleteSelected, Undo, Redo, Exchange, docVars, backVars
<1>9. CASE Saving \/ (\E p \in PagesOf(pdfDoc) : GoToPage(p)) \/ UNCHANGED vars
  BY <1>6, <1>9
     DEF Saving, AutosaveFires, WriteDone, WriteFails, GoToPage, vars, docVars, backVars
<1> QED BY <1>1, <1>2, <1>3, <1>4, <1>5, <1>7, <1>8, <1>9 DEF Next

\* What a step may do to the selection.
LEMMA SelectionStays ==
    ASSUME SelectionCurrent,
           \/ selected' = Nothing
           \/ selected' = selected /\ IdsOf(annotations) \subseteq IdsOf(annotations')
           \/ /\ annotations' = annotations
              /\ \E a \in annotations : selected' = [id |-> a.id, live |-> TRUE]
    PROVE  SelectionCurrent'
BY DEF SelectionCurrent, IdsOf

LEMMA SelectionStep ==
    ASSUME MaxCrashes = 0, TypeOK, NoRestores, SelectionCurrent, [Next]_vars
    PROVE  SelectionCurrent'
<1>1. ASSUME selected' = Nothing PROVE SelectionCurrent'
  BY <1>1, SelectionStays
<1>2. ASSUME UNCHANGED <<selected, annotations>> PROVE SelectionCurrent'
  BY <1>2, SelectionStays
<1>3. ASSUME NEW c, Commit(c), UNCHANGED selected PROVE SelectionCurrent'
  <2>1. IdsOf(annotations) \subseteq IdsOf(annotations')
    BY <1>3 DEF Commit, IdsOf
  <2> QED BY <1>3, <2>1, SelectionStays
<1>4. ASSUME NEW i, NEW v \in Versions, UNCHANGED selected,
             annotations' \in {annotations, Changed(annotations, i, v)}
      PROVE  SelectionCurrent'
  <2>1. IdsOf(annotations) \subseteq IdsOf(annotations')
    BY <1>4, ChangedIds DEF TypeOK
  <2> QED BY <1>4, <2>1, SelectionStays
<1>5. CASE Adding
  BY <1>2, <1>3, <1>5
     DEF Adding, AddAtOnce, AskDialog, PickImage, ReleaseHighlight, ImageDecoded,
         ImageDropped, CancelDialog, SubmitNewText, SubmitSignature, PressHighlight,
         ReleaseTooSmall
<1>6. CASE Changing
  <2>1. ASSUME NEW a \in annotations, PressAnnotation(a) \/ EditText(a) PROVE SelectionCurrent'
    BY <2>1, SelectionStays DEF PressAnnotation, EditText
  <2>2. ASSUME NEW a \in annotations, NEW v \in Versions, ToggleCheckbox(a, v)
        PROVE  SelectionCurrent'
    BY <1>4, <2>2 DEF ToggleCheckbox
  <2>3. ASSUME NEW v \in Versions,
               MovePointer(v) \/ ApplyColor(v) \/ ApplyImageSize(v) \/ SetOpacity(v)
        PROVE  SelectionCurrent'
    <3>1. UNCHANGED selected /\ annotations' \in {annotations, Changed(annotations, selected.id, v)}
      BY <2>3 DEF MovePointer, ApplyColor, ApplyImageSize, SetOpacity, Restyle
    <3> QED BY <1>4, <3>1
  <2>4. ASSUME NEW v \in Versions, SubmitTextEdit(v) PROVE SelectionCurrent'
    BY <1>4, <2>4 DEF SubmitTextEdit
  <2>5. CASE \E t \in {"select", "place"} : SetTool(t)
    BY <1>1, <1>2, <2>5 DEF SetTool
  <2>6. CASE Deselect \/ DeleteSelected \/ Undo \/ Redo
    BY <1>1, <2>6 DEF Deselect, DeleteSelected, Undo, Redo, Exchange
  <2>7. CASE PressHandle \/ ReleasePointer \/ SecondFinger
    BY <1>2, <2>7 DEF PressHandle, ReleasePointer, SecondFinger
  <2> QED BY <1>6, <2>1, <2>2, <2>3, <2>4, <2>5, <2>6, <2>7 DEF Changing
<1>7. CASE \E d \in Docs : OpenDocument(d)
  BY <1>1, <1>7 DEF OpenDocument, BeginLoad
<1>8. CASE LoadStep
  <2>1. ASSUME NEW l \in loads, ParseDone(l) \/ LoadFails(l) \/ LoadDone(l)
        PROVE  SelectionCurrent'
    BY <1>2, <2>1 DEF ParseDone, LoadFails, LoadDone
  <2> QED BY <1>8, <2>1, NoRestoreStep DEF LoadStep
<1>9. CASE Saving \/ (\E p \in PagesOf(pdfDoc) : GoToPage(p)) \/ UNCHANGED vars
  BY <1>2, <1>9 DEF Saving, AutosaveFires, WriteDone, WriteFails, GoToPage, vars
<1> QED BY <1>5, <1>6, <1>7, <1>8, <1>9, NoRestoreStep DEF Next

LEMMA Selects ==
    ASSUME MaxCrashes = 0
    PROVE  Spec => [](NoRestores /\ SelectionCurrent)
<1>1. Init => NoRestores /\ SelectionCurrent
  BY DEF Init, NoRestores, SelectionCurrent
<1>2. TypeOK /\ NoRestores /\ SelectionCurrent /\ [Next]_vars => NoRestores' /\ SelectionCurrent'
  BY NoRestoreStep, SelectionStep
<1> QED BY <1>1, <1>2, EditorTypes, PTL DEF Spec

\* Whatever handlers run in whatever order, what the pointer and the properties
\* bar change is an annotation of the document (main.ts:772).  Restoring a
\* session is the exception: it replaces the array and keeps the selection
\* (main.ts:988).
THEOREM EditorSelects ==
    ASSUME MaxCrashes = 0 PROVE Spec => []SelectionCurrent
BY Selects, PTL

\* The timer, once a load has completed, is for the document that is open.
TimerCurrent == scheduled /\ timer # NoTimer => timer.live /\ timer.doc = pdfData

LEMMA ScheduleArms ==
    ASSUME TypeOK, ScheduleAutosave(pdfData), pdfData' = pdfData
    PROVE  TimerCurrent' /\ AutosaveArmed'
<1>1. timer' = [doc |-> pdfData, live |-> TRUE, annots |-> {}]
  BY DEF ScheduleAutosave
<1>2. [doc |-> pdfData, live |-> TRUE, annots |-> {}] \in Capture
  BY DEF Capture, TypeOK
<1>3. timer' # NoTimer /\ timer'.live /\ timer'.doc = pdfData'
  BY <1>1, <1>2
<1> QED BY <1>3 DEF TimerCurrent, AutosaveArmed, WillSave

LEMMA FiringSaves ==
    ASSUME TypeOK, TimerCurrent, AutosaveArmed, AutosaveFires
    PROVE  TimerCurrent' /\ AutosaveArmed'
<1>1. /\ timer' = NoTimer /\ timer # NoTimer
      /\ UNCHANGED <<pdfData, scheduled, annotations, vault, gesture>>
  BY DEF AutosaveFires, docVars, uiVars
<1>2. TimerCurrent'
  BY <1>1 DEF TimerCurrent
<1>3. ASSUME scheduled, pdfData # NoDoc, ~Moving PROVE LastSave' = Current'
  <2>1. timer.live /\ timer.doc = pdfData
    BY <1>1, <1>3 DEF TimerCurrent
  <2>2. writes' = Append(writes, Current)
    BY <1>3, <2>1 DEF AutosaveFires, Current
  <2>3. pdfData \in Docs /\ Current \in Session
    BY <1>3 DEF TypeOK, Current, Session
  <2>4. /\ writes' # <<>> /\ writes'[Len(writes')] = Current
    <3>1. writes \in Seq(Session \cup {NoSession}) /\ Len(writes) \in Nat
      BY DEF TypeOK
    <3>2. /\ Append(writes, Current) \in Seq(Session \cup {NoSession})
          /\ Len(Append(writes, Current)) = Len(writes) + 1
          /\ Append(writes, Current)[Len(writes) + 1] = Current
      BY <2>3, <3>1, AppendProperties
    <3>3. Append(writes, Current) # <<>>
      BY <3>1, <3>2, EmptySeq, SMTT(60)
    <3> QED BY <2>2, <3>2, <3>3
  <2>5. LastSave' = Current
    BY <2>4 DEF LastSave
  <2> QED BY <1>1, <2>5 DEF Current
<1> QED BY <1>1, <1>2, <1>3 DEF AutosaveArmed, Moving

\* A transaction that succeeds takes the first of those queued into the vault.
LEMMA WritingSaves ==
    ASSUME TypeOK, TimerCurrent, AutosaveArmed, WriteDone
    PROVE  TimerCurrent' /\ AutosaveArmed'
<1>1. UNCHANGED <<pdfData, scheduled, annotations, timer, gesture>>
  BY DEF WriteDone, docVars, uiVars
<1>2. writes \in Seq(Session \cup {NoSession}) /\ writes # <<>> /\ Len(writes) \in Nat \ {0}
  BY EmptySeq, LenProperties DEF TypeOK, WriteDone
<1>3. LastSave' = LastSave
  <2>1. vault' = writes[1] /\ writes' = Tail(writes)
    BY <1>2 DEF WriteDone
  <2>2. Tail(writes) \in Seq(Session \cup {NoSession}) /\ Len(Tail(writes)) = Len(writes) - 1
    BY <1>2, HeadTailProperties
  <2>3. CASE Len(writes) = 1
    <3>1. writes' = <<>>
      BY <2>1, <2>2, <2>3, EmptySeq
    <3> QED BY <1>2, <2>1, <2>3, <3>1 DEF LastSave
  <2>4. CASE Len(writes) # 1
    <3>1. \A k \in Nat \ {0} : k # 1 => k - 1 \in 1 .. k - 1 /\ k - 1 # 0
      OBVIOUS
    <3>2. Len(writes) - 1 \in 1 .. Len(writes) - 1 /\ Len(writes) - 1 # 0
      BY <1>2, <2>4, <3>1, Zenon
    <3>3. writes' # <<>>
      BY <2>1, <2>2, <3>2, EmptySeq
    <3>4. Tail(writes)[Len(writes) - 1] = writes[Len(writes)]
      BY <1>2, <3>2
    <3> QED BY <1>2, <2>1, <2>2, <3>3, <3>4 DEF LastSave
  <2> QED BY <2>3, <2>4
<1> QED BY <1>1, <1>3 DEF TimerCurrent, AutosaveArmed, WillSave, Current, Moving

LEMMA ArmedStep ==
    ASSUME MaxCrashes = 0, MaxFaults = 0, Touch = FALSE, TypeOK,
           NoRestores, SelectionCurrent, TimerCurrent, AutosaveArmed, [Next]_vars
    PROVE  TimerCurrent' /\ AutosaveArmed'
<1>1. ASSUME scheduled' = FALSE PROVE TimerCurrent' /\ AutosaveArmed'
  BY <1>1 DEF TimerCurrent, AutosaveArmed
<1>2. ASSUME UNCHANGED <<pdfData, scheduled, annotations, timer, writes, vault>>, Moving => Moving'
      PROVE  TimerCurrent' /\ AutosaveArmed'
  BY <1>2 DEF TimerCurrent, AutosaveArmed, WillSave, LastSave, Current
<1>3. ASSUME ScheduleAutosave(pdfData), UNCHANGED pdfData PROVE TimerCurrent' /\ AutosaveArmed'
  BY <1>3, ScheduleArms
<1>4. CASE Adding
  <2>1. ASSUME NEW i \in Ids, AddAtOnce(i) \/ ReleaseHighlight(i)
        PROVE  ScheduleAutosave(pdfData) /\ UNCHANGED pdfData
    BY <2>1 DEF AddAtOnce, ReleaseHighlight, Commit, docVars
  <2>2. ASSUME NEW i \in Ids, AskDialog(i) \/ PickImage(i)
        PROVE  UNCHANGED <<pdfData, scheduled, annotations, timer, writes, vault, gesture>>
    BY <2>2 DEF AskDialog, PickImage, docVars, uiVars, backVars
  <2>3. ASSUME NEW c \in decoding, ImageDecoded(c)
        PROVE  ScheduleAutosave(pdfData) /\ UNCHANGED pdfData
    BY <2>3 DEF ImageDecoded, Commit, docVars
  <2>4. ASSUME NEW c \in decoding, ImageDropped(c)
        PROVE  UNCHANGED <<pdfData, scheduled, annotations, timer, writes, vault, gesture>>
    BY <2>4 DEF ImageDropped, docVars, uiVars, backVars
  <2>5. ASSUME SubmitSignature \/ \E s \in Dialogs : CancelDialog(s)
        PROVE  UNCHANGED <<pdfData, scheduled, annotations, timer, writes, vault, gesture>>
    BY <2>5 DEF SubmitSignature, CancelDialog, docVars, uiVars, backVars
  <2>6. CASE SubmitNewText
    BY <1>3, <2>6 DEF SubmitNewText, Commit, docVars
  <2>7. CASE PressHighlight \/ ReleaseTooSmall
    <3>1. UNCHANGED <<pdfData, scheduled, annotations, timer, writes, vault>> /\ ~Moving
      BY <2>7 DEF PressHighlight, PointerFree, ReleaseTooSmall, Moving, docVars, backVars
    <3> QED BY <1>2, <3>1
  <2> QED
    BY <1>2, <1>3, <1>4, <2>1, <2>2, <2>3, <2>4, <2>5, <2>6, <2>7 DEF Adding, Moving
<1>5. CASE Changing
  <2>1. ASSUME NEW a \in annotations, PressAnnotation(a) \/ EditText(a)
        PROVE  UNCHANGED <<pdfData, scheduled, annotations, timer, writes, vault>> /\ ~Moving
    BY <2>1 DEF PressAnnotation, EditText, PointerFree, Moving, docVars, backVars
  <2>2. CASE PressHandle \/ Deselect \/ \E t \in {"select", "place"} : SetTool(t)
    <3>1. UNCHANGED <<pdfData, scheduled, annotations, timer, writes, vault>> /\ (Moving => Moving')
      BY <2>2 DEF PressHandle, Deselect, SetTool, PointerFree, Moving, docVars, uiVars, backVars
    <3> QED BY <1>2, <3>1
  <2>3. ASSUME NEW a \in annotations, NEW v \in Versions, ToggleCheckbox(a, v)
        PROVE  ScheduleAutosave(pdfData) /\ UNCHANGED pdfData
    BY <2>3 DEF ToggleCheckbox, docVars
  <2>4. ASSUME NEW v \in Versions,
               ApplyColor(v) \/ ApplyImageSize(v) \/ SetOpacity(v) \/ SubmitTextEdit(v)
        PROVE  ScheduleAutosave(pdfData) /\ UNCHANGED pdfData
    BY <2>4 DEF ApplyColor, ApplyImageSize, SetOpacity, Restyle, SubmitTextEdit, docVars
  <2>5. ASSUME NEW v \in Versions, MovePointer(v) PROVE TimerCurrent' /\ AutosaveArmed'
    <3>1. timer' = timer /\ UNCHANGED <<pdfData, scheduled>> /\ Moving'
      BY <2>5 DEF MovePointer, SelectionCurrent, Moving, docVars, uiVars
    <3> QED BY <3>1 DEF TimerCurrent, AutosaveArmed
  <2>6. CASE ReleasePointer \/ DeleteSelected \/ Undo \/ Redo
    <3>1. ScheduleAutosave(pdfData) /\ UNCHANGED pdfData
      BY <2>6 DEF ReleasePointer, DeleteSelected, Undo, Redo, Exchange, docVars
    <3> QED BY <1>3, <3>1
  <2>7. ~SecondFinger
    BY DEF SecondFinger
  <2> QED BY <1>2, <1>3, <1>5, <2>1, <2>2, <2>3, <2>4, <2>5, <2>6, <2>7 DEF Changing
<1>6. CASE \E d \in Docs : OpenDocument(d)
  BY <1>1, <1>6 DEF OpenDocument, BeginLoad
<1>7. CASE LoadStep
  <2>1. ASSUME NEW l \in loads, ParseDone(l)
        PROVE  UNCHANGED <<pdfData, scheduled, annotations, timer, writes, vault, gesture>>
    BY <2>1 DEF ParseDone, uiVars, backVars
  <2>2. ASSUME NEW l \in loads, LoadDone(l) PROVE ScheduleAutosave(pdfData) /\ UNCHANGED pdfData
    BY <2>2 DEF LoadDone
  <2>3. \A l \in loads : ~LoadFails(l)
    BY DEF LoadFails, TypeOK
  <2> QED BY <1>2, <1>3, <1>7, <2>1, <2>2, <2>3, NoRestoreStep DEF LoadStep, Moving
<1>8. CASE (\E p \in PagesOf(pdfDoc) : GoToPage(p)) \/ UNCHANGED vars
  <2>1. UNCHANGED <<pdfData, scheduled, annotations, timer, writes, vault, gesture>>
    BY <1>8 DEF GoToPage, vars, docVars, uiVars, backVars
  <2> QED BY <1>2, <2>1 DEF Moving
<1>9. CASE Saving
  <2>1. ~WriteFails
    BY DEF WriteFails, TypeOK
  <2> QED BY <1>9, <2>1, FiringSaves, WritingSaves DEF Saving
<1> QED BY <1>4, <1>5, <1>6, <1>7, <1>8, <1>9, NoRestoreStep DEF Next

\* With one pointer, and with nothing failing or reloaded, no change is ever
\* without a save to come: what is on screen is in the vault, on its way there,
\* or with the timer (actions.ts:77).
THEOREM EditorArmsAutosave ==
    ASSUME MaxCrashes = 0, MaxFaults = 0, Touch = FALSE
    PROVE  Spec => []AutosaveArmed
<1>1. Init => TimerCurrent /\ AutosaveArmed
  BY DEF Init, TimerCurrent, AutosaveArmed
<1>2. TypeOK /\ NoRestores /\ SelectionCurrent /\ TimerCurrent /\ AutosaveArmed /\ [Next]_vars
          => TimerCurrent' /\ AutosaveArmed'
  BY ArmedStep
<1> QED BY <1>1, <1>2, EditorTypes, Selects, PTL DEF Spec

-----------------------------------------------------------------------------
(* What is on screen, and what undo can bring back *)

\* A document that is being opened is none of those being loaded.
LoadsApart ==
    /\ \A l \in loads : l.session = NoSession => l.doc \in usedDocs
    /\ offered # NoSession => \A l \in loads : l.session = NoSession

Edits == Adding \/ Changing \/ Saving \/ (\E p \in PagesOf(pdfDoc) : GoToPage(p)) \/ UNCHANGED vars

LEMMA EditsOpenNothing ==
    ASSUME Edits PROVE UNCHANGED <<pdfData, pdfDoc, loads, openedAlone, usedDocs, offered>>
<1>1. CASE Adding
  BY <1>1
     DEF Adding, AddAtOnce, AskDialog, PickImage, ReleaseHighlight, ImageDecoded,
         ImageDropped, CancelDialog, SubmitNewText, SubmitSignature, PressHighlight,
         ReleaseTooSmall, docVars, backVars
<1>2. CASE Changing
  BY <1>2
     DEF Changing, PressAnnotation, EditText, ToggleCheckbox, MovePointer, ApplyColor,
         ApplyImageSize, SetOpacity, Restyle, SubmitTextEdit, SetTool, Deselect, PressHandle,
         ReleasePointer, SecondFinger, DeleteSelected, Undo, Redo, Exchange, docVars, backVars
<1>3. CASE Saving \/ (\E p \in PagesOf(pdfDoc) : GoToPage(p)) \/ UNCHANGED vars
  BY <1>3 DEF Saving, AutosaveFires, WriteDone, WriteFails, GoToPage, vars, docVars, backVars
<1> QED BY <1>1, <1>2, <1>3 DEF Edits

LEMMA LoadsApartStep ==
    ASSUME TypeOK, LoadsApart, [Next]_vars PROVE LoadsApart'
<1>1. CASE \E d \in Docs : OpenDocument(d)
  BY <1>1 DEF LoadsApart, OpenDocument, BeginLoad, backVars
<1>2. CASE LoadStep
  <2>1. ASSUME NEW l \in loads, ParseDone(l) PROVE LoadsApart'
    <3>1. [l EXCEPT !.phase = "draw"].session = l.session /\ [l EXCEPT !.phase = "draw"].doc = l.doc
      BY DEF TypeOK, Load
    <3> QED BY <2>1, <3>1 DEF LoadsApart, ParseDone, backVars
  <2>2. ASSUME NEW l \in loads, LoadFails(l) \/ LoadDone(l) \/ RestoreDone(l) PROVE LoadsApart'
    BY <2>2 DEF LoadsApart, LoadFails, LoadDone, RestoreDone, backVars
  <2> QED BY <1>2, <2>1, <2>2 DEF LoadStep
<1>3. CASE \E tooOld \in BOOLEAN : Reload(tooOld)
  BY <1>3 DEF LoadsApart, Reload
<1>4. CASE Restore
  BY <1>4 DEF LoadsApart, Restore, BeginLoad
<1>5. CASE Dismiss
  BY <1>5 DEF LoadsApart, Dismiss, docVars
<1>6. CASE Edits
  BY <1>6, EditsOpenNothing DEF LoadsApart
<1> QED BY <1>1, <1>2, <1>3, <1>4, <1>5, <1>6 DEF Next, Edits

\* checkpoint, undo and redo remember the state they were called in
\* (history.ts:41-75).
LEMMA CheckpointRecords ==
    ASSUME NEW T, NEW h \in Stacks(T), NEW s \in T, MaxDepth # 0
    PROVE  s \in Recorded(Checkpoint(h, s))
<1>1. h.past \in Seq(T) /\ Len(h.past) \in Nat
  BY LenProperties DEF Stacks
<1>2. PICK n \in Nat : n = Len(h.past)
  BY <1>1
<1>3. PICK pushed : pushed = Append(h.past, s)
  OBVIOUS
<1>4. pushed \in Seq(T) /\ Len(pushed) = n + 1 /\ pushed[n + 1] = s
  BY <1>1, <1>2, <1>3, AppendProperties
<1>5. CASE ~(Len(pushed) > MaxDepth)
  <2>1. Checkpoint(h, s).past = pushed
    BY <1>3, <1>5 DEF Checkpoint
  <2>2. n + 1 \in DOMAIN pushed
    BY <1>4, LenProperties
  <2> QED BY <1>4, <2>1, <2>2 DEF Recorded
<1>6. CASE Len(pushed) > MaxDepth
  <2>1. Checkpoint(h, s).past = Tail(pushed)
    BY <1>3, <1>6 DEF Checkpoint
  <2>2. n # 0
    BY <1>4, <1>6
  <2>3. pushed # <<>> /\ Tail(pushed) \in Seq(T) /\ Len(Tail(pushed)) = n
    BY <1>4, EmptySeq, HeadTailProperties
  <2>4. n \in DOMAIN Tail(pushed)
    BY <2>2, <2>3, LenProperties
  <2>5. Tail(pushed)[n] = s
    BY <1>4, <2>2
  <2> QED BY <2>1, <2>4, <2>5 DEF Recorded
<1> QED BY <1>5, <1>6

LEMMA ExchangeRecords ==
    ASSUME NEW T, NEW h \in Stacks(T), NEW s \in T
    PROVE  s \in Recorded(UndoStack(h, s)) /\ s \in Recorded(RedoStack(h, s))
<1>1. s \in Recorded(UndoStack(h, s))
  <2>1. PICK q : q = <<s>> \o h.future
    OBVIOUS
  <2>2. 1 \in DOMAIN q /\ q[1] = s
    <3>1. <<s>> \in Seq(T) /\ h.future \in Seq(T) /\ Len(<<s>>) = 1 /\ <<s>>[1] = s
      BY DEF Stacks
    <3>2. q \in Seq(T) /\ Len(q) = 1 + Len(h.future) /\ Len(h.future) \in Nat /\ q[1] = s
      BY <2>1, <3>1, ConcatProperties, LenProperties
    <3> QED BY <3>2, LenProperties
  <2>3. UndoStack(h, s).future = q
    BY <2>1 DEF UndoStack
  <2> QED BY <2>2, <2>3 DEF Recorded
<1>2. s \in Recorded(RedoStack(h, s))
  <2>1. h.past \in Seq(T) /\ Len(h.past) \in Nat
    BY LenProperties DEF Stacks
  <2>2. PICK q : q = Append(h.past, s)
    OBVIOUS
  <2>3. Len(h.past) + 1 \in DOMAIN q /\ q[Len(h.past) + 1] = s
    BY <2>1, <2>2, AppendProperties, LenProperties
  <2>4. RedoStack(h, s).past = q
    BY <2>2 DEF RedoStack
  <2> QED BY <2>3, <2>4 DEF Recorded
<1> QED BY <1>1, <1>2

LEMMA RecoverableStep ==
    ASSUME MaxDepth # 0, TypeOK, LoadsApart, [Next]_vars,
           ~Opens, ~Slides, ~Moving, annotations' # annotations \/ Moving'
    PROVE  annotations \in Recorded(history')
<1>1. ASSUME SnapshotAnnotations PROVE annotations \in Recorded(history')
  BY <1>1, CheckpointRecords DEF TypeOK, SnapshotAnnotations
<1>2. ASSUME annotations' = annotations, gesture' \in {gesture, "none", "draw"} PROVE FALSE
  BY <1>2 DEF Moving
<1>3. CASE Adding
  BY <1>1, <1>2, <1>3
     DEF Adding, AddAtOnce, AskDialog, PickImage, ReleaseHighlight, ImageDecoded,
         ImageDropped, CancelDialog, SubmitNewText, SubmitSignature, PressHighlight,
         ReleaseTooSmall, Commit, uiVars
<1>4. CASE Changing
  <2>1. ASSUME NEW a \in annotations, PressAnnotation(a) PROVE annotations \in Recorded(history')
    BY <1>1, <1>2, <2>1 DEF PressAnnotation
  <2>2. ASSUME NEW a \in annotations, EditText(a) PROVE FALSE
    BY <1>2, <2>2 DEF EditText, uiVars
  <2>3. ASSUME NEW v \in Versions, MovePointer(v) \/ SetOpacity(v) PROVE FALSE
    BY <2>3 DEF MovePointer, Moving, Slides
  <2>4. CASE (\E t \in {"select", "place"} : SetTool(t)) \/ Deselect \/ ReleasePointer \/ SecondFinger
    BY <1>2, <2>4 DEF SetTool, Deselect, ReleasePointer, SecondFinger, uiVars
  <2>5. CASE \/ \E a \in annotations, v \in Versions : ToggleCheckbox(a, v)
             \/ \E v \in Versions : ApplyColor(v) \/ ApplyImageSize(v) \/ SubmitTextEdit(v)
             \/ PressHandle \/ DeleteSelected
    BY <1>1, <2>5
       DEF ToggleCheckbox, ApplyColor, ApplyImageSize, SubmitTextEdit, PressHandle, DeleteSelected
  <2>6. CASE Undo \/ Redo
    <3>1. history \in Stacks(SUBSET Annotation) /\ annotations \in SUBSET Annotation
      BY DEF TypeOK
    <3>2. history' \in {UndoStack(history, annotations), RedoStack(history, annotations)}
      BY <2>6 DEF Undo, Redo, Exchange
    <3> QED BY <3>1, <3>2, ExchangeRecords
  <2> QED BY <1>4, <2>1, <2>2, <2>3, <2>4, <2>5, <2>6 DEF Changing
<1>5. ASSUME NEW d \in Docs, OpenDocument(d) PROVE FALSE
  <2>1. PICK l : l = [doc |-> d, phase |-> "parse", session |-> NoSession]
    OBVIOUS
  <2>2. l.doc \notin usedDocs /\ l.session = NoSession /\ loads' = loads \cup {l}
    BY <1>5, <2>1 DEF OpenDocument, BeginLoad
  <2>3. l \in loads
    BY <2>2 DEF Opens
  <2> QED BY <2>2, <2>3 DEF LoadsApart
<1>6. CASE Restore
  <2>1. PICK l : l = [doc |-> offered.doc, phase |-> "parse", session |-> offered]
    OBVIOUS
  <2>2. offered # NoSession /\ l.session = offered /\ loads' = loads \cup {l}
    BY <1>6, <2>1 DEF Restore, BeginLoad
  <2>3. l \in loads
    BY <2>2 DEF Opens
  <2> QED BY <2>2, <2>3 DEF LoadsApart
<1>7. CASE LoadStep
  <2>1. ASSUME NEW l \in loads, RestoreDone(l) PROVE FALSE
    BY <2>1 DEF RestoreDone, Opens
  <2>2. ASSUME NEW l \in loads, ParseDone(l) \/ LoadFails(l) \/ LoadDone(l) PROVE FALSE
    BY <1>2, <2>2 DEF ParseDone, LoadFails, LoadDone, uiVars
  <2> QED BY <1>7, <2>1, <2>2 DEF LoadStep
<1>8. ASSUME NEW tooOld \in BOOLEAN, Reload(tooOld) PROVE FALSE
  BY <1>8 DEF Reload, Opens, TypeOK
<1>9. CASE Dismiss \/ Saving \/ (\E p \in PagesOf(pdfDoc) : GoToPage(p)) \/ UNCHANGED vars
  BY <1>2, <1>9
     DEF Dismiss, Saving, AutosaveFires, WriteDone, WriteFails, GoToPage, vars, uiVars
<1> QED BY <1>3, <1>4, <1>5, <1>6, <1>7, <1>8, <1>9 DEF Next

\* Whatever the user does to an open document, the opacity slider excepted, the
\* state before is one that undo or redo can bring back (history.ts:7): every
\* handler that changes annotations, or starts a gesture that will, records
\* them first.
THEOREM EditorRecoverable ==
    ASSUME MaxDepth # 0 PROVE Spec => Recoverable
<1>1. Init => LoadsApart
  BY DEF Init, LoadsApart
<1>2. TypeOK /\ LoadsApart /\ [Next]_vars => LoadsApart'
  BY LoadsApartStep
<1>3. TypeOK /\ LoadsApart /\ [Next]_vars
         => [~Opens /\ ~Slides /\ ~Moving /\ (annotations' # annotations \/ Moving')
             => annotations \in Recorded(history')]_vars
  BY RecoverableStep
<1> QED BY <1>1, <1>2, <1>3, EditorTypes, PTL DEF Spec, Recoverable

\* While the document opened alone waits for the parser no other one does, and
\* once nothing waits for it the page belongs to that document.
ParsesAlone ==
    /\ AllParsed => pdfDoc = pdfData
    /\ \A l \in loads : l.phase = "parse" => l.doc = pdfData
LoadsShow == openedAlone => ParsesAlone

LEMMA ShowsStep ==
    ASSUME TypeOK, LoadsShow, [Next]_vars PROVE LoadsShow'
<1>1. ASSUME NEW d, NEW session, BeginLoad(d, session) PROVE LoadsShow'
  <2>1. PICK new : new = [doc |-> d, phase |-> "parse", session |-> session]
    OBVIOUS
  <2>2. new.doc = d /\ new.phase = "parse" /\ loads' = loads \cup {new} /\ pdfData' = d
    BY <1>1, <2>1 DEF BeginLoad
  <2>3. ~AllParsed'
    BY <2>2 DEF AllParsed
  <2>4. openedAlone' => \A l \in loads : l.phase = "draw"
    BY <1>1 DEF BeginLoad, AllParsed
  <2> QED BY <2>2, <2>3, <2>4 DEF LoadsShow, ParsesAlone
<1>2. CASE (\E d \in Docs : OpenDocument(d)) \/ Restore
  BY <1>1, <1>2 DEF OpenDocument, Restore
<1>3. CASE LoadStep
  <2>1. ASSUME NEW l \in loads, ParseDone(l) PROVE LoadsShow'
    <3>1. PICK drawn : drawn = [l EXCEPT !.phase = "draw"]
      OBVIOUS
    <3>2. drawn.phase = "draw"
      BY <3>1 DEF TypeOK, Load
    <3>3. /\ l.phase = "parse" /\ loads' = (loads \ {l}) \cup {drawn} /\ pdfDoc' = l.doc
          /\ UNCHANGED <<pdfData, openedAlone>>
      BY <2>1, <3>1 DEF ParseDone
    <3>4. CASE openedAlone
      <4>1. l.doc = pdfData /\ \A k \in loads : k.phase = "parse" => k.doc = pdfData
        BY <3>3, <3>4 DEF LoadsShow, ParsesAlone
      <4> QED BY <3>2, <3>3, <4>1 DEF LoadsShow, ParsesAlone
    <3> QED BY <3>3, <3>4 DEF LoadsShow
  <2>2. ASSUME NEW l \in loads, LoadFails(l) PROVE LoadsShow'
    <3>1. /\ loads' = loads \ {l} /\ openedAlone' = (openedAlone /\ l.phase = "draw")
          /\ UNCHANGED <<pdfData, pdfDoc>>
      BY <2>2 DEF LoadFails
    <3>2. CASE openedAlone /\ l.phase = "draw"
      BY <3>1, <3>2 DEF LoadsShow, ParsesAlone, AllParsed
    <3> QED BY <3>1, <3>2 DEF LoadsShow
  <2>3. ASSUME NEW l \in loads, LoadDone(l) \/ RestoreDone(l) PROVE LoadsShow'
    <3>1. /\ l.phase = "draw" /\ loads' = loads \ {l}
          /\ UNCHANGED <<pdfData, pdfDoc, openedAlone>>
      BY <2>3 DEF LoadDone, RestoreDone
    <3> QED BY <3>1 DEF LoadsShow, ParsesAlone, AllParsed
  <2> QED BY <1>3, <2>1, <2>2, <2>3 DEF LoadStep
<1>4. CASE \E tooOld \in BOOLEAN : Reload(tooOld)
  <2>1. loads' = {} /\ pdfData' = pdfDoc'
    BY <1>4 DEF Reload
  <2> QED BY <2>1 DEF LoadsShow, ParsesAlone
<1>5. CASE Edits \/ Dismiss
  <2>1. UNCHANGED <<pdfData, pdfDoc, loads, openedAlone>>
    BY <1>5, EditsOpenNothing DEF Dismiss, docVars
  <2> QED BY <2>1 DEF LoadsShow, ParsesAlone, AllParsed
<1> QED BY <1>2, <1>3, <1>4, <1>5 DEF Next, Edits

\* A document that is opened while no other is being parsed, and that parses, is
\* what the page shows and what saving and exporting write (main.ts:341-347),
\* with any number of loads that overlapped or failed before and of others still
\* being drawn, reloads and restores included.
THEOREM EditorShowsWhatItSaves == Spec => []ShowsWhatItSaves
<1>1. Init => LoadsShow
  BY DEF Init, LoadsShow, ParsesAlone
<1>2. TypeOK /\ LoadsShow /\ [Next]_vars => LoadsShow'
  BY ShowsStep
<1>3. LoadsShow => ShowsWhatItSaves
  BY DEF LoadsShow, ParsesAlone, ShowsWhatItSaves
<1> QED BY <1>1, <1>2, <1>3, EditorTypes, PTL DEF Spec

-----------------------------------------------------------------------------
\* The editor implements History: in every step the annotations and the stack
\* move as one of its actions, or not at all.  With HistoryIsTimeline this makes
\* the editor's undo history a line of versions.
THEOREM EditorImplementsHistory == Spec => EditorIsHistory
<1>1. Init => H!Init
  BY DEF Init, H!Init, EmptyStack, H!EmptyStack
<1>2. TypeOK /\ TypeOK' /\ [Next]_vars => [H!Next]_(H!vars)
  <2> SUFFICES ASSUME TypeOK, TypeOK', [Next]_vars PROVE [H!Next]_(H!vars)
    OBVIOUS
  <2>1. annotations' \in SUBSET Annotation
    BY DEF TypeOK
  <2>2. ASSUME SnapshotAnnotations PROVE H!Next
    BY <2>1, <2>2 DEF SnapshotAnnotations, H!Next, H!Snapshot, Checkpoint, H!Checkpoint
  <2>3. ASSUME UNCHANGED history PROVE H!Next
    BY <2>1, <2>3 DEF H!Next, H!Mutate
  <2>4. ASSUME annotations' = {}, history' = EmptyStack PROVE H!Next
    BY <2>4 DEF H!Next, H!Clear, EmptyStack, H!EmptyStack
  <2>5. CASE Undo
    BY <2>5 DEF Undo, Exchange, H!Next, H!Undo, CanUndo, UndoResult, UndoStack,
                 H!CanUndo, H!UndoResult, H!UndoStack
  <2>6. CASE Redo
    BY <2>6 DEF Redo, Exchange, H!Next, H!Redo, CanRedo, RedoResult, RedoStack,
                 H!CanRedo, H!RedoResult, H!RedoStack
  <2>7. CASE Changing
    BY <2>2, <2>3, <2>5, <2>6, <2>7
       DEF Changing, PressAnnotation, EditText, ToggleCheckbox, MovePointer, ApplyColor,
           ApplyImageSize, SetOpacity, SubmitTextEdit, SetTool, Deselect, PressHandle,
           ReleasePointer, SecondFinger, DeleteSelected
  <2>8. CASE Adding
    BY <2>2, <2>3, <2>8
       DEF Adding, AddAtOnce, AskDialog, PickImage, ReleaseHighlight, ImageDecoded,
           ImageDropped, CancelDialog, SubmitNewText, SubmitSignature, PressHighlight,
           ReleaseTooSmall, Commit
  <2>9. CASE \/ \E d \in Docs : OpenDocument(d)
             \/ \E tooOld \in BOOLEAN : Reload(tooOld)
             \/ Restore
    BY <2>4, <2>9 DEF OpenDocument, Reload, Restore, BeginLoad
  <2>10. CASE LoadStep \/ (\E p \in PagesOf(pdfDoc) : GoToPage(p)) \/ Saving \/ Dismiss
    BY <2>3, <2>10
       DEF LoadStep, ParseDone, LoadFails, LoadDone, RestoreDone, GoToPage, Saving,
           AutosaveFires, WriteDone, WriteFails, Dismiss
  <2>11. CASE UNCHANGED vars
    BY <2>3, <2>11 DEF vars, H!vars
  <2> QED
    BY <2>7, <2>8, <2>9, <2>10, <2>11 DEF Next
<1> QED
  BY <1>1, <1>2, EditorTypes, PTL DEF Spec, EditorIsHistory, H!Spec
=============================================================================
