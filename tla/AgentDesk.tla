------------------------------ MODULE AgentDesk ------------------------------
(* The agents at work on what the user is looking at: the chat of AgentPanel *)
(* and the pages of Viewer, joined by runEditorCommand, which is             *)
(* src/src/editor/agent-runtime.ts.  go_to_page is answered when the page    *)
(* has been rendered, zoom_in and zoom_out without waiting.  The call of the *)
(* viewer that a card leads to has the card's number; others are the user's. *)
EXTENDS Viewer, AgentPanel

ASSUME AgentDeskAssumption == 1 .. MaxCards \subseteq Views

deskVars == <<viewerVars, chatVars>>

DeskTypeOK == ViewerTypeOK /\ AgentPanelTypeOK
DeskInit == ViewerInit /\ AgentPanelInit

CardAt(i) == messages[i].card

\* The thumbnails, the page buttons and the zoom buttons.  Bound: only while an
\* agent is at work, as Viewer by itself is all there is to see otherwise.
UserMayLook == jobs # {}
UserLooks(v) ==
    /\ UserMayLook /\ v \notin 1 .. MaxCards
    /\ (\E page \in Pages : GoTo(v, page)) \/ (\E step \in {-1, 1} : Zoom(v, step))
    /\ UNCHANGED chatVars

\* A page the document has not got is passed over, and "Navigated" all the same.
ApproveGoTo(i) ==
    /\ messages[i].tool = "go_to_page"
    /\ \/ (\E page \in Pages : GoTo(CardAt(i), page)) /\ ApproveAndWait(i)
       \/ UNCHANGED viewerVars /\ ApproveAtOnce(i, TRUE)

\* A zoom at its limit stays there; the answer does not tell.
ApproveZoom(i) ==
    /\ messages[i].tool = "zoom"
    /\ (\E step \in {-1, 1} : Zoom(CardAt(i), step)) \/ UNCHANGED viewerVars
    /\ ApproveAtOnce(i, TRUE)

\* set_tool, canvas_click, delete_selected_annotation: done or refused at once.
ApproveOther(i) ==
    /\ messages[i].tool = "other"
    /\ \E ok \in BOOLEAN : ApproveAtOnce(i, ok)
    /\ UNCHANGED viewerVars

PageAnswers(j) ==
    /\ view[j.card].stage \in {"shown", "rejected"}
    /\ Answer(j, view[j.card].stage = "shown")
    /\ UNCHANGED viewerVars

ReloadDesk == ReloadChat /\ ViewerGone

DeskNext ==
    \/ \E v \in Views : UserLooks(v)
    \/ ViewerGoesOn /\ UNCHANGED chatVars
    \/ ChatGoesOn /\ UNCHANGED viewerVars
    \/ \E i \in CardsOf(messages) : ApproveGoTo(i) \/ ApproveZoom(i) \/ ApproveOther(i)
    \/ \E j \in jobs : PageAnswers(j)
    \/ ReloadDesk
=============================================================================
