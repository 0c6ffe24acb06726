------------------------------- MODULE Browser -------------------------------
(* The parts of the page around the editor's document, each with its own     *)
(* asynchronous steps: the sign-in, the merge dialog, the signature pad, the *)
(* dock of the agent panel, exports, the pages on screen, and the agents     *)
(* that turn them.  Except for the last two, which AgentDesk joins, no part  *)
(* reads or writes a variable of another: a behaviour of all of them at once *)
(* is an interleaving of behaviours of each, so each is followed by itself.  *)
EXTENDS LoginGate, MergeModal, Signatures, PanelDock, Exporter, AgentDesk

VARIABLE part       \* the one that is followed

browserVars == <<part, gateVars, mergeVars, signVars, dockVars, exportVars, deskVars>>

Parts == {"gate", "merge", "pad", "dock", "export", "view", "desk"}

BrowserTypeOK ==
    /\ part \in Parts
    /\ LoginGateTypeOK /\ MergeTypeOK /\ SignaturesTypeOK /\ DockTypeOK
    /\ ExporterTypeOK /\ DeskTypeOK

\* Parts that are not followed stay in one of their initial states.
BrowserInit ==
    /\ part \in Parts
    /\ LoginGateInit /\ (part # "gate" => remembered = Forgotten)
    /\ SignaturesInit /\ (part # "pad" => oldPair = NoKey)
    /\ DockInit /\ (part # "dock" => ~storedCollapsed)
    /\ MergeInit /\ ExporterInit
    /\ DeskInit /\ (IF part = "view" THEN thumbnails = 0 ELSE thumbnails = LastPage)

\* In the view part all calls of the viewer are the user's.
LooksOnly ==
    /\ \/ \E v \in Views : \/ \E page \in Pages : GoTo(v, page)
                           \/ \E step \in {-1, 1} : Zoom(v, step)
       \/ ViewerGoesOn
    /\ UNCHANGED chatVars

BrowserNext ==
    /\ UNCHANGED part
    /\ IF part = "gate" THEN LoginGateNext ELSE UNCHANGED gateVars
    /\ IF part = "merge" THEN MergeNext ELSE UNCHANGED mergeVars
    /\ IF part = "pad" THEN SignaturesNext ELSE UNCHANGED signVars
    /\ IF part = "dock" THEN DockNext ELSE UNCHANGED dockVars
    /\ IF part = "export" THEN ExporterNext ELSE UNCHANGED exportVars
    /\ \/ part = "view" /\ LooksOnly
       \/ part = "desk" /\ DeskNext
       \/ part \notin {"view", "desk"} /\ UNCHANGED deskVars

BrowserSpec == BrowserInit /\ [][BrowserNext]_browserVars

-----------------------------------------------------------------------------
(* Properties *)

\* However often a dialog's button is pressed while its answer is computed, and
\* whatever is closed and opened again meanwhile, one opening of the merge
\* dialog loads one document and one opening of the pad inserts one signature.
DialogsAnswerOnce == DeliversOnce /\ OnePerOpening
=============================================================================
