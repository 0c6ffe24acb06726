------------------------------ MODULE PanelDock ------------------------------
(* Collapsing the agent panel into its round button and expanding it again,  *)
(* src/src/components/AgentPanel.ts setCollapsed.  Both are animations the   *)
(* user can turn around half way; what is left to do is done by listeners    *)
(* for the end of an animation, of any animation, each of them once.         *)

VARIABLES
    collapsed,
    hidden, fab,        \* the panel has agent-panel-collapsed, the button is visible
    genie,              \* the animation classes on the panel
    playing,            \* an animation is under way
    onEnd,              \* listeners waiting for animationend
    storedCollapsed

dockVars == <<collapsed, hidden, fab, genie, playing, onEnd, storedCollapsed>>

Ways == {"out", "in"}

DockTypeOK ==
    /\ {collapsed, hidden, fab, playing, storedCollapsed} \subseteq BOOLEAN
    /\ genie \subseteq Ways /\ onEnd \subseteq Ways

\* setCollapsed without animation, with what the last visit stored.
AtOnce(stored) ==
    /\ collapsed = stored /\ hidden = stored /\ fab = stored
    /\ genie = {} /\ playing = FALSE /\ onEnd = {}

DockInit == storedCollapsed \in BOOLEAN /\ AtOnce(storedCollapsed)

\* The classes are removed, so an animation under way never ends.  The state
\* is stored, or the write is refused.
TurnAround(c, way) ==
    /\ collapsed' = c /\ storedCollapsed' \in {c, storedCollapsed}
    /\ hidden' = FALSE /\ genie' = {way} /\ playing' = TRUE
    /\ onEnd' = onEnd \cup {way}

\* The button in the header toggles, whatever is under way.
Collapse == ~hidden /\ ~collapsed /\ TurnAround(TRUE, "out") /\ UNCHANGED fab

Expand ==
    /\ collapsed /\ (~hidden \/ fab)
    /\ TurnAround(FALSE, "in") /\ fab' = FALSE

\* Variant: the listener of a collapse does not ask what has happened since.
AnimationEndsRegardless ==
    /\ playing /\ playing' = FALSE
    /\ onEnd' = {}
    /\ genie' = genie \ onEnd
    /\ hidden' = (hidden \/ "out" \in onEnd)
    /\ fab' = (fab \/ "out" \in onEnd)
    /\ UNCHANGED <<collapsed, storedCollapsed>>

\* All listeners are called.  That of a collapse does nothing after an expand.
AnimationEnds ==
    LET collapses == "out" \in onEnd /\ collapsed IN
    /\ playing /\ playing' = FALSE
    /\ onEnd' = {}
    /\ genie' = genie \ ((onEnd \ {"out"}) \cup IF collapses THEN {"out"} ELSE {})
    /\ hidden' = (hidden \/ collapses)
    /\ fab' = (fab \/ collapses)
    /\ UNCHANGED <<collapsed, storedCollapsed>>

ReloadDock ==
    /\ collapsed' = storedCollapsed /\ hidden' = storedCollapsed /\ fab' = storedCollapsed
    /\ genie' = {} /\ playing' = FALSE /\ onEnd' = {}
    /\ UNCHANGED storedCollapsed

DockNext == Collapse \/ Expand \/ AnimationEnds \/ ReloadDock

-----------------------------------------------------------------------------
(* Properties *)

\* However often and in the middle of whatever the panel is turned around, when
\* nothing moves it is either on screen without the round button or away with
\* it, as collapsed says, and no animation class is left over: there is always
\* one control that brings the other back.
DockAtRest ==
    ~playing => /\ hidden = collapsed /\ fab = collapsed
                /\ genie = {}
=============================================================================
