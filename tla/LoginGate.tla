------------------------------ MODULE LoginGate ------------------------------
(* The sign-in before the editor, src/src/components/login-gate.ts.  Every   *)
(* change of mode renders a new form into the element the editor will use;   *)
(* probes of xcm_auth and logins go on when their form has been replaced,    *)
(* and answer, fail or are aborted by fetchWithTimeout at any time.          *)
EXTENDS FiniteSets, Integers

CONSTANTS
    Requests,           \* probes of /health and posts to /auth/login, each used once
    MaxStorageFaults    \* writes localStorage refuses

ASSUME LoginGateAssumption == IsFiniteSet(Requests) /\ MaxStorageFaults \in Nat

Modes == {"xcm_auth", "fallback"}
NoMode == "none"

VARIABLES
    screen,         \* what the app element holds: "blank", "form" or "editor"
    entered,        \* the promise is resolved
    mode, shown,    \* the variable, and what the form on screen says
    disabled,       \* the buttons of the form on screen
    rememberMe,
    request,        \* own: its form is still the one on screen
    remembered,     \* the three keys in localStorage
    sessionMode,    \* xcm_editor_auth_mode in sessionStorage
    storageFaults

gateVars == <<screen, entered, mode, shown, disabled, rememberMe, request,
              remembered, sessionMode, storageFaults>>

Kept == [me : BOOLEAN, username : BOOLEAN, mode : Modes \cup {NoMode}]
Forgotten == [me |-> FALSE, username |-> FALSE, mode |-> NoMode]
AllKept(m) == [me |-> TRUE, username |-> TRUE, mode |-> m]
NotSent == [what |-> "idle", own |-> FALSE]

LoginGateTypeOK ==
    /\ screen \in {"blank", "form", "editor"}
    /\ {entered, disabled, rememberMe} \subseteq BOOLEAN
    /\ {mode, shown} \subseteq Modes
    /\ request \in [Requests -> [what : {"idle", "probe", "login", "over"}, own : BOOLEAN]]
    /\ remembered \in Kept /\ sessionMode \in Modes \cup {NoMode}
    /\ storageFaults \in 0 .. MaxStorageFaults

LoginGateInit ==
    /\ screen = "blank" /\ entered = FALSE
    /\ mode = "fallback" /\ shown = "fallback" /\ disabled = FALSE
    /\ remembered \in {Forgotten} \cup {AllKept(m) : m \in Modes}
    /\ rememberMe = remembered.me
    /\ request = [r \in Requests |-> NotSent]
    /\ sessionMode = NoMode /\ storageFaults = 0

Send(r, what) == request' = [request EXCEPT ![r] = [what |-> what, own |-> TRUE]]
Ended(r) == request' = [request EXCEPT ![r] = [what |-> "over", own |-> FALSE]]
Stores == UNCHANGED <<remembered, sessionMode, storageFaults>>

\* render replaces the form, whoever looks at the element; the request that
\* asked for it, if any, is over.
RenderForm(m, asking) ==
    /\ mode' = m /\ shown' = m /\ screen' = "form" /\ disabled' = FALSE
    /\ request' = [r \in Requests |->
                      IF r \in asking THEN [what |-> "over", own |-> FALSE]
                      ELSE [request[r] EXCEPT !.own = FALSE]]

\* requireEditorLogin: the first probe answers; the remembered mode is taken
\* if it is available.
FirstProbe(available) ==
    /\ screen = "blank"
    /\ RenderForm(IF available /\ remembered.mode # "fallback" THEN "xcm_auth" ELSE "fallback", {})
    /\ UNCHANGED <<entered, rememberMe>> /\ Stores

ChangeRemember ==
    /\ screen = "form" /\ rememberMe' = ~rememberMe
    /\ UNCHANGED <<screen, entered, mode, shown, disabled, request>> /\ Stores

\* The Use button, in xcm_auth mode.
UseFallback ==
    /\ screen = "form" /\ ~disabled /\ mode = "xcm_auth"
    /\ RenderForm("fallback", {})
    /\ UNCHANGED <<entered, rememberMe>> /\ Stores

\* The Use button, in fallback mode: the form stays enabled meanwhile.
UseXcmAuth(r) ==
    /\ screen = "form" /\ ~disabled /\ mode = "fallback" /\ request[r] = NotSent
    /\ Send(r, "probe")
    /\ UNCHANGED <<screen, entered, mode, shown, disabled, rememberMe>> /\ Stores

ProbeAnswers(r, available) ==
    /\ request[r].what = "probe"
    /\ RenderForm(IF available THEN "xcm_auth" ELSE "fallback", {r})
    /\ UNCHANGED <<entered, rememberMe>> /\ Stores

\* persistRememberState, sessionStorage, resolve: the editor is made once, in
\* the same element.
Enter(m) ==
    /\ remembered' = IF rememberMe THEN AllKept(m) ELSE Forgotten
    /\ sessionMode' = m
    /\ entered' = TRUE /\ screen' = IF entered THEN screen ELSE "editor"
    /\ UNCHANGED storageFaults

\* One of the writes throws: the keys before it are written.
EnterFails(m) ==
    /\ storageFaults < MaxStorageFaults /\ storageFaults' = storageFaults + 1
    /\ \/ ~rememberMe /\ remembered' = Forgotten
       \/ rememberMe /\ remembered' \in {remembered, [remembered EXCEPT !.me = TRUE],
                                         AllKept(remembered.mode), AllKept(m)}
    /\ UNCHANGED <<entered, screen, sessionMode>>

\* Signing in is answered in the same turn; the buttons are enabled again.
SubmitFallback(ok) ==
    /\ screen = "form" /\ ~disabled /\ mode = "fallback"
    /\ \/ ok /\ (Enter("fallback") \/ EnterFails("fallback"))
       \/ ~ok /\ UNCHANGED <<entered, screen>> /\ Stores
    /\ UNCHANGED <<mode, shown, disabled, rememberMe, request>>

SubmitXcmAuth(r) ==
    /\ screen = "form" /\ ~disabled /\ mode = "xcm_auth" /\ request[r] = NotSent
    /\ disabled' = TRUE /\ Send(r, "login")
    /\ UNCHANGED <<screen, entered, mode, shown, rememberMe>> /\ Stores

\* finally: the buttons of the form that sent it.
Enabled(r) == disabled' = (disabled /\ ~request[r].own)

LoginAccepted(r) ==
    /\ request[r].what = "login"
    /\ Enter("xcm_auth") \/ EnterFails("xcm_auth")
    /\ Enabled(r) /\ Ended(r)
    /\ UNCHANGED <<mode, shown, rememberMe>>

\* Wrong password, or an account with a second factor.
LoginRefused(r) ==
    /\ request[r].what = "login"
    /\ Enabled(r) /\ Ended(r)
    /\ UNCHANGED <<screen, entered, mode, shown, rememberMe>> /\ Stores

\* Variant: the mode changes and the form does not.
LoginUnavailableQuietly(r) ==
    /\ request[r].what = "login"
    /\ mode' = "fallback" /\ Enabled(r) /\ Ended(r)
    /\ UNCHANGED <<screen, entered, shown, rememberMe>> /\ Stores

\* No answer, or none in time.
LoginUnavailable(r) ==
    /\ request[r].what = "login"
    /\ RenderForm("fallback", {r})
    /\ UNCHANGED <<entered, rememberMe>> /\ Stores

LoginGateNext ==
    \/ ChangeRemember \/ UseFallback
    \/ \E ok \in BOOLEAN : FirstProbe(ok) \/ SubmitFallback(ok)
    \/ \E r \in Requests : \/ UseXcmAuth(r) \/ SubmitXcmAuth(r)
                           \/ \E ok \in BOOLEAN : ProbeAnswers(r, ok)
                           \/ LoginAccepted(r) \/ LoginRefused(r) \/ LoginUnavailable(r)

-----------------------------------------------------------------------------
(* Properties *)

\* Whatever answers when, the form on screen says where its next submission
\* will go, and its buttons are disabled exactly while its own login is under
\* way: no form is stuck, and none sends two logins at a time.
FormFollowsLogin ==
    screen = "form" =>
        /\ shown = mode
        /\ disabled <=> \E r \in Requests : request[r].what = "login" /\ request[r].own
=============================================================================
