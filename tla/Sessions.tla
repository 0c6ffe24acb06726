------------------------------ MODULE Sessions ------------------------------
(* The refresh sessions of one user of the auth service: the handlers        *)
(* Verify2FA, Refresh, Logout, LogoutAll and ResetPassword of                *)
(* src/xcm_auth/api/handlers_auth.go and the administrator's handlers of     *)
(* handlers_user.go, each request a goroutine of its own, over the tables    *)
(* sessions and users (db/sqlite.go), one statement at a time.  A session is *)
(* known by its refresh token.                                               *)
EXTENDS Integers, FiniteSets

CONSTANTS
    Tokens,       \* refresh tokens that may be issued
    Requests,     \* goroutines
    None,         \* no session: a request that logs in
    MaxFaults,    \* statements that fail
    MaxEpochs     \* times all sessions are revoked

ASSUME SessionsAssumption ==
    /\ IsFiniteSet(Requests) /\ IsFiniteSet(Tokens)
    /\ None \notin Tokens
    /\ MaxFaults \in Nat /\ MaxEpochs \in Nat

VARIABLES
    live,       \* rows that are neither revoked nor expired
    isActive,   \* users.is_active
    pc,         \* what a request does next
    sess,       \* the session a request has looked up
    epoch,      \* times all sessions were revoked
    begun,      \* epoch when the request looked at the session or the code
    issued,     \* tokens that were stored
    parent,     \* the token one was rotated from
    login,      \* the first token of the login one comes from
    since,      \* the epoch of a login
    strays,     \* tokens a request issued that was in flight when all were
                \* revoked, and those rotated from them
    ended,      \* logins of which a session was logged out, has expired or
                \* was lost to a statement that failed
    faults

requestVars == <<pc, sess, begun>>
tokenVars   == <<issued, parent, login, since, strays>>

vars == <<live, isActive, epoch, requestVars, tokenVars, ended, faults>>

TypeOK ==
    /\ live \in SUBSET issued /\ issued \in SUBSET Tokens
    /\ isActive \in BOOLEAN
    /\ pc \in [Requests -> {"idle", "user", "revoke", "issue"}]
    /\ sess \in [Requests -> Tokens \cup {None}]
    /\ epoch \in 0 .. MaxEpochs
    /\ begun \in [Requests -> 0 .. MaxEpochs]
    /\ parent \in [Tokens -> Tokens \cup {None}]
    /\ login \in [Tokens -> Tokens]
    /\ since \in [Tokens -> 0 .. MaxEpochs]
    /\ strays \in SUBSET issued
    /\ ended \in SUBSET Tokens
    /\ faults \in 0 .. MaxFaults

Init ==
    /\ live = {} /\ isActive = TRUE
    /\ pc = [r \in Requests |-> "idle"]
    /\ sess = [r \in Requests |-> None]
    /\ epoch = 0 /\ begun = [r \in Requests |-> 0]
    /\ issued = {} /\ strays = {} /\ ended = {}
    /\ parent = [t \in Tokens |-> None]
    /\ login = [t \in Tokens |-> t]
    /\ since = [t \in Tokens |-> 0]
    /\ faults = 0

Goes(r, from, to) == pc[r] = from /\ pc' = [pc EXCEPT ![r] = to]

Fails == faults < MaxFaults /\ faults' = faults + 1

\* A statement takes effect, or fails and the handler only logs that.
Logged(effect, nothing) == (effect /\ UNCHANGED faults) \/ (nothing /\ Fails)

-----------------------------------------------------------------------------
(* Login and rotation *)

\* Verify2FA: the code is right.  Whether the user is active was asked when
\* the password was checked and is not asked again.
LogIn(r) ==
    /\ Goes(r, "idle", "issue")
    /\ sess' = [sess EXCEPT ![r] = None]
    /\ begun' = [begun EXCEPT ![r] = epoch]
    /\ UNCHANGED <<live, isActive, epoch, tokenVars, ended, faults>>

\* Variant: whether the session was revoked is not asked.
LookupRevoked(r, t) ==
    /\ t \in issued
    /\ Goes(r, "idle", "user")
    /\ sess' = [sess EXCEPT ![r] = t]
    /\ begun' = [begun EXCEPT ![r] = epoch]
    /\ UNCHANGED <<live, isActive, epoch, tokenVars, ended, faults>>

\* Refresh with a token that is still good; any other is refused.
Lookup(r, t) ==
    /\ t \in live
    /\ Goes(r, "idle", "user")
    /\ sess' = [sess EXCEPT ![r] = t]
    /\ begun' = [begun EXCEPT ![r] = epoch]
    /\ UNCHANGED <<live, isActive, epoch, tokenVars, ended, faults>>

\* Variant: the session is revoked before the account is looked at.
CheckUserLate(r, found) ==
    /\ Goes(r, "user", IF found /\ isActive THEN "revoke" ELSE "idle")
    /\ live' = live \ {sess[r]}
    /\ UNCHANGED <<isActive, sess, epoch, begun, tokenVars, ended, faults>>

\* The account must be found and active.
CheckUser(r, found) ==
    /\ Goes(r, "user", IF found /\ isActive THEN "revoke" ELSE "idle")
    /\ UNCHANGED <<live, isActive, sess, epoch, begun, tokenVars, ended, faults>>

RevokeOld(r) ==
    /\ Goes(r, "revoke", "issue")
    /\ Logged(live' = live \ {sess[r]}, UNCHANGED live)
    /\ UNCHANGED <<isActive, sess, epoch, begun, tokenVars, ended>>

\* issueTokens: CreateSession.
Issue(r, t) ==
    /\ t \notin issued
    /\ Goes(r, "issue", "idle")
    /\ live' = live \cup {t} /\ issued' = issued \cup {t}
    /\ parent' = [parent EXCEPT ![t] = sess[r]]
    /\ login' = [login EXCEPT ![t] = IF sess[r] = None THEN t ELSE login[sess[r]]]
    /\ since' = [since EXCEPT ![t] = begun[r]]
    /\ strays' = IF begun[r] < epoch \/ sess[r] \in strays THEN strays \cup {t} ELSE strays
    /\ UNCHANGED <<isActive, sess, epoch, begun, ended, faults>>

\* The old session is gone and the client gets no new one.
IssueFails(r) ==
    /\ Goes(r, "issue", "idle") /\ Fails
    /\ ended' = IF sess[r] = None THEN ended ELSE ended \cup {login[sess[r]]}
    /\ UNCHANGED <<live, isActive, sess, epoch, begun, tokenVars>>

-----------------------------------------------------------------------------
(* Revocation, expiry, administration *)

\* Logout, and the passing of the time a refresh token is good for.
LogOut(t) ==
    /\ t \in live
    /\ live' = live \ {t}
    /\ ended' = ended \cup {login[t]}
    /\ UNCHANGED <<isActive, epoch, requestVars, tokenVars, faults>>

\* Variant: the session of the request itself is spared.
RevokeAllButOne ==
    /\ epoch < MaxEpochs /\ epoch' = epoch + 1
    /\ \E t \in Tokens : live' = live \cap {t}
    /\ UNCHANGED <<isActive, requestVars, tokenVars, ended, faults>>

\* LogoutAll, ResetPassword.  When the statement fails nothing is changed;
\* ResetPassword reports success all the same.
RevokeAll ==
    /\ epoch < MaxEpochs /\ epoch' = epoch + 1
    /\ live' = {}
    /\ UNCHANGED <<isActive, requestVars, tokenVars, ended, faults>>

\* AdminUpdateUser and AdminDeactivateUser, by what they write.
SetActive ==
    /\ isActive' \in BOOLEAN \ {isActive}
    /\ UNCHANGED <<live, epoch, requestVars, tokenVars, ended, faults>>

Next ==
    \/ \E r \in Requests :
          \/ LogIn(r) \/ RevokeOld(r) \/ IssueFails(r)
          \/ \E t \in Tokens : Lookup(r, t) \/ Issue(r, t)
          \/ \E found \in BOOLEAN : CheckUser(r, found)
    \/ \E t \in Tokens : LogOut(t)
    \/ RevokeAll \/ SetActive

Spec == Init /\ [][Next]_vars

-----------------------------------------------------------------------------
(* Properties *)

\* "Refresh rotates the refresh token" (handlers_auth.go:356): a token is good
\* for one rotation by each request that overlaps, and for one more each time
\* revoking it failed.
Rotated(t)  == {u \in issued : parent[u] = t}
Rotating(t) == {r \in Requests : pc[r] # "idle" /\ sess[r] = t}
RotationBounded ==
    \A t \in Tokens :
        Cardinality(Rotated(t)) + Cardinality(Rotating(t)) <= Cardinality(Requests) + faults

\* "Revoke all sessions - force re-login on all devices" (handlers_auth.go:611):
\* a session of an earlier login is good only if a request that was in flight
\* at that moment issued it or one it was rotated from.
OnlyStraysSurvive == \A t \in live : since[login[t]] < epoch => t \in strays

\* However often a client refreshes, and whoever refreshes the same token, it
\* keeps a session it can refresh or is about to get one, until one is logged
\* out, expires, is revoked with all others or is lost to a failing statement.
LoginContinues ==
    \A t \in issued \ strays :
        \/ login[t] \in ended
        \/ since[login[t]] < epoch
        \/ \E u \in live : login[u] = login[t]
        \/ \E r \in Requests :
               pc[r] = "issue" /\ sess[r] \in issued /\ login[sess[r]] = login[t]
=============================================================================
