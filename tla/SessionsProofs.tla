--------------------------- MODULE SessionsProofs ---------------------------
(* What Sessions promises for any number of requests, tokens, failing        *)
(* statements and revocations.                                               *)
EXTENDS Sessions, Integers, FiniteSets, FiniteSetTheorems, TLAPS

-----------------------------------------------------------------------------
(* How the size of a finite set compares with that of one with an element    *)
(* more or less.                                                             *)

\* A part of a finite set is finite and has no more elements.
LEMMA PartOf ==
    ASSUME NEW S, IsFiniteSet(S), NEW T, T \subseteq S
    PROVE  IsFiniteSet(T) /\ Cardinality(T) \in Nat /\ Cardinality(S) \in Nat
           /\ Cardinality(T) <= Cardinality(S)
<1>1. T \in SUBSET S
  OBVIOUS
<1>2. IsFiniteSet(T) /\ Cardinality(T) <= Cardinality(S)
  BY <1>1, FS_Subset
<1>3. Cardinality(T) \in Nat /\ Cardinality(S) \in Nat
  BY <1>2, FS_CardinalityType
<1> QED BY <1>2, <1>3

\* Adding at most one element adds at most one.
LEMMA OneMore ==
    ASSUME NEW S, IsFiniteSet(S), NEW x, NEW T, T \subseteq S \cup {x}
    PROVE  IsFiniteSet(T) /\ Cardinality(T) \in Nat /\ Cardinality(S) \in Nat
           /\ Cardinality(T) <= Cardinality(S) + 1
<1>1. IsFiniteSet(S \cup {x}) /\ Cardinality(S \cup {x}) <= Cardinality(S) + 1
  <2>1. Cardinality(S) \in Nat
    BY FS_CardinalityType
  <2> QED BY <2>1, FS_AddElement
<1>2. IsFiniteSet(T) /\ Cardinality(T) <= Cardinality(S \cup {x})
      /\ Cardinality(T) \in Nat /\ Cardinality(S \cup {x}) \in Nat
  BY <1>1, PartOf
<1>3. Cardinality(S) \in Nat
  BY FS_CardinalityType
<1> QED BY <1>1, <1>2, <1>3

\* Taking an element away takes one away.
LEMMA OneLess ==
    ASSUME NEW S, IsFiniteSet(S), NEW x \in S, NEW T, T \subseteq S \ {x}
    PROVE  IsFiniteSet(T) /\ Cardinality(T) \in Nat /\ Cardinality(S) \in Nat
           /\ Cardinality(T) <= Cardinality(S) - 1
<1>1. IsFiniteSet(S \ {x}) /\ Cardinality(S \ {x}) = Cardinality(S) - 1
  BY FS_RemoveElement
<1>2. IsFiniteSet(T) /\ Cardinality(T) <= Cardinality(S \ {x}) /\ Cardinality(T) \in Nat
  BY <1>1, PartOf
<1>3. Cardinality(S) \in Nat
  BY FS_CardinalityType
<1> QED BY <1>1, <1>2, <1>3

-----------------------------------------------------------------------------

\* Only stored sessions are looked up and rotated.
Links ==
    /\ \A t \in issued : parent[t] \in issued \cup {None} /\ login[t] \in issued
    /\ \A r \in Requests : pc[r] # "idle" => sess[r] \in issued \cup {None}

\* While a token is good, only requests whose revocation failed have rotated
\* it or are about to.
Issuing(t) == {r \in Requests : pc[r] = "issue" /\ sess[r] = t}
Budget ==
    \A t \in Tokens : t \in live => Cardinality(Rotated(t)) + Cardinality(Issuing(t)) <= faults

\* Who looked at a good session since the last revocation of everything is
\* going to renew a login made since.
Epochs ==
    /\ \A t \in Tokens : since[t] <= epoch
    /\ \A r \in Requests : begun[r] <= epoch
    /\ \A r \in Requests :
          pc[r] # "idle" /\ sess[r] # None /\ sess[r] \notin strays /\ begun[r] = epoch
             => since[login[sess[r]]] = epoch

IInv ==
    /\ TypeOK /\ Links /\ Budget /\ RotationBounded
    /\ Epochs /\ OnlyStraysSurvive /\ LoginContinues

-----------------------------------------------------------------------------
(* Types *)

LEMMA TypesStart == ASSUME Init PROVE TypeOK
<1>1. isActive \in BOOLEAN
  BY Zenon DEF Init
<1>2. epoch \in 0 .. MaxEpochs /\ faults \in 0 .. MaxFaults
  BY SessionsAssumption DEF Init
<1>3. /\ pc \in [Requests -> {"idle", "user", "revoke", "issue"}]
      /\ sess \in [Requests -> Tokens \cup {None}]
      /\ begun \in [Requests -> 0 .. MaxEpochs]
  BY SessionsAssumption DEF Init
<1>4. /\ parent \in [Tokens -> Tokens \cup {None}] /\ login \in [Tokens -> Tokens]
      /\ since \in [Tokens -> 0 .. MaxEpochs]
  BY SessionsAssumption DEF Init
<1>5. /\ live \in SUBSET issued /\ issued \in SUBSET Tokens
      /\ strays \in SUBSET issued /\ ended \in SUBSET Tokens
  BY DEF Init
<1> QED BY <1>1, <1>2, <1>3, <1>4, <1>5 DEF TypeOK

LEMMA MovesOn ==
    ASSUME TypeOK, NEW r \in Requests, NEW from,
           NEW to \in {"idle", "user", "revoke", "issue"}, Goes(r, from, to)
    PROVE  /\ pc[r] = from /\ pc'[r] = to
           /\ \A q \in Requests : q # r => pc'[q] = pc[q]
           /\ pc' \in [Requests -> {"idle", "user", "revoke", "issue"}]
BY DEF TypeOK, Goes

LEMMA LoggedFaults ==
    ASSUME TypeOK, faults' = faults \/ Fails
    PROVE  faults' \in 0 .. MaxFaults /\ faults' \in Nat /\ faults \in Nat /\ faults' >= faults
BY SessionsAssumption DEF TypeOK, Fails

LEMMA TypesKept == ASSUME TypeOK, Links, [Next]_vars PROVE TypeOK'
<1>1. ASSUME NEW r \in Requests, LogIn(r) PROVE TypeOK'
  <2>1. pc' \in [Requests -> {"idle", "user", "revoke", "issue"}]
    BY <1>1, MovesOn DEF LogIn
  <2> QED BY <1>1, <2>1 DEF LogIn, TypeOK, tokenVars
<1>2. ASSUME NEW r \in Requests, NEW t \in Tokens, Lookup(r, t) PROVE TypeOK'
  <2>1. pc' \in [Requests -> {"idle", "user", "revoke", "issue"}]
    BY <1>2, MovesOn DEF Lookup
  <2> QED BY <1>2, <2>1 DEF Lookup, TypeOK, tokenVars
<1>3. ASSUME NEW r \in Requests, NEW found \in BOOLEAN, CheckUser(r, found) PROVE TypeOK'
  <2>1. pc' \in [Requests -> {"idle", "user", "revoke", "issue"}]
    BY <1>3, MovesOn DEF CheckUser
  <2> QED BY <1>3, <2>1 DEF CheckUser, TypeOK, tokenVars
<1>4. ASSUME NEW r \in Requests, RevokeOld(r) PROVE TypeOK'
  <2>1. pc' \in [Requests -> {"idle", "user", "revoke", "issue"}]
    BY <1>4, MovesOn DEF RevokeOld
  <2>2. faults' \in 0 .. MaxFaults
    BY <1>4, LoggedFaults DEF RevokeOld, Logged
  <2>3. live' \in SUBSET issued
    BY <1>4 DEF RevokeOld, Logged, TypeOK
  <2> QED BY <1>4, <2>1, <2>2, <2>3 DEF RevokeOld, TypeOK, tokenVars
<1>5. ASSUME NEW r \in Requests, NEW t \in Tokens, Issue(r, t) PROVE TypeOK'
  <2>1. pc' \in [Requests -> {"idle", "user", "revoke", "issue"}]
    BY <1>5, MovesOn DEF Issue
  <2>2. /\ live' \in SUBSET issued' /\ issued' \in SUBSET Tokens
        /\ strays' \in SUBSET issued'
    BY <1>5 DEF Issue, TypeOK
  <2>3. sess[r] \in Tokens \cup {None} /\ begun[r] \in 0 .. MaxEpochs
    BY DEF TypeOK
  <2>4. /\ parent' \in [Tokens -> Tokens \cup {None}] /\ login' \in [Tokens -> Tokens]
        /\ since' \in [Tokens -> 0 .. MaxEpochs]
    BY <1>5, <2>3 DEF Issue, TypeOK
  <2> QED BY <1>5, <2>1, <2>2, <2>4 DEF Issue, TypeOK
<1>6. ASSUME NEW r \in Requests, IssueFails(r) PROVE TypeOK'
  <2>1. pc' \in [Requests -> {"idle", "user", "revoke", "issue"}]
    BY <1>6, MovesOn DEF IssueFails
  <2>2. faults' \in 0 .. MaxFaults
    BY <1>6, LoggedFaults DEF IssueFails
  <2>3. ended' \in SUBSET Tokens
    BY <1>6 DEF IssueFails, TypeOK
  <2> QED BY <1>6, <2>1, <2>2, <2>3 DEF IssueFails, TypeOK, tokenVars
<1>7. ASSUME NEW t \in Tokens, LogOut(t) PROVE TypeOK'
  <2>1. live' \in SUBSET issued /\ ended' \in SUBSET Tokens
    BY <1>7 DEF LogOut, TypeOK
  <2> QED BY <1>7, <2>1 DEF LogOut, TypeOK, tokenVars, requestVars
<1>8. CASE RevokeAll
  <2>1. epoch' \in 0 .. MaxEpochs
    BY <1>8, SessionsAssumption DEF RevokeAll, TypeOK
  <2> QED BY <1>8, <2>1 DEF RevokeAll, TypeOK, tokenVars, requestVars
<1>9. CASE SetActive
  <2>1. isActive' \in BOOLEAN
    BY <1>9 DEF SetActive
  <2> QED BY <1>9, <2>1 DEF SetActive, TypeOK, tokenVars, requestVars
<1>10. CASE UNCHANGED vars
  BY <1>10 DEF vars, TypeOK, tokenVars, requestVars
<1> QED BY <1>1, <1>2, <1>3, <1>4, <1>5, <1>6, <1>7, <1>8, <1>9, <1>10 DEF Next

-----------------------------------------------------------------------------
(* Links *)

LEMMA LinksKept == ASSUME TypeOK, Links, [Next]_vars PROVE Links'
<1>1. ASSUME NEW r \in Requests, LogIn(r) PROVE Links'
  BY <1>1, MovesOn DEF LogIn, TypeOK, Links, tokenVars
<1>2. ASSUME NEW r \in Requests, NEW t \in Tokens, Lookup(r, t) PROVE Links'
  BY <1>2, MovesOn DEF Lookup, TypeOK, Links, tokenVars
<1>3. ASSUME NEW r \in Requests, NEW found \in BOOLEAN, CheckUser(r, found) PROVE Links'
  BY <1>3, MovesOn DEF CheckUser, TypeOK, Links, tokenVars
<1>4. ASSUME NEW r \in Requests, RevokeOld(r) PROVE Links'
  BY <1>4, MovesOn DEF RevokeOld, TypeOK, Links, tokenVars
<1>5. ASSUME NEW r \in Requests, NEW t \in Tokens, Issue(r, t) PROVE Links'
  <2>1. pc[r] = "issue" /\ sess[r] \in issued \cup {None}
    BY <1>5, MovesOn DEF Issue, Links
  <2>2. \A x \in issued' : parent'[x] \in issued' \cup {None} /\ login'[x] \in issued'
    <3> TAKE x \in issued'
    <3>1. CASE x = t
      BY <1>5, <2>1, <3>1, SessionsAssumption DEF Issue, TypeOK, Links
    <3>2. CASE x # t
      BY <1>5, <3>2 DEF Issue, TypeOK, Links
    <3> QED BY <3>1, <3>2
  <2>3. \A q \in Requests : pc'[q] # "idle" => sess'[q] \in issued' \cup {None}
    BY <1>5, MovesOn DEF Issue, TypeOK, Links
  <2> QED BY <2>2, <2>3 DEF Links
<1>6. ASSUME NEW r \in Requests, IssueFails(r) PROVE Links'
  BY <1>6, MovesOn DEF IssueFails, TypeOK, Links, tokenVars
<1>7. ASSUME NEW t \in Tokens, LogOut(t) PROVE Links'
  BY <1>7 DEF LogOut, Links, tokenVars, requestVars
<1>8. CASE RevokeAll \/ SetActive \/ UNCHANGED vars
  BY <1>8 DEF RevokeAll, SetActive, vars, Links, tokenVars, requestVars
<1> QED BY <1>1, <1>2, <1>3, <1>4, <1>5, <1>6, <1>7, <1>8 DEF Next

-----------------------------------------------------------------------------
(* How often a token is rotated *)

Within(t) ==
    /\ t \in live => Cardinality(Rotated(t)) + Cardinality(Issuing(t)) <= faults
    /\ Cardinality(Rotated(t)) + Cardinality(Rotating(t)) <= Cardinality(Requests) + faults

LEMMA Counted ==
    ASSUME TypeOK, NEW t
    PROVE  /\ IsFiniteSet(Rotated(t)) /\ Cardinality(Rotated(t)) \in Nat
           /\ IsFiniteSet(Rotating(t)) /\ Cardinality(Rotating(t)) \in Nat
           /\ IsFiniteSet(Issuing(t)) /\ Cardinality(Issuing(t)) \in Nat
           /\ Cardinality(Requests) \in Nat /\ Cardinality(Rotating(t)) <= Cardinality(Requests)
<1>1. Rotated(t) \subseteq Tokens /\ Rotating(t) \subseteq Requests /\ Issuing(t) \subseteq Requests
  BY DEF Rotated, Rotating, Issuing, TypeOK
<1> QED BY <1>1, PartOf, SessionsAssumption

\* A step after which no more requests are at a token and it is no better.
LEMMA Shrinks ==
    ASSUME TypeOK, NEW t, Within(t), faults' \in Nat, faults \in Nat, faults' >= faults,
           t \in live' => t \in live,
           Rotated(t)' \subseteq Rotated(t), Rotating(t)' \subseteq Rotating(t),
           t \in live' => Issuing(t)' \subseteq Issuing(t)
    PROVE  Within(t)'
<1>1. Cardinality(Rotated(t)') <= Cardinality(Rotated(t)) /\ Cardinality(Rotated(t)') \in Nat
  BY Counted, PartOf
<1>2. Cardinality(Rotating(t)') <= Cardinality(Rotating(t)) /\ Cardinality(Rotating(t)') \in Nat
  BY Counted, PartOf
<1>3. t \in live' => /\ Cardinality(Issuing(t)') <= Cardinality(Issuing(t))
                     /\ Cardinality(Issuing(t)') \in Nat
  BY Counted, PartOf
<1> QED BY <1>1, <1>2, <1>3, Counted DEF Within

LEMMA WithinKept == ASSUME TypeOK, Links, NEW x \in Tokens, Within(x), [Next]_vars PROVE Within(x)'
<1>0. x # None
  BY SessionsAssumption
<1>1. ASSUME NEW r \in Requests, LogIn(r) PROVE Within(x)'
  <2>1. /\ pc[r] = "idle" /\ sess'[r] = None /\ \A q \in Requests : q # r => pc'[q] = pc[q] /\ sess'[q] = sess[q]
        /\ UNCHANGED <<live, issued, parent, faults>>
    BY <1>1, MovesOn DEF LogIn, TypeOK, tokenVars
  <2>2. Rotated(x)' \subseteq Rotated(x) /\ Rotating(x)' \subseteq Rotating(x) /\ Issuing(x)' \subseteq Issuing(x)
    BY <1>0, <2>1 DEF Rotated, Rotating, Issuing
  <2> QED BY <2>1, <2>2, Shrinks, LoggedFaults
<1>2. ASSUME NEW r \in Requests, NEW t \in Tokens, Lookup(r, t) PROVE Within(x)'
  <2>1. /\ pc[r] = "idle" /\ pc'[r] = "user" /\ sess'[r] = t /\ t \in live
        /\ \A q \in Requests : q # r => pc'[q] = pc[q] /\ sess'[q] = sess[q]
        /\ UNCHANGED <<live, issued, parent, faults>>
    BY <1>2, MovesOn DEF Lookup, TypeOK, tokenVars
  <2>2. Rotated(x)' = Rotated(x) /\ Issuing(x)' = Issuing(x) /\ Rotating(x)' \subseteq Requests
    BY <2>1 DEF Rotated, Rotating, Issuing
  <2>3. CASE x = t
    <3>1. Cardinality(Rotated(x)) + Cardinality(Issuing(x)) <= faults
      BY <2>1, <2>3 DEF Within
    <3>2. Cardinality(Rotating(x)') <= Cardinality(Requests) /\ Cardinality(Rotating(x)') \in Nat
      BY <2>2, PartOf, SessionsAssumption
    <3>3. faults \in Nat
      BY SessionsAssumption DEF TypeOK
    <3> QED BY <2>1, <2>2, <3>1, <3>2, <3>3, Counted DEF Within
  <2>4. CASE x # t
    <3>1. Rotating(x)' \subseteq Rotating(x)
      BY <2>1, <2>4 DEF Rotating
    <3> QED BY <2>1, <2>2, <3>1, Shrinks, LoggedFaults
  <2> QED BY <2>3, <2>4
<1>3. ASSUME NEW r \in Requests, NEW found \in BOOLEAN, CheckUser(r, found) PROVE Within(x)'
  <2>1. /\ pc[r] = "user" /\ pc'[r] \in {"revoke", "idle"}
        /\ \A q \in Requests : q # r => pc'[q] = pc[q]
        /\ UNCHANGED <<live, issued, parent, faults, sess>>
    BY <1>3, MovesOn DEF CheckUser, TypeOK, tokenVars
  <2>2. Rotated(x)' \subseteq Rotated(x) /\ Rotating(x)' \subseteq Rotating(x) /\ Issuing(x)' \subseteq Issuing(x)
    BY <2>1 DEF Rotated, Rotating, Issuing
  <2> QED BY <2>1, <2>2, Shrinks, LoggedFaults
<1>4. ASSUME NEW r \in Requests, RevokeOld(r) PROVE Within(x)'
  <2>1. /\ pc[r] = "revoke" /\ pc'[r] = "issue"
        /\ \A q \in Requests : q # r => pc'[q] = pc[q]
        /\ UNCHANGED <<issued, parent, sess>>
    BY <1>4, MovesOn DEF RevokeOld, TypeOK, tokenVars
  <2>2. Rotated(x)' = Rotated(x) /\ Rotating(x)' = Rotating(x) /\ Issuing(x)' \subseteq Issuing(x) \cup {r}
    BY <2>1 DEF Rotated, Rotating, Issuing
  <2>3. x # sess[r] => Issuing(x)' = Issuing(x)
    BY <2>1 DEF Issuing
  <2>4. faults' \in Nat /\ faults \in Nat /\ faults' >= faults
    BY <1>4, LoggedFaults DEF RevokeOld, Logged
  <2>5. CASE live' = live \ {sess[r]} /\ UNCHANGED faults
    BY <2>2, <2>3, <2>4, <2>5, Shrinks
  <2>6. CASE live' = live /\ faults' = faults + 1
    <3>1. Cardinality(Issuing(x)') <= Cardinality(Issuing(x)) + 1 /\ Cardinality(Issuing(x)') \in Nat
      BY <2>2, OneMore, Counted
    <3> QED BY <2>2, <2>4, <2>6, <3>1, Counted DEF Within
  <2> QED BY <1>4, <2>5, <2>6 DEF RevokeOld, Logged, Fails
<1>5. ASSUME NEW r \in Requests, NEW t \in Tokens, Issue(r, t) PROVE Within(x)'
  <2>1. /\ pc[r] = "issue" /\ pc'[r] = "idle" /\ t \notin issued
        /\ \A q \in Requests : q # r => pc'[q] = pc[q]
        /\ issued' = issued \cup {t} /\ live' = live \cup {t} /\ sess' = sess /\ faults' = faults
        /\ parent'[t] = sess[r] /\ \A u \in issued : u # t => parent'[u] = parent[u]
        /\ sess[r] \in issued \cup {None}
    BY <1>5, MovesOn DEF Issue, TypeOK, Links
  <2>2. faults \in Nat
    BY SessionsAssumption DEF TypeOK
  <2>3. Rotating(x)' \subseteq Rotating(x) /\ Issuing(x)' \subseteq Issuing(x)
    BY <2>1 DEF Rotating, Issuing
  <2>4. CASE x = t
    <3>1. Rotated(x)' = {} /\ Rotating(x)' = {} /\ Issuing(x)' = {}
      BY <1>0, <2>1, <2>4 DEF Rotated, Rotating, Issuing, Links
    <3>2. Cardinality({}) = 0 /\ Cardinality(Requests) \in Nat
      BY FS_EmptySet, FS_CardinalityType, SessionsAssumption
    <3> QED BY <2>1, <2>2, <3>1, <3>2 DEF Within
  <2>5. CASE x # t /\ x # sess[r]
    <3>1. Rotated(x)' \subseteq Rotated(x)
      BY <2>1, <2>5 DEF Rotated
    <3> QED BY <2>1, <2>2, <2>3, <2>5, <3>1, Shrinks
  <2>6. CASE x # t /\ x = sess[r]
    <3>1. /\ Rotated(x)' \subseteq Rotated(x) \cup {t}
          /\ r \in Rotating(x) /\ Rotating(x)' \subseteq Rotating(x) \ {r}
          /\ r \in Issuing(x) /\ Issuing(x)' \subseteq Issuing(x) \ {r}
      BY <2>1, <2>6 DEF Rotated, Rotating, Issuing
    <3>2. Cardinality(Rotated(x)') <= Cardinality(Rotated(x)) + 1 /\ Cardinality(Rotated(x)') \in Nat
      BY <3>1, OneMore, Counted
    <3>3. Cardinality(Rotating(x)') <= Cardinality(Rotating(x)) - 1 /\ Cardinality(Rotating(x)') \in Nat
      BY <3>1, OneLess, Counted
    <3>4. Cardinality(Issuing(x)') <= Cardinality(Issuing(x)) - 1 /\ Cardinality(Issuing(x)') \in Nat
      BY <3>1, OneLess, Counted
    <3> QED BY <2>1, <2>2, <2>6, <3>2, <3>3, <3>4, Counted DEF Within
  <2> QED BY <2>4, <2>5, <2>6
<1>6. ASSUME NEW r \in Requests, IssueFails(r) PROVE Within(x)'
  <2>1. /\ pc[r] = "issue" /\ pc'[r] = "idle"
        /\ \A q \in Requests : q # r => pc'[q] = pc[q]
        /\ UNCHANGED <<live, issued, parent, sess>>
    BY <1>6, MovesOn DEF IssueFails, TypeOK, tokenVars
  <2>2. Rotated(x)' \subseteq Rotated(x) /\ Rotating(x)' \subseteq Rotating(x) /\ Issuing(x)' \subseteq Issuing(x)
    BY <2>1 DEF Rotated, Rotating, Issuing
  <2>3. faults' \in Nat /\ faults \in Nat /\ faults' >= faults
    BY <1>6, LoggedFaults DEF IssueFails
  <2> QED BY <2>1, <2>2, <2>3, Shrinks
<1>7. ASSUME live' \subseteq live, UNCHANGED <<pc, sess, issued, parent, faults>> PROVE Within(x)'
  <2>1. Rotated(x)' = Rotated(x) /\ Rotating(x)' = Rotating(x) /\ Issuing(x)' = Issuing(x)
    BY <1>7 DEF Rotated, Rotating, Issuing
  <2> QED BY <1>7, <2>1, Shrinks, LoggedFaults
<1>8. ASSUME NEW t \in Tokens, LogOut(t) PROVE Within(x)'
  BY <1>7, <1>8 DEF LogOut, tokenVars, requestVars
<1>9. CASE RevokeAll \/ SetActive \/ UNCHANGED vars
  BY <1>7, <1>9 DEF RevokeAll, SetActive, vars, tokenVars, requestVars
<1> QED BY <1>1, <1>2, <1>3, <1>4, <1>5, <1>6, <1>8, <1>9 DEF Next

LEMMA BoundsKept ==
    ASSUME TypeOK, Links, Budget, RotationBounded, [Next]_vars
    PROVE  Budget' /\ RotationBounded'
<1>1. ASSUME NEW x \in Tokens PROVE Within(x)'
  <2>1. Within(x)
    BY DEF Within, Budget, RotationBounded
  <2> QED BY <2>1, WithinKept
<1> QED BY <1>1 DEF Within, Budget, RotationBounded

-----------------------------------------------------------------------------
(* Revoking everything, and what a login keeps *)

Continues(x) ==
    \/ login[x] \in ended
    \/ since[login[x]] < epoch
    \/ \E u \in live : login[u] = login[x]
    \/ \E r \in Requests : pc[r] = "issue" /\ sess[r] \in issued /\ login[sess[r]] = login[x]

\* Issuing a token leaves what is recorded of the other ones alone.
LEMMA IssueLeaves ==
    ASSUME TypeOK, Links, NEW r \in Requests, NEW t \in Tokens, Issue(r, t)
    PROVE  /\ t \notin issued /\ issued' = issued \cup {t} /\ live' = live \cup {t}
           /\ pc[r] = "issue" /\ pc'[r] = "idle" /\ \A q \in Requests : q # r => pc'[q] = pc[q]
           /\ sess' = sess /\ begun' = begun /\ epoch' = epoch /\ ended' = ended
           /\ strays \subseteq strays' /\ strays' \subseteq strays \cup {t}
           /\ \A u \in issued : /\ login'[u] = login[u] /\ login[u] \in issued
                                /\ since'[u] = since[u] /\ since'[login'[u]] = since[login[u]]
           /\ since'[t] = begun[r]
           /\ sess[r] = None => login'[t] = t
           /\ sess[r] # None => sess[r] \in issued /\ login'[t] = login[sess[r]]
           /\ begun[r] < epoch \/ sess[r] \in strays => t \in strays'
<1>1. /\ t \notin issued /\ issued' = issued \cup {t} /\ live' = live \cup {t}
      /\ pc[r] = "issue" /\ pc'[r] = "idle" /\ \A q \in Requests : q # r => pc'[q] = pc[q]
      /\ sess' = sess /\ begun' = begun /\ epoch' = epoch /\ ended' = ended
  BY MovesOn DEF Issue
<1>2. /\ strays \subseteq strays' /\ strays' \subseteq strays \cup {t}
      /\ begun[r] < epoch \/ sess[r] \in strays => t \in strays'
  BY DEF Issue
<1>3. \A u \in Tokens : u # t => login'[u] = login[u] /\ since'[u] = since[u]
  BY DEF Issue, TypeOK
<1>4. \A u \in issued : u # t /\ u \in Tokens /\ login[u] \in issued
  BY <1>1 DEF TypeOK, Links
<1>5. \A u \in issued : since'[login'[u]] = since[login[u]]
  BY <1>3, <1>4
<1>6. /\ since'[t] = begun[r]
      /\ sess[r] = None => login'[t] = t
      /\ sess[r] # None => login'[t] = login[sess[r]]
  BY DEF Issue, TypeOK
<1>7. sess[r] # None => sess[r] \in issued
  BY <1>1 DEF Links
<1> QED BY <1>1, <1>2, <1>3, <1>4, <1>5, <1>6, <1>7

LEMMA EpochsKept ==
    ASSUME TypeOK, Links, Epochs, OnlyStraysSurvive, [Next]_vars
    PROVE  Epochs' /\ OnlyStraysSurvive'
<1>0. /\ epoch \in Nat /\ \A t \in Tokens : since[t] \in Nat
      /\ \A r \in Requests : begun[r] \in Nat
      /\ \A t \in issued : login[t] \in issued /\ t \in Tokens /\ login[t] \in Tokens
  BY SessionsAssumption DEF TypeOK, Links
<1>1. ASSUME NEW r \in Requests, LogIn(r) PROVE Epochs' /\ OnlyStraysSurvive'
  <2>1. /\ sess'[r] = None /\ begun'[r] = epoch
        /\ \A q \in Requests : q # r => pc'[q] = pc[q] /\ sess'[q] = sess[q] /\ begun'[q] = begun[q]
        /\ UNCHANGED <<live, epoch, login, since, strays>>
    BY <1>1, MovesOn DEF LogIn, TypeOK, tokenVars
  <2> QED BY <1>0, <2>1 DEF Epochs, OnlyStraysSurvive
<1>2. ASSUME NEW r \in Requests, NEW t \in Tokens, Lookup(r, t) PROVE Epochs' /\ OnlyStraysSurvive'
  <2>1. /\ sess'[r] = t /\ begun'[r] = epoch /\ t \in live
        /\ \A q \in Requests : q # r => pc'[q] = pc[q] /\ sess'[q] = sess[q] /\ begun'[q] = begun[q]
        /\ UNCHANGED <<live, epoch, login, since, strays>>
    BY <1>2, MovesOn DEF Lookup, TypeOK, tokenVars
  <2>2. login[t] \in Tokens /\ since[login[t]] <= epoch
    BY <1>0, <2>1 DEF TypeOK, Epochs
  <2>3. t \notin strays => since[login[t]] = epoch
    BY <1>0, <2>1, <2>2 DEF OnlyStraysSurvive
  <2> QED BY <1>0, <2>1, <2>3 DEF Epochs, OnlyStraysSurvive
<1>3. ASSUME NEW r \in Requests, pc[r] # "idle", live' \subseteq live,
             \A q \in Requests : q # r => pc'[q] = pc[q],
             UNCHANGED <<sess, begun, epoch, login, since, strays>>
      PROVE  Epochs' /\ OnlyStraysSurvive'
  BY <1>3 DEF Epochs, OnlyStraysSurvive
<1>4. ASSUME NEW r \in Requests, NEW found \in BOOLEAN, CheckUser(r, found)
      PROVE Epochs' /\ OnlyStraysSurvive'
  <2>1. pc[r] # "idle" /\ \A q \in Requests : q # r => pc'[q] = pc[q]
    BY <1>4, MovesOn DEF CheckUser
  <2> QED BY <1>3, <1>4, <2>1 DEF CheckUser, tokenVars
<1>5. ASSUME NEW r \in Requests, RevokeOld(r) PROVE Epochs' /\ OnlyStraysSurvive'
  <2>1. pc[r] # "idle" /\ \A q \in Requests : q # r => pc'[q] = pc[q]
    BY <1>5, MovesOn DEF RevokeOld
  <2> QED BY <1>3, <1>5, <2>1 DEF RevokeOld, Logged, tokenVars
<1>6. ASSUME NEW r \in Requests, IssueFails(r) PROVE Epochs' /\ OnlyStraysSurvive'
  <2>1. pc[r] # "idle" /\ \A q \in Requests : q # r => pc'[q] = pc[q]
    BY <1>6, MovesOn DEF IssueFails
  <2> QED BY <1>3, <1>6, <2>1 DEF IssueFails, tokenVars
<1>7. ASSUME NEW r \in Requests, NEW t \in Tokens, Issue(r, t) PROVE Epochs' /\ OnlyStraysSurvive'
  <2> USE <1>7, IssueLeaves
  <2>1. \A u \in Tokens : since'[u] <= epoch'
    <3>1. \A u \in Tokens : since'[u] = since[u] \/ since'[u] = begun[r]
      BY DEF Issue, TypeOK
    <3> QED BY <3>1 DEF Epochs
  <2>2. ASSUME NEW q \in Requests, pc'[q] # "idle", sess[q] # None, sess[q] \notin strays', begun[q] = epoch
        PROVE  since'[login'[sess[q]]] = epoch
    <3>1. pc[q] # "idle" /\ q # r /\ sess[q] \in issued /\ sess[q] \notin strays
      BY <2>2 DEF Links
    <3> QED BY <2>2, <3>1 DEF Epochs
  <2>3. Epochs'
    <3>1. \A q \in Requests : begun'[q] <= epoch'
      BY DEF Epochs
    <3> QED BY <2>1, <2>2, <3>1 DEF Epochs
  <2>4. ASSUME NEW u \in live', since'[login'[u]] < epoch' PROVE u \in strays'
    <3>1. CASE u \in live
      BY <2>4, <3>1 DEF OnlyStraysSurvive, TypeOK
    <3>2. CASE u = t /\ sess[r] = None
      BY <2>4, <3>2
    <3>3. CASE u = t /\ sess[r] # None
      <4>1. since'[login'[t]] = since[login[sess[r]]]
        <5>1. sess[r] \in issued /\ login'[t] = login[sess[r]]
          BY <3>3
        <5>2. login'[sess[r]] = login[sess[r]] /\ since'[login'[sess[r]]] = since[login[sess[r]]]
          BY <5>1
        <5> QED BY <5>1, <5>2
      <4>2. begun[r] <= epoch
        BY DEF Epochs
      <4>3. begun[r] < epoch \/ begun[r] = epoch
        BY <1>0, <4>2
      <4>4. begun[r] = epoch /\ sess[r] \notin strays => since[login[sess[r]]] = epoch
        BY <3>3 DEF Epochs
      <4>5. since[login[sess[r]]] < epoch
        BY <2>4, <3>3, <4>1
      <4> QED BY <1>0, <3>3, <4>3, <4>4, <4>5
    <3> QED BY <3>1, <3>2, <3>3
  <2> QED BY <2>3, <2>4 DEF OnlyStraysSurvive
<1>8. ASSUME NEW t \in Tokens, LogOut(t) PROVE Epochs' /\ OnlyStraysSurvive'
  BY <1>8 DEF LogOut, tokenVars, requestVars, Epochs, OnlyStraysSurvive
<1>9. CASE RevokeAll
  <2>1. /\ epoch' = epoch + 1 /\ live' = {}
        /\ UNCHANGED <<pc, sess, begun, login, since, strays>>
    BY <1>9 DEF RevokeAll, tokenVars, requestVars
  <2> QED BY <1>0, <2>1 DEF Epochs, OnlyStraysSurvive
<1>10. CASE SetActive \/ UNCHANGED vars
  BY <1>10 DEF SetActive, vars, tokenVars, requestVars, Epochs, OnlyStraysSurvive
<1> QED BY <1>1, <1>2, <1>4, <1>5, <1>6, <1>7, <1>8, <1>9, <1>10 DEF Next

LEMMA ContinuesKept ==
    ASSUME TypeOK, Links, Epochs, NEW x \in issued, Continues(x), [Next]_vars
    PROVE  Continues(x)'
<1>0. live \subseteq issued /\ x \in Tokens /\ login[x] \in Tokens
  BY DEF TypeOK
<1>1. ASSUME NEW r \in Requests, LogIn(r) PROVE Continues(x)'
  <2>1. /\ pc[r] = "idle" /\ \A q \in Requests : q # r => pc'[q] = pc[q] /\ sess'[q] = sess[q]
        /\ UNCHANGED <<live, epoch, issued, login, since, ended>>
    BY <1>1, MovesOn DEF LogIn, TypeOK, tokenVars
  <2> QED BY <2>1 DEF Continues
<1>2. ASSUME NEW r \in Requests, NEW t \in Tokens, Lookup(r, t) PROVE Continues(x)'
  <2>1. /\ pc[r] = "idle" /\ \A q \in Requests : q # r => pc'[q] = pc[q] /\ sess'[q] = sess[q]
        /\ UNCHANGED <<live, epoch, issued, login, since, ended>>
    BY <1>2, MovesOn DEF Lookup, TypeOK, tokenVars
  <2> QED BY <2>1 DEF Continues
<1>3. ASSUME NEW r \in Requests, NEW found \in BOOLEAN, CheckUser(r, found) PROVE Continues(x)'
  <2>1. /\ pc[r] = "user" /\ \A q \in Requests : q # r => pc'[q] = pc[q]
        /\ UNCHANGED <<live, epoch, issued, login, since, ended, sess>>
    BY <1>3, MovesOn DEF CheckUser, tokenVars
  <2> QED BY <2>1 DEF Continues
<1>4. ASSUME NEW r \in Requests, RevokeOld(r) PROVE Continues(x)'
  <2>1. /\ pc[r] = "revoke" /\ pc'[r] = "issue" /\ \A q \in Requests : q # r => pc'[q] = pc[q]
        /\ live \subseteq live' \cup {sess[r]}
        /\ UNCHANGED <<epoch, issued, login, since, ended, sess>>
    BY <1>4, MovesOn DEF RevokeOld, Logged, tokenVars
  <2>2. ASSUME NEW u \in live, login[u] = login[x], u \notin live' PROVE Continues(x)'
    BY <1>0, <2>1, <2>2 DEF Continues
  <2>3. ASSUME NEW q \in Requests, pc[q] = "issue", sess[q] \in issued, login[sess[q]] = login[x]
        PROVE  Continues(x)'
    BY <2>1, <2>3 DEF Continues
  <2> QED BY <2>1, <2>2, <2>3 DEF Continues
<1>5. ASSUME NEW r \in Requests, NEW t \in Tokens, Issue(r, t) PROVE Continues(x)'
  <2> USE <1>5, IssueLeaves
  <2>1. login'[x] = login[x] /\ since'[login'[x]] = since[login[x]]
    OBVIOUS
  <2>2. ASSUME NEW u \in live, login[u] = login[x] PROVE Continues(x)'
    BY <1>0, <2>1, <2>2 DEF Continues
  <2>3. ASSUME NEW q \in Requests, pc[q] = "issue", sess[q] \in issued, login[sess[q]] = login[x]
        PROVE  Continues(x)'
    <3>1. CASE q = r
      <4>1. t \in live' /\ login'[t] = login'[x]
        BY <2>1, <2>3, <3>1, SessionsAssumption DEF TypeOK
      <4> QED BY <4>1 DEF Continues
    <3>2. CASE q # r
      <4>1. pc'[q] = "issue" /\ sess'[q] \in issued' /\ login'[sess'[q]] = login'[x]
        BY <2>1, <2>3, <3>2
      <4> QED BY <4>1 DEF Continues
    <3> QED BY <3>1, <3>2
  <2> QED BY <2>1, <2>2, <2>3 DEF Continues
<1>6. ASSUME NEW r \in Requests, IssueFails(r) PROVE Continues(x)'
  <2>1. /\ pc[r] = "issue" /\ \A q \in Requests : q # r => pc'[q] = pc[q]
        /\ ended' = IF sess[r] = None THEN ended ELSE ended \cup {login[sess[r]]}
        /\ UNCHANGED <<live, epoch, issued, login, since, sess>>
    BY <1>6, MovesOn DEF IssueFails, tokenVars
  <2>2. ASSUME sess[r] \in issued, login[sess[r]] = login[x] PROVE Continues(x)'
    <3>1. sess[r] # None
      BY <2>2, SessionsAssumption DEF TypeOK
    <3> QED BY <2>1, <2>2, <3>1 DEF Continues
  <2> QED BY <2>1, <2>2 DEF Continues
<1>7. ASSUME NEW t \in Tokens, LogOut(t) PROVE Continues(x)'
  <2>1. /\ live' = live \ {t} /\ ended' = ended \cup {login[t]}
        /\ UNCHANGED <<pc, sess, epoch, issued, login, since>>
    BY <1>7 DEF LogOut, tokenVars, requestVars
  <2> QED BY <2>1 DEF Continues
<1>8. CASE RevokeAll
  <2>1. epoch' = epoch + 1 /\ UNCHANGED <<login, since>>
    BY <1>8 DEF RevokeAll, tokenVars
  <2>2. since[login[x]] <= epoch /\ since[login[x]] \in Nat /\ epoch \in Nat
    BY <1>0, SessionsAssumption DEF Epochs, TypeOK
  <2>3. since'[login'[x]] < epoch'
    BY <2>1, <2>2
  <2> QED BY <2>3 DEF Continues
<1>9. CASE SetActive \/ UNCHANGED vars
  BY <1>9 DEF SetActive, vars, tokenVars, requestVars, Continues
<1> QED BY <1>1, <1>2, <1>3, <1>4, <1>5, <1>6, <1>7, <1>8, <1>9 DEF Next

LEMMA LoginsKept ==
    ASSUME TypeOK, Links, Epochs, LoginContinues, [Next]_vars PROVE LoginContinues'
<1>1. LoginContinues <=> \A x \in issued \ strays : Continues(x)
  BY DEF LoginContinues, Continues
<1>2. LoginContinues' <=> \A x \in issued' \ strays' : Continues(x)'
  BY DEF LoginContinues, Continues
<1>3. ASSUME NEW x \in issued' \ strays' PROVE Continues(x)'
  <2>1. CASE \E r \in Requests, t \in Tokens : Issue(r, t)
    <3>1. PICK r \in Requests, t \in Tokens : Issue(r, t)
      BY <2>1
    <3>2. issued' = issued \cup {t} /\ live' = live \cup {t} /\ strays \subseteq strays'
      BY <3>1 DEF Issue
    <3>3. CASE x = t
      BY <3>2, <3>3 DEF Continues
    <3>4. CASE x # t
      BY <1>1, <1>3, <3>2, <3>4, ContinuesKept
    <3> QED BY <3>3, <3>4
  <2>2. CASE ~ \E r \in Requests, t \in Tokens : Issue(r, t)
    <3>1. issued' = issued /\ strays' = strays
      BY <2>2 DEF Next, vars, LogIn, RevokeOld, IssueFails, Lookup, CheckUser, LogOut, RevokeAll,
                  SetActive, tokenVars
    <3> QED BY <1>1, <1>3, <3>1, ContinuesKept
  <2> QED BY <2>1, <2>2
<1> QED BY <1>2, <1>3

-----------------------------------------------------------------------------
(* The theorems *)

LEMMA Starts == ASSUME Init PROVE IInv
<1>1. TypeOK
  BY TypesStart
<1>2. Links /\ OnlyStraysSurvive /\ LoginContinues
  BY DEF Init, Links, OnlyStraysSurvive, LoginContinues
<1>3. Epochs
  BY DEF Init, Epochs
<1>4. ASSUME NEW t \in Tokens PROVE Rotated(t) = {} /\ Rotating(t) = {}
  BY DEF Init, Rotated, Rotating
<1>5. Cardinality({}) = 0 /\ Cardinality(Requests) \in Nat
  BY FS_EmptySet, FS_CardinalityType, SessionsAssumption
<1>6. RotationBounded
  BY <1>4, <1>5 DEF RotationBounded, Init
<1>7. Budget
  BY DEF Budget, Init
<1> QED BY <1>1, <1>2, <1>3, <1>6, <1>7 DEF IInv

LEMMA Inductive == IInv /\ [Next]_vars => IInv'
BY TypesKept, LinksKept, BoundsKept, EpochsKept, LoginsKept DEF IInv

LEMMA Always == Spec => []IInv
<1> QED BY Starts, Inductive, PTL DEF Spec

\* The tables and the requests keep their types (models.go, sqlite.go).
THEOREM SessionTypes == Spec => []TypeOK
<1>1. IInv => TypeOK
  BY DEF IInv
<1> QED BY <1>1, Always, PTL

\* However many requests overlap, a refresh token is rotated at most once by
\* each of them and once more for every revocation that failed (Refresh).
THEOREM RotationsBounded == Spec => []RotationBounded
<1>1. IInv => RotationBounded
  BY DEF IInv
<1> QED BY <1>1, Always, PTL

\* After LogoutAll or ResetPassword only what a request in flight then issued,
\* and what was rotated from that, is left of the logins made before.
THEOREM OnlyStrays == Spec => []OnlyStraysSurvive
<1>1. IInv => OnlyStraysSurvive
  BY DEF IInv
<1> QED BY <1>1, Always, PTL

\* Refreshing alone, however requests interleave, never logs a client out.
THEOREM LoginsContinue == Spec => []LoginContinues
<1>1. IInv => LoginContinues
  BY DEF IInv
<1> QED BY <1>1, Always, PTL
=============================================================================
