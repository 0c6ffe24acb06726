---------------------------- MODULE BrowserProofs ----------------------------
(* Theorems about the parts of the page around the document, for every value *)
(* of the constants: one inductive invariant for each part.                  *)
EXTENDS Browser, SequenceTheorems, FiniteSetTheorems, TLAPS

-----------------------------------------------------------------------------
(* The inductive invariants *)

OwnLogin(r) == request[r].what = "login" /\ request[r].own

GateInv ==
    /\ LoginGateTypeOK
    /\ shown = mode
    /\ disabled <=> \E r \in Requests : OwnLogin(r)
    /\ \A r, s \in Requests : OwnLogin(r) /\ OwnLogin(s) => r = s

DockInv ==
    /\ DockTypeOK
    /\ playing => /\ genie = {IF collapsed THEN "out" ELSE "in"} /\ genie \subseteq onEnd
                  /\ ~hidden /\ ~fab
    /\ ~playing => onEnd = {}
    /\ DockAtRest

Begun(x) == export[x].stage \notin {"unused", "building"}

\* What is at the path of an e-mail to be sent is what was asked for, unless
\* two e-mails share that path.
FileOfItsOwn(x) ==
    export[x].stage = "sending" =>
        Collides(x) \/ \A f \in At(export[x].path) : f.content = Written(export[x].asked)

CallFollows(x) ==
    /\ export[x].stage \in {"writing", "sending", "cleaning"} =>
          export[x].mail /\ export[x].path # 0
    /\ export[x].stage \in {"building", "writing"} => export[x].tries = 0
    /\ export[x].stage = "sending" => export[x].tries # 2

ExportInv ==
    /\ ExporterTypeOK
    /\ \A x \in Exports : CallFollows(x) /\ FileOfItsOwn(x)
    /\ \A e \in left : Begun(e.by) /\ export[e.by].stage # "writing"
    /\ LeavesAsAsked

Apart == checking \cap unchosen = {} /\ Range(files) \cap (checking \cup unchosen) = {}

AnswersOpening ==
    /\ \A d \in delivered : d.to <= openings /\ d.to # onMerge
    /\ DeliversOnce

\* A merge that iterates over this array.
Follows(m, array) ==
    /\ m.live => m.phase = "reading"
    /\ m.phase = "reading" /\ ~m.moved => IsPrefix(m.listed, array) /\ IsPrefix(m.taken, array)
    /\ m.phase = "writing" /\ ~m.moved => IsPrefix(m.listed, m.taken) /\ IsInjective(m.taken)

MergeInv ==
    /\ MergeTypeOK /\ Apart /\ AnswersOpening
    /\ \A k \in DOMAIN merges : Follows(merges[k], ArrayOf(merges[k]))

\* Calls that may have generated a pair.
Late(r) == r.stage \notin {"unused", "loading", "importing", "generating"}
Generators == {c \in Calls : Late(call[c])}

HaveKeys ==
    \A c \in Calls :
        /\ call[c].stage \in {"saving", "committing"} => keyPair # NoKey
        /\ call[c].stage \in {"ready", "signed"} => call[c].pair # NoKey

KeysInv ==
    /\ {keyPair, stored} \subseteq Keys /\ {legacy, oldPair} \subseteq {NoKey, OldKey}
    /\ made \in 0 .. MaxCalls /\ made <= Cardinality(Generators)
    /\ call \in [Calls -> CallRecord] /\ HaveKeys

PadFields ==
    filled \in BOOLEAN /\ ticked \in BOOLEAN /\ useCryptoSign \in BOOLEAN /\ (ticked => useCryptoSign)

\* What was inserted was inserted for an opening that is over.
OpeningsInv ==
    /\ pads \in 0 .. MaxPads /\ pad \in 0 .. pads
    /\ PadFields /\ padReloads \in 0 .. MaxPadTroubles
    /\ \A s \in inserted : s \in Inserted /\ s.to <= pads /\ s.to # pad
    /\ OnePerOpening /\ SignedAsAsked

OldPairKept ==
    oldPair # NoKey /\ keyFaults = 0 =>
        /\ {keyPair, stored} \subseteq {NoKey, OldKey} /\ OldKey \in {stored, legacy}
        /\ \A c \in Calls :
              /\ call[c].stage # "generating" /\ call[c].pair \in {NoKey, OldKey}
              /\ call[c].stage = "committing" => stored = OldKey
        /\ \A s \in inserted : s.signer \in {NoKey, OldKey}

WillBeStored ==
    keyFaults = 0 => keyPair \in {NoKey, stored} \/ \E c \in Calls : call[c].stage = "saving"

PadInv ==
    /\ KeysInv /\ OpeningsInv /\ OldPairKept /\ WillBeStored
    /\ keyFaults \in 0 .. MaxPadTroubles

Alone(v) ==
    /\ \A w \in AtWork : w = v
    /\ view[v].page = currentPage /\ view[v].zoom = zoom
    /\ view[v].stage = "drawing" => canvas = [page |-> 0, zoom |-> zoom, torn |-> FALSE]
    /\ ~view[v].goesTo => active = {currentPage} \cap 1 .. thumbnails

ViewerInv ==
    /\ ViewerTypeOK /\ \A v \in AtWork : view[v].zoom # 0
    /\ PageSettles
    /\ overlapped \/ \A v \in AtWork : Alone(v)

\* The cards of a chat are among F, each at one place.
CardsAmong(ms, F) == \A i \in CardsOf(ms) : ms[i].card \in F
Distinct(ms) == \A i, j \in CardsOf(ms) : ms[i].card = ms[j].card => i = j
Chats(F) == {ms \in Seq(Message) : Len(ms) <= MaxSaved /\ CardsAmong(ms, F)}

\* Cards that were neither run nor cancelled.
Untouched == {c \in 1 .. cards : ran[c] = 0 /\ c \notin cancelled}

ChatInv ==
    /\ AgentPanelTypeOK
    /\ CardsAmong(messages, 1 .. cards) /\ CardsAmong(savedMessages, 1 .. cards)
    /\ \A c \in 1 .. MaxCards : c > cards => ran[c] = 0
    /\ chatFaults = 0 => /\ savedMessages = messages
                         /\ CardsAmong(messages, Untouched) /\ Distinct(messages)
    /\ RunsAtMostOnce

DeskInv == ViewerInv /\ ChatInv

-----------------------------------------------------------------------------
(* Sequences: the operators of SequencesExt the components use *)

LEMMA PartOfSeq ==
    ASSUME NEW T, NEW s \in Seq(T), NEW m \in Nat \ {0}, NEW n \in Nat, n <= Len(s), m <= n + 1
    PROVE  /\ SubSeq(s, m, n) \in Seq(T) /\ Len(SubSeq(s, m, n)) = n - m + 1
           /\ \A i \in 1 .. n - m + 1 : SubSeq(s, m, n)[i] = s[m + i - 1]
<1>1. \A i \in m .. n : s[i] \in T
  <2>1. Len(s) \in Nat
    BY LenProperties
  <2>2. \A i \in m .. n : i \in 1 .. Len(s)
    BY <2>1
  <2> QED BY <2>2, ElementOfSeq
<1>2. /\ SubSeq(s, m, n) \in Seq(T)
      /\ Len(SubSeq(s, m, n)) = IF m <= n THEN n - m + 1 ELSE 0
      /\ \A i \in 1 .. n - m + 1 : SubSeq(s, m, n)[i] = s[m + i - 1]
  BY <1>1, SubSeqProperties
<1> QED BY <1>2

LEMMA RemoveAtElements ==
    ASSUME NEW T, NEW s \in Seq(T), NEW i \in 1 .. Len(s)
    PROVE  /\ RemoveAt(s, i) \in Seq(T) /\ Len(RemoveAt(s, i)) = Len(s) - 1
           /\ \A j \in 1 .. Len(s) - 1 : RemoveAt(s, i)[j] = IF j < i THEN s[j] ELSE s[j + 1]
<1>1. PICK n \in Nat : n = Len(s)
  BY LenProperties
<1>2. i \in 1 .. n /\ i - 1 \in Nat /\ i + 1 \in Nat \ {0}
  BY <1>1
<1>3. PICK a : a = SubSeq(s, 1, i - 1)
  OBVIOUS
<1>4. PICK b : b = SubSeq(s, i + 1, n)
  OBVIOUS
<1>5. a \in Seq(T) /\ Len(a) = i - 1 /\ \A j \in 1 .. i - 1 : a[j] = s[j]
  <2>1. /\ a \in Seq(T) /\ Len(a) = i - 1 - 1 + 1
        /\ \A j \in 1 .. i - 1 - 1 + 1 : a[j] = s[1 + j - 1]
    BY <1>1, <1>2, <1>3, PartOfSeq
  <2> QED BY <1>2, <2>1
<1>6. b \in Seq(T) /\ Len(b) = n - i /\ \A j \in 1 .. n - i : b[j] = s[i + j]
  <2>1. /\ b \in Seq(T) /\ Len(b) = n - (i + 1) + 1
        /\ \A j \in 1 .. n - (i + 1) + 1 : b[j] = s[(i + 1) + j - 1]
    BY <1>1, <1>2, <1>4, PartOfSeq
  <2> QED BY <1>2, <2>1
<1>7. /\ a \o b \in Seq(T) /\ Len(a \o b) = Len(a) + Len(b)
      /\ \A j \in 1 .. Len(a) + Len(b) : (a \o b)[j] = IF j <= Len(a) THEN a[j] ELSE b[j - Len(a)]
  BY <1>5, <1>6, ConcatProperties
<1>8. ASSUME NEW j \in 1 .. n - 1 PROVE (a \o b)[j] = IF j < i THEN s[j] ELSE s[j + 1]
  <2>1. (a \o b)[j] = IF j <= i - 1 THEN a[j] ELSE b[j - (i - 1)]
    BY <1>2, <1>5, <1>6, <1>7
  <2>2. CASE j < i
    BY <1>2, <1>5, <2>1, <2>2
  <2>3. CASE ~(j < i)
    <3>1. j - (i - 1) \in 1 .. n - i /\ i + (j - (i - 1)) = j + 1 /\ ~(j <= i - 1)
      BY <1>2, <2>3
    <3> QED BY <1>6, <2>1, <2>3, <3>1
  <2> QED BY <2>2, <2>3
<1>9. RemoveAt(s, i) = a \o b
  BY <1>1, <1>3, <1>4 DEF RemoveAt
<1>10. Len(a) + Len(b) = n - 1
  BY <1>2, <1>5, <1>6
<1> QED BY <1>1, <1>7, <1>8, <1>9, <1>10

LEMMA InsertAtElements ==
    ASSUME NEW T, NEW s \in Seq(T), NEW i \in 1 .. Len(s) + 1, NEW e \in T
    PROVE  /\ InsertAt(s, i, e) \in Seq(T) /\ Len(InsertAt(s, i, e)) = Len(s) + 1
           /\ \A j \in 1 .. Len(s) + 1 :
                  InsertAt(s, i, e)[j] = IF j < i THEN s[j] ELSE IF j = i THEN e ELSE s[j - 1]
<1>1. PICK n \in Nat : n = Len(s)
  BY LenProperties
<1>2. i \in 1 .. n + 1 /\ i - 1 \in Nat /\ i \in Nat \ {0}
  BY <1>1
<1>3. PICK a : a = SubSeq(s, 1, i - 1)
  OBVIOUS
<1>4. PICK b : b = SubSeq(s, i, n)
  OBVIOUS
<1>5. a \in Seq(T) /\ Len(a) = i - 1 /\ \A j \in 1 .. i - 1 : a[j] = s[j]
  <2>1. /\ a \in Seq(T) /\ Len(a) = i - 1 - 1 + 1
        /\ \A j \in 1 .. i - 1 - 1 + 1 : a[j] = s[1 + j - 1]
    BY <1>1, <1>2, <1>3, PartOfSeq
  <2> QED BY <1>2, <2>1
<1>6. b \in Seq(T) /\ Len(b) = n - i + 1 /\ \A j \in 1 .. n - i + 1 : b[j] = s[i + j - 1]
  BY <1>1, <1>2, <1>4, PartOfSeq
<1>7. PICK c : c = a \o <<e>>
  OBVIOUS
<1>8. /\ c \in Seq(T) /\ Len(c) = i
      /\ \A j \in 1 .. i : c[j] = IF j < i THEN s[j] ELSE e
  <2>1. c = Append(a, e)
    BY <1>5, <1>7, AppendIsConcat
  <2>2. /\ c \in Seq(T) /\ Len(c) = i - 1 + 1 /\ c[i - 1 + 1] = e
        /\ \A j \in 1 .. i - 1 : c[j] = a[j]
    BY <1>5, <2>1, AppendProperties
  <2> QED BY <1>2, <1>5, <2>2
<1>9. /\ c \o b \in Seq(T) /\ Len(c \o b) = Len(c) + Len(b)
      /\ \A j \in 1 .. Len(c) + Len(b) : (c \o b)[j] = IF j <= Len(c) THEN c[j] ELSE b[j - Len(c)]
  BY <1>6, <1>8, ConcatProperties
<1>10. Len(c) + Len(b) = n + 1
  BY <1>2, <1>6, <1>8, SMTT(40)
<1>11. ASSUME NEW j \in 1 .. n + 1
       PROVE  (c \o b)[j] = IF j < i THEN s[j] ELSE IF j = i THEN e ELSE s[j - 1]
  <2>1. (c \o b)[j] = IF j <= i THEN c[j] ELSE b[j - i]
    BY <1>8, <1>9, <1>10
  <2>2. CASE j <= i
    BY <1>2, <1>8, <2>1, <2>2
  <2>3. CASE ~(j <= i)
    <3>1. j - i \in 1 .. n - i + 1 /\ i + (j - i) - 1 = j - 1 /\ ~(j < i) /\ j # i
      BY <1>2, <2>3
    <3> QED BY <1>6, <2>1, <2>3, <3>1
  <2> QED BY <2>2, <2>3
<1>12. InsertAt(s, i, e) = c \o b
  BY <1>1, <1>3, <1>4, <1>7 DEF InsertAt
<1> QED BY <1>1, <1>9, <1>10, <1>11, <1>12

LEMMA PrefixElements ==
    ASSUME NEW T, NEW s \in Seq(T), NEW t \in Seq(T)
    PROVE  IsPrefix(s, t) <=> Len(s) <= Len(t) /\ \A i \in 1 .. Len(s) : s[i] = t[i]
<1>1. PICK n \in Nat : n = Len(s)
  BY LenProperties
<1>2. PICK l \in Nat : l = Len(t)
  BY LenProperties
<1>3. SubSeq(s, 1, n) = s
  BY <1>1, SubSeqFull
<1>4. ASSUME n <= l
      PROVE  s = SubSeq(t, 1, n) <=> \A i \in 1 .. n : s[i] = t[i]
  <2>1. PICK p : p = SubSeq(t, 1, n)
    OBVIOUS
  <2>2. p \in Seq(T) /\ Len(p) = n /\ \A i \in 1 .. n : p[i] = t[i]
    <3>1. /\ p \in Seq(T) /\ Len(p) = n - 1 + 1
          /\ \A i \in 1 .. n - 1 + 1 : p[i] = t[1 + i - 1]
      BY <1>1, <1>2, <1>4, <2>1, PartOfSeq
    <3> QED BY <3>1
  <2>3. (\A i \in 1 .. n : s[i] = p[i]) => s = p
    BY <1>1, <2>2, SeqEqual
  <2> QED BY <2>1, <2>2, <2>3
<1> QED BY <1>1, <1>2, <1>3, <1>4 DEF IsPrefix

-----------------------------------------------------------------------------
(* The sign-in *)

\* Types, mode and form of LoginGate, apart from its requests.
LEMMA GateInit == LoginGateInit => GateInv
<1> SUFFICES ASSUME LoginGateInit PROVE GateInv
  OBVIOUS
<1> USE DEF LoginGateInit
<1>1. LoginGateTypeOK
  <2>1. remembered \in Kept /\ rememberMe \in BOOLEAN
    <3>1. Forgotten \in Kept /\ \A m \in Modes : AllKept(m) \in Kept
      BY DEF Kept, Forgotten, AllKept
    <3>2. remembered \in Kept
      BY <3>1
    <3>3. rememberMe = remembered.me
      OBVIOUS
    <3> QED BY <3>2, <3>3 DEF Kept
  <2>2. request \in [Requests -> [what : {"idle", "probe", "login", "over"}, own : BOOLEAN]]
    BY DEF NotSent
  <2>3. storageFaults \in 0 .. MaxStorageFaults
    BY LoginGateAssumption
  <2> QED BY <2>1, <2>2, <2>3 DEF LoginGateTypeOK, Modes
<1>2. \A r \in Requests : ~OwnLogin(r)
  BY DEF OwnLogin, NotSent
<1> QED BY <1>1, <1>2 DEF GateInv

\* A new form belongs to no request and has its buttons enabled.
LEMMA NewForm ==
    ASSUME LoginGateTypeOK, NEW m \in Modes, NEW asking, RenderForm(m, asking)
    PROVE  /\ shown' = mode' /\ mode' \in Modes /\ screen' = "form" /\ disabled' = FALSE
           /\ request' \in [Requests -> [what : {"idle", "probe", "login", "over"}, own : BOOLEAN]]
           /\ \A r \in Requests : ~request'[r].own
BY DEF RenderForm, LoginGateTypeOK

\* Entering the editor, or failing to, leaves the requests alone.
LEMMA EnterTypes ==
    ASSUME LoginGateTypeOK, NEW m \in Modes, Enter(m) \/ EnterFails(m)
    PROVE  /\ screen' \in {"blank", "form", "editor"} /\ entered' \in BOOLEAN
           /\ remembered' \in Kept /\ sessionMode' \in Modes \cup {NoMode}
           /\ storageFaults' \in 0 .. MaxStorageFaults
<1>1. CASE Enter(m)
  BY <1>1 DEF Enter, LoginGateTypeOK, Kept, Forgotten, AllKept
<1>2. CASE EnterFails(m)
  <2>1. storageFaults' \in 0 .. MaxStorageFaults
    BY <1>2, LoginGateAssumption DEF EnterFails, LoginGateTypeOK
  <2>2. remembered' \in Kept
    <3>1. remembered \in Kept /\ remembered.mode \in Modes \cup {NoMode}
      BY DEF LoginGateTypeOK, Kept
    <3>2. Forgotten \in Kept /\ AllKept(m) \in Kept /\ AllKept(remembered.mode) \in Kept
          /\ [remembered EXCEPT !.me = TRUE] \in Kept
      BY <3>1 DEF Kept, Forgotten, AllKept
    <3> QED BY <1>2, <3>1, <3>2 DEF EnterFails
  <2> QED BY <1>2, <2>1, <2>2 DEF EnterFails, LoginGateTypeOK
<1> QED BY <1>1, <1>2

LEMMA GateStep == GateInv /\ [LoginGateNext]_gateVars => GateInv'
<1> SUFFICES ASSUME GateInv, [LoginGateNext]_gateVars PROVE GateInv'
  OBVIOUS
<1>0. LoginGateTypeOK /\ shown = mode
  BY DEF GateInv
<1>a. "fallback" \in Modes /\ "xcm_auth" \in Modes
  BY DEF Modes
\* What all steps that render a form have in common.
<1>b. ASSUME NEW m \in Modes, NEW asking, RenderForm(m, asking), UNCHANGED <<entered, rememberMe>>, Stores
      PROVE  GateInv'
  <2>1. LoginGateTypeOK'
    BY <1>0, <1>b, NewForm DEF LoginGateTypeOK, Stores
  <2>2. \A r \in Requests : ~OwnLogin(r)'
    BY <1>0, <1>b, NewForm DEF OwnLogin
  <2> QED BY <1>0, <1>b, <2>1, <2>2, NewForm DEF GateInv
\* A request that is over is no login under way any more.
<1>c. ASSUME NEW r \in Requests, request[r].what = "login", Enabled(r), Ended(r)
      PROVE  /\ \A s \in Requests : OwnLogin(s)' <=> OwnLogin(s) /\ s # r
             /\ disabled' \in BOOLEAN
             /\ disabled' <=> \E s \in Requests : OwnLogin(s)'
             /\ request' \in [Requests -> [what : {"idle", "probe", "login", "over"}, own : BOOLEAN]]
  <2>1. \A s \in Requests : OwnLogin(s)' <=> OwnLogin(s) /\ s # r
    BY <1>0, <1>c DEF Ended, OwnLogin, LoginGateTypeOK
  <2>2. request' \in [Requests -> [what : {"idle", "probe", "login", "over"}, own : BOOLEAN]]
    BY <1>0, <1>c DEF Ended, LoginGateTypeOK
  <2>3. request[r].own <=> OwnLogin(r)
    BY <1>c DEF OwnLogin
  <2>4. disabled' = (disabled /\ ~request[r].own)
    BY <1>c DEF Enabled
  <2>5. disabled' <=> \E s \in Requests : OwnLogin(s)'
    BY <2>1, <2>3, <2>4 DEF GateInv
  <2>6. disabled' \in BOOLEAN
    BY <2>4
  <2> QED BY <2>1, <2>2, <2>5, <2>6
<1>1. CASE ChangeRemember
  <2>1. LoginGateTypeOK'
    BY <1>0, <1>1 DEF ChangeRemember, Stores, LoginGateTypeOK
  <2> QED BY <1>1, <2>1 DEF GateInv, ChangeRemember, OwnLogin
<1>2. CASE UseFallback
  BY <1>a, <1>b, <1>2 DEF UseFallback
<1>3. ASSUME NEW ok \in BOOLEAN, FirstProbe(ok) PROVE GateInv'
  BY <1>a, <1>b, <1>3 DEF FirstProbe
<1>4. ASSUME NEW ok \in BOOLEAN, SubmitFallback(ok) PROVE GateInv'
  <2>1. UNCHANGED <<mode, shown, disabled, rememberMe, request>>
    BY <1>4 DEF SubmitFallback
  <2>2. LoginGateTypeOK'
    <3>1. CASE Enter("fallback") \/ EnterFails("fallback")
      BY <1>0, <1>a, <2>1, <3>1, EnterTypes DEF LoginGateTypeOK
    <3>2. CASE UNCHANGED <<entered, screen>> /\ Stores
      BY <1>0, <2>1, <3>2 DEF LoginGateTypeOK, Stores
    <3> QED BY <1>4, <3>1, <3>2 DEF SubmitFallback
  <2> QED BY <2>1, <2>2 DEF GateInv, OwnLogin
<1>5. ASSUME NEW r \in Requests, UseXcmAuth(r) PROVE GateInv'
  <2>1. UNCHANGED <<screen, entered, mode, shown, disabled, rememberMe>> /\ Stores
    BY <1>5 DEF UseXcmAuth
  <2>2. request' \in [Requests -> [what : {"idle", "probe", "login", "over"}, own : BOOLEAN]]
    BY <1>0, <1>5 DEF UseXcmAuth, Send, LoginGateTypeOK
  <2>3. \A s \in Requests : OwnLogin(s)' <=> OwnLogin(s)
    BY <1>0, <1>5 DEF UseXcmAuth, Send, LoginGateTypeOK, OwnLogin, NotSent
  <2>4. LoginGateTypeOK'
    BY <1>0, <2>1, <2>2 DEF LoginGateTypeOK, Stores
  <2> QED BY <2>1, <2>3, <2>4 DEF GateInv
<1>6. ASSUME NEW r \in Requests, SubmitXcmAuth(r) PROVE GateInv'
  <2>1. UNCHANGED <<screen, entered, mode, shown, rememberMe>> /\ Stores /\ disabled' = TRUE
    BY <1>6 DEF SubmitXcmAuth
  <2>2. request' \in [Requests -> [what : {"idle", "probe", "login", "over"}, own : BOOLEAN]]
    BY <1>0, <1>6 DEF SubmitXcmAuth, Send, LoginGateTypeOK
  <2>3. \A s \in Requests : ~OwnLogin(s)
    BY <1>6 DEF SubmitXcmAuth, GateInv
  <2>4. \A s \in Requests : OwnLogin(s)' <=> s = r
    BY <1>0, <1>6, <2>3 DEF SubmitXcmAuth, Send, LoginGateTypeOK, OwnLogin
  <2>5. LoginGateTypeOK'
    BY <1>0, <2>1, <2>2 DEF LoginGateTypeOK, Stores
  <2> QED BY <1>0, <2>1, <2>4, <2>5 DEF GateInv
<1>7. ASSUME NEW r \in Requests, NEW ok \in BOOLEAN, ProbeAnswers(r, ok) PROVE GateInv'
  BY <1>a, <1>b, <1>7 DEF ProbeAnswers
<1>8. ASSUME NEW r \in Requests, LoginAccepted(r) PROVE GateInv'
  <2>1. /\ request[r].what = "login" /\ Enabled(r) /\ Ended(r)
        /\ UNCHANGED <<mode, shown, rememberMe>> /\ (Enter("xcm_auth") \/ EnterFails("xcm_auth"))
    BY <1>8 DEF LoginAccepted
  <2>2. LoginGateTypeOK'
    BY <1>0, <1>a, <1>c, <2>1, EnterTypes DEF LoginGateTypeOK
  <2> QED BY <1>0, <1>c, <2>1, <2>2 DEF GateInv
<1>9. ASSUME NEW r \in Requests, LoginRefused(r) PROVE GateInv'
  <2>1. /\ request[r].what = "login" /\ Enabled(r) /\ Ended(r)
        /\ UNCHANGED <<screen, entered, mode, shown, rememberMe>> /\ Stores
    BY <1>9 DEF LoginRefused
  <2>2. LoginGateTypeOK'
    BY <1>0, <1>c, <2>1 DEF LoginGateTypeOK, Stores
  <2> QED BY <1>0, <1>c, <2>1, <2>2 DEF GateInv
<1>10. ASSUME NEW r \in Requests, LoginUnavailable(r) PROVE GateInv'
  BY <1>a, <1>b, <1>10 DEF LoginUnavailable
<1>11. CASE UNCHANGED gateVars
  BY <1>11 DEF gateVars, GateInv, LoginGateTypeOK, OwnLogin
<1> QED
  BY <1>1, <1>2, <1>3, <1>4, <1>5, <1>6, <1>7, <1>8, <1>9, <1>10, <1>11 DEF LoginGateNext

-----------------------------------------------------------------------------
(* The dock of the agent panel *)

LEMMA DockStep == DockInv /\ [DockNext]_dockVars => DockInv'
<1> SUFFICES ASSUME DockInv, [DockNext]_dockVars PROVE DockInv'
  OBVIOUS
<1> USE DEF DockInv, DockTypeOK, DockAtRest, Ways
<1>1. CASE Collapse
  <2>1. /\ collapsed' = TRUE /\ hidden' = FALSE /\ genie' = {"out"} /\ playing' = TRUE
        /\ onEnd' = onEnd \cup {"out"} /\ fab' = fab /\ storedCollapsed' \in BOOLEAN
    BY <1>1 DEF Collapse, TurnAround
  <2>2. fab = FALSE
    BY <1>1 DEF Collapse
  <2> QED BY <2>1, <2>2
<1>2. CASE Expand
  BY <1>2 DEF Expand, TurnAround
<1>3. CASE AnimationEnds
  BY <1>3 DEF AnimationEnds
<1>4. CASE ReloadDock
  BY <1>4 DEF ReloadDock
<1>5. CASE UNCHANGED dockVars
  BY <1>5 DEF dockVars
<1> QED BY <1>1, <1>2, <1>3, <1>4, <1>5 DEF DockNext

LEMMA DockInitially == DockInit => DockInv
BY DEF DockInit, AtOnce, DockInv, DockTypeOK, DockAtRest

-----------------------------------------------------------------------------
(* Exports *)

LEMMA ExportInitially == ExporterInit => ExportInv
<1> SUFFICES ASSUME ExporterInit PROVE ExportInv
  OBVIOUS
<1>1. NotCalled \in Call /\ NotCalled.stage = "unused"
  BY ExporterAssumption DEF NotCalled, Call, ExportStages, Nothing, Content
<1>2. export \in [Exports -> Call] /\ \A x \in Exports : export[x].stage = "unused"
  BY <1>1 DEF ExporterInit
<1>3. ExporterTypeOK
  BY <1>2, ExporterAssumption DEF ExporterTypeOK, ExporterInit
<1>4. \A x \in Exports : CallFollows(x) /\ FileOfItsOwn(x)
  BY <1>2 DEF CallFollows, FileOfItsOwn
<1> QED BY <1>3, <1>4 DEF ExportInv, ExporterInit, LeavesAsAsked

\* A step changes one export at most.
LEMMA OneExport ==
    ASSUME ExporterTypeOK, NEW x \in Exports, NEW c \in Call, export' = [export EXCEPT ![x] = c]
    PROVE  /\ export' \in [Exports -> Call] /\ export'[x] = c
           /\ \A y \in Exports \ {x} : export'[y] = export[y]
BY DEF ExporterTypeOK

\* A call that moves to another stage is what it was otherwise.
LEMMA NextStage ==
    ASSUME ExporterTypeOK, NEW x \in Exports, NEW stage \in ExportStages, Moves(x, stage)
    PROVE  /\ export' \in [Exports -> Call] /\ export'[x].stage = stage
           /\ \A y \in Exports : /\ export'[y].mail = export[y].mail
                                 /\ export'[y].asked = export[y].asked
                                 /\ export'[y].path = export[y].path
                                 /\ export'[y].tries = export[y].tries
           /\ \A y \in Exports \ {x} : export'[y].stage = export[y].stage
<1>1. export[x] \in Call
  BY DEF ExporterTypeOK
<1>2. PICK c : c = [export[x] EXCEPT !.stage = stage]
  OBVIOUS
<1>3. c \in Call /\ c.stage = stage /\ c.mail = export[x].mail /\ c.asked = export[x].asked
      /\ c.path = export[x].path /\ c.tries = export[x].tries
  BY <1>1, <1>2 DEF Call
<1>4. export' = [export EXCEPT ![x] = c]
  BY <1>2 DEF Moves
<1> QED BY <1>3, <1>4, OneExport

\* What a step leaves of the calls that have begun and the files they share.
Onward == \A x \in Exports :
    Begun(x) => /\ Begun(x)' /\ export'[x].mail = export[x].mail
                /\ export'[x].path = export[x].path /\ export'[x].asked = export[x].asked
                /\ export[x].stage # "writing" => export'[x].stage # "writing"

LEMMA CollisionsStay ==
    ASSUME Onward, NEW x \in Exports, Begun(x), Collides(x)
    PROVE  Collides(x)'
BY DEF Onward, Collides, Begun

LEMMA WrittenTypes == \A c \in Content : Written(c) \in Content
BY DEF Written, Content, Drawable, Drawings

\* What has left stays as it was asked for.
LEMMA LeftStays ==
    ASSUME ExportInv, Onward, NEW e \in left
    PROVE  /\ e.by \in Exports /\ Begun(e.by)' /\ export'[e.by].stage # "writing"
           /\ Collides(e.by)' \/ e.content = Written(export'[e.by].asked)
<1>1. e.by \in Exports /\ Begun(e.by) /\ export[e.by].stage # "writing"
  BY DEF ExportInv, ExporterTypeOK
<1>2. Collides(e.by) \/ e.content = Written(export[e.by].asked)
  BY DEF ExportInv, LeavesAsAsked
<1>3. Begun(e.by)' /\ export'[e.by].stage # "writing" /\ export'[e.by].asked = export[e.by].asked
  BY <1>1 DEF Onward
<1>4. Collides(e.by) => Collides(e.by)'
  BY <1>1, CollisionsStay
<1> QED BY <1>1, <1>2, <1>3, <1>4

\* A file that is not written stays what its e-mail needs.
LEMMA FileStays ==
    ASSUME ExportInv, Onward, NEW x \in Exports, export[x].stage = "sending",
           At(export[x].path)' \subseteq At(export[x].path)
    PROVE  FileOfItsOwn(x)'
<1>1. Begun(x) /\ FileOfItsOwn(x)
  BY DEF Begun, ExportInv
<1>2. export'[x].path = export[x].path /\ export'[x].asked = export[x].asked
  BY <1>1 DEF Onward
<1>3. CASE Collides(x)
  BY <1>1, <1>3, CollisionsStay DEF FileOfItsOwn
<1>4. CASE \A f \in At(export[x].path) : f.content = Written(export[x].asked)
  <2>1. \A f \in At(export[x].path)' : f.content = Written(export'[x].asked)
    BY <1>2, <1>4
  <2> QED BY <2>1 DEF FileOfItsOwn
<1> QED BY <1>1, <1>3, <1>4 DEF FileOfItsOwn

\* What is left to show of a step.
LEMMA ExportKept ==
    ASSUME ExportInv, Onward, ExporterTypeOK',
           \A x \in Exports : CallFollows(x)',
           \A x \in Exports : export'[x].stage = "sending" =>
               \/ export[x].stage = "sending" /\ At(export[x].path)' \subseteq At(export[x].path)
               \/ FileOfItsOwn(x)',
           \A e \in left' \ left :
               /\ e.by \in Exports /\ Begun(e.by)' /\ export'[e.by].stage # "writing"
               /\ Collides(e.by)' \/ e.content = Written(export'[e.by].asked)
    PROVE  ExportInv'
<1>1. ASSUME NEW x \in Exports PROVE FileOfItsOwn(x)'
  <2>1. CASE export'[x].stage = "sending"
    BY <2>1, FileStays
  <2>2. CASE export'[x].stage # "sending"
    BY <2>2 DEF FileOfItsOwn
  <2> QED BY <2>1, <2>2
<1>2. \A e \in left' : /\ e.by \in Exports /\ Begun(e.by)' /\ export'[e.by].stage # "writing"
                       /\ Collides(e.by)' \/ e.content = Written(export'[e.by].asked)
  BY LeftStays
<1> QED BY <1>1, <1>2 DEF ExportInv, LeavesAsAsked

LEMMA ExportStep == ExportInv /\ [ExporterNext]_exportVars => ExportInv'
<1> SUFFICES ASSUME ExportInv, [ExporterNext]_exportVars PROVE ExportInv'
  OBVIOUS
<1>0. ExporterTypeOK /\ \A x \in Exports : CallFollows(x) /\ FileOfItsOwn(x)
  BY DEF ExportInv
<1>s. ExportStages = {"unused", "building", "writing", "sending", "cleaning", "over"}
  BY DEF ExportStages
<1>t. /\ document \in 1 .. MaxDocuments /\ drawings \subseteq Drawings
      /\ export \in [Exports -> Call] /\ now \in 1 .. MaxTicks
      /\ temporary \subseteq File /\ \A f, g \in temporary : f.path = g.path => f = g
      /\ left \subseteq [by : Exports, content : Content]
  BY <1>0 DEF ExporterTypeOK
\* The calls do not change.
<1>1. ASSUME UNCHANGED <<export, temporary, left>>, document' \in 1 .. MaxDocuments,
             drawings' \subseteq Drawings, now' \in 1 .. MaxTicks
      PROVE  ExportInv'
  <2>1. Onward
    BY <1>1 DEF Onward, Begun
  <2>2. ExporterTypeOK'
    BY <1>t, <1>1 DEF ExporterTypeOK
  <2>3. \A x \in Exports : CallFollows(x)' /\ At(export[x].path)' = At(export[x].path)
    BY <1>0, <1>1 DEF CallFollows, At
  <2> QED BY <1>1, <2>1, <2>2, <2>3, ExportKept
\* One of them has another stage.
<1>2. ASSUME NEW x \in Exports, NEW stage \in ExportStages, Moves(x, stage)
      PROVE  /\ export' \in [Exports -> Call] /\ export'[x].stage = stage
             /\ \A y \in Exports : /\ export'[y].mail = export[y].mail
                                   /\ export'[y].asked = export[y].asked
                                   /\ export'[y].path = export[y].path
                                   /\ export'[y].tries = export[y].tries
             /\ \A y \in Exports \ {x} : export'[y].stage = export[y].stage
  BY <1>0, <1>2, NextStage
<1>3. ASSUME NEW d \in Drawings, Annotate(d) PROVE ExportInv'
  BY <1>t, <1>1, <1>3 DEF Annotate
<1>4. CASE OpenAnother
  <2>1. document' \in 1 .. MaxDocuments
    BY <1>t, <1>4, ExporterAssumption DEF OpenAnother
  <2> QED BY <1>t, <1>1, <1>4, <2>1 DEF OpenAnother
<1>5. CASE Clock
  <2>1. now' \in 1 .. MaxTicks
    BY <1>t, <1>5, ExporterAssumption DEF Clock
  <2> QED BY <1>t, <1>1, <1>5, <2>1 DEF Clock
<1>6. ASSUME NEW x \in Exports, NEW mail \in BOOLEAN, StartExport(x, mail) PROVE ExportInv'
  <2>0. export[x] = NotCalled /\ export[x].stage = "unused" /\ export[x].tries = 0 /\ export[x] \in Call
    <3>1. export[x] = NotCalled /\ export[x] \in Call
      BY <1>t, <1>6 DEF StartExport
    <3>2. NotCalled.stage = "unused" /\ NotCalled.tries = 0
      BY DEF NotCalled
    <3> QED BY <3>1, <3>2
  <2>1. PICK c : c = [export[x] EXCEPT !.stage = "building", !.mail = mail,
                        !.asked = [document |-> document, drawings |-> drawings]]
    OBVIOUS
  <2>2. c \in Call /\ c.stage = "building" /\ c.tries = 0
    <3>1. [document |-> document, drawings |-> drawings] \in Content
      BY <1>t DEF Content
    <3> QED BY <2>0, <2>1, <3>1 DEF Call, ExportStages
  <2>3. export' = [export EXCEPT ![x] = c] /\ export[x].stage = "unused"
    BY <1>t, <1>6, <2>0, <2>1 DEF StartExport
  <2>4. /\ export' \in [Exports -> Call] /\ export'[x] = c
        /\ \A y \in Exports \ {x} : export'[y] = export[y]
    BY <1>0, <2>2, <2>3, OneExport
  <2>5. UNCHANGED <<document, drawings, now, temporary, left>>
    BY <1>6 DEF StartExport
  <2>6. Onward
    BY <2>2, <2>3, <2>4 DEF Onward, Begun
  <2>7. ExporterTypeOK'
    BY <1>t, <2>4, <2>5 DEF ExporterTypeOK
  <2>8. \A y \in Exports : CallFollows(y)'
    BY <1>0, <2>2, <2>4 DEF CallFollows
  <2>9. \A y \in Exports : export'[y].stage = "sending" =>
            export[y].stage = "sending" /\ At(export[y].path)' = At(export[y].path)
    BY <2>2, <2>4, <2>5 DEF At
  <2> QED BY <2>5, <2>6, <2>7, <2>8, <2>9, ExportKept
<1>7. ASSUME NEW x \in Exports, ExportFails(x) PROVE ExportInv'
  <2>1. export[x].stage = "building" /\ Moves(x, "over")
        /\ UNCHANGED <<document, drawings, now, temporary, left>>
    BY <1>7 DEF ExportFails
  <2>2. Onward
    BY <1>2, <1>s, <2>1 DEF Onward, Begun
  <2>3. ExporterTypeOK'
    BY <1>t, <1>2, <1>s, <2>1 DEF ExporterTypeOK
  <2>4. \A y \in Exports : CallFollows(y)'
    BY <1>0, <1>2, <1>s, <2>1 DEF CallFollows
  <2>5. \A y \in Exports : export'[y].stage = "sending" =>
            export[y].stage = "sending" /\ At(export[y].path)' = At(export[y].path)
    BY <1>2, <1>s, <2>1 DEF At
  <2> QED BY <2>1, <2>2, <2>3, <2>4, <2>5, ExportKept
<1>8. ASSUME NEW x \in Exports, Download(x) PROVE ExportInv'
  <2>1. /\ export[x].stage = "building" /\ Moves(x, "over")
        /\ UNCHANGED <<document, drawings, now, temporary>>
        /\ left' = left \cup {[by |-> x, content |-> Written(export[x].asked)]}
    BY <1>8 DEF Download, Leaves
  <2>2. Onward
    BY <1>2, <1>s, <2>1 DEF Onward, Begun
  <2>3. Written(export[x].asked) \in Content
    BY <1>t, WrittenTypes DEF Call
  <2>4. ExporterTypeOK'
    BY <1>t, <1>2, <1>s, <2>1, <2>3 DEF ExporterTypeOK
  <2>5. \A y \in Exports : CallFollows(y)'
    BY <1>0, <1>2, <1>s, <2>1 DEF CallFollows
  <2>6. \A y \in Exports : export'[y].stage = "sending" =>
            export[y].stage = "sending" /\ At(export[y].path)' = At(export[y].path)
    BY <1>2, <1>s, <2>1 DEF At
  <2>7. \A e \in left' \ left : e.by = x /\ e.content = Written(export'[x].asked)
    BY <1>2, <1>s, <2>1
  <2>8. Begun(x)' /\ export'[x].stage # "writing"
    BY <1>2, <1>s, <2>1 DEF Begun
  <2> QED BY <2>2, <2>4, <2>5, <2>6, <2>7, <2>8, ExportKept
<1>9. ASSUME NEW x \in Exports, HandToMain(x) PROVE ExportInv'
  <2>1. PICK c : c = [export[x] EXCEPT !.stage = "writing", !.path = now]
    OBVIOUS
  <2>2. c \in Call /\ c.stage = "writing" /\ c.tries = 0 /\ c.mail /\ c.path # 0
    <3>1. export[x] \in Call /\ export[x].mail /\ export[x].tries = 0
      BY <1>t, <1>0, <1>9 DEF HandToMain, CallFollows
    <3>2. now \in 0 .. MaxTicks /\ now # 0
      BY <1>t, ExporterAssumption
    <3> QED BY <2>1, <3>1, <3>2 DEF Call, ExportStages
  <2>3. export' = [export EXCEPT ![x] = c] /\ export[x].stage = "building"
    BY <1>t, <1>9, <2>1 DEF HandToMain
  <2>4. /\ export' \in [Exports -> Call] /\ export'[x] = c
        /\ \A y \in Exports \ {x} : export'[y] = export[y]
    BY <1>0, <2>2, <2>3, OneExport
  <2>5. UNCHANGED <<document, drawings, now, temporary, left>>
    BY <1>9 DEF HandToMain
  <2>6. Onward
    BY <2>2, <2>3, <2>4 DEF Onward, Begun
  <2>7. ExporterTypeOK'
    BY <1>t, <2>4, <2>5 DEF ExporterTypeOK
  <2>8. \A y \in Exports : CallFollows(y)'
    BY <1>0, <2>2, <2>4 DEF CallFollows
  <2>9. \A y \in Exports : export'[y].stage = "sending" =>
            export[y].stage = "sending" /\ At(export[y].path)' = At(export[y].path)
    BY <2>2, <2>4, <2>5 DEF At
  <2> QED BY <2>5, <2>6, <2>7, <2>8, <2>9, ExportKept
<1>10. ASSUME NEW x \in Exports, WriteTemporary(x) PROVE ExportInv'
  <2>1. PICK g : g = [path |-> export[x].path, content |-> Written(export[x].asked)]
    OBVIOUS
  <2>2. /\ export[x].stage = "writing" /\ Moves(x, "sending")
        /\ UNCHANGED <<document, drawings, now, left>>
        /\ temporary' = (temporary \ At(export[x].path)) \cup {g}
    BY <1>10, <2>1 DEF WriteTemporary
  <2>3. Onward
    BY <1>2, <1>s, <2>2 DEF Onward, Begun
  <2>4. g \in File /\ g.path = export[x].path /\ g.content = Written(export[x].asked)
    <3>1. export[x] \in Call /\ export[x].path # 0
      BY <1>t, <1>0, <2>2 DEF CallFollows
    <3>2. export[x].path \in 1 .. MaxTicks
      BY <3>1, ExporterAssumption DEF Call
    <3>3. Written(export[x].asked) \in Content
      BY <3>1, WrittenTypes DEF Call
    <3> QED BY <2>1, <3>2, <3>3 DEF File
  <2>5. ExporterTypeOK'
    BY <1>t, <1>2, <1>s, <2>2, <2>4 DEF ExporterTypeOK, At
  <2>6. \A y \in Exports : CallFollows(y)'
    BY <1>0, <1>2, <1>s, <2>2 DEF CallFollows
  <2>7. FileOfItsOwn(x)'
    BY <1>2, <1>s, <2>2, <2>4 DEF FileOfItsOwn, At
  <2>8. ASSUME NEW y \in Exports \ {x}, export[y].stage = "sending", export[y].path = export[x].path
        PROVE  FileOfItsOwn(y)'
    <3>1. export[x].mail /\ export[y].mail
      BY <1>0, <2>2, <2>8 DEF CallFollows
    <3>2. Collides(y)'
      BY <1>2, <1>s, <2>2, <2>8, <3>1 DEF Collides
    <3> QED BY <3>2 DEF FileOfItsOwn
  <2>9. ASSUME NEW y \in Exports \ {x}, export[y].stage = "sending", export[y].path # export[x].path
        PROVE  At(export[y].path)' \subseteq At(export[y].path)
    BY <1>2, <1>s, <2>2, <2>4, <2>9 DEF At
  <2>10. \A y \in Exports \ {x} : export'[y].stage = export[y].stage
    BY <1>2, <1>s, <2>2
  <2> QED BY <2>2, <2>3, <2>5, <2>6, <2>7, <2>8, <2>9, <2>10, ExportKept
<1>11. ASSUME NEW x \in Exports, WriteTemporaryFails(x) PROVE ExportInv'
  <2>1. export[x].stage = "writing" /\ Moves(x, "cleaning")
        /\ UNCHANGED <<document, drawings, now, temporary, left>>
    BY <1>11 DEF WriteTemporaryFails
  <2>2. Onward
    BY <1>2, <1>s, <2>1 DEF Onward, Begun
  <2>3. ExporterTypeOK'
    BY <1>t, <1>2, <1>s, <2>1 DEF ExporterTypeOK
  <2>4. \A y \in Exports : CallFollows(y)'
    BY <1>0, <1>2, <1>s, <2>1 DEF CallFollows
  <2>5. \A y \in Exports : export'[y].stage = "sending" =>
            export[y].stage = "sending" /\ At(export[y].path)' = At(export[y].path)
    BY <1>2, <1>s, <2>1 DEF At
  <2> QED BY <2>1, <2>2, <2>3, <2>4, <2>5, ExportKept
<1>12. ASSUME NEW x \in Exports, CleanUp(x) PROVE ExportInv'
  <2>1. /\ export[x].stage = "cleaning" /\ Moves(x, "over")
        /\ UNCHANGED <<document, drawings, now, left>> /\ temporary' \subseteq temporary
    BY <1>12 DEF CleanUp
  <2>2. Onward
    BY <1>2, <1>s, <2>1 DEF Onward, Begun
  <2>3. ExporterTypeOK'
    BY <1>t, <1>2, <1>s, <2>1 DEF ExporterTypeOK
  <2>4. \A y \in Exports : CallFollows(y)'
    BY <1>0, <1>2, <1>s, <2>1 DEF CallFollows
  <2>5. \A y \in Exports : export'[y].stage = "sending" =>
            export[y].stage = "sending" /\ At(export[y].path)' \subseteq At(export[y].path)
    BY <1>2, <1>s, <2>1 DEF At
  <2> QED BY <2>1, <2>2, <2>3, <2>4, <2>5, ExportKept
<1>13. ASSUME NEW x \in Exports, NEW sent \in BOOLEAN, NEW zero \in BOOLEAN, RunScript(x, sent, zero)
       PROVE  ExportInv'
  <2>1. PICK c : c = [export[x] EXCEPT !.tries = export[x].tries + 1, !.ok = zero,
                         !.stage = IF zero \/ export[x].tries + 1 = 2 THEN "cleaning" ELSE "sending"]
    OBVIOUS
  <2>2. /\ export[x].stage = "sending" /\ export' = [export EXCEPT ![x] = c]
        /\ left' \subseteq left \cup {[by |-> x, content |-> f.content] : f \in At(export[x].path)}
        /\ UNCHANGED <<document, drawings, now, temporary>>
    BY <1>13, <2>1 DEF RunScript
  <2>3. export[x] \in Call /\ export[x].mail /\ export[x].path # 0 /\ export[x].tries \in 0 .. 1
    BY <1>t, <1>0, <2>2 DEF CallFollows, Call
  <2>4. /\ c \in Call /\ c.mail = export[x].mail /\ c.asked = export[x].asked
        /\ c.path = export[x].path
        /\ c.stage \in {"sending", "cleaning"} /\ (c.stage = "sending" => c.tries # 2)
    <3>1. PICK t \in 1 .. 2 : t = export[x].tries + 1
      BY <2>3
    <3>2. PICK stage \in {"sending", "cleaning"} :
              stage = IF zero \/ t = 2 THEN "cleaning" ELSE "sending"
      OBVIOUS
    <3>3. c = [export[x] EXCEPT !.tries = t, !.ok = zero, !.stage = stage]
      BY <2>1, <3>1, <3>2
    <3>4. c \in Call
      <4>1. t \in 0 .. 2 /\ stage \in ExportStages /\ export[x] \in Call
        BY <2>3, <3>1, <3>2, <1>s
      <4> QED BY <3>3, <4>1 DEF Call
    <3>5. /\ c.mail = export[x].mail /\ c.asked = export[x].asked /\ c.path = export[x].path
          /\ c.stage = stage /\ c.tries = t
      BY <2>3, <3>3 DEF Call
    <3> QED BY <3>1, <3>2, <3>4, <3>5
  <2>5. /\ export' \in [Exports -> Call] /\ export'[x] = c
        /\ \A y \in Exports \ {x} : export'[y] = export[y]
    BY <1>0, <2>2, <2>4, OneExport
  <2>6. Onward
    BY <2>2, <2>4, <2>5 DEF Onward, Begun
  <2>7. \A f \in At(export[x].path) : f.content \in Content
    BY <1>t DEF At, File
  <2>8. left' \subseteq [by : Exports, content : Content]
    BY <1>t, <2>2, <2>7
  <2>9. ExporterTypeOK'
    BY <1>t, <2>2, <2>5, <2>8 DEF ExporterTypeOK
  <2>10. \A y \in Exports : CallFollows(y)'
    BY <1>0, <2>3, <2>4, <2>5, ZenonT(40) DEF CallFollows
  <2>11. \A y \in Exports : export'[y].stage = "sending" =>
             export[y].stage = "sending" /\ At(export[y].path)' = At(export[y].path)
    BY <2>2, <2>4, <2>5 DEF At
  <2>12. Begun(x) /\ Begun(x)' /\ export'[x].stage # "writing"
    BY <2>2, <2>4, <2>5 DEF Begun
  <2>13. Collides(x)' \/ \A f \in At(export[x].path) : f.content = Written(export'[x].asked)
    BY <1>0, <2>2, <2>4, <2>5, <2>6, <2>12, CollisionsStay DEF FileOfItsOwn
  <2>14. \A e \in left' \ left : e.by = x /\ \E f \in At(export[x].path) : e.content = f.content
    BY <2>2
  <2> QED BY <2>6, <2>9, <2>10, <2>11, <2>12, <2>13, <2>14, ExportKept
<1>14. CASE UNCHANGED exportVars
  BY <1>t, <1>1, <1>14 DEF exportVars
<1> QED
  BY <1>3, <1>4, <1>5, <1>6, <1>7, <1>8, <1>9, <1>10, <1>11, <1>12, <1>13, <1>14 DEF ExporterNext

-----------------------------------------------------------------------------
(* The pages on screen *)

LEMMA ViewerInitially == ViewerInit => ViewerInv
<1> SUFFICES ASSUME ViewerInit PROVE ViewerInv
  OBVIOUS
<1>1. LastPage \in Nat \ {0} /\ MaxZoom \in Nat \ {0} /\ 1 \in Pages /\ 1 \in 1 .. MaxZoom
  BY ViewerAssumption DEF Pages
<1>2. Unseen \in View /\ Unseen.stage = "unused"
  BY <1>1 DEF Unseen, View
<1>3. view \in [Views -> View] /\ AtWork = {}
  BY <1>2 DEF ViewerInit, AtWork
<1>4. canvas \in [page : 0 .. LastPage, zoom : 1 .. MaxZoom, torn : BOOLEAN]
      /\ overlay \in [page : Pages, zoom : 1 .. MaxZoom]
  BY <1>1 DEF ViewerInit, Showing, Pages
<1>5. thumbnails \in 0 .. LastPage
  BY <1>1 DEF ViewerInit
<1>6. ViewerTypeOK
  BY <1>1, <1>3, <1>4, <1>5 DEF ViewerInit, ViewerTypeOK
<1>7. PageSettles
  BY DEF ViewerInit, PageSettles, OverlaySettles, CanvasSettles
<1> QED BY <1>3, <1>6, <1>7 DEF ViewerInv

\* A call that begins is at work, alone if it is not said to overlap.
LEMMA RenderStep ==
    ASSUME ViewerInv, NEW v \in Views, NEW page \in Pages, NEW z \in 1 .. MaxZoom,
           NEW goesTo \in BOOLEAN, Render(v, page, z, goesTo),
           currentPage' = page, zoom' = z, goesTo \/ page = currentPage
    PROVE  ViewerInv'
<1>0. ViewerTypeOK /\ PageSettles /\ (overlapped \/ \A w \in AtWork : Alone(w))
  BY DEF ViewerInv
<1>1. PICK c : c = [stage |-> "fetching", page |-> page, zoom |-> z, goesTo |-> goesTo]
  OBVIOUS
<1>2. /\ c \in View /\ c.stage = "fetching" /\ c.page = page /\ c.zoom = z /\ c.goesTo = goesTo
  BY <1>1, ViewerAssumption DEF View, Pages
<1>3. /\ view' = [view EXCEPT ![v] = c] /\ view[v] = Unseen
      /\ overlapped' = IF AtWork = {} /\ goesTo THEN FALSE ELSE overlapped \/ AtWork # {}
      /\ UNCHANGED <<totalPages, canvas, overlay, thumbnails, active>>
  BY <1>1 DEF Render
<1>4. /\ view' \in [Views -> View] /\ view'[v] = c
      /\ \A w \in Views \ {v} : view'[w] = view[w]
  BY <1>0, <1>2, <1>3 DEF ViewerTypeOK
<1>5. v \notin AtWork
  BY <1>3 DEF AtWork, Unseen
<1>6. AtWork' = AtWork \cup {v}
  BY <1>2, <1>4 DEF AtWork
<1>7. ViewerTypeOK'
  BY <1>0, <1>3, <1>4 DEF ViewerTypeOK
<1>8. ASSUME ~overlapped' PROVE \A w \in AtWork' : Alone(w)'
  <2>1. AtWork = {} /\ (goesTo \/ ~overlapped)
    BY <1>3, <1>8
  <2>2. AtWork' = {v}
    BY <1>6, <2>1
  <2>3. ~goesTo => active' = {currentPage'} \cap 1 .. thumbnails'
    BY <1>0, <1>3, <2>1 DEF PageSettles, CanvasSettles
  <2> QED BY <1>2, <1>4, <2>2, <2>3 DEF Alone
<1>9. \A w \in AtWork' : view'[w].zoom # 0
  BY <1>2, <1>4, <1>6, ViewerAssumption DEF ViewerInv, AtWork
<1> QED BY <1>6, <1>7, <1>8, <1>9 DEF ViewerInv, PageSettles

LEMMA LookSteps ==
    ASSUME ViewerInv, NEW v \in Views
    PROVE  /\ \A page \in Pages : GoTo(v, page) => ViewerInv'
           /\ \A step \in {-1, 1} : Zoom(v, step) => ViewerInv'
<1>0. currentPage \in Pages /\ zoom \in 1 .. MaxZoom
  BY DEF ViewerInv, ViewerTypeOK
<1>1. ASSUME NEW page \in Pages, GoTo(v, page) PROVE ViewerInv'
  BY <1>0, <1>1, RenderStep DEF GoTo
<1>2. ASSUME NEW step \in {-1, 1}, Zoom(v, step) PROVE ViewerInv'
  <2>1. /\ zoom + step \in 1 .. MaxZoom /\ zoom' = zoom + step /\ currentPage' = currentPage
        /\ Render(v, currentPage, zoom + step, FALSE)
    BY <1>2 DEF Zoom
  <2> QED BY <1>0, <2>1, RenderStep
<1> QED BY <1>1, <1>2

\* Thumbnails are made without regard to the page.
ThumbnailsFollow(p, t, a) == a = {p} \cap 1 .. t

LEMMA ThumbnailStep ==
    ASSUME ViewerTypeOK, NextThumbnail, ThumbnailsFollow(currentPage, thumbnails, active)
    PROVE  ThumbnailsFollow(currentPage', thumbnails', active')
<1>1. PICK t \in Nat : t = thumbnails
  BY DEF ViewerTypeOK
<1>2. currentPage' = currentPage /\ thumbnails' = t + 1
      /\ active' = IF t + 1 = currentPage THEN active \cup {currentPage} ELSE active
  BY <1>1 DEF NextThumbnail
<1>3. currentPage \in Nat \ {0}
  BY ViewerAssumption DEF ViewerTypeOK, Pages
<1>4. active = {currentPage} \cap 1 .. t
  BY <1>1 DEF ThumbnailsFollow
<1>5. active' = {currentPage} \cap 1 .. t + 1
  BY <1>1, <1>2, <1>3, <1>4
<1> QED BY <1>2, <1>5 DEF ThumbnailsFollow

LEMMA ViewerGoesOnStep ==
    ASSUME ViewerInv, ViewerGoesOn
    PROVE  ViewerInv'
<1>0. ViewerTypeOK /\ PageSettles /\ (overlapped \/ \A w \in AtWork : Alone(w))
      /\ \A w \in AtWork : view[w].zoom # 0
  BY DEF ViewerInv
<1>1. ASSUME NEW v \in Views, PageArrives(v) PROVE ViewerInv'
  <2>1. /\ view[v].stage = "fetching"
        /\ UNCHANGED <<totalPages, currentPage, zoom, overlay, thumbnails, active, overlapped>>
    BY <1>1 DEF PageArrives
  <2>2. PICK c : c = [view[v] EXCEPT !.stage = IF Drawing = {} THEN "drawing" ELSE "rejected"]
    OBVIOUS
  <2>3. /\ c \in View /\ c.stage = IF Drawing = {} THEN "drawing" ELSE "rejected"
        /\ c.page = view[v].page /\ c.zoom = view[v].zoom /\ c.goesTo = view[v].goesTo
    BY <1>0, <2>2 DEF ViewerTypeOK, View
  <2>4. view' = [view EXCEPT ![v] = c]
    BY <1>1, <2>2 DEF PageArrives
  <2>5. /\ view' \in [Views -> View] /\ view'[v] = c
        /\ \A w \in Views \ {v} : view'[w] = view[w]
    BY <1>0, <2>3, <2>4 DEF ViewerTypeOK
  <2>6. v \in AtWork /\ view[v].zoom \in 1 .. MaxZoom
    <3>1. v \in AtWork /\ view[v] \in View /\ view[v].zoom # 0
      BY <1>0, <2>1 DEF AtWork, ViewerTypeOK
    <3> QED BY <3>1, ViewerAssumption DEF View
  <2>7. CASE Drawing = {}
    <3>1. canvas' = [page |-> 0, zoom |-> view[v].zoom, torn |-> FALSE]
      BY <1>1, <2>7 DEF PageArrives
    <3>2. canvas' \in [page : 0 .. LastPage, zoom : 1 .. MaxZoom, torn : BOOLEAN]
      BY <2>6, <3>1, ViewerAssumption
    <3>3. AtWork' = AtWork
      BY <2>1, <2>3, <2>5, <2>7 DEF AtWork
    <3>4. ViewerTypeOK'
      BY <1>0, <2>1, <2>5, <3>2 DEF ViewerTypeOK
    <3>5. ASSUME NEW w \in AtWork', Alone(w) PROVE Alone(w)'
      <4>1. w \in AtWork /\ w = v
        BY <2>6, <3>3, <3>5 DEF Alone
      <4> QED BY <2>1, <2>3, <2>5, <3>1, <3>3, <3>5, <4>1 DEF Alone
    <3>6. \A w \in AtWork' : view'[w].zoom # 0
      BY <1>0, <2>3, <2>5, <3>3 DEF AtWork
    <3> QED BY <1>0, <2>1, <2>6, <3>3, <3>4, <3>5, <3>6 DEF ViewerInv, PageSettles
  <2>8. CASE Drawing # {}
    <3>1. canvas' = [canvas EXCEPT !.zoom = view[v].zoom, !.torn = TRUE]
      BY <1>1, <2>8 DEF PageArrives
    <3>2. canvas' \in [page : 0 .. LastPage, zoom : 1 .. MaxZoom, torn : BOOLEAN]
      BY <1>0, <2>6, <3>1 DEF ViewerTypeOK
    <3>3. PICK w \in AtWork : view[w].stage = "drawing"
      BY <2>8 DEF Drawing, AtWork
    <3>4. w # v /\ w \in AtWork' /\ AtWork' \subseteq AtWork
      BY <2>1, <2>3, <2>5, <2>8, <3>3 DEF AtWork
    <3>5. overlapped /\ overlapped'
      BY <1>0, <2>1, <2>6, <3>3, <3>4 DEF Alone
    <3>6. ViewerTypeOK'
      BY <1>0, <2>1, <2>5, <3>2 DEF ViewerTypeOK
    <3>7. \A u \in AtWork' : view'[u].zoom # 0
      BY <1>0, <2>3, <2>5, <3>4 DEF AtWork
    <3> QED BY <3>4, <3>5, <3>6, <3>7 DEF ViewerInv, PageSettles
  <2> QED BY <2>7, <2>8
<1>2. ASSUME NEW v \in Views, Drawn(v) PROVE ViewerInv'
  <2>1. /\ view[v].stage = "drawing"
        /\ canvas' = [canvas EXCEPT !.page = view[v].page] /\ overlay' = Showing(currentPage, zoom)
        /\ active' = IF view[v].goesTo THEN {view[v].page} \cap 1 .. thumbnails ELSE active
        /\ UNCHANGED <<totalPages, currentPage, zoom, thumbnails, overlapped>>
    BY <1>2 DEF Drawn
  <2>2. PICK c : c = [view[v] EXCEPT !.stage = "shown"]
    OBVIOUS
  <2>3. c \in View /\ c.stage = "shown" /\ view[v] \in View
    BY <1>0, <2>2 DEF ViewerTypeOK, View
  <2>4. view' = [view EXCEPT ![v] = c]
    BY <1>2, <2>2 DEF Drawn
  <2>5. /\ view' \in [Views -> View] /\ view'[v] = c
        /\ \A w \in Views \ {v} : view'[w] = view[w]
    BY <1>0, <2>3, <2>4 DEF ViewerTypeOK
  <2>6. v \in AtWork /\ AtWork' = AtWork \ {v}
    BY <2>1, <2>3, <2>5 DEF AtWork
  <2>7. ViewerTypeOK'
    <3>1. canvas' \in [page : 0 .. LastPage, zoom : 1 .. MaxZoom, torn : BOOLEAN]
      BY <1>0, <2>1, <2>3 DEF ViewerTypeOK, View
    <3>2. overlay' \in [page : Pages, zoom : 1 .. MaxZoom]
      BY <1>0, <2>1 DEF ViewerTypeOK, Showing
    <3>3. active' \subseteq 1 .. thumbnails'
      BY <1>0, <2>1 DEF ViewerTypeOK
    <3> QED BY <1>0, <2>1, <2>5, <3>1, <3>2, <3>3 DEF ViewerTypeOK
  <2>8. OverlaySettles'
    BY <2>1 DEF OverlaySettles
  <2>9. ASSUME ~overlapped' PROVE AtWork' = {} /\ CanvasSettles'
    <3>1. Alone(v)
      BY <1>0, <2>1, <2>6, <2>9
    <3>2. AtWork' = {}
      BY <2>6, <3>1 DEF Alone
    <3>3. canvas' = [page |-> currentPage, zoom |-> zoom, torn |-> FALSE]
      <4>1. canvas = [page |-> 0, zoom |-> zoom, torn |-> FALSE] /\ view[v].page = currentPage
        BY <2>1, <3>1 DEF Alone
      <4>2. canvas' = [canvas EXCEPT !.page = currentPage]
        BY <2>1, <4>1
      <4> QED BY <4>1, <4>2
    <3>4. active' = {currentPage} \cap 1 .. thumbnails
      BY <2>1, <3>1 DEF Alone
    <3> QED BY <2>1, <3>2, <3>3, <3>4 DEF CanvasSettles
  <2>10. \A w \in AtWork' : view'[w].zoom # 0
    BY <1>0, <2>5, <2>6 DEF AtWork
  <2> QED BY <2>7, <2>8, <2>9, <2>10 DEF ViewerInv, PageSettles
<1>3. CASE NextThumbnail
  <2>1. UNCHANGED <<totalPages, currentPage, zoom, view, canvas, overlay, overlapped>>
        /\ AtWork' = AtWork
    BY <1>3 DEF NextThumbnail, AtWork
  <2>2. ViewerTypeOK'
    <3>1. PICK t \in Nat : t = thumbnails
      BY <1>0 DEF ViewerTypeOK
    <3>2. t + 1 \in 1 .. LastPage /\ thumbnails' = t + 1
      BY <1>0, <1>3, <3>1, ViewerAssumption DEF NextThumbnail, ViewerTypeOK
    <3>3. active \subseteq 1 .. t
      BY <1>0, <3>1 DEF ViewerTypeOK
    <3>4. active' \subseteq 1 .. t + 1
      <4>1. t + 1 \in 1 .. t + 1 /\ 1 .. t \subseteq 1 .. t + 1
        BY <3>1
      <4>2. active' \subseteq active \cup {t + 1}
        BY <1>3, <3>1 DEF NextThumbnail
      <4> QED BY <3>3, <4>1, <4>2
    <3> QED BY <1>0, <2>1, <3>2, <3>4 DEF ViewerTypeOK
  <2>3. active = {currentPage} \cap 1 .. thumbnails => active' = {currentPage'} \cap 1 .. thumbnails'
    BY <1>0, <1>3, ThumbnailStep DEF ThumbnailsFollow
  <2>4. CanvasSettles => CanvasSettles'
    BY <2>1, <2>3 DEF CanvasSettles
  <2>5. ASSUME NEW w \in AtWork, Alone(w) PROVE Alone(w)'
    BY <2>1, <2>3, <2>5 DEF Alone
  <2> QED BY <1>0, <2>1, <2>2, <2>4, <2>5 DEF ViewerInv, PageSettles, OverlaySettles
<1> QED BY <1>1, <1>2, <1>3 DEF ViewerGoesOn

LEMMA ViewerGoneStep == ViewerGone => ViewerInv'
<1> SUFFICES ASSUME ViewerGone PROVE ViewerInv'
  OBVIOUS
<1>1. LastPage \in Nat \ {0} /\ MaxZoom \in Nat \ {0} /\ 1 \in Pages /\ 1 \in 1 .. MaxZoom
  BY ViewerAssumption DEF Pages
<1>2. Unseen \in View /\ Unseen.stage = "unused"
  BY <1>1 DEF Unseen, View
<1>3. view' \in [Views -> View] /\ AtWork' = {}
  BY <1>2 DEF ViewerGone, AtWork
<1>4. canvas' \in [page : 0 .. LastPage, zoom : 1 .. MaxZoom, torn : BOOLEAN]
      /\ overlay' \in [page : Pages, zoom : 1 .. MaxZoom]
  BY <1>1 DEF ViewerGone, Showing, Pages
<1>5. thumbnails' \in 0 .. LastPage /\ active' = {1} \cap 1 .. thumbnails'
  BY <1>1 DEF ViewerGone
<1>6. ViewerTypeOK'
  BY <1>1, <1>3, <1>4, <1>5 DEF ViewerGone, ViewerTypeOK
<1>7. PageSettles'
  BY <1>5 DEF ViewerGone, PageSettles, OverlaySettles, CanvasSettles
<1> QED BY <1>3, <1>6, <1>7 DEF ViewerInv

LEMMA ViewerStays == ViewerInv /\ UNCHANGED viewerVars => ViewerInv'
BY DEF viewerVars, ViewerInv, ViewerTypeOK, PageSettles, OverlaySettles, CanvasSettles, AtWork, Alone

-----------------------------------------------------------------------------
(* Chats *)

\* Trimming leaves the end of a chat.
LEMMA LatestElements ==
    ASSUME NEW ms \in Seq(Message)
    PROVE  /\ Latest(ms) \in Seq(Message) /\ Len(Latest(ms)) <= MaxSaved
           /\ \E d \in Nat : /\ Len(Latest(ms)) + d = Len(ms)
                             /\ \A i \in 1 .. Len(Latest(ms)) : Latest(ms)[i] = ms[i + d]
<1>1. PICK n \in Nat : n = Len(ms)
  BY LenProperties
<1>2. PICK m \in Nat \ {0} : m = MaxSaved
  BY AgentPanelAssumption
<1>3. CASE n > m
  <2>1. PICK t : t = SubSeq(ms, n - m + 1, n)
    OBVIOUS
  <2>2. n - m + 1 \in Nat \ {0} /\ n - m \in Nat
    BY <1>3
  <2>3. /\ t \in Seq(Message) /\ Len(t) = n - (n - m + 1) + 1
        /\ \A i \in 1 .. n - (n - m + 1) + 1 : t[i] = ms[(n - m + 1) + i - 1]
    BY <1>1, <2>1, <2>2, PartOfSeq
  <2>0. PICK d \in Nat : d = n - m
    BY <2>2
  <2>4. Len(t) = m /\ \A i \in 1 .. m : t[i] = ms[i + d]
    <3>1. n - (n - m + 1) + 1 = m /\ \A i \in 1 .. m : (n - m + 1) + i - 1 = i + d
      BY <2>0
    <3> QED BY <2>3, <3>1
  <2>5. Latest(ms) = t
    BY <1>1, <1>2, <1>3, <2>1 DEF Latest, Trimmed
  <2>6. Len(t) + d = n
    BY <2>0, <2>4
  <2>7. \A i \in 1 .. Len(t) : t[i] = ms[i + d]
    BY <2>4
  <2>8. Len(t) <= MaxSaved
    BY <1>2, <2>4
  <2> QED BY <1>1, <2>0, <2>3, <2>5, <2>6, <2>7, <2>8
<1>4. CASE ~(n > m)
  <2>1. Latest(ms) = ms
    BY <1>1, <1>2, <1>4 DEF Latest
  <2>2. Len(ms) + 0 = Len(ms) /\ \A i \in 1 .. Len(ms) : ms[i] = ms[i + 0]
    BY <1>1
  <2> QED BY <1>1, <1>2, <1>4, <2>1, <2>2
<1> QED BY <1>3, <1>4

LEMMA CardPlaces ==
    ASSUME NEW ms \in Seq(Message)
    PROVE  CardsOf(ms) = {i \in 1 .. Len(ms) : ms[i].kind = "card"}
BY LenProperties DEF CardsOf

LEMMA LatestCards ==
    ASSUME NEW ms \in Seq(Message), NEW F
    PROVE  /\ CardsAmong(ms, F) => Latest(ms) \in Chats(F)
           /\ Distinct(ms) => Distinct(Latest(ms))
<1>1. PICK t : t = Latest(ms)
  OBVIOUS
<1>2. PICK d \in Nat : Len(t) + d = Len(ms) /\ \A i \in 1 .. Len(t) : t[i] = ms[i + d]
  BY <1>1, LatestElements
<1>3. t \in Seq(Message) /\ Len(t) <= MaxSaved /\ Len(t) \in Nat /\ Len(ms) \in Nat
  BY <1>1, LatestElements, LenProperties
<1>4. \A i \in CardsOf(t) : i \in Nat /\ i + d \in CardsOf(ms) /\ t[i] = ms[i + d]
  <2> SUFFICES ASSUME NEW i \in CardsOf(t)
               PROVE  i \in Nat /\ i + d \in CardsOf(ms) /\ t[i] = ms[i + d]
    OBVIOUS
  <2>1. i \in 1 .. Len(t) /\ t[i].kind = "card"
    BY <1>3, CardPlaces
  <2>2. i \in Nat /\ i + d \in 1 .. Len(ms) /\ t[i] = ms[i + d]
    BY <1>2, <1>3, <2>1
  <2> QED BY <2>1, <2>2, CardPlaces
<1>5. CardsAmong(ms, F) => CardsAmong(t, F)
  BY <1>4 DEF CardsAmong
<1>6. Distinct(ms) => Distinct(t)
  <2> SUFFICES ASSUME Distinct(ms), NEW i \in CardsOf(t), NEW j \in CardsOf(t),
                      t[i].card = t[j].card
               PROVE  i = j
    BY DEF Distinct
  <2>1. i + d = j + d
    BY <1>4 DEF Distinct
  <2> QED BY <1>4, <2>1
<1> QED BY <1>1, <1>3, <1>5, <1>6 DEF Chats

\* The cards of a chat and of what is added to it.
LEMMA JoinedCards ==
    ASSUME NEW ms \in Seq(Message), NEW more \in Seq(Message), NEW F, NEW G,
           CardsAmong(ms, F), CardsAmong(more, G)
    PROVE  /\ ms \o more \in Seq(Message) /\ CardsAmong(ms \o more, F \cup G)
           /\ Distinct(ms) /\ Distinct(more) /\ F \cap G = {} => Distinct(ms \o more)
<1>1. PICK t : t = ms \o more
  OBVIOUS
<1>2. PICK n \in Nat : n = Len(ms)
  BY LenProperties
<1>3. PICK l \in Nat : l = Len(more)
  BY LenProperties
<1>4. /\ t \in Seq(Message) /\ Len(t) = n + l
      /\ \A i \in 1 .. n + l : t[i] = IF i <= n THEN ms[i] ELSE more[i - n]
  BY <1>1, <1>2, <1>3, ConcatProperties
<1>5. ASSUME NEW i \in CardsOf(t)
      PROVE  \/ i \in CardsOf(ms) /\ t[i] = ms[i]
             \/ i - n \in CardsOf(more) /\ t[i] = more[i - n]
  <2>1. i \in 1 .. n + l /\ t[i].kind = "card"
    BY <1>4, <1>5, CardPlaces
  <2>2. CASE i <= n
    BY <1>2, <1>4, <2>1, <2>2, CardPlaces
  <2>3. CASE ~(i <= n)
    <3>1. i - n \in 1 .. l
      BY <2>1, <2>3
    <3> QED BY <1>3, <1>4, <2>1, <2>3, <3>1, CardPlaces
  <2> QED BY <2>2, <2>3
<1>6. CardsAmong(t, F \cup G)
  BY <1>5 DEF CardsAmong
<1>7. ASSUME Distinct(ms), Distinct(more), F \cap G = {},
             NEW i \in CardsOf(t), NEW j \in CardsOf(t), t[i].card = t[j].card
      PROVE  i = j
  <2>1. t[i].card \in F <=> i \in CardsOf(ms) /\ t[i] = ms[i]
    BY <1>5, <1>7 DEF CardsAmong
  <2>2. t[j].card \in F <=> j \in CardsOf(ms) /\ t[j] = ms[j]
    BY <1>5, <1>7 DEF CardsAmong
  <2>3. CASE t[i].card \in F
    BY <1>7, <2>1, <2>2, <2>3 DEF Distinct
  <2>4. CASE t[i].card \notin F
    <3>1. /\ i - n \in CardsOf(more) /\ t[i] = more[i - n]
          /\ j - n \in CardsOf(more) /\ t[j] = more[j - n]
      BY <1>5, <1>7, <2>1, <2>2, <2>4
    <3>2. i - n = j - n
      BY <1>7, <3>1 DEF Distinct
    <3>3. i \in 1 .. n + l /\ j \in 1 .. n + l
      BY <1>4, CardPlaces
    <3> QED BY <3>2, <3>3
  <2> QED BY <2>3, <2>4
<1>8. Distinct(ms) /\ Distinct(more) /\ F \cap G = {} => Distinct(t)
  BY <1>7 DEF Distinct
<1> QED BY <1>1, <1>4, <1>6, <1>8

\* Posting leaves the last of the chats it goes through.
LEMMA PostedChats ==
    ASSUME NEW ms \in Seq(Message), NEW added \in Seq(Message), added # <<>>, NEW F,
           CardsAmong(ms, F), CardsAmong(added, F)
    PROVE  /\ Posted(ms, added) \in Seq(Chats(F)) /\ Posted(ms, added) # <<>>
           /\ Last(Posted(ms, added)) = Latest(ms \o added)
<1>1. PICK n \in Nat \ {0} : n = Len(added)
  BY EmptySeq
<1>2. DOMAIN added = 1 .. n
  BY <1>1, LenProperties
<1>3. ASSUME NEW i \in 1 .. n
      PROVE  Latest(ms \o SubSeq(added, 1, i)) \in Chats(F)
  <2>1. PICK p : p = SubSeq(added, 1, i)
    OBVIOUS
  <2>2. p \in Seq(Message) /\ Len(p) = i /\ \A j \in 1 .. i : p[j] = added[j]
    <3>1. /\ p \in Seq(Message) /\ Len(p) = i - 1 + 1
          /\ \A j \in 1 .. i - 1 + 1 : p[j] = added[1 + j - 1]
      BY <1>1, <2>1, PartOfSeq
    <3> QED BY <3>1
  <2>3. \A j \in CardsOf(p) : j \in CardsOf(added) /\ p[j] = added[j]
    BY <1>1, <2>2, CardPlaces
  <2>4. CardsAmong(p, F)
    BY <2>3 DEF CardsAmong
  <2>5. ms \o p \in Seq(Message) /\ CardsAmong(ms \o p, F \cup F)
    BY <2>2, <2>4, JoinedCards
  <2>6. F \cup F = F
    OBVIOUS
  <2> QED BY <2>1, <2>5, <2>6, LatestCards
<1>4. Posted(ms, added) = [i \in 1 .. n |-> Latest(ms \o SubSeq(added, 1, i))]
  BY <1>2 DEF Posted
<1>5. PICK t : t = Posted(ms, added)
  OBVIOUS
<1>6. t \in [1 .. n -> Chats(F)]
  BY <1>3, <1>4, <1>5
<1>7. t \in Seq(Chats(F)) /\ Len(t) = n
  BY <1>6
<1>8. t # <<>>
  BY <1>7, EmptySeq
<1>9. Last(t) = Latest(ms \o SubSeq(added, 1, n))
  BY <1>1, <1>4, <1>5, <1>7 DEF Last
<1>10. SubSeq(added, 1, n) = added
  BY <1>1, SubSeqFull
<1> QED BY <1>5, <1>7, <1>8, <1>9, <1>10

\* A turn of the chat leaves its last state on screen, and in localStorage too
\* unless a write is refused.
LEMMA ThroughChats ==
    ASSUME AgentPanelTypeOK, NEW F, NEW states \in Seq(Chats(F)), states # <<>>,
           savedMessages \in Chats(F), Through(states)
    PROVE  /\ messages' = Last(states) /\ messages' \in Chats(F) /\ savedMessages' \in Chats(F)
           /\ chatFaults' \in 0 .. MaxAsides
           /\ chatFaults' = 0 => chatFaults = 0 /\ savedMessages' = messages'
<1>1. PICK n \in Nat \ {0} : n = Len(states)
  BY EmptySeq
<1>2. \A i \in 1 .. n : states[i] \in Chats(F)
  BY <1>1, ElementOfSeq
<1>3. messages' = Last(states) /\ messages' \in Chats(F)
  BY <1>1, <1>2 DEF Through, Last
<1>4. CASE savedMessages' = Last(states) /\ UNCHANGED chatFaults
  BY <1>3, <1>4 DEF AgentPanelTypeOK
<1>5. CASE /\ MayStray /\ chatFaults' = chatFaults + 1
           /\ savedMessages' \in {savedMessages} \cup Range(Front(states))
  <2>1. \A c \in Range(Front(states)) : c \in Chats(F)
    <3>1. PICK p : p = SubSeq(states, 1, n - 1)
      OBVIOUS
    <3>2. p \in Seq(Chats(F))
      BY <1>1, <3>1, PartOfSeq
    <3>3. Range(p) \subseteq Chats(F)
      BY <3>2, RangeOfSeq
    <3> QED BY <1>1, <3>1, <3>3 DEF Front
  <2>2. chatFaults' \in 0 .. MaxAsides /\ chatFaults' # 0
    BY <1>5, AgentPanelAssumption DEF MayStray, AgentPanelTypeOK
  <2> QED BY <1>3, <1>5, <2>1, <2>2
<1> QED BY <1>3, <1>4, <1>5 DEF Through

\* What is left to show of a step of the chat.
LEMMA ChatKept ==
    ASSUME ChatInv, NEW states, states \in Seq(Chats(1 .. cards')), states # <<>>, Through(states),
           cards' \in cards .. MaxCards,
           ran' \in [1 .. MaxCards -> 0 .. 2], \A c \in 1 .. MaxCards : c > cards' => ran'[c] = 0,
           cancelled' \subseteq 1 .. cards', currentAgent' \in Agents, jobs' \subseteq Job,
           turns' \in 0 .. MaxAsides, chatReloads' \in 0 .. MaxAsides,
           chatFaults = 0 => /\ CardsAmong(Last(states), Untouched') /\ Distinct(Last(states))
                             /\ \A c \in 1 .. MaxCards :
                                    ran'[c] <= IF c \in cancelled' THEN 0 ELSE 1
    PROVE  ChatInv'
<1>0. AgentPanelTypeOK /\ cards \in 0 .. MaxCards /\ savedMessages \in Seq(Message)
      /\ Len(savedMessages) <= MaxSaved
  BY DEF ChatInv, AgentPanelTypeOK, IsChat
<1>1. PICK n \in Nat : n = cards'
  BY <1>0, AgentPanelAssumption
<1>2. 1 .. cards \subseteq 1 .. n
  BY <1>0, <1>1, AgentPanelAssumption
<1>3. savedMessages \in Chats(1 .. n)
  BY <1>0, <1>2 DEF Chats, ChatInv, CardsAmong
<1>4. /\ messages' = Last(states) /\ messages' \in Chats(1 .. n) /\ savedMessages' \in Chats(1 .. n)
      /\ chatFaults' \in 0 .. MaxAsides
      /\ chatFaults' = 0 => chatFaults = 0 /\ savedMessages' = messages'
  BY <1>0, <1>1, <1>3, ThroughChats
<1>5. AgentPanelTypeOK'
  <2>1. IsChat(messages)' /\ IsChat(savedMessages)'
    BY <1>4 DEF IsChat, Chats
  <2>2. cards' \in 0 .. MaxCards
    BY <1>0
  <2> QED BY <1>4, <2>1, <2>2 DEF AgentPanelTypeOK
<1>6. CardsAmong(messages', 1 .. cards') /\ CardsAmong(savedMessages', 1 .. cards')
  BY <1>1, <1>4 DEF Chats
<1>7. chatFaults' = 0 => /\ savedMessages' = messages'
                         /\ CardsAmong(messages', Untouched') /\ Distinct(messages')
  BY <1>4
<1>8. RunsAtMostOnce'
  BY <1>4 DEF RunsAtMostOnce
<1> QED BY <1>5, <1>6, <1>7, <1>8 DEF ChatInv

LEMMA SaysTypes ==
    ASSUME NEW kind \in {"user", "system", "assistant"}, NEW tool \in Names
    PROVE  Says(kind, tool) \in Message /\ Says(kind, tool).kind # "card"
BY AgentPanelAssumption DEF Says, Message

\* One message, or two, that are no cards.
LEMMA Few ==
    ASSUME NEW m \in Message, m.kind # "card", NEW k \in Message, k.kind # "card"
    PROVE  /\ <<m>> \in Seq(Message) /\ <<m>> # <<>> /\ CardsOf(<<m>>) = {}
           /\ <<m, k>> \in Seq(Message) /\ <<m, k>> # <<>> /\ CardsOf(<<m, k>>) = {}
<1>1. <<m>> \in Seq(Message) /\ Len(<<m>>) = 1 /\ <<m>>[1] = m
  OBVIOUS
<1>2. <<m, k>> \in Seq(Message) /\ Len(<<m, k>>) = 2 /\ <<m, k>>[1] = m /\ <<m, k>>[2] = k
  OBVIOUS
<1>3. CardsOf(<<m>>) = {}
  <2>1. \A i \in 1 .. 1 : <<m>>[i].kind # "card"
    BY <1>1
  <2> QED BY <1>1, <2>1, CardPlaces
<1>4. CardsOf(<<m, k>>) = {}
  <2>1. \A i \in 1 .. 2 : i = 1 \/ i = 2
    OBVIOUS
  <2>2. \A i \in 1 .. 2 : <<m, k>>[i].kind # "card"
    BY <1>2, <2>1
  <2> QED BY <1>2, <2>2, CardPlaces
<1> QED BY <1>1, <1>2, <1>3, <1>4, EmptySeq

\* Saying something that offers nothing.
LEMMA SayStep ==
    ASSUME ChatInv, NEW added \in Seq(Message), added # <<>>, CardsOf(added) = {}, Post(added),
           Cards, currentAgent' \in Agents, jobs' \subseteq Job,
           turns' \in 0 .. MaxAsides, chatReloads' \in 0 .. MaxAsides
    PROVE  ChatInv'
<1>0. /\ messages \in Seq(Message) /\ cards \in 0 .. MaxCards /\ ran \in [1 .. MaxCards -> 0 .. 2]
      /\ cancelled \subseteq 1 .. cards /\ CardsAmong(messages, 1 .. cards)
      /\ \A c \in 1 .. MaxCards : c > cards => ran[c] = 0
  BY DEF ChatInv, AgentPanelTypeOK, IsChat
<1>1. PICK states : states = Posted(messages, added)
  OBVIOUS
<1>2. \A F : CardsAmong(added, F)
  BY DEF CardsAmong
<1>3. states \in Seq(Chats(1 .. cards)) /\ states # <<>> /\ Last(states) = Latest(messages \o added)
  BY <1>0, <1>1, <1>2, PostedChats
<1>4. Through(states)
  BY <1>1 DEF Post
<1>5. UNCHANGED <<cards, ran, cancelled>> /\ Untouched' = Untouched
  BY DEF Cards, Untouched
<1>6. chatFaults = 0 => /\ CardsAmong(Last(states), Untouched) /\ Distinct(Last(states))
                        /\ \A c \in 1 .. MaxCards : ran[c] <= IF c \in cancelled THEN 0 ELSE 1
  <2> SUFFICES ASSUME chatFaults = 0
               PROVE  /\ CardsAmong(Last(states), Untouched) /\ Distinct(Last(states))
                      /\ \A c \in 1 .. MaxCards : ran[c] <= IF c \in cancelled THEN 0 ELSE 1
    OBVIOUS
  <2>1. CardsAmong(messages, Untouched) /\ Distinct(messages) /\ RunsAtMostOnce
    BY DEF ChatInv
  <2>2. /\ messages \o added \in Seq(Message) /\ CardsAmong(messages \o added, Untouched)
        /\ Distinct(messages \o added)
    <3>1. Distinct(added) /\ Untouched \cup {} = Untouched /\ Untouched \cap {} = {}
      BY DEF Distinct
    <3>2. /\ messages \o added \in Seq(Message) /\ CardsAmong(messages \o added, Untouched \cup {})
          /\ Distinct(messages \o added)
      BY <1>0, <1>2, <2>1, <3>1, JoinedCards
    <3> QED BY <3>1, <3>2
  <2>3. Latest(messages \o added) \in Chats(Untouched) /\ Distinct(Latest(messages \o added))
    BY <2>2, LatestCards
  <2> QED BY <1>3, <2>1, <2>3 DEF Chats, RunsAtMostOnce
<1>7. cards' \in cards .. MaxCards
  BY <1>0, <1>5, AgentPanelAssumption
<1> QED BY <1>0, <1>3, <1>4, <1>5, <1>6, <1>7, ChatKept

-----------------------------------------------------------------------------
(* Steps of the chat *)

LEMMA ChatInitially == AgentPanelInit => ChatInv
<1> SUFFICES ASSUME AgentPanelInit
             PROVE  ChatInv
  OBVIOUS
<1>1. Note \in Message /\ Note.kind # "card"
  BY SaysTypes DEF Note, Names
<1>2. PICK ms : ms = <<Note>>
  OBVIOUS
<1>3. ms \in Seq(Message) /\ CardsOf(ms) = {} /\ Len(ms) = 1
  BY <1>1, <1>2, Few
<1>4. messages = ms /\ savedMessages = ms
  BY <1>2 DEF AgentPanelInit
<1>5. IsChat(messages) /\ IsChat(savedMessages)
  <2>1. 1 <= MaxSaved
    BY AgentPanelAssumption
  <2> QED BY <1>3, <1>4, <2>1 DEF IsChat
<1>6. AgentPanelTypeOK
  BY <1>5, AgentPanelAssumption DEF AgentPanelTypeOK, AgentPanelInit, Agents
<1>7. \A F : CardsAmong(messages, F) /\ CardsAmong(savedMessages, F)
  BY <1>3, <1>4 DEF CardsAmong
<1>8. Distinct(messages)
  BY <1>3, <1>4 DEF Distinct
<1>9. RunsAtMostOnce /\ \A c \in 1 .. MaxCards : c > cards => ran[c] = 0
  BY DEF AgentPanelInit, RunsAtMostOnce
<1> QED BY <1>4, <1>6, <1>7, <1>8, <1>9 DEF ChatInv

\* What the cards of a chat were before the step.
LEMMA CardFacts ==
    ASSUME ChatInv, NEW i \in CardsOf(messages)
    PROVE  /\ messages \in Seq(Message) /\ i \in 1 .. Len(messages)
           /\ messages[i] \in Message /\ messages[i].card \in 1 .. cards
           /\ messages[i].card \in 1 .. MaxCards
<1>1. messages \in Seq(Message) /\ cards \in 0 .. MaxCards /\ CardsAmong(messages, 1 .. cards)
  BY DEF ChatInv, AgentPanelTypeOK, IsChat
<1>2. i \in 1 .. Len(messages)
  BY <1>1, CardPlaces
<1>3. messages[i] \in Message
  BY <1>1, <1>2, ElementOfSeq
<1>4. messages[i].card \in 1 .. cards
  BY <1>1 DEF CardsAmong
<1> QED BY <1>1, <1>2, <1>3, <1>4, AgentPanelAssumption

\* A chat that takes its cards from another, but for one of them.
LEMMA FewerCards ==
    ASSUME NEW ms, NEW t, NEW i \in CardsOf(ms), NEW f,
           \A j \in CardsOf(t) : f[j] \in CardsOf(ms) \ {i} /\ t[j] = ms[f[j]],
           \A j, k \in CardsOf(t) : f[j] = f[k] => j = k
    PROVE  \A F : CardsAmong(ms, F) =>
                      /\ CardsAmong(t, F)
                      /\ Distinct(ms) => Distinct(t) /\ CardsAmong(t, F \ {ms[i].card})
BY DEF CardsAmong, Distinct

\* A card is taken off the chat.
LEMMA CardLeaves ==
    ASSUME ChatInv, NEW i \in CardsOf(messages), NEW states,
           states \in Seq(Chats(1 .. cards)), states # <<>>, Through(states),
           chatFaults = 0 => /\ CardsAmong(Last(states), Untouched \ {messages[i].card})
                             /\ Distinct(Last(states)),
           \/ /\ cancelled' = cancelled \cup {messages[i].card} /\ ran' = ran
           \/ /\ ran' = [ran EXCEPT ![messages[i].card] = IF @ < 2 THEN @ + 1 ELSE 2]
              /\ cancelled' = cancelled,
           UNCHANGED <<currentAgent, cards>>, jobs' \subseteq Job, NoTurn
    PROVE  ChatInv'
<1>0. /\ cards \in 0 .. MaxCards /\ ran \in [1 .. MaxCards -> 0 .. 2]
      /\ cancelled \subseteq 1 .. cards /\ currentAgent \in Agents
      /\ turns \in 0 .. MaxAsides /\ chatReloads \in 0 .. MaxAsides
      /\ \A c \in 1 .. MaxCards : c > cards => ran[c] = 0
  BY DEF ChatInv, AgentPanelTypeOK
<1>1. PICK card : card = messages[i].card
  OBVIOUS
<1>2. card \in 1 .. cards /\ card \in 1 .. MaxCards
  BY <1>1, CardFacts
<1>3. chatFaults = 0 => card \in Untouched
  BY <1>1 DEF ChatInv, CardsAmong
<1>4. ran' \in [1 .. MaxCards -> 0 .. 2] /\ cancelled' \subseteq 1 .. cards
  BY <1>0, <1>1, <1>2
<1>5. \A c \in 1 .. MaxCards : c # card => ran'[c] = ran[c]
  BY <1>0, <1>1
<1>12. \/ card \in cancelled' /\ ran' = ran
       \/ /\ cancelled' = cancelled
          /\ ran'[card] = IF ran[card] < 2 THEN ran[card] + 1 ELSE 2
  BY <1>0, <1>1, <1>2
<1>6. Untouched' = Untouched \ {card}
  <2>1. 1 .. cards \subseteq 1 .. MaxCards /\ cards' = cards
    BY <1>0, AgentPanelAssumption
  <2>2. ran'[card] # 0 \/ card \in cancelled'
    <3>1. ran[card] \in 0 .. 2
      BY <1>0, <1>2
    <3> QED BY <1>12, <3>1
  <2>3. \A c : c # card => (c \in cancelled' <=> c \in cancelled)
    BY <1>1
  <2> QED BY <1>5, <2>1, <2>2, <2>3 DEF Untouched
<1>7. ASSUME chatFaults = 0, NEW c \in 1 .. MaxCards
      PROVE  ran'[c] <= IF c \in cancelled' THEN 0 ELSE 1
  <2>1. RunsAtMostOnce /\ card \in Untouched
    BY <1>3, <1>7 DEF ChatInv
  <2>2. CASE c = card
    <3>1. ran[card] = 0 /\ card \notin cancelled
      BY <2>1 DEF Untouched
    <3> QED BY <1>12, <2>2, <3>1
  <2>3. CASE c # card
    BY <1>1, <1>5, <1>7, <2>1, <2>3 DEF RunsAtMostOnce
  <2> QED BY <2>2, <2>3
<1>8. \A c \in 1 .. MaxCards : c > cards' => ran'[c] = 0
  BY <1>0, <1>2, <1>5
<1>9. cards' \in cards .. MaxCards /\ states \in Seq(Chats(1 .. cards'))
  BY <1>0, AgentPanelAssumption
<1>10. chatFaults = 0 => /\ CardsAmong(Last(states), Untouched') /\ Distinct(Last(states))
                         /\ \A c \in 1 .. MaxCards :
                                ran'[c] <= IF c \in cancelled' THEN 0 ELSE 1
  BY <1>1, <1>6, <1>7
<1>11. /\ currentAgent' \in Agents /\ turns' \in 0 .. MaxAsides /\ chatReloads' \in 0 .. MaxAsides
       /\ cancelled' \subseteq 1 .. cards'
  BY <1>0, <1>4 DEF NoTurn
<1> QED BY <1>4, <1>8, <1>9, <1>10, <1>11, ChatKept

LEMMA AskStep ==
    ASSUME ChatInv, NEW tool \in Names, Ask(tool)
    PROVE  ChatInv'
<1>0. /\ messages \in Seq(Message) /\ cards \in 0 .. MaxCards /\ ran \in [1 .. MaxCards -> 0 .. 2]
      /\ cancelled \subseteq 1 .. cards /\ CardsAmong(messages, 1 .. cards)
      /\ \A c \in 1 .. MaxCards : c > cards => ran[c] = 0
      /\ currentAgent \in Agents /\ jobs \subseteq Job
      /\ turns \in 0 .. MaxAsides /\ chatReloads \in 0 .. MaxAsides
  BY DEF ChatInv, AgentPanelTypeOK, IsChat
<1>1. cards < MaxCards /\ cards' = cards + 1 /\ ran' = ran /\ cancelled' = cancelled
  BY DEF Ask
<1>2. cards + 1 \in 1 .. MaxCards
  BY <1>0, <1>1, AgentPanelAssumption
<1>3. PICK u : u = Says("user", NoTool)
  OBVIOUS
<1>4. PICK k : k = [kind |-> "card", tool |-> tool, card |-> cards + 1]
  OBVIOUS
<1>5. u \in Message /\ k \in Message /\ u.kind # "card" /\ k.card = cards + 1
  <2>1. k \in Message
    BY <1>2, <1>4, AgentPanelAssumption DEF Message
  <2> QED BY <1>3, <1>4, <2>1, SaysTypes DEF Names
<1>6. PICK added : added = <<u, k>>
  OBVIOUS
<1>7. added \in Seq(Message) /\ Len(added) = 2 /\ added[1] = u /\ added[2] = k /\ added # <<>>
  BY <1>5, <1>6, EmptySeq
<1>8. \A i \in CardsOf(added) : i = 2
  <2>1. \A i \in 1 .. 2 : i = 1 \/ i = 2
    OBVIOUS
  <2> QED BY <1>5, <1>7, <2>1, CardPlaces
<1>9. CardsAmong(added, {cards + 1}) /\ CardsAmong(added, 1 .. cards + 1) /\ Distinct(added)
  BY <1>0, <1>5, <1>7, <1>8 DEF CardsAmong, Distinct
<1>10. CardsAmong(messages, 1 .. cards + 1)
  BY <1>0 DEF CardsAmong
<1>11. PICK states : states = Posted(messages, added)
  OBVIOUS
<1>12. /\ states \in Seq(Chats(1 .. cards + 1)) /\ states # <<>>
       /\ Last(states) = Latest(messages \o added)
  BY <1>0, <1>7, <1>9, <1>10, <1>11, PostedChats
<1>13. Through(states)
  BY <1>3, <1>4, <1>6, <1>11 DEF Ask, Post
<1>14. Untouched' = Untouched \cup {cards + 1} /\ cards + 1 \notin Untouched
  <2>1. ran[cards + 1] = 0 /\ cards + 1 \notin cancelled
    BY <1>0, <1>2
  <2>2. 1 .. cards + 1 = (1 .. cards) \cup {cards + 1}
    BY <1>0
  <2> QED BY <1>0, <1>1, <2>1, <2>2 DEF Untouched
<1>15. ASSUME chatFaults = 0
       PROVE  CardsAmong(Last(states), Untouched') /\ Distinct(Last(states))
  <2>1. CardsAmong(messages, Untouched) /\ Distinct(messages)
    BY <1>15 DEF ChatInv
  <2>2. Untouched \cap {cards + 1} = {}
    BY <1>14
  <2>3. /\ messages \o added \in Seq(Message)
        /\ CardsAmong(messages \o added, Untouched \cup {cards + 1}) /\ Distinct(messages \o added)
    BY <1>0, <1>7, <1>9, <2>1, <2>2, JoinedCards
  <2> QED BY <1>12, <1>14, <2>3, LatestCards DEF Chats
<1>16. ASSUME chatFaults = 0, NEW c \in 1 .. MaxCards
       PROVE  ran'[c] <= IF c \in cancelled' THEN 0 ELSE 1
  BY <1>1, <1>16 DEF ChatInv, RunsAtMostOnce
<1>17. \A c \in 1 .. MaxCards : c > cards' => ran'[c] = 0
  BY <1>0, <1>1
<1>18. /\ cards' \in cards .. MaxCards /\ cancelled' \subseteq 1 .. cards'
       /\ states \in Seq(Chats(1 .. cards'))
  BY <1>0, <1>1, <1>12, AgentPanelAssumption
<1>19. /\ currentAgent' \in Agents /\ jobs' \subseteq Job
       /\ turns' \in 0 .. MaxAsides /\ chatReloads' \in 0 .. MaxAsides
  BY <1>0 DEF Ask, NoTurn
<1> QED BY <1>0, <1>1, <1>12, <1>13, <1>15, <1>16, <1>17, <1>18, <1>19, ChatKept

LEMMA TurnTypes ==
    ASSUME ChatInv, MayStray
    PROVE  turns + 1 \in 0 .. MaxAsides /\ chatReloads + 1 \in 0 .. MaxAsides
BY AgentPanelAssumption DEF ChatInv, AgentPanelTypeOK, MayStray

LEMMA NotesTypes ==
    ASSUME NEW tool \in Names
    PROVE  \A s \in {<<Note>>, Success(tool), Failure(tool),
                     <<Says("user", NoTool), Says("assistant", NoTool)>>,
                     <<Says("assistant", NoTool)>>} :
               s \in Seq(Message) /\ s # <<>> /\ CardsOf(s) = {}
<1>1. PICK n : n = Note
  OBVIOUS
<1>2. PICK a : a = Says("assistant", tool)
  OBVIOUS
<1>3. PICK u : u = Says("user", NoTool)
  OBVIOUS
<1>4. PICK b : b = Says("assistant", NoTool)
  OBVIOUS
<1>5. \A m \in {n, a, u, b} : m \in Message /\ m.kind # "card"
  BY <1>1, <1>2, <1>3, <1>4, SaysTypes DEF Note, Names
<1>6. \A s \in {<<n>>, <<a>>, <<n, a>>, <<u, b>>, <<b>>} :
          s \in Seq(Message) /\ s # <<>> /\ CardsOf(s) = {}
  <2>1. <<n>> \in Seq(Message) /\ <<n>> # <<>> /\ CardsOf(<<n>>) = {}
    BY <1>5, Few
  <2>2. <<a>> \in Seq(Message) /\ <<a>> # <<>> /\ CardsOf(<<a>>) = {}
    BY <1>5, Few
  <2>3. <<n, a>> \in Seq(Message) /\ <<n, a>> # <<>> /\ CardsOf(<<n, a>>) = {}
    BY <1>5, Few
  <2>4. <<u, b>> \in Seq(Message) /\ <<u, b>> # <<>> /\ CardsOf(<<u, b>>) = {}
    BY <1>5, Few
  <2>5. <<b>> \in Seq(Message) /\ <<b>> # <<>> /\ CardsOf(<<b>>) = {}
    BY <1>5, Few
  <2> QED BY <2>1, <2>2, <2>3, <2>4, <2>5
<1> QED BY <1>1, <1>2, <1>3, <1>4, <1>6 DEF Success, Failure

\* A chat that was begun again.
LEMMA FreshStep ==
    ASSUME ChatInv, NEW states, states \in Seq(Chats(1 .. cards)), states # <<>>, Through(states),
           chatFaults = 0 => CardsAmong(Last(states), Untouched) /\ Distinct(Last(states)),
           Cards, currentAgent' \in Agents, jobs' \subseteq Job,
           turns' \in 0 .. MaxAsides, chatReloads' \in 0 .. MaxAsides
    PROVE  ChatInv'
<1>1. /\ cards \in 0 .. MaxCards /\ ran \in [1 .. MaxCards -> 0 .. 2] /\ cancelled \subseteq 1 .. cards
      /\ \A c \in 1 .. MaxCards : c > cards => ran[c] = 0
      /\ chatFaults = 0 => \A c \in 1 .. MaxCards : ran[c] <= IF c \in cancelled THEN 0 ELSE 1
  BY DEF ChatInv, AgentPanelTypeOK, RunsAtMostOnce
<1>2. UNCHANGED <<cards, ran, cancelled>> /\ Untouched' = Untouched
  BY DEF Cards, Untouched
<1>3. cards' \in cards .. MaxCards
  BY <1>1, <1>2, AgentPanelAssumption
<1> QED BY <1>1, <1>2, <1>3, ChatKept

LEMMA ClearStep ==
    ASSUME ChatInv, ClearChat
    PROVE  ChatInv'
<1>1. PICK n : n = <<Note>>
  OBVIOUS
<1>2. n \in Seq(Message) /\ CardsOf(n) = {} /\ Len(n) = 1
  BY <1>1, NotesTypes DEF Names
<1>3. PICK e : e = <<>>
  OBVIOUS
<1>4. e \in Seq(Message) /\ Len(e) = 0 /\ CardsOf(e) = {}
  <2>1. e \in Seq(Message) /\ Len(e) = 0
    BY <1>3, EmptySeq
  <2>2. 1 .. 0 = {}
    OBVIOUS
  <2> QED BY <2>1, <2>2, CardPlaces
<1>5. e \in Chats(1 .. cards) /\ n \in Chats(1 .. cards)
  <2>1. 1 <= MaxSaved /\ 0 <= MaxSaved
    BY AgentPanelAssumption
  <2> QED BY <1>2, <1>3, <1>4, <2>1 DEF Chats, CardsAmong
<1>6. PICK states : states = <<e, n>>
  OBVIOUS
<1>7. states \in Seq(Chats(1 .. cards)) /\ Len(states) = 2 /\ states[2] = n
  BY <1>5, <1>6
<1>8. states # <<>> /\ Last(states) = n
  BY <1>7, EmptySeq, SMTT(40) DEF Last
<1>9. CardsAmong(n, Untouched) /\ Distinct(n)
  BY <1>2 DEF CardsAmong, Distinct
<1>10. Through(states) /\ Cards /\ UNCHANGED <<currentAgent, jobs, chatReloads>>
       /\ turns' = turns + 1 /\ MayStray
  BY <1>1, <1>3, <1>6 DEF ClearChat, Turn
<1>11. /\ currentAgent' \in Agents /\ jobs' \subseteq Job
       /\ turns' \in 0 .. MaxAsides /\ chatReloads' \in 0 .. MaxAsides
  BY <1>10, TurnTypes DEF ChatInv, AgentPanelTypeOK
<1> QED BY <1>7, <1>8, <1>9, <1>10, <1>11, FreshStep

LEMMA ReloadStep ==
    ASSUME ChatInv, ReloadChat
    PROVE  ChatInv'
<1>1. /\ savedMessages \in Seq(Message) /\ CardsAmong(savedMessages, 1 .. cards)
      /\ chatFaults = 0 => CardsAmong(savedMessages, Untouched) /\ Distinct(savedMessages)
  BY DEF ChatInv, AgentPanelTypeOK, IsChat
<1>2. PICK n : n = <<Note>>
  OBVIOUS
<1>3. n \in Seq(Message) /\ CardsOf(n) = {}
  BY <1>2, NotesTypes DEF Names
<1>4. PICK ms : ms = savedMessages \o n
  OBVIOUS
<1>5. Append(savedMessages, Note) = ms
  <2>1. Note \in Message
    BY SaysTypes DEF Note, Names
  <2> QED BY <1>1, <1>2, <1>4, <2>1, AppendIsConcat
<1>6. CardsAmong(n, {}) /\ Distinct(n)
  BY <1>3 DEF CardsAmong, Distinct
<1>7. ms \in Seq(Message) /\ CardsAmong(ms, 1 .. cards)
  <2>1. CardsAmong(ms, (1 .. cards) \cup {}) /\ ms \in Seq(Message)
    BY <1>1, <1>3, <1>4, <1>6, JoinedCards
  <2> QED BY <2>1
<1>8. chatFaults = 0 => CardsAmong(ms, Untouched) /\ Distinct(ms)
  <2> SUFFICES ASSUME chatFaults = 0
               PROVE  CardsAmong(ms, Untouched) /\ Distinct(ms)
    OBVIOUS
  <2>1. Untouched \cap {} = {} /\ Untouched \cup {} = Untouched
    OBVIOUS
  <2>2. CardsAmong(ms, Untouched \cup {}) /\ Distinct(ms)
    BY <1>1, <1>3, <1>4, <1>6, <2>1, JoinedCards
  <2> QED BY <2>1, <2>2
<1>9. PICK t : t = Latest(ms)
  OBVIOUS
<1>10. /\ t \in Chats(1 .. cards)
       /\ chatFaults = 0 => CardsAmong(t, Untouched) /\ Distinct(t)
  BY <1>7, <1>8, <1>9, LatestCards DEF Chats
<1>11. PICK states : states = <<t>>
  OBVIOUS
<1>12. states \in Seq(Chats(1 .. cards)) /\ states # <<>> /\ Last(states) = t
  BY <1>10, <1>11, EmptySeq DEF Last
<1>13. /\ Through(states) /\ Cards /\ currentAgent' = "main" /\ jobs' = {}
       /\ MayStray /\ chatReloads' = chatReloads + 1 /\ turns' = turns
  BY <1>5, <1>9, <1>11 DEF ReloadChat
<1>14. /\ currentAgent' \in Agents /\ jobs' \subseteq Job
       /\ turns' \in 0 .. MaxAsides /\ chatReloads' \in 0 .. MaxAsides
  BY <1>13, TurnTypes DEF ChatInv, AgentPanelTypeOK, Agents
<1> QED BY <1>10, <1>12, <1>13, <1>14, FreshStep

LEMMA CancelStep ==
    ASSUME ChatInv, NEW i \in CardsOf(messages), Cancel(i)
    PROVE  ChatInv'
<1>1. PICK t : t = [messages EXCEPT ![i].kind = "cancelled"]
  OBVIOUS
<1>2. PICK n \in Nat : n = Len(messages)
  BY CardFacts, LenProperties
<1>3. messages \in Seq(Message) /\ i \in 1 .. n /\ messages[i] \in Message /\ n <= MaxSaved
  BY <1>2, CardFacts DEF ChatInv, AgentPanelTypeOK, IsChat
<1>4. [messages[i] EXCEPT !.kind = "cancelled"] \in Message
  BY <1>3 DEF Message
<1>5. t \in Seq(Message) /\ Len(t) = n
  BY <1>1, <1>2, <1>3, <1>4
<1>6. \A j \in 1 .. n : j # i => t[j] = messages[j]
  BY <1>1, <1>2, <1>3
<1>7. t[i].kind = "cancelled"
  BY <1>1, <1>2, <1>3 DEF Message
<1>8. PICK f : f = [j \in 1 .. n |-> j]
  OBVIOUS
<1>9. \A j \in CardsOf(t) : f[j] \in CardsOf(messages) \ {i} /\ t[j] = messages[f[j]]
  BY <1>2, <1>3, <1>5, <1>6, <1>7, <1>8, CardPlaces
<1>10. \A j, k \in CardsOf(t) : f[j] = f[k] => j = k
  BY <1>5, <1>8, CardPlaces
<1>11. \A F : CardsAmong(messages, F) =>
                  /\ CardsAmong(t, F)
                  /\ Distinct(messages) => Distinct(t) /\ CardsAmong(t, F \ {messages[i].card})
  BY <1>9, <1>10, FewerCards
<1>12. PICK states : states = <<t>>
  OBVIOUS
<1>13. t \in Chats(1 .. cards)
  BY <1>3, <1>5, <1>11 DEF Chats, ChatInv
<1>14. states \in Seq(Chats(1 .. cards)) /\ states # <<>> /\ Last(states) = t
  BY <1>12, <1>13, EmptySeq DEF Last
<1>15. chatFaults = 0 => /\ CardsAmong(t, Untouched \ {messages[i].card}) /\ Distinct(t)
  BY <1>11 DEF ChatInv
<1>16. /\ Through(states) /\ cancelled' = cancelled \cup {messages[i].card}
       /\ UNCHANGED <<currentAgent, jobs, cards, ran>> /\ NoTurn
  BY <1>1, <1>12 DEF Cancel
<1>17. jobs' \subseteq Job
  BY <1>16 DEF ChatInv, AgentPanelTypeOK
<1> QED BY <1>14, <1>15, <1>16, <1>17, CardLeaves

LEMMA ApproveStep ==
    ASSUME ChatInv, NEW i \in CardsOf(messages), NEW added \in Seq(Message), CardsOf(added) = {},
           NEW started \in SUBSET Job, Approve(i, added, started)
    PROVE  ChatInv'
<1>1. PICK t : t = RemoveAt(messages, i)
  OBVIOUS
<1>2. PICK n \in Nat : n = Len(messages)
  BY CardFacts, LenProperties
<1>3. messages \in Seq(Message) /\ i \in 1 .. n
  BY <1>2, CardFacts
<1>4. /\ t \in Seq(Message) /\ Len(t) = n - 1
      /\ \A j \in 1 .. n - 1 : t[j] = IF j < i THEN messages[j] ELSE messages[j + 1]
  BY <1>1, <1>2, <1>3, RemoveAtElements
<1>5. PICK f : f = [j \in 1 .. n - 1 |-> IF j < i THEN j ELSE j + 1]
  OBVIOUS
<1>6. ASSUME NEW j \in CardsOf(t)
      PROVE  f[j] \in CardsOf(messages) \ {i} /\ t[j] = messages[f[j]]
  <2>1. j \in 1 .. n - 1 /\ t[j].kind = "card"
    BY <1>4, <1>6, CardPlaces
  <2>2. f[j] \in 1 .. n /\ f[j] # i /\ t[j] = messages[f[j]]
    BY <1>3, <1>4, <1>5, <2>1
  <2> QED BY <1>2, <1>3, <2>1, <2>2, CardPlaces
<1>7. \A j, k \in CardsOf(t) : f[j] = f[k] => j = k
  <2>1. \A j \in CardsOf(t) : j \in 1 .. n - 1
    BY <1>4, CardPlaces
  <2> QED BY <1>3, <1>5, <2>1
<1>8. \A F : CardsAmong(messages, F) =>
                 /\ CardsAmong(t, F)
                 /\ Distinct(messages) => Distinct(t) /\ CardsAmong(t, F \ {messages[i].card})
  BY <1>6, <1>7, FewerCards
<1>9. PICK notes : notes = <<Note>> \o added
  OBVIOUS
<1>10. notes \in Seq(Message) /\ notes # <<>> /\ CardsOf(notes) = {}
  <2>1. PICK m : m = <<Note>>
    OBVIOUS
  <2>2. m \in Seq(Message) /\ CardsOf(m) = {} /\ Len(m) = 1
    BY <2>1, NotesTypes DEF Names
  <2>3. notes \in Seq(Message) /\ CardsAmong(notes, {} \cup {})
    BY <1>9, <2>1, <2>2, JoinedCards DEF CardsAmong
  <2>4. Len(notes) # 0
    BY <1>9, <2>1, <2>2, ConcatProperties, LenProperties
  <2> QED BY <2>3, <2>4, EmptySeq DEF CardsAmong
<1>11. PICK states : states = Posted(t, notes)
  OBVIOUS
<1>12. CardsAmong(t, 1 .. cards) /\ \A F : CardsAmong(notes, F)
  BY <1>8, <1>10 DEF ChatInv, CardsAmong
<1>13. /\ states \in Seq(Chats(1 .. cards)) /\ states # <<>>
       /\ Last(states) = Latest(t \o notes)
  BY <1>4, <1>10, <1>11, <1>12, PostedChats
<1>14. ASSUME chatFaults = 0
       PROVE  /\ CardsAmong(Last(states), Untouched \ {messages[i].card})
              /\ Distinct(Last(states))
  <2>1. CardsAmong(t, Untouched \ {messages[i].card}) /\ Distinct(t)
    BY <1>8, <1>14 DEF ChatInv
  <2>2. CardsAmong(notes, {}) /\ Distinct(notes)
    BY <1>10 DEF CardsAmong, Distinct
  <2>3. PICK F : F = Untouched \ {messages[i].card}
    OBVIOUS
  <2>4. F \cap {} = {} /\ F \cup {} = F
    OBVIOUS
  <2>5. /\ t \o notes \in Seq(Message) /\ CardsAmong(t \o notes, F \cup {})
        /\ Distinct(t \o notes)
    BY <1>4, <1>10, <2>1, <2>2, <2>3, <2>4, JoinedCards
  <2>6. Latest(t \o notes) \in Chats(F) /\ Distinct(Latest(t \o notes))
    BY <2>4, <2>5, LatestCards
  <2> QED BY <1>13, <2>3, <2>6 DEF Chats
<1>15. /\ Through(states)
       /\ ran' = [ran EXCEPT ![messages[i].card] = IF @ < 2 THEN @ + 1 ELSE 2]
       /\ jobs' = jobs \cup started /\ UNCHANGED <<currentAgent, cards, cancelled>> /\ NoTurn
  BY <1>1, <1>9, <1>11 DEF Approve
<1>16. jobs' \subseteq Job
  BY <1>15 DEF ChatInv, AgentPanelTypeOK
<1> QED BY <1>13, <1>14, <1>15, <1>16, CardLeaves

LEMMA AnswerStep ==
    ASSUME ChatInv, NEW j \in jobs, NEW ok \in BOOLEAN, Answer(j, ok)
    PROVE  ChatInv'
<1>1. /\ j.tool \in Names /\ jobs' \subseteq Job /\ currentAgent' \in Agents
      /\ turns' \in 0 .. MaxAsides /\ chatReloads' \in 0 .. MaxAsides
  BY DEF ChatInv, AgentPanelTypeOK, Answer, NoTurn, Job, Names
<1>2. PICK answer \in {Success(j.tool)} \cup Rejections(j.tool) : Post(answer)
  BY DEF Answer
<1>3. answer \in Seq(Message) /\ answer # <<>> /\ CardsOf(answer) = {}
  <2>1. answer \in {Success(j.tool), Failure(j.tool), <<Says("assistant", NoTool)>>}
    BY <1>2 DEF Rejections
  <2> QED BY <1>1, <2>1, NotesTypes
<1>4. Cards
  BY DEF Answer
<1> QED BY <1>1, <1>2, <1>3, <1>4, SayStep

LEMMA ChatGoesOnStep ==
    ASSUME ChatInv, ChatGoesOn
    PROVE  ChatInv'
<1>0. /\ messages \in Seq(Message) /\ currentAgent \in Agents /\ jobs \subseteq Job
      /\ turns \in 0 .. MaxAsides /\ chatReloads \in 0 .. MaxAsides
  BY DEF ChatInv, AgentPanelTypeOK, IsChat
<1>1. ASSUME NEW tool \in Tools \cup {MissingTool}, Ask(tool) PROVE ChatInv'
  BY <1>1, AskStep DEF Names
<1>2. ASSUME Again PROVE ChatInv'
  <2>1. PICK i \in Named : Ask(messages[i].tool)
    BY <1>2 DEF Again
  <2>2. i \in 1 .. Len(messages)
    BY <1>0, <2>1, LenProperties DEF Named, Context, Said
  <2>3. messages[i] \in Message
    BY <1>0, <2>2, ElementOfSeq
  <2>4. messages[i].tool \in Names
    BY <2>3 DEF Message
  <2> QED BY <2>1, <2>4, AskStep
<1>3. ASSUME AskUnclear \/ ListTools \/ OutsideError \/ SwitchAgent PROVE ChatInv'
  <2>1. PICK added \in {<<Says("user", NoTool), Says("assistant", NoTool)>>,
                        <<Says("assistant", NoTool)>>, <<Note>>} : Post(added)
    BY <1>3 DEF AskUnclear, ListTools, OutsideError, SwitchAgent
  <2>2. added \in Seq(Message) /\ added # <<>> /\ CardsOf(added) = {}
    BY <2>1, NotesTypes DEF Names
  <2>3. /\ MayStray /\ turns' = turns + 1 /\ Cards
        /\ currentAgent' \in Agents /\ UNCHANGED <<jobs, chatReloads>>
    BY <1>0, <1>3 DEF AskUnclear, ListTools, OutsideError, SwitchAgent, Turn
  <2>4. jobs' \subseteq Job /\ turns' \in 0 .. MaxAsides /\ chatReloads' \in 0 .. MaxAsides
    BY <1>0, <2>3, TurnTypes
  <2> QED BY <2>1, <2>2, <2>3, <2>4, SayStep
<1>4. ASSUME ClearChat PROVE ChatInv'
  BY <1>4, ClearStep
<1>5. ASSUME NEW i \in CardsOf(messages), Cancel(i) PROVE ChatInv'
  BY <1>5, CancelStep
<1>6. ASSUME NEW i \in CardsOf(messages), ApproveMissing(i) PROVE ChatInv'
  <2>1. PICK answer \in Rejections(MissingTool) : Approve(i, answer, {})
    BY <1>6 DEF ApproveMissing
  <2>2. answer \in Seq(Message) /\ CardsOf(answer) = {}
    BY <2>1, NotesTypes DEF Rejections, Names
  <2> QED BY <2>1, <2>2, ApproveStep
<1> QED BY <1>1, <1>2, <1>3, <1>4, <1>5, <1>6 DEF ChatGoesOn

LEMMA AtOnceStep ==
    ASSUME ChatInv, NEW i \in CardsOf(messages), NEW ok \in BOOLEAN, ApproveAtOnce(i, ok)
    PROVE  ChatInv'
<1>1. PICK tool : tool = messages[i].tool
  OBVIOUS
<1>2. tool \in Names
  BY <1>1, CardFacts DEF Message
<1>3. PICK added : added = IF ok THEN Success(tool) ELSE Failure(tool)
  OBVIOUS
<1>4. added \in Seq(Message) /\ CardsOf(added) = {}
  BY <1>2, <1>3, NotesTypes
<1>5. Approve(i, added, {})
  BY <1>1, <1>3 DEF ApproveAtOnce
<1> QED BY <1>4, <1>5, ApproveStep

LEMMA AndWaitStep ==
    ASSUME ChatInv, NEW i \in CardsOf(messages), ApproveAndWait(i)
    PROVE  ChatInv'
<1>1. PICK job : job = [card |-> messages[i].card, tool |-> messages[i].tool,
                        agent |-> currentAgent]
  OBVIOUS
<1>2. job \in Job
  <2>1. messages[i].card \in 1 .. MaxCards /\ messages[i].tool \in Tools /\ currentAgent \in Agents
    BY CardFacts DEF ApproveAndWait, ChatInv, AgentPanelTypeOK
  <2> QED BY <1>1, <2>1 DEF Job
<1>3. PICK e : e = <<>>
  OBVIOUS
<1>4. e \in Seq(Message) /\ CardsOf(e) = {}
  <2>1. e \in Seq(Message) /\ Len(e) = 0
    BY <1>3, EmptySeq
  <2>2. 1 .. 0 = {}
    OBVIOUS
  <2> QED BY <2>1, <2>2, CardPlaces
<1>5. Approve(i, e, {job}) /\ {job} \in SUBSET Job
  BY <1>1, <1>2, <1>3 DEF ApproveAndWait
<1> QED BY <1>4, <1>5, ApproveStep

LEMMA ChatStays ==
    ASSUME ChatInv, UNCHANGED chatVars
    PROVE  ChatInv'
BY DEF ChatInv, chatVars, AgentPanelTypeOK, CardsAmong, CardsOf, Distinct, Untouched, RunsAtMostOnce,
       IsChat

-----------------------------------------------------------------------------
(* Chat and pages *)

LEMMA DeskInitially == DeskInit => DeskInv
BY ViewerInitially, ChatInitially DEF DeskInit, DeskInv

LEMMA LooksOnlyStep ==
    ASSUME DeskInv, LooksOnly
    PROVE  DeskInv'
<1>1. ViewerInv'
  BY LookSteps, ViewerGoesOnStep DEF DeskInv, LooksOnly
<1>2. ChatInv'
  BY ChatStays DEF DeskInv, LooksOnly
<1> QED BY <1>1, <1>2 DEF DeskInv

LEMMA DeskStep ==
    ASSUME DeskInv, DeskNext
    PROVE  DeskInv'
<1>0. ViewerInv /\ ChatInv
  BY DEF DeskInv
<1>1. ASSUME NEW v \in Views, UserLooks(v) PROVE DeskInv'
  <2>1. ViewerInv'
    BY <1>0, <1>1, LookSteps DEF UserLooks
  <2>2. ChatInv'
    BY <1>0, <1>1, ChatStays DEF UserLooks
  <2> QED BY <2>1, <2>2 DEF DeskInv
<1>2. ASSUME ViewerGoesOn, UNCHANGED chatVars PROVE DeskInv'
  BY <1>0, <1>2, ViewerGoesOnStep, ChatStays DEF DeskInv
<1>3. ASSUME ChatGoesOn, UNCHANGED viewerVars PROVE DeskInv'
  BY <1>0, <1>3, ChatGoesOnStep, ViewerStays DEF DeskInv
<1>4. ASSUME NEW i \in CardsOf(messages), ApproveGoTo(i) \/ ApproveZoom(i) \/ ApproveOther(i)
      PROVE  DeskInv'
  <2>1. CardAt(i) \in Views
    BY <1>0, CardFacts, AgentDeskAssumption DEF CardAt
  <2>2. ViewerInv'
    <3>1. ASSUME NEW page \in Pages, GoTo(CardAt(i), page) PROVE ViewerInv'
      BY <1>0, <2>1, <3>1, LookSteps
    <3>2. ASSUME NEW step \in {-1, 1}, Zoom(CardAt(i), step) PROVE ViewerInv'
      BY <1>0, <2>1, <3>2, LookSteps
    <3>3. ASSUME UNCHANGED viewerVars PROVE ViewerInv'
      BY <1>0, <3>3, ViewerStays
    <3> QED BY <1>4, <3>1, <3>2, <3>3 DEF ApproveGoTo, ApproveZoom, ApproveOther
  <2>3. ChatInv'
    <3>1. ASSUME ApproveAndWait(i) PROVE ChatInv'
      BY <1>0, <3>1, AndWaitStep
    <3>2. ASSUME NEW ok \in BOOLEAN, ApproveAtOnce(i, ok) PROVE ChatInv'
      BY <1>0, <3>2, AtOnceStep
    <3> QED BY <1>4, <3>1, <3>2 DEF ApproveGoTo, ApproveZoom, ApproveOther
  <2> QED BY <2>2, <2>3 DEF DeskInv
<1>5. ASSUME NEW j \in jobs, PageAnswers(j) PROVE DeskInv'
  <2>1. Answer(j, view[j.card].stage = "shown") /\ UNCHANGED viewerVars
    BY <1>5 DEF PageAnswers
  <2>2. PICK ok \in BOOLEAN : Answer(j, ok)
    BY <2>1
  <2> QED BY <1>0, <2>1, <2>2, AnswerStep, ViewerStays DEF DeskInv
<1>6. ASSUME ReloadDesk PROVE DeskInv'
  BY <1>0, <1>6, ReloadStep, ViewerGoneStep DEF DeskInv, ReloadDesk
<1> QED BY <1>1, <1>2, <1>3, <1>4, <1>5, <1>6 DEF DeskNext

LEMMA DeskStays ==
    ASSUME DeskInv, UNCHANGED deskVars
    PROVE  DeskInv'
BY ChatStays, ViewerStays DEF DeskInv, deskVars

-----------------------------------------------------------------------------
(* Lists of files *)

LEMMA ListElements ==
    ASSUME NEW s \in Lists
    PROVE  /\ s \in Seq(Files) /\ Len(s) \in Nat /\ DOMAIN s = 1 .. Len(s)
           /\ \A i, j \in 1 .. Len(s) : s[i] = s[j] => i = j
           /\ \A f : f \in Range(s) <=> \E i \in 1 .. Len(s) : s[i] = f
<1>1. s \in Seq(Files) /\ IsInjective(s)
  BY DEF Lists
<1>2. Len(s) \in Nat /\ DOMAIN s = 1 .. Len(s)
  BY <1>1, LenProperties
<1> QED BY <1>1, <1>2 DEF IsInjective, Range

LEMMA IsList ==
    ASSUME NEW s \in Seq(Files), \A i, j \in 1 .. Len(s) : s[i] = s[j] => i = j
    PROVE  s \in Lists /\ \A f : f \in Range(s) <=> \E i \in 1 .. Len(s) : s[i] = f
BY LenProperties DEF Lists, IsInjective, Range

LEMMA EmptyList == <<>> \in Lists /\ Range(<<>>) = {}
<1>1. PICK s : s = <<>>
  OBVIOUS
<1>2. s \in Seq(Files) /\ Len(s) = 0
  BY <1>1, EmptySeq
<1>3. 1 .. 0 = {}
  OBVIOUS
<1> QED BY <1>1, <1>2, <1>3, IsList

\* A file that is not listed is added.
LEMMA ListGrows ==
    ASSUME NEW s \in Lists, NEW f \in Files, f \notin Range(s)
    PROVE  /\ Append(s, f) \in Lists /\ Range(Append(s, f)) = Range(s) \cup {f}
           /\ \A p \in Seq(Files) : IsPrefix(p, s) => IsPrefix(p, Append(s, f))
<1>1. PICK n \in Nat : n = Len(s)
  BY ListElements
<1>2. PICK t : t = Append(s, f)
  OBVIOUS
<1>3. /\ t \in Seq(Files) /\ Len(t) = n + 1 /\ t[n + 1] = f
      /\ \A i \in 1 .. n : t[i] = s[i]
  BY <1>1, <1>2, ListElements, AppendProperties
<1>4. \A i \in 1 .. n : s[i] # f
  BY <1>1, ListElements
<1>5. \A i \in 1 .. n + 1 : i \in 1 .. n \/ i = n + 1
  BY <1>1
<1>6. \A i, j \in 1 .. n + 1 : t[i] = t[j] => i = j
  BY <1>1, <1>3, <1>4, <1>5, ListElements
<1>7. t \in Lists /\ \A g : g \in Range(t) <=> \E i \in 1 .. n + 1 : t[i] = g
  BY <1>3, <1>6, IsList
<1>8. \A g : g \in Range(t) <=> g \in Range(s) \cup {f}
  <2>1. n + 1 \in 1 .. n + 1 /\ 1 .. n \subseteq 1 .. n + 1
    OBVIOUS
  <2> QED BY <1>1, <1>3, <1>5, <1>7, <2>1, ListElements
<1>9. ASSUME NEW p \in Seq(Files), IsPrefix(p, s)
      PROVE  IsPrefix(p, t)
  <2>1. PICK l \in Nat : l = Len(p)
    BY LenProperties
  <2>2. l <= n /\ \A i \in 1 .. l : p[i] = s[i]
    BY <1>1, <1>9, <2>1, ListElements, PrefixElements
  <2>3. l <= n + 1 /\ \A i \in 1 .. l : i \in 1 .. n
    BY <2>2
  <2>4. \A i \in 1 .. l : p[i] = t[i]
    BY <1>3, <2>2, <2>3
  <2> QED BY <1>3, <2>1, <2>3, <2>4, PrefixElements
<1> QED BY <1>2, <1>7, <1>8, <1>9

\* A file is taken off.
LEMMA ListShrinks ==
    ASSUME NEW s \in Lists, NEW i \in 1 .. Len(s)
    PROVE  /\ RemoveAt(s, i) \in Lists /\ Range(RemoveAt(s, i)) \subseteq Range(s)
           /\ s[i] \notin Range(RemoveAt(s, i)) /\ Len(RemoveAt(s, i)) = Len(s) - 1
<1>1. PICK n \in Nat : n = Len(s)
  BY ListElements
<1>2. PICK t : t = RemoveAt(s, i)
  OBVIOUS
<1>3. /\ t \in Seq(Files) /\ Len(t) = n - 1
      /\ \A j \in 1 .. n - 1 : t[j] = IF j < i THEN s[j] ELSE s[j + 1]
  BY <1>1, <1>2, ListElements, RemoveAtElements, SMTT(40)
<1>4. PICK g : g = [j \in 1 .. n - 1 |-> IF j < i THEN j ELSE j + 1]
  OBVIOUS
<1>5. i \in 1 .. n
  BY <1>1
<1>6. /\ \A j \in 1 .. n - 1 : g[j] \in 1 .. n /\ g[j] # i /\ t[j] = s[g[j]]
      /\ \A j, k \in 1 .. n - 1 : g[j] = g[k] => j = k
  BY <1>3, <1>4, <1>5
<1>0. /\ \A j, k \in 1 .. n : s[j] = s[k] => j = k
      /\ \A j \in 1 .. n : s[j] \in Range(s)
  BY <1>1, ListElements
<1>7. ASSUME NEW j \in 1 .. n - 1, NEW k \in 1 .. n - 1, t[j] = t[k]
      PROVE  j = k
  <2>1. g[j] = g[k]
    BY <1>0, <1>6, <1>7
  <2> QED BY <1>6, <2>1
<1>8. t \in Lists /\ \A f : f \in Range(t) <=> \E j \in 1 .. n - 1 : t[j] = f
  BY <1>3, <1>7, IsList
<1>9. ASSUME NEW j \in 1 .. n - 1
      PROVE  t[j] \in Range(s) /\ t[j] # s[i]
  BY <1>0, <1>5, <1>6
<1> QED BY <1>1, <1>2, <1>3, <1>8, <1>9

\* A file that is not listed is put in its place.
LEMMA ListTakesIn ==
    ASSUME NEW s \in Lists, NEW f \in Files, f \notin Range(s), NEW i \in 1 .. Len(s) + 1
    PROVE  InsertAt(s, i, f) \in Lists /\ Range(InsertAt(s, i, f)) \subseteq Range(s) \cup {f}
<1>1. PICK n \in Nat : n = Len(s)
  BY ListElements
<1>2. PICK t : t = InsertAt(s, i, f)
  OBVIOUS
<1>3. /\ t \in Seq(Files) /\ Len(t) = n + 1
      /\ \A j \in 1 .. n + 1 : t[j] = IF j < i THEN s[j] ELSE IF j = i THEN f ELSE s[j - 1]
  BY <1>1, <1>2, ListElements, InsertAtElements, SMTT(40)
<1>4. PICK g : g = [j \in 1 .. n + 1 |-> IF j < i THEN j ELSE j - 1]
  OBVIOUS
<1>5. i \in 1 .. n + 1 /\ \A j \in 1 .. n : s[j] # f
  BY <1>1, ListElements
<1>6. /\ t[i] = f
      /\ \A j \in 1 .. n + 1 : j # i => g[j] \in 1 .. n /\ t[j] = s[g[j]]
      /\ \A j, k \in 1 .. n + 1 : j # i /\ k # i /\ g[j] = g[k] => j = k
  BY <1>3, <1>4, <1>5, SMTT(40)
<1>0. \A j, k \in 1 .. n : s[j] = s[k] => j = k
  BY <1>1, ListElements
<1>7. ASSUME NEW j \in 1 .. n + 1, NEW k \in 1 .. n + 1, t[j] = t[k]
      PROVE  j = k
  <2>1. CASE j = i \/ k = i
    BY <1>5, <1>6, <1>7, <2>1
  <2>2. CASE j # i /\ k # i
    <3>1. g[j] = g[k]
      BY <1>0, <1>6, <1>7, <2>2
    <3> QED BY <1>6, <2>2, <3>1
  <2> QED BY <2>1, <2>2
<1>8. t \in Lists /\ \A h : h \in Range(t) <=> \E j \in 1 .. n + 1 : t[j] = h
  BY <1>3, <1>7, IsList
<1>9. \A j \in 1 .. n + 1 : t[j] \in Range(s) \cup {f}
  BY <1>1, <1>6, ListElements
<1> QED BY <1>2, <1>8, <1>9

-----------------------------------------------------------------------------
(* Merges *)

LEMMA EachMerge ==
    ASSUME MergeInv, NEW k \in DOMAIN merges
    PROVE  /\ merges[k] \in Merge /\ merges[k].array \in Lists /\ merges[k].listed \in Lists
           /\ merges[k].taken \in Seq(Files) /\ files \in Lists /\ ArrayOf(merges[k]) \in Lists
           /\ Follows(merges[k], ArrayOf(merges[k]))
<1>1. merges \in Seq(Merge) /\ files \in Lists /\ Follows(merges[k], ArrayOf(merges[k]))
  BY DEF MergeInv, MergeTypeOK
<1>2. merges[k] \in Merge
  BY <1>1
<1> QED BY <1>1, <1>2 DEF Merge, ArrayOf

\* What is left to show of a step of the dialog.
LEMMA MergeKept ==
    ASSUME MergeInv,
           NEW n \in 0 .. MaxMerges, merges' \in [1 .. n -> Merge], DOMAIN merges \subseteq 1 .. n,
           \A k \in 1 .. n : Follows(merges'[k], ArrayOf(merges[k])'),
           openings' \in openings .. MaxOpenings, files' \in Lists,
           \/ onMerge' \in {0, onMerge}
           \/ onMerge' = openings' /\ openings' = openings + 1,
           unchosen' \in SUBSET Files, checking' \in SUBSET Files, Apart',
           \/ delivered' = delivered
           \/ /\ onMerge # 0 /\ onMerge' = 0
              /\ \E k \in DOMAIN merges : delivered' = delivered \cup {[to |-> onMerge, merge |-> k]}
    PROVE  MergeInv'
<1>0. /\ openings \in 0 .. MaxOpenings /\ onMerge \in 0 .. openings /\ MaxOpenings \in Nat
      /\ MaxMerges \in Nat /\ delivered \in SUBSET [to : 1 .. MaxOpenings, merge : DOMAIN merges]
      /\ \A d \in delivered : d.to <= openings /\ d.to # onMerge
      /\ \A d, e \in delivered : d.to = e.to => d = e
  BY MergeAssumption DEF MergeInv, MergeTypeOK, AnswersOpening, DeliversOnce
<1>1. merges' \in Seq(Merge) /\ Len(merges') = n /\ DOMAIN merges' = 1 .. n /\ n <= MaxMerges
  OBVIOUS
<1>2. onMerge' \in 0 .. openings'
  BY <1>0
<1>3. PICK D : D = DOMAIN merges
  OBVIOUS
<1>4. /\ \A d \in delivered : d \in [to : 1 .. MaxOpenings, merge : 1 .. n]
      /\ \A d \in delivered : d.to <= openings /\ d.to \in 1 .. MaxOpenings
  BY <1>0
<1>5. CASE delivered' = delivered
  <2>1. \A d \in delivered : d.to <= openings' /\ d.to # onMerge'
    BY <1>0, <1>4
  <2>2. AnswersOpening'
    BY <1>0, <1>5, <2>1 DEF AnswersOpening, DeliversOnce
  <2>3. delivered' \in SUBSET [to : 1 .. MaxOpenings, merge : DOMAIN merges']
    BY <1>1, <1>4, <1>5
  <2>4. MergeTypeOK'
    BY <1>0, <1>1, <1>2, <2>3 DEF MergeTypeOK
  <2> QED BY <1>1, <2>2, <2>4 DEF MergeInv
<1>6. CASE /\ onMerge # 0 /\ onMerge' = 0
           /\ \E k \in DOMAIN merges : delivered' = delivered \cup {[to |-> onMerge, merge |-> k]}
  <2>1. PICK k \in DOMAIN merges : delivered' = delivered \cup {[to |-> onMerge, merge |-> k]}
    BY <1>6
  <2>2. PICK d : d = [to |-> onMerge, merge |-> k]
    OBVIOUS
  <2>3. d.to = onMerge /\ d \in [to : 1 .. MaxOpenings, merge : 1 .. n]
    BY <1>0, <1>6, <2>1, <2>2
  <2>4. \A e \in delivered' : e.to <= openings' /\ e.to # onMerge'
    BY <1>0, <1>4, <1>6, <2>1, <2>2, <2>3
  <2>5. AnswersOpening'
    BY <1>0, <2>1, <2>2, <2>3, <2>4 DEF AnswersOpening, DeliversOnce
  <2>6. delivered' \in SUBSET [to : 1 .. MaxOpenings, merge : DOMAIN merges']
    BY <1>1, <1>4, <2>1, <2>2, <2>3
  <2>7. MergeTypeOK'
    BY <1>0, <1>1, <1>2, <2>6 DEF MergeTypeOK
  <2> QED BY <1>1, <2>5, <2>7 DEF MergeInv
<1> QED BY <1>5, <1>6

\* Merges that lose the array of the dialog go on over it as it was.
LEMMA DetachedMerges ==
    ASSUME MergeInv
    PROVE  /\ Detached \in [DOMAIN merges -> Merge]
           /\ \A k \in DOMAIN merges :
                  ~Detached[k].live /\ Follows(Detached[k], Detached[k].array)
<1>1. ASSUME NEW k \in DOMAIN merges
      PROVE  /\ Detached[k] \in Merge /\ ~Detached[k].live
             /\ Follows(Detached[k], Detached[k].array)
  <2>1. PICK m : m = merges[k]
    OBVIOUS
  <2>2. m \in Merge /\ files \in Lists /\ Follows(m, ArrayOf(m))
    BY <2>1, EachMerge
  <2>3. PICK d : d = Detached[k]
    OBVIOUS
  <2>4. d = IF m.live THEN [m EXCEPT !.live = FALSE, !.array = files] ELSE m
    BY <2>1, <2>3 DEF Detached
  <2>5. d \in Merge /\ ~d.live
    BY <2>2, <2>4 DEF Merge
  <2>6. /\ d.phase = m.phase /\ d.moved = m.moved /\ d.listed = m.listed /\ d.taken = m.taken
        /\ d.array = ArrayOf(m)
    BY <2>2, <2>4 DEF Merge, ArrayOf
  <2>7. Follows(d, d.array)
    BY <2>2, <2>5, <2>6 DEF Follows
  <2> QED BY <2>3, <2>5, <2>7
<1>2. DOMAIN Detached = DOMAIN merges /\ Detached = [k \in DOMAIN merges |-> Detached[k]]
  BY DEF Detached
<1> QED BY <1>1, <1>2

LEMMA MergeInitially == MergeInit => MergeInv
<1> SUFFICES ASSUME MergeInit
             PROVE  MergeInv
  OBVIOUS
<1>1. PICK ms : ms = <<>>
  OBVIOUS
<1>2. ms \in Seq(Merge) /\ Len(ms) = 0 /\ merges = ms /\ DOMAIN ms = {}
  BY <1>1, EmptySeq DEF MergeInit
<1>3. files \in Lists /\ Range(files) = {}
  BY EmptyList DEF MergeInit
<1>4. MergeTypeOK
  BY <1>2, <1>3, MergeAssumption DEF MergeInit, MergeTypeOK
<1> QED BY <1>2, <1>3, <1>4 DEF MergeInit, MergeInv, Apart, AnswersOpening, DeliversOnce

LEMMA MergeFacts ==
    ASSUME MergeInv
    PROVE  /\ openings \in 0 .. MaxOpenings /\ onMerge \in 0 .. openings
           /\ openings \in openings .. MaxOpenings /\ onMerge \in {0, onMerge}
           /\ files \in Lists /\ files \in Seq(Files) /\ unchosen \in SUBSET Files
           /\ checking \in SUBSET Files
           /\ checking \cap unchosen = {} /\ Range(files) \cap (checking \cup unchosen) = {}
           /\ Len(merges) \in 0 .. MaxMerges /\ DOMAIN merges = 1 .. Len(merges)
           /\ merges \in [1 .. Len(merges) -> Merge] /\ merges \in Seq(Merge)
           /\ \A k \in 1 .. Len(merges) : Follows(merges[k], ArrayOf(merges[k]))
<1>1. merges \in Seq(Merge) /\ Len(merges) <= MaxMerges
  BY DEF MergeInv, MergeTypeOK
<1>2. Len(merges) \in Nat /\ DOMAIN merges = 1 .. Len(merges) /\ merges \in [1 .. Len(merges) -> Merge]
  BY <1>1, LenProperties
<1>3. Len(merges) \in 0 .. MaxMerges
  BY <1>1, <1>2, MergeAssumption
<1>4. /\ openings \in 0 .. MaxOpenings /\ onMerge \in 0 .. openings
      /\ files \in Lists /\ unchosen \in SUBSET Files /\ checking \in SUBSET Files
      /\ \A k \in DOMAIN merges : Follows(merges[k], ArrayOf(merges[k])) /\ Apart
  BY DEF MergeInv, MergeTypeOK
<1>5. openings \in openings .. MaxOpenings
  BY <1>4, MergeAssumption
<1>6. Apart
  BY DEF MergeInv
<1> QED BY <1>1, <1>2, <1>3, <1>4, <1>5, <1>6 DEF Lists, Apart

\* The dialog takes another array.
LEMMA ReplacedStep ==
    ASSUME MergeInv, Replaced
    PROVE  /\ merges' \in [1 .. Len(merges) -> Merge]
           /\ \A k \in 1 .. Len(merges) : Follows(merges'[k], ArrayOf(merges[k])')
<1>1. DOMAIN merges = 1 .. Len(merges) /\ merges' = Detached
  BY MergeFacts DEF Replaced
<1>2. ASSUME NEW k \in 1 .. Len(merges) PROVE Follows(merges'[k], ArrayOf(merges[k])')
  <2>1. PICK d : d = Detached[k]
    OBVIOUS
  <2>2. ~d.live /\ Follows(d, d.array)
    BY <1>1, <2>1, DetachedMerges
  <2>3. ArrayOf(merges[k])' = d.array
    BY <1>1, <2>1, <2>2 DEF ArrayOf
  <2> QED BY <1>1, <2>1, <2>2, <2>3
<1> QED BY <1>1, <1>2, DetachedMerges

LEMMA OpenStep == ASSUME MergeInv, Open PROVE MergeInv'
<1>1. PICK n : n = Len(merges)
  OBVIOUS
<1>2. /\ n \in 0 .. MaxMerges /\ DOMAIN merges \subseteq 1 .. n /\ merges' \in [1 .. n -> Merge]
      /\ \A k \in 1 .. n : Follows(merges'[k], ArrayOf(merges[k])')
  BY <1>1, MergeFacts, ReplacedStep DEF Open
<1>3. /\ files' \in Lists /\ Range(files)' = {}
      /\ openings' = openings + 1 /\ onMerge' = openings' /\ openings < MaxOpenings
      /\ UNCHANGED <<unchosen, checking, delivered>>
  BY EmptyList DEF Open
<1>4. openings' \in openings .. MaxOpenings
  BY <1>3, MergeFacts, MergeAssumption
<1>5. Apart' /\ unchosen' \in SUBSET Files /\ checking' \in SUBSET Files
  BY <1>3, MergeFacts DEF Apart
<1> QED BY <1>2, <1>3, <1>4, <1>5, MergeKept

LEMMA CloseStep == ASSUME MergeInv, Close PROVE MergeInv'
<1>1. PICK n : n = Len(merges)
  OBVIOUS
<1>2. /\ n \in 0 .. MaxMerges /\ DOMAIN merges \subseteq 1 .. n /\ merges' \in [1 .. n -> Merge]
      /\ \A k \in 1 .. n : Follows(merges'[k], ArrayOf(merges[k])')
  BY <1>1, MergeFacts, ReplacedStep DEF Close
<1>3. /\ files' \in Lists /\ Range(files)' = {} /\ onMerge' = 0
      /\ UNCHANGED <<openings, unchosen, checking, delivered>>
  BY EmptyList DEF Close, Closed
<1>4. /\ openings' \in openings .. MaxOpenings
      /\ Apart' /\ unchosen' \in SUBSET Files /\ checking' \in SUBSET Files
  BY <1>3, MergeFacts DEF Apart
<1> QED BY <1>2, <1>3, <1>4, MergeKept

LEMMA ListsMerges ==
    ASSUME MergeInv, UNCHANGED merges,
           \A p \in Seq(Files) : IsPrefix(p, files) => IsPrefix(p, files')
    PROVE  /\ merges' \in [1 .. Len(merges) -> Merge]
           /\ \A k \in 1 .. Len(merges) : Follows(merges'[k], ArrayOf(merges[k])')
<1>1. ASSUME NEW k \in 1 .. Len(merges) PROVE Follows(merges'[k], ArrayOf(merges[k])')
  <2>1. PICK m : m = merges[k]
    OBVIOUS
  <2>2. m \in Merge /\ m.listed \in Seq(Files) /\ m.taken \in Seq(Files) /\ Follows(m, ArrayOf(m))
    BY <2>1, EachMerge, MergeFacts DEF Lists
  <2>3. ArrayOf(merges[k])' = IF m.live THEN files' ELSE m.array
    BY <2>1 DEF ArrayOf
  <2>4. Follows(m, IF m.live THEN files' ELSE m.array)
    BY <2>2 DEF Follows, ArrayOf
  <2> QED BY <2>1, <2>3, <2>4
<1> QED BY <1>1, MergeFacts

LEMMA ChooseSteps ==
    ASSUME MergeInv, NEW f \in Files, Choose(f) \/ \E ok \in BOOLEAN : GuardAnswers(f, ok)
    PROVE  MergeInv'
<1>1. PICK n : n = Len(merges)
  OBVIOUS
<1>2. UNCHANGED <<openings, onMerge, merges, delivered>>
  BY DEF Choose, GuardAnswers
<1>3. /\ files' \in Lists
      /\ \A p \in Seq(Files) : IsPrefix(p, files) => IsPrefix(p, files')
      /\ unchosen' \in SUBSET Files /\ checking' \in SUBSET Files /\ Apart'
  <2>1. CASE Choose(f)
    BY <2>1, MergeFacts DEF Choose, Apart
  <2>2. ASSUME NEW ok \in BOOLEAN, GuardAnswers(f, ok)
        PROVE  /\ files' \in Lists
               /\ \A p \in Seq(Files) : IsPrefix(p, files) => IsPrefix(p, files')
               /\ unchosen' \in SUBSET Files /\ checking' \in SUBSET Files /\ Apart'
    <3>1. /\ f \in checking /\ checking' = checking \ {f} /\ unchosen' = unchosen
          /\ files' = IF ok THEN Append(files, f) ELSE files
      BY <2>2 DEF GuardAnswers
    <3>2. f \notin Range(files) /\ files \in Lists
      BY <3>1, MergeFacts
    <3>3. /\ files' \in Lists /\ Range(files') \subseteq Range(files) \cup {f}
          /\ \A p \in Seq(Files) : IsPrefix(p, files) => IsPrefix(p, files')
      BY <3>1, <3>2, ListGrows
    <3> QED BY <3>1, <3>3, MergeFacts DEF Apart
  <2> QED BY <2>1, <2>2
<1>4. /\ merges' \in [1 .. n -> Merge]
      /\ \A k \in 1 .. n : Follows(merges'[k], ArrayOf(merges[k])')
  BY <1>1, <1>2, <1>3, ListsMerges
<1>5. /\ n \in 0 .. MaxMerges /\ DOMAIN merges \subseteq 1 .. n
      /\ openings' \in openings .. MaxOpenings /\ onMerge' \in {0, onMerge}
  BY <1>1, <1>2, MergeFacts
<1> QED BY <1>2, <1>3, <1>4, <1>5, MergeKept

LEMMA RemoveFileStep ==
    ASSUME MergeInv, NEW i \in DOMAIN files, RemoveFile(i)
    PROVE  MergeInv'
<1>1. PICK n : n = Len(merges)
  OBVIOUS
<1>2. /\ n \in 0 .. MaxMerges /\ DOMAIN merges \subseteq 1 .. n /\ merges' \in [1 .. n -> Merge]
      /\ \A k \in 1 .. n : Follows(merges'[k], ArrayOf(merges[k])')
  BY <1>1, MergeFacts, ReplacedStep DEF RemoveFile
<1>3. files' = RemoveAt(files, i) /\ UNCHANGED <<openings, onMerge, unchosen, checking, delivered>>
  BY DEF RemoveFile
<1>4. i \in 1 .. Len(files) /\ files \in Lists
  BY MergeFacts, ListElements
<1>5. files' \in Lists /\ Range(files') \subseteq Range(files)
  BY <1>3, <1>4, ListShrinks
<1>6. /\ openings' \in openings .. MaxOpenings /\ onMerge' \in {0, onMerge}
      /\ Apart' /\ unchosen' \in SUBSET Files /\ checking' \in SUBSET Files
  BY <1>3, <1>5, MergeFacts DEF Apart
<1> QED BY <1>2, <1>3, <1>5, <1>6, MergeKept

LEMMA MoveFileStep ==
    ASSUME MergeInv, NEW i \in DOMAIN files, NEW j, MoveFile(i, j)
    PROVE  MergeInv'
<1>1. PICK n : n = Len(merges)
  OBVIOUS
<1>2. /\ files' = InsertAt(RemoveAt(files, i), j, files[i]) /\ j \in DOMAIN files
      /\ UNCHANGED <<openings, onMerge, unchosen, checking, delivered>>
      /\ merges' = [k \in DOMAIN merges |-> IF merges[k].live
                                            THEN [merges[k] EXCEPT !.moved = TRUE] ELSE merges[k]]
  BY DEF MoveFile, Reordered
<1>3. PICK r : r = RemoveAt(files, i)
  OBVIOUS
<1>4. files \in Lists /\ i \in 1 .. Len(files) /\ j \in 1 .. Len(files) /\ Len(files) \in Nat
  BY <1>2, MergeFacts, ListElements
<1>5. /\ r \in Lists /\ Range(r) \subseteq Range(files) /\ files[i] \notin Range(r)
      /\ Len(r) = Len(files) - 1
  BY <1>3, <1>4, ListShrinks
<1>6. files[i] \in Files /\ files[i] \in Range(files) /\ j \in 1 .. Len(r) + 1
  BY <1>4, <1>5, ListElements, MergeFacts, ElementOfSeq
<1>7. files' \in Lists /\ Range(files') \subseteq Range(files)
  BY <1>2, <1>3, <1>5, <1>6, ListTakesIn
<1>8. ASSUME NEW k \in 1 .. n
      PROVE  merges'[k] \in Merge /\ Follows(merges'[k], ArrayOf(merges[k])')
  <2>1. PICK m : m = merges[k]
    OBVIOUS
  <2>2. k \in DOMAIN merges /\ m \in Merge /\ Follows(m, ArrayOf(m))
    BY <1>1, <2>1, EachMerge, MergeFacts
  <2>3. PICK d : d = merges'[k]
    OBVIOUS
  <2>4. d = IF m.live THEN [m EXCEPT !.moved = TRUE] ELSE m
    BY <1>2, <2>1, <2>2, <2>3
  <2>5. ArrayOf(merges[k])' = IF d.live THEN files' ELSE d.array
    BY <2>3 DEF ArrayOf
  <2>6. d \in Merge /\ Follows(d, IF d.live THEN files' ELSE d.array)
    BY <2>2, <2>4 DEF Merge, Follows, ArrayOf
  <2> QED BY <2>3, <2>5, <2>6
<1>9. n \in 0 .. MaxMerges /\ DOMAIN merges = 1 .. n /\ merges' \in [1 .. n -> Merge]
  <2>1. n \in 0 .. MaxMerges /\ DOMAIN merges = 1 .. n
    BY <1>1, MergeFacts
  <2>2. DOMAIN merges' = 1 .. n /\ merges' = [k \in 1 .. n |-> merges'[k]]
    BY <1>2, <2>1
  <2> QED BY <1>8, <2>1, <2>2
<1>10. /\ openings' \in openings .. MaxOpenings /\ onMerge' \in {0, onMerge}
       /\ Apart' /\ unchosen' \in SUBSET Files /\ checking' \in SUBSET Files
  BY <1>2, <1>7, MergeFacts DEF Apart
<1> QED BY <1>2, <1>7, <1>8, <1>9, <1>10, MergeKept

\* What is left to show of a step of one merge.
LEMMA OneMerge ==
    ASSUME MergeInv, NEW k \in DOMAIN merges, NEW d \in Merge, merges' = [merges EXCEPT ![k] = d],
           Follows(d, IF d.live THEN files ELSE d.array),
           UNCHANGED <<openings, onMerge, files, unchosen, checking, delivered>>
    PROVE  MergeInv'
<1>1. PICK n : n = Len(merges)
  OBVIOUS
<1>2. n \in 0 .. MaxMerges /\ DOMAIN merges = 1 .. n /\ merges \in [1 .. n -> Merge]
  BY <1>1, MergeFacts
<1>3. merges' \in [1 .. n -> Merge]
  BY <1>2
<1>4. ASSUME NEW l \in 1 .. n PROVE Follows(merges'[l], ArrayOf(merges[l])')
  <2>1. PICK m : m = merges[l]
    OBVIOUS
  <2>2. Follows(m, IF m.live THEN files ELSE m.array)
    BY <1>1, <2>1, MergeFacts DEF ArrayOf
  <2>3. PICK e : e = merges'[l]
    OBVIOUS
  <2>4. e = d \/ e = m
    BY <1>2, <2>1, <2>3
  <2>5. ArrayOf(merges[l])' = IF e.live THEN files ELSE e.array
    BY <2>3 DEF ArrayOf
  <2> QED BY <2>2, <2>3, <2>4, <2>5
<1>5. /\ openings' \in openings .. MaxOpenings /\ onMerge' \in {0, onMerge} /\ files' \in Lists
      /\ Apart' /\ unchosen' \in SUBSET Files /\ checking' \in SUBSET Files
  BY MergeFacts DEF Apart
<1> QED BY <1>2, <1>3, <1>4, <1>5, MergeKept

LEMMA FinishedMerge == Finished \in Merge /\ ~Finished.live /\ Follows(Finished, Finished.array)
<1>1. PICK e : e = <<>>
  OBVIOUS
<1>2. e \in Lists /\ e \in Seq(Files)
  BY <1>1, EmptyList DEF Lists
<1>3. PICK m : m = Finished
  OBVIOUS
<1>4. m = [phase |-> "over", live |-> FALSE, array |-> e, taken |-> e, listed |-> e,
           moved |-> FALSE]
  BY <1>1, <1>3 DEF Finished
<1>5. m \in Merge
  BY <1>2, <1>4 DEF Merge
<1> QED BY <1>3, <1>4, <1>5 DEF Follows

LEMMA StartStep == ASSUME MergeInv, StartMerge PROVE MergeInv'
<1>1. PICK n : n = Len(merges)
  OBVIOUS
<1>2. n \in 0 .. MaxMerges /\ n + 1 \in 0 .. MaxMerges /\ DOMAIN merges = 1 .. n
      /\ merges \in [1 .. n -> Merge] /\ merges \in Seq(Merge)
  BY <1>1, MergeFacts, MergeAssumption DEF StartMerge
<1>3. PICK t : t = <<files[1]>>
  OBVIOUS
<1>4. files \in Lists /\ files \in Seq(Files) /\ Len(files) \in Nat /\ Len(files) >= 2
  BY MergeFacts, ListElements DEF StartMerge
<1>5. files[1] \in Files
  BY <1>4, ElementOfSeq
<1>6. t \in Seq(Files) /\ Len(t) = 1 /\ t[1] = files[1]
  BY <1>3, <1>5
<1>7. IsPrefix(t, files) /\ IsPrefix(files, files)
  <2>1. \A i \in 1 .. 1 : t[i] = files[i]
    BY <1>6
  <2>2. 1 <= Len(files) /\ Len(files) <= Len(files)
    BY <1>4
  <2>3. IsPrefix(t, files)
    BY <1>4, <1>6, <2>1, <2>2, PrefixElements
  <2>4. IsPrefix(files, files)
    BY <1>4, <2>2, PrefixElements
  <2> QED BY <2>3, <2>4
<1>8. PICK e : e = <<>>
  OBVIOUS
<1>9. PICK m : m = [phase |-> "reading", live |-> TRUE, array |-> e, taken |-> t,
                    listed |-> files, moved |-> FALSE]
  OBVIOUS
<1>10. m \in Merge /\ m.live /\ Follows(m, files)
  <2>1. e \in Lists
    BY <1>8, EmptyList
  <2>2. m \in Merge
    BY <1>4, <1>6, <1>9, <2>1 DEF Merge
  <2> QED BY <1>7, <1>9, <2>2 DEF Follows
<1>11. /\ merges' = Append(merges, m)
       /\ UNCHANGED <<openings, onMerge, files, unchosen, checking, delivered>>
  BY <1>3, <1>8, <1>9 DEF StartMerge
<1>12. /\ merges' \in Seq(Merge) /\ Len(merges') = n + 1 /\ merges'[n + 1] = m
       /\ \A k \in 1 .. n : merges'[k] = merges[k]
  BY <1>1, <1>2, <1>10, <1>11, AppendProperties
<1>13. merges' \in [1 .. n + 1 -> Merge]
  BY <1>12, LenProperties
<1>14. ASSUME NEW k \in 1 .. n + 1 PROVE Follows(merges'[k], ArrayOf(merges[k])')
  <2>1. CASE k = n + 1
    BY <1>10, <1>11, <1>12, <2>1 DEF ArrayOf
  <2>2. CASE k \in 1 .. n
    <3>1. PICK l : l = merges[k]
      OBVIOUS
    <3>2. Follows(l, IF l.live THEN files ELSE l.array) /\ merges'[k] = l
      BY <1>1, <1>12, <2>2, <3>1, MergeFacts DEF ArrayOf
    <3>3. ArrayOf(merges[k])' = IF l.live THEN files ELSE l.array
      BY <1>11, <3>2 DEF ArrayOf
    <3> QED BY <3>2, <3>3
  <2> QED BY <1>2, <2>1, <2>2
<1>15. /\ openings' \in openings .. MaxOpenings /\ onMerge' \in {0, onMerge} /\ files' \in Lists
       /\ Apart' /\ unchosen' \in SUBSET Files /\ checking' \in SUBSET Files
       /\ DOMAIN merges \subseteq 1 .. n + 1
  BY <1>2, <1>11, MergeFacts DEF Apart
<1> QED BY <1>2, <1>11, <1>13, <1>14, <1>15, MergeKept

\* The next item, or the end of the array.
LEMMA ReadOn ==
    ASSUME NEW a \in Lists, NEW m \in Merge, m.phase = "reading", Follows(m, a), ArrayOf(m) = a,
           NEW d, d = IF NextItem(m) <= Len(a) THEN [m EXCEPT !.taken = Append(m.taken, a[NextItem(m)])]
                      ELSE [m EXCEPT !.phase = "writing", !.live = FALSE, !.array = <<>>]
    PROVE  d \in Merge /\ Follows(d, IF d.live THEN files ELSE d.array)
<1>1. /\ m.listed \in Seq(Files) /\ m.taken \in Seq(Files) /\ a \in Seq(Files)
      /\ Len(m.taken) \in Nat /\ Len(a) \in Nat
  BY ListElements, LenProperties DEF Merge, Lists
<1>2. PICK t : t = m.taken
  OBVIOUS
<1>3. PICK n \in Nat : n = Len(t)
  BY <1>1, <1>2
<1>4. NextItem(m) = n + 1
  BY <1>2, <1>3 DEF NextItem
<1>5. CASE n + 1 <= Len(a)
  <2>1. PICK u : u = Append(t, a[n + 1])
    OBVIOUS
  <2>2. a[n + 1] \in Files
    BY <1>1, <1>5, ElementOfSeq
  <2>3. /\ u \in Seq(Files) /\ Len(u) = n + 1 /\ u[n + 1] = a[n + 1]
        /\ \A i \in 1 .. n : u[i] = t[i]
    BY <1>1, <1>2, <1>3, <2>1, <2>2, AppendProperties
  <2>4. d = [m EXCEPT !.taken = u]
    BY <1>2, <1>4, <1>5, <2>1
  <2>5. /\ d \in Merge /\ d.taken = u
        /\ d.phase = "reading" /\ d.live = m.live /\ d.array = m.array /\ d.listed = m.listed
        /\ d.moved = m.moved
    BY <2>3, <2>4 DEF Merge
  <2>6. IsPrefix(t, a) => IsPrefix(u, a)
    <3> SUFFICES ASSUME IsPrefix(t, a)
                 PROVE  IsPrefix(u, a)
      OBVIOUS
    <3>1. \A i \in 1 .. n : t[i] = a[i]
      BY <1>1, <1>2, <1>3, PrefixElements
    <3>2. \A i \in 1 .. n + 1 : i \in 1 .. n \/ i = n + 1
      OBVIOUS
    <3>3. \A i \in 1 .. n + 1 : u[i] = a[i]
      BY <2>3, <3>1, <3>2
    <3> QED BY <1>1, <1>5, <2>3, <3>3, PrefixElements
  <2>7. (IF d.live THEN files ELSE d.array) = a
    BY <2>5 DEF ArrayOf
  <2>8. Follows(d, a)
    BY <1>2, <2>5, <2>6 DEF Follows
  <2> QED BY <2>5, <2>7, <2>8
<1>6. CASE ~(n + 1 <= Len(a))
  <2>1. PICK e : e = <<>>
    OBVIOUS
  <2>2. d = [m EXCEPT !.phase = "writing", !.live = FALSE, !.array = e]
    BY <1>4, <1>6, <2>1
  <2>3. e \in Lists
    BY <2>1, EmptyList
  <2>4. /\ d \in Merge /\ d.taken = t /\ d.phase = "writing" /\ ~d.live /\ d.listed = m.listed
        /\ d.moved = m.moved
    BY <1>2, <2>2, <2>3 DEF Merge
  <2>5. ASSUME ~m.moved PROVE t = a
    <3>1. n <= Len(a) /\ \A i \in 1 .. n : t[i] = a[i]
      BY <1>1, <1>2, <1>3, <2>5, PrefixElements DEF Follows
    <3>2. n = Len(a)
      BY <1>1, <1>6, <3>1
    <3> QED BY <1>1, <1>2, <1>3, <3>1, <3>2, SeqEqual
  <2>6. ~m.moved => IsPrefix(m.listed, t) /\ IsInjective(t)
    BY <2>5 DEF Follows, Lists
  <2> QED BY <2>4, <2>6 DEF Follows
<1> QED BY <1>1, <1>3, <1>5, <1>6

LEMMA ReadFileStep ==
    ASSUME MergeInv, NEW k \in DOMAIN merges, ReadFile(k)
    PROVE  MergeInv'
<1>1. PICK m : m = merges[k]
  OBVIOUS
<1>2. PICK a : a = ArrayOf(m)
  OBVIOUS
<1>3. m \in Merge /\ a \in Lists /\ Follows(m, a) /\ m.phase = "reading"
  BY <1>1, <1>2, EachMerge DEF ReadFile
<1>4. PICK d : d = IF NextItem(m) <= Len(a)
                   THEN [m EXCEPT !.taken = Append(m.taken, a[NextItem(m)])]
                   ELSE [m EXCEPT !.phase = "writing", !.live = FALSE, !.array = <<>>]
  OBVIOUS
<1>5. d \in Merge /\ Follows(d, IF d.live THEN files ELSE d.array)
  BY <1>2, <1>3, <1>4, ReadOn
<1>6. /\ merges' = [merges EXCEPT ![k] = d]
      /\ UNCHANGED <<openings, onMerge, files, unchosen, checking, delivered>>
  BY <1>1, <1>2, <1>4 DEF ReadFile
<1> QED BY <1>5, <1>6, OneMerge

LEMMA FailStep ==
    ASSUME MergeInv, NEW k \in DOMAIN merges, MergeFails(k)
    PROVE  MergeInv'
<1>1. /\ merges' = [merges EXCEPT ![k] = Finished]
      /\ UNCHANGED <<openings, onMerge, files, unchosen, checking, delivered>>
  BY DEF MergeFails
<1>2. PICK d : d = Finished
  OBVIOUS
<1>3. d \in Merge /\ Follows(d, IF d.live THEN files ELSE d.array)
  BY <1>2, FinishedMerge
<1> QED BY <1>1, <1>2, <1>3, OneMerge

LEMMA CallBackStep ==
    ASSUME MergeInv, NEW k \in DOMAIN merges, CallBack(k)
    PROVE  MergeInv'
<1>1. PICK n : n = Len(merges)
  OBVIOUS
<1>2. n \in 0 .. MaxMerges /\ DOMAIN merges = 1 .. n
  BY <1>1, MergeFacts
<1>3. /\ merges' = [Detached EXCEPT ![k] = Finished] /\ files' = <<>> /\ onMerge' = 0
      /\ UNCHANGED <<openings, unchosen, checking>> /\ HandDocument(k)
  BY DEF CallBack, Closed
<1>4. PICK ds : ds = Detached
  OBVIOUS
<1>5. /\ ds \in [1 .. n -> Merge]
      /\ \A l \in 1 .. n : ~ds[l].live /\ Follows(ds[l], ds[l].array)
  BY <1>2, <1>4, DetachedMerges
<1>6. /\ merges' \in [1 .. n -> Merge]
      /\ \A l \in 1 .. n : ~merges'[l].live /\ Follows(merges'[l], merges'[l].array)
  BY <1>2, <1>3, <1>4, <1>5, FinishedMerge
<1>7. \A l \in 1 .. n : Follows(merges'[l], ArrayOf(merges[l])')
  BY <1>6 DEF ArrayOf
<1>8. files' \in Lists /\ Range(files)' = {}
  BY <1>3, EmptyList
<1>9. \/ delivered' = delivered
      \/ /\ onMerge # 0 /\ onMerge' = 0
         /\ \E l \in DOMAIN merges : delivered' = delivered \cup {[to |-> onMerge, merge |-> l]}
  BY <1>3 DEF HandDocument
<1>10. /\ openings' \in openings .. MaxOpenings /\ onMerge' \in {0, onMerge}
       /\ Apart' /\ unchosen' \in SUBSET Files /\ checking' \in SUBSET Files
       /\ DOMAIN merges \subseteq 1 .. n
  BY <1>2, <1>3, <1>8, MergeFacts DEF Apart
<1> QED BY <1>2, <1>6, <1>7, <1>8, <1>9, <1>10, MergeKept

LEMMA MergeStep ==
    ASSUME MergeInv, MergeNext
    PROVE  MergeInv'
<1>1. CASE Open
  BY <1>1, OpenStep
<1>2. CASE Close
  BY <1>2, CloseStep
<1>3. CASE StartMerge
  BY <1>3, StartStep
<1>4. ASSUME NEW f \in Files, Choose(f) \/ \E ok \in BOOLEAN : GuardAnswers(f, ok)
      PROVE  MergeInv'
  BY <1>4, ChooseSteps
<1>5. ASSUME NEW i \in DOMAIN files, RemoveFile(i) PROVE MergeInv'
  BY <1>5, RemoveFileStep
<1>6. ASSUME NEW i \in DOMAIN files, NEW step \in {-1, 1}, MoveFile(i, i + step) PROVE MergeInv'
  BY <1>6, MoveFileStep
<1>7. ASSUME NEW k \in DOMAIN merges, ReadFile(k) \/ CallBack(k) \/ MergeFails(k)
      PROVE  MergeInv'
  BY <1>7, ReadFileStep, CallBackStep, FailStep
<1> QED BY <1>1, <1>2, <1>3, <1>4, <1>5, <1>6, <1>7 DEF MergeNext

LEMMA MergeStays ==
    ASSUME MergeInv, UNCHANGED mergeVars
    PROVE  MergeInv'
BY DEF MergeInv, mergeVars, MergeTypeOK, Apart, AnswersOpening, DeliversOnce, Follows, ArrayOf

LEMMA MergesAsListed == MergeInv => MergedAsListed /\ DeliversOnce /\ MergeTypeOK
BY DEF MergeInv, MergedAsListed, Follows, AnswersOpening

-----------------------------------------------------------------------------
(* The signature pad *)

LEMMA PadInitially == SignaturesInit => PadInv
<1> SUFFICES ASSUME SignaturesInit
             PROVE  PadInv
  OBVIOUS
<1>1. /\ MaxCalls \in Nat /\ MaxPads \in Nat /\ MaxPadTroubles \in Nat /\ {NoKey, OldKey} \subseteq Keys
  BY SignaturesAssumption DEF Keys, NoKey, OldKey
<1>2. Unused \in CallRecord /\ Unused.stage = "unused" /\ Unused.pair = NoKey
  BY <1>1 DEF Unused, CallRecord, CallStages
<1>3. call \in [Calls -> CallRecord] /\ \A c \in Calls : call[c] = Unused
  BY <1>2 DEF SignaturesInit
<1>4. IsFiniteSet(Generators) /\ Cardinality(Generators) \in Nat
  <2>1. Generators = {}
    BY <1>2, <1>3 DEF Generators, Late
  <2> QED BY <2>1, FS_EmptySet
<1>5. KeysInv
  BY <1>1, <1>2, <1>3, <1>4 DEF SignaturesInit, KeysInv, HaveKeys, NoKey, OldKey
<1>6. OpeningsInv
  <2>1. pads \in 0 .. MaxPads /\ pad \in 0 .. pads /\ padReloads \in 0 .. MaxPadTroubles
    BY <1>1 DEF SignaturesInit
  <2>2. filled = FALSE /\ ticked = FALSE /\ useCryptoSign = FALSE /\ inserted = {}
    BY DEF SignaturesInit
  <2>3. OnePerOpening /\ SignedAsAsked
    BY <2>2 DEF OnePerOpening, SignedAsAsked
  <2>4. PadFields
    BY <2>2 DEF PadFields
  <2> QED BY <2>1, <2>2, <2>3, <2>4 DEF OpeningsInv
<1>7. OldPairKept /\ WillBeStored /\ keyFaults \in 0 .. MaxPadTroubles
  BY <1>1, <1>2, <1>3 DEF SignaturesInit, OldPairKept, WillBeStored, NoKey, OldKey
<1> QED BY <1>5, <1>6, <1>7 DEF PadInv

LEMMA GeneratorsCount ==
    ASSUME NEW G \in SUBSET Calls
    PROVE  /\ IsFiniteSet(G) /\ Cardinality(G) \in 0 .. MaxCalls
           /\ \A H \in SUBSET Calls : H \subseteq G => Cardinality(H) <= Cardinality(G)
           /\ \A c \in G : \A H \in SUBSET Calls :
                  H \subseteq G /\ c \notin H => Cardinality(H) + 1 <= Cardinality(G)
<1>1. PICK n \in Nat : n = MaxCalls
  BY SignaturesAssumption
<1>2. IsFiniteSet(Calls) /\ Cardinality(Calls) = n
  <2>1. IsFiniteSet(1 .. n) /\ Cardinality(1 .. n) = IF 1 > n THEN 0 ELSE n - 1 + 1
    BY FS_Interval
  <2> QED BY <1>1, <2>1 DEF Calls
<1>3. IsFiniteSet(G) /\ Cardinality(G) <= n /\ Cardinality(G) \in Nat
  BY <1>2, FS_Subset, FS_CardinalityType
<1>4. ASSUME NEW H \in SUBSET Calls, H \subseteq G
      PROVE  Cardinality(H) <= Cardinality(G)
  BY <1>3, <1>4, FS_Subset
<1>5. ASSUME NEW c \in G, NEW H \in SUBSET Calls, H \subseteq G, c \notin H
      PROVE  Cardinality(H) + 1 <= Cardinality(G)
  <2>1. IsFiniteSet(H)
    BY <1>3, <1>5, FS_Subset
  <2>2. Cardinality(H \cup {c}) = Cardinality(H) + 1
    BY <1>5, <2>1, FS_AddElement
  <2>3. H \cup {c} \in SUBSET G
    BY <1>5
  <2>4. Cardinality(H \cup {c}) <= Cardinality(G)
    BY <1>3, <2>3, FS_Subset
  <2> QED BY <2>2, <2>4
<1> QED BY <1>1, <1>3, <1>4, <1>5

\* A call moves on: what is left to show of the keys.
LEMMA CallMoves ==
    ASSUME KeysInv, NEW c \in Calls, NEW r \in CallRecord, call' = [call EXCEPT ![c] = r],
           Late(r) \/ ~Late(call[c]),
           \/ made' = made
           \/ made' = made + 1 /\ Late(r) /\ ~Late(call[c]),
           {keyPair', stored'} \subseteq Keys, legacy' \in {legacy, NoKey}, oldPair' = oldPair,
           keyPair' = NoKey => keyPair = NoKey,
           r.stage \in {"saving", "committing"} => keyPair' # NoKey,
           r.stage \in {"ready", "signed"} => r.pair # NoKey
    PROVE  KeysInv'
<1>0. /\ call \in [Calls -> CallRecord] /\ made \in 0 .. MaxCalls /\ made <= Cardinality(Generators)
      /\ {legacy, oldPair} \subseteq {NoKey, OldKey} /\ HaveKeys
  BY DEF KeysInv
<1>1. /\ call' \in [Calls -> CallRecord] /\ call'[c] = r
      /\ \A d \in Calls : d # c => call'[d] = call[d]
  BY <1>0
<1>2. /\ Generators \in SUBSET Calls /\ Generators' \in SUBSET Calls
      /\ Generators \subseteq Generators'
      /\ made' # made => c \in Generators' /\ c \notin Generators
  BY <1>1 DEF Generators
<1>3. PICK G : G = Generators
  OBVIOUS
<1>4. PICK H : H = Generators'
  OBVIOUS
<1>5. /\ Cardinality(G) \in 0 .. MaxCalls /\ Cardinality(H) \in 0 .. MaxCalls
      /\ Cardinality(G) <= Cardinality(H)
      /\ made' # made => Cardinality(G) + 1 <= Cardinality(H)
  BY <1>2, <1>3, <1>4, GeneratorsCount
<1>6. made' \in 0 .. MaxCalls /\ made' <= Cardinality(H)
  BY <1>0, <1>3, <1>5, SignaturesAssumption
<1>7. Cardinality(Generators)' = Cardinality(H)
  BY <1>4
<1>8. HaveKeys'
  BY <1>0, <1>1 DEF HaveKeys
<1> QED BY <1>0, <1>1, <1>6, <1>7, <1>8 DEF KeysInv

\* What is left to show of the old pair.
LEMMA PairMoves ==
    ASSUME KeysInv, OldPairKept, WillBeStored, NEW c \in Calls, NEW r \in CallRecord,
           call' = [call EXCEPT ![c] = r], oldPair' = oldPair,
           keyFaults' = 0 => keyFaults = 0,
           keyFaults' = 0 /\ oldPair # NoKey =>
               /\ {keyPair', stored'} \subseteq {NoKey, OldKey} /\ OldKey \in {stored', legacy'}
               /\ stored' = OldKey \/ stored' = stored
               /\ r.stage # "generating" /\ r.pair \in {NoKey, OldKey}
               /\ r.stage = "committing" => stored' = OldKey
               /\ \A s \in inserted' : s \in inserted \/ s.signer \in {NoKey, OldKey},
           keyFaults' = 0 =>
               \/ keyPair' \in {NoKey, stored'} \/ r.stage = "saving"
               \/ keyPair' = keyPair /\ stored' = stored /\ call[c].stage # "saving"
    PROVE  OldPairKept' /\ WillBeStored'
<1>0. call \in [Calls -> CallRecord]
  BY DEF KeysInv
<1>1. call'[c] = r /\ \A d \in Calls : d # c => call'[d] = call[d]
  BY <1>0
<1>2. OldPairKept'
  BY <1>1 DEF OldPairKept
<1>3. WillBeStored'
  BY <1>1 DEF WillBeStored
<1> QED BY <1>2, <1>3

LEMMA HandOverStep ==
    ASSUME OpeningsInv, NEW asked \in BOOLEAN, NEW failed \in BOOLEAN, NEW signer \in Keys,
           NEW public \in Keys, asked => failed \/ (signer # NoKey /\ signer = public),
           HandOver(asked, failed, signer, public)
    PROVE  /\ OpeningsInv'
           /\ \A s \in inserted' : s \in inserted \/ s.signer = signer
<1>0. /\ pads \in 0 .. MaxPads /\ pad \in 0 .. pads /\ MaxPads \in Nat
      /\ PadFields /\ padReloads \in 0 .. MaxPadTroubles
      /\ \A s \in inserted : s \in Inserted /\ s.to <= pads /\ s.to # pad
      /\ \A s, t \in inserted : s.to = t.to => s = t
      /\ SignedAsAsked
  BY SignaturesAssumption DEF OpeningsInv, OnePerOpening
<1>1. PICK n : n = [to |-> pad, asked |-> asked, failed |-> failed, signer |-> signer,
                    public |-> public]
  OBVIOUS
<1>2. /\ n.to = pad /\ n.asked = asked /\ n.failed = failed /\ n.signer = signer
      /\ n.public = public
      /\ pad # 0 => n \in Inserted
  BY <1>0, <1>1 DEF Inserted
<1>3. /\ inserted' = IF pad = 0 THEN inserted ELSE inserted \cup {n}
      /\ pad' = 0 /\ filled' = FALSE /\ ticked' = FALSE
      /\ UNCHANGED <<pads, useCryptoSign, padReloads>>
  BY <1>1 DEF HandOver, Blank
<1>4. \A s \in inserted' : s \in inserted \/ (s = n /\ pad # 0)
  BY <1>3
<1>5. \A s \in inserted' : s \in Inserted /\ s.to <= pads' /\ s.to # pad'
  <2>1. \A s \in Inserted : s.to # 0
    BY <1>0 DEF Inserted
  <2> QED BY <1>0, <1>2, <1>3, <1>4, <2>1
<1>6. OnePerOpening'
  BY <1>0, <1>2, <1>4 DEF OnePerOpening
<1>7. SignedAsAsked'
  BY <1>0, <1>2, <1>4 DEF SignedAsAsked
<1>8. OpeningsInv'
  <2>1. (pads \in 0 .. MaxPads /\ pad \in 0 .. pads /\ padReloads \in 0 .. MaxPadTroubles)'
    BY <1>0, <1>3
  <2>2. PadFields'
    BY <1>0, <1>3 DEF PadFields
  <2>3. (\A s \in inserted : s \in Inserted /\ s.to <= pads /\ s.to # pad)'
    BY <1>5
  <2> QED BY <1>6, <1>7, <2>1, <2>2, <2>3 DEF OpeningsInv
<1> QED BY <1>2, <1>4, <1>8

KeysAndPair == KeysInv /\ OldPairKept /\ WillBeStored /\ keyFaults \in 0 .. MaxPadTroubles

LEMMA CallFacts ==
    ASSUME KeysInv, NEW c \in Calls
    PROVE  /\ call \in [Calls -> CallRecord] /\ call[c] \in CallRecord /\ call[c].pair \in Keys
           /\ Unused \in CallRecord /\ Spent \in CallRecord
           /\ Spent.stage = "over" /\ Spent.pair = NoKey /\ Unused.stage = "unused"
           /\ \A stage \in CallStages : Goes(c, stage) =>
                  \E r \in CallRecord : /\ call' = [call EXCEPT ![c] = r]
                                        /\ r.stage = stage /\ r.pair = call[c].pair
           /\ \A stage \in CallStages, p \in Keys :
                  call' = [call EXCEPT ![c].stage = stage, ![c].pair = p] =>
                  \E r \in CallRecord : /\ call' = [call EXCEPT ![c] = r]
                                        /\ r.stage = stage /\ r.pair = p
<1>1. call \in [Calls -> CallRecord] /\ NoKey \in Keys
  BY SignaturesAssumption DEF KeysInv, Keys, NoKey, OldKey
<1>2. call[c] \in CallRecord /\ call[c].pair \in Keys
  BY <1>1 DEF CallRecord
<1>3. PICK u : u = Unused
  OBVIOUS
<1>4. u \in CallRecord /\ u.stage = "unused" /\ u.pair = NoKey
  BY <1>1, <1>3 DEF Unused, CallRecord, CallStages
<1>5. PICK s : s = Spent
  OBVIOUS
<1>6. s = [u EXCEPT !.stage = "over"]
  BY <1>3, <1>5 DEF Spent
<1>7. s \in CallRecord /\ s.stage = "over" /\ s.pair = NoKey
  BY <1>4, <1>6 DEF CallRecord, CallStages
<1>8. ASSUME NEW stage \in CallStages, Goes(c, stage)
      PROVE  \E r \in CallRecord : /\ call' = [call EXCEPT ![c] = r]
                                   /\ r.stage = stage /\ r.pair = call[c].pair
  <2>1. PICK r : r = [call[c] EXCEPT !.stage = stage]
    OBVIOUS
  <2>2. r \in CallRecord /\ r.stage = stage /\ r.pair = call[c].pair
    BY <1>2, <2>1 DEF CallRecord
  <2>3. call' = [call EXCEPT ![c] = r]
    BY <1>1, <1>8, <2>1 DEF Goes
  <2> QED BY <2>2, <2>3
<1>9. ASSUME NEW stage \in CallStages, NEW p \in Keys,
             call' = [call EXCEPT ![c].stage = stage, ![c].pair = p]
      PROVE  \E r \in CallRecord : /\ call' = [call EXCEPT ![c] = r]
                                   /\ r.stage = stage /\ r.pair = p
  <2>1. PICK r : r = [call[c] EXCEPT !.stage = stage, !.pair = p]
    OBVIOUS
  <2>2. r \in CallRecord /\ r.stage = stage /\ r.pair = p
    BY <1>2, <2>1 DEF CallRecord
  <2>3. call' = [call EXCEPT ![c] = r]
    BY <1>1, <1>9, <2>1
  <2> QED BY <2>2, <2>3
<1> QED BY <1>1, <1>2, <1>3, <1>4, <1>5, <1>7, <1>8, <1>9

LEMMA AskedStep ==
    ASSUME KeysAndPair, NEW c \in Calls, NEW what \in {"sign", "fingerprint"}, ticked \in BOOLEAN,
           GetOrCreate(c, what), UNCHANGED <<keyVars, inserted, keyFaults>>
    PROVE  KeysAndPair'
<1>0. KeysInv /\ OldPairKept /\ WillBeStored /\ keyFaults \in 0 .. MaxPadTroubles
  BY DEF KeysAndPair
<1>1. PICK stage : stage = IF keyPair # NoKey THEN "ready" ELSE "loading"
  OBVIOUS
<1>2. PICK r : r = [stage |-> stage, what |-> what, asked |-> ticked, migrating |-> FALSE,
                    pair |-> keyPair]
  OBVIOUS
<1>3. /\ call[c] = Unused /\ call' = [call EXCEPT ![c] = r]
      /\ UNCHANGED <<keyPair, stored, legacy, made, oldPair, inserted, keyFaults>>
  BY <1>1, <1>2 DEF GetOrCreate, keyVars
<1>4. r \in CallRecord /\ r.stage = stage /\ r.pair = keyPair /\ {keyPair, stored} \subseteq Keys
  BY <1>0, <1>1, <1>2 DEF CallRecord, CallStages, KeysInv
<1>5. ~Late(call[c]) /\ call[c].stage # "saving"
  BY <1>0, <1>3, CallFacts DEF Late
<1>6. KeysInv'
  BY <1>0, <1>1, <1>3, <1>4, <1>5, CallMoves
<1>7. OldPairKept' /\ WillBeStored'
  <2>1. keyFaults = 0 /\ oldPair # NoKey =>
            /\ {keyPair, stored} \subseteq {NoKey, OldKey} /\ OldKey \in {stored, legacy}
    BY <1>0 DEF OldPairKept
  <2> QED BY <1>0, <1>1, <1>3, <1>4, <1>5, <2>1, PairMoves
<1> QED BY <1>0, <1>3, <1>6, <1>7 DEF KeysAndPair

\* A step that fails, or one that leaves the keys alone.
LEMMA KeysAside ==
    ASSUME KeysAndPair, NEW c \in Calls, NEW r \in CallRecord, call' = [call EXCEPT ![c] = r],
           Late(r) \/ ~Late(call[c]), UNCHANGED keyVars,
           r.stage \notin {"saving", "committing"},
           r.stage \in {"ready", "signed"} => r.pair # NoKey,
           \/ keyFaults' \in (0 .. MaxPadTroubles) \ {0}
           \/ /\ keyFaults' = keyFaults /\ call[c].stage # "saving"
              /\ r.stage # "generating" /\ r.pair \in {NoKey, call[c].pair}
              /\ \A s \in inserted' : s \in inserted \/ s.signer \in {NoKey, call[c].pair}
    PROVE  KeysAndPair'
<1>0. /\ KeysInv /\ OldPairKept /\ WillBeStored /\ keyFaults \in 0 .. MaxPadTroubles
      /\ {keyPair, stored} \subseteq Keys
  BY DEF KeysAndPair, KeysInv
<1>1. UNCHANGED <<keyPair, stored, legacy, made, oldPair>>
  BY DEF keyVars
<1>2. KeysInv'
  BY <1>0, <1>1, CallMoves
<1>3. keyFaults = 0 /\ oldPair # NoKey =>
          /\ {keyPair, stored} \subseteq {NoKey, OldKey} /\ OldKey \in {stored, legacy}
          /\ call[c].pair \in {NoKey, OldKey}
  BY <1>0 DEF OldPairKept
<1>4. OldPairKept' /\ WillBeStored'
  BY <1>0, <1>1, <1>3, PairMoves
<1> QED BY <1>0, <1>2, <1>4 DEF KeysAndPair

LEMMA FaultTypes ==
    ASSUME KeysAndPair, KeyFault, padReloads \in Nat
    PROVE  keyFaults' \in (0 .. MaxPadTroubles) \ {0} /\ keyFaults' # 0
BY SignaturesAssumption DEF KeysAndPair, KeyFault, Trouble

LEMMA LoadSteps ==
    ASSUME KeysAndPair, NEW c \in Calls, padReloads \in Nat,
           Loaded(c) \/ LoadFailed(c) \/ Migrated(c) \/ MigrationFailed(c)
    PROVE  KeysAndPair'
<1>0. /\ KeysInv /\ OldPairKept /\ WillBeStored /\ keyFaults \in 0 .. MaxPadTroubles
      /\ {keyPair, stored} \subseteq Keys /\ OldKey \in Keys
  BY SignaturesAssumption DEF KeysAndPair, KeysInv, Keys, NoKey, OldKey
<1>1. keyFaults = 0 /\ oldPair # NoKey =>
          /\ {keyPair, stored} \subseteq {NoKey, OldKey} /\ OldKey \in {stored, legacy}
          /\ call[c].pair \in {NoKey, OldKey}
  BY <1>0 DEF OldPairKept
<1>2. {"ready", "importing", "generating", "saving"} \subseteq CallStages
  BY DEF CallStages
<1>3. NoKey # OldKey
  BY DEF NoKey, OldKey
<1>4. CASE Loaded(c)
  <2>1. /\ call[c].stage = "loading"
        /\ UNCHANGED <<stored, legacy, made, oldPair, keyFaults, inserted>>
    BY <1>4 DEF Loaded, NoKeyFault, PadsAside
  <2>2. CASE stored # NoKey
    <3>1. PICK r \in CallRecord : /\ call' = [call EXCEPT ![c] = r]
                                  /\ r.stage = "ready" /\ r.pair = stored
      BY <1>0, <1>2, <1>4, <2>2, CallFacts DEF Loaded
    <3>2. keyPair' = stored
      BY <1>4, <2>2 DEF Loaded
    <3>3. KeysInv'
      BY <1>0, <2>1, <2>2, <3>1, <3>2, CallMoves DEF Late
    <3>4. OldPairKept' /\ WillBeStored'
      BY <1>0, <1>1, <2>1, <3>1, <3>2, PairMoves
    <3> QED BY <1>0, <2>1, <3>3, <3>4 DEF KeysAndPair
  <2>3. CASE stored = NoKey
    <3>1. PICK r \in CallRecord : /\ call' = [call EXCEPT ![c] = r] /\ r.pair = call[c].pair
                                  /\ r.stage = IF legacy # NoKey THEN "importing" ELSE "generating"
      BY <1>0, <1>2, <1>4, <2>3, CallFacts DEF Loaded
    <3>2. UNCHANGED keyVars
      BY <1>4, <2>1, <2>3 DEF Loaded, keyVars
    <3>3. r.stage = "generating" => oldPair = NoKey \/ keyFaults # 0
      BY <1>1, <1>3, <2>3, <3>1
    <3>4. KeysInv'
      BY <1>0, <2>1, <3>1, <3>2, CallMoves DEF Late, keyVars
    <3>5. OldPairKept' /\ WillBeStored'
      BY <1>0, <1>1, <2>1, <3>1, <3>2, <3>3, PairMoves DEF keyVars
    <3> QED BY <1>0, <2>1, <3>4, <3>5 DEF KeysAndPair
  <2> QED BY <2>2, <2>3
<1>5. CASE LoadFailed(c) \/ MigrationFailed(c)
  <2>1. /\ call[c].stage \in {"loading", "importing"} /\ KeyFault /\ UNCHANGED keyVars
        /\ Goes(c, "importing") \/ Goes(c, "generating")
    BY <1>5 DEF LoadFailed, MigrationFailed
  <2>2. PICK r \in CallRecord : /\ call' = [call EXCEPT ![c] = r]
                                /\ r.stage \in {"importing", "generating"}
    BY <1>0, <1>2, <2>1, CallFacts
  <2>3. ~Late(call[c])
    BY <2>1 DEF Late
  <2> QED BY <2>1, <2>2, <2>3, FaultTypes, KeysAside
<1>6. CASE Migrated(c)
  <2>1. /\ call[c].stage = "importing" /\ keyPair' = OldKey
        /\ call' = [call EXCEPT ![c].stage = "saving", ![c].migrating = TRUE]
        /\ UNCHANGED <<stored, legacy, made, oldPair, keyFaults, inserted>>
    BY <1>6 DEF Migrated, NoKeyFault, PadsAside
  <2>2. PICK r : r = [call[c] EXCEPT !.stage = "saving", !.migrating = TRUE]
    OBVIOUS
  <2>3. r \in CallRecord /\ r.stage = "saving" /\ r.pair = call[c].pair
    <3>1. call[c] \in CallRecord
      BY <1>0, CallFacts
    <3> QED BY <1>2, <2>2, <3>1 DEF CallRecord
  <2>4. call' = [call EXCEPT ![c] = r]
    BY <1>0, <2>1, <2>2, CallFacts, ZenonT(40)
  <2>5. KeysInv'
    BY <1>0, <1>3, <2>1, <2>3, <2>4, CallMoves, ZenonT(40) DEF Late
  <2>6. OldPairKept' /\ WillBeStored'
    BY <1>0, <1>1, <2>1, <2>3, <2>4, PairMoves, ZenonT(40)
  <2> QED BY <1>0, <2>1, <2>5, <2>6 DEF KeysAndPair
<1> QED BY <1>4, <1>5, <1>6

LEMMA StoreSteps ==
    ASSUME KeysAndPair, NEW c \in Calls, Generated(c) \/ Put(c) \/ Committed(c)
    PROVE  KeysAndPair'
<1>0. /\ KeysInv /\ OldPairKept /\ WillBeStored /\ keyFaults \in 0 .. MaxPadTroubles
      /\ {keyPair, stored} \subseteq Keys /\ OldKey \in Keys /\ HaveKeys
  BY SignaturesAssumption DEF KeysAndPair, KeysInv, Keys, NoKey, OldKey
<1>1. keyFaults = 0 /\ oldPair # NoKey =>
          /\ {keyPair, stored} \subseteq {NoKey, OldKey} /\ OldKey \in {stored, legacy}
          /\ call[c].pair \in {NoKey, OldKey} /\ call[c].stage # "generating"
          /\ call[c].stage = "committing" => stored = OldKey
  BY <1>0 DEF OldPairKept
<1>2. {"saving", "committing", "ready"} \subseteq CallStages
  BY DEF CallStages
<1>3. CASE Generated(c)
  <2>1. /\ call[c].stage = "generating" /\ made' = made + 1 /\ keyPair' = OldKey + made + 1
        /\ UNCHANGED <<stored, legacy, oldPair, keyFaults, inserted>> /\ Goes(c, "saving")
    BY <1>3 DEF Generated, NoKeyFault, PadsAside
  <2>2. PICK r \in CallRecord : call' = [call EXCEPT ![c] = r] /\ r.stage = "saving"
    BY <1>0, <1>2, <2>1, CallFacts
  <2>3. keyPair' \in Keys /\ keyPair' # NoKey
    <3>1. c \notin Generators /\ Generators \in SUBSET Calls
      BY <2>1 DEF Generators, Late
    <3>2. PICK G : G = Generators
      OBVIOUS
    <3>3. Calls \in SUBSET Calls
      OBVIOUS
    <3>4. Cardinality(G) + 1 <= Cardinality(Calls) /\ Cardinality(Calls) \in 0 .. MaxCalls
          /\ Cardinality(G) \in 0 .. MaxCalls
      BY <3>1, <3>2, <3>3, GeneratorsCount
    <3>5. made \in 0 .. MaxCalls /\ made <= Cardinality(G)
      BY <1>0, <3>2 DEF KeysInv
    <3>6. made + 1 <= MaxCalls
      BY <3>4, <3>5, SignaturesAssumption
    <3> QED BY <2>1, <3>5, <3>6, SignaturesAssumption DEF Keys, NoKey, OldKey
  <2>4. KeysInv'
    BY <1>0, <2>1, <2>2, <2>3, CallMoves DEF Late
  <2>5. OldPairKept' /\ WillBeStored'
    BY <1>0, <1>1, <2>1, <2>2, PairMoves
  <2> QED BY <1>0, <2>1, <2>4, <2>5 DEF KeysAndPair
<1>4. CASE Put(c)
  <2>1. /\ call[c].stage = "saving" /\ stored' = keyPair /\ Goes(c, "committing")
        /\ UNCHANGED <<keyPair, legacy, made, oldPair, keyFaults, inserted>>
    BY <1>4 DEF Put, NoKeyFault, PadsAside
  <2>2. PICK r \in CallRecord : /\ call' = [call EXCEPT ![c] = r]
                                /\ r.stage = "committing" /\ r.pair = call[c].pair
    BY <1>0, <1>2, <2>1, CallFacts
  <2>3. keyPair # NoKey
    BY <1>0, <2>1 DEF HaveKeys
  <2>4. KeysInv'
    BY <1>0, <2>1, <2>2, <2>3, CallMoves DEF Late
  <2>5. OldPairKept' /\ WillBeStored'
    BY <1>0, <1>1, <2>1, <2>2, <2>3, PairMoves
  <2> QED BY <1>0, <2>1, <2>4, <2>5 DEF KeysAndPair
<1>5. CASE Committed(c)
  <2>1. /\ call[c].stage = "committing" /\ legacy' \in {legacy, NoKey}
        /\ call' = [call EXCEPT ![c].stage = "ready", ![c].pair = keyPair]
        /\ UNCHANGED <<keyPair, stored, made, oldPair, keyFaults, inserted>>
    BY <1>5 DEF Committed, NoKeyFault, PadsAside
  <2>2. PICK r \in CallRecord : /\ call' = [call EXCEPT ![c] = r]
                                /\ r.stage = "ready" /\ r.pair = keyPair
    <3>1. "ready" \in CallStages /\ keyPair \in Keys
      BY <1>0, <1>2
    <3>2. PICK r : r = [call[c] EXCEPT !.stage = "ready", !.pair = keyPair]
      OBVIOUS
    <3>3. call[c] \in CallRecord
      BY <1>0, CallFacts
    <3>4. r \in CallRecord /\ r.stage = "ready" /\ r.pair = keyPair
      BY <3>1, <3>2, <3>3 DEF CallRecord
    <3>5. call' = [call EXCEPT ![c] = r]
      BY <1>0, <2>1, <3>2, CallFacts
    <3> QED BY <3>4, <3>5
  <2>3. keyPair # NoKey
    BY <1>0, <2>1 DEF HaveKeys
  <2>4. KeysInv'
    BY <1>0, <2>1, <2>2, <2>3, CallMoves DEF Late
  <2>5. OldPairKept' /\ WillBeStored'
    BY <1>0, <1>1, <2>1, <2>2, PairMoves
  <2> QED BY <1>0, <2>1, <2>4, <2>5 DEF KeysAndPair
<1> QED BY <1>3, <1>4, <1>5

LEMMA KeysStay ==
    ASSUME KeysAndPair, UNCHANGED <<keyVars, call, keyFaults>>,
           \A s \in inserted' : s \in inserted \/ s.signer = NoKey
    PROVE  KeysAndPair'
<1>1. UNCHANGED <<keyPair, stored, legacy, made, oldPair, call, keyFaults>>
  BY DEF keyVars
<1>2. KeysInv'
  <2>1. Generators' = Generators
    BY <1>1 DEF Generators
  <2> QED BY <1>1, <2>1 DEF KeysAndPair, KeysInv, HaveKeys
<1>3. OldPairKept'
  BY <1>1 DEF KeysAndPair, OldPairKept
<1>4. WillBeStored'
  BY <1>1 DEF KeysAndPair, WillBeStored
<1> QED BY <1>1, <1>2, <1>3, <1>4 DEF KeysAndPair

LEMMA PadsStay ==
    ASSUME OpeningsInv, UNCHANGED <<padVars, inserted, padReloads>>
    PROVE  OpeningsInv'
<1>1. UNCHANGED <<pads, pad, filled, ticked, useCryptoSign, inserted, padReloads>>
  BY DEF padVars
<1> QED BY <1>1 DEF OpeningsInv, PadFields, OnePerOpening, SignedAsAsked

\* The pad is opened, closed, filled or ticked.
LEMMA PadMoves ==
    ASSUME OpeningsInv, UNCHANGED inserted,
           pads' \in pads .. MaxPads, pad' \in {0, pad} \/ (pad' = pads' /\ pads' = pads + 1),
           PadFields', padReloads' \in 0 .. MaxPadTroubles
    PROVE  OpeningsInv'
<1>0. /\ pads \in 0 .. MaxPads /\ pad \in 0 .. pads /\ MaxPads \in Nat
      /\ \A s \in inserted : s \in Inserted /\ s.to <= pads /\ s.to # pad
      /\ OnePerOpening /\ SignedAsAsked
  BY SignaturesAssumption DEF OpeningsInv
<1>1. (pads \in 0 .. MaxPads /\ pad \in 0 .. pads)'
  BY <1>0
<1>2. (\A s \in inserted : s \in Inserted /\ s.to <= pads /\ s.to # pad)'
  <2>1. \A s \in Inserted : s.to \in 1 .. MaxPads
    BY DEF Inserted
  <2> QED BY <1>0, <2>1
<1>3. (OnePerOpening /\ SignedAsAsked)'
  BY <1>0 DEF OnePerOpening, SignedAsAsked
<1> QED BY <1>1, <1>2, <1>3 DEF OpeningsInv

LEMMA PadFacts ==
    ASSUME OpeningsInv
    PROVE  /\ pads \in 0 .. MaxPads /\ pads \in pads .. MaxPads /\ pad \in 0 .. pads
           /\ PadFields /\ padReloads \in 0 .. MaxPadTroubles /\ padReloads \in Nat
<1>1. /\ pads \in 0 .. MaxPads /\ pad \in 0 .. pads /\ padReloads \in 0 .. MaxPadTroubles
      /\ PadFields
  BY DEF OpeningsInv
<1>2. pads \in pads .. MaxPads /\ padReloads \in Nat
  BY <1>1, SignaturesAssumption
<1> QED BY <1>1, <1>2

LEMMA SignSteps ==
    ASSUME PadInv, NEW c \in Calls, Rejected(c) \/ Sign(c) \/ ShowFingerprint(c)
    PROVE  KeysAndPair'
<1>0. KeysAndPair /\ KeysInv /\ HaveKeys /\ padReloads \in Nat /\ NoKey \in Keys
      /\ keyFaults \in 0 .. MaxPadTroubles
  BY PadFacts, SignaturesAssumption DEF PadInv, KeysAndPair, KeysInv, Keys, NoKey, OldKey
<1>1. {"failed", "signed"} \subseteq CallStages
  BY DEF CallStages
<1>2. PICK spent : spent = Spent
  OBVIOUS
<1>3. /\ spent \in CallRecord /\ spent.stage = "over" /\ spent.pair = NoKey
      /\ Ends(c) => call' = [call EXCEPT ![c] = spent]
  BY <1>0, <1>2, CallFacts DEF Ends
<1>4. CASE Rejected(c)
  <2>1. KeyFault /\ UNCHANGED keyVars /\ (Goes(c, "failed") \/ Ends(c))
    BY <1>4 DEF Rejected
  <2>2. PICK r \in CallRecord : call' = [call EXCEPT ![c] = r] /\ r.stage \in {"failed", "over"}
    BY <1>0, <1>1, <1>3, <2>1, CallFacts
  <2> QED BY <1>0, <2>1, <2>2, FaultTypes, KeysAside DEF Late
<1>5. CASE Sign(c)
  <2>1. /\ call[c].stage = "ready" /\ Goes(c, "signed")
        /\ UNCHANGED <<keyVars, keyFaults, inserted>>
    BY <1>5 DEF Sign, NoKeyFault, PadsAside
  <2>2. PICK r \in CallRecord : /\ call' = [call EXCEPT ![c] = r]
                                /\ r.stage = "signed" /\ r.pair = call[c].pair
    BY <1>0, <1>1, <2>1, CallFacts
  <2>3. r.pair # NoKey
    BY <1>0, <2>1, <2>2 DEF HaveKeys
  <2> QED BY <1>0, <2>1, <2>2, <2>3, KeysAside DEF Late
<1>6. CASE ShowFingerprint(c)
  <2>1. call[c].stage = "ready" /\ Ends(c) /\ UNCHANGED <<keyVars, keyFaults, inserted>>
    BY <1>6 DEF ShowFingerprint, NoKeyFault, PadsAside
  <2> QED BY <1>0, <1>3, <2>1, KeysAside DEF Late
<1> QED BY <1>4, <1>5, <1>6

LEMMA InsertSteps ==
    ASSUME PadInv, NEW c \in Calls, InsertWhenSigned(c) \/ InsertAnyway(c)
    PROVE  KeysAndPair' /\ OpeningsInv'
<1>0. KeysAndPair /\ KeysInv /\ HaveKeys /\ OpeningsInv /\ keyFaults \in 0 .. MaxPadTroubles
      /\ NoKey \in Keys
  BY SignaturesAssumption DEF PadInv, KeysAndPair, KeysInv, Keys, NoKey, OldKey
<1>1. PICK spent : spent = Spent
  OBVIOUS
<1>2. /\ spent \in CallRecord /\ spent.stage = "over" /\ spent.pair = NoKey
      /\ call[c] \in CallRecord /\ call[c].pair \in Keys
      /\ Ends(c) => call' = [call EXCEPT ![c] = spent]
  BY <1>0, <1>1, CallFacts DEF Ends
<1>3. call[c].asked \in BOOLEAN
  BY <1>2 DEF CallRecord
<1>4. PICK signer \in {NoKey, call[c].pair}, failed \in BOOLEAN :
          /\ HandOver(call[c].asked, failed, signer, signer)
          /\ failed \/ signer # NoKey
  <2>1. CASE InsertWhenSigned(c)
    BY <1>0, <2>1 DEF InsertWhenSigned, HaveKeys
  <2>2. CASE InsertAnyway(c)
    BY <2>2 DEF InsertAnyway
  <2> QED BY <2>1, <2>2
<1>5. signer \in Keys
  BY <1>0, <1>2
<1>6. /\ Ends(c) /\ UNCHANGED <<keyVars, keyFaults>>
      /\ call[c].stage \in {"signed", "failed"}
  BY DEF InsertWhenSigned, InsertAnyway
<1>7. OpeningsInv' /\ \A s \in inserted' : s \in inserted \/ s.signer = signer
  BY <1>0, <1>3, <1>4, <1>5, HandOverStep
<1>8. KeysAndPair'
  BY <1>0, <1>2, <1>4, <1>6, <1>7, KeysAside DEF Late
<1> QED BY <1>7, <1>8

LEMMA PadReloadStep ==
    ASSUME PadInv, ReloadPad
    PROVE  PadInv'
<1>0. /\ KeysInv /\ OpeningsInv /\ OldPairKept /\ keyFaults \in 0 .. MaxPadTroubles
      /\ call \in [Calls -> CallRecord] /\ NoKey \in Keys
      /\ made \in 0 .. MaxCalls /\ made <= Cardinality(Generators)
      /\ {keyPair, stored} \subseteq Keys /\ {legacy, oldPair} \subseteq {NoKey, OldKey}
  BY SignaturesAssumption DEF PadInv, KeysInv, Keys, NoKey, OldKey
<1>1. /\ keyPair' = NoKey /\ pad' = 0 /\ filled' = FALSE /\ ticked' = FALSE
      /\ useCryptoSign' = FALSE /\ padReloads' = padReloads + 1 /\ Trouble
      /\ call' = [c \in Calls |-> IF call[c] = Unused THEN Unused ELSE Spent]
      /\ UNCHANGED <<stored, legacy, made, oldPair, pads, inserted, keyFaults>>
  BY DEF ReloadPad, Blank
<1>2. PICK u : u = Unused
  OBVIOUS
<1>3. PICK s : s = Spent
  OBVIOUS
<1>4. s \in CallRecord /\ u \in CallRecord /\ s.stage = "over" /\ s.pair = NoKey
      /\ u.stage = "unused" /\ u.pair = NoKey
  <2>1. u \in CallRecord /\ u.stage = "unused" /\ u.pair = NoKey
    BY <1>0, <1>2 DEF Unused, CallRecord, CallStages
  <2>2. s = [u EXCEPT !.stage = "over"]
    BY <1>2, <1>3 DEF Spent
  <2> QED BY <2>1, <2>2 DEF CallRecord, CallStages
<1>5. /\ call' \in [Calls -> CallRecord]
      /\ \A c \in Calls : call'[c] = IF call[c] = u THEN u ELSE s
  BY <1>1, <1>2, <1>3, <1>4
<1>6. \A c \in Calls : call'[c].stage \in {"unused", "over"} /\ call'[c].pair = NoKey
  BY <1>4, <1>5
<1>7. KeysInv'
  <2>1. /\ Generators \in SUBSET Calls /\ Generators' \in SUBSET Calls
        /\ Generators \subseteq Generators'
    BY <1>4, <1>5 DEF Generators, Late
  <2>2. PICK G : G = Generators
    OBVIOUS
  <2>3. PICK H : H = Generators'
    OBVIOUS
  <2>4. Cardinality(G) <= Cardinality(H) /\ {Cardinality(G), Cardinality(H)} \subseteq 0 .. MaxCalls
    BY <2>1, <2>2, <2>3, GeneratorsCount
  <2>5. made <= Cardinality(H)
    BY <1>0, <2>2, <2>4, SignaturesAssumption
  <2>6. Cardinality(Generators)' = Cardinality(H)
    BY <2>3
  <2> QED BY <1>0, <1>1, <1>5, <1>6, <2>5, <2>6 DEF KeysInv, HaveKeys
<1>8. OldPairKept' /\ WillBeStored'
  BY <1>0, <1>1, <1>6 DEF OldPairKept, WillBeStored
<1>9. OpeningsInv'
  <2>1. padReloads' \in 0 .. MaxPadTroubles
    BY <1>0, <1>1, PadFacts, SignaturesAssumption DEF Trouble
  <2>2. PadFields'
    BY <1>1 DEF PadFields
  <2> QED BY <1>0, <1>1, <2>1, <2>2, PadFacts, PadMoves
<1> QED BY <1>0, <1>1, <1>7, <1>8, <1>9 DEF PadInv

LEMMA PadStep ==
    ASSUME PadInv, SignaturesNext
    PROVE  PadInv'
<1>0. KeysAndPair /\ OpeningsInv /\ padReloads \in Nat /\ PadFields /\ ticked \in BOOLEAN
  BY PadFacts DEF PadInv, KeysAndPair, PadFields
<1>1. SUFFICES KeysAndPair' /\ OpeningsInv'
  BY DEF PadInv, KeysAndPair
<1>2. CASE OpenPad \/ Fill \/ Erase \/ Untick \/ ClosePad
  <2>1. UNCHANGED <<keyVars, call, keyFaults, inserted, padReloads>>
    BY <1>2 DEF OpenPad, Fill, Erase, Untick, ClosePad, Paper
  <2>2. KeysAndPair'
    BY <1>0, <2>1, KeysStay
  <2>3. OpeningsInv'
    <3>1. CASE OpenPad
      <4>1. pads' \in pads .. MaxPads /\ pad' = pads' /\ pads' = pads + 1
        BY <1>0, <3>1, PadFacts, SignaturesAssumption DEF OpenPad
      <4>2. PadFields'
        BY <1>0, <3>1 DEF PadFields, OpenPad
      <4> QED BY <1>0, <2>1, <4>1, <4>2, PadFacts, PadMoves
    <3>2. CASE Fill \/ Erase
      <4>1. UNCHANGED <<pads, pad>>
        BY <3>2 DEF Fill, Erase, Paper
      <4>2. PadFields'
        <5>1. (filled' = TRUE \/ filled' = FALSE) /\ UNCHANGED <<ticked, useCryptoSign>>
          BY <3>2 DEF Fill, Erase, Paper
        <5> QED BY <1>0, <5>1 DEF PadFields
      <4> QED BY <1>0, <2>1, <4>1, <4>2, PadFacts, PadMoves
    <3>3. CASE Untick
      <4>1. UNCHANGED <<pads, pad>>
        BY <3>3 DEF Untick
      <4>2. PadFields'
        BY <1>0, <3>3 DEF PadFields, Untick
      <4> QED BY <1>0, <2>1, <4>1, <4>2, PadFacts, PadMoves
    <3>4. CASE ClosePad
      <4>1. pad' = 0 /\ UNCHANGED pads
        BY <3>4 DEF ClosePad
      <4>2. PadFields'
        BY <1>0, <3>4 DEF PadFields, ClosePad, Blank
      <4> QED BY <1>0, <2>1, <4>1, <4>2, PadFacts, PadMoves
    <3> QED BY <1>2, <3>1, <3>2, <3>3, <3>4
  <2> QED BY <2>2, <2>3
<1>3. CASE InsertUnsigned
  <2>1. /\ ~ticked /\ HandOver(ticked, FALSE, NoKey, NoKey) /\ UNCHANGED <<keyVars, call, keyFaults>>
    BY <1>0, <1>3 DEF InsertUnsigned, PadFields
  <2>2. NoKey \in Keys
    BY SignaturesAssumption DEF Keys, NoKey, OldKey
  <2>3. OpeningsInv' /\ \A s \in inserted' : s \in inserted \/ s.signer = NoKey
    BY <1>0, <2>1, <2>2, HandOverStep
  <2> QED BY <1>0, <2>1, <2>3, KeysStay
<1>4. CASE ReloadPad
  BY <1>4, PadReloadStep DEF PadInv, KeysAndPair
<1>5. ASSUME NEW c \in Calls, Tick(c) \/ InsertSigned(c)
      PROVE  KeysAndPair' /\ OpeningsInv'
  <2>1. PICK what \in {"sign", "fingerprint"} : GetOrCreate(c, what)
    BY <1>5 DEF Tick, InsertSigned
  <2>2. UNCHANGED <<keyVars, inserted, keyFaults, padReloads>>
    BY <1>5 DEF Tick, InsertSigned
  <2>3. OpeningsInv'
    <3>1. CASE Tick(c)
      <4>1. UNCHANGED <<pads, pad>>
        BY <3>1 DEF Tick
      <4>2. PadFields'
        BY <1>0, <3>1 DEF PadFields, Tick
      <4> QED BY <1>0, <2>2, <4>1, <4>2, PadFacts, PadMoves
    <3>2. CASE InsertSigned(c)
      BY <1>0, <2>2, <3>2, PadsStay DEF InsertSigned
    <3> QED BY <1>5, <3>1, <3>2
  <2> QED BY <1>0, <2>1, <2>2, <2>3, AskedStep
<1>6. ASSUME NEW c \in Calls,
             \/ Loaded(c) \/ LoadFailed(c) \/ Migrated(c) \/ MigrationFailed(c) \/ Generated(c)
             \/ Put(c) \/ Committed(c) \/ Rejected(c) \/ Sign(c) \/ ShowFingerprint(c)
      PROVE  KeysAndPair' /\ OpeningsInv'
  <2>1. KeysAndPair'
    BY <1>0, <1>6, LoadSteps, StoreSteps, SignSteps
  <2>2. UNCHANGED <<padVars, inserted, padReloads>>
    BY <1>6 DEF PadsAside, Loaded, LoadFailed, Migrated, MigrationFailed, Generated, Put, Committed,
                Rejected, Sign, ShowFingerprint
  <2> QED BY <1>0, <2>1, <2>2, PadsStay
<1>7. ASSUME NEW c \in Calls, InsertWhenSigned(c) \/ InsertAnyway(c)
      PROVE  KeysAndPair' /\ OpeningsInv'
  BY <1>7, InsertSteps
<1> QED BY <1>2, <1>3, <1>4, <1>5, <1>6, <1>7 DEF SignaturesNext

LEMMA PadStays ==
    ASSUME PadInv, UNCHANGED signVars
    PROVE  PadInv'
<1>1. KeysAndPair /\ OpeningsInv
  BY DEF PadInv, KeysAndPair
<1>2. UNCHANGED <<keyVars, call, keyFaults, padVars, inserted, padReloads>>
  BY DEF signVars
<1> QED BY <1>1, <1>2, KeysStay, PadsStay DEF PadInv, KeysAndPair

LEMMA PadSettles ==
    PadInv => SignaturesTypeOK /\ KeepsOldPair /\ StoredIsUsed /\ SignedAsAsked /\ OnePerOpening
<1> SUFFICES ASSUME PadInv
             PROVE  SignaturesTypeOK /\ KeepsOldPair /\ StoredIsUsed /\ SignedAsAsked /\ OnePerOpening
  OBVIOUS
<1>1. KeysInv /\ OpeningsInv /\ OldPairKept /\ WillBeStored /\ keyFaults \in 0 .. MaxPadTroubles
  BY DEF PadInv
<1>2. /\ filled \in BOOLEAN /\ ticked \in BOOLEAN /\ useCryptoSign \in BOOLEAN
      /\ pads \in 0 .. MaxPads /\ pad \in 0 .. pads /\ padReloads \in 0 .. MaxPadTroubles
      /\ inserted \subseteq Inserted
  BY <1>1 DEF OpeningsInv, PadFields
<1>3. SignaturesTypeOK
  BY <1>1, <1>2 DEF SignaturesTypeOK, KeysInv
<1>4. KeepsOldPair
  <2>1. oldPair \in {NoKey, OldKey}
    BY <1>1 DEF KeysInv
  <2> QED BY <1>1, <2>1 DEF OldPairKept, KeepsOldPair
<1>5. StoredIsUsed
  BY <1>1 DEF WillBeStored, StoredIsUsed, InFlight
<1>6. SignedAsAsked /\ OnePerOpening
  BY <1>1 DEF OpeningsInv
<1> QED BY <1>3, <1>4, <1>5, <1>6

-----------------------------------------------------------------------------
(* All parts *)

PartsInv ==
    /\ part \in Parts
    /\ GateInv /\ MergeInv /\ PadInv /\ DockInv /\ ExportInv /\ DeskInv

\* Whichever part is followed, the others stay as they are.
LEMMA PartsInitially == BrowserInit => PartsInv
BY GateInit, MergeInitially, PadInitially, DockInitially, ExportInitially, DeskInitially
   DEF BrowserInit, PartsInv

LEMMA PartsStep == PartsInv /\ [BrowserNext]_browserVars => PartsInv'
<1> SUFFICES ASSUME PartsInv, [BrowserNext]_browserVars
             PROVE  PartsInv'
  OBVIOUS
<1>0. /\ part \in Parts
      /\ GateInv /\ MergeInv /\ PadInv /\ DockInv /\ ExportInv /\ DeskInv
  BY DEF PartsInv
<1>1. /\ UNCHANGED part /\ [LoginGateNext]_gateVars /\ [DockNext]_dockVars /\ [ExporterNext]_exportVars
      /\ MergeNext \/ UNCHANGED mergeVars
      /\ SignaturesNext \/ UNCHANGED signVars
      /\ LooksOnly \/ DeskNext \/ UNCHANGED deskVars
  <2>1. CASE BrowserNext
    BY <2>1 DEF BrowserNext
  <2>2. CASE UNCHANGED browserVars
    BY <2>2 DEF browserVars
  <2> QED BY <2>1, <2>2
<1>2. GateInv' /\ DockInv' /\ ExportInv'
  BY <1>0, <1>1, GateStep, DockStep, ExportStep
<1>3. MergeInv'
  BY <1>0, <1>1, MergeStep, MergeStays
<1>4. PadInv'
  BY <1>0, <1>1, PadStep, PadStays
<1>5. DeskInv'
  BY <1>0, <1>1, LooksOnlyStep, DeskStep, DeskStays
<1> QED BY <1>0, <1>1, <1>2, <1>3, <1>4, <1>5 DEF PartsInv

LEMMA PartsAlways == BrowserSpec => []PartsInv
BY PartsInitially, PartsStep, PTL DEF BrowserSpec

-----------------------------------------------------------------------------
(* Theorems *)

\* Every part of the page keeps to its types, for any number of calls, files,
\* messages and pages.
THEOREM BrowserTypes == BrowserSpec => []BrowserTypeOK
<1>1. PartsInv => BrowserTypeOK
  BY MergesAsListed, PadSettles
     DEF PartsInv, BrowserTypeOK, GateInv, DockInv, ExportInv, DeskInv, ViewerInv, ChatInv, DeskTypeOK
<1> QED BY <1>1, PartsAlways, PTL

\* The sign-in form on screen is for the mode its submission goes to, and is
\* disabled exactly while its own login is under way.
THEOREM GateFormFollowsLogin == BrowserSpec => []FormFollowsLogin
<1>1. PartsInv => FormFollowsLogin
  BY DEF PartsInv, GateInv, OwnLogin, FormFollowsLogin
<1> QED BY <1>1, PartsAlways, PTL

\* No form has two logins of its own under way.
THEOREM GateOneLogin ==
    BrowserSpec => [](\A r, s \in Requests : OwnLogin(r) /\ OwnLogin(s) => r = s)
<1>1. PartsInv => \A r, s \in Requests : OwnLogin(r) /\ OwnLogin(s) => r = s
  BY DEF PartsInv, GateInv
<1> QED BY <1>1, PartsAlways, PTL

\* One opening of the merge dialog loads one document, one opening of the pad
\* inserts one signature, however many merges and signings overlap.
THEOREM EachDialogAnswersOnce == BrowserSpec => []DialogsAnswerOnce
<1>1. PartsInv => DialogsAnswerOnce
  BY MergesAsListed, PadSettles DEF PartsInv, DialogsAnswerOnce
<1> QED BY <1>1, PartsAlways, PTL

\* A merge takes what was listed when it was started, once and in that order,
\* unless a file was moved.
THEOREM DialogMergesAsListed == BrowserSpec => []MergedAsListed
<1>1. PartsInv => MergedAsListed
  BY MergesAsListed DEF PartsInv
<1> QED BY <1>1, PartsAlways, PTL

\* While no step fails the key pair of an earlier session is never lost and is
\* the one that signs, for any number of overlapping calls and reloads.
THEOREM PadKeepsOldPair == BrowserSpec => []KeepsOldPair
<1>1. PartsInv => KeepsOldPair
  BY PadSettles DEF PartsInv
<1> QED BY <1>1, PartsAlways, PTL

\* When no call is under way and no step failed, the pair in use is the stored
\* one, whatever the calls generated and in whatever order they stored it.
THEOREM PadStoresWhatItUses == BrowserSpec => []StoredIsUsed
<1>1. PartsInv => StoredIsUsed
  BY PadSettles DEF PartsInv
<1> QED BY <1>1, PartsAlways, PTL

\* A signature that was asked for is inserted, and verifies with the public key
\* it carries, unless a step failed.
THEOREM PadSignsAsAsked == BrowserSpec => []SignedAsAsked
<1>1. PartsInv => SignedAsAsked
  BY PadSettles DEF PartsInv
<1> QED BY <1>1, PartsAlways, PTL

\* Whatever calls of the viewer overlap, the annotations that are left on screen
\* are those of the page and the zoom of the moment, and when none overlapped the
\* canvas and the thumbnail are too.
THEOREM ViewerPageSettles == BrowserSpec => []PageSettles
<1>1. PartsInv => PageSettles
  BY DEF PartsInv, DeskInv, ViewerInv
<1> QED BY <1>1, PartsAlways, PTL

\* A card of the chat runs at most once, and not when it was cancelled, for any
\* number of cards, messages and reloads, while localStorage takes every write.
THEOREM CardsRunAtMostOnce == BrowserSpec => []RunsAtMostOnce
<1>1. PartsInv => RunsAtMostOnce
  BY DEF PartsInv, DeskInv, ChatInv
<1> QED BY <1>1, PartsAlways, PTL

\* A panel at rest is on screen, or the button that brings it back is.
THEOREM PanelDockAtRest == BrowserSpec => []DockAtRest
<1>1. PartsInv => DockAtRest
  BY DEF PartsInv, DockInv
<1> QED BY <1>1, PartsAlways, PTL

\* What leaves the editor is the document as it was when that was asked for,
\* for any number of exports and edits between them, unless two e-mails share a
\* temporary file.
THEOREM ExportsLeaveAsAsked == BrowserSpec => []LeavesAsAsked
<1>1. PartsInv => LeavesAsAsked
  BY DEF PartsInv, ExportInv
<1> QED BY <1>1, PartsAlways, PTL
=============================================================================
