----------------------------- MODULE Signatures -----------------------------
(* The signature pad, src/src/components/SignaturePad.ts, and the key pair   *)
(* it signs with, src/src/utils/crypto.ts.  Signing and fingerprinting are   *)
(* asynchronous and hold no lock: while they load, migrate, generate or      *)
(* store the pair, the pad can be used, closed and opened for another place, *)
(* and the page can be reloaded.  Keys are numbers, generated upwards.       *)
EXTENDS Integers

CONSTANTS
    MaxCalls,           \* of signData and exportPublicKey, numbered as they begin
    MaxPads,            \* times the pad is opened
    MaxPadTroubles      \* failing steps of IndexedDB or SubtleCrypto, and reloads

ASSUME SignaturesAssumption ==
    {MaxCalls, MaxPads, MaxPadTroubles} \subseteq Nat

Calls == 1 .. MaxCalls
NoKey == 0
OldKey == 1     \* a pair from before, in localStorage or in the database

VARIABLES
    keyPair, stored, legacy,    \* in memory, in IndexedDB, in localStorage
    made,                       \* pairs generated so far
    oldPair,                    \* what the user had at first: OldKey or NoKey
    call,                       \* the calls, by name
    pads, pad,                  \* openings so far, the one on screen or 0
    filled,                     \* the tab on screen has a drawing or a name
    ticked, useCryptoSign,      \* the checkbox and the field
    inserted,                   \* signatures handed to a callback
    keyFaults, padReloads

keyVars == <<keyPair, stored, legacy, made, oldPair>>
padVars == <<pads, pad, filled, ticked, useCryptoSign>>
signVars == <<keyVars, call, padVars, inserted, keyFaults, padReloads>>

Keys == NoKey .. OldKey + MaxCalls
CallStages == {"unused", "loading", "importing", "generating", "saving", "committing",
           "ready", "signed", "failed", "over"}
CallRecord == [stage : CallStages, what : {"sign", "fingerprint"},
               asked : BOOLEAN, migrating : BOOLEAN, pair : Keys]
\* signer and public are NoKey when nothing was signed.
Inserted == [to : 1 .. MaxPads, asked : BOOLEAN, failed : BOOLEAN,
             signer : Keys, public : Keys]

SignaturesTypeOK ==
    /\ {keyPair, stored} \subseteq Keys /\ {legacy, oldPair} \subseteq {NoKey, OldKey}
    /\ made \in 0 .. MaxCalls
    /\ call \in [Calls -> CallRecord]
    /\ pads \in 0 .. MaxPads /\ pad \in 0 .. pads
    /\ {filled, ticked, useCryptoSign} \subseteq BOOLEAN
    /\ inserted \subseteq Inserted
    /\ {keyFaults, padReloads} \subseteq 0 .. MaxPadTroubles

Unused == [stage |-> "unused", what |-> "sign", asked |-> FALSE,
           migrating |-> FALSE, pair |-> NoKey]
Spent == [Unused EXCEPT !.stage = "over"]

SignaturesInit ==
    /\ keyPair = NoKey /\ made = 0
    /\ \/ oldPair = NoKey /\ stored = NoKey /\ legacy = NoKey
       \/ oldPair = OldKey /\ stored = NoKey /\ legacy = OldKey
       \/ oldPair = OldKey /\ stored = OldKey /\ legacy = NoKey
    /\ call = [c \in Calls |-> Unused]
    /\ pads = 0 /\ pad = 0 /\ filled = FALSE
    /\ ticked = FALSE /\ useCryptoSign = FALSE
    /\ inserted = {} /\ keyFaults = 0 /\ padReloads = 0

Goes(c, stage) == call' = [call EXCEPT ![c].stage = stage]
Ends(c) == call' = [call EXCEPT ![c] = Spent]
Trouble == keyFaults + padReloads < MaxPadTroubles
KeyFault == Trouble /\ keyFaults' = keyFaults + 1
NoKeyFault == UNCHANGED keyFaults
PadsAside == UNCHANGED <<padVars, inserted, padReloads>>

-----------------------------------------------------------------------------
(* getOrCreateKeyPair, from one await to the next *)

\* A pair in memory is used as it is.
GetOrCreate(c, what) ==
    /\ call[c] = Unused /\ \A d \in Calls : d < c => call[d] # Unused
    /\ call' = [call EXCEPT ![c] =
                   [stage |-> IF keyPair # NoKey THEN "ready" ELSE "loading", what |-> what,
                    asked |-> ticked, migrating |-> FALSE, pair |-> keyPair]]

\* The database answers; a failure reads as an empty store.  Without a stored
\* pair, localStorage is read in the same turn.
Loaded(c) ==
    /\ call[c].stage = "loading"
    /\ IF stored # NoKey
       THEN keyPair' = stored /\ call' = [call EXCEPT ![c].stage = "ready", ![c].pair = stored]
       ELSE Goes(c, IF legacy # NoKey THEN "importing" ELSE "generating") /\ UNCHANGED keyPair
    /\ UNCHANGED <<stored, legacy, made, oldPair>> /\ NoKeyFault /\ PadsAside

LoadFailed(c) ==
    /\ call[c].stage = "loading" /\ KeyFault
    /\ Goes(c, IF legacy # NoKey THEN "importing" ELSE "generating")
    /\ UNCHANGED keyVars /\ PadsAside

\* Variant: the old pair is removed before the new place has it.
MigratedAndCleared(c) ==
    /\ call[c].stage = "importing"
    /\ keyPair' = OldKey /\ legacy' = NoKey
    /\ call' = [call EXCEPT ![c].stage = "saving", ![c].migrating = TRUE]
    /\ UNCHANGED <<stored, made, oldPair>> /\ NoKeyFault /\ PadsAside

Migrated(c) ==
    /\ call[c].stage = "importing"
    /\ keyPair' = OldKey
    /\ call' = [call EXCEPT ![c].stage = "saving", ![c].migrating = TRUE]
    /\ UNCHANGED <<stored, legacy, made, oldPair>> /\ NoKeyFault /\ PadsAside

MigrationFailed(c) ==
    /\ call[c].stage = "importing" /\ KeyFault
    /\ Goes(c, "generating")
    /\ UNCHANGED keyVars /\ PadsAside

Generated(c) ==
    /\ call[c].stage = "generating"
    /\ made' = made + 1 /\ keyPair' = OldKey + made + 1
    /\ Goes(c, "saving")
    /\ UNCHANGED <<stored, legacy, oldPair>> /\ NoKeyFault /\ PadsAside

\* Variant: what is stored is the pair this call loaded or generated first.
PutFirst(c) ==
    /\ call[c].stage = "saving"
    /\ stored' = IF stored = NoKey THEN keyPair ELSE stored
    /\ Goes(c, "committing")
    /\ UNCHANGED <<keyPair, legacy, made, oldPair>> /\ NoKeyFault /\ PadsAside

\* The database is open: the transaction puts this.keyPair, as it is by now.
\* Transactions on a store run in the order they were made.
Put(c) ==
    /\ call[c].stage = "saving"
    /\ stored' = keyPair
    /\ Goes(c, "committing")
    /\ UNCHANGED <<keyPair, legacy, made, oldPair>> /\ NoKeyFault /\ PadsAside

\* Only now is the migrated pair removed from localStorage.  The call returns
\* this.keyPair, which another call may have replaced.
Committed(c) ==
    /\ call[c].stage = "committing"
    /\ legacy' = IF call[c].migrating THEN NoKey ELSE legacy
    /\ call' = [call EXCEPT ![c].stage = "ready", ![c].pair = keyPair]
    /\ UNCHANGED <<keyPair, stored, made, oldPair>> /\ NoKeyFault /\ PadsAside

\* Generating, storing, signing or exporting is rejected.
Rejected(c) ==
    /\ call[c].stage \in {"generating", "saving", "ready", "signed"} /\ KeyFault
    /\ IF call[c].what = "sign" THEN Goes(c, "failed") ELSE Ends(c)
    /\ UNCHANGED keyVars /\ PadsAside

\* signData: SubtleCrypto signs with the pair the call got.
Sign(c) ==
    /\ call[c].stage = "ready" /\ call[c].what = "sign"
    /\ Goes(c, "signed")
    /\ UNCHANGED keyVars /\ NoKeyFault /\ PadsAside

\* exportPublicKey for the fingerprint: it is shown, and that is all.
ShowFingerprint(c) ==
    /\ call[c].stage = "ready" /\ call[c].what = "fingerprint"
    /\ Ends(c)
    /\ UNCHANGED keyVars /\ NoKeyFault /\ PadsAside

-----------------------------------------------------------------------------
(* The pad *)

Blank == filled' = FALSE /\ ticked' = FALSE

\* createModal, setupCanvas: a new canvas and a new checkbox; useCryptoSign
\* keeps its value.
OpenPad ==
    /\ pad = 0 /\ pads < MaxPads
    /\ pads' = pads + 1 /\ pad' = pads + 1
    /\ UNCHANGED <<keyVars, call, filled, ticked, useCryptoSign, inserted, keyFaults,
                   padReloads>>

Paper == UNCHANGED <<keyVars, call, pads, pad, ticked, useCryptoSign, inserted, keyFaults,
                     padReloads>>

\* A stroke on the canvas, a name in the field, or the tab that has one.
Fill == pad # 0 /\ ~filled /\ filled' = TRUE /\ Paper

\* The Clear button, the field emptied, or the other tab.
Erase == pad # 0 /\ filled /\ filled' = FALSE /\ Paper

\* Ticking the box asks for the fingerprint of the key.
Tick(c) ==
    /\ pad # 0 /\ ~ticked
    /\ ticked' = TRUE /\ useCryptoSign' = TRUE
    /\ GetOrCreate(c, "fingerprint")
    /\ UNCHANGED <<keyVars, pads, pad, filled, inserted, keyFaults, padReloads>>

Untick ==
    /\ pad # 0 /\ ticked
    /\ ticked' = FALSE /\ useCryptoSign' = FALSE
    /\ UNCHANGED <<keyVars, call, pads, pad, filled, inserted, keyFaults, padReloads>>

ClosePad ==
    /\ pad # 0 /\ pad' = 0 /\ Blank
    /\ UNCHANGED <<keyVars, call, pads, useCryptoSign, inserted, keyFaults, padReloads>>

\* Variant: the callback is kept when it has been called.
HandOverAndKeep(asked, failed, signer, public) ==
    /\ inserted' = IF pad = 0 THEN inserted
                   ELSE inserted \cup {[to |-> pad, asked |-> asked, failed |-> failed,
                                        signer |-> signer, public |-> public]}
    /\ UNCHANGED <<padVars, padReloads>>

\* this.onSave?.(...) and close: the callback that is set by now.
HandOver(asked, failed, signer, public) ==
    /\ inserted' = IF pad = 0 THEN inserted
                   ELSE inserted \cup {[to |-> pad, asked |-> asked, failed |-> failed,
                                        signer |-> signer, public |-> public]}
    /\ pad' = 0 /\ Blank
    /\ UNCHANGED <<pads, useCryptoSign, padReloads>>

InsertUnsigned ==
    /\ pad # 0 /\ filled /\ ~useCryptoSign
    /\ HandOver(ticked, FALSE, NoKey, NoKey)
    /\ UNCHANGED <<keyVars, call, keyFaults>>

\* The image is taken now; the pad stays open while it is being signed.
InsertSigned(c) ==
    /\ pad # 0 /\ filled /\ useCryptoSign
    /\ GetOrCreate(c, "sign")
    /\ UNCHANGED <<keyVars, padVars, inserted, keyFaults, padReloads>>

\* Variant: the public key is exported from the pair in memory.
InsertWithCurrent(c) ==
    /\ call[c].stage = "signed"
    /\ HandOver(call[c].asked, FALSE, call[c].pair, keyPair)
    /\ Ends(c)
    /\ UNCHANGED <<keyVars, keyFaults>>

\* The public key of the pair is exported and the signature handed over.
InsertWhenSigned(c) ==
    /\ call[c].stage = "signed"
    /\ HandOver(call[c].asked, FALSE, call[c].pair, call[c].pair)
    /\ Ends(c)
    /\ UNCHANGED <<keyVars, keyFaults>>

\* When signing failed the image is inserted without.
InsertAnyway(c) ==
    /\ call[c].stage = "failed"
    /\ HandOver(call[c].asked, TRUE, NoKey, NoKey)
    /\ Ends(c)
    /\ UNCHANGED <<keyVars, keyFaults>>

\* The page is reloaded; the two stores remain.
ReloadPad ==
    /\ Trouble /\ padReloads' = padReloads + 1
    /\ keyPair' = NoKey /\ pad' = 0 /\ Blank /\ useCryptoSign' = FALSE
    /\ call' = [c \in Calls |-> IF call[c] = Unused THEN Unused ELSE Spent]
    /\ UNCHANGED <<stored, legacy, made, oldPair, pads, inserted, keyFaults>>

SignaturesNext ==
    \/ OpenPad \/ Fill \/ Erase
    \/ Untick \/ ClosePad \/ InsertUnsigned \/ ReloadPad
    \/ \E c \in Calls :
          \/ Tick(c) \/ InsertSigned(c)
          \/ Loaded(c) \/ LoadFailed(c) \/ Migrated(c) \/ MigrationFailed(c) \/ Generated(c)
          \/ Put(c) \/ Committed(c) \/ Rejected(c)
          \/ Sign(c) \/ ShowFingerprint(c) \/ InsertWhenSigned(c) \/ InsertAnyway(c)

-----------------------------------------------------------------------------
(* Properties *)

InFlight == {c \in Calls : call[c].stage \notin {"unused", "failed", "over"}}

\* The user's key pair survives: unless a step failed, the pair found at first
\* in localStorage or in the database is at every moment, a reload included,
\* in one of the two, and it is what signatures are made with.
KeepsOldPair ==
    oldPair # NoKey /\ keyFaults = 0 =>
        /\ oldPair \in {stored, legacy}
        /\ \A s \in inserted : s.signer \in {NoKey, oldPair}

\* Calls that overlap may generate a pair each and store them in any order;
\* when all have come back the pair in memory is the stored one, so the next
\* session signs with the same key.
StoredIsUsed == InFlight = {} /\ keyFaults = 0 => keyPair \in {NoKey, stored}

\* A signature that was asked for is on the image and verifies with the public
\* key it carries, whatever became of the pair in memory while it was made;
\* only a failing step can leave it out.
SignedAsAsked ==
    \A s \in inserted : s.asked => s.failed \/ (s.signer # NoKey /\ s.signer = s.public)

\* However often Insert is pressed while a signature is being computed, an
\* opening of the pad inserts one signature.
OnePerOpening == \A s, t \in inserted : s.to = t.to => s = t
=============================================================================
