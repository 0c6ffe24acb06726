---------------------------- MODULE OneTimeCodes ----------------------------
(* The e-mailed codes of one user and one purpose: GenerateTwoFACode and     *)
(* VerifyTwoFACode of src/xcm_auth/auth/twofa.go over the table twofa_codes  *)
(* of src/xcm_auth/db/sqlite.go.                                             *)
(*                                                                           *)
(* Every HTTP request has a goroutine.  SQLite has one connection, so a      *)
(* statement is atomic; between two statements of a handler any others run.  *)
EXTENDS Integers, FiniteSets

CONSTANTS
    Requests,     \* requests that may be handled at the same time
    MaxAttempts,  \* cfg.MaxAttempts
    None,
    MaxCodes,     \* bound: codes ever created
    MaxFaults     \* bound: statements that fail

Codes == 1 .. MaxCodes   \* by their id

ASSUME CodesAssumption ==
    /\ IsFiniteSet(Requests)
    /\ MaxAttempts \in Nat \ {0} /\ MaxCodes \in Nat /\ MaxFaults \in Nat
    /\ None \notin Codes

VARIABLES
    made,      \* rows: the codes 1 .. made
    used, expired, attempts,
    accepted,  \* how many verifications each code passed; not in the table
    pc,        \* what the goroutine of a request does next
    found,     \* the row GetActive2FACode returned to it
    faults

vars == <<made, used, expired, attempts, accepted, pc, found, faults>>

TypeOK ==
    /\ made \in 0 .. MaxCodes
    /\ used \in SUBSET Codes /\ expired \in SUBSET Codes
    /\ attempts \in [Codes -> Nat]
    /\ accepted \in [Codes -> Nat]
    /\ pc \in [Requests -> {"idle", "create", "exhausted", "compare"}]
    /\ found \in [Requests -> Codes \cup {None}]
    /\ faults \in Nat

Init ==
    /\ made = 0 /\ used = {} /\ expired = {}
    /\ attempts = [c \in Codes |-> 0] /\ accepted = [c \in Codes |-> 0]
    /\ pc = [r \in Requests |-> "idle"] /\ found = [r \in Requests |-> None]
    /\ faults = 0

-----------------------------------------------------------------------------
Rows == 1 .. made

\* used=0 AND expires_at > now
Active == Rows \ (used \cup expired)

Goes(r, from, to) == pc[r] = from /\ pc' = [pc EXCEPT ![r] = to]

\* A statement that fails has changed nothing; its error is only logged.
Fault == faults < MaxFaults /\ faults' = faults + 1

Stored(change, kept) == (change /\ UNCHANGED faults) \/ (Fault /\ kept)

(* GenerateTwoFACode *)

\* Variant: codes are invalidated only when the new one is stored.
InvalidateNot(r) ==
    /\ Goes(r, "idle", "create")
    /\ UNCHANGED <<made, used, expired, attempts, accepted, found, faults>>

Invalidate(r) ==
    /\ Goes(r, "idle", "create")
    /\ Stored(used' = used \cup Rows, UNCHANGED used)
    /\ UNCHANGED <<made, expired, attempts, accepted, found>>

Create(r) ==
    /\ Goes(r, "create", "idle")
    /\ made < MaxCodes /\ made' = made + 1
    /\ UNCHANGED <<used, expired, attempts, accepted, found, faults>>

\* No random number, or no row: the caller is told.
CreateFails(r) ==
    /\ Goes(r, "create", "idle")
    /\ Fault
    /\ UNCHANGED <<made, used, expired, attempts, accepted, found>>

(* VerifyTwoFACode *)

\* Variant: the attempts are compared after they were incremented.
LookupLate(r, c) ==
    /\ c \in Active
    /\ Goes(r, "idle", IF attempts[c] > MaxAttempts THEN "exhausted" ELSE "compare")
    /\ found' = [found EXCEPT ![r] = c]
    /\ UNCHANGED <<made, used, expired, attempts, accepted, faults>>

\* ORDER BY created_at DESC LIMIT 1: created_at has a resolution of a second,
\* so of several active codes any may come first.  With none, or when the row
\* expires meanwhile, nothing is changed.
Lookup(r, c) ==
    /\ c \in Active
    /\ Goes(r, "idle", IF attempts[c] >= MaxAttempts THEN "exhausted" ELSE "compare")
    /\ found' = [found EXCEPT ![r] = c]
    /\ UNCHANGED <<made, used, expired, attempts, accepted, faults>>

MarkExhausted(r) ==
    /\ Goes(r, "exhausted", "idle")
    /\ Stored(used' = used \cup {found[r]}, UNCHANGED used)
    /\ found' = [found EXCEPT ![r] = None]
    /\ UNCHANGED <<made, expired, attempts, accepted>>

\* Variant: the accepted code is not marked.
AcceptKeeps(r) ==
    /\ Goes(r, "compare", "idle")
    /\ accepted' = [accepted EXCEPT ![found[r]] = @ + 1]
    /\ found' = [found EXCEPT ![r] = None]
    /\ UNCHANGED <<made, used, expired, attempts, faults>>

\* The submitted code is not the one found.
Refuse(r) ==
    /\ Goes(r, "compare", "idle")
    /\ Stored(attempts' = [attempts EXCEPT ![found[r]] = @ + 1], UNCHANGED attempts)
    /\ found' = [found EXCEPT ![r] = None]
    /\ UNCHANGED <<made, used, expired, accepted>>

\* It is; it is accepted also when marking it fails.
Accept(r) ==
    /\ Goes(r, "compare", "idle")
    /\ Stored(used' = used \cup {found[r]}, UNCHANGED used)
    /\ accepted' = [accepted EXCEPT ![found[r]] = @ + 1]
    /\ found' = [found EXCEPT ![r] = None]
    /\ UNCHANGED <<made, expired, attempts>>

Expire(c) ==
    /\ c \in Rows \ expired
    /\ expired' = expired \cup {c}
    /\ UNCHANGED <<made, used, attempts, accepted, pc, found, faults>>

Next ==
    \/ \E r \in Requests :
          \/ Invalidate(r) \/ Create(r) \/ CreateFails(r)
          \/ \E c \in Codes : Lookup(r, c)
          \/ MarkExhausted(r) \/ Refuse(r) \/ Accept(r)
    \/ \E c \in Codes : Expire(c)

Spec == Init /\ [][Next]_vars

-----------------------------------------------------------------------------
(* Properties *)

Creating     == {r \in Requests : pc[r] = "create"}
Comparing(c) == {r \in Requests : pc[r] = "compare" /\ found[r] = c}
Concurrency  == Cardinality(Requests)

\* "only one code is active at a time" (twofa.go:28): invalidating and storing
\* are two statements, so as many codes may be active as requests overlap, and
\* one more for each invalidation that failed.  For requests that come one
\* after the other that is one.
ActiveBounded == Cardinality(Active) + Cardinality(Creating) <= Concurrency + faults

\* The attempt counter is read by the lookup and written after the comparison:
\* overlapping verifications of a code can exceed the limit, but never by more
\* than one for each of them.
AttemptsBounded ==
    \A c \in Codes :
        attempts[c] + Cardinality(Comparing(c)) <= MaxAttempts - 1 + Concurrency

\* A code is consumed by the verification it passes: it passes another one
\* only if that was under way already, or if marking it failed.
AcceptedBounded ==
    \A c \in Codes :
        accepted[c] + Cardinality(Comparing(c)) <= Concurrency + faults
=============================================================================
