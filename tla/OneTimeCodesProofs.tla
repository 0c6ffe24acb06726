------------------------- MODULE OneTimeCodesProofs -------------------------
(* The three bounds of OneTimeCodes hold for any number of requests, codes   *)
(* and failing statements and for every limit of attempts.                   *)
EXTENDS OneTimeCodes, Integers, FiniteSets, FiniteSetTheorems, TLAPS

-----------------------------------------------------------------------------
(* How the size of a finite set compares with that of one with an element    *)
(* more or less.                                                             *)

\* A part of a finite set is finite and has no more elements.
LEMMA PartOf ==
    ASSUME NEW S, IsFiniteSet(S), NEW T, T \subseteq S
    PROVE  IsFiniteSet(T) /\ Cardinality(T) \in Nat /\ Cardinality(S) \in Nat
           /\ Cardinality(T) <= Cardinality(S)
<1>1. T \in SUBSET S
  OBVIOUS
<1>2. IsFiniteSet(T) /\ Cardinality(T) <= Cardinality(S)
  BY <1>1, FS_Subset
<1>3. Cardinality(T) \in Nat /\ Cardinality(S) \in Nat
  BY <1>2, FS_CardinalityType
<1> QED BY <1>2, <1>3

\* Adding at most one element adds at most one.
LEMMA OneMore ==
    ASSUME NEW S, IsFiniteSet(S), NEW x, NEW T, T \subseteq S \cup {x}
    PROVE  IsFiniteSet(T) /\ Cardinality(T) \in Nat /\ Cardinality(S) \in Nat
           /\ Cardinality(T) <= Cardinality(S) + 1
<1>1. IsFiniteSet(S \cup {x}) /\ Cardinality(S \cup {x}) <= Cardinality(S) + 1
  <2>1. Cardinality(S) \in Nat
    BY FS_CardinalityType
  <2> QED BY <2>1, FS_AddElement
<1>2. IsFiniteSet(T) /\ Cardinality(T) <= Cardinality(S \cup {x})
      /\ Cardinality(T) \in Nat /\ Cardinality(S \cup {x}) \in Nat
  BY <1>1, PartOf
<1>3. Cardinality(S) \in Nat
  BY FS_CardinalityType
<1> QED BY <1>1, <1>2, <1>3

\* Taking an element away takes one away.
LEMMA OneLess ==
    ASSUME NEW S, IsFiniteSet(S), NEW x \in S, NEW T, T \subseteq S \ {x}
    PROVE  IsFiniteSet(T) /\ Cardinality(T) \in Nat /\ Cardinality(S) \in Nat
           /\ Cardinality(T) <= Cardinality(S) - 1
<1>1. IsFiniteSet(S \ {x}) /\ Cardinality(S \ {x}) = Cardinality(S) - 1
  BY FS_RemoveElement
<1>2. IsFiniteSet(T) /\ Cardinality(T) <= Cardinality(S \ {x}) /\ Cardinality(T) \in Nat
  BY <1>1, PartOf
<1>3. Cardinality(S) \in Nat
  BY FS_CardinalityType
<1> QED BY <1>1, <1>2, <1>3

-----------------------------------------------------------------------------

\* A goroutine that will write a row has one.
HasRow == \A r \in Requests : pc[r] \in {"exhausted", "compare"} => found[r] \in Codes

\* A code that passed more verifications than there were faults is marked: that
\* is why no further lookup finds it.
Consumed == \A c \in Codes \ used : accepted[c] <= faults

IInv == TypeOK /\ HasRow /\ Consumed /\ ActiveBounded /\ AttemptsBounded /\ AcceptedBounded

\* Sizes of the sets the bounds talk about.
LEMMA Sizes ==
    ASSUME TypeOK
    PROVE  /\ Concurrency \in Nat
           /\ IsFiniteSet(Creating) /\ Cardinality(Creating) \in Nat
           /\ Cardinality(Creating) <= Concurrency
           /\ \A c : /\ IsFiniteSet(Comparing(c)) /\ Cardinality(Comparing(c)) \in Nat
                     /\ Cardinality(Comparing(c)) <= Concurrency
           /\ IsFiniteSet(Active) /\ Cardinality(Active) \in Nat
<1>1. IsFiniteSet(Requests)
  BY CodesAssumption
<1>2. Creating \subseteq Requests /\ \A c : Comparing(c) \subseteq Requests
  BY DEF Creating, Comparing
<1>3. IsFiniteSet(1 .. made)
  BY FS_Interval DEF TypeOK
<1>4. Active \subseteq 1 .. made
  BY DEF Active, Rows
<1>5. IsFiniteSet(Active) /\ Cardinality(Active) \in Nat
  BY <1>3, <1>4, PartOf
<1>6. /\ IsFiniteSet(Creating) /\ Cardinality(Creating) \in Nat
      /\ Concurrency \in Nat /\ Cardinality(Creating) <= Concurrency
  BY <1>1, <1>2, PartOf DEF Concurrency
<1>7. ASSUME NEW c
      PROVE  /\ IsFiniteSet(Comparing(c)) /\ Cardinality(Comparing(c)) \in Nat
             /\ Cardinality(Comparing(c)) <= Concurrency
  BY <1>1, <1>2, PartOf DEF Concurrency
<1> QED BY <1>5, <1>6, <1>7

LEMMA RowsAreCodes == TypeOK => Rows \subseteq Codes
BY CodesAssumption DEF TypeOK, Rows, Codes

LEMMA InitIInv == Init => IInv
<1> SUFFICES ASSUME Init PROVE IInv
  OBVIOUS
<1>1. TypeOK
  BY CodesAssumption DEF Init, TypeOK
<1>2. HasRow /\ Consumed
  BY DEF Init, HasRow, Consumed
<1>3. Active = {} /\ Creating = {} /\ \A c : Comparing(c) = {}
  BY DEF Init, Active, Rows, Creating, Comparing
<1>4. Cardinality({}) = 0
  BY FS_EmptySet
<1>5. Concurrency \in Nat
  BY <1>1, Sizes
<1>6. ActiveBounded /\ AttemptsBounded /\ AcceptedBounded
  BY <1>3, <1>4, <1>5, CodesAssumption DEF Init, ActiveBounded, AttemptsBounded, AcceptedBounded
<1> QED BY <1>1, <1>2, <1>6 DEF IInv

\* What the sets of goroutines become when one of them, in state `from` and
\* with row c, goes on to another state.
LEMMA Moving ==
    ASSUME TypeOK, NEW r \in Requests, NEW from, NEW to, Goes(r, from, to), from # to
    PROVE  /\ from = "create" => r \in Creating /\ Creating' \subseteq Creating \ {r}
           /\ to # "create" => Creating' \subseteq Creating
           /\ Creating' \subseteq Creating \cup {r}
<1>1. \A q \in Requests : q # r => pc'[q] = pc[q]
  BY DEF Goes, TypeOK
<1>2. pc[r] = from /\ pc'[r] = to
  BY DEF Goes, TypeOK
<1> QED BY <1>1, <1>2 DEF Creating

\* The same of the goroutines that compare with a row.
LEMMA Leaves ==
    ASSUME TypeOK, NEW r \in Requests, NEW to, Goes(r, "compare", to), to # "compare",
           \A q \in Requests : q # r => found'[q] = found[q],
           NEW x, found[r] = x
    PROVE  /\ r \in Comparing(x)
           /\ (Comparing(x))' \subseteq Comparing(x) \ {r}
           /\ \A c : (Comparing(c))' \subseteq Comparing(c)
<1>1. \A q \in Requests : q # r => pc'[q] = pc[q]
  BY DEF Goes, TypeOK
<1>2. pc[r] = "compare" /\ pc'[r] # "compare"
  BY DEF Goes, TypeOK
<1> QED BY <1>1, <1>2 DEF Comparing

\* Before and after a step every size is a number, and at most Concurrency
\* goroutines create or compare.
LEMMA Numbers ==
    ASSUME IInv, TypeOK'
    PROVE  /\ Concurrency \in Nat /\ Concurrency' = Concurrency
           /\ faults \in Nat /\ faults' \in Nat
           /\ IsFiniteSet(Active) /\ Cardinality(Active) \in Nat /\ Cardinality(Active') \in Nat
           /\ IsFiniteSet(Creating) /\ Cardinality(Creating) \in Nat
           /\ Cardinality(Creating') \in Nat /\ Cardinality(Creating') <= Concurrency
           /\ \A c \in Codes :
                 /\ attempts[c] \in Nat /\ attempts'[c] \in Nat
                 /\ accepted[c] \in Nat /\ accepted'[c] \in Nat
                 /\ IsFiniteSet(Comparing(c)) /\ Cardinality(Comparing(c)) \in Nat
                 /\ Cardinality((Comparing(c))') \in Nat
                 /\ Cardinality((Comparing(c))') <= Concurrency
<1>1. TypeOK
  BY DEF IInv
<1>2. IsFiniteSet(Requests)
  BY CodesAssumption
<1>3. Concurrency' = Concurrency
  BY DEF Concurrency
<1>4. Cardinality(Active') \in Nat
  <2>1. made' \in Nat
    BY CodesAssumption DEF TypeOK
  <2>2. IsFiniteSet(1 .. made')
    BY <2>1, FS_Interval
  <2>3. Active' \subseteq 1 .. made'
    BY DEF Active, Rows
  <2> QED BY <2>2, <2>3, PartOf
<1>5. Cardinality(Creating') \in Nat /\ Cardinality(Creating') <= Concurrency
  <2>1. Creating' \subseteq Requests
    BY DEF Creating
  <2> QED BY <1>2, <2>1, PartOf DEF Concurrency
<1>6. ASSUME NEW c \in Codes
      PROVE  /\ Cardinality((Comparing(c))') \in Nat
             /\ Cardinality((Comparing(c))') <= Concurrency
  <2>1. (Comparing(c))' \subseteq Requests
    BY DEF Comparing
  <2> QED BY <1>2, <2>1, PartOf DEF Concurrency
<1>7. \A c \in Codes : /\ attempts[c] \in Nat /\ attempts'[c] \in Nat
                       /\ accepted[c] \in Nat /\ accepted'[c] \in Nat
  BY <1>1 DEF TypeOK
<1>8. faults \in Nat /\ faults' \in Nat
  BY <1>1 DEF TypeOK
<1>9. /\ Concurrency \in Nat
      /\ IsFiniteSet(Active) /\ Cardinality(Active) \in Nat
      /\ IsFiniteSet(Creating) /\ Cardinality(Creating) \in Nat
      /\ \A c \in Codes : IsFiniteSet(Comparing(c)) /\ Cardinality(Comparing(c)) \in Nat
  BY <1>1, Sizes
<1> QED BY <1>3, <1>4, <1>5, <1>6, <1>7, <1>8, <1>9

\* What a step must show of one bound at a time: how much the two summands may
\* change.
LEMMA ActiveKept ==
    ASSUME IInv, TypeOK',
           Cardinality(Active') + Cardinality(Creating')
               <= Cardinality(Active) + Cardinality(Creating) + (faults' - faults)
    PROVE  ActiveBounded'
BY Numbers DEF IInv, ActiveBounded

LEMMA AttemptsKept ==
    ASSUME IInv, TypeOK',
           \A c \in Codes :
               attempts'[c] + Cardinality((Comparing(c))')
                   <= attempts[c] + Cardinality(Comparing(c))
    PROVE  AttemptsBounded'
BY Numbers, CodesAssumption DEF IInv, AttemptsBounded

LEMMA AcceptedKept ==
    ASSUME IInv, TypeOK', faults' >= faults,
           \A c \in Codes :
               accepted'[c] + Cardinality((Comparing(c))')
                   <= accepted[c] + Cardinality(Comparing(c))
    PROVE  AcceptedBounded'
BY Numbers DEF IInv, AcceptedBounded

\* A step that lets no code in and no goroutine start keeps all three.
LEMMA Fewer ==
    ASSUME IInv, TypeOK',
           Active' \subseteq Active, Creating' \subseteq Creating,
           \A c \in Codes : (Comparing(c))' \subseteq Comparing(c),
           faults' >= faults,
           UNCHANGED <<attempts, accepted>>
    PROVE  ActiveBounded' /\ AttemptsBounded' /\ AcceptedBounded'
<1>1. /\ Cardinality(Active') <= Cardinality(Active)
      /\ Cardinality(Creating') <= Cardinality(Creating)
  BY Numbers, PartOf
<1>2. \A c \in Codes : Cardinality((Comparing(c))') <= Cardinality(Comparing(c))
  BY Numbers, PartOf
<1>3. ActiveBounded'
  BY <1>1, Numbers, ActiveKept
<1>4. AttemptsBounded'
  BY <1>2, Numbers, AttemptsKept
<1>5. AcceptedBounded'
  BY <1>2, Numbers, AcceptedKept
<1> QED BY <1>3, <1>4, <1>5

LEMMA InvalidateKeeps ==
    ASSUME IInv, NEW r \in Requests, Invalidate(r) PROVE IInv'
<1>1. Goes(r, "idle", "create") /\ UNCHANGED <<made, expired, attempts, accepted, found>>
  BY DEF Invalidate
<1>2. \/ used' = used \cup Rows /\ faults' = faults
      \/ used' = used /\ faults' = faults + 1
  BY DEF Invalidate, Stored, Fault
<1>3. TypeOK'
  <2>1. used' \in SUBSET Codes /\ faults' \in Nat
    BY <1>2, RowsAreCodes DEF IInv, TypeOK
  <2>2. pc' \in [Requests -> {"idle", "create", "exhausted", "compare"}]
    BY <1>1 DEF IInv, TypeOK, Goes
  <2> QED BY <1>1, <2>1, <2>2 DEF IInv, TypeOK
<1>4. HasRow'
  BY <1>1 DEF IInv, TypeOK, Goes, HasRow
<1>5. Consumed'
  BY <1>1, <1>2 DEF IInv, TypeOK, Consumed
<1>6. ActiveBounded'
  <2>1. CASE used' = used \cup Rows /\ faults' = faults
    <3>1. Active' = {}
      BY <1>1, <2>1 DEF Active, Rows
    <3> QED BY <3>1, <1>3, Numbers, FS_EmptySet DEF ActiveBounded
  <2>2. CASE used' = used /\ faults' = faults + 1
    <3>1. Active' = Active
      BY <1>1, <2>2 DEF Active, Rows
    <3>2. Creating' \subseteq Creating \cup {r}
      BY <1>1, Moving DEF IInv
    <3>3. Cardinality(Creating') <= Cardinality(Creating) + 1
      BY <3>2, <1>3, Numbers, OneMore
    <3> QED BY <3>1, <3>3, <1>3, <2>2, Numbers, ActiveKept
  <2> QED BY <1>2, <2>1, <2>2
<1>7. \A c \in Codes : (Comparing(c))' \subseteq Comparing(c)
  BY <1>1 DEF IInv, TypeOK, Goes, Comparing
<1>8. \A c \in Codes : Cardinality((Comparing(c))') <= Cardinality(Comparing(c))
  BY <1>3, <1>7, Numbers, PartOf
<1>9. AttemptsBounded'
  BY <1>1, <1>3, <1>8, Numbers, AttemptsKept
<1>10. AcceptedBounded'
  BY <1>1, <1>2, <1>3, <1>8, Numbers, AcceptedKept
<1> QED BY <1>3, <1>4, <1>5, <1>6, <1>9, <1>10 DEF IInv

LEMMA CreateKeeps ==
    ASSUME IInv, NEW r \in Requests, Create(r) PROVE IInv'
<1>1. /\ Goes(r, "create", "idle") /\ made' = made + 1 /\ made < MaxCodes
      /\ UNCHANGED <<used, expired, attempts, accepted, found, faults>>
  BY DEF Create
<1>2. TypeOK'
  <2>1. made' \in 0 .. MaxCodes
    BY <1>1, CodesAssumption DEF IInv, TypeOK
  <2>2. pc' \in [Requests -> {"idle", "create", "exhausted", "compare"}]
    BY <1>1 DEF IInv, TypeOK, Goes
  <2> QED BY <1>1, <2>1, <2>2 DEF IInv, TypeOK
<1>3. HasRow'
  BY <1>1 DEF IInv, TypeOK, Goes, HasRow
<1>4. Consumed'
  BY <1>1 DEF IInv, Consumed
<1>5. ActiveBounded'
  <2>1. Active' \subseteq Active \cup {made + 1}
    BY <1>1, CodesAssumption DEF Active, Rows, IInv, TypeOK
  <2>2. Cardinality(Active') <= Cardinality(Active) + 1
    BY <2>1, <1>2, Numbers, OneMore
  <2>3. r \in Creating /\ Creating' \subseteq Creating \ {r}
    BY <1>1, Moving DEF IInv
  <2>4. Cardinality(Creating') + 1 <= Cardinality(Creating)
    BY <2>3, <1>2, Numbers, OneLess
  <2> QED BY <1>1, <2>2, <2>4, <1>2, Numbers, ActiveKept
<1>6. \A c \in Codes : (Comparing(c))' \subseteq Comparing(c)
  BY <1>1 DEF IInv, TypeOK, Goes, Comparing
<1>7. \A c \in Codes : Cardinality((Comparing(c))') <= Cardinality(Comparing(c))
  BY <1>2, <1>6, Numbers, PartOf
<1>8. AttemptsBounded'
  BY <1>1, <1>2, <1>7, Numbers, AttemptsKept
<1>9. AcceptedBounded'
  BY <1>1, <1>2, <1>7, Numbers, AcceptedKept
<1> QED BY <1>2, <1>3, <1>4, <1>5, <1>8, <1>9 DEF IInv

LEMMA CreateFailsKeeps ==
    ASSUME IInv, NEW r \in Requests, CreateFails(r) PROVE IInv'
<1>1. /\ Goes(r, "create", "idle") /\ faults' = faults + 1
      /\ UNCHANGED <<made, used, expired, attempts, accepted, found>>
  BY DEF CreateFails, Fault
<1>2. TypeOK'
  <2>1. pc' \in [Requests -> {"idle", "create", "exhausted", "compare"}]
    BY <1>1 DEF IInv, TypeOK, Goes
  <2> QED BY <1>1, <2>1 DEF IInv, TypeOK
<1>3. HasRow'
  BY <1>1 DEF IInv, TypeOK, Goes, HasRow
<1>4. Consumed'
  BY <1>1 DEF IInv, TypeOK, Consumed
<1>5. Active' = Active
  BY <1>1 DEF Active, Rows
<1>6. Creating' \subseteq Creating
  BY <1>1, Moving DEF IInv
<1>7. \A c \in Codes : (Comparing(c))' \subseteq Comparing(c)
  BY <1>1 DEF IInv, TypeOK, Goes, Comparing
<1>8. ActiveBounded' /\ AttemptsBounded' /\ AcceptedBounded'
  BY <1>1, <1>2, <1>5, <1>6, <1>7, Numbers, Fewer
<1> QED BY <1>2, <1>3, <1>4, <1>8 DEF IInv

LEMMA LookupKeeps ==
    ASSUME IInv, NEW r \in Requests, NEW c \in Codes, Lookup(r, c) PROVE IInv'
<1>1. /\ found' = [found EXCEPT ![r] = c]
      /\ UNCHANGED <<made, used, expired, attempts, accepted, faults>>
      /\ c \notin used
  BY DEF Lookup, Active
<1>2. \/ Goes(r, "idle", "exhausted")
      \/ Goes(r, "idle", "compare") /\ ~ (attempts[c] >= MaxAttempts)
  BY DEF Lookup
<1>3. TypeOK'
  <2>1. pc' \in [Requests -> {"idle", "create", "exhausted", "compare"}]
    BY <1>2 DEF IInv, TypeOK, Goes
  <2>2. found' \in [Requests -> Codes \cup {None}]
    BY <1>1 DEF IInv, TypeOK
  <2> QED BY <1>1, <2>1, <2>2 DEF IInv, TypeOK
<1>4. HasRow'
  BY <1>1, <1>2 DEF IInv, TypeOK, Goes, HasRow
<1>5. Consumed'
  BY <1>1 DEF IInv, Consumed
<1>6. Active' = Active /\ Creating' \subseteq Creating
  BY <1>1, <1>2, Moving DEF IInv, Active, Rows
<1>7. ActiveBounded'
  BY <1>1, <1>3, <1>6, Numbers, PartOf, ActiveKept
<1>8. \A x \in Codes : x # c => (Comparing(x))' \subseteq Comparing(x)
  BY <1>1, <1>2 DEF IInv, TypeOK, Goes, Comparing
<1>9. \A x \in Codes : x # c => Cardinality((Comparing(x))') <= Cardinality(Comparing(x))
  BY <1>3, <1>8, Numbers, PartOf
<1>10. CASE Goes(r, "idle", "exhausted")
  <2>1. (Comparing(c))' \subseteq Comparing(c)
    BY <1>1, <1>10 DEF IInv, TypeOK, Goes, Comparing
  <2>2. \A x \in Codes : (Comparing(x))' \subseteq Comparing(x)
    BY <1>8, <2>1
  <2>3. AttemptsBounded' /\ AcceptedBounded'
    BY <1>1, <1>3, <1>6, <2>2, Numbers, Fewer
  <2> QED BY <1>3, <1>4, <1>5, <1>7, <2>3 DEF IInv
<1>11. CASE ~ (attempts[c] >= MaxAttempts)
  <2>1. attempts[c] <= MaxAttempts - 1
    BY <1>3, <1>11, Numbers, CodesAssumption
  <2>2. accepted[c] <= faults
    BY <1>1 DEF IInv, Consumed
  <2>3. AttemptsBounded'
    BY <1>1, <1>3, <1>9, <2>1, Numbers, CodesAssumption DEF IInv, AttemptsBounded
  <2>4. AcceptedBounded'
    BY <1>1, <1>3, <1>9, <2>2, Numbers DEF IInv, AcceptedBounded
  <2> QED BY <1>3, <1>4, <1>5, <1>7, <2>3, <2>4 DEF IInv
<1> QED BY <1>2, <1>10, <1>11

LEMMA MarkExhaustedKeeps ==
    ASSUME IInv, NEW r \in Requests, MarkExhausted(r) PROVE IInv'
<1>1. /\ Goes(r, "exhausted", "idle") /\ found' = [found EXCEPT ![r] = None]
      /\ UNCHANGED <<made, expired, attempts, accepted>>
  BY DEF MarkExhausted
<1>2. \/ used' = used \cup {found[r]} /\ faults' = faults
      \/ used' = used /\ faults' = faults + 1
  BY DEF MarkExhausted, Stored, Fault
<1>3. TypeOK'
  <2>1. found[r] \in Codes
    BY <1>1 DEF IInv, HasRow, Goes
  <2>2. used' \in SUBSET Codes /\ faults' \in Nat
    BY <1>2, <2>1 DEF IInv, TypeOK
  <2>3. pc' \in [Requests -> {"idle", "create", "exhausted", "compare"}]
    BY <1>1 DEF IInv, TypeOK, Goes
  <2>4. found' \in [Requests -> Codes \cup {None}]
    BY <1>1 DEF IInv, TypeOK
  <2> QED BY <1>1, <2>2, <2>3, <2>4 DEF IInv, TypeOK
<1>4. HasRow'
  BY <1>1 DEF IInv, TypeOK, Goes, HasRow
<1>5. Consumed'
  BY <1>1, <1>2 DEF IInv, TypeOK, Consumed
<1>6. Active' \subseteq Active
  BY <1>1, <1>2 DEF Active, Rows
<1>7. Creating' \subseteq Creating
  BY <1>1, Moving DEF IInv
<1>8. \A c \in Codes : (Comparing(c))' \subseteq Comparing(c)
  BY <1>1, CodesAssumption DEF IInv, TypeOK, Goes, Comparing
<1>9. faults' >= faults
  BY <1>2, <1>3, Numbers
<1>10. ActiveBounded' /\ AttemptsBounded' /\ AcceptedBounded'
  BY <1>1, <1>3, <1>6, <1>7, <1>8, <1>9, Fewer
<1> QED BY <1>3, <1>4, <1>5, <1>10 DEF IInv

LEMMA RefuseKeeps ==
    ASSUME IInv, NEW r \in Requests, Refuse(r) PROVE IInv'
<1>a. found[r] \in Codes
  BY DEF IInv, HasRow, Goes, Refuse
<1>x. PICK x \in Codes : found[r] = x
  BY <1>a
<1>1. /\ Goes(r, "compare", "idle") /\ found' = [found EXCEPT ![r] = None]
      /\ UNCHANGED <<made, used, expired, accepted>>
  BY DEF Refuse
<1>2. \/ attempts' = [attempts EXCEPT ![x] = @ + 1] /\ faults' = faults
      \/ attempts' = attempts /\ faults' = faults + 1
  BY <1>x DEF Refuse, Stored, Fault
<1>4. TypeOK'
  <2>1. attempts' \in [Codes -> Nat] /\ faults' \in Nat
    BY <1>2, <1>x DEF IInv, TypeOK
  <2>2. pc' \in [Requests -> {"idle", "create", "exhausted", "compare"}]
    BY <1>1 DEF IInv, TypeOK, Goes
  <2>3. found' \in [Requests -> Codes \cup {None}]
    BY <1>1 DEF IInv, TypeOK
  <2> QED BY <1>1, <2>1, <2>2, <2>3 DEF IInv, TypeOK
<1>5. HasRow'
  BY <1>1 DEF IInv, TypeOK, Goes, HasRow
<1>6. faults' >= faults
  BY <1>2, <1>4, Numbers
<1>7. Consumed'
  BY <1>1, <1>4, <1>6, Numbers DEF IInv, Consumed
<1>8. Active' = Active /\ Creating' \subseteq Creating
  BY <1>1, Moving DEF IInv, Active, Rows
<1>9. ActiveBounded'
  BY <1>4, <1>6, <1>8, Numbers, PartOf, ActiveKept
<1>10. /\ r \in Comparing(x) /\ (Comparing(x))' \subseteq Comparing(x) \ {r}
       /\ \A c : (Comparing(c))' \subseteq Comparing(c)
  <2>1. \A q \in Requests : q # r => found'[q] = found[q]
    BY <1>1 DEF IInv, TypeOK
  <2> QED BY <1>1, <1>x, <2>1, Leaves DEF IInv
<1>11. Cardinality((Comparing(x))') <= Cardinality(Comparing(x)) - 1
  BY <1>x, <1>4, <1>10, Numbers, OneLess
<1>12. \A c \in Codes : Cardinality((Comparing(c))') <= Cardinality(Comparing(c))
  BY <1>4, <1>10, Numbers, PartOf
<1>13. \A c \in Codes : \/ attempts'[c] = attempts[c]
                        \/ c = x /\ attempts'[c] = attempts[c] + 1
  BY <1>2, <1>x DEF IInv, TypeOK
<1>14. AttemptsBounded'
  <2>1. ASSUME NEW c \in Codes
        PROVE  attempts'[c] + Cardinality((Comparing(c))')
                   <= attempts[c] + Cardinality(Comparing(c))
    BY <1>4, <1>11, <1>12, <1>13, Numbers
  <2> QED BY <1>4, <2>1, AttemptsKept
<1>15. AcceptedBounded'
  BY <1>1, <1>4, <1>6, <1>12, Numbers, AcceptedKept
<1> QED BY <1>4, <1>5, <1>7, <1>9, <1>14, <1>15 DEF IInv

LEMMA AcceptingKeeps ==
    ASSUME IInv, NEW r \in Requests, Accept(r) PROVE IInv'
<1>a. found[r] \in Codes
  BY DEF IInv, HasRow, Goes, Accept
<1>x. PICK x \in Codes : found[r] = x
  BY <1>a
<1>1. /\ Goes(r, "compare", "idle") /\ found' = [found EXCEPT ![r] = None]
      /\ accepted' = [accepted EXCEPT ![x] = @ + 1]
      /\ UNCHANGED <<made, expired, attempts>>
  BY <1>x DEF Accept
<1>2. \/ used' = used \cup {x} /\ faults' = faults
      \/ used' = used /\ faults' = faults + 1
  BY <1>x DEF Accept, Stored, Fault
<1>4. TypeOK'
  <2>1. used' \in SUBSET Codes /\ faults' \in Nat
    BY <1>2, <1>x DEF IInv, TypeOK
  <2>2. accepted' \in [Codes -> Nat]
    BY <1>1, <1>x DEF IInv, TypeOK
  <2>3. pc' \in [Requests -> {"idle", "create", "exhausted", "compare"}]
    BY <1>1 DEF IInv, TypeOK, Goes
  <2>4. found' \in [Requests -> Codes \cup {None}]
    BY <1>1 DEF IInv, TypeOK
  <2> QED BY <1>1, <2>1, <2>2, <2>3, <2>4 DEF IInv, TypeOK
<1>5. HasRow'
  BY <1>1 DEF IInv, TypeOK, Goes, HasRow
<1>6. \A c \in Codes : \/ accepted'[c] = accepted[c]
                       \/ c = x /\ accepted'[c] = accepted[c] + 1
  BY <1>1, <1>x DEF IInv, TypeOK
<1>7. Consumed'
  <2>1. ASSUME NEW c \in Codes \ used' PROVE accepted'[c] <= faults'
    <3>1. c \notin used /\ (c = x => faults' = faults + 1)
      BY <1>2, <2>1
    <3>2. accepted[c] <= faults
      BY <3>1 DEF IInv, Consumed
    <3> QED BY <1>2, <1>4, <1>6, <3>1, <3>2, Numbers
  <2> QED BY <2>1 DEF Consumed
<1>8. Active' \subseteq Active /\ Creating' \subseteq Creating
  BY <1>1, <1>2, Moving DEF IInv, Active, Rows
<1>9. faults' >= faults
  BY <1>2, <1>4, Numbers
<1>10. ActiveBounded'
  <2>1. /\ Cardinality(Active') <= Cardinality(Active)
        /\ Cardinality(Creating') <= Cardinality(Creating)
    BY <1>4, <1>8, Numbers, PartOf
  <2> QED BY <1>4, <1>9, <2>1, Numbers, ActiveKept
<1>11. /\ r \in Comparing(x) /\ (Comparing(x))' \subseteq Comparing(x) \ {r}
       /\ \A c : (Comparing(c))' \subseteq Comparing(c)
  <2>1. \A q \in Requests : q # r => found'[q] = found[q]
    BY <1>1 DEF IInv, TypeOK
  <2> QED BY <1>1, <1>x, <2>1, Leaves DEF IInv
<1>12. Cardinality((Comparing(x))') <= Cardinality(Comparing(x)) - 1
  BY <1>x, <1>4, <1>11, Numbers, OneLess
<1>13. \A c \in Codes : Cardinality((Comparing(c))') <= Cardinality(Comparing(c))
  BY <1>4, <1>11, Numbers, PartOf
<1>14. AttemptsBounded'
  BY <1>1, <1>4, <1>13, Numbers, AttemptsKept
<1>15. AcceptedBounded'
  <2>1. ASSUME NEW c \in Codes
        PROVE  accepted'[c] + Cardinality((Comparing(c))')
                   <= accepted[c] + Cardinality(Comparing(c))
    BY <1>4, <1>6, <1>12, <1>13, Numbers
  <2> QED BY <1>4, <1>9, <2>1, AcceptedKept
<1> QED BY <1>4, <1>5, <1>7, <1>10, <1>14, <1>15 DEF IInv

LEMMA ExpireKeeps ==
    ASSUME IInv, NEW c \in Codes, Expire(c) PROVE IInv'
<1>1. /\ expired' = expired \cup {c}
      /\ UNCHANGED <<made, used, attempts, accepted, pc, found, faults>>
  BY DEF Expire
<1>2. TypeOK'
  BY <1>1 DEF IInv, TypeOK
<1>3. HasRow' /\ Consumed'
  BY <1>1 DEF IInv, HasRow, Consumed
<1>4. Active' \subseteq Active /\ Creating' = Creating /\ \A d : (Comparing(d))' = Comparing(d)
  BY <1>1 DEF Active, Rows, Creating, Comparing
<1>5. ActiveBounded' /\ AttemptsBounded' /\ AcceptedBounded'
  BY <1>1, <1>2, <1>4, Numbers, Fewer
<1> QED BY <1>2, <1>3, <1>5 DEF IInv

LEMMA Stutter == ASSUME IInv, UNCHANGED vars PROVE IInv'
BY DEF IInv, vars, TypeOK, HasRow, Consumed, ActiveBounded, AttemptsBounded,
       AcceptedBounded, Active, Rows, Creating, Comparing, Concurrency

\* The conjunction is inductive: every state of every behaviour satisfies it.
THEOREM Inductive == Spec => []IInv
<1>1. IInv /\ [Next]_vars => IInv'
  <2> SUFFICES ASSUME IInv, [Next]_vars PROVE IInv'
    OBVIOUS
  <2>1. ASSUME NEW r \in Requests, Invalidate(r) PROVE IInv'
    BY <2>1, InvalidateKeeps
  <2>2. ASSUME NEW r \in Requests, Create(r) PROVE IInv'
    BY <2>2, CreateKeeps
  <2>3. ASSUME NEW r \in Requests, CreateFails(r) PROVE IInv'
    BY <2>3, CreateFailsKeeps
  <2>4. ASSUME NEW r \in Requests, NEW c \in Codes, Lookup(r, c) PROVE IInv'
    BY <2>4, LookupKeeps
  <2>5. ASSUME NEW r \in Requests, MarkExhausted(r) PROVE IInv'
    BY <2>5, MarkExhaustedKeeps
  <2>6. ASSUME NEW r \in Requests, Refuse(r) PROVE IInv'
    BY <2>6, RefuseKeeps
  <2>7. ASSUME NEW r \in Requests, Accept(r) PROVE IInv'
    BY <2>7, AcceptingKeeps
  <2>8. ASSUME NEW c \in Codes, Expire(c) PROVE IInv'
    BY <2>8, ExpireKeeps
  <2>9. CASE UNCHANGED vars
    BY <2>9, Stutter
  <2> QED BY <2>1, <2>2, <2>3, <2>4, <2>5, <2>6, <2>7, <2>8, <2>9 DEF Next
<1> QED BY InitIInv, <1>1, PTL DEF Spec

\* Every variable keeps its type.
THEOREM TypeCorrect == Spec => []TypeOK
<1>1. IInv => TypeOK
  BY DEF IInv
<1> QED BY Inductive, <1>1, PTL

\* At most as many codes are active as requests overlap, and one more for each
\* statement that failed (twofa.go:30).
THEOREM FewActive == Spec => []ActiveBounded
<1>1. IInv => ActiveBounded
  BY DEF IInv
<1> QED BY Inductive, <1>1, PTL

\* The limit of attempts is exceeded by fewer than the overlapping requests
\* (twofa.go:97).
THEOREM FewAttempts == Spec => []AttemptsBounded
<1>1. IInv => AttemptsBounded
  BY DEF IInv
<1> QED BY Inductive, <1>1, PTL

\* A code is accepted at most once per overlapping request and per statement
\* that failed (twofa.go:118).
THEOREM FewAccepted == Spec => []AcceptedBounded
<1>1. IInv => AcceptedBounded
  BY DEF IInv
<1> QED BY Inductive, <1>1, PTL
=============================================================================
