----------------------------- MODULE ToolsProofs -----------------------------
(* Proofs about the programs around the editor.                              *)
EXTENDS Tools, SequenceTheorems, FiniteSetTheorems, TLAPS

\* A finite set of integers that is not empty has a largest element,
LEMMA Largest ==
    ASSUME NEW S, IsFiniteSet(S), S \subseteq Int, S # {}
    PROVE  \E m \in S : \A k \in S : k <= m
<1> DEFINE Up(m) == {k \in S : k >= m}
           Ups == {Up(m) : m \in S}
<1>1. Ups \subseteq FiniteSubsetsOf(S)
  <2> SUFFICES ASSUME NEW m \in S PROVE Up(m) \in FiniteSubsetsOf(S)
    OBVIOUS
  <2>1. Up(m) \in SUBSET S
    OBVIOUS
  <2> QED BY <2>1, FS_Subset DEF FiniteSubsetsOf
<1>2. Ups # {}
  OBVIOUS
<1>3. PICK x \in Ups : \A y \in Ups : <<y, x>> \notin StrictSubsetOrdering(S)
  BY <1>1, <1>2, FS_StrictSubsetOrderingWellFounded, WFMin
<1>4. PICK m \in S : x = Up(m)
  BY <1>3
<1>5. ASSUME NEW k \in S PROVE k <= m
  <2> SUFFICES ASSUME k > m PROVE FALSE
    BY <1>5
  <2>0. m \in Int /\ k \in Int /\ \A j \in S : j \in Int
    BY <1>4
  <2>a. \A j \in S : j >= k => j >= m
    BY <2>0
  <2>b. m >= m /\ ~(m >= k)
    BY <2>0
  <2>1. Up(k) \subseteq x /\ m \in x /\ m \notin Up(k)
    BY <2>a, <2>b, <1>4
  <2>2. Up(k) \in Ups /\ Up(k) \in SUBSET S /\ x \in SUBSET S /\ Up(k) # x
    BY <2>1, <1>4
  <2>3. <<Up(k), x>> \in StrictSubsetOrdering(S)
    BY <2>1, <2>2 DEF StrictSubsetOrdering
  <2> QED BY <2>2, <2>3, <1>3
<1> QED BY <1>5

\* and a smallest.
LEMMA Smallest ==
    ASSUME NEW S, IsFiniteSet(S), S \subseteq Int, S # {}
    PROVE  \E m \in S : \A k \in S : m <= k
<1> DEFINE Down(m) == {k \in S : k <= m}
           Downs == {Down(m) : m \in S}
<1>1. Downs \subseteq FiniteSubsetsOf(S)
  <2> SUFFICES ASSUME NEW m \in S PROVE Down(m) \in FiniteSubsetsOf(S)
    OBVIOUS
  <2>1. Down(m) \in SUBSET S
    OBVIOUS
  <2> QED BY <2>1, FS_Subset DEF FiniteSubsetsOf
<1>2. Downs # {}
  OBVIOUS
<1>3. PICK x \in Downs : \A y \in Downs : <<y, x>> \notin StrictSubsetOrdering(S)
  BY <1>1, <1>2, FS_StrictSubsetOrderingWellFounded, WFMin
<1>4. PICK m \in S : x = Down(m)
  BY <1>3
<1>5. ASSUME NEW k \in S PROVE m <= k
  <2> SUFFICES ASSUME k < m PROVE FALSE
    BY <1>5
  <2>0. m \in Int /\ k \in Int /\ \A j \in S : j \in Int
    BY <1>4
  <2>a. \A j \in S : j <= k => j <= m
    BY <2>0
  <2>b. m <= m /\ ~(m <= k)
    BY <2>0
  <2>1. Down(k) \subseteq x /\ m \in x /\ m \notin Down(k)
    BY <2>a, <2>b, <1>4
  <2>2. Down(k) \in Downs /\ Down(k) \in SUBSET S /\ x \in SUBSET S /\ Down(k) # x
    BY <2>1, <1>4
  <2>3. <<Down(k), x>> \in StrictSubsetOrdering(S)
    BY <2>1, <2>2 DEF StrictSubsetOrdering
  <2> QED BY <2>2, <2>3, <1>3
<1> QED BY <1>5

\* A part of a sequence.
LEMMA PartOfSeq ==
    ASSUME NEW T, NEW s, NEW m, NEW n,
           s \in Seq(T), m \in Nat \ {0}, n \in Nat, n <= Len(s), m <= n + 1
    PROVE  /\ SubSeq(s, m, n) \in Seq(T) /\ Len(SubSeq(s, m, n)) = n - m + 1
           /\ \A i \in 1 .. n - m + 1 : SubSeq(s, m, n)[i] = s[m + i - 1]
<1>1. \A i \in m .. n : s[i] \in T
  <2>1. Len(s) \in Nat
    BY LenProperties
  <2>2. \A i \in m .. n : i \in 1 .. Len(s)
    BY <2>1
  <2> QED BY <2>2, ElementOfSeq
<1>2. /\ SubSeq(s, m, n) \in Seq(T)
      /\ Len(SubSeq(s, m, n)) = IF m <= n THEN n - m + 1 ELSE 0
      /\ \A i \in 1 .. n - m + 1 : SubSeq(s, m, n)[i] = s[m + i - 1]
  BY <1>1, SubSeqProperties
<1> QED BY <1>2

\* A sequence without one of its elements, and
LEMMA RemoveAtElements ==
    ASSUME NEW T, NEW s \in Seq(T), NEW i \in 1 .. Len(s)
    PROVE  /\ RemoveAt(s, i) \in Seq(T) /\ Len(RemoveAt(s, i)) = Len(s) - 1
           /\ \A j \in 1 .. Len(s) - 1 : RemoveAt(s, i)[j] = IF j < i THEN s[j] ELSE s[j + 1]
<1>1. PICK n \in Nat : n = Len(s)
  BY LenProperties
<1>2. i \in 1 .. n /\ i - 1 \in Nat /\ i + 1 \in Nat \ {0}
  BY <1>1
<1>3. PICK a : a = SubSeq(s, 1, i - 1)
  OBVIOUS
<1>4. PICK b : b = SubSeq(s, i + 1, n)
  OBVIOUS
<1>5. a \in Seq(T) /\ Len(a) = i - 1 /\ \A j \in 1 .. i - 1 : a[j] = s[j]
  <2>1. /\ a \in Seq(T) /\ Len(a) = i - 1 - 1 + 1
        /\ \A j \in 1 .. i - 1 - 1 + 1 : a[j] = s[1 + j - 1]
    BY <1>1, <1>2, <1>3, PartOfSeq
  <2> QED BY <1>2, <2>1
<1>6. b \in Seq(T) /\ Len(b) = n - i /\ \A j \in 1 .. n - i : b[j] = s[i + j]
  <2>1. /\ b \in Seq(T) /\ Len(b) = n - (i + 1) + 1
        /\ \A j \in 1 .. n - (i + 1) + 1 : b[j] = s[(i + 1) + j - 1]
    BY <1>1, <1>2, <1>4, PartOfSeq
  <2> QED BY <1>2, <2>1
<1>7. /\ a \o b \in Seq(T) /\ Len(a \o b) = Len(a) + Len(b)
      /\ \A j \in 1 .. Len(a) + Len(b) : (a \o b)[j] = IF j <= Len(a) THEN a[j] ELSE b[j - Len(a)]
  BY <1>5, <1>6, ConcatProperties
<1>8. ASSUME NEW j \in 1 .. n - 1 PROVE (a \o b)[j] = IF j < i THEN s[j] ELSE s[j + 1]
  <2>1. (a \o b)[j] = IF j <= i - 1 THEN a[j] ELSE b[j - (i - 1)]
    BY <1>2, <1>5, <1>6, <1>7
  <2>2. CASE j < i
    BY <1>2, <1>5, <2>1, <2>2
  <2>3. CASE ~(j < i)
    <3>1. j - (i - 1) \in 1 .. n - i /\ i + (j - (i - 1)) = j + 1 /\ ~(j <= i - 1)
      BY <1>2, <2>3
    <3> QED BY <1>6, <2>1, <2>3, <3>1
  <2> QED BY <2>2, <2>3
<1>9. RemoveAt(s, i) = a \o b
  BY <1>1, <1>3, <1>4 DEF RemoveAt
<1>10. Len(a) + Len(b) = n - 1
  BY <1>2, <1>5, <1>6
<1> QED BY <1>1, <1>7, <1>8, <1>9, <1>10

\* with one more.
LEMMA InsertAtElements ==
    ASSUME NEW T, NEW s \in Seq(T), NEW i \in 1 .. Len(s) + 1, NEW e \in T
    PROVE  /\ InsertAt(s, i, e) \in Seq(T) /\ Len(InsertAt(s, i, e)) = Len(s) + 1
           /\ \A j \in 1 .. Len(s) + 1 :
                  InsertAt(s, i, e)[j] = IF j < i THEN s[j] ELSE IF j = i THEN e ELSE s[j - 1]
<1>1. PICK n \in Nat : n = Len(s)
  BY LenProperties
<1>2. i \in 1 .. n + 1 /\ i - 1 \in Nat /\ i \in Nat \ {0}
  BY <1>1
<1>3. PICK a : a = SubSeq(s, 1, i - 1)
  OBVIOUS
<1>4. PICK b : b = SubSeq(s, i, n)
  OBVIOUS
<1>5. a \in Seq(T) /\ Len(a) = i - 1 /\ \A j \in 1 .. i - 1 : a[j] = s[j]
  <2>1. /\ a \in Seq(T) /\ Len(a) = i - 1 - 1 + 1
        /\ \A j \in 1 .. i - 1 - 1 + 1 : a[j] = s[1 + j - 1]
    BY <1>1, <1>2, <1>3, PartOfSeq
  <2> QED BY <1>2, <2>1
<1>6. b \in Seq(T) /\ Len(b) = n - i + 1 /\ \A j \in 1 .. n - i + 1 : b[j] = s[i + j - 1]
  BY <1>1, <1>2, <1>4, PartOfSeq
<1>7. PICK c : c = a \o <<e>>
  OBVIOUS
<1>8. /\ c \in Seq(T) /\ Len(c) = i
      /\ \A j \in 1 .. i : c[j] = IF j < i THEN s[j] ELSE e
  <2>1. c = Append(a, e)
    BY <1>5, <1>7, AppendIsConcat
  <2>2. /\ c \in Seq(T) /\ Len(c) = i - 1 + 1 /\ c[i - 1 + 1] = e
        /\ \A j \in 1 .. i - 1 : c[j] = a[j]
    BY <1>5, <2>1, AppendProperties
  <2> QED BY <1>2, <1>5, <2>2
<1>9. /\ c \o b \in Seq(T) /\ Len(c \o b) = Len(c) + Len(b)
      /\ \A j \in 1 .. Len(c) + Len(b) : (c \o b)[j] = IF j <= Len(c) THEN c[j] ELSE b[j - Len(c)]
  BY <1>6, <1>8, ConcatProperties
<1>10. Len(c) + Len(b) = n + 1
  BY <1>2, <1>6, <1>8, SMTT(30)
<1>11. ASSUME NEW j \in 1 .. n + 1
       PROVE  (c \o b)[j] = IF j < i THEN s[j] ELSE IF j = i THEN e ELSE s[j - 1]
  <2>1. (c \o b)[j] = IF j <= i THEN c[j] ELSE b[j - i]
    BY <1>8, <1>9, <1>10
  <2>2. CASE j <= i
    BY <1>2, <1>8, <2>1, <2>2
  <2>3. CASE ~(j <= i)
    <3>1. j - i \in 1 .. n - i + 1 /\ i + (j - i) - 1 = j - 1 /\ ~(j < i) /\ j # i
      BY <1>2, <2>3
    <3> QED BY <1>6, <2>1, <2>3, <3>1
  <2> QED BY <2>2, <2>3
<1>12. InsertAt(s, i, e) = c \o b
  BY <1>1, <1>3, <1>4, <1>7 DEF InsertAt
<1> QED BY <1>1, <1>9, <1>10, <1>11, <1>12

\* A prefix is as long as the other or shorter, and equal as far as it goes.
LEMMA PrefixElements ==
    ASSUME NEW T, NEW s \in Seq(T), NEW t \in Seq(T)
    PROVE  IsPrefix(s, t) <=> Len(s) <= Len(t) /\ \A i \in 1 .. Len(s) : s[i] = t[i]
<1>1. PICK n \in Nat : n = Len(s)
  BY LenProperties
<1>2. PICK l \in Nat : l = Len(t)
  BY LenProperties
<1>3. SubSeq(s, 1, n) = s
  BY <1>1, SubSeqFull
<1>4. ASSUME n <= l
      PROVE  s = SubSeq(t, 1, n) <=> \A i \in 1 .. n : s[i] = t[i]
  <2>1. PICK p : p = SubSeq(t, 1, n)
    OBVIOUS
  <2>2. p \in Seq(T) /\ Len(p) = n /\ \A i \in 1 .. n : p[i] = t[i]
    <3>1. /\ p \in Seq(T) /\ Len(p) = n - 1 + 1
          /\ \A i \in 1 .. n - 1 + 1 : p[i] = t[1 + i - 1]
      BY <1>1, <1>2, <1>4, <2>1, PartOfSeq
    <3> QED BY <3>1
  <2>3. (\A i \in 1 .. n : s[i] = p[i]) => s = p
    BY <1>1, <2>2, SeqEqual
  <2> QED BY <2>1, <2>2, <2>3
<1> QED BY <1>1, <1>2, <1>3, <1>4 DEF IsPrefix

\* FlattenSeq concatenates: it is the last of the partial concatenations.
LEMMA Flattened ==
    ASSUME NEW S, NEW seqs \in Seq(Seq(S)), seqs # <<>>
    PROVE  \E f \in [1 .. Len(seqs) -> Seq(S)] :
              /\ f[1] = seqs[1]
              /\ \A i \in 2 .. Len(seqs) : f[i] = f[i - 1] \o seqs[i]
              /\ FlattenSeq(seqs) = f[Len(seqs)]
<1> PICK n \in Nat : n = Len(seqs) /\ n # 0
  BY EmptySeq, LenProperties
<1>1. \A i \in 1 .. n : seqs[i] \in Seq(S)
  BY ElementOfSeq
<1>2. \A s, t \in Seq(S) : s \o t \in Seq(S)
  BY ConcatProperties
<1> DEFINE Rule(f, i) == IF i = 1 THEN seqs[i] ELSE f[i - 1] \o seqs[i]
           Sol(k) == {f \in [1 .. k -> Seq(S)] : \A i \in 1 .. k : f[i] = Rule(f, i)}
           Bad == {k \in 1 .. n : Sol(k) = {}}
<1>3. Bad = {}
  <2> SUFFICES ASSUME Bad # {} PROVE FALSE
    OBVIOUS
  <2>1. IsFiniteSet(Bad) /\ Bad \subseteq Int
    <3>1. IsFiniteSet(1 .. n)
      BY FS_Interval
    <3> QED BY <3>1, FS_Subset
  <2>2. PICK m \in Bad : \A k \in Bad : m <= k
    BY <2>1, Smallest
  <2>3. m \in 1 .. n /\ Sol(m) = {}
    OBVIOUS
  <2>4. CASE m = 1
    <3> PICK g : g = [i \in 1 .. 1 |-> seqs[1]]
      OBVIOUS
    <3>1. g \in [1 .. 1 -> Seq(S)] /\ \A i \in 1 .. 1 : i = 1 /\ g[i] = seqs[i]
      BY <1>1
    <3>2. g \in Sol(1)
      BY <3>1
    <3> QED BY <2>3, <2>4, <3>2
  <2>5. CASE m # 1
    <3> PICK l \in 1 .. n : l = m - 1 /\ l < m
      BY <2>3, <2>5
    <3>1. l \notin Bad
      <4>1. ~(m <= l)
        BY <2>3
      <4> QED BY <4>1, <2>2
    <3> PICK g : g \in Sol(l)
      BY <3>1
    <3> PICK h : h = [i \in 1 .. m |-> IF i = m THEN g[l] \o seqs[m] ELSE g[i]]
      OBVIOUS
    <3>2. g \in [1 .. l -> Seq(S)] /\ \A i \in 1 .. l : g[i] = Rule(g, i)
      OBVIOUS
    <3>3. g[l] \o seqs[m] \in Seq(S)
      BY <3>2, <1>1, <1>2, <2>3
    <3>4. \A i \in 1 .. m : i # m => i \in 1 .. l
      BY <2>3
    <3>5. h \in [1 .. m -> Seq(S)]
      BY <3>2, <3>3, <3>4
    <3>6. ASSUME NEW i \in 1 .. m PROVE h[i] = Rule(h, i)
      <4>1. CASE i = m
        <5>0. m \in 1 .. m
          BY <2>3
        <5>1. h[m] = g[l] \o seqs[m]
          BY <5>0
        <5>2. l \in 1 .. m /\ l # m /\ l = m - 1
          BY <2>3
        <5>3. h[m - 1] = g[l]
          BY <5>2, <3>2
        <5> QED BY <4>1, <2>5, <5>1, <5>3
      <4>2. CASE i # m
        <5>1. i \in 1 .. l /\ h[i] = g[i]
          BY <4>2, <3>4
        <5>2. i # 1 => i - 1 \in 1 .. m /\ i - 1 # m
          BY <4>2, <2>3
        <5>3. i # 1 => h[i - 1] = g[i - 1]
          BY <5>2
        <5> QED BY <5>1, <5>3, <3>2
      <4> QED BY <4>1, <4>2
    <3>7. h \in Sol(m)
      BY <3>5, <3>6
    <3> QED BY <3>7, <2>3
  <2> QED BY <2>4, <2>5
<1>4. n \in 1 .. n
  OBVIOUS
<1>x. Sol(n) # {}
  <2>1. n \notin Bad
    BY <1>3
  <2> QED BY <2>1, <1>4
<1>5. PICK f : f \in Sol(n)
  BY <1>x
<1>6. f \in [1 .. n -> Seq(S)] /\ \A i \in 1 .. n : f[i] = Rule(f, i)
  BY <1>5
<1>7. f = [i \in 1 .. n |-> Rule(f, i)]
  BY <1>6
<1>F. PICK F : F = CHOOSE g : g = [i \in 1 .. n |-> Rule(g, i)]
  BY Zenon
<1>8. F = [i \in 1 .. n |-> Rule(F, i)]
  BY <1>7, <1>F, Zenon
<1>9. F = f
  <2> DEFINE Off == {i \in 1 .. n : F[i] # f[i]}
  <2>1. Off = {}
    <3> SUFFICES ASSUME Off # {} PROVE FALSE
      OBVIOUS
    <3>1. IsFiniteSet(Off) /\ Off \subseteq Int
      <4>1. IsFiniteSet(1 .. n)
        BY FS_Interval
      <4>2. Off \in SUBSET (1 .. n)
        OBVIOUS
      <4>3. IsFiniteSet(Off)
        BY <4>1, <4>2, FS_Subset
      <4>4. 1 .. n \subseteq Int
        OBVIOUS
      <4>5. Off \subseteq Int
        BY <4>2, <4>4, Zenon
      <4> QED BY <4>3, <4>5
    <3>2. PICK m \in Off : \A k \in Off : m <= k
      BY <3>1, Smallest
    <3>3. m \in 1 .. n /\ F[m] # f[m] /\ F[m] = Rule(F, m) /\ f[m] = Rule(f, m)
      BY <1>8, <1>6, Zenon
    <3>4. m # 1 /\ F[m - 1] # f[m - 1]
      BY <3>3, Zenon
    <3>5. m - 1 \in 1 .. n /\ m - 1 < m
      <4>1. m \in 1 .. n /\ m # 1
        BY <3>3, <3>4, Zenon
      <4>2. \A i \in 1 .. n : i # 1 => i - 1 \in 1 .. n /\ i - 1 < i
        OBVIOUS
      <4> QED BY <4>1, <4>2, Zenon
    <3>6. m - 1 \in Off
      BY <3>4, <3>5
    <3>7. ~(m <= m - 1)
      <4>1. m \in 1 .. n
        BY <3>3, Zenon
      <4>2. \A i \in 1 .. n : ~(i <= i - 1)
        OBVIOUS
      <4> QED BY <4>1, <4>2, Zenon
    <3> QED BY <3>2, <3>6, <3>7
  <2>2. \A i \in 1 .. n : F[i] = f[i]
    BY <2>1, Zenon
  <2>3. F = [i \in 1 .. n |-> F[i]]
    BY <1>8, Zenon
  <2>4. f = [i \in 1 .. n |-> f[i]]
    BY <1>6
  <2> QED BY <2>2, <2>3, <2>4
<1>10. FlattenSeq(seqs) = F[n]
  BY <1>F DEF FlattenSeq
<1>11. f[1] = seqs[1]
  <2>1. 1 \in 1 .. n
    OBVIOUS
  <2> QED BY <1>6, <2>1
<1>12. \A i \in 2 .. n : f[i] = f[i - 1] \o seqs[i]
  <2>1. \A i \in 2 .. n : i \in 1 .. n /\ i # 1
    OBVIOUS
  <2> QED BY <1>6, <2>1
<1> QED BY <1>6, <1>9, <1>10, <1>11, <1>12

\* Three sequences in a row.
LEMMA Three ==
    ASSUME NEW S, NEW a, NEW b, NEW c, a \in Seq(S), b \in Seq(S), c \in Seq(S)
    PROVE  /\ a \o b \o c \in Seq(S) /\ Len(a \o b \o c) = Len(a) + Len(b) + Len(c)
           /\ \A i \in 1 .. Len(a) : (a \o b \o c)[i] = a[i]
           /\ \A i \in 1 .. Len(b) : (a \o b \o c)[Len(a) + i] = b[i]
           /\ \A i \in 1 .. Len(c) : (a \o b \o c)[Len(a) + Len(b) + i] = c[i]
<1> PICK k \in Nat : k = Len(a)
  BY LenProperties
<1> PICK l \in Nat : l = Len(b)
  BY LenProperties
<1> PICK m \in Nat : m = Len(c)
  BY LenProperties
<1> PICK ab : ab = a \o b
  OBVIOUS
<1> PICK t : t = ab \o c
  OBVIOUS
<1>1. /\ ab \in Seq(S) /\ Len(ab) = k + l
      /\ \A i \in 1 .. k + l : ab[i] = IF i <= k THEN a[i] ELSE b[i - k]
  BY ConcatProperties
<1>2. /\ t \in Seq(S) /\ Len(t) = (k + l) + m
      /\ \A i \in 1 .. (k + l) + m : t[i] = IF i <= k + l THEN ab[i] ELSE c[i - (k + l)]
  BY <1>1, ConcatProperties
<1>3. ASSUME NEW i \in 1 .. k PROVE t[i] = a[i]
  <2>1. i \in 1 .. k + l /\ i \in 1 .. (k + l) + m /\ i <= k /\ i <= k + l
    OBVIOUS
  <2> QED BY <2>1, <1>1, <1>2
<1>4. ASSUME NEW i \in 1 .. l PROVE t[k + i] = b[i]
  <2>1. k + i \in 1 .. k + l /\ k + i \in 1 .. (k + l) + m /\ ~(k + i <= k) /\ k + i <= k + l
        /\ (k + i) - k = i
    OBVIOUS
  <2> QED BY <2>1, <1>1, <1>2
<1>5. ASSUME NEW i \in 1 .. m PROVE t[k + l + i] = c[i]
  <2>1. k + l + i \in 1 .. (k + l) + m /\ ~(k + l + i <= k + l) /\ (k + l + i) - (k + l) = i
    OBVIOUS
  <2> QED BY <2>1, <1>2
<1> QED BY <1>2, <1>3, <1>4, <1>5

\* The same, with names for the whole and the lengths.
LEMMA Joined ==
    ASSUME NEW S, NEW a, NEW b, NEW c, NEW t, NEW k, NEW o, NEW n,
           a \in Seq(S), b \in Seq(S), c \in Seq(S), t = a \o b \o c,
           k = Len(a), o = Len(b), n = Len(c)
    PROVE  /\ t \in Seq(S) /\ Len(t) = k + o + n
           /\ \A i \in 1 .. k : t[i] = a[i]
           /\ \A i \in 1 .. o : t[k + i] = b[i]
           /\ \A i \in 1 .. n : t[k + o + i] = c[i]
BY Three, SMT

\* A function on 1 .. n is a sequence of length n.
LEMMA Numbered ==
    ASSUME NEW S, NEW n \in Nat, NEW f \in [1 .. n -> S]
    PROVE  f \in Seq(S) /\ Len(f) = n
<1>1. f \in Seq(S)
  BY SeqDef
<1>2. Len(f) \in Nat /\ DOMAIN f = 1 .. Len(f) /\ DOMAIN f = 1 .. n
  BY <1>1, LenProperties
<1> QED BY <1>1, <1>2
LEMMA Single ==
    ASSUME NEW S, NEW x \in S
    PROVE  <<x>> \in Seq(S) /\ Len(<<x>>) = 1 /\ <<x>>[1] = x
OBVIOUS

\* The first and the last of three sequences in a row.
LEMMA ThreeEnds ==
    ASSUME NEW S, NEW a \in Seq(S), NEW b \in Seq(S), NEW c \in Seq(S)
    PROVE  /\ SubSeq(a \o b \o c, 1, Len(a)) = a
           /\ SubSeq(a \o b \o c, Len(a) + Len(b) + 1, Len(a) + Len(b) + Len(c)) = c
OBVIOUS

-----------------------------------------------------------------------------
(* What the generator of the README makes *)

\* What is put in for the tokens of the new section.
Pieces(block, matched) == [i \in DOMAIN block |-> IF block[i] = "$&" THEN matched ELSE <<block[i]>>]

\* The replacement is the concatenation of its pieces.
LEMMA ExpandedPieces ==
    ASSUME NEW block, NEW matched
    PROVE  Expanded(block, matched) = FlattenSeq(Pieces(block, matched))
BY Zenon DEF Expanded, Pieces

LEMMA PiecesType ==
    ASSUME NEW block \in Seq(Tokens), NEW matched \in Seq(Tokens), block # <<>>
    PROVE  /\ Pieces(block, matched) \in Seq(Seq(Tokens)) /\ Pieces(block, matched) # <<>>
           /\ Len(Pieces(block, matched)) = Len(block)
           /\ \A i \in 1 .. Len(block) :
                 Pieces(block, matched)[i] = IF block[i] = "$&" THEN matched ELSE <<block[i]>>
<1> PICK n \in Nat : n = Len(block) /\ n # 0
  BY EmptySeq, LenProperties
<1> PICK p : p = Pieces(block, matched)
  OBVIOUS
<1>1. \A i \in 1 .. n : block[i] \in Tokens
  BY ElementOfSeq
<1>2. \A x \in Tokens : <<x>> \in Seq(Tokens)
  OBVIOUS
<1>3. DOMAIN block = 1 .. n
  BY LenProperties
<1>4. p = [i \in 1 .. n |-> IF block[i] = "$&" THEN matched ELSE <<block[i]>>]
  BY <1>3 DEF Pieces
<1>5. p \in [1 .. n -> Seq(Tokens)]
  BY <1>1, <1>2, <1>4
<1>6. p \in Seq(Seq(Tokens)) /\ Len(p) = n
  BY <1>5, Numbered
<1>7. p # <<>>
  BY <1>6, EmptySeq
<1> QED BY <1>4, <1>6, <1>7

\* What replaces a section is a text that ends as the new section does.
LEMMA ExpandedType ==
    ASSUME NEW block \in Seq(Tokens), NEW matched \in Seq(Tokens), block # <<>>,
           block[Len(block)] = "end"
    PROVE  /\ Expanded(block, matched) \in Seq(Tokens)
           /\ Contains(Expanded(block, matched), "end")
<1> PICK n \in Nat : n = Len(block) /\ n # 0
  BY EmptySeq, LenProperties
<1> PICK p : p = Pieces(block, matched)
  OBVIOUS
<1>1. p \in Seq(Seq(Tokens)) /\ p # <<>> /\ Len(p) = n /\ p[n] = <<"end">>
  <2>1. n \in 1 .. n /\ block[n] # "$&"
    OBVIOUS
  <2> QED BY <2>1, PiecesType
<1>2. PICK f \in [1 .. n -> Seq(Tokens)] :
           /\ f[1] = p[1]
           /\ \A i \in 2 .. n : f[i] = f[i - 1] \o p[i]
           /\ FlattenSeq(p) = f[n]
  <2>1. \E f \in [1 .. Len(p) -> Seq(Tokens)] :
           /\ f[1] = p[1]
           /\ \A i \in 2 .. Len(p) : f[i] = f[i - 1] \o p[i]
           /\ FlattenSeq(p) = f[Len(p)]
    BY <1>1, Flattened, Zenon
  <2>2. Len(p) = n
    BY <1>1
  <2> QED BY <2>1, <2>2, Zenon
<1>3. Expanded(block, matched) = f[n] /\ f[n] \in Seq(Tokens)
  <2>1. Expanded(block, matched) = FlattenSeq(p)
    BY ExpandedPieces
  <2>2. f[n] \in Seq(Tokens)
    BY <1>2
  <2>3. FlattenSeq(p) = f[n]
    BY <1>2
  <2>4. Expanded(block, matched) = f[n]
    BY <2>1, <2>3
  <2> QED BY <2>2, <2>4
<1>4. CASE n = 1
  <2>1. f[n] = <<"end">>
    BY <1>1, <1>2, <1>4
  <2>2. Contains(<<"end">>, "end")
    BY DEF Contains
  <2> QED BY <1>3, <2>1, <2>2
<1>5. CASE n # 1
  <2>1. n \in 2 .. n /\ n - 1 \in 1 .. n
    BY <1>5
  <2> PICK e : e = f[n - 1]
    OBVIOUS
  <2>2. e \in Seq(Tokens) /\ f[n] = e \o <<"end">>
    BY <1>1, <1>2, <2>1
  <2>3. "end" \in Tokens
    BY Zenon DEF Tokens, Section
  <2>4. f[n] = Append(e, "end")
    BY <2>2, <2>3, AppendIsConcat
  <2>5. Len(f[n]) = Len(e) + 1 /\ f[n][Len(e) + 1] = "end"
    BY <2>2, <2>3, <2>4, AppendProperties
  <2>6. Len(e) + 1 \in 1 .. Len(f[n])
    <3>1. Len(e) \in Nat
      BY <2>2, LenProperties
    <3> QED BY <2>5, <3>1
  <2> QED BY <1>3, <2>5, <2>6 DEF Contains
<1> QED BY <1>3, <1>4, <1>5

\* Without a replacement pattern it is the new section.
LEMMA ExpandedPlain ==
    ASSUME NEW block \in Seq(Tokens), NEW matched \in Seq(Tokens), block # <<>>,
           ~Contains(block, "$&")
    PROVE  Expanded(block, matched) = block
<1> PICK n \in Nat : n = Len(block) /\ n # 0
  BY EmptySeq, LenProperties
<1> PICK p : p = Pieces(block, matched)
  OBVIOUS
<1>0. \A i \in 1 .. n : p[i] = <<block[i]>> /\ block[i] \in Tokens
  <2>1. \A i \in 1 .. n : block[i] # "$&"
    BY DEF Contains
  <2> QED BY <2>1, PiecesType, ElementOfSeq
<1>1. p \in Seq(Seq(Tokens)) /\ p # <<>> /\ Len(p) = n
  BY PiecesType
<1>2. PICK f \in [1 .. n -> Seq(Tokens)] :
           /\ f[1] = p[1]
           /\ \A i \in 2 .. n : f[i] = f[i - 1] \o p[i]
           /\ FlattenSeq(p) = f[n]
  <2>1. \E f \in [1 .. Len(p) -> Seq(Tokens)] :
           /\ f[1] = p[1]
           /\ \A i \in 2 .. Len(p) : f[i] = f[i - 1] \o p[i]
           /\ FlattenSeq(p) = f[Len(p)]
    BY <1>1, Flattened, Zenon
  <2>2. Len(p) = n
    BY <1>1
  <2> QED BY <2>1, <2>2, Zenon
<1> DEFINE Off == {i \in 1 .. n : f[i] # SubSeq(block, 1, i)}
<1>3. Off = {}
  <2> SUFFICES ASSUME Off # {} PROVE FALSE
    OBVIOUS
  <2>1. IsFiniteSet(Off) /\ Off \subseteq Int
    <3>1. IsFiniteSet(1 .. n)
      BY FS_Interval
    <3>2. Off \in SUBSET (1 .. n)
      OBVIOUS
    <3>3. IsFiniteSet(Off)
      BY <3>1, <3>2, FS_Subset
    <3>4. 1 .. n \subseteq Int
      OBVIOUS
    <3>5. Off \subseteq Int
      BY <3>2, <3>4, Zenon
    <3> QED BY <3>3, <3>5
  <2>2. PICK m \in Off : \A k \in Off : m <= k
    BY <2>1, Smallest
  <2>3. m \in 1 .. n /\ f[m] # SubSeq(block, 1, m)
    BY <2>2
  <2>4. CASE m = 1
    <3>1. f[1] = <<block[1]>>
      BY <1>0, <1>2, <2>3, <2>4
    <3>2. SubSeq(block, 1, 1) = <<block[1]>>
      <4> PICK s : s = SubSeq(block, 1, 1)
        OBVIOUS
      <4>1. s \in Seq(Tokens) /\ Len(s) = 1 - 1 + 1 /\ \A i \in 1 .. 1 - 1 + 1 : s[i] = block[1 + i - 1]
        BY PartOfSeq
      <4>2. Len(s) = 1 /\ s[1] = block[1]
        BY <4>1
      <4> PICK b \in Tokens : b = block[1]
        BY <1>0, <2>3, <2>4
      <4> PICK u : u = <<b>>
        OBVIOUS
      <4>3. u \in Seq(Tokens) /\ Len(u) = 1 /\ u[1] = b
        OBVIOUS
      <4>4. \A i \in 1 .. Len(s) : s[i] = u[i]
        BY <4>2, <4>3
      <4>5. s = u
        BY <4>1, <4>2, <4>3, <4>4, SeqEqual
      <4> QED BY <4>5
    <3> QED BY <2>3, <2>4, <3>1, <3>2
  <2>5. CASE m # 1
    <3>1. m \in 2 .. n /\ m - 1 \in 1 .. n /\ ~(m <= m - 1) /\ m \in 1 .. n
      BY <2>3, <2>5
    <3>2. f[m - 1] = SubSeq(block, 1, m - 1)
      BY <3>1, <2>2
    <3>3. f[m] = SubSeq(block, 1, m - 1) \o <<block[m]>>
      BY <3>1, <3>2, <1>0, <1>2
    <3>4. SubSeq(block, 1, m) = SubSeq(block, 1, m - 1) \o <<block[m]>>
      <4>1. 1 \in 1 .. Len(block) /\ m \in 1 .. Len(block)
        BY <3>1
      <4> QED BY <4>1, SubSeqRecursiveSecond
    <3> QED BY <2>3, <3>3, <3>4
  <2> QED BY <2>4, <2>5
<1>4. f[n] = SubSeq(block, 1, n)
  <2>1. n \in 1 .. n
    OBVIOUS
  <2> QED BY <2>1, <1>3
<1>5. Expanded(block, matched) = FlattenSeq(p)
  BY ExpandedPieces
<1>6. SubSeq(block, 1, n) = block
  BY SubSeqFull
<1>7. FlattenSeq(p) = f[n]
  BY <1>2
<1>8. f[n] = block
  BY <1>4, <1>6
<1>9. Expanded(block, matched) = f[n]
  BY <1>5, <1>7
<1> QED BY <1>8, <1>9

\* The new section, between its markers.
Block(g) == <<"start">> \o g \o <<"end">>

\* The new section is a text.
LEMMA BlockElements ==
    ASSUME NEW g \in Seq(Tokens)
    PROVE  /\ Block(g) \in Seq(Tokens) /\ Len(Block(g)) = Len(g) + 2 /\ Block(g) # <<>>
           /\ Block(g)[1] = "start" /\ Block(g)[Len(g) + 2] = "end"
           /\ \A i \in 2 .. Len(g) + 1 : Block(g)[i] = g[i - 1]
<1> PICK l \in Nat : l = Len(g)
  BY LenProperties
<1> PICK a : a = <<"start">>
  OBVIOUS
<1> PICK c : c = <<"end">>
  OBVIOUS
<1>1. /\ a \in Seq(Tokens) /\ Len(a) = 1 /\ a[1] = "start"
      /\ c \in Seq(Tokens) /\ Len(c) = 1 /\ c[1] = "end"
  <2>1. "start" \in Tokens /\ "end" \in Tokens
    BY Zenon DEF Tokens, Section
  <2> QED BY <2>1, Single
<1> PICK b : b = a \o g \o c
  OBVIOUS
<1>2. /\ b \in Seq(Tokens) /\ Len(b) = 1 + l + 1
      /\ \A i \in 1 .. 1 : b[i] = a[i]
      /\ \A i \in 1 .. l : b[1 + i] = g[i]
      /\ \A i \in 1 .. 1 : b[1 + l + i] = c[i]
  BY <1>1, Three
<1>3. Len(b) = l + 2 /\ b[1] = "start" /\ b[l + 2] = "end"
  <2>1. 1 + l + 1 = l + 2 /\ 1 \in 1 .. 1
    OBVIOUS
  <2> QED BY <2>1, <1>1, <1>2
<1>4. \A i \in 2 .. l + 1 : b[i] = g[i - 1]
  <2>1. \A i \in 2 .. l + 1 : i - 1 \in 1 .. l /\ 1 + (i - 1) = i
    OBVIOUS
  <2> QED BY <2>1, <1>2
<1>5. b # <<>>
  BY <1>2, <1>3, EmptySeq
<1> QED BY <1>2, <1>3, <1>4, <1>5 DEF Block

\* What is before, between and behind the markers a section is replaced at.
LEMMA Parted ==
    ASSUME NEW text \in Seq(Tokens), NEW g, Contains(text, "start"), Contains(text, "end"),
           Marked(text) # {}
    PROVE  \E a, s, c \in Seq(Tokens) :
              ~Contains(a, "start") /\ InjectSection(text, g) = a \o Expanded(Block(g), s) \o c
<1> PICK n \in Nat : n = Len(text)
  BY LenProperties
<1>3. PICK x \in 1 .. n, y \in 1 .. n :
         /\ x < y /\ text[y] = "end"
         /\ \A i \in 1 .. x - 1 : text[i] = "start" => \A j \in i .. n : text[j] # "end"
         /\ InjectSection(text, g) = SubSeq(text, 1, x - 1) \o Expanded(Block(g), SubSeq(text, x, y))
                                    \o SubSeq(text, y + 1, n)
  <2> PICK m : m = CHOOSE x \in Marked(text) : TRUE
    OBVIOUS
  <2>1. DOMAIN text = 1 .. n
    BY LenProperties
  <2>2. m \in Marked(text)
    BY Zenon
  <2>3. m \in (1 .. n) \X (1 .. n)
    BY <2>1, <2>2, Zenon DEF Marked
  <2>4. /\ m[1] < m[2] /\ text[m[2]] = "end"
        /\ \A i \in 1 .. m[1] - 1 : text[i] = "start" => \A j \in i .. n : text[j] # "end"
    BY <2>2, Zenon DEF Marked
  <2>5. m[1] \in 1 .. n /\ m[2] \in 1 .. n
    BY <2>3
  <2>6. InjectSection(text, g) = SubSeq(text, 1, m[1] - 1)
                                 \o Expanded(Block(g), SubSeq(text, m[1], m[2]))
                                 \o SubSeq(text, m[2] + 1, n)
    BY Zenon DEF InjectSection, Block
  <2> QED BY <2>4, <2>5, <2>6, Zenon
<1> PICK k \in Nat : k = x - 1
  OBVIOUS
<1> PICK a : a = SubSeq(text, 1, k)
  OBVIOUS
<1> PICK s : s = SubSeq(text, x, y)
  OBVIOUS
<1> PICK c : c = SubSeq(text, y + 1, n)
  OBVIOUS
<1>4. a \in Seq(Tokens) /\ ~Contains(a, "start")
  <2>1. 1 \in Nat \ {0} /\ k \in Nat /\ k <= n /\ 1 <= k + 1
    OBVIOUS
  <2>2. a \in Seq(Tokens) /\ Len(a) = k - 1 + 1 /\ \A i \in 1 .. k - 1 + 1 : a[i] = text[1 + i - 1]
    BY <2>1, PartOfSeq
  <2>3. k - 1 + 1 = k /\ \A i \in 1 .. k : 1 + i - 1 = i
    OBVIOUS
  <2>4. Len(a) = k /\ \A i \in 1 .. k : a[i] = text[i]
    BY <2>2, <2>3
  <2>5. \A i \in 1 .. k : y \in i .. n /\ i \in 1 .. x - 1
    BY <1>3
  <2>6. \A i \in 1 .. k : text[i] # "start"
    BY <1>3, <2>5
  <2> QED BY <2>2, <2>4, <2>6 DEF Contains
<1>5. s \in Seq(Tokens)
  <2>1. x \in Nat \ {0} /\ y \in Nat /\ y <= n /\ x <= y + 1
    BY <1>3
  <2> QED BY <2>1, PartOfSeq
<1>6. c \in Seq(Tokens)
  <2>1. y + 1 \in Nat \ {0} /\ n \in Nat /\ n <= n /\ y + 1 <= n + 1
    BY <1>3
  <2> QED BY <2>1, PartOfSeq
<1>8. InjectSection(text, g) = a \o Expanded(Block(g), s) \o c
  BY <1>3
<1> QED BY <1>4, <1>5, <1>6, <1>8

\* A text with markers has its end behind a start.
Closed(text) == Contains(text, "start") => Contains(text, "end")

\* A text with the section in it is a text that ends what it starts.
LEMMA InjectType ==
    ASSUME NEW text \in Seq(Tokens), NEW g \in Seq(Tokens), Closed(text)
    PROVE  InjectSection(text, g) \in Seq(Tokens) /\ Closed(InjectSection(text, g))
<1> PICK b : b = Block(g)
  OBVIOUS
<1> PICK l \in Nat \ {0} : l = Len(b)
  BY BlockElements, LenProperties
<1>0. b \in Seq(Tokens) /\ b # <<>> /\ b[l] = "end"
  BY BlockElements
<1>1. CASE ~(Contains(text, "start") /\ Contains(text, "end"))
  <2> PICK h : h = <<"heading">>
    OBVIOUS
  <2>1. h \in Seq(Tokens) /\ Len(h) = 1
    <3>1. "heading" \in Tokens
      BY Zenon DEF Tokens
    <3> QED BY <3>1, Single
  <2>2. InjectSection(text, g) = text \o h \o b
    BY <1>1 DEF InjectSection, Block
  <2>3. /\ text \o h \o b \in Seq(Tokens) /\ Len(text \o h \o b) = Len(text) + 1 + l
        /\ (text \o h \o b)[Len(text) + 1 + l] = "end"
    BY <1>0, <2>1, Three
  <2>4. Len(text) + 1 + l \in 1 .. Len(text \o h \o b)
    <3>1. Len(text) \in Nat
      BY LenProperties
    <3> QED BY <3>1, <2>3
  <2> QED BY <2>2, <2>3, <2>4 DEF Closed, Contains
<1>2. CASE Contains(text, "start") /\ Contains(text, "end") /\ Marked(text) = {}
  <2>1. InjectSection(text, g) = text
    BY <1>2 DEF InjectSection
  <2> QED BY <2>1
<1>3. CASE Contains(text, "start") /\ Contains(text, "end") /\ Marked(text) # {}
  <2>0. \E a, s, c \in Seq(Tokens) :
           ~Contains(a, "start") /\ InjectSection(text, g) = a \o Expanded(Block(g), s) \o c
    BY <1>3, Parted, Zenon
  <2>1. PICK a \in Seq(Tokens), s \in Seq(Tokens), c \in Seq(Tokens) :
           InjectSection(text, g) = a \o Expanded(b, s) \o c
    BY <2>0, Zenon
  <2> PICK e : e = Expanded(b, s)
    OBVIOUS
  <2>2. e \in Seq(Tokens) /\ Contains(e, "end")
    BY <1>0, ExpandedType
  <2> PICK t : t = a \o e \o c
    OBVIOUS
  <2> PICK k \in Nat : k = Len(a)
    BY LenProperties
  <2> PICK n \in Nat : n = Len(e)
    BY <2>2, LenProperties
  <2> PICK o \in Nat : o = Len(c)
    BY LenProperties
  <2>3. PICK i \in 1 .. n : e[i] = "end"
    BY <2>2 DEF Contains
  <2>4. t \in Seq(Tokens) /\ Len(t) = k + n + o /\ \A x \in 1 .. n : t[k + x] = e[x]
    BY <2>2, Three, SMTT(30)
  <2>5. k + i \in 1 .. Len(t) /\ t[k + i] = "end"
    BY <2>3, <2>4
  <2>6. Closed(t)
    BY <2>5 DEF Closed, Contains
  <2> QED BY <2>1, <2>4, <2>6
<1> QED BY <1>1, <1>2, <1>3

\* What an update says has neither markers nor a replacement pattern.
Plainly(g) == ~Contains(g, "start") /\ ~Contains(g, "end") /\ ~Contains(g, "$&")

\* A plain section is put in as it is.
LEMMA PlainBlock ==
    ASSUME NEW g \in Seq(Tokens), Plainly(g)
    PROVE  /\ \A i \in 2 .. Len(g) + 1 : Block(g)[i] \notin {"start", "end", "$&"}
           /\ ~Contains(Block(g), "$&")
<1> PICK b : b = Block(g)
  OBVIOUS
<1> PICK l \in Nat : l = Len(g)
  BY LenProperties
<1>1. /\ Len(b) = l + 2 /\ b[1] = "start" /\ b[l + 2] = "end"
      /\ \A i \in 2 .. l + 1 : b[i] = g[i - 1]
  BY BlockElements
<1>2. \A i \in 2 .. l + 1 : b[i] \notin {"start", "end", "$&"}
  <2>1. \A i \in 2 .. l + 1 : i - 1 \in 1 .. l
    OBVIOUS
  <2>2. \A i \in 1 .. l : g[i] \notin {"start", "end", "$&"}
    BY DEF Plainly, Contains
  <2> QED BY <1>1, <2>1, <2>2
<1>3. ~Contains(b, "$&")
  <2>1. \A i \in 1 .. l + 2 : i = 1 \/ i = l + 2 \/ i \in 2 .. l + 1
    OBVIOUS
  <2>2. \A i \in 1 .. l + 2 : b[i] # "$&"
    BY <2>1, <1>1, <1>2
  <2> QED BY <2>2, <1>1 DEF Contains
<1> QED BY <1>2, <1>3

\* The last of three sequences in a row.
LEMMA LastPart ==
    ASSUME NEW a \in Seq(Tokens), NEW b, b \in Seq(Tokens), NEW c \in Seq(Tokens)
    PROVE  SubSeq(a \o b \o c, Len(a) + Len(b) + 1, Len(a) + Len(b) + Len(c)) = c
OBVIOUS

\* A section that is the first thing to hold a marker is found again.
LEMMA SectionFound ==
    ASSUME NEW a \in Seq(Tokens), NEW c \in Seq(Tokens), NEW g \in Seq(Tokens),
           Plainly(g), ~Contains(a, "start")
    PROVE  InjectSection(a \o Block(g) \o c, g) = a \o Block(g) \o c
<1> PICK b : b = Block(g)
  OBVIOUS
<1> PICK t : t = a \o b \o c
  OBVIOUS
<1> PICK k \in Nat : k = Len(a)
  BY LenProperties
<1> PICK l \in Nat : l = Len(g)
  BY LenProperties
<1> PICK n \in Nat : n = Len(c)
  BY LenProperties
<1>1. /\ b \in Seq(Tokens) /\ Len(b) = l + 2 /\ b # <<>> /\ b[1] = "start" /\ b[l + 2] = "end"
      /\ \A i \in 2 .. l + 1 : b[i] = g[i - 1]
  BY BlockElements
<1>2. \A i \in 2 .. l + 1 : b[i] \notin {"start", "end", "$&"}
  BY PlainBlock
<1>3. /\ t \in Seq(Tokens) /\ Len(t) = k + (l + 2) + n
      /\ \A i \in 1 .. k : t[i] = a[i]
      /\ \A i \in 1 .. l + 2 : t[k + i] = b[i]
      /\ SubSeq(t, 1, k) = a
      /\ SubSeq(t, k + (l + 2) + 1, Len(t)) = c
  <2>0. b \in Seq(Tokens)
    BY <1>1
  <2> PICK o \in Nat : o = Len(b)
    BY <2>0, LenProperties
  <2>1. b \in Seq(Tokens) /\ o = Len(b) /\ k = Len(a) /\ n = Len(c)
    BY <2>0
  <2>2. /\ t \in Seq(Tokens) /\ Len(t) = k + o + n
        /\ \A i \in 1 .. k : t[i] = a[i]
        /\ \A i \in 1 .. o : t[k + i] = b[i]
    BY <2>1, Joined
  <2>3. SubSeq(t, 1, k) = a
    BY <2>1
  <2>5. SubSeq(t, k + o + 1, k + o + n) = c
    <3>1. SubSeq(a \o b \o c, Len(a) + Len(b) + 1, Len(a) + Len(b) + Len(c)) = c
      BY <2>0, LastPart, Zenon
    <3> QED BY <2>1, <3>1, Zenon
  <2>4. o = l + 2
    BY <1>1
  <2> QED BY <2>2, <2>3, <2>4, <2>5
<1> DEFINE p == k + 1
           q == k + l + 2
<1>4. t[p] = "start" /\ t[q] = "end" /\ p \in 1 .. Len(t) /\ q \in 1 .. Len(t) /\ p < q
  <2>1. 1 \in 1 .. l + 2 /\ l + 2 \in 1 .. l + 2 /\ k + (l + 2) = k + l + 2
    OBVIOUS
  <2>2. t[k + 1] = "start" /\ t[k + (l + 2)] = "end"
    BY <2>1, <1>1, <1>3
  <2> QED BY <2>1, <2>2, <1>3
<1>5. ASSUME NEW i \in 1 .. p - 1 PROVE t[i] # "start"
  <2>1. i \in 1 .. k
    OBVIOUS
  <2> QED BY <2>1, <1>3 DEF Contains
<1>6. ASSUME NEW i \in p + 1 .. q - 1 PROVE t[i] # "end"
  <2>1. i - k \in 2 .. l + 1 /\ i - k \in 1 .. l + 2 /\ k + (i - k) = i
    OBVIOUS
  <2> QED BY <2>1, <1>2, <1>3
<1>7. DOMAIN t = 1 .. Len(t)
  BY <1>3, LenProperties
<1>8. <<p, q>> \in Marked(t)
  <2>1. \A i \in p .. q - 1 : t[i] # "end"
    <3>1. \A i \in p .. q - 1 : i = p \/ i \in p + 1 .. q - 1
      OBVIOUS
    <3> QED BY <3>1, <1>4, <1>6
  <2> PICK m : m = <<p, q>>
    OBVIOUS
  <2>2. m \in (DOMAIN t) \X (DOMAIN t) /\ m[1] = p /\ m[2] = q
    BY <1>4, <1>7
  <2>3. m \in Marked(t)
    BY <1>4, <1>5, <2>1, <2>2, ZenonT(40) DEF Marked
  <2> QED BY <2>3
<1>9. ASSUME NEW m \in Marked(t) PROVE m = <<p, q>>
  <2>1. /\ m \in (1 .. Len(t)) \X (1 .. Len(t)) /\ m[1] < m[2]
        /\ t[m[1]] = "start" /\ t[m[2]] = "end"
        /\ \A i \in m[1] .. m[2] - 1 : t[i] # "end"
        /\ \A i \in 1 .. m[1] - 1 : t[i] = "start" => \A j \in i .. Len(t) : t[j] # "end"
    BY <1>7 DEF Marked
  <2> PICK x \in 1 .. Len(t), y \in 1 .. Len(t) : x = m[1] /\ y = m[2] /\ m = <<x, y>>
    BY <2>1
  <2>2. x = p
    <3>1. CASE x < p
      <4>1. x \in 1 .. p - 1
        BY <3>1
      <4> QED BY <4>1, <1>5, <2>1
    <3>2. CASE x > p
      <4>1. p \in 1 .. x - 1 /\ q \in p .. Len(t)
        BY <3>2, <1>4, SMTT(30)
      <4> QED BY <4>1, <1>4, <2>1
    <3> QED BY <3>1, <3>2
  <2>3. y = q
    <3>1. CASE y < q
      <4>1. y \in p + 1 .. q - 1
        <5>1. p \in Int /\ q \in Int /\ y \in Int /\ p < y
          BY <2>1, <2>2
        <5> HIDE DEF p, q
        <5> QED BY <3>1, <5>1
      <4> QED BY <4>1, <1>6, <2>1
    <3>2. CASE y > q
      <4>1. q \in x .. y - 1
        BY <3>2, <2>2, <1>4, SMTT(30)
      <4> QED BY <4>1, <1>4, <2>1
    <3>3. y < q \/ y > q \/ y = q
      <4>1. q \in Int /\ y \in Int
        OBVIOUS
      <4> HIDE DEF q
      <4> QED BY <4>1
    <3> QED BY <3>1, <3>2, <3>3
  <2> QED BY <2>2, <2>3
<1>10. (CHOOSE x \in Marked(t) : TRUE) = <<p, q>>
  BY <1>8, <1>9
<1>11. Contains(t, "start") /\ Contains(t, "end") /\ Marked(t) # {}
  BY <1>4, <1>8 DEF Contains
<1> PICK s : s = SubSeq(t, p, q)
  OBVIOUS
<1>12. Expanded(b, s) = b
  <2>1. s \in Seq(Tokens)
    <3>1. p \in Nat \ {0} /\ q \in Nat /\ q <= Len(t) /\ p <= q + 1
      BY <1>4, SMTT(30)
    <3> QED BY <3>1, <1>3, PartOfSeq
  <2>2. ~Contains(b, "$&")
    BY PlainBlock
  <2> QED BY <2>1, <2>2, <1>1, ExpandedPlain
<1>13. InjectSection(t, g) = SubSeq(t, 1, p - 1) \o Expanded(b, s) \o SubSeq(t, q + 1, Len(t))
  <2> PICK m : m = CHOOSE x \in Marked(t) : TRUE
    OBVIOUS
  <2>0. m = <<p, q>>
    BY <1>10
  <2>1. m[1] = p /\ m[2] = q
    <3>1. <<p, q>>[1] = p /\ <<p, q>>[2] = q
      OBVIOUS
    <3> HIDE DEF p, q
    <3> QED BY <2>0, <3>1, Zenon
  <2>2. InjectSection(t, g) = SubSeq(t, 1, m[1] - 1) \o Expanded(b, SubSeq(t, m[1], m[2]))
                              \o SubSeq(t, m[2] + 1, Len(t))
    BY <1>11, Zenon DEF InjectSection, Block
  <2> QED BY <2>1, <2>2
<1>14. p - 1 = k /\ q + 1 = k + (l + 2) + 1
  OBVIOUS
<1>15. InjectSection(t, g) = a \o b \o c
  BY <1>3, <1>12, <1>13, <1>14
<1> QED BY <1>15

\* Injecting a plain section twice is injecting it once.
LEMMA InjectStable ==
    ASSUME NEW text \in Seq(Tokens), NEW g \in Seq(Tokens), Closed(text), Plainly(g)
    PROVE  InjectSection(InjectSection(text, g), g) = InjectSection(text, g)
<1> PICK b : b = Block(g)
  OBVIOUS
<1>0. b \in Seq(Tokens) /\ b # <<>>
  BY BlockElements
<1>1. CASE ~(Contains(text, "start") /\ Contains(text, "end"))
  <2> PICK h : h = <<"heading">>
    OBVIOUS
  <2> PICK a : a = text \o h
    OBVIOUS
  <2>1. h \in Seq(Tokens) /\ Len(h) = 1 /\ h[1] = "heading"
    <3>1. "heading" \in Tokens
      BY Zenon DEF Tokens
    <3> QED BY <3>1, Single
  <2>2. a \in Seq(Tokens) /\ ~Contains(a, "start")
    <3> PICK k \in Nat : k = Len(text)
      BY LenProperties
    <3>1. /\ a \in Seq(Tokens) /\ Len(a) = k + 1
          /\ \A i \in 1 .. k + 1 : a[i] = IF i <= k THEN text[i] ELSE h[i - k]
      BY <2>1, ConcatProperties
    <3>2. \A i \in 1 .. k : text[i] # "start"
      BY <1>1 DEF Closed, Contains
    <3>3. \A i \in 1 .. k + 1 : IF i <= k THEN i \in 1 .. k ELSE i - k = 1
      OBVIOUS
    <3>4. \A i \in 1 .. k + 1 : a[i] # "start"
      BY <2>1, <3>1, <3>2, <3>3
    <3> QED BY <3>1, <3>4 DEF Contains
  <2>3. InjectSection(text, g) = a \o b
    BY <1>1 DEF InjectSection, Block
  <2>4. a \o b \o <<>> = a \o b
    <3>1. a \o b \in Seq(Tokens)
      BY <1>0, <2>2, ConcatProperties
    <3> QED BY <3>1, ConcatEmptySeq
  <2>5. <<>> \in Seq(Tokens)
    OBVIOUS
  <2>6. InjectSection(a \o b \o <<>>, g) = a \o b \o <<>>
    BY <2>2, <2>5, SectionFound, ZenonT(40)
  <2> QED BY <2>3, <2>4, <2>6
<1>2. CASE Contains(text, "start") /\ Contains(text, "end") /\ Marked(text) = {}
  <2>1. InjectSection(text, g) = text
    BY <1>2 DEF InjectSection
  <2> QED BY <2>1
<1>3. CASE Contains(text, "start") /\ Contains(text, "end") /\ Marked(text) # {}
  <2>0. \E a, s, c \in Seq(Tokens) :
           ~Contains(a, "start") /\ InjectSection(text, g) = a \o Expanded(Block(g), s) \o c
    BY <1>3, Parted, Zenon
  <2>1. PICK a \in Seq(Tokens), s \in Seq(Tokens), c \in Seq(Tokens) :
           ~Contains(a, "start") /\ InjectSection(text, g) = a \o Expanded(b, s) \o c
    BY <2>0, Zenon
  <2>2. Expanded(b, s) = b
    BY <1>0, PlainBlock, ExpandedPlain
  <2>3. InjectSection(text, g) = a \o b \o c
    BY <2>1, <2>2
  <2>4. InjectSection(a \o b \o c, g) = a \o b \o c
    BY <2>1, SectionFound, ZenonT(40)
  <2> QED BY <2>3, <2>4
<1> QED BY <1>1, <1>2, <1>3

-----------------------------------------------------------------------------
(* The agent scripts *)

\* A promotion removes what it listed and copies what it listed then; nobody
\* else writes the agent in use.
AgentsInv ==
    /\ dbl \in [AgentFiles -> Versions] /\ main \in [AgentFiles -> Versions]
    /\ promotion \in [phase : {"none", "removing", "copying", "done", "failed"},
                      left : SUBSET AgentFiles, runs : 0 .. MaxScriptRuns]
    /\ dblEdited \in BOOLEAN /\ agentEdits \in 0 .. MaxAgentEdits
    /\ promotion.phase = "removing" => \A f \in AgentFiles \ promotion.left : main[f] = 0
    /\ promotion.phase = "copying" /\ dblEdited = FALSE =>
          \A f \in AgentFiles \ promotion.left : main[f] = dbl[f]
    /\ promotion.phase = "done" /\ dblEdited = FALSE => main = dbl

\* The generator writes what it made of the README and the update it read.
ReadmeInv ==
    /\ readme \in Seq(Tokens) /\ Closed(readme) /\ update \in Updates \cup {NoUpdate}
    /\ generator \in [phase : {"none", "writing", "done", "failed"}, text : Seq(Tokens),
                      runs : 0 .. MaxScriptRuns]
    /\ Closed(generator.text)
    /\ readmeEdited \in BOOLEAN /\ readmeEdits \in 0 .. MaxReadmeEdits
    /\ generator.phase = "writing" /\ readmeEdited = FALSE =>
          generator.text = InjectSection(readme, Generated(update))
    /\ generator.phase = "done" /\ readmeEdited = FALSE /\ ToSet(update) \cap (Section \cup {"$&"}) = {} =>
          InjectSection(readme, Generated(update)) = readme

\* The two parts of the agent scripts, and how often they may still fail.
ScriptsInv == AgentsInv /\ ReadmeInv /\ scriptFaults \in 0 .. MaxScriptFaults

\* What the invariant is for.
LEMMA ScriptsMean ==
    ASSUME ScriptsInv
    PROVE  AgentScriptsTypeOK /\ PromotedIsCopied /\ SectionStable
<1>1. AgentScriptsTypeOK
  BY DEF ScriptsInv, AgentsInv, ReadmeInv, AgentScriptsTypeOK
<1>2. PromotedIsCopied
  BY DEF ScriptsInv, AgentsInv, PromotedIsCopied
<1>3. SectionStable
  BY DEF ScriptsInv, ReadmeInv, SectionStable
<1> QED BY <1>1, <1>2, <1>3

\* What an update says, without a section of its own, is plain.
LEMMA UpdateType ==
    ASSUME ReadmeInv
    PROVE  /\ update \in Seq(Tokens) /\ Generated(update) \in Seq(Tokens)
           /\ ToSet(update) \cap (Section \cup {"$&"}) = {} => Plainly(Generated(update))
<1>1. update \in Seq(Tokens)
  <2>1. "no update file" \in Tokens
    BY DEF Tokens
  <2>2. NoUpdate \in Seq(Tokens)
    BY <2>1, Single, Zenon DEF NoUpdate
  <2> QED BY <2>2, AgentScriptsAssumption DEF ReadmeInv
<1> PICK u \in Seq(Tokens) : u = update
  BY <1>1
<1> PICK h : h = <<"title">>
  OBVIOUS
<1>2. h \in Seq(Tokens) /\ Len(h) = 1 /\ h[1] = "title"
  <2>1. "title" \in Tokens
    BY Zenon DEF Tokens
  <2> QED BY <2>1, Single
<1> PICK n \in Nat : n = Len(u)
  BY LenProperties
<1> PICK g : g = h \o u
  OBVIOUS
<1>3. /\ g \in Seq(Tokens) /\ Len(g) = 1 + n
      /\ \A i \in 1 .. 1 + n : g[i] = IF i <= 1 THEN h[i] ELSE u[i - 1]
  BY <1>2, ConcatProperties
<1>4. ASSUME ToSet(u) \cap (Section \cup {"$&"}) = {} PROVE Plainly(g)
  <2>1. \A i \in 1 .. n : u[i] \notin {"start", "end", "$&"}
    <3>1. \A i \in 1 .. n : u[i] \in ToSet(u)
      BY LenProperties DEF ToSet
    <3> QED BY <1>4, <3>1 DEF Section
  <2>2. \A i \in 1 .. 1 + n : IF i <= 1 THEN i = 1 ELSE i - 1 \in 1 .. n
    OBVIOUS
  <2>3. \A i \in 1 .. 1 + n : g[i] \notin {"start", "end", "$&"}
    BY <1>2, <1>3, <2>1, <2>2
  <2> QED BY <1>3, <2>3 DEF Plainly, Contains
<1>5. Generated(update) = g
  BY Zenon DEF Generated
<1> QED BY <1>1, <1>3, <1>4, <1>5

LEMMA ScriptsStart ==
    ASSUME AgentScriptsInit
    PROVE  ScriptsInv
<1>1. MaxAgentEdits \in Nat /\ MaxReadmeEdits \in Nat /\ MaxScriptFaults \in Nat /\ MaxScriptRuns \in Nat
  BY AgentScriptsAssumption
<1>2. AgentsInv
  <2>1. 0 \in Versions /\ 1 \in Versions /\ 2 \in Versions /\ 0 .. 2 \subseteq Versions
    BY <1>1 DEF Versions
  <2>2. dbl \in [AgentFiles -> Versions] /\ main \in [AgentFiles -> Versions]
    BY <2>1 DEF AgentScriptsInit
  <2>3. 0 \in 0 .. MaxScriptRuns /\ 0 \in 0 .. MaxAgentEdits
    BY <1>1
  <2> QED BY <2>2, <2>3 DEF AgentScriptsInit, AgentsInv, NotPromoting
<1>3. ReadmeInv
  <2>0. <<>> \in Seq(Tokens) /\ Closed(<<>>)
    BY DEF Closed, Contains
  <2>1. readme \in Seq(Tokens) /\ Closed(readme)
    <3>1. CASE readme = <<"prose">>
      BY <3>1 DEF Closed, Contains, Tokens, Section
    <3>2. CASE readme = <<"prose", "start", "end", "prose">>
      <4> PICK r : r = <<"prose", "start", "end", "prose">>
        OBVIOUS
      <4>1. r \in Seq(Tokens) /\ Len(r) = 4 /\ r[3] = "end" /\ 3 \in 1 .. 4
        BY DEF Tokens, Section
      <4> QED BY <3>2, <4>1 DEF Closed, Contains
    <3>3. CASE readme = <<"end", "prose", "start">>
      <4> PICK r : r = <<"end", "prose", "start">>
        OBVIOUS
      <4>1. r \in Seq(Tokens) /\ Len(r) = 3 /\ r[1] = "end" /\ 1 \in 1 .. 3
        BY DEF Tokens, Section
      <4> QED BY <3>3, <4>1 DEF Closed, Contains
    <3> QED BY <3>1, <3>2, <3>3 DEF AgentScriptsInit
  <2>2. 0 \in 0 .. MaxScriptRuns /\ 0 \in 0 .. MaxReadmeEdits
    BY <1>1
  <2>3. /\ generator \in [phase : {"none", "writing", "done", "failed"}, text : Seq(Tokens),
                          runs : 0 .. MaxScriptRuns]
        /\ generator.text = <<>> /\ generator.phase = "none"
    BY <2>0, <2>2 DEF AgentScriptsInit, NotGenerating
  <2>4. Closed(generator.text)
    BY <2>0, <2>3, Zenon
  <2>5. readmeEdited = FALSE /\ readmeEdits = 0 /\ update \in Updates \cup {NoUpdate}
    BY DEF AgentScriptsInit
  <2> QED BY <2>1, <2>2, <2>3, <2>4, <2>5 DEF ReadmeInv
<1> QED BY <1>1, <1>2, <1>3 DEF ScriptsInv, AgentScriptsInit

LEMMA AgentsStayInv ==
    ASSUME AgentsInv, AgentsStay
    PROVE  AgentsInv'
BY DEF AgentsInv, AgentsStay, Versions

LEMMA ReadmeStaysInv ==
    ASSUME ReadmeInv, ReadmeStays
    PROVE  ReadmeInv'
<1>1. UNCHANGED <<readme, update, generator, readmeEdited, readmeEdits>>
  BY DEF ReadmeStays
<1> QED BY <1>1 DEF ReadmeInv, Closed

\* Nothing a promotion does while somebody edits undoes what it has done.
LEMMA PromotionStep ==
    ASSUME ScriptsInv, PromotionNext
    PROVE  ScriptsInv'
<1>0. AgentsInv /\ ReadmeInv /\ scriptFaults \in 0 .. MaxScriptFaults
  BY DEF ScriptsInv
<1>n. /\ MaxAgentEdits \in Nat /\ MaxScriptFaults \in Nat /\ MaxScriptRuns \in Nat
      /\ scriptFaults \in Nat /\ agentEdits \in Nat /\ promotion.runs \in Nat
  BY <1>0, AgentScriptsAssumption DEF AgentsInv
<1>1. ASSUME NEW f \in AgentFiles, NEW deleted, EditDbl(f, deleted) PROVE ScriptsInv'
  <2>1. /\ agentEdits' \in 0 .. MaxAgentEdits /\ UNCHANGED <<main, promotion, scriptFaults>>
        /\ dblEdited' = TRUE
    BY <1>1, <1>n DEF EditDbl
  <2>2. (IF deleted THEN 0 ELSE agentEdits' + 2) \in Versions
    <3>1. 0 \in 0 .. MaxAgentEdits + 2
      BY <1>n
    <3>2. \A v \in 0 .. MaxAgentEdits : v + 2 \in 0 .. MaxAgentEdits + 2
      BY <1>n
    <3>3. agentEdits' + 2 \in 0 .. MaxAgentEdits + 2
      BY <2>1, <3>2
    <3> QED BY <3>1, <3>3, Zenon DEF Versions
  <2>3. dbl' \in [AgentFiles -> Versions]
    BY <1>0, <1>1, <2>2 DEF EditDbl, AgentsInv
  <2>4. AgentsInv'
    BY <1>0, <2>1, <2>3 DEF AgentsInv, Versions
  <2>5. ReadmeInv'
    BY <1>0, <1>1, ReadmeStaysInv DEF EditDbl
  <2> QED BY <1>0, <2>1, <2>4, <2>5 DEF ScriptsInv
<1>2. ASSUME NEW f \in AgentFiles, RemoveOne(f) PROVE ScriptsInv'
  <2>0. promotion.phase = "removing" /\ f \in promotion.left
    BY <1>2 DEF RemoveOne
  <2>1. UNCHANGED <<dbl, dblEdited, agentEdits, scriptFaults>>
    BY <1>2 DEF RemoveOne
  <2>2. main' \in [AgentFiles -> Versions] /\ \A g \in AgentFiles : main'[g] = IF g = f THEN 0 ELSE main[g]
    <3>1. 0 \in Versions
      BY <1>n DEF Versions
    <3> QED BY <1>0, <1>2, <3>1 DEF RemoveOne, AgentsInv
  <2>3. /\ promotion' \in [phase : {"none", "removing", "copying", "done", "failed"},
                           left : SUBSET AgentFiles, runs : 0 .. MaxScriptRuns]
        /\ promotion'.phase = "removing" /\ promotion'.left = promotion.left \ {f}
    BY <1>0, <1>2 DEF RemoveOne, AgentsInv
  <2>4. \A g \in AgentFiles \ promotion'.left : main'[g] = 0
    BY <1>0, <2>0, <2>2, <2>3 DEF AgentsInv
  <2>5. AgentsInv'
    BY <1>0, <2>1, <2>2, <2>3, <2>4 DEF AgentsInv, Versions
  <2>6. ReadmeInv'
    BY <1>0, <1>2, ReadmeStaysInv DEF RemoveOne
  <2> QED BY <1>0, <2>1, <2>5, <2>6 DEF ScriptsInv
<1>3. ASSUME NEW f \in AgentFiles, CopyOne(f) PROVE ScriptsInv'
  <2>0. promotion.phase = "copying" /\ f \in promotion.left
    BY <1>3 DEF CopyOne
  <2>1. UNCHANGED <<dbl, dblEdited, agentEdits, scriptFaults>>
    BY <1>3 DEF CopyOne
  <2>2. CASE dbl[f] = 0
    <3>1. /\ promotion' \in [phase : {"none", "removing", "copying", "done", "failed"},
                             left : SUBSET AgentFiles, runs : 0 .. MaxScriptRuns]
          /\ promotion'.phase = "failed" /\ main' = main
      BY <1>0, <1>3, <2>2 DEF CopyOne, AgentsInv
    <3>2. AgentsInv'
      BY <1>0, <2>1, <3>1 DEF AgentsInv, Versions
    <3>3. ReadmeInv'
      BY <1>0, <1>3, ReadmeStaysInv DEF CopyOne
    <3> QED BY <1>0, <2>1, <3>2, <3>3 DEF ScriptsInv
  <2>3. CASE dbl[f] # 0
    <3>1. /\ promotion' \in [phase : {"none", "removing", "copying", "done", "failed"},
                             left : SUBSET AgentFiles, runs : 0 .. MaxScriptRuns]
          /\ promotion'.phase = "copying" /\ promotion'.left = promotion.left \ {f}
      BY <1>0, <1>3, <2>0, <2>3 DEF CopyOne, AgentsInv
    <3>2. /\ main' \in [AgentFiles -> Versions]
          /\ \A g \in AgentFiles : main'[g] = IF g = f THEN dbl[f] ELSE main[g]
      BY <1>0, <1>3, <2>3 DEF CopyOne, AgentsInv
    <3>3. dblEdited = FALSE => \A g \in AgentFiles \ promotion'.left : main'[g] = dbl[g]
      BY <1>0, <2>0, <3>1, <3>2 DEF AgentsInv
    <3>4. AgentsInv'
      BY <1>0, <2>1, <3>1, <3>2, <3>3 DEF AgentsInv, Versions
    <3>5. ReadmeInv'
      BY <1>0, <1>3, ReadmeStaysInv DEF CopyOne
    <3> QED BY <1>0, <2>1, <3>4, <3>5 DEF ScriptsInv
  <2> QED BY <2>2, <2>3
<1>4. ASSUME Promote PROVE ScriptsInv'
  <2>1. UNCHANGED <<dbl, main, agentEdits, scriptFaults>> /\ dblEdited' = FALSE
    BY <1>4 DEF Promote
  <2>2. /\ promotion' \in [phase : {"none", "removing", "copying", "done", "failed"},
                           left : SUBSET AgentFiles, runs : 0 .. MaxScriptRuns]
        /\ promotion'.phase = "removing" /\ promotion'.left = {f \in AgentFiles : main[f] # 0}
    <3>1. promotion.runs + 1 \in 0 .. MaxScriptRuns
      BY <1>4, <1>n DEF Promote
    <3> QED BY <1>4, <3>1 DEF Promote
  <2>3. \A f \in AgentFiles \ promotion'.left : main'[f] = 0
    BY <2>1, <2>2
  <2>4. AgentsInv'
    BY <1>0, <2>1, <2>2, <2>3 DEF AgentsInv, Versions
  <2>5. ReadmeInv'
    BY <1>0, <1>4, ReadmeStaysInv DEF Promote
  <2> QED BY <1>0, <2>1, <2>4, <2>5 DEF ScriptsInv
<1>5. ASSUME ListDbl PROVE ScriptsInv'
  <2>0. promotion.phase = "removing" /\ promotion.left = {}
    BY <1>5 DEF ListDbl
  <2>1. UNCHANGED <<dbl, main, dblEdited, agentEdits, scriptFaults>>
    BY <1>5 DEF ListDbl
  <2>2. /\ promotion' \in [phase : {"none", "removing", "copying", "done", "failed"},
                           left : SUBSET AgentFiles, runs : 0 .. MaxScriptRuns]
        /\ promotion'.phase = "copying" /\ promotion'.left = {f \in AgentFiles : dbl[f] # 0}
    <3> PICK p : p = promotion
      OBVIOUS
    <3> PICK l \in SUBSET AgentFiles : l = {f \in AgentFiles : dbl[f] # 0}
      OBVIOUS
    <3>1. p \in [phase : {"none", "removing", "copying", "done", "failed"},
                 left : SUBSET AgentFiles, runs : 0 .. MaxScriptRuns]
      BY <1>0 DEF AgentsInv
    <3>2. promotion' = [p EXCEPT !.phase = "copying", !.left = l]
      BY <1>5 DEF ListDbl
    <3> QED BY <3>1, <3>2, Zenon
  <2>3. \A f \in AgentFiles \ promotion'.left : main'[f] = dbl[f]
    BY <1>0, <2>0, <2>1, <2>2 DEF AgentsInv
  <2>4. AgentsInv'
    BY <1>0, <2>1, <2>2, <2>3 DEF AgentsInv, Versions
  <2>5. ReadmeInv'
    BY <1>0, <1>5, ReadmeStaysInv DEF ListDbl
  <2> QED BY <1>0, <2>1, <2>4, <2>5 DEF ScriptsInv
<1>6. ASSUME Promoted PROVE ScriptsInv'
  <2>0. promotion.phase = "copying" /\ promotion.left = {}
    BY <1>6 DEF Promoted
  <2>1. UNCHANGED <<dbl, main, dblEdited, agentEdits, scriptFaults>>
    BY <1>6 DEF Promoted
  <2>2. /\ promotion' \in [phase : {"none", "removing", "copying", "done", "failed"},
                           left : SUBSET AgentFiles, runs : 0 .. MaxScriptRuns]
        /\ promotion'.phase = "done"
    BY <1>0, <1>6 DEF Promoted, AgentsInv
  <2>3. dblEdited = FALSE => main = dbl
    <3> SUFFICES ASSUME dblEdited = FALSE PROVE main = dbl
      BY Zenon
    <3>1. \A f \in AgentFiles : main[f] = dbl[f]
      BY <1>0, <2>0 DEF AgentsInv
    <3>2. main \in [AgentFiles -> Versions] /\ dbl \in [AgentFiles -> Versions]
      BY <1>0 DEF AgentsInv
    <3> QED BY <3>1, <3>2
  <2>4. AgentsInv'
    BY <1>0, <2>1, <2>2, <2>3 DEF AgentsInv, Versions
  <2>5. ReadmeInv'
    BY <1>0, <1>6, ReadmeStaysInv DEF Promoted
  <2> QED BY <1>0, <2>1, <2>4, <2>5 DEF ScriptsInv
<1>7. ASSUME PromotionDies PROVE ScriptsInv'
  <2>1. UNCHANGED <<dbl, main, dblEdited, agentEdits>> /\ scriptFaults' \in 0 .. MaxScriptFaults
    BY <1>7, <1>n DEF PromotionDies
  <2>2. /\ promotion' \in [phase : {"none", "removing", "copying", "done", "failed"},
                           left : SUBSET AgentFiles, runs : 0 .. MaxScriptRuns]
        /\ promotion'.phase = "failed"
    BY <1>0, <1>7 DEF PromotionDies, AgentsInv
  <2>4. AgentsInv'
    BY <1>0, <2>1, <2>2 DEF AgentsInv, Versions
  <2>5. ReadmeInv'
    BY <1>0, <1>7, ReadmeStaysInv DEF PromotionDies
  <2> QED BY <2>1, <2>4, <2>5 DEF ScriptsInv
<1> QED BY <1>1, <1>2, <1>3, <1>4, <1>5, <1>6, <1>7 DEF PromotionNext

\* Prose before a text changes nothing about its markers.
LEMMA ProseBefore ==
    ASSUME NEW text \in Seq(Tokens), Closed(text)
    PROVE  <<"prose">> \o text \in Seq(Tokens) /\ Closed(<<"prose">> \o text)
<1> PICK n \in Nat : n = Len(text)
  BY LenProperties
<1> PICK h : h = <<"prose">>
  OBVIOUS
<1> PICK t : t = h \o text
  OBVIOUS
<1>1. h \in Seq(Tokens) /\ Len(h) = 1 /\ h[1] = "prose"
  <2>1. "prose" \in Tokens
    BY Zenon DEF Tokens
  <2> QED BY <2>1, Single
<1>2. /\ t \in Seq(Tokens) /\ Len(t) = 1 + n
      /\ \A i \in 1 .. 1 + n : t[i] = IF i <= 1 THEN h[i] ELSE text[i - 1]
  BY <1>1, ConcatProperties
<1>3. ASSUME Contains(t, "start") PROVE Contains(t, "end")
  <2>1. PICK i \in 1 .. 1 + n : t[i] = "start"
    BY <1>2, <1>3 DEF Contains
  <2>2. i # 1
    BY <1>1, <1>2, <2>1
  <2>3. i - 1 \in 1 .. n /\ text[i - 1] = "start"
    BY <1>2, <2>1, <2>2
  <2>4. Contains(text, "start")
    BY <2>3 DEF Contains
  <2>5. PICK j \in 1 .. n : text[j] = "end"
    BY <2>4 DEF Closed, Contains
  <2>6. 1 + j \in 1 .. 1 + n /\ ~(1 + j <= 1) /\ (1 + j) - 1 = j
    OBVIOUS
  <2>7. t[1 + j] = "end"
    BY <1>2, <2>5, <2>6
  <2> QED BY <1>2, <2>6, <2>7 DEF Contains
<1> QED BY <1>2, <1>3 DEF Closed

\* The section of the README is stable once it is written.
LEMMA ReadmeStep ==
    ASSUME ScriptsInv, ReadmeNext
    PROVE  ScriptsInv'
<1>0. AgentsInv /\ ReadmeInv /\ scriptFaults \in 0 .. MaxScriptFaults
  BY DEF ScriptsInv
<1>n. /\ MaxReadmeEdits \in Nat /\ MaxScriptFaults \in Nat /\ MaxScriptRuns \in Nat
      /\ scriptFaults \in Nat /\ readmeEdits \in Nat /\ generator.runs \in Nat
  BY <1>0, AgentScriptsAssumption DEF ReadmeInv
<1> DEFINE GeneratorType == [phase : {"none", "writing", "done", "failed"}, text : Seq(Tokens),
                             runs : 0 .. MaxScriptRuns]
<1>e. <<>> \in Seq(Tokens) /\ Closed(<<>>)
  BY DEF Closed, Contains
<1>1. ASSUME EditReadme(<<"prose">>) PROVE ScriptsInv'
  <2>1. /\ UNCHANGED <<update, generator, scriptFaults>> /\ readmeEdited' = TRUE
        /\ readmeEdits' \in 0 .. MaxReadmeEdits
    BY <1>1, <1>n DEF EditReadme
  <2>2. readme' \in Seq(Tokens) /\ Closed(readme')
    <3>1. readme' = <<"prose">> \o readme
      BY <1>1 DEF EditReadme
    <3>2. readme \in Seq(Tokens) /\ Closed(readme)
      BY <1>0 DEF ReadmeInv
    <3>3. <<"prose">> \o readme \in Seq(Tokens) /\ Closed(<<"prose">> \o readme)
      BY <3>2, ProseBefore
    <3> QED BY <3>1, <3>3, Zenon
  <2>3. Closed(readme)'
    BY <2>2 DEF Closed, Contains
  <2>4. generator' \in GeneratorType /\ Closed(generator.text)' /\ update' \in Updates \cup {NoUpdate}
    BY <1>0, <2>1 DEF ReadmeInv, Closed
  <2>5. ReadmeInv'
    <3> HIDE DEF GeneratorType
    <3> SUFFICES /\ readme' \in Seq(Tokens) /\ Closed(readme)' /\ (update \in Updates \cup {NoUpdate})'
                 /\ (generator \in GeneratorType)' /\ Closed(generator.text)'
                 /\ readmeEdited' = TRUE /\ readmeEdits' \in 0 .. MaxReadmeEdits
      BY Zenon DEF ReadmeInv, GeneratorType
    <3> QED BY <2>1, <2>2, <2>3, <2>4
  <2>6. AgentsInv'
    BY <1>0, <1>1, AgentsStayInv DEF EditReadme
  <2> QED BY <1>0, <2>1, <2>5, <2>6 DEF ScriptsInv
<1>2. ASSUME NEW text \in Updates, EditUpdate(text) PROVE ScriptsInv'
  <2>1. /\ UNCHANGED <<readme, generator, scriptFaults>> /\ readmeEdited' = TRUE
        /\ readmeEdits' \in 0 .. MaxReadmeEdits /\ update' = text
    BY <1>2, <1>n DEF EditUpdate
  <2>2. ReadmeInv'
    <3> HIDE DEF GeneratorType
    <3>1. readme' \in Seq(Tokens) /\ Closed(readme)' /\ Closed(generator.text)'
      BY <1>0, <2>1 DEF ReadmeInv, Closed
    <3>2. generator' \in GeneratorType
      BY <1>0, <2>1 DEF ReadmeInv, GeneratorType
    <3> SUFFICES /\ readme' \in Seq(Tokens) /\ Closed(readme)' /\ (update \in Updates \cup {NoUpdate})'
                 /\ (generator \in GeneratorType)' /\ Closed(generator.text)'
                 /\ readmeEdited' = TRUE /\ readmeEdits' \in 0 .. MaxReadmeEdits
      BY Zenon DEF ReadmeInv, GeneratorType
    <3> QED BY <2>1, <3>1, <3>2
  <2>3. AgentsInv'
    BY <1>0, <1>2, AgentsStayInv DEF EditUpdate
  <2> QED BY <1>0, <2>1, <2>2, <2>3 DEF ScriptsInv
<1>3. ASSUME ReadUpdates PROVE ScriptsInv'
  <2>1. UNCHANGED <<readme, update, readmeEdits, scriptFaults>> /\ readmeEdited' = FALSE
    BY <1>3 DEF ReadUpdates
  <2> PICK t : t = InjectSection(readme, Generated(update))
    OBVIOUS
  <2>2. t \in Seq(Tokens) /\ Closed(t)
    <3>1. readme \in Seq(Tokens) /\ Closed(readme)
      BY <1>0 DEF ReadmeInv
    <3>2. Generated(update) \in Seq(Tokens)
      BY <1>0, UpdateType
    <3> QED BY <3>1, <3>2, InjectType
  <2>3. generator' \in GeneratorType /\ generator'.phase = "writing" /\ generator'.text = t
    <3>1. generator.runs + 1 \in 0 .. MaxScriptRuns
      BY <1>3, <1>n DEF ReadUpdates
    <3>2. generator' = [phase |-> "writing", text |-> t, runs |-> generator.runs + 1]
      BY <1>3 DEF ReadUpdates
    <3> QED BY <2>2, <3>1, <3>2
  <2>4. Closed(readme)' /\ Closed(generator.text)'
    BY <1>0, <2>1, <2>2, <2>3 DEF ReadmeInv, Closed
  <2>5. (generator.text = InjectSection(readme, Generated(update)))'
    <3>1. InjectSection(readme', Generated(update')) = InjectSection(readme, Generated(update))
      BY <2>1
    <3> QED BY <2>3, <3>1 DEF InjectSection, Generated
  <2>6. ReadmeInv'
    <3> HIDE DEF GeneratorType
    <3>1. /\ readme' \in Seq(Tokens) /\ (update \in Updates \cup {NoUpdate})'
          /\ readmeEdits' \in 0 .. MaxReadmeEdits
      BY <1>0, <2>1 DEF ReadmeInv
    <3>2. generator'.phase # "done" /\ readmeEdited' \in BOOLEAN
      BY <2>1, <2>3
    <3> SUFFICES /\ readme' \in Seq(Tokens) /\ Closed(readme)' /\ (update \in Updates \cup {NoUpdate})'
                 /\ (generator \in GeneratorType)' /\ Closed(generator.text)'
                 /\ readmeEdited' \in BOOLEAN /\ readmeEdits' \in 0 .. MaxReadmeEdits
                 /\ (generator.text = InjectSection(readme, Generated(update)))'
                 /\ generator'.phase # "done"
      BY Zenon DEF ReadmeInv, GeneratorType
    <3> QED BY <2>3, <2>4, <2>5, <3>1, <3>2
  <2>7. AgentsInv'
    BY <1>0, <1>3, AgentsStayInv DEF ReadUpdates
  <2> QED BY <1>0, <2>1, <2>6, <2>7 DEF ScriptsInv
<1>4. ASSUME WriteReadme PROVE ScriptsInv'
  <2>0. generator.phase = "writing"
    BY <1>4 DEF WriteReadme
  <2>1. UNCHANGED <<update, readmeEdited, readmeEdits, scriptFaults>> /\ readme' = generator.text
    BY <1>4 DEF WriteReadme
  <2>2. generator' \in GeneratorType /\ generator'.phase = "done" /\ generator'.text = <<>>
    <3> PICK p : p = generator
      OBVIOUS
    <3> PICK e : e = <<>>
      OBVIOUS
    <3>0. e \in Seq(Tokens)
      BY <1>e
    <3>1. p \in GeneratorType
      BY <1>0 DEF ReadmeInv
    <3>2. generator' = [p EXCEPT !.text = e, !.phase = "done"]
      BY <1>4 DEF WriteReadme
    <3> QED BY <3>0, <3>1, <3>2
  <2>3. generator.text \in Seq(Tokens) /\ Closed(generator.text) /\ Closed(readme)
    BY <1>0 DEF ReadmeInv
  <2>4. readme' \in Seq(Tokens) /\ Closed(readme)' /\ Closed(generator.text)'
    BY <1>e, <2>1, <2>2, <2>3 DEF Closed
  <2>5. ASSUME readmeEdited = FALSE, ToSet(update) \cap (Section \cup {"$&"}) = {}
        PROVE  InjectSection(readme', Generated(update)) = readme'
    <3>1. generator.text = InjectSection(readme, Generated(update))
      BY <1>0, <2>0, <2>5 DEF ReadmeInv
    <3>2. Generated(update) \in Seq(Tokens) /\ Plainly(Generated(update))
      BY <1>0, <2>5, UpdateType
    <3>3. readme \in Seq(Tokens)
      BY <1>0 DEF ReadmeInv
    <3>4. InjectSection(generator.text, Generated(update)) = generator.text
      BY <2>3, <3>1, <3>2, <3>3, InjectStable
    <3> QED BY <2>1, <3>4
  <2>6. ReadmeInv'
    <3> HIDE DEF GeneratorType
    <3>1. (update \in Updates \cup {NoUpdate})' /\ readmeEdits' \in 0 .. MaxReadmeEdits
          /\ readmeEdited' \in BOOLEAN
      BY <1>0, <2>1 DEF ReadmeInv
    <3>2. generator'.phase # "writing"
      BY <2>2
    <3>3. (readmeEdited = FALSE /\ ToSet(update) \cap (Section \cup {"$&"}) = {} =>
              InjectSection(readme, Generated(update)) = readme)'
      BY <2>1, <2>5 DEF InjectSection, Generated, ToSet
    <3> SUFFICES /\ readme' \in Seq(Tokens) /\ Closed(readme)' /\ (update \in Updates \cup {NoUpdate})'
                 /\ (generator \in GeneratorType)' /\ Closed(generator.text)'
                 /\ readmeEdited' \in BOOLEAN /\ readmeEdits' \in 0 .. MaxReadmeEdits
                 /\ (readmeEdited = FALSE /\ ToSet(update) \cap (Section \cup {"$&"}) = {} =>
                        InjectSection(readme, Generated(update)) = readme)'
                 /\ generator'.phase # "writing"
      BY Zenon DEF ReadmeInv, GeneratorType
    <3> QED BY <2>2, <2>4, <3>1, <3>2, <3>3
  <2>7. AgentsInv'
    BY <1>0, <1>4, AgentsStayInv DEF WriteReadme
  <2> QED BY <1>0, <2>1, <2>6, <2>7 DEF ScriptsInv
<1>5. ASSUME GeneratorDies PROVE ScriptsInv'
  <2>1. /\ UNCHANGED <<readme, update, readmeEdited, readmeEdits>>
        /\ scriptFaults' \in 0 .. MaxScriptFaults
    BY <1>5, <1>n DEF GeneratorDies
  <2>2. generator' \in GeneratorType /\ generator'.phase = "failed" /\ generator'.text = <<>>
    <3> PICK p : p = generator
      OBVIOUS
    <3> PICK e : e = <<>>
      OBVIOUS
    <3>0. e \in Seq(Tokens)
      BY <1>e
    <3>1. p \in GeneratorType
      BY <1>0 DEF ReadmeInv
    <3>2. generator' = [p EXCEPT !.text = e, !.phase = "failed"]
      BY <1>5 DEF GeneratorDies
    <3> QED BY <3>0, <3>1, <3>2
  <2>4. Closed(readme)' /\ Closed(generator.text)'
    BY <1>0, <1>e, <2>1, <2>2 DEF ReadmeInv, Closed
  <2>6. ReadmeInv'
    <3> HIDE DEF GeneratorType
    <3>1. /\ readme' \in Seq(Tokens) /\ (update \in Updates \cup {NoUpdate})'
          /\ readmeEdits' \in 0 .. MaxReadmeEdits /\ readmeEdited' \in BOOLEAN
      BY <1>0, <2>1 DEF ReadmeInv
    <3>2. generator'.phase # "writing" /\ generator'.phase # "done"
      BY <2>2
    <3> SUFFICES /\ readme' \in Seq(Tokens) /\ Closed(readme)' /\ (update \in Updates \cup {NoUpdate})'
                 /\ (generator \in GeneratorType)' /\ Closed(generator.text)'
                 /\ readmeEdited' \in BOOLEAN /\ readmeEdits' \in 0 .. MaxReadmeEdits
                 /\ generator'.phase # "writing" /\ generator'.phase # "done"
      BY Zenon DEF ReadmeInv, GeneratorType
    <3> QED BY <2>2, <2>4, <3>1, <3>2
  <2>7. AgentsInv'
    BY <1>0, <1>5, AgentsStayInv DEF GeneratorDies
  <2> QED BY <2>1, <2>6, <2>7 DEF ScriptsInv
<1> QED BY <1>1, <1>2, <1>3, <1>4, <1>5 DEF ReadmeNext

LEMMA ScriptsIdle ==
    ASSUME ScriptsInv, UNCHANGED scriptVars
    PROVE  ScriptsInv'
<1>1. AgentsStay /\ ReadmeStays /\ scriptFaults' = scriptFaults
  BY DEF scriptVars, AgentsStay, ReadmeStays
<1>2. AgentsInv /\ ReadmeInv /\ scriptFaults \in 0 .. MaxScriptFaults
  BY DEF ScriptsInv
<1> QED BY <1>1, <1>2, AgentsStayInv, ReadmeStaysInv DEF ScriptsInv

-----------------------------------------------------------------------------
(* The sync of shared repositories *)

\* What a branch holds is not lost, and nothing is tracked that is not there.
BranchesInv ==
    /\ work \in [Repos -> SUBSET Works] /\ head \in [Repos -> SUBSET Works]
    /\ remote \in [Repos -> SUBSET Works] /\ tracked \in [Repos -> (SUBSET Works) \cup {NoUpstream}]
    /\ \A r \in Repos : head[r] \subseteq work[r]
    /\ \A r \in Repos : tracked[r] = NoUpstream \/ tracked[r] \subseteq remote[r]

\* The script is at the directory after the last result; what it found there is
\* still in the working tree, and committed when it has been checked.
RoundInv ==
    /\ sync \in [at : 1 .. 3, step : {"look", "commit", "dirty", "count", "push"},
                 asked : SUBSET Works]
    /\ results \in Seq([state : {"skip", "ok", "pushed", "error"}, asked : SUBSET Works])
    /\ Len(results) = sync.at - 1
    /\ sync.step # "look" => /\ sync.at <= 2 /\ Here \in Repos
                             /\ sync.asked \subseteq work[Here]
    /\ sync.step \in {"count", "push"} => sync.asked \subseteq head[Here]

\* A result that promises something is one of a repository.
ResultsInv ==
    \A i \in 1 .. Len(results) :
        results[i].state \in {"ok", "pushed"} =>
            repoAt[i] \in Repos /\ results[i].asked \subseteq remote[repoAt[i]]

\* Which directories are repositories, and what may still happen to them.
SyncLimits ==
    /\ repoAt \in {"root"} \X (Repos \cup {None}) /\ detached \subseteq Repos
    /\ autoCommit \in BOOLEAN
    /\ works \in 0 .. MaxWorks /\ peerPushes \in 0 .. MaxPeerPushes
    /\ gitFaults \in 0 .. MaxGitFaults

SyncInv == BranchesInv /\ RoundInv /\ ResultsInv /\ SyncLimits

LEMMA SyncMeans ==
    ASSUME SyncInv
    PROVE  SharedSyncTypeOK /\ SyncedIsPushed
<1>1. SharedSyncTypeOK
  BY DEF SyncInv, BranchesInv, RoundInv, SyncLimits, SharedSyncTypeOK
<1>2. SyncedIsPushed
  <2>1. DOMAIN results = 1 .. Len(results)
    BY LenProperties DEF SyncInv, RoundInv
  <2> QED BY <2>1 DEF SyncInv, ResultsInv, SyncedIsPushed
<1> QED BY <1>1, <1>2

LEMMA SyncStart ==
    ASSUME SharedSyncInit
    PROVE  SyncInv
<1>n. MaxWorks \in Nat /\ MaxPeerPushes \in Nat /\ MaxGitFaults \in Nat
  BY SharedSyncAssumption
<1>1. BranchesInv
  <2>1. {0} \in SUBSET Works /\ {} \in SUBSET Works
    BY <1>n DEF Works
  <2>2. \A r \in Repos : head[r] = {0} /\ work[r] = {0}
    BY DEF SharedSyncInit
  <2> PICK zero : zero = {0}
    OBVIOUS
  <2>3. CASE tracked = [r \in Repos |-> {0}] /\ remote = tracked
    BY <2>1, <2>2, <2>3 DEF BranchesInv, SharedSyncInit
  <2>4. CASE tracked = [r \in Repos |-> NoUpstream] /\ remote = [r \in Repos |-> {}]
    BY <2>1, <2>2, <2>4 DEF BranchesInv, SharedSyncInit
  <2> QED BY <2>3, <2>4 DEF SharedSyncInit
<1>2. RoundInv
  <2> DEFINE ResultType == [state : {"skip", "ok", "pushed", "error"}, asked : SUBSET Works]
  <2>1. results \in Seq(ResultType) /\ Len(results) = 0
    BY DEF SharedSyncInit
  <2>2. sync = [at |-> 1, step |-> "look", asked |-> {}]
    BY DEF SharedSyncInit
  <2>3. sync \in [at : 1 .. 3, step : {"look", "commit", "dirty", "count", "push"}, asked : SUBSET Works]
    BY <2>2
  <2> QED BY <2>1, <2>2, <2>3 DEF RoundInv
<1>3. ResultsInv
  <2>1. Len(results) = 0
    BY DEF SharedSyncInit
  <2> QED BY <2>1 DEF ResultsInv
<1>4. SyncLimits
  <2>1. repoAt \in {"root"} \X (Repos \cup {None})
    <3>1. PICK linked \in Repos \cup {None} : repoAt = <<"root", linked>>
      BY DEF SharedSyncInit
    <3> QED BY <3>1
  <2>2. detached \subseteq Repos
    BY DEF SharedSyncInit, Repos
  <2> QED BY <1>n, <2>1, <2>2 DEF SyncLimits, SharedSyncInit
<1> QED BY <1>1, <1>2, <1>3, <1>4 DEF SyncInv

\* Whatever developers and others do, branches only grow.
Grows(branch) == \A r \in Repos : branch[r] \subseteq branch'[r]

LEMMA OthersWork ==
    ASSUME SyncInv, BranchesInv', Grows(work), Grows(head), Grows(remote),
           UNCHANGED <<sync, results, repoAt>>, SyncLimits'
    PROVE  SyncInv'
<1>1. RoundInv'
  BY DEF SyncInv, RoundInv, Here, Grows
<1>2. ResultsInv'
  BY DEF SyncInv, ResultsInv, Grows
<1> QED BY <1>1, <1>2 DEF SyncInv

\* The script is done with a repository.
LEMMA NextResult ==
    ASSUME SyncInv, BranchesInv', Grows(remote), SyncLimits', repoAt' = repoAt, sync.at <= 2,
           NEW state \in {"skip", "ok", "pushed", "error"}, NEW asked \in SUBSET Works,
           RepoEnds(state, asked),
           state \in {"ok", "pushed"} => Here \in Repos /\ asked \subseteq remote'[Here]
    PROVE  SyncInv'
<1> DEFINE ResultType == [state : {"skip", "ok", "pushed", "error"}, asked : SUBSET Works]
<1>0. RoundInv /\ ResultsInv
  BY DEF SyncInv
<1>1. sync.at \in {1, 2} /\ Len(results) = sync.at - 1 /\ results \in Seq(ResultType)
  <2>1. sync.at \in 1 .. 3
    BY <1>0 DEF RoundInv
  <2> QED BY <1>0, <2>1 DEF RoundInv
<1>2. sync' = [at |-> sync.at + 1, step |-> "look", asked |-> {}]
  BY DEF RepoEnds
<1> PICK n \in Nat : n = sync.at /\ n \in {1, 2} /\ Len(results) = n - 1
  BY <1>1
<1> PICK last : last = [state |-> state, asked |-> asked]
  OBVIOUS
<1>3. last \in ResultType /\ last.state = state /\ last.asked = asked
  OBVIOUS
<1>4. /\ results' \in Seq(ResultType) /\ Len(results') = n
      /\ results'[n] = last
      /\ \A i \in 1 .. n - 1 : results'[i] = results[i]
  <2>1. results' = Append(results, last)
    BY DEF RepoEnds
  <2>2. /\ results' \in Seq(ResultType) /\ Len(results') = Len(results) + 1
        /\ \A i \in 1 .. Len(results) : results'[i] = results[i]
        /\ results'[Len(results) + 1] = last
    BY <1>1, <1>3, <2>1, AppendProperties
  <2>3. Len(results) + 1 = n
    BY <1>1
  <2> QED BY <2>2, <2>3
<1>5. RoundInv'
  <2>1. sync'.at = n + 1 /\ sync'.step = "look"
    BY <1>2
  <2>2. sync' \in [at : 1 .. 3, step : {"look", "commit", "dirty", "count", "push"}, asked : SUBSET Works]
    <3>1. n + 1 \in 1 .. 3
      OBVIOUS
    <3> QED BY <1>2, <3>1
  <2> QED BY <1>4, <2>1, <2>2 DEF RoundInv
<1>6. ResultsInv'
  <2> SUFFICES ASSUME NEW i \in 1 .. n, results'[i].state \in {"ok", "pushed"}
               PROVE  repoAt[i] \in Repos /\ results'[i].asked \subseteq remote'[repoAt[i]]
    BY <1>4 DEF ResultsInv
  <2>1. CASE i = n
    <3>1. results'[i] = last /\ Here = repoAt[i]
      BY <1>4, <2>1 DEF Here
    <3> QED BY <1>3, <3>1
  <2>2. CASE i # n
    <3>1. i \in 1 .. n - 1
      BY <2>2
    <3>2. results'[i] = results[i] /\ i \in 1 .. Len(results)
      BY <1>4, <3>1
    <3>3. repoAt[i] \in Repos /\ results[i].asked \subseteq remote[repoAt[i]]
      BY <1>0, <3>2 DEF ResultsInv
    <3> QED BY <3>2, <3>3 DEF Grows
  <2> QED BY <2>1, <2>2
<1> QED BY <1>5, <1>6 DEF SyncInv

\* The script goes on with the same repository.
LEMMA NextOfTheSteps ==
    ASSUME SyncInv, BranchesInv', SyncLimits', UNCHANGED <<repoAt, work, remote, results>>, Grows(head),
           sync' \in [at : 1 .. 3, step : {"commit", "dirty", "count", "push"}, asked : SUBSET Works],
           sync'.at = sync.at, sync.at <= 2, Here \in Repos, sync'.asked \subseteq work[Here],
           sync'.step \in {"count", "push"} => sync'.asked \subseteq head'[Here]
    PROVE  SyncInv'
<1>1. RoundInv'
  <2>1. sync' \in [at : 1 .. 3, step : {"look", "commit", "dirty", "count", "push"}, asked : SUBSET Works]
    OBVIOUS
  <2>2. Here' = Here
    BY DEF Here
  <2> QED BY <2>1, <2>2 DEF SyncInv, RoundInv
<1>2. ResultsInv'
  BY DEF SyncInv, ResultsInv
<1> QED BY <1>1, <1>2 DEF SyncInv

\* A step of the script, of a developer, or of somebody who pushes.
LEMMA SyncStep ==
    ASSUME SyncInv, SharedSyncNext
    PROVE  SyncInv'
<1>0. BranchesInv /\ RoundInv /\ ResultsInv /\ SyncLimits
  BY DEF SyncInv
<1>n. /\ MaxWorks \in Nat /\ MaxPeerPushes \in Nat /\ MaxGitFaults \in Nat
      /\ works \in Nat /\ peerPushes \in Nat /\ gitFaults \in Nat
  BY <1>0, SharedSyncAssumption DEF SyncLimits
<1>a. sync.asked \in SUBSET Works /\ sync.at \in 1 .. 3
  BY <1>0 DEF RoundInv
<1>1. ASSUME NEW r \in Repos, Edit(r) PROVE SyncInv'
  <2>1. /\ UNCHANGED <<repoAt, detached, head, tracked, remote, sync, results, autoCommit, peerPushes,
                      gitFaults>>
        /\ works' \in 0 .. MaxWorks /\ works' \in Works
    BY <1>1, <1>n DEF Edit, Works
  <2>2. work' = [work EXCEPT ![r] = @ \cup {works'}]
    BY <1>1 DEF Edit
  <2>3. work' \in [Repos -> SUBSET Works] /\ \A q \in Repos : work[q] \subseteq work'[q]
    BY <1>0, <2>1, <2>2 DEF BranchesInv
  <2>4. BranchesInv'
    BY <1>0, <2>1, <2>3 DEF BranchesInv, Works
  <2>5. SyncLimits'
    BY <1>0, <2>1 DEF SyncLimits
  <2> QED BY <2>1, <2>3, <2>4, <2>5, OthersWork DEF Grows
<1>2. ASSUME NEW r \in Repos, Commit(r) PROVE SyncInv'
  <2>1. /\ UNCHANGED <<repoAt, detached, work, tracked, remote, sync, results, autoCommit, works,
                      peerPushes, gitFaults>>
        /\ head' = [head EXCEPT ![r] = work[r]]
    BY <1>2 DEF Commit
  <2>2. /\ head' \in [Repos -> SUBSET Works] /\ \A q \in Repos : head[q] \subseteq head'[q]
        /\ \A q \in Repos : head'[q] \subseteq work[q]
    BY <1>0, <2>1 DEF BranchesInv
  <2>3. BranchesInv'
    BY <1>0, <2>1, <2>2 DEF BranchesInv, Works
  <2>4. SyncLimits'
    BY <1>0, <2>1 DEF SyncLimits
  <2> QED BY <2>1, <2>2, <2>3, <2>4, OthersWork DEF Grows
<1>3. ASSUME NEW r \in Repos, Pull(r) PROVE SyncInv'
  <2>1. UNCHANGED <<repoAt, detached, remote, sync, results, autoCommit, works, peerPushes, gitFaults>>
    BY <1>3 DEF Pull
  <2>2. /\ tracked' = [tracked EXCEPT ![r] = remote[r]]
        /\ head' = [head EXCEPT ![r] = @ \cup remote[r]]
        /\ work' = [work EXCEPT ![r] = @ \cup remote[r]]
    BY <1>3 DEF Pull
  <2>3. /\ head' \in [Repos -> SUBSET Works] /\ \A q \in Repos : head[q] \subseteq head'[q]
        /\ work' \in [Repos -> SUBSET Works] /\ \A q \in Repos : work[q] \subseteq work'[q]
        /\ \A q \in Repos : head'[q] \subseteq work'[q]
    BY <1>0, <2>2 DEF BranchesInv
  <2>4. /\ tracked' \in [Repos -> (SUBSET Works) \cup {NoUpstream}]
        /\ \A q \in Repos : tracked'[q] = NoUpstream \/ tracked'[q] \subseteq remote[q]
    BY <1>0, <2>2 DEF BranchesInv
  <2>5. BranchesInv'
    BY <1>0, <2>1, <2>3, <2>4 DEF BranchesInv, Works
  <2>6. SyncLimits'
    BY <1>0, <2>1 DEF SyncLimits
  <2> QED BY <2>1, <2>3, <2>5, <2>6, OthersWork DEF Grows
<1>4. ASSUME NEW r \in Repos, PeerPushes(r) PROVE SyncInv'
  <2>1. /\ UNCHANGED <<repoAt, detached, work, head, tracked, sync, results, autoCommit, works, gitFaults>>
        /\ peerPushes' \in 0 .. MaxPeerPushes
    BY <1>4, <1>n DEF PeerPushes
  <2>2. MaxWorks + peerPushes' \in Works
    <3>1. \A n \in 0 .. MaxPeerPushes : MaxWorks + n \in 0 .. MaxWorks + MaxPeerPushes
      BY <1>n
    <3> QED BY <2>1, <3>1 DEF Works
  <2>3. remote' = [remote EXCEPT ![r] = @ \cup {MaxWorks + peerPushes'}]
    BY <1>4 DEF PeerPushes
  <2>4. remote' \in [Repos -> SUBSET Works] /\ \A q \in Repos : remote[q] \subseteq remote'[q]
    BY <1>0, <2>2, <2>3 DEF BranchesInv
  <2>5. BranchesInv'
    BY <1>0, <2>1, <2>4 DEF BranchesInv, Works
  <2>6. SyncLimits'
    BY <1>0, <2>1 DEF SyncLimits
  <2> QED BY <2>1, <2>4, <2>5, <2>6, OthersWork DEF Grows
<1>s. ASSUME ThisRun, UNCHANGED gitFaults PROVE SyncLimits' /\ repoAt' = repoAt
  BY <1>0, <1>s DEF SyncLimits, ThisRun
<1>u. ASSUME UNCHANGED <<work, head, tracked, remote>>
      PROVE  BranchesInv' /\ Grows(remote) /\ Grows(head)
  BY <1>0, <1>u DEF BranchesInv, Works, Grows
<1>w. sync.step # "look" => Here \in Repos /\ sync.at <= 2 /\ sync.asked \subseteq work[Here]
  BY <1>0 DEF RoundInv
<1>5. ASSUME LookAtRepo PROVE SyncInv'
  <2>1. /\ ThisRun /\ UNCHANGED <<work, head, tracked, remote, gitFaults>> /\ sync.at <= 2
        /\ sync.step = "look"
    BY <1>5 DEF LookAtRepo, Running
  <2>2. BranchesInv' /\ Grows(remote) /\ Grows(head) /\ SyncLimits' /\ repoAt' = repoAt
    BY <2>1, <1>s, <1>u
  <2>3. CASE RepoEnds("skip", {})
    BY <2>1, <2>2, <2>3, NextResult
  <2>4. CASE ~RepoEnds("skip", {})
    <3>1. Here # None /\ UNCHANGED results
      BY <1>5, <2>4 DEF LookAtRepo
    <3>2. PICK step \in {"commit", "dirty"} :
             sync' = [sync EXCEPT !.asked = work[Here], !.step = step]
      BY <1>5, <2>4 DEF LookAtRepo
    <3>3. Here \in Repos
      <4>1. sync.at \in {1, 2} /\ repoAt \in {"root"} \X (Repos \cup {None})
        BY <1>0, <1>a, <2>1 DEF SyncLimits
      <4>2. repoAt[1] \in Repos /\ repoAt[2] \in Repos \cup {None}
        BY <4>1 DEF Repos
      <4> QED BY <3>1, <4>1, <4>2 DEF Here
    <3> PICK p : p = sync
      OBVIOUS
    <3> PICK a \in SUBSET Works : a = work[Here]
      BY <1>0, <3>3 DEF BranchesInv
    <3>4. p \in [at : 1 .. 3, step : {"look", "commit", "dirty", "count", "push"}, asked : SUBSET Works]
      BY <1>0 DEF RoundInv
    <3>5. sync' = [p EXCEPT !.asked = a, !.step = step]
      BY <3>2
    <3>6. /\ sync' \in [at : 1 .. 3, step : {"commit", "dirty", "count", "push"}, asked : SUBSET Works]
          /\ sync'.at = sync.at /\ sync'.asked = a /\ sync'.step = step
      BY <3>4, <3>5
    <3> QED BY <2>1, <2>2, <3>1, <3>3, <3>6, NextOfTheSteps
  <2> QED BY <2>3, <2>4
<1>o. ASSUME NEW step \in {"dirty", "count", "push"}, OnTo(step)
      PROVE  /\ sync' \in [at : 1 .. 3, step : {"commit", "dirty", "count", "push"}, asked : SUBSET Works]
             /\ sync'.at = sync.at /\ sync'.asked = sync.asked /\ sync'.step = step /\ results' = results
  BY <1>0, <1>o DEF OnTo, RoundInv
<1>6. ASSUME AutoCommit PROVE SyncInv'
  <2>1. /\ ThisRun /\ UNCHANGED <<work, tracked, remote, gitFaults>> /\ sync.at <= 2
        /\ sync.step = "commit" /\ OnTo("dirty") /\ head' = [head EXCEPT ![Here] = work[Here]]
    BY <1>6 DEF AutoCommit, Running
  <2>2. SyncLimits' /\ repoAt' = repoAt
    BY <2>1, <1>s
  <2>3. /\ head' \in [Repos -> SUBSET Works] /\ \A q \in Repos : head[q] \subseteq head'[q]
        /\ \A q \in Repos : head'[q] \subseteq work[q]
    BY <1>0, <1>w, <2>1 DEF BranchesInv
  <2>4. BranchesInv'
    BY <1>0, <2>1, <2>3 DEF BranchesInv, Works
  <2>5. /\ sync' \in [at : 1 .. 3, step : {"commit", "dirty", "count", "push"}, asked : SUBSET Works]
        /\ sync'.at = sync.at /\ sync'.asked = sync.asked /\ sync'.step = "dirty" /\ results' = results
    BY <2>1, <1>o
  <2> QED BY <1>w, <2>1, <2>2, <2>3, <2>4, <2>5, NextOfTheSteps DEF Grows
<1>7. ASSUME CheckDirty PROVE SyncInv'
  <2>1. /\ ThisRun /\ UNCHANGED <<work, head, tracked, remote, gitFaults>> /\ sync.at <= 2
        /\ sync.step = "dirty"
    BY <1>7 DEF CheckDirty, Running
  <2>2. BranchesInv' /\ Grows(remote) /\ Grows(head) /\ SyncLimits' /\ repoAt' = repoAt
    BY <2>1, <1>s, <1>u
  <2>3. CASE RepoEnds("skip", sync.asked)
    BY <1>a, <2>1, <2>2, <2>3, NextResult
  <2>4. CASE OnTo("count") /\ work[Here] = head[Here]
    <3>1. /\ sync' \in [at : 1 .. 3, step : {"commit", "dirty", "count", "push"}, asked : SUBSET Works]
          /\ sync'.at = sync.at /\ sync'.asked = sync.asked /\ sync'.step = "count" /\ results' = results
      BY <2>4, <1>o
    <3> QED BY <1>w, <2>1, <2>2, <2>4, <3>1, NextOfTheSteps
  <2> QED BY <1>7, <2>3, <2>4 DEF CheckDirty
<1>8. ASSUME CountAhead PROVE SyncInv'
  <2>1. /\ ThisRun /\ UNCHANGED <<work, head, tracked, remote, gitFaults>> /\ sync.at <= 2
        /\ sync.step = "count"
    BY <1>8 DEF CountAhead, Running
  <2>2. BranchesInv' /\ Grows(remote) /\ Grows(head) /\ SyncLimits' /\ repoAt' = repoAt
    BY <2>1, <1>s, <1>u
  <2>3. sync.asked \subseteq head[Here]
    BY <1>0, <2>1 DEF RoundInv
  <2>4. CASE RepoEnds("ok", sync.asked) /\ tracked[Here] # NoUpstream /\ head[Here] \subseteq tracked[Here]
    <3>1. Here \in Repos /\ tracked[Here] \subseteq remote[Here]
      BY <1>0, <1>w, <2>1, <2>4 DEF BranchesInv
    <3>2. sync.asked \subseteq remote'[Here]
      BY <2>1, <2>3, <2>4, <3>1
    <3> QED BY <1>a, <2>1, <2>2, <2>4, <3>1, <3>2, NextResult
  <2>5. CASE OnTo("push")
    <3>1. /\ sync' \in [at : 1 .. 3, step : {"commit", "dirty", "count", "push"}, asked : SUBSET Works]
          /\ sync'.at = sync.at /\ sync'.asked = sync.asked /\ sync'.step = "push" /\ results' = results
      BY <2>5, <1>o
    <3> QED BY <1>w, <2>1, <2>2, <2>3, <3>1, NextOfTheSteps
  <2> QED BY <1>8, <2>4, <2>5 DEF CountAhead
<1>9. ASSUME PushRepo PROVE SyncInv'
  <2>1. /\ ThisRun /\ UNCHANGED <<work, head, gitFaults>> /\ sync.at <= 2 /\ sync.step = "push"
    BY <1>9 DEF PushRepo, Running
  <2>2. SyncLimits' /\ repoAt' = repoAt
    BY <2>1, <1>s
  <2>3. sync.asked \subseteq head[Here] /\ Here \in Repos
    BY <1>0, <1>w, <2>1 DEF RoundInv
  <2>4. CASE remote[Here] \subseteq head[Here]
    <3>1. /\ remote' = [remote EXCEPT ![Here] = head[Here]]
          /\ tracked' = [tracked EXCEPT ![Here] = head[Here]]
          /\ RepoEnds("pushed", sync.asked)
      BY <1>9, <2>4 DEF PushRepo
    <3>2. /\ remote' \in [Repos -> SUBSET Works] /\ \A q \in Repos : remote[q] \subseteq remote'[q]
          /\ remote'[Here] = head[Here]
      BY <1>0, <2>3, <2>4, <3>1 DEF BranchesInv
    <3>3. /\ tracked' \in [Repos -> (SUBSET Works) \cup {NoUpstream}]
          /\ \A q \in Repos : tracked'[q] = NoUpstream \/ tracked'[q] \subseteq remote'[q]
      BY <1>0, <2>3, <3>1, <3>2 DEF BranchesInv
    <3>4. BranchesInv'
      BY <1>0, <2>1, <3>2, <3>3 DEF BranchesInv, Works
    <3> QED BY <1>a, <2>1, <2>2, <2>3, <3>1, <3>2, <3>4, NextResult DEF Grows
  <2>5. CASE ~(remote[Here] \subseteq head[Here])
    <3>1. RepoEnds("error", sync.asked) /\ UNCHANGED <<remote, tracked>>
      BY <1>9, <2>5 DEF PushRepo
    <3>2. BranchesInv' /\ Grows(remote)
      BY <2>1, <3>1, <1>u
    <3> QED BY <1>a, <2>1, <2>2, <3>1, <3>2, NextResult
  <2> QED BY <2>4, <2>5
<1>10. ASSUME GitFails PROVE SyncInv'
  <2>1. /\ ThisRun /\ UNCHANGED <<work, head, tracked, remote>> /\ sync.at <= 2
        /\ gitFaults' \in 0 .. MaxGitFaults /\ RepoEnds("error", sync.asked)
    BY <1>10, <1>n DEF GitFails
  <2>2. BranchesInv' /\ Grows(remote)
    BY <2>1, <1>u
  <2>3. SyncLimits' /\ repoAt' = repoAt
    BY <1>0, <2>1 DEF SyncLimits, ThisRun
  <2> QED BY <1>a, <2>1, <2>2, <2>3, NextResult
<1> QED BY <1>1, <1>2, <1>3, <1>4, <1>5, <1>6, <1>7, <1>8, <1>9, <1>10 DEF SharedSyncNext

LEMMA SyncIdle ==
    ASSUME SyncInv, UNCHANGED syncVars
    PROVE  SyncInv'
<1>1. /\ UNCHANGED <<repoAt, detached, work, head, tracked, remote, sync, results, autoCommit>>
      /\ UNCHANGED <<works, peerPushes, gitFaults>>
  BY DEF syncVars
<1>2. BranchesInv' /\ SyncLimits'
  BY <1>1 DEF SyncInv, BranchesInv, SyncLimits, Works
<1>3. Grows(work) /\ Grows(head) /\ Grows(remote)
  BY <1>1 DEF Grows
<1> QED BY <1>1, <1>2, <1>3, OthersWork

-----------------------------------------------------------------------------
(* What the checks of a review find is finite *)

\* The issues a check can report are finite in number, so that they can be
\* counted: first the sets they are made of,
LEMMA FourFinite ==
    ASSUME NEW a, NEW b, NEW c, NEW d
    PROVE  IsFiniteSet({a, b, c, d})
<1>1. IsFiniteSet({a})
  BY FS_Singleton
<1>2. IsFiniteSet({a} \cup {b})
  BY <1>1, FS_AddElement
<1>3. IsFiniteSet(({a} \cup {b}) \cup {c})
  BY <1>2, FS_AddElement
<1>4. IsFiniteSet((({a} \cup {b}) \cup {c}) \cup {d})
  BY <1>3, FS_AddElement
<1>5. (({a} \cup {b}) \cup {c}) \cup {d} = {a, b, c, d}
  OBVIOUS
<1> QED BY <1>4, <1>5

LEMMA ImageFinite ==
    ASSUME NEW S, IsFiniteSet(S), NEW f, f = [x \in S |-> f[x]]
    PROVE  LET T == {f[x] : x \in S} IN IsFiniteSet(T) /\ Cardinality(T) <= Cardinality(S)
<1> PICK T : T = {f[x] : x \in S}
  OBVIOUS
<1>1. f \in [S -> T]
  OBVIOUS
<1>2. \A t \in T : \E x \in S : f[x] = t
  OBVIOUS
<1>3. f \in Surjection(S, T)
  BY <1>1, <1>2 DEF Surjection
<1>4. IsFiniteSet(T) /\ Cardinality(T) <= Cardinality(S)
  BY <1>3, FS_Surjection
<1> QED BY <1>4

LEMMA AllFinite ==
    ASSUME NEW severity, NEW traits, NEW watched, IsFiniteSet(watched)
    PROVE  IsFiniteSet(All(severity, traits, watched))
<1> PICK S : S = traits \cap watched
  OBVIOUS
<1>1. S \in SUBSET watched
  OBVIOUS
<1>2. IsFiniteSet(S)
  BY <1>1, FS_Subset
<1> PICK f : f = [w \in S |-> Found(severity, w)]
  OBVIOUS
<1>3. f = [w \in S |-> f[w]]
  OBVIOUS
<1>4. IsFiniteSet({f[w] : w \in S})
  BY <1>2, <1>3, ImageFinite
<1>5. {f[w] : w \in S} = {Found(severity, w) : w \in S}
  OBVIOUS
<1> QED BY <1>4, <1>5 DEF All

\* then what one check finds in a file,
LEMMA InFileFinite ==
    ASSUME NEW check, NEW f, NEW traits
    PROVE  IsFiniteSet(InFile(check, f, traits))
<1> PICK ext : ext = Files[f].ext
  OBVIOUS
<1>0. IsFiniteSet({})
  BY FS_EmptySet
<1>w. \A a, b, c, d : IsFiniteSet({a, b, c, d})
  BY FourFinite
<1>x. \A a, b, c : IsFiniteSet({a, b, c})
  <2> TAKE a, b, c
  <2>1. {a, b, c, c} = {a, b, c}
    OBVIOUS
  <2> QED BY <1>w, <2>1
<1>y. \A a, b : IsFiniteSet({a, b})
  <2> TAKE a, b
  <2>1. {a, b, b, b} = {a, b}
    OBVIOUS
  <2> QED BY <1>w, <2>1
<1>z. \A a : IsFiniteSet({a})
  BY FS_Singleton
<1>a. \A severity, watched : IsFiniteSet(watched) => IsFiniteSet(All(severity, traits, watched))
  BY AllFinite
<1>u. \A S, T : IsFiniteSet(S) /\ IsFiniteSet(T) => IsFiniteSet(S \cup T)
  BY FS_Union
<1>1. IsFiniteSet(CheckFileLines(ext, traits))
  BY <1>a, <1>z, Zenon DEF CheckFileLines
<1>2. IsFiniteSet(CheckCodeSmells(ext, traits))
  BY <1>0, <1>a, <1>x, Zenon DEF CheckCodeSmells
<1>3. IsFiniteSet(CheckSecurity(ext, traits))
  <2>1. IsFiniteSet(All("high", traits, {"eval", "new Function", "innerHTML", "secret"}))
    BY <1>a, <1>w, Zenon
  <2>2. IsFiniteSet(All("medium", traits, {"child_process"}))
    BY <1>a, <1>z, Zenon
  <2> QED BY <1>0, <1>u, <2>1, <2>2, Zenon DEF CheckSecurity
<1>4. IsFiniteSet(CheckComplexity(ext, traits))
  <2>1. IsFiniteSet(All("medium", traits, {"branchy"})) /\ IsFiniteSet(All("high", traits, {"tangled"}))
    BY <1>a, <1>z, Zenon
  <2> QED BY <1>0, <1>u, <2>1, Zenon DEF CheckComplexity
<1>5. IsFiniteSet(CheckPerformanceMemory(ext, traits))
  <2>1. /\ IsFiniteSet(All("high", traits, {"while true", "large array"}))
        /\ IsFiniteSet(All("medium", traits, {"setInterval", "json from file"}))
    BY <1>a, <1>y, Zenon
  <2> QED BY <1>0, <1>u, <2>1, Zenon DEF CheckPerformanceMemory
<1>6. IsFiniteSet(CheckGoFuncs(ext, traits))
  BY <1>0, <1>a, <1>z, Zenon DEF CheckGoFuncs
<1>7. IsFiniteSet(CheckPdoPepTemplating(ext, traits))
  <2>1. /\ IsFiniteSet(All("low", traits, {"wide line", "tab"}))
        /\ IsFiniteSet(All("high", traits, {"sql in query"}))
        /\ IsFiniteSet(All("medium", traits, {"raw template"}))
    BY <1>a, <1>y, <1>z, Zenon
  <2> QED BY <1>0, <2>1, Zenon DEF CheckPdoPepTemplating
<1>8. IsFiniteSet(CheckWcagColors(ext, traits))
  <2>1. /\ IsFiniteSet(All("high", traits, {"contrast 2"}))
        /\ IsFiniteSet(All("medium", traits, {"contrast 4"}))
        /\ IsFiniteSet(All("low", traits, {"contrast 6", "hex color"}))
    BY <1>a, <1>y, <1>z, Zenon
  <2> QED BY <1>0, <1>u, <2>1, Zenon DEF CheckWcagColors
<1>9. IsFiniteSet(CheckServerReadiness(ext, traits))
  BY <1>0, <1>z, Zenon DEF CheckServerReadiness
<1> QED BY <1>0, <1>1, <1>2, <1>3, <1>4, <1>5, <1>6, <1>7, <1>8, <1>9 DEF InFile

\* and what a tool reports.
LEMMA ToolFinite ==
    ASSUME NEW check, NEW cfg,
           NEW findings \in IF check \in ToolChecks THEN FromTool(check, cfg) ELSE {{}}
    PROVE  IsFiniteSet(findings)
<1>0. IsFiniteSet({})
  BY FS_EmptySet
<1>y. \A a, b : IsFiniteSet({a, b})
  <2> TAKE a, b
  <2>1. IsFiniteSet({a, b, b, b})
    BY FourFinite
  <2>2. {a, b, b, b} = {a, b}
    OBVIOUS
  <2> QED BY <2>1, <2>2
<1>z. \A a : IsFiniteSet({a})
  BY FS_Singleton
<1>1. CASE check \notin ToolChecks
  BY <1>0, <1>1
<1>2. CASE check = "eslint"
  <2>1. findings \in CheckESLint({Found("high", "fatal"), Found("low", "warning")})
    BY <1>2 DEF FromTool, ToolChecks
  <2> QED BY <1>0, <1>y, <1>z, <2>1, Zenon DEF CheckESLint
<1>3. CASE check = "ruff"
  <2>1. findings \in CheckRuff({Found("low", "E")})
    BY <1>3 DEF FromTool, ToolChecks
  <2> QED BY <1>0, <1>z, <2>1, Zenon DEF CheckRuff
<1>4. CASE check = "go-lint"
  <2>1. findings \in IF GoModules(cfg) = {} THEN {{}} ELSE CheckGoLint({Found("medium", "lint")})
    BY <1>4 DEF FromTool, ToolChecks
  <2> QED BY <1>0, <1>z, <2>1 DEF CheckGoLint
<1>5. CASE check = "dependency-audit"
  <2>1. findings \in CheckDependencyAudit({"critical", "moderate"})
    BY <1>5 DEF FromTool, ToolChecks
  <2> PICK S : S = {"critical", "moderate"} \cap {"high", "moderate", "low"}
    OBVIOUS
  <2> PICK f : f = [s \in S |-> Found(IF s = "high" THEN "high" ELSE "medium", s)]
    OBVIOUS
  <2>2. IsFiniteSet(S)
    <3>1. S = {"moderate"}
      OBVIOUS
    <3> QED BY <1>z, <3>1
  <2>3. f = [s \in S |-> f[s]]
    OBVIOUS
  <2>4. IsFiniteSet({f[s] : s \in S})
    BY <2>2, <2>3, ImageFinite
  <2>5. {f[s] : s \in S} = {Found(IF s = "high" THEN "high" ELSE "medium", s) : s \in S}
    OBVIOUS
  <2>6. findings = {} \/ findings = {Found("medium", "not JSON")} \/ findings = {f[s] : s \in S}
    BY <2>1, <2>5, Zenon DEF CheckDependencyAudit
  <2> QED BY <1>0, <1>z, <2>4, <2>6, Zenon
<1>6. CASE check = "go-funcs"
  <2>1. findings \in GoVet(cfg)
    BY <1>6 DEF FromTool, ToolChecks
  <2> QED BY <1>0, <1>z, <2>1, Zenon DEF GoVet
<1> QED BY <1>1, <1>2, <1>3, <1>4, <1>5, <1>6 DEF ToolChecks

-----------------------------------------------------------------------------
(* The review and the check-in *)

\* No more than count says, unless count is past what is allowed anyway.
Bounded(S, count, allowed) == IsFiniteSet(S) /\ (Cardinality(S) <= count \/ count > allowed)

\* Check i is done with file f.
Passed(i, f) ==
    \/ i < review.at
    \/ i = review.at /\ review.phase = "reading" /\ f \notin review.todo
    \/ review.phase \in {"building", "writing"}

\* What the checks done so far would still find in files nobody saved.
Seen(severity) == {t \in LeftOver(severity) : Passed(t[1], t[2])}

\* The files under review, the policy and the report.
ReviewTypes ==
    /\ DOMAIN tree = FileIds /\ \A f \in FileIds : tree[f] \in Contents[f] \cup {Gone}
    /\ config \in ConfigFiles \cup {Unreadable}
    /\ report \in [high : Counts, medium : Counts, state : {"missing", "torn", "whole"}]
    /\ edited \subseteq FileIds
    /\ saves \in 0 .. MaxSaves /\ reviews \in 0 .. MaxReviews /\ reviewFaults \in 0 .. MaxReviewFaults

\* The summary is ahead of what could still be found; a review in a check-in
\* goes on until the check-in knows how it ended; and when that was well, what
\* is left is within the policy.
UnderReview ==
    /\ review \in [phase : {"idle", "collecting", "reading", "building", "writing"},
                   profile : {"strict", "advisory"}, at : DOMAIN Checks, todo : SUBSET FileIds,
                   summary : [high : Counts, medium : Counts], built : BOOLEAN,
                   cfg : ConfigFiles \cup {Unreadable}]
    /\ chain \in [strict : BOOLEAN,
                  phase : {"none", "reviewing", "readme", "status", "passed", "failed"}]
    /\ chain.phase = "reviewing" => review.phase # "idle"
    /\ chain.phase = "reviewing" /\ chain.strict = TRUE => review.profile = "strict"

\* The summary of a review is ahead of what its checks so far would still find.
Counted ==
    review.phase # "idle" =>
        /\ Bounded(Seen("high"), review.summary.high, review.cfg.maxHigh)
        /\ Bounded(Seen("medium"), review.summary.medium, review.cfg.maxMedium)

\* What a check-in that may go on has left behind is within its policy.
Within ==
    chain.strict = TRUE /\ chain.phase \in {"readme", "status", "passed"} =>
        /\ Bounded(LeftOver("high"), review.cfg.maxHigh, review.cfg.maxHigh)
        /\ Bounded(LeftOver("medium"), review.cfg.maxMedium, review.cfg.maxMedium)

\* The invariant of the review and the check-in that waits for it.
ReviewInv == ReviewTypes /\ UnderReview /\ Counted /\ Within

LEMMA ConfigTypes ==
    ASSUME NEW cfg \in ConfigFiles \cup {Unreadable}
    PROVE  cfg.maxHigh \in 0 .. 5 /\ cfg.maxMedium \in 0 .. 5
BY DEF ConfigFiles, Unreadable, DefaultConfig

LEMMA FilesNumbered == \E n \in Nat : FileIds = 1 .. n
<1>1. Files \in Seq([ext : STRING, under : STRING])
  BY ReviewAssumption
<1> QED BY <1>1, LenProperties DEF FileIds

LEMMA ChecksNumbered == \E n \in Nat : n >= 1 /\ DOMAIN Checks = 1 .. n /\ Len(Checks) = n
<1>1. Checks \in Seq(STRING) /\ Checks # <<>>
  BY ReviewAssumption
<1> QED BY <1>1, LenProperties, EmptySeq

LEMMA ReviewMeans ==
    ASSUME ReviewInv
    PROVE  ReviewTypeOK /\ StrictMeansReviewed
<1>1. ReviewTypeOK
  BY DEF ReviewInv, ReviewTypes, UnderReview, ReviewTypeOK
<1>2. StrictMeansReviewed
  <2> SUFFICES ASSUME chain.strict, chain.phase = "passed"
               PROVE  /\ Cardinality(LeftOver("high")) <= review.cfg.maxHigh
                      /\ Cardinality(LeftOver("medium")) <= review.cfg.maxMedium
    BY DEF StrictMeansReviewed
  <2>1. chain.strict = TRUE
    BY DEF ReviewInv, UnderReview
  <2>2. /\ Bounded(LeftOver("high"), review.cfg.maxHigh, review.cfg.maxHigh)
        /\ Bounded(LeftOver("medium"), review.cfg.maxMedium, review.cfg.maxMedium)
    BY <2>1 DEF ReviewInv, Within
  <2>3. review.cfg.maxHigh \in 0 .. 5 /\ review.cfg.maxMedium \in 0 .. 5
    <3>1. review.cfg \in ConfigFiles \cup {Unreadable}
      BY DEF ReviewInv, UnderReview
    <3> QED BY <3>1, ConfigTypes
  <2> QED BY <2>2, <2>3 DEF Bounded
<1> QED BY <1>1, <1>2

LEMMA ReviewStart ==
    ASSUME ReviewInit
    PROVE  ReviewInv
<1>n. MaxSaves \in Nat /\ MaxReviews \in Nat /\ MaxReviewFaults \in Nat
  BY ReviewAssumption
<1>1. ReviewTypes
  <2>1. DOMAIN tree = FileIds /\ \A f \in FileIds : tree[f] \in Contents[f] \cup {Gone}
    BY DEF ReviewInit
  <2>2. report \in [high : Counts, medium : Counts, state : {"missing", "torn", "whole"}]
    BY DEF ReviewInit, NoReport, Counts
  <2> QED BY <1>n, <2>1, <2>2 DEF ReviewInit, ReviewTypes
<1>2. review = Idle /\ chain = NoChain
  BY DEF ReviewInit
<1>3. UnderReview
  <2>1. 1 \in DOMAIN Checks
    BY ChecksNumbered
  <2>2. NoFindings \in [high : Counts, medium : Counts]
    BY DEF NoFindings, Counts
  <2>3. DefaultConfig \in ConfigFiles \cup {Unreadable}
    BY DEF Unreadable
  <2>4. {} \in SUBSET FileIds
    OBVIOUS
  <2> HIDE DEF NoFindings, DefaultConfig
  <2> QED BY <1>2, <2>1, <2>2, <2>3, <2>4 DEF UnderReview, Idle, NoChain
<1>4. Counted /\ Within
  BY <1>2 DEF Counted, Within, Idle, NoChain
<1> QED BY <1>1, <1>3, <1>4 DEF ReviewInv

\* A set is bounded by what bounds a set around it.
LEMMA BoundedPart ==
    ASSUME NEW S, NEW T, T \subseteq S, NEW count \in Nat, NEW allowed \in Nat,
           Bounded(S, count, allowed)
    PROVE  Bounded(T, count, allowed)
<1>1. IsFiniteSet(S) /\ T \in SUBSET S
  BY DEF Bounded
<1>2. IsFiniteSet(T) /\ Cardinality(T) <= Cardinality(S)
  BY <1>1, FS_Subset
<1>3. Cardinality(T) \in Nat /\ Cardinality(S) \in Nat
  BY <1>1, <1>2, FS_CardinalityType
<1>4. Cardinality(S) <= count \/ count > allowed
  BY DEF Bounded
<1> QED BY <1>2, <1>3, <1>4 DEF Bounded

\* Counting up to one over what is allowed keeps a bound.
LEMMA BoundedGrows ==
    ASSUME NEW S, NEW F, IsFiniteSet(F), NEW N, IsFiniteSet(N), Cardinality(N) <= Cardinality(F),
           NEW T, T \subseteq S \cup N, NEW count \in Counts, NEW allowed \in 0 .. 5,
           Bounded(S, count, allowed)
    PROVE  /\ UpToOver(count + Cardinality(F), allowed) \in Counts
           /\ Bounded(T, UpToOver(count + Cardinality(F), allowed), allowed)
<1>1. IsFiniteSet(S) /\ (Cardinality(S) <= count \/ count > allowed)
  BY DEF Bounded
<1>2. IsFiniteSet(S \cup N) /\ Cardinality(S \cup N) = Cardinality(S) + Cardinality(N) - Cardinality(S \cap N)
  BY <1>1, FS_Union
<1>3. IsFiniteSet(S \cap N)
  <2>1. S \cap N \in SUBSET S
    OBVIOUS
  <2> QED BY <1>1, <2>1, FS_Subset
<1>4. IsFiniteSet(T) /\ Cardinality(T) <= Cardinality(S \cup N)
  <2>1. T \in SUBSET (S \cup N)
    OBVIOUS
  <2> QED BY <1>2, <2>1, FS_Subset
<1> PICK s \in Nat : s = Cardinality(S)
  BY <1>1, FS_CardinalityType
<1> PICK n \in Nat : n = Cardinality(N)
  BY FS_CardinalityType
<1> PICK f \in Nat : f = Cardinality(F)
  BY FS_CardinalityType
<1> PICK b \in Nat : b = Cardinality(S \cap N)
  BY <1>3, FS_CardinalityType
<1> PICK t \in Nat : t = Cardinality(T)
  BY <1>4, FS_CardinalityType
<1>5. n <= f /\ t <= s + n - b /\ (s <= count \/ count > allowed)
  BY <1>1, <1>2, <1>4
<1>6. t <= count + f \/ count > allowed
  <2>1. count \in Int
    BY DEF Counts
  <2> QED BY <1>5, <2>1
<1>7. UpToOver(count + f, allowed) \in Counts
  <2>1. count \in 0 .. 6
    BY DEF Counts
  <2> QED BY <2>1 DEF UpToOver, Counts
<1>8. t <= UpToOver(count + f, allowed) \/ UpToOver(count + f, allowed) > allowed
  <2>1. count \in 0 .. 6
    BY DEF Counts
  <2> QED BY <1>6, <2>1 DEF UpToOver
<1>9. Bounded(T, UpToOver(count + f, allowed), allowed)
  BY <1>4, <1>8 DEF Bounded
<1> QED BY <1>7, <1>9

\* What is left over, spelled out: an issue a check finds now.
LEMMA LeftOverMembers ==
    \A s, t : t \in LeftOver(s) <=>
        \E i \in DOMAIN Checks, f \in FileIds \ edited :
            \E x \in StillFound(i, f) : x.severity = s /\ t = <<i, f, x>>
<1> TAKE s, t
<1> DEFINE Of(i, f) == {<<i, f, x>> : x \in {x \in StillFound(i, f) : x.severity = s}}
<1>1. LeftOver(s) = UNION {Of(i, f) : i \in DOMAIN Checks, f \in FileIds \ edited}
  BY DEF LeftOver
<1>2. \A i, f : t \in Of(i, f) <=> \E x \in StillFound(i, f) : x.severity = s /\ t = <<i, f, x>>
  BY Zenon
<1> HIDE DEF Of
<1>3. t \in LeftOver(s) <=> \E i \in DOMAIN Checks, f \in FileIds \ edited : t \in Of(i, f)
  BY <1>1
<1> QED BY <1>2, <1>3, Zenon

\* The same after a step.
LEMMA LeftOverMembersNext ==
    \A s, t : t \in LeftOver(s)' <=>
        \E i \in DOMAIN Checks, f \in FileIds \ edited' :
            \E x \in StillFound(i, f)' : x.severity = s /\ t = <<i, f, x>>
<1> TAKE s, t
<1> DEFINE Of(i, f) == {<<i, f, x>> : x \in {x \in StillFound(i, f)' : x.severity = s}}
<1>1. LeftOver(s)' = UNION {Of(i, f) : i \in DOMAIN Checks, f \in FileIds \ edited'}
  BY DEF LeftOver
<1>2. \A i, f : t \in Of(i, f) <=> \E x \in StillFound(i, f)' : x.severity = s /\ t = <<i, f, x>>
  BY Zenon
<1> HIDE DEF Of
<1>3. t \in LeftOver(s)' <=> \E i \in DOMAIN Checks, f \in FileIds \ edited' : t \in Of(i, f)
  BY <1>1
<1> QED BY <1>2, <1>3, Zenon

\* What is found in a file does not change while nobody saves it and the
\* configuration of the review is the same.
LEMMA FoundStays ==
    ASSUME review'.cfg = review.cfg, NEW f \in FileIds, tree'[f] = tree[f], NEW i
    PROVE  StillFound(i, f)' = StillFound(i, f)
<1>1. f \in ToRead(Checks[i], review.cfg)' <=> f \in ToRead(Checks[i], review.cfg)
  BY DEF ToRead, Collected
<1>2. Kept(review.cfg, Checks[i], f, InFile(Checks[i], f, tree[f]))'
      = Kept(review.cfg, Checks[i], f, InFile(Checks[i], f, tree[f]))
  BY DEF Kept, Ignored, InFile
<1> QED BY <1>1, <1>2, Zenon DEF StillFound

\* So nothing is left over that was not.
LEMMA NothingAdded ==
    ASSUME review'.cfg = review.cfg, edited \subseteq edited',
           \A f \in FileIds \ edited' : tree'[f] = tree[f], NEW s
    PROVE  /\ LeftOver(s)' \subseteq LeftOver(s)
           /\ \A t \in LeftOver(s)' : t \in LeftOver(s)
                 /\ \E i \in DOMAIN Checks, f \in FileIds \ edited' :
                       \E x \in StillFound(i, f) : x.severity = s /\ t = <<i, f, x>>
<1> SUFFICES ASSUME NEW t \in LeftOver(s)'
             PROVE  /\ t \in LeftOver(s)
                    /\ \E i \in DOMAIN Checks, f \in FileIds \ edited' :
                          \E x \in StillFound(i, f) : x.severity = s /\ t = <<i, f, x>>
  OBVIOUS
<1>1. PICK i \in DOMAIN Checks, f \in FileIds \ edited' :
         \E x \in StillFound(i, f)' : x.severity = s /\ t = <<i, f, x>>
  BY LeftOverMembersNext
<1>2. PICK x \in StillFound(i, f)' : x.severity = s /\ t = <<i, f, x>>
  BY <1>1, Zenon
<1>3. f \in FileIds /\ tree'[f] = tree[f] /\ f \in FileIds \ edited
  BY <1>1
<1>4. StillFound(i, f)' = StillFound(i, f)
  BY <1>3, FoundStays
<1>5. x \in StillFound(i, f)
  BY <1>2, <1>4, Zenon
<1> QED BY <1>1, <1>2, <1>3, <1>5, LeftOverMembers, Zenon

\* A policy that is kept stays kept while nothing is added.
LEMMA WithinStays ==
    ASSUME ReviewInv, review'.cfg = review.cfg, edited \subseteq edited',
           \A f \in FileIds \ edited' : tree'[f] = tree[f],
           chain'.strict = TRUE /\ chain'.phase \in {"readme", "status", "passed"} =>
               chain.strict = TRUE /\ chain.phase \in {"readme", "status", "passed"}
    PROVE  Within'
<1> SUFFICES ASSUME chain.strict = TRUE, chain.phase \in {"readme", "status", "passed"}
             PROVE  /\ Bounded(LeftOver("high")', review'.cfg.maxHigh, review'.cfg.maxHigh)
                    /\ Bounded(LeftOver("medium")', review'.cfg.maxMedium, review'.cfg.maxMedium)
  BY DEF Within, Bounded
<1>1. review.cfg.maxHigh \in Nat /\ review.cfg.maxMedium \in Nat
  <2>1. review.cfg \in ConfigFiles \cup {Unreadable}
    BY DEF ReviewInv, UnderReview
  <2> QED BY <2>1, ConfigTypes
<1>2. /\ Bounded(LeftOver("high"), review.cfg.maxHigh, review.cfg.maxHigh)
      /\ Bounded(LeftOver("medium"), review.cfg.maxMedium, review.cfg.maxMedium)
  BY DEF ReviewInv, Within
<1>3. LeftOver("high")' \subseteq LeftOver("high") /\ LeftOver("medium")' \subseteq LeftOver("medium")
  BY NothingAdded
<1>4. /\ Bounded(LeftOver("high")', review.cfg.maxHigh, review.cfg.maxHigh)
      /\ Bounded(LeftOver("medium")', review.cfg.maxMedium, review.cfg.maxMedium)
  BY <1>1, <1>2, <1>3, BoundedPart
<1> QED BY <1>4

\* A step with which no check gets on leaves the count ahead.
LEMMA CountedStays ==
    ASSUME ReviewInv, review.phase # "idle",
           review'.cfg = review.cfg, review'.summary = review.summary, edited \subseteq edited',
           \A f \in FileIds \ edited' : tree'[f] = tree[f],
           \A i \in DOMAIN Checks, f \in FileIds \ edited' :
               StillFound(i, f) # {} /\ Passed(i, f)' => Passed(i, f)
    PROVE  Counted'
<1>1. ASSUME NEW s PROVE Seen(s)' \subseteq Seen(s)
  <2> SUFFICES ASSUME NEW t \in LeftOver(s)', Passed(t[1], t[2])'
               PROVE  t \in LeftOver(s) /\ Passed(t[1], t[2])
    BY DEF Seen
  <2>1. t \in LeftOver(s) /\ \E i \in DOMAIN Checks, f \in FileIds \ edited' :
                                \E x \in StillFound(i, f) : x.severity = s /\ t = <<i, f, x>>
    BY NothingAdded
  <2>2. PICK i \in DOMAIN Checks, f \in FileIds \ edited' :
           \E x \in StillFound(i, f) : x.severity = s /\ t = <<i, f, x>>
    BY <2>1
  <2>3. StillFound(i, f) # {} /\ t[1] = i /\ t[2] = f
    BY <2>2
  <2>4. Passed(i, f)'
    BY <2>3 DEF Passed
  <2>5. Passed(i, f)
    BY <2>3, <2>4
  <2> QED BY <2>1, <2>3, <2>5
<1>2. /\ review.cfg.maxHigh \in Nat /\ review.cfg.maxMedium \in Nat
      /\ review.summary.high \in Nat /\ review.summary.medium \in Nat
  <2>1. review.cfg \in ConfigFiles \cup {Unreadable} /\ review.summary \in [high : Counts, medium : Counts]
    BY DEF ReviewInv, UnderReview
  <2> QED BY <2>1, ConfigTypes DEF Counts
<1>3. /\ Bounded(Seen("high"), review.summary.high, review.cfg.maxHigh)
      /\ Bounded(Seen("medium"), review.summary.medium, review.cfg.maxMedium)
  BY DEF ReviewInv, Counted
<1>4. /\ Bounded(Seen("high")', review.summary.high, review.cfg.maxHigh)
      /\ Bounded(Seen("medium")', review.summary.medium, review.cfg.maxMedium)
  BY <1>1, <1>2, <1>3, BoundedPart
<1> QED BY <1>4 DEF Counted, Bounded

\* A step that counts what one check finds in one file, or what its tool says.
LEMMA CountedGrows ==
    ASSUME ReviewInv, review.phase # "idle", NEW F, IsFiniteSet(F), NEW c, NEW g,
           review'.cfg = review.cfg, review'.summary = Summary(review.cfg, review.summary, F),
           UNCHANGED <<edited, tree>>,
           \A i \in DOMAIN Checks, f \in FileIds \ edited :
               StillFound(i, f) # {} /\ Passed(i, f)' =>
                   Passed(i, f) \/ (i = c /\ f = g /\ StillFound(i, f) \subseteq F)
    PROVE  Counted' /\ review'.summary \in [high : Counts, medium : Counts]
<1> DEFINE Part(s) == {x \in F : x.severity = s}
           New(s) == {<<c, g, x>> : x \in Part(s)}
<1>1. ASSUME NEW s PROVE IsFiniteSet(Part(s)) /\ IsFiniteSet(New(s)) /\ Cardinality(New(s)) <= Cardinality(Part(s))
  <2> PICK P : P = Part(s)
    OBVIOUS
  <2>1. P \in SUBSET F
    OBVIOUS
  <2>2. IsFiniteSet(P)
    BY <2>1, FS_Subset
  <2> PICK f : f = [x \in P |-> <<c, g, x>>]
    OBVIOUS
  <2>3. f = [x \in P |-> f[x]]
    OBVIOUS
  <2>4. IsFiniteSet({f[x] : x \in P}) /\ Cardinality({f[x] : x \in P}) <= Cardinality(P)
    BY <2>2, <2>3, ImageFinite
  <2>5. {f[x] : x \in P} = {<<c, g, x>> : x \in P}
    OBVIOUS
  <2> QED BY <2>2, <2>4, <2>5
<1>2. ASSUME NEW s PROVE Seen(s)' \subseteq Seen(s) \cup New(s)
  <2> SUFFICES ASSUME NEW t \in LeftOver(s)', Passed(t[1], t[2])'
               PROVE  (t \in LeftOver(s) /\ Passed(t[1], t[2])) \/ t \in New(s)
    BY DEF Seen
  <2>1. t \in LeftOver(s) /\ \E i \in DOMAIN Checks, f \in FileIds \ edited' :
                                \E x \in StillFound(i, f) : x.severity = s /\ t = <<i, f, x>>
    BY NothingAdded
  <2>2. PICK i \in DOMAIN Checks, f \in FileIds \ edited :
           \E x \in StillFound(i, f) : x.severity = s /\ t = <<i, f, x>>
    BY <2>1
  <2>3. PICK x \in StillFound(i, f) : x.severity = s /\ t = <<i, f, x>>
    BY <2>2
  <2>4. StillFound(i, f) # {} /\ t[1] = i /\ t[2] = f
    BY <2>3
  <2>5. Passed(i, f)'
    BY <2>4 DEF Passed
  <2>6. Passed(i, f) \/ (i = c /\ f = g /\ StillFound(i, f) \subseteq F)
    BY <2>4, <2>5
  <2>7. CASE Passed(i, f)
    BY <2>1, <2>4, <2>7
  <2>8. CASE i = c /\ f = g /\ StillFound(i, f) \subseteq F
    <3>1. x \in Part(s) /\ t = <<c, g, x>>
      BY <2>3, <2>8
    <3> QED BY <3>1
  <2> QED BY <2>6, <2>7, <2>8
<1>3. /\ review.cfg.maxHigh \in 0 .. 5 /\ review.cfg.maxMedium \in 0 .. 5
      /\ review.summary.high \in Counts /\ review.summary.medium \in Counts
  <2>1. review.cfg \in ConfigFiles \cup {Unreadable} /\ review.summary \in [high : Counts, medium : Counts]
    BY DEF ReviewInv, UnderReview
  <2> QED BY <2>1, ConfigTypes
<1>4. /\ Bounded(Seen("high"), review.summary.high, review.cfg.maxHigh)
      /\ Bounded(Seen("medium"), review.summary.medium, review.cfg.maxMedium)
  BY DEF ReviewInv, Counted
<1> PICK high : high = UpToOver(review.summary.high + Cardinality(Part("high")), review.cfg.maxHigh)
  OBVIOUS
<1> PICK medium : medium = UpToOver(review.summary.medium + Cardinality(Part("medium")), review.cfg.maxMedium)
  OBVIOUS
<1> HIDE DEF Part, New
<1>5. high \in Counts /\ Bounded(Seen("high")', high, review.cfg.maxHigh)
  BY <1>1, <1>2, <1>3, <1>4, BoundedGrows
<1>6. medium \in Counts /\ Bounded(Seen("medium")', medium, review.cfg.maxMedium)
  BY <1>1, <1>2, <1>3, <1>4, BoundedGrows
<1>7. review'.summary = [high |-> high, medium |-> medium]
  BY Zenon DEF Summary, Count, Part
<1>8. review'.summary.high = high /\ review'.summary.medium = medium
      /\ review'.summary \in [high : Counts, medium : Counts]
  BY <1>5, <1>6, <1>7
<1>9. Counted'
  BY <1>5, <1>6, <1>8 DEF Counted, Bounded
<1> QED BY <1>8, <1>9

\* The next file of a review is one it has not read.
LEMMA NextFileType ==
    ASSUME ReviewInv, review.todo # {}
    PROVE  NextFile \in review.todo
<1>1. review.todo \in SUBSET FileIds
  BY DEF ReviewInv, UnderReview
<1>2. PICK n \in Nat : FileIds = 1 .. n
  BY FilesNumbered
<1>3. IsFiniteSet(1 .. n)
  BY FS_Interval
<1>4. IsFiniteSet(review.todo)
  BY <1>1, <1>2, <1>3, FS_Subset
<1>5. review.todo \subseteq Int
  BY <1>1, <1>2
<1>6. \E f \in review.todo : \A g \in review.todo : f <= g
  BY <1>4, <1>5, Smallest
<1> QED BY <1>6 DEF NextFile

\* The review has ended, or has not; nothing else of it has changed that matters.
LEMMA ChainGoesOn ==
    ASSUME ReviewInv, NEW ok, ExitsWith(ok)
    PROVE  /\ chain' \in [strict : BOOLEAN,
                          phase : {"none", "reviewing", "readme", "status", "passed", "failed"}]
           /\ chain'.phase # "reviewing" /\ chain'.strict = chain.strict
           /\ chain'.phase \in {"readme", "status", "passed"} =>
                 \/ chain.phase \in {"readme", "status", "passed"}
                 \/ chain.phase = "reviewing" /\ ok
<1>1. chain \in [strict : BOOLEAN,
                 phase : {"none", "reviewing", "readme", "status", "passed", "failed"}]
  BY DEF ReviewInv, UnderReview
<1>2. CASE chain.phase # "reviewing"
  BY <1>1, <1>2 DEF ExitsWith
<1>3. CASE chain.phase = "reviewing"
  <2>1. chain' = [chain EXCEPT !.phase = IF ok THEN "readme" ELSE "failed"]
    BY <1>3 DEF ExitsWith
  <2>2. CASE ok
    <3>1. chain' = [chain EXCEPT !.phase = "readme"]
      BY <2>1, <2>2
    <3> QED BY <1>1, <1>3, <2>2, <3>1
  <2>3. CASE ~ok
    <3>1. chain' = [chain EXCEPT !.phase = "failed"]
      BY <2>1, <2>3
    <3> QED BY <1>1, <1>3, <3>1
  <2> QED BY <2>2, <2>3
<1> QED BY <1>2, <1>3

\* A step of the review, of the check-in, or of a developer who saves.
LEMMA ReviewStep ==
    ASSUME ReviewInv, ReviewNext
    PROVE  ReviewInv'
<1> DEFINE ReviewType == [phase : {"idle", "collecting", "reading", "building", "writing"},
                          profile : {"strict", "advisory"}, at : DOMAIN Checks, todo : SUBSET FileIds,
                          summary : [high : Counts, medium : Counts], built : BOOLEAN,
                          cfg : ConfigFiles \cup {Unreadable}]
           ChainType == [strict : BOOLEAN,
                         phase : {"none", "reviewing", "readme", "status", "passed", "failed"}]
           ReportType == [high : Counts, medium : Counts, state : {"missing", "torn", "whole"}]
<1>0. ReviewTypes /\ UnderReview /\ Counted /\ Within
  BY DEF ReviewInv
<1>n. /\ MaxSaves \in Nat /\ MaxReviews \in Nat /\ MaxReviewFaults \in Nat
      /\ saves \in Nat /\ reviews \in Nat /\ reviewFaults \in Nat
  BY <1>0, ReviewAssumption DEF ReviewTypes
<1>r. review \in ReviewType /\ chain \in ChainType
  BY <1>0 DEF UnderReview
<1> PICK checks \in Nat : checks >= 1 /\ DOMAIN Checks = 1 .. checks /\ Len(Checks) = checks
  BY ChecksNumbered
<1> HIDE DEF ReviewType, ChainType
<1>t. ASSUME UNCHANGED <<tree, config, report, edited, saves, reviews, reviewFaults>> PROVE ReviewTypes'
  BY <1>0, <1>t DEF ReviewTypes
<1>u. ASSUME UNCHANGED <<review, chain>> PROVE UnderReview'
  BY <1>0, <1>u DEF UnderReview
<1>s. ASSUME Stays PROVE UNCHANGED <<tree, config, edited, saves, reviews, reviewFaults>>
  BY <1>s DEF Stays
<1>1. ASSUME NEW f \in FileIds, Save(f) PROVE ReviewInv'
  <2>1. /\ UNCHANGED <<config, review, report, chain, reviews, reviewFaults>>
        /\ edited' = edited \cup {f} /\ saves' \in 0 .. MaxSaves
    BY <1>1, <1>n DEF Save
  <2>2. PICK content \in Contents[f] \cup {Gone} : tree' = [tree EXCEPT ![f] = content]
    BY <1>1 DEF Save
  <2>3. /\ DOMAIN tree' = FileIds /\ \A g \in FileIds : tree'[g] \in Contents[g] \cup {Gone}
        /\ \A g \in FileIds \ edited' : tree'[g] = tree[g]
    BY <1>0, <2>1, <2>2 DEF ReviewTypes
  <2>4. ReviewTypes'
    BY <1>0, <2>1, <2>3 DEF ReviewTypes
  <2>5. UnderReview'
    BY <2>1, <1>u
  <2>6. Within'
    BY <2>1, <2>3, WithinStays
  <2>7. Counted'
    <3>1. CASE review.phase = "idle"
      BY <2>1, <3>1 DEF Counted
    <3>2. CASE review.phase # "idle"
      <4>1. \A i, g : Passed(i, g)' => Passed(i, g)
        BY <2>1 DEF Passed
      <4> QED BY <2>1, <2>3, <3>2, <4>1, CountedStays
    <3> QED BY <3>1, <3>2
  <2> QED BY <2>4, <2>5, <2>6, <2>7 DEF ReviewInv
<1>2. ASSUME NEW profile \in {"strict", "advisory"}, NEW chained \in BOOLEAN, StartReview(profile, chained)
      PROVE  ReviewInv'
  <2>1. /\ UNCHANGED <<tree, config, report, saves, reviewFaults>> /\ edited' = {}
        /\ reviews' \in 0 .. MaxReviews
        /\ review' = [Idle EXCEPT !.phase = "collecting", !.profile = profile, !.cfg = config]
        /\ chain' = IF chained THEN [strict |-> profile = "strict", phase |-> "reviewing"] ELSE NoChain
    BY <1>2, <1>n DEF StartReview
  <2>2. ReviewTypes'
    BY <1>0, <2>1 DEF ReviewTypes
  <2>3. /\ review' \in ReviewType /\ review'.phase = "collecting" /\ review'.profile = profile
        /\ review'.at = 1 /\ review'.cfg = config
    <3> PICK none : none = NoFindings
      OBVIOUS
    <3>1. none \in [high : Counts, medium : Counts]
      BY DEF NoFindings, Counts
    <3>2. 1 \in DOMAIN Checks
      OBVIOUS
    <3>3. config \in ConfigFiles \cup {Unreadable}
      BY <1>0 DEF ReviewTypes
    <3> PICK d : d = DefaultConfig
      OBVIOUS
    <3>4. Idle = [phase |-> "idle", profile |-> "strict", at |-> 1, todo |-> {}, summary |-> none,
                  built |-> TRUE, cfg |-> d]
      BY Zenon DEF Idle
    <3>5. review' = [phase |-> "collecting", profile |-> profile, at |-> 1, todo |-> {}, summary |-> none,
                     built |-> TRUE, cfg |-> config]
      BY <2>1, <3>4
    <3> QED BY <3>1, <3>2, <3>3, <3>5 DEF ReviewType
  <2>4. /\ chain' \in ChainType /\ chain'.phase \in {"none", "reviewing"}
        /\ chain'.phase = "reviewing" /\ chain'.strict = TRUE => profile = "strict"
    <3>1. CASE chained
      <4>1. chain' = [strict |-> profile = "strict", phase |-> "reviewing"]
        BY <2>1, <3>1
      <4>2. CASE profile = "strict"
        <5>1. chain' = [strict |-> TRUE, phase |-> "reviewing"]
          BY <4>1, <4>2
        <5> QED BY <4>2, <5>1 DEF ChainType
      <4>3. CASE profile # "strict"
        <5>1. chain' = [strict |-> FALSE, phase |-> "reviewing"]
          BY <4>1, <4>3
        <5> QED BY <5>1 DEF ChainType
      <4> QED BY <4>2, <4>3
    <3>2. CASE ~chained
      BY <2>1, <3>2 DEF NoChain, ChainType
    <3> QED BY <3>1, <3>2
  <2>5. UnderReview'
    BY <2>3, <2>4 DEF UnderReview, ReviewType, ChainType
  <2>6. Within'
    BY <2>4 DEF Within
  <2>7. Counted'
    <3>1. ASSUME NEW s PROVE Seen(s)' = {}
      <4> SUFFICES ASSUME NEW t \in LeftOver(s)', Passed(t[1], t[2])' PROVE FALSE
        BY DEF Seen
      <4>1. PICK i \in DOMAIN Checks, f \in FileIds \ edited' :
               \E x \in StillFound(i, f)' : x.severity = s /\ t = <<i, f, x>>
        BY LeftOverMembersNext
      <4>2. t[1] = i /\ i >= 1
        BY <4>1
      <4> QED BY <2>3, <4>2 DEF Passed
    <3>2. Bounded({}, review'.summary.high, review'.cfg.maxHigh) /\ Bounded({}, review'.summary.medium, review'.cfg.maxMedium)
      <4>1. review'.summary.high \in Nat /\ review'.summary.medium \in Nat
        BY <2>3 DEF ReviewType, Counts
      <4> QED BY <4>1, FS_EmptySet DEF Bounded
    <3> QED BY <3>1, <3>2 DEF Counted, Bounded
  <2> QED BY <2>2, <2>5, <2>6, <2>7 DEF ReviewInv
<1>3. ASSUME Collect PROVE ReviewInv'
  <2>1. /\ UNCHANGED <<report, chain>> /\ UNCHANGED <<tree, config, edited, saves, reviews, reviewFaults>>
        /\ review.phase = "collecting"
        /\ review' = [review EXCEPT !.phase = "reading", !.todo = ToRead(At, review.cfg)]
    BY <1>3, <1>s DEF Collect
  <2>2. ReviewTypes'
    BY <2>1, <1>t
  <2>3. /\ review' \in ReviewType /\ review'.phase = "reading" /\ review'.profile = review.profile
        /\ review'.at = review.at /\ review'.cfg = review.cfg /\ review'.summary = review.summary
        /\ review'.todo = ToRead(At, review.cfg)
    <3> PICK p : p = review
      OBVIOUS
    <3> PICK todo : todo = ToRead(At, review.cfg)
      OBVIOUS
    <3>1. todo \in SUBSET FileIds
      BY DEF ToRead, Collected
    <3>2. review' = [p EXCEPT !.phase = "reading", !.todo = todo]
      BY <2>1
    <3>3. p \in ReviewType
      BY <1>r
    <3>4. /\ review' = [phase |-> "reading", profile |-> p.profile, at |-> p.at, todo |-> todo,
                        summary |-> p.summary, built |-> p.built, cfg |-> p.cfg]
      BY <3>2, <3>3 DEF ReviewType
    <3> QED BY <3>1, <3>3, <3>4 DEF ReviewType
  <2>4. UnderReview'
    BY <1>0, <2>1, <2>3 DEF UnderReview, ReviewType
  <2>5. Within'
    BY <2>1, <2>3, WithinStays
  <2>6. Counted'
    <3>1. ASSUME NEW i \in DOMAIN Checks, NEW f \in FileIds \ edited', StillFound(i, f) # {}, Passed(i, f)'
          PROVE  Passed(i, f)
      <4>1. CASE i < review.at
        BY <4>1 DEF Passed
      <4>2. CASE i = review.at /\ f \notin ToRead(At, review.cfg)
        <5>1. Checks[i] = At
          BY <4>2 DEF At
        <5> QED BY <3>1, <4>2, <5>1 DEF StillFound
      <4> QED BY <2>3, <3>1, <4>1, <4>2 DEF Passed
    <3> QED BY <2>1, <2>3, <3>1, CountedStays
  <2> QED BY <2>2, <2>4, <2>5, <2>6 DEF ReviewInv
<1>e. ASSUME review' \in ReviewType, review'.phase = "idle", NEW ok, ExitsWith(ok),
             review'.profile = review.profile, review'.cfg = review.cfg
      PROVE  UnderReview' /\ Counted'
  <2>1. chain' \in ChainType /\ chain'.phase # "reviewing"
    BY <1>e, ChainGoesOn DEF ChainType
  <2> QED BY <1>e, <2>1 DEF UnderReview, Counted, ReviewType, ChainType
<1>f. ASSUME UNCHANGED <<tree, edited>>, review'.cfg = review.cfg, ExitsWith(FALSE) PROVE Within'
  <2>1. chain'.strict = TRUE /\ chain'.phase \in {"readme", "status", "passed"} =>
            chain.strict = TRUE /\ chain.phase \in {"readme", "status", "passed"}
    BY <1>f, ChainGoesOn
  <2> QED BY <1>f, <2>1, WithinStays
<1>4. ASSUME ReadFile PROVE ReviewInv'
  <2> PICK f : f = NextFile
    OBVIOUS
  <2>0. review.phase = "reading" /\ review.todo # {} /\ f \in review.todo
    BY <1>4, NextFileType DEF ReadFile
  <2>1. UNCHANGED <<tree, config, edited, saves, reviews, reviewFaults>> /\ UNCHANGED report
    BY <1>4, <1>s DEF ReadFile
  <2>2. ReviewTypes'
    BY <2>1, <1>t
  <2>3. CASE tree[f] = Gone /\ At # "server-readiness"
    <3>1. review' = [review EXCEPT !.phase = "idle", !.todo = {}] /\ ExitsWith(FALSE)
      BY <1>4, <2>3 DEF ReadFile
    <3>2. /\ review' \in ReviewType /\ review'.phase = "idle" /\ review'.profile = review.profile
          /\ review'.cfg = review.cfg
      BY <1>r, <3>1 DEF ReviewType
    <3>3. UnderReview' /\ Counted' /\ Within'
      BY <1>e, <1>f, <2>1, <3>1, <3>2
    <3> QED BY <2>2, <3>3 DEF ReviewInv
  <2>4. CASE ~(tree[f] = Gone /\ At # "server-readiness")
    <3> PICK F : F = Kept(review.cfg, At, f, InFile(At, f, tree[f]))
      OBVIOUS
    <3>1. /\ review' = [review EXCEPT !.todo = @ \ {f}, !.summary = Summary(review.cfg, @, F)]
          /\ UNCHANGED chain
      BY <1>4, <2>4 DEF ReadFile
    <3>2. IsFiniteSet(F)
      <4>1. F \in SUBSET InFile(At, f, tree[f])
        BY DEF Kept
      <4> QED BY <4>1, InFileFinite, FS_Subset
    <3>3. /\ review'.phase = "reading" /\ review'.at = review.at /\ review'.todo = review.todo \ {f}
          /\ review'.cfg = review.cfg /\ review'.summary = Summary(review.cfg, review.summary, F)
          /\ review'.profile = review.profile
      <4> PICK sum : sum = Summary(review.cfg, review.summary, F)
        OBVIOUS
      <4> PICK p : p = review
        OBVIOUS
      <4> PICK todo : todo = p.todo \ {f}
        OBVIOUS
      <4>1. review' = [p EXCEPT !.todo = todo, !.summary = sum]
        BY <3>1
      <4>2. p \in ReviewType /\ p.phase = "reading"
        BY <1>r, <2>0
      <4>3. review' = [phase |-> p.phase, profile |-> p.profile, at |-> p.at, todo |-> todo,
                       summary |-> sum, built |-> p.built, cfg |-> p.cfg]
        BY <4>1, <4>2 DEF ReviewType
      <4> QED BY <4>2, <4>3
    <3>4. ASSUME NEW i \in DOMAIN Checks, NEW g \in FileIds \ edited, StillFound(i, g) # {}, Passed(i, g)'
          PROVE  Passed(i, g) \/ (i = review.at /\ g = f /\ StillFound(i, g) \subseteq F)
      <4>1. i < review.at \/ (i = review.at /\ g \notin review.todo \ {f})
        BY <3>3, <3>4 DEF Passed
      <4>2. CASE i < review.at \/ (i = review.at /\ g \notin review.todo)
        BY <2>0, <4>2 DEF Passed
      <4>3. CASE i = review.at /\ g = f
        <5>1. Checks[i] = At
          BY <4>3 DEF At
        <5>2. StillFound(i, g) \subseteq F
          BY <4>3, <5>1 DEF StillFound
        <5> QED BY <4>3, <5>2
      <4> QED BY <4>1, <4>2, <4>3
    <3>5. Counted' /\ review'.summary \in [high : Counts, medium : Counts]
      <4> PICK c : c = review.at
        OBVIOUS
      <4>1. \A i \in DOMAIN Checks, g \in FileIds \ edited :
               StillFound(i, g) # {} /\ Passed(i, g)' =>
                   Passed(i, g) \/ (i = c /\ g = f /\ StillFound(i, g) \subseteq F)
        BY <3>4
      <4>2. review.phase # "idle" /\ UNCHANGED <<edited, tree>>
        BY <2>0, <2>1
      <4>3. review'.cfg = review.cfg /\ review'.summary = Summary(review.cfg, review.summary, F)
        BY <3>3
      <4> QED BY <3>2, <4>1, <4>2, <4>3, CountedGrows
    <3>6. review' \in ReviewType
      <4> PICK sum : sum = Summary(review.cfg, review.summary, F)
        OBVIOUS
      <4> PICK p : p = review
        OBVIOUS
      <4> PICK todo : todo = p.todo \ {f}
        OBVIOUS
      <4>0. sum \in [high : Counts, medium : Counts]
        BY <3>3, <3>5
      <4>1. review' = [p EXCEPT !.todo = todo, !.summary = sum]
        BY <3>1
      <4>2. p \in ReviewType
        BY <1>r
      <4>3. todo \in SUBSET FileIds
        BY <4>2 DEF ReviewType
      <4> QED BY <4>0, <4>1, <4>2, <4>3, ZenonT(40) DEF ReviewType
    <3>7. UnderReview'
      BY <1>0, <2>0, <3>1, <3>3, <3>6 DEF UnderReview, ReviewType
    <3>8. Within'
      BY <2>1, <3>1, <3>3, WithinStays
    <3> QED BY <2>2, <3>5, <3>7, <3>8 DEF ReviewInv
  <2> QED BY <2>3, <2>4
<1>5. ASSUME FinishCheck PROVE ReviewInv'
  <2>0. review.phase = "reading" /\ review.todo = {}
    BY <1>5 DEF FinishCheck
  <2>1. /\ UNCHANGED <<tree, config, edited, saves, reviews, reviewFaults>>
        /\ UNCHANGED <<report, chain>>
    BY <1>5, <1>s DEF FinishCheck
  <2>2. ReviewTypes'
    BY <2>1, <1>t
  <2>3. PICK findings \in IF At \in ToolChecks THEN FromTool(At, review.cfg) ELSE {{}} :
           review' = [review EXCEPT
              !.phase = IF review.at = Len(Checks) THEN "building" ELSE "collecting",
              !.at = IF review.at = Len(Checks) THEN @ ELSE @ + 1,
              !.summary = Summary(review.cfg, @, Kept(review.cfg, At, 0, findings))]
    BY <1>5, Zenon DEF FinishCheck
  <2> PICK F : F = Kept(review.cfg, At, 0, findings)
    OBVIOUS
  <2>4. IsFiniteSet(F)
    <3>1. F \in SUBSET findings
      BY DEF Kept
    <3> QED BY <3>1, ToolFinite, FS_Subset
  <2> PICK sum : sum = Summary(review.cfg, review.summary, F)
    OBVIOUS
  <2> PICK at : at = IF review.at = checks THEN review.at ELSE review.at + 1
    OBVIOUS
  <2> PICK phase : phase = IF review.at = checks THEN "building" ELSE "collecting"
    OBVIOUS
  <2>5. review.at \in 1 .. checks
    BY <1>r DEF ReviewType
  <2>6. at \in DOMAIN Checks /\ phase \in {"collecting", "building"}
    BY <2>5
  <2> PICK p : p = review
    OBVIOUS
  <2>7. p \in ReviewType
    BY <1>r
  <2>8. review' = [p EXCEPT !.phase = phase, !.at = at, !.summary = sum]
    BY <2>3
  <2>9. review' = [phase |-> phase, profile |-> p.profile, at |-> at, todo |-> p.todo,
                   summary |-> sum, built |-> p.built, cfg |-> p.cfg]
    BY <2>7, <2>8 DEF ReviewType
  <2>10. /\ review'.phase = phase /\ review'.at = at /\ review'.summary = sum
         /\ review'.cfg = review.cfg /\ review'.profile = review.profile
    BY <2>9
  <2>11. ASSUME NEW i \in DOMAIN Checks, NEW g \in FileIds \ edited, Passed(i, g)'
         PROVE  Passed(i, g)
    <3>1. i \in 1 .. checks
      OBVIOUS
    <3>2. i <= review.at
      <4>1. CASE review.at = checks
        BY <3>1, <4>1
      <4>2. CASE review.at # checks
        <5>1. review'.at = review.at + 1 /\ review'.phase = "collecting"
          BY <2>10, <4>2
        <5>2. i < review.at + 1
          BY <2>11, <5>1 DEF Passed
        <5> QED BY <2>5, <3>1, <5>2
      <4> QED BY <4>1, <4>2
    <3>3. i < review.at \/ i = review.at
      BY <2>5, <3>1, <3>2
    <3> QED BY <2>0, <3>3 DEF Passed
  <2>12. Counted' /\ review'.summary \in [high : Counts, medium : Counts]
    BY <2>0, <2>1, <2>4, <2>10, <2>11, CountedGrows
  <2>13. review' \in ReviewType
    BY <2>6, <2>7, <2>9, <2>10, <2>12 DEF ReviewType
  <2>14. UnderReview'
    BY <1>0, <2>1, <2>6, <2>10, <2>13 DEF UnderReview, ReviewType
  <2>15. Within'
    BY <2>1, <2>10, WithinStays
  <2> QED BY <2>2, <2>12, <2>14, <2>15 DEF ReviewInv
<1>6. ASSUME NEW ok \in BOOLEAN, Build(ok) PROVE ReviewInv'
  <2>1. /\ UNCHANGED <<tree, config, edited, saves, reviews, reviewFaults>> /\ UNCHANGED chain
        /\ review.phase = "building" /\ report' = TornReport
        /\ review' = [review EXCEPT !.phase = "writing", !.built = ok]
    BY <1>6, <1>s DEF Build
  <2>2. ReviewTypes'
    <3>1. report' \in ReportType
      BY <2>1 DEF TornReport, NoReport, Counts
    <3> QED BY <1>0, <2>1, <3>1 DEF ReviewTypes
  <2>3. /\ review' \in ReviewType /\ review'.phase = "writing" /\ review'.profile = review.profile
        /\ review'.cfg = review.cfg /\ review'.summary = review.summary
    BY <1>r, <2>1 DEF ReviewType
  <2>4. UnderReview'
    BY <1>0, <2>1, <2>3 DEF UnderReview, ReviewType
  <2>5. Within'
    BY <2>1, <2>3, WithinStays
  <2>6. Counted'
    <3>1. \A i, f : Passed(i, f)
      BY <2>1 DEF Passed
    <3> QED BY <2>1, <2>3, <3>1, CountedStays
  <2> QED BY <2>2, <2>4, <2>5, <2>6 DEF ReviewInv
<1>7. ASSUME WriteReview PROVE ReviewInv'
  <2> PICK ok : ok = ~ShouldFail(review.profile, review.cfg, review.summary, review.built)
    OBVIOUS
  <2>1. /\ UNCHANGED <<tree, config, edited, saves, reviews, reviewFaults>>
        /\ review.phase = "writing" /\ review' = [review EXCEPT !.phase = "idle"]
        /\ report' = [high |-> review.summary.high, medium |-> review.summary.medium, state |-> "whole"]
        /\ ExitsWith(ok)
    BY <1>7, <1>s DEF WriteReview
  <2>2. ReviewTypes'
    <3>1. review.summary \in [high : Counts, medium : Counts]
      BY <1>r DEF ReviewType
    <3>2. report' \in ReportType
      BY <2>1, <3>1
    <3> QED BY <1>0, <2>1, <3>2 DEF ReviewTypes
  <2>3. /\ review' \in ReviewType /\ review'.phase = "idle" /\ review'.profile = review.profile
        /\ review'.cfg = review.cfg
    BY <1>r, <2>1 DEF ReviewType
  <2>4. UnderReview' /\ Counted'
    BY <1>e, <2>1, <2>3
  <2>5. Within'
    <3>1. CASE chain.phase # "reviewing" \/ ~ok
      <4>1. chain'.strict = TRUE /\ chain'.phase \in {"readme", "status", "passed"} =>
                chain.strict = TRUE /\ chain.phase \in {"readme", "status", "passed"}
        BY <2>1, <3>1, ChainGoesOn
      <4> QED BY <2>1, <2>3, <4>1, WithinStays
    <3>2. CASE chain.phase = "reviewing" /\ ok
      <4> SUFFICES ASSUME chain'.strict = TRUE
                   PROVE  /\ Bounded(LeftOver("high")', review'.cfg.maxHigh, review'.cfg.maxHigh)
                          /\ Bounded(LeftOver("medium")', review'.cfg.maxMedium, review'.cfg.maxMedium)
        BY DEF Within, Bounded
      <4>1. chain.strict = TRUE /\ review.profile = "strict"
        <5>1. chain.strict = TRUE
          BY <2>1, ChainGoesOn
        <5> QED BY <1>0, <3>2, <5>1 DEF UnderReview
      <4>2. ~(review.summary.high > review.cfg.maxHigh) /\ ~(review.summary.medium > review.cfg.maxMedium)
        BY <3>2, <4>1 DEF ShouldFail
      <4>3. /\ Bounded(Seen("high"), review.summary.high, review.cfg.maxHigh)
            /\ Bounded(Seen("medium"), review.summary.medium, review.cfg.maxMedium)
        BY <1>0, <2>1 DEF Counted
      <4>4. ASSUME NEW s PROVE LeftOver(s)' \subseteq Seen(s)
        <5>1. LeftOver(s)' \subseteq LeftOver(s)
          BY <2>1, <2>3, NothingAdded
        <5> QED BY <2>1, <5>1 DEF Seen, Passed
      <4>5. /\ review.cfg.maxHigh \in Nat /\ review.cfg.maxMedium \in Nat
            /\ review.summary.high \in Nat /\ review.summary.medium \in Nat
        <5>1. review.cfg \in ConfigFiles \cup {Unreadable} /\ review.summary \in [high : Counts, medium : Counts]
          BY <1>r DEF ReviewType
        <5> QED BY <5>1, ConfigTypes DEF Counts
      <4>6. /\ Bounded(LeftOver("high")', review.summary.high, review.cfg.maxHigh)
            /\ Bounded(LeftOver("medium")', review.summary.medium, review.cfg.maxMedium)
        BY <4>3, <4>4, <4>5, BoundedPart
      <4>7. /\ IsFiniteSet(LeftOver("high")') /\ IsFiniteSet(LeftOver("medium")')
            /\ Cardinality(LeftOver("high")') <= review.summary.high
            /\ Cardinality(LeftOver("medium")') <= review.summary.medium
        BY <4>2, <4>6 DEF Bounded
      <4> PICK h \in Nat : h = Cardinality(LeftOver("high")')
        BY <4>7, FS_CardinalityType
      <4> PICK m \in Nat : m = Cardinality(LeftOver("medium")')
        BY <4>7, FS_CardinalityType
      <4>8. h <= review.cfg.maxHigh /\ m <= review.cfg.maxMedium
        BY <4>2, <4>5, <4>7, SMTT(30)
      <4> QED BY <2>3, <4>7, <4>8 DEF Bounded
    <3> QED BY <3>1, <3>2
  <2> QED BY <2>2, <2>4, <2>5 DEF ReviewInv
<1>8. ASSUME ReviewDies PROVE ReviewInv'
  <2>1. /\ UNCHANGED <<tree, config, report, edited, saves, reviews>>
        /\ reviewFaults' \in 0 .. MaxReviewFaults
        /\ review' = [review EXCEPT !.phase = "idle", !.todo = {}] /\ ExitsWith(FALSE)
    <3>1. reviewFaults < MaxReviewFaults /\ reviewFaults' = reviewFaults + 1
      BY <1>8 DEF ReviewDies
    <3>2. reviewFaults' \in 0 .. MaxReviewFaults
      BY <1>n, <3>1
    <3> QED BY <1>8, <3>2 DEF ReviewDies
  <2>2. ReviewTypes'
    BY <1>0, <2>1 DEF ReviewTypes
  <2>3. /\ review' \in ReviewType /\ review'.phase = "idle" /\ review'.profile = review.profile
        /\ review'.cfg = review.cfg
    BY <1>r, <2>1 DEF ReviewType
  <2>4. UnderReview' /\ Counted' /\ Within'
    BY <1>e, <1>f, <2>1, <2>3
  <2> QED BY <2>2, <2>4 DEF ReviewInv
<1>c. ASSUME UNCHANGED <<tree, edited, review>> PROVE Counted'
  <2>1. CASE review.phase = "idle"
    BY <1>c, <2>1 DEF Counted
  <2>2. CASE review.phase # "idle"
    <3>1. \A i, f : Passed(i, f)' => Passed(i, f)
      BY <1>c DEF Passed
    <3> QED BY <1>c, <2>2, <3>1, CountedStays
  <2> QED BY <2>1, <2>2
<1>9. ASSUME NEW high \in 0 .. 1, OtherReview(high) PROVE ReviewInv'
  <2>1. /\ UNCHANGED <<tree, config, review, chain, edited, saves, reviews>>
        /\ reviewFaults' \in 0 .. MaxReviewFaults
        /\ report' = [NoReport EXCEPT !.high = high, !.state = "whole"]
    BY <1>9, <1>n DEF OtherReview
  <2>2. report' \in ReportType
    <3>1. report' = [high |-> high, medium |-> 0, state |-> "whole"]
      BY <2>1 DEF NoReport
    <3> QED BY <3>1 DEF Counts
  <2>3. ReviewTypes'
    BY <1>0, <2>1, <2>2 DEF ReviewTypes
  <2>4. UnderReview' /\ Counted'
    BY <2>1, <1>u, <1>c
  <2>5. Within'
    BY <2>1, WithinStays
  <2> QED BY <2>3, <2>4, <2>5 DEF ReviewInv
<1>10. ASSUME NEW ok \in BOOLEAN, ChainReadme(ok) PROVE ReviewInv'
  <2>1. /\ UNCHANGED <<tree, config, review, report, saves, reviews, reviewFaults>>
        /\ chain.phase = "readme" /\ review.phase = "idle"
        /\ chain' = [chain EXCEPT !.phase = IF ok THEN "status" ELSE "failed"]
        /\ edited' = IF ok THEN edited \cup {f \in FileIds : Files[f].ext = "md"} ELSE edited
    BY <1>10 DEF ChainReadme
  <2>2. edited' \in SUBSET FileIds /\ edited \subseteq edited'
    BY <1>0, <2>1 DEF ReviewTypes
  <2>3. ReviewTypes'
    BY <1>0, <2>1, <2>2 DEF ReviewTypes
  <2>4. chain' \in ChainType /\ chain'.phase \in {"status", "failed"} /\ chain'.strict = chain.strict
    BY <1>r, <2>1 DEF ChainType
  <2>5. UnderReview'
    BY <1>r, <2>1, <2>4 DEF UnderReview, ReviewType, ChainType
  <2>6. Counted'
    BY <2>1 DEF Counted
  <2>7. Within'
    BY <2>1, <2>2, <2>4, WithinStays
  <2> QED BY <2>3, <2>5, <2>6, <2>7 DEF ReviewInv
<1>11. ASSUME Checkin PROVE ReviewInv'
  <2>1. /\ UNCHANGED <<tree, config, edited, saves, reviews, reviewFaults>>
        /\ UNCHANGED <<review, report>> /\ chain.phase = "status"
        /\ chain' = [chain EXCEPT !.phase =
              IF chain.strict /\ (report.state # "whole" \/ report.high > 0) THEN "failed" ELSE "passed"]
    BY <1>11, <1>s DEF Checkin
  <2>2. chain' \in ChainType /\ chain'.phase \in {"failed", "passed"} /\ chain'.strict = chain.strict
    BY <1>r, <2>1 DEF ChainType
  <2>3. ReviewTypes'
    BY <2>1, <1>t
  <2>4. UnderReview'
    BY <1>r, <2>1, <2>2 DEF UnderReview, ReviewType, ChainType
  <2>5. Counted'
    BY <2>1, <1>c
  <2>6. Within'
    BY <2>1, <2>2, WithinStays
  <2> QED BY <2>3, <2>4, <2>5, <2>6 DEF ReviewInv
<1> QED
  BY <1>1, <1>2, <1>3, <1>4, <1>5, <1>6, <1>7, <1>8, <1>9, <1>10, <1>11 DEF ReviewNext

LEMMA ReviewIdle ==
    ASSUME ReviewInv, UNCHANGED reviewVars
    PROVE  ReviewInv'
<1>1. /\ UNCHANGED <<tree, config, review, report, chain, edited>>
      /\ UNCHANGED <<saves, reviews, reviewFaults>>
  BY DEF reviewVars
<1>2. ReviewTypes' /\ UnderReview'
  BY <1>1 DEF ReviewInv, ReviewTypes, UnderReview
<1>3. Counted'
  <2>1. CASE review.phase = "idle"
    BY <1>1, <2>1 DEF Counted
  <2>2. CASE review.phase # "idle"
    <3>1. \A i, f : Passed(i, f)' => Passed(i, f)
      BY <1>1 DEF Passed
    <3> QED BY <1>1, <2>2, <3>1, CountedStays
  <2> QED BY <2>1, <2>2
<1>4. Within'
  BY <1>1, WithinStays
<1> QED BY <1>2, <1>3, <1>4 DEF ReviewInv

-----------------------------------------------------------------------------
(* The diff that is shown *)

\* The same k lines, behind u of one text and behind v of the other.
SameLines(b, u, a, v, k) == \A i \in 1 .. k : b[u + i] = a[v + i]

\* A part of one text in the place of a part of another, between what they share.
Spliced(b, a, n, s, u, v) ==
    SubSeq(b, 1, s) \o SubSeq(a, s + 1, v) \o SubSeq(b, s + Len(SubSeq(b, s + 1, u)) + 1, n)

\* q is what s holds behind its first m lines, up to the n-th.
Part(T, s, m, n, k, q) ==
    /\ s \in Seq(T) /\ m \in Nat /\ n \in Nat /\ m <= n /\ n <= Len(s)
    /\ k = n - m /\ q = SubSeq(s, m + 1, n)

\* What such a part holds.
LEMMA PartOfLines ==
    ASSUME NEW T, NEW s, NEW m, NEW n, NEW k, NEW q, Part(T, s, m, n, k, q)
    PROVE  q \in Seq(T) /\ Len(q) = k /\ SameLines(q, 0, s, m, k)
<1>0. /\ s \in Seq(T) /\ m \in Nat /\ n \in Nat /\ m <= n /\ n <= Len(s)
      /\ k = n - m /\ q = SubSeq(s, m + 1, n)
  BY DEF Part
<1>1. m + 1 \in Nat \ {0} /\ m + 1 <= n + 1
  BY <1>0
<1>2. /\ q \in Seq(T) /\ Len(q) = n - (m + 1) + 1
      /\ \A i \in 1 .. n - (m + 1) + 1 : q[i] = s[m + 1 + i - 1]
  BY <1>0, <1>1, PartOfSeq
<1>3. n - (m + 1) + 1 = k
  BY <1>0
<1>4. \A i \in 1 .. k : 0 + i = i /\ m + 1 + i - 1 = m + i
  BY <1>0
<1>5. \A i \in 1 .. k : q[0 + i] = s[m + i]
  BY <1>2, <1>3, <1>4
<1> QED BY <1>2, <1>3, <1>5 DEF SameLines

\* t is p, q and r in a row, of s, d and k lines.
Row(T, p, q, r, s, d, k, t) ==
    /\ p \in Seq(T) /\ q \in Seq(T) /\ r \in Seq(T) /\ t = p \o q \o r
    /\ s = Len(p) /\ d = Len(q) /\ k = Len(r)

\* What such a row holds.
LEMMA JoinedLines ==
    ASSUME NEW T, NEW p, NEW q, NEW r, NEW t, NEW s, NEW d, NEW k, Row(T, p, q, r, s, d, k, t)
    PROVE  /\ t \in Seq(T) /\ Len(t) = s + d + k
           /\ SameLines(t, 0, p, 0, s) /\ SameLines(t, s, q, 0, d) /\ SameLines(t, s + d, r, 0, k)
<1>0. /\ p \in Seq(T) /\ q \in Seq(T) /\ r \in Seq(T) /\ t = p \o q \o r
      /\ s = Len(p) /\ d = Len(q) /\ k = Len(r)
  BY DEF Row
<1>1. /\ t \in Seq(T) /\ Len(t) = s + d + k
      /\ \A i \in 1 .. s : t[i] = p[i]
      /\ \A i \in 1 .. d : t[s + i] = q[i]
      /\ \A i \in 1 .. k : t[s + d + i] = r[i]
  BY <1>0, Joined
<1>2. s \in Nat /\ d \in Nat /\ k \in Nat
  BY <1>0, LenProperties
<1>3. \A l \in Nat : \A i \in 1 .. l : 0 + i = i
  OBVIOUS
<1>4. SameLines(t, 0, p, 0, s)
  BY <1>1, <1>2, <1>3 DEF SameLines
<1>5. SameLines(t, s, q, 0, d)
  BY <1>1, <1>2, <1>3 DEF SameLines
<1>6. SameLines(t, s + d, r, 0, k)
  BY <1>1, <1>2, <1>3, SMTT(30) DEF SameLines
<1> QED BY <1>1, <1>4, <1>5, <1>6

\* A text is the other one when it is spliced from both where they differ.
LEMMA Replacing ==
    ASSUME NEW T, NEW b, NEW a, NEW n, NEW m, NEW s, NEW u, NEW v, b \in Seq(T), a \in Seq(T),
           n = Len(b), m = Len(a), n \in Nat, m \in Nat, s \in Nat, u \in Nat, v \in Nat, s <= u, u <= n, s <= v, v <= m,
           SameLines(b, 0, a, 0, s), n - u = m - v, SameLines(b, u, a, v, n - u)
    PROVE  Spliced(b, a, n, s, u, v) = a
<1>0. n - u \in Nat /\ v - s \in Nat
  OBVIOUS
<1>k. PICK k \in Nat : k = n - u
  BY <1>0
<1>d. PICK d \in Nat : d = v - s
  BY <1>0
<1>1. k = m - v /\ SameLines(b, u, a, v, k)
  BY <1>k
<1>p. PICK p : p = SubSeq(b, 1, s)
  OBVIOUS
<1>q. PICK q : q = SubSeq(a, s + 1, v)
  OBVIOUS
<1>r. PICK r : r = SubSeq(b, u + 1, n)
  OBVIOUS
<1>2. s + Len(SubSeq(b, s + 1, u)) + 1 = u + 1
  <2>1. PICK l : l = SubSeq(b, s + 1, u)
    OBVIOUS
  <2>2. PICK w : w = u - s
    OBVIOUS
  <2>3. Part(T, b, s, u, w, l)
    BY <2>1, <2>2 DEF Part
  <2>4. Len(l) = w
    BY <2>3, PartOfLines
  <2> QED BY <2>1, <2>2, <2>4
<1>4. p \in Seq(T) /\ Len(p) = s /\ SameLines(p, 0, b, 0, s)
  <2>1. Part(T, b, 0, s, s, p)
    BY <1>p DEF Part
  <2> QED BY <2>1, PartOfLines, Zenon
<1>5. q \in Seq(T) /\ Len(q) = d /\ SameLines(q, 0, a, s, d)
  <2>1. Part(T, a, s, v, d, q)
    BY <1>d, <1>q DEF Part
  <2> QED BY <2>1, PartOfLines, Zenon
<1>6. r \in Seq(T) /\ Len(r) = k /\ SameLines(r, 0, b, u, k)
  <2>1. Part(T, b, u, n, k, r)
    BY <1>k, <1>r DEF Part
  <2> QED BY <2>1, PartOfLines, Zenon
<1>t. PICK t : t = p \o q \o r
  OBVIOUS
<1>7. /\ t \in Seq(T) /\ Len(t) = s + d + k
      /\ SameLines(t, 0, p, 0, s) /\ SameLines(t, s, q, 0, d) /\ SameLines(t, s + d, r, 0, k)
  <2>1. Row(T, p, q, r, s, d, k, t)
    BY <1>4, <1>5, <1>6, <1>t DEF Row
  <2> QED BY <2>1, JoinedLines
<1>8. s + d + k = m /\ Len(t) = m
  <2>1. s + d + k = m
    BY <1>1, <1>d
  <2> QED BY <2>1, <1>7
<1>9. ASSUME NEW i \in 1 .. m PROVE t[i] = a[i]
  <2>1. CASE i <= s
    <3>1. i \in 1 .. s /\ 0 + i = i
      BY <2>1
    <3>2. t[0 + i] = p[0 + i] /\ p[0 + i] = b[0 + i] /\ b[0 + i] = a[0 + i]
      BY <3>1, <1>4, <1>7 DEF SameLines
    <3> QED BY <3>1, <3>2
  <2>2. CASE s < i /\ i <= v
    <3>1. PICK j \in Nat : j = i - s /\ j \in 1 .. d
      BY <1>d, <2>2
    <3>2. s + j = i /\ 0 + j = j
      BY <3>1
    <3>3. t[s + j] = q[0 + j] /\ q[0 + j] = a[s + j]
      BY <3>1, <1>5, <1>7 DEF SameLines
    <3> QED BY <3>2, <3>3
  <2>3. CASE v < i
    <3>1. PICK j \in Nat : j = i - v /\ j \in 1 .. k
      BY <1>1, <2>3
    <3>2. s + d + j = i /\ v + j = i /\ 0 + j = j
      BY <1>d, <3>1
    <3>3. t[s + d + j] = r[0 + j] /\ r[0 + j] = b[u + j] /\ b[u + j] = a[v + j]
      BY <3>1, <1>1, <1>6, <1>7 DEF SameLines
    <3> QED BY <3>2, <3>3
  <2> QED BY <2>1, <2>2, <2>3
<1>10. t = a
  BY <1>7, <1>8, <1>9, SeqEqual
<1> QED BY <1>2, <1>10, <1>p, <1>q, <1>r, <1>t DEF Spliced

\* Up to the first difference the texts are equal.
LEMMA FirstDiffMeans ==
    ASSUME NEW T, NEW b \in Seq(T), NEW a \in Seq(T)
    PROVE  /\ FirstDiff(b, a) \in Nat /\ FirstDiff(b, a) <= Len(b) /\ FirstDiff(b, a) <= Len(a)
           /\ \A i \in 1 .. FirstDiff(b, a) : b[i] = a[i]
<1> DEFINE Common == CommonPrefixes({b, a})
<1> PICK n \in Nat : n = Len(b)
  BY LenProperties
<1> PICK m \in Nat : m = Len(a)
  BY LenProperties
<1>1. ASSUME NEW t \in {b, a}, NEW l \in 0 .. Len(t)
      PROVE  SubSeq(t, 1, l) \in Seq(T) /\ Len(SubSeq(t, 1, l)) = l
  <2>1. t \in Seq(T) /\ Len(t) \in Nat
    OBVIOUS
  <2>2. 1 \in Nat \ {0} /\ l \in Nat /\ l <= Len(t) /\ 1 <= l + 1
    BY <2>1
  <2>3. SubSeq(t, 1, l) \in Seq(T) /\ Len(SubSeq(t, 1, l)) = l - 1 + 1
    BY <2>1, <2>2, PartOfSeq
  <2> QED BY <2>2, <2>3
<1>2. \A p \in Common : p \in Seq(T) /\ IsPrefix(p, b) /\ IsPrefix(p, a)
  <2> TAKE p \in Common
  <2>1. p \in UNION {Prefixes(t) : t \in {b, a}} /\ \A t \in {b, a} : IsPrefix(p, t)
    BY DEF CommonPrefixes
  <2>2. PICK t \in {b, a} : p \in Prefixes(t)
    BY <2>1
  <2>3. PICK l \in 0 .. Len(t) : p = SubSeq(t, 1, l)
    BY <2>2 DEF Prefixes
  <2> QED BY <1>1, <2>1, <2>3
<1>3. \A p \in Common : Len(p) \in 0 .. n
  <2> TAKE p \in Common
  <2>1. Len(p) \in Nat /\ Len(p) <= Len(b)
    BY <1>2, LenProperties DEF IsPrefix
  <2> QED BY <2>1
<1>4. Common # {}
  <2>1. 0 \in 0 .. Len(b) /\ 0 \in 0 .. Len(a)
    OBVIOUS
  <2>2. PICK e : e = SubSeq(b, 1, 0)
    OBVIOUS
  <2>3. e \in Seq(T) /\ Len(e) = 0
    BY <1>1, <2>1, <2>2
  <2>4. \A t \in {b, a} : IsPrefix(e, t)
    <3> TAKE t \in {b, a}
    <3>1. t \in Seq(T) /\ Len(e) <= Len(t) /\ \A i \in 1 .. Len(e) : e[i] = t[i]
      BY <2>3
    <3> QED BY <2>3, <3>1, PrefixElements
  <2>5. e \in Prefixes(b)
    BY <2>1, <2>2 DEF Prefixes
  <2> QED BY <2>4, <2>5 DEF CommonPrefixes
<1>5. PICK longest \in Common : \A p \in Common : Len(p) <= Len(longest)
  <2> DEFINE S == {Len(p) : p \in Common}
  <2>1. S \in SUBSET (0 .. n) /\ S # {}
    BY <1>3, <1>4
  <2>2. IsFiniteSet(0 .. n)
    BY FS_Interval
  <2>3. IsFiniteSet(S)
    BY <2>1, <2>2, FS_Subset, Zenon
  <2>5. S \subseteq Int
    <3>1. \A i \in 0 .. n : i \in Int
      OBVIOUS
    <3> QED BY <2>1, <3>1
  <2>4. PICK k \in S : \A l \in S : l <= k
    <3> HIDE DEF S
    <3> QED BY <2>1, <2>3, <2>5, Largest
  <2> QED BY <2>4
<1>6. PICK p : p = LongestCommonPrefix({b, a})
  OBVIOUS
<1>7. p \in Common
  BY <1>5, <1>6, Zenon DEF LongestCommonPrefix
<1>8. p \in Seq(T) /\ IsPrefix(p, b) /\ IsPrefix(p, a)
  BY <1>2, <1>7
<1>9. /\ Len(p) \in Nat /\ Len(p) <= Len(b) /\ Len(p) <= Len(a)
      /\ (\A i \in 1 .. Len(p) : p[i] = b[i]) /\ \A i \in 1 .. Len(p) : p[i] = a[i]
  BY <1>8, PrefixElements, LenProperties
<1>10. FirstDiff(b, a) = Len(p)
  BY <1>6 DEF FirstDiff
<1> QED BY <1>9, <1>10

\* and so they are as far from their ends as the last difference.
LEMMA CommonEndMeans ==
    ASSUME NEW T, NEW b \in Seq(T), NEW a \in Seq(T)
    PROVE  /\ CommonEnd(b, a) \in Nat
           /\ CommonEnd(b, a) <= Len(b) - FirstDiff(b, a)
           /\ CommonEnd(b, a) <= Len(a) - FirstDiff(b, a)
           /\ \A i \in 0 .. CommonEnd(b, a) - 1 : b[Len(b) - i] = a[Len(a) - i]
<1> PICK n \in Nat : n = Len(b)
  BY LenProperties
<1> PICK m \in Nat : m = Len(a)
  BY LenProperties
<1> PICK f \in Nat : f = FirstDiff(b, a) /\ f <= n /\ f <= m
  BY FirstDiffMeans
<1> PICK rest : rest = Shorter(b, a) - FirstDiff(b, a)
  OBVIOUS
<1>1. rest \in Nat /\ rest <= n - f /\ rest <= m - f
  <2>1. rest = (IF n < m THEN n ELSE m) - f
    BY DEF Shorter
  <2> QED BY <2>1
<1> DEFINE Tails == {k \in 0 .. rest : \A i \in 0 .. k - 1 : b[Len(b) - i] = a[Len(a) - i]}
<1>2. Tails \in SUBSET (0 .. rest) /\ Tails # {}
  <2>1. 0 \in 0 .. rest /\ \A i \in 0 .. 0 - 1 : b[Len(b) - i] = a[Len(a) - i]
    BY <1>1
  <2> QED BY <2>1
<1>3. IsFiniteSet(Tails) /\ Tails \subseteq Int
  <2> HIDE DEF Tails
  <2>1. IsFiniteSet(0 .. rest)
    BY <1>1, FS_Interval
  <2>2. \A i \in 0 .. rest : i \in Int
    BY <1>1
  <2>3. IsFiniteSet(Tails)
    BY <1>2, <2>1, FS_Subset, Zenon
  <2> QED BY <1>2, <2>2, <2>3
<1>4. \E k \in Tails : \A l \in Tails : l <= k
  <2> HIDE DEF Tails
  <2> QED BY <1>2, <1>3, Largest
<1>5. CommonEnd(b, a) = CHOOSE k \in Tails : \A l \in Tails : l <= k
  BY Zenon DEF CommonEnd
<1>6. CommonEnd(b, a) \in Tails
  <2> HIDE DEF Tails
  <2> QED BY <1>4, <1>5, Zenon
<1> QED BY <1>1, <1>6

\* Where a hunk ends, and how much is behind it.
Reach(n, f, c, x) == LET last == IF n - 1 - c > f THEN n - 1 - c ELSE f
                     IN  IF last + x + 1 < n THEN last + x + 1 ELSE n

\* Both sides of a hunk end as far from the ends of their texts.
LEMMA ReachMeans ==
    ASSUME NEW n, NEW m, NEW f, NEW c, NEW x,
           n \in Nat, m \in Nat, f \in Nat, c \in Nat, x \in Nat, c <= n - f, c <= m - f, n = m \/ c <= x
    PROVE  /\ Reach(n, f, c, x) \in f .. n /\ Reach(m, f, c, x) \in f .. m
           /\ n - Reach(n, f, c, x) \in 0 .. c
           /\ n - Reach(n, f, c, x) = m - Reach(m, f, c, x)
BY DEF Reach

\* A line counted from the end.
LEMMA FromEnd ==
    ASSUME NEW n, NEW m, NEW u, NEW v, NEW i, NEW j, n \in Nat, m \in Nat, u \in Nat, v \in Nat,
           n - u = m - v, i \in 1 .. n - u, j = n - u - i
    PROVE  n - j = u + i /\ m - j = v + i
OBVIOUS

\* Two texts that are equal in their first lines and in their last.
SameEnds(b, a, f, c) ==
    /\ \A i \in 1 .. f : b[i] = a[i]
    /\ \A i \in 0 .. c - 1 : b[Len(b) - i] = a[Len(a) - i]

\* Where the two texts line up, the hunk that is shown turns one into the other.
LEMMA HunkExplains ==
    ASSUME NEW T, NEW b \in Seq(T), NEW a \in Seq(T), LinedUp(b, a)
    PROVE  Patched(b, Hunk(b, a)) = a
<1>n. PICK n \in Nat : n = Len(b)
  BY LenProperties
<1>m. PICK m \in Nat : m = Len(a)
  BY LenProperties
<1>f. PICK f \in Nat : f = FirstDiff(b, a) /\ f <= n /\ f <= m
  BY <1>n, <1>m, FirstDiffMeans
<1>c. PICK c \in Nat : c = CommonEnd(b, a) /\ c <= n - f /\ c <= m - f
  BY <1>n, <1>m, <1>f, CommonEndMeans
<1>0. SameEnds(b, a, f, c)
  <2>1. \A i \in 1 .. f : b[i] = a[i]
    BY <1>f, FirstDiffMeans
  <2>2. \A i \in 0 .. c - 1 : b[Len(b) - i] = a[Len(a) - i]
    BY <1>c, CommonEndMeans
  <2> QED BY <2>1, <2>2 DEF SameEnds
<1>x. PICK context \in Nat : context = ContextLines
  BY FileEditsAssumption, Zenon
<1>3. /\ n \in Nat /\ m \in Nat /\ f \in Nat /\ c \in Nat /\ context \in Nat
      /\ c <= n - f /\ c <= m - f
  BY <1>n, <1>m, <1>f, <1>c, <1>x
<1>1. n = m \/ c <= context
  BY <1>n, <1>m, <1>c, <1>x DEF LinedUp
<1>s. PICK start : start = IF f > context THEN f - context ELSE 0
  OBVIOUS
<1>u. PICK u : u = Reach(n, f, c, context)
  OBVIOUS
<1>v. PICK v : v = Reach(m, f, c, context)
  OBVIOUS
<1>2. Hunk(b, a) = [start |-> start, minus |-> SubSeq(b, start + 1, u), plus |-> SubSeq(a, start + 1, v)]
  BY <1>n, <1>m, <1>f, <1>c, <1>x, <1>s, <1>u, <1>v, Zenon DEF Hunk, LastDiff, Reach
<1>5. start \in Nat /\ start <= f
  BY <1>f, <1>x, <1>s
<1>6. u \in f .. n /\ v \in f .. m /\ n - u \in 0 .. c /\ n - u = m - v
  <2>1. /\ Reach(n, f, c, context) \in f .. n /\ Reach(m, f, c, context) \in f .. m
        /\ n - Reach(n, f, c, context) \in 0 .. c
        /\ n - Reach(n, f, c, context) = m - Reach(m, f, c, context)
    BY <1>1, <1>3, ReachMeans, SMTT(60)
  <2> QED BY <2>1, <1>u, <1>v, Zenon
<1>9. u \in Nat /\ v \in Nat /\ start <= u /\ start <= v /\ u <= n /\ v <= m
  BY <1>5, <1>6
<1>7. SameLines(b, u, a, v, n - u)
  <2> SUFFICES ASSUME NEW i \in 1 .. n - u PROVE b[u + i] = a[v + i]
    BY DEF SameLines
  <2>0. n - u - i \in 0 .. c - 1
    BY <1>6
  <2>1. PICK j \in 0 .. c - 1 : j = n - u - i
    BY <2>0
  <2>2. n - j = u + i /\ m - j = v + i
    BY <1>6, <1>9, <2>1, FromEnd
  <2>3. b[n - j] = a[m - j]
    BY <1>0, <1>n, <1>m DEF SameEnds
  <2> QED BY <2>2, <2>3
<1>8. SameLines(b, 0, a, 0, start)
  <2> SUFFICES ASSUME NEW i \in 1 .. start PROVE b[0 + i] = a[0 + i]
    BY DEF SameLines
  <2>1. i \in 1 .. f /\ 0 + i = i
    BY <1>5
  <2> QED BY <2>1, <1>0 DEF SameEnds
<1>10. Spliced(b, a, n, start, u, v) = a
  <2>1. n = Len(b) /\ m = Len(a) /\ n \in Nat /\ m \in Nat /\ start \in Nat /\ n - u = m - v
    BY <1>n, <1>m, <1>5, <1>6
  <2> QED BY <1>7, <1>8, <1>9, <2>1, Replacing, SMTT(40)
<1>M. PICK minus : minus = SubSeq(b, start + 1, u)
  OBVIOUS
<1>P. PICK plus : plus = SubSeq(a, start + 1, v)
  OBVIOUS
<1>H. PICK hunk : hunk = [start |-> start, minus |-> minus, plus |-> plus]
  OBVIOUS
<1>11. hunk.start = start /\ hunk.minus = minus /\ hunk.plus = plus
  BY <1>H
<1>12. Hunk(b, a) = hunk
  BY <1>2, <1>H, <1>M, <1>P
<1> QED BY <1>n, <1>10, <1>11, <1>12, <1>M, <1>P, Zenon DEF Patched, Spliced

-----------------------------------------------------------------------------
(* The requests *)

\* What is asked of the engine, and a request for it.
ActionType == [type : EditTypes \cup {"create_file", "delete_file", "create_directory",
                                      "list_directory", "move_file", "noop"},
               path : Paths, to : Paths, line : 0 .. 3, text : {"", "new"}, overwrite : BOOLEAN]

RequestType == [stage : Stages, action : Actions, before : Lines, expected : BOOLEAN, ok : BOOLEAN]

LEMMA ActionTypes ==
    ASSUME NEW a \in Actions
    PROVE  a \in ActionType
<1>1. ASSUME NEW type \in {"replace_text", "append_text", "insert_line", "delete_line", "create_file",
                           "delete_file", "create_directory", "list_directory", "move_file", "noop"},
             NEW p \in Paths, NEW q \in Paths, NEW n \in 0 .. 3, NEW text \in {"", "new"},
             NEW o \in BOOLEAN,
             a = [type |-> type, path |-> p, to |-> q, line |-> n, text |-> text, overwrite |-> o]
      PROVE  a \in ActionType
  <2>2. type \in EditTypes \cup {"create_file", "delete_file", "create_directory", "list_directory",
                                 "move_file", "noop"}
    BY Zenon DEF EditTypes
  <2> QED BY <1>1, <2>2, Zenon DEF ActionType
<1>0. 0 \in 0 .. 3
  OBVIOUS
<1>2. CASE a \in EditActions
  <2>1. PICK p \in Paths :
           \/ a = [Plain("replace_text", p) EXCEPT !.text = "new"]
           \/ a = [Plain("append_text", p) EXCEPT !.text = "new"]
           \/ \E n \in 1 .. 3 : a = [Plain("insert_line", p) EXCEPT !.line = n, !.text = "new"]
           \/ \E n \in 1 .. 3 : a = [Plain("delete_line", p) EXCEPT !.line = n]
    <3>1. PICK p \in Paths :
             a \in {[Plain("replace_text", p) EXCEPT !.text = "new"],
                   [Plain("append_text", p) EXCEPT !.text = "new"]}
                  \cup {[Plain("insert_line", p) EXCEPT !.line = n, !.text = "new"] : n \in 1 .. 3}
                  \cup {[Plain("delete_line", p) EXCEPT !.line = n] : n \in 1 .. 3}
      BY <1>2, Zenon DEF EditActions
    <3> QED BY <3>1, Zenon
  <2>2. CASE a = [Plain("replace_text", p) EXCEPT !.text = "new"]
    <3>1. a = [type |-> "replace_text", path |-> p, to |-> p, line |-> 0, text |-> "new", overwrite |-> FALSE]
      BY <2>2, Zenon DEF Plain
    <3> QED BY <1>0, <1>1, <3>1, Zenon
  <2>3. CASE a = [Plain("append_text", p) EXCEPT !.text = "new"]
    <3>1. a = [type |-> "append_text", path |-> p, to |-> p, line |-> 0, text |-> "new", overwrite |-> FALSE]
      BY <2>3, Zenon DEF Plain
    <3> QED BY <1>0, <1>1, <3>1, Zenon
  <2>4. ASSUME NEW n \in 1 .. 3, a = [Plain("insert_line", p) EXCEPT !.line = n, !.text = "new"]
        PROVE  a \in ActionType
    <3>1. a = [type |-> "insert_line", path |-> p, to |-> p, line |-> n, text |-> "new", overwrite |-> FALSE]
      BY <2>4 DEF Plain
    <3>2. n \in 0 .. 3
      OBVIOUS
    <3> QED BY <1>1, <3>1, <3>2, Zenon
  <2>5. ASSUME NEW n \in 1 .. 3, a = [Plain("delete_line", p) EXCEPT !.line = n]
        PROVE  a \in ActionType
    <3>1. a = [type |-> "delete_line", path |-> p, to |-> p, line |-> n, text |-> "", overwrite |-> FALSE]
      BY <2>5, Zenon DEF Plain
    <3>2. n \in 0 .. 3
      OBVIOUS
    <3> QED BY <1>1, <3>1, <3>2, Zenon
  <2> QED BY <2>1, <2>2, <2>3, <2>4, <2>5
<1>3. CASE a \in FileActions
  <2>1. \/ \E p \in Paths, o \in BOOLEAN :
              a = [Plain("create_file", p) EXCEPT !.text = "new", !.overwrite = o]
        \/ \E type \in {"delete_file", "create_directory", "list_directory"}, p \in Paths : a = Plain(type, p)
        \/ \E p \in Paths, q \in Paths : a = [Plain("move_file", p) EXCEPT !.to = q]
        \/ \E p \in Paths : a = Plain("noop", p)
    <3> DEFINE Create(p, o) == [Plain("create_file", p) EXCEPT !.text = "new", !.overwrite = o]
               Creates == {Create(p, o) : p \in Paths, o \in BOOLEAN}
               Types == {"delete_file", "create_directory", "list_directory"}
               Plains == {Plain(type, p) : type \in Types, p \in Paths}
               Move(p, q) == [Plain("move_file", p) EXCEPT !.to = q]
               Moves == {Move(p, q) : p \in Paths, q \in Paths}
               Noops == {Plain("noop", p) : p \in Paths}
    <3>1. FileActions = Creates \cup Plains \cup Moves \cup Noops
      BY DEF FileActions
    <3>2. a \in Creates => \E p \in Paths, o \in BOOLEAN : a = Create(p, o)
      <4> HIDE DEF Create
      <4> QED OBVIOUS
    <3>3. a \in Plains => \E type \in Types, p \in Paths : a = Plain(type, p)
      <4> HIDE DEF Types
      <4> QED OBVIOUS
    <3>4. a \in Moves => \E p \in Paths, q \in Paths : a = Move(p, q)
      <4> HIDE DEF Move
      <4> QED OBVIOUS
    <3>5. a \in Noops => \E p \in Paths : a = Plain("noop", p)
      OBVIOUS
    <3>6. a \in Creates \/ a \in Plains \/ a \in Moves \/ a \in Noops
      <4> HIDE DEF Creates, Plains, Moves, Noops
      <4> QED BY <1>3, <3>1
    <3> HIDE DEF Creates, Plains, Moves, Noops
    <3> QED BY <3>2, <3>3, <3>4, <3>5, <3>6, Zenon
  <2>2. ASSUME NEW p \in Paths, NEW o \in BOOLEAN,
               a = [Plain("create_file", p) EXCEPT !.text = "new", !.overwrite = o]
        PROVE  a \in ActionType
    <3>1. a = [type |-> "create_file", path |-> p, to |-> p, line |-> 0, text |-> "new", overwrite |-> o]
      BY <2>2 DEF Plain
    <3> QED BY <1>0, <1>1, <3>1, Zenon
  <2>3. ASSUME NEW type \in {"delete_file", "create_directory", "list_directory"}, NEW p \in Paths,
               a = Plain(type, p)
        PROVE  a \in ActionType
    <3>1. a = [type |-> type, path |-> p, to |-> p, line |-> 0, text |-> "", overwrite |-> FALSE]
      BY <2>3, Zenon DEF Plain
    <3> QED BY <1>0, <1>1, <3>1, Zenon
  <2>4. ASSUME NEW p \in Paths, NEW q \in Paths, a = [Plain("move_file", p) EXCEPT !.to = q]
        PROVE  a \in ActionType
    <3>1. a = [type |-> "move_file", path |-> p, to |-> q, line |-> 0, text |-> "", overwrite |-> FALSE]
      BY <2>4, Zenon DEF Plain
    <3> QED BY <1>0, <1>1, <3>1, Zenon
  <2>5. ASSUME NEW p \in Paths, a = Plain("noop", p)
        PROVE  a \in ActionType
    <3>1. a = [type |-> "noop", path |-> p, to |-> p, line |-> 0, text |-> "", overwrite |-> FALSE]
      BY <2>5, Zenon DEF Plain
    <3> QED BY <1>0, <1>1, <3>1, Zenon
  <2> QED BY <2>1, <2>2, <2>3, <2>4, <2>5, Zenon
<1> QED BY <1>2, <1>3 DEF Actions

\* An edit of a text is a text.
LEMMA EditedType ==
    ASSUME NEW a \in Actions, NEW lines \in Lines, a.type \in EditTypes, Applies(a, lines)
    PROVE  Edited(a, lines) \in Lines
<1> DEFINE S == {"", "old", "new", "directory"}
<1>0. lines \in Seq(S) /\ a.text \in S /\ a.line \in Int
  <2>1. a \in ActionType
    BY ActionTypes
  <2>2. a.text \in {"", "new"} /\ a.line \in 0 .. 3
    BY <2>1, Zenon DEF ActionType
  <2>3. lines \in Seq(S)
    BY Zenon DEF Lines
  <2>4. a.text \in S
    BY <2>2, Zenon
  <2>5. a.line \in Int
    <3>1. \A i \in 0 .. 3 : i \in Int
      OBVIOUS
    <3> QED BY <2>2, <3>1, Zenon
  <2> QED BY <2>3, <2>4, <2>5, Zenon
<1>1. PICK n \in Nat : n = Len(lines)
  BY <1>0, LenProperties, Zenon
<1>2. CASE a.type = "replace_text"
  <2>1. PICK i : i = SelectInSeq(lines, LAMBDA l : l = "old")
    OBVIOUS
  <2>2. Edited(a, lines) = [lines EXCEPT ![i] = a.text]
    BY <1>2, <2>1 DEF Edited, Replaced
  <2>3. [lines EXCEPT ![i] = a.text] \in [1 .. n -> S]
    <3>1. lines \in [1 .. n -> S]
      BY <1>0, <1>1, LenProperties, ElementOfSeq, Zenon
    <3> QED BY <3>1, <1>0, Zenon
  <2> QED BY <2>2, <2>3, <1>1, Numbered, Zenon DEF Lines
<1>3. CASE a.type = "insert_line"
  <2>1. a.line \in 1 .. Len(lines) + 1
    BY <1>3 DEF Applies
  <2>2. InsertAt(lines, a.line, a.text) \in Seq(S)
    BY <1>0, <2>1, InsertAtElements, Zenon
  <2>3. Edited(a, lines) = InsertAt(lines, a.line, a.text)
    BY <1>3 DEF Edited
  <2> QED BY <2>2, <2>3, Zenon DEF Lines
<1>4. CASE a.type = "delete_line"
  <2>1. a.line \in 1 .. Len(lines)
    BY <1>4 DEF Applies
  <2>2. RemoveAt(lines, a.line) \in Seq(S)
    BY <1>0, <2>1, RemoveAtElements, Zenon
  <2>3. Edited(a, lines) = IF Len(lines) = 1 THEN <<"">> ELSE RemoveAt(lines, a.line)
    BY <1>4 DEF Edited
  <2>4. <<"">> \in Seq(S)
    BY Single
  <2> QED BY <2>2, <2>3, <2>4, Zenon DEF Lines
<1>5. CASE a.type = "append_text"
  <2>1. Edited(a, lines) = Appended(lines, a.text)
    BY <1>5 DEF Edited
  <2>2. CASE Len(lines) > 1
    <3>1. n - 1 \in Nat /\ n - 1 <= Len(lines) /\ 1 \in Nat \ {0} /\ 1 <= n - 1 + 1
      BY <1>1, <2>2
    <3>2. SubSeq(lines, 1, n - 1) \in Seq(S)
      BY <1>0, <3>1, PartOfSeq, Zenon
    <3>3. Front(lines) \in Seq(S)
      BY <1>1, <3>2, Zenon DEF Front
    <3>4. Append(Front(lines), a.text) \in Seq(S) /\ Append(lines, a.text) \in Seq(S)
      BY <1>0, <3>3, AppendProperties, Zenon
    <3> QED BY <2>1, <3>4, Zenon DEF Appended, Lines
  <2>3. CASE ~(Len(lines) > 1)
    <3>1. Append(lines, a.text) \in Seq(S)
      BY <1>0, AppendProperties, Zenon
    <3> QED BY <2>1, <2>3, <3>1, Zenon DEF Appended, Lines
  <2> QED BY <2>2, <2>3
<1> QED BY <1>2, <1>3, <1>4, <1>5 DEF EditTypes

-----------------------------------------------------------------------------
(* The files *)

\* A text edit does not look, a move does not read, an edit has been worked out
\* before it is written, and what a request found is still there unless another one was at the same path.
Sound(r) ==
    LET q == request[r]  a == request[r].action IN
    /\ q.stage = "looking" => a.type \notin EditTypes
    /\ q.stage = "reading" => a.type # "move_file"
    /\ q.stage = "writing" =>
          /\ a.type \in EditTypes => Applies(a, q.before)
          /\ a.path \notin contended => q.before = disk[a.path]
          /\ a.type = "move_file" /\ a.to \notin contended => disk[a.to] = Absent

\* Paths that two requests are at are known to be contended.
Apart ==
    \A r, s \in InFlight :
        r # s => Touches(request[r].action) \cap Touches(request[s].action) \subseteq contended

\* The reports of a file follow on each other and end with what is there.
Unbroken(story, text) ==
    /\ \A i \in 2 .. Len(story) : story[i].before = story[i - 1].after
    /\ Last(story).after = text
Story(p) == changes[p] # <<>> /\ (p \notin contended => Unbroken(changes[p], disk[p]))

\* The invariant of the engine and its files.
FilesInv ==
    /\ FileEditsTypeOK
    /\ \A r \in Requests : Sound(r)
    /\ Apart
    /\ \A p \in Paths : Story(p)

\* One report of a change to a file.
Report == [before : Lines, after : Lines]

\* What a path may hold, and what may be asked.
LEMMA TextTypes ==
    /\ Absent \in Lines /\ Directory \in Lines /\ <<"">> \in Lines /\ <<"new">> \in Lines
    /\ \A p \in Paths : Plain("noop", p) \in Actions
    /\ Absent # Directory
<1>1. "directory" \in {"", "old", "new", "directory"} /\ "" \in {"", "old", "new", "directory"}
      /\ "new" \in {"", "old", "new", "directory"}
  OBVIOUS
<1>2. Absent \in Lines
  BY DEF Absent, Lines
<1>3. Directory \in Lines
  BY <1>1, Single DEF Directory, Lines
<1>4. <<"">> \in Lines /\ <<"new">> \in Lines
  BY <1>1, Single, Zenon DEF Lines
<1>5. \A p \in Paths : Plain("noop", p) \in Actions
  <2> DEFINE Creates == {[Plain("create_file", p) EXCEPT !.text = "new", !.overwrite = o]
                             : p \in Paths, o \in BOOLEAN}
             Plains == {Plain(type, p) : type \in {"delete_file", "create_directory", "list_directory"},
                                         p \in Paths}
             Moves == {[Plain("move_file", p) EXCEPT !.to = q] : p \in Paths, q \in Paths}
             Noops == {Plain("noop", p) : p \in Paths}
  <2>1. FileActions = Creates \cup Plains \cup Moves \cup Noops
    BY DEF FileActions
  <2>2. \A p \in Paths : Plain("noop", p) \in Noops
    OBVIOUS
  <2> HIDE DEF Creates, Plains, Moves, Noops
  <2> QED BY <2>1, <2>2 DEF Actions
<1>6. Absent # Directory
  BY DEF Absent, Directory
<1> QED BY <1>2, <1>3, <1>4, <1>5, <1>6, Zenon

\* What a request begins as.
LEMMA FirstType ==
    ASSUME Paths # {}
    PROVE  NotAsked \in RequestType /\ NotAsked.stage = "none"
<1>1. Plain("noop", CHOOSE p \in Paths : TRUE) \in Actions
  BY TextTypes, Zenon
<1> QED BY <1>1, TextTypes, Zenon DEF NotAsked, RequestType, Stages

\* One more report.
LEMMA OneMoreReport ==
    ASSUME NEW story \in Seq(Report), NEW entry \in Report
    PROVE  /\ Append(story, entry) \in Seq(Report) /\ Append(story, entry) # <<>>
           /\ \A text : story # <<>> /\ Unbroken(story, text) /\ entry.before = text =>
                           Unbroken(Append(story, entry), entry.after)
<1>1. PICK n \in Nat : n = Len(story)
  BY LenProperties
<1>2. PICK more : more = Append(story, entry)
  OBVIOUS
<1>3. /\ more \in Seq(Report) /\ Len(more) = n + 1 /\ more[n + 1] = entry
      /\ \A i \in 1 .. n : more[i] = story[i]
  BY <1>1, <1>2, AppendProperties
<1>4. more # <<>>
  BY <1>1, <1>3
<1>5. ASSUME NEW text, story # <<>>, Unbroken(story, text), entry.before = text
      PROVE  Unbroken(more, entry.after)
  <2>1. n >= 1
    BY <1>1, <1>5, EmptySeq
  <2>2. (\A i \in 2 .. n : story[i].before = story[i - 1].after) /\ story[n].after = text
    BY <1>1, <1>5 DEF Unbroken, Last
  <2>3. ASSUME NEW i \in 2 .. n + 1 PROVE more[i].before = more[i - 1].after
    <3>1. CASE i = n + 1
      <4>1. i - 1 = n /\ n \in 1 .. n
        BY <1>1, <2>1, <3>1
      <4>2. more[n] = story[n] /\ more[i] = entry
        BY <1>3, <3>1, <4>1
      <4> QED BY <1>5, <2>2, <4>1, <4>2
    <3>2. CASE i # n + 1
      <4>1. i \in 2 .. n /\ i \in 1 .. n /\ i - 1 \in 1 .. n
        BY <1>1, <3>2
      <4>2. more[i] = story[i] /\ more[i - 1] = story[i - 1]
        BY <1>3, <4>1
      <4> QED BY <2>2, <4>1, <4>2
    <3> QED BY <3>1, <3>2
  <2>4. Last(more).after = entry.after
    BY <1>3 DEF Last
  <2> QED BY <1>3, <2>3, <2>4 DEF Unbroken
<1> QED BY <1>2, <1>3, <1>4, <1>5

\* A step that writes to W and leaves every request sound.
LEMMA FilesStep ==
    ASSUME FilesInv, FileEditsTypeOK', NEW W \in SUBSET Paths, contended \subseteq contended', Apart',
           \A p \in Paths \ W : disk'[p] = disk[p] /\ changes'[p] = changes[p],
           \A p \in W : Story(p)',
           \A r \in Requests :
              \/ Sound(r)'
              \/ request'[r] = request[r] /\ Touches(request[r].action) \cap W \subseteq contended'
    PROVE  FilesInv'
<1>1. ASSUME NEW r \in Requests PROVE Sound(r)'
  <2> SUFFICES ASSUME request'[r] = request[r], Touches(request[r].action) \cap W \subseteq contended'
               PROVE  Sound(r)'
    OBVIOUS
  <2> PICK a : a = request[r].action
    OBVIOUS
  <2>1. Sound(r)
    BY DEF FilesInv
  <2>2. a \in ActionType /\ a.path \in Paths /\ a.to \in Paths
    <3>1. request[r] \in RequestType
      BY DEF FilesInv, FileEditsTypeOK, RequestType
    <3>2. a \in ActionType
      BY <3>1, ActionTypes DEF RequestType
    <3> QED BY <3>2, Zenon DEF ActionType
  <2>3. a.path \notin contended' => a.path \notin contended /\ disk'[a.path] = disk[a.path]
    BY <2>2 DEF Touches
  <2>4. a.to \notin contended' => a.to \notin contended /\ disk'[a.to] = disk[a.to]
    BY <2>2 DEF Touches
  <2> QED BY <2>1, <2>3, <2>4 DEF Sound
<1>2. ASSUME NEW p \in Paths \ W PROVE Story(p)'
  <2>1. Story(p)
    BY DEF FilesInv
  <2> QED BY <2>1 DEF Story
<1> QED BY <1>1, <1>2 DEF FilesInv

\* No request begins.
LEMMA StillApart ==
    ASSUME Apart, contended \subseteq contended',
           \A r \in Requests : request'[r].stage \notin {"none", "done"} =>
              request[r].stage \notin {"none", "done"} /\ request'[r].action = request[r].action
    PROVE  Apart'
BY DEF Apart, InFlight

\* What a request that ends leaves alone.
LEMMA EndsMeans ==
    ASSUME FileEditsTypeOK, NEW r \in Requests, NEW ok \in BOOLEAN, Ends(r, ok)
    PROVE  /\ request' \in [Requests -> RequestType]
           /\ request'[r] = [stage |-> "done", action |-> request[r].action, before |-> Absent,
                             expected |-> request[r].expected, ok |-> ok]
           /\ \A s \in Requests : s # r => request'[s] = request[s]
<1>1. request \in [Requests -> RequestType]
  BY DEF FileEditsTypeOK, RequestType
<1>2. PICK p \in RequestType : p = request[r]
  BY <1>1
<1>3. PICK q : q = [p EXCEPT !.stage = "done", !.ok = ok, !.before = Absent]
  OBVIOUS
<1>4. q = [stage |-> "done", action |-> p.action, before |-> Absent, expected |-> p.expected, ok |-> ok]
  BY <1>2, <1>3 DEF RequestType
<1>5. q \in RequestType
  <2>1. p.action \in Actions /\ p.expected \in BOOLEAN
    BY <1>2 DEF RequestType
  <2>2. "done" \in Stages
    BY DEF Stages
  <2> QED BY <1>4, <2>1, <2>2, TextTypes, Zenon DEF RequestType
<1>6. request' = [request EXCEPT ![r] = q]
  BY <1>2, <1>3 DEF Ends
<1> QED BY <1>1, <1>2, <1>4, <1>5, <1>6

\* What a request that goes on changes.
LEMMA GoesMeans ==
    ASSUME FileEditsTypeOK, NEW r \in Requests, NEW stage \in Stages, NEW before \in Lines,
           Goes(r, stage, before)
    PROVE  /\ request' \in [Requests -> RequestType]
           /\ request'[r] = [stage |-> stage, action |-> request[r].action, before |-> before,
                             expected |-> request[r].expected, ok |-> request[r].ok]
           /\ \A s \in Requests : s # r => request'[s] = request[s]
<1>1. request \in [Requests -> RequestType]
  BY DEF FileEditsTypeOK, RequestType
<1>2. PICK p \in RequestType : p = request[r]
  BY <1>1
<1>3. PICK q : q = [p EXCEPT !.stage = stage, !.before = before]
  OBVIOUS
<1>4. q = [stage |-> stage, action |-> p.action, before |-> before, expected |-> p.expected, ok |-> p.ok]
  BY <1>2, <1>3 DEF RequestType
<1>5. q \in RequestType
  <2>1. p.action \in Actions /\ p.expected \in BOOLEAN /\ p.ok \in BOOLEAN
    BY <1>2 DEF RequestType
  <2> QED BY <1>4, <2>1 DEF RequestType
<1>6. request' = [request EXCEPT ![r] = q]
  BY <1>2, <1>3 DEF Goes
<1> QED BY <1>1, <1>2, <1>4, <1>5, <1>6

\* A request goes on without touching a file.
LEMMA ReadsStep ==
    ASSUME FilesInv, Reads, NEW r \in Requests, request[r].stage \notin {"none", "done"},
           request' \in [Requests -> RequestType], request'[r].action = request[r].action,
           \A s \in Requests : s # r => request'[s] = request[s],
           Sound(r)'
    PROVE  FilesInv'
<1>1. UNCHANGED <<disk, applyEdits, changes, contended, diskFaults>>
  BY DEF Reads
<1>2. FileEditsTypeOK'
  BY <1>1 DEF FilesInv, FileEditsTypeOK, RequestType
<1>3. Apart'
  <2>1. Apart
    BY DEF FilesInv
  <2> QED BY <1>1, <2>1, StillApart
<1>4. ASSUME NEW s \in Requests
      PROVE  Sound(s)' \/ (request'[s] = request[s] /\ Touches(request[s].action) \cap {} \subseteq contended')
  BY DEF FilesInv
<1> QED BY <1>1, <1>2, <1>3, <1>4, FilesStep

\* A request writes to W and ends.
LEMMA WritesStep ==
    ASSUME FilesInv, NEW r \in Requests, NEW ok \in BOOLEAN, request[r].stage = "writing", Ends(r, ok),
           NEW W \in SUBSET Paths, W \subseteq Touches(request[r].action),
           disk' \in [Paths -> Lines], changes' \in [Paths -> Seq(Report)], applyEdits' = applyEdits,
           contended \subseteq contended', contended' \subseteq Paths, diskFaults' \in 0 .. MaxDiskFaults,
           \A p \in Paths \ W : disk'[p] = disk[p] /\ changes'[p] = changes[p],
           \A p \in W : Story(p)'
    PROVE  FilesInv'
<1>0. FileEditsTypeOK /\ Apart
  BY DEF FilesInv
<1>1. /\ request' \in [Requests -> RequestType] /\ request'[r].stage = "done"
      /\ \A s \in Requests : s # r => request'[s] = request[s]
  <2>1. /\ request' \in [Requests -> RequestType]
        /\ request'[r] = [stage |-> "done", action |-> request[r].action, before |-> Absent,
                          expected |-> request[r].expected, ok |-> ok]
        /\ \A s \in Requests : s # r => request'[s] = request[s]
    BY <1>0, EndsMeans, Zenon
  <2> QED BY <2>1
<1>2. FileEditsTypeOK'
  BY <1>0, <1>1 DEF FileEditsTypeOK, RequestType, Report
<1>3. Apart'
  <2>1. \A s \in Requests : request'[s].stage \notin {"none", "done"} =>
            request[s].stage \notin {"none", "done"} /\ request'[s].action = request[s].action
    BY <1>1
  <2> QED BY <1>0, <2>1, StillApart
<1>4. ASSUME NEW s \in Requests
      PROVE  Sound(s)' \/ (request'[s] = request[s] /\ Touches(request[s].action) \cap W \subseteq contended')
  <2>1. CASE s = r
    BY <1>1, <2>1 DEF Sound
  <2>2. CASE s # r /\ request[s].stage \in {"none", "done"}
    <3>1. request'[s].stage \in {"none", "done"}
      BY <1>1, <2>2
    <3> QED BY <3>1 DEF Sound
  <2>3. CASE s # r /\ request[s].stage \notin {"none", "done"}
    <3>1. s \in InFlight /\ r \in InFlight
      BY <2>3 DEF InFlight
    <3>2. Touches(request[s].action) \cap Touches(request[r].action) \subseteq contended
      BY <1>0, <2>3, <3>1 DEF Apart
    <3> QED BY <1>1, <2>3, <3>2
  <2> QED BY <2>1, <2>2, <2>3
<1> QED BY <1>2, <1>3, <1>4, FilesStep

\* The steps of a request keep the invariant: the file is read,
LEMMA ReadStep ==
    ASSUME FilesInv, NEW r \in Requests, Read(r)
    PROVE  FilesInv'
<1>0. FileEditsTypeOK /\ Sound(r) /\ request[r] \in RequestType
  BY DEF FilesInv, FileEditsTypeOK, RequestType
<1>1. Reads /\ request[r].stage = "reading"
  BY DEF Read
<1> PICK a : a = request[r].action
  OBVIOUS
<1>2. a.path \in Paths /\ disk[a.path] \in Lines
  <2>1. a \in ActionType
    BY <1>0, ActionTypes DEF RequestType
  <2> QED BY <1>0, <2>1, Zenon DEF ActionType, FileEditsTypeOK
<1>3. CASE (a.type \in EditTypes => Applies(a, disk[a.path])) /\ Goes(r, "writing", disk[a.path])
  <2>1. "writing" \in Stages
    BY DEF Stages
  <2>2. /\ request' \in [Requests -> RequestType]
        /\ request'[r].stage = "writing" /\ request'[r].action = a /\ request'[r].before = disk[a.path]
        /\ \A s \in Requests : s # r => request'[s] = request[s]
    <3>1. /\ request' \in [Requests -> RequestType]
          /\ request'[r] = [stage |-> "writing", action |-> request[r].action, before |-> disk[a.path],
                            expected |-> request[r].expected, ok |-> request[r].ok]
          /\ \A s \in Requests : s # r => request'[s] = request[s]
      BY <1>0, <1>2, <1>3, <2>1, GoesMeans, Zenon
    <3> QED BY <3>1
  <2>3. Sound(r)'
    BY <1>0, <1>1, <1>3, <2>2 DEF Sound, Reads
  <2> QED BY <1>1, <2>2, <2>3, ReadsStep
<1>4. CASE Ends(r, FALSE)
  <2>1. /\ request' \in [Requests -> RequestType]
        /\ request'[r].stage = "done" /\ request'[r].action = a
        /\ \A s \in Requests : s # r => request'[s] = request[s]
    <3>1. /\ request' \in [Requests -> RequestType]
          /\ request'[r] = [stage |-> "done", action |-> request[r].action, before |-> Absent,
                            expected |-> request[r].expected, ok |-> FALSE]
          /\ \A s \in Requests : s # r => request'[s] = request[s]
      BY <1>0, <1>4, EndsMeans, Zenon
    <3> QED BY <3>1
  <2>2. Sound(r)'
    BY <2>1 DEF Sound
  <2> QED BY <1>1, <2>1, <2>2, ReadsStep
<1> QED BY <1>3, <1>4 DEF Read

\* Looking at the paths ends a request or takes it further,
LEMMA LookMeans ==
    ASSUME FilesInv, NEW r \in Requests, Look(r)
    PROVE  \/ \E ok \in BOOLEAN : Ends(r, ok)
           \/ \E stage \in {"reading", "writing"} : \E before \in Lines :
                 /\ Goes(r, stage, before)
                 /\ stage = "reading" => request[r].action.type # "move_file"
                 /\ stage = "writing" =>
                       /\ before = disk[request[r].action.path]
                       /\ request[r].action.type = "move_file" => disk[request[r].action.to] = Absent
<1>0. FileEditsTypeOK /\ Sound(r) /\ request[r] \in RequestType /\ request[r].stage = "looking"
  BY DEF FilesInv, FileEditsTypeOK, RequestType, Look
<1> PICK a : a = request[r].action
  OBVIOUS
<1>1. a \in ActionType
  BY <1>0, ActionTypes DEF RequestType
<1>2. disk[a.path] \in Lines /\ Absent \in Lines
  BY <1>0, <1>1, TextTypes, Zenon DEF ActionType, FileEditsTypeOK
<1>3. a.type \in {"noop", "list_directory", "create_directory", "create_file", "delete_file", "move_file"}
  BY <1>0, <1>1, Zenon DEF ActionType, Sound
<1>4. CASE a.type = "noop" \/ a.type = "list_directory"
  <2>1. Ends(r, TRUE) \/ Ends(r, disk[a.path] = Directory)
    BY <1>4 DEF Look
  <2>2. (disk[a.path] = Directory) \in BOOLEAN
    OBVIOUS
  <2> QED BY <2>1, <2>2, Zenon
<1>5. CASE a.type = "create_directory"
  <2>1. Goes(r, "writing", disk[a.path])
    BY <1>5 DEF Look
  <2> QED BY <1>2, <1>5, <2>1
<1>6. CASE a.type = "create_file" \/ a.type = "delete_file"
  <2>1. \/ disk[a.path] = Absent /\ Goes(r, "writing", Absent)
        \/ Goes(r, "reading", Absent)
        \/ Ends(r, FALSE)
    BY <1>6 DEF Look
  <2> QED BY <1>2, <1>6, <2>1
<1>7. CASE a.type = "move_file"
  <2>1. Ends(r, FALSE) \/ (disk[a.to] = Absent /\ Goes(r, "writing", disk[a.path]))
    BY <1>7 DEF Look
  <2> QED BY <1>2, <1>7, <2>1
<1> QED BY <1>3, <1>4, <1>5, <1>6, <1>7

LEMMA LookStep ==
    ASSUME FilesInv, NEW r \in Requests, Look(r)
    PROVE  FilesInv'
<1>0. FileEditsTypeOK /\ Sound(r)
  BY DEF FilesInv
<1>1. Reads /\ request[r].stage = "looking"
  BY DEF Look
<1> PICK a : a = request[r].action
  OBVIOUS
<1>2. a.type \notin EditTypes
  BY <1>0, <1>1 DEF Sound
<1>3. CASE \E ok \in BOOLEAN : Ends(r, ok)
  <2>1. PICK ok \in BOOLEAN : Ends(r, ok)
    BY <1>3
  <2>2. /\ request' \in [Requests -> RequestType]
        /\ request'[r] = [stage |-> "done", action |-> request[r].action, before |-> Absent,
                          expected |-> request[r].expected, ok |-> ok]
        /\ \A s \in Requests : s # r => request'[s] = request[s]
    BY <1>0, <2>1, EndsMeans, Zenon
  <2>3. request'[r].stage = "done" /\ request'[r].action = request[r].action
    BY <2>2
  <2>4. Sound(r)'
    BY <2>3 DEF Sound
  <2> QED BY <1>1, <2>2, <2>3, <2>4, ReadsStep
<1>4. ASSUME NEW stage \in {"reading", "writing"}, NEW before \in Lines, Goes(r, stage, before),
             stage = "reading" => a.type # "move_file",
             stage = "writing" => /\ before = disk[a.path]
                                  /\ a.type = "move_file" => disk[a.to] = Absent
      PROVE FilesInv'
  <2>1. stage \in Stages
    BY DEF Stages
  <2>2. /\ request' \in [Requests -> RequestType]
        /\ request'[r] = [stage |-> stage, action |-> request[r].action, before |-> before,
                          expected |-> request[r].expected, ok |-> request[r].ok]
        /\ \A s \in Requests : s # r => request'[s] = request[s]
    BY <1>0, <1>4, <2>1, GoesMeans, Zenon
  <2>3. request'[r].stage = stage /\ request'[r].action = a /\ request'[r].before = before
    BY <2>2
  <2>4. Sound(r)'
    BY <1>1, <1>2, <1>4, <2>3 DEF Sound, Reads
  <2> QED BY <1>1, <2>2, <2>3, <2>4, ReadsStep
<1> QED BY <1>3, <1>4, LookMeans, Zenon

\* The text a request writes is a text,
LEMMA AfterType ==
    ASSUME FilesInv, NEW r \in Requests, request[r].stage = "writing"
    PROVE  /\ After(r) \in Lines /\ request[r].before \in Lines
           /\ request[r].action.path \in Paths /\ request[r].action.to \in Paths
           /\ request[r].action.type \in EditTypes =>
                 After(r) = Edited(request[r].action, request[r].before)
<1>0. Sound(r) /\ request[r] \in RequestType
  BY DEF FilesInv, FileEditsTypeOK, RequestType
<1> PICK a : a = request[r].action
  OBVIOUS
<1>1. a \in Actions /\ a \in ActionType /\ request[r].before \in Lines
  BY <1>0, ActionTypes DEF RequestType
<1>2. a.path \in Paths /\ a.to \in Paths /\ a.text \in {"", "new"}
  BY <1>1, Zenon DEF ActionType
<1>3. CASE a.type \in EditTypes
  <2>1. After(r) = Edited(a, request[r].before)
    <3>1. After(r) = CASE a.type \in EditTypes        -> Edited(a, request[r].before)
                       [] a.type = "create_file"      -> <<a.text>>
                       [] a.type = "create_directory" -> Directory
                       [] OTHER                       -> Absent
      BY Zenon DEF After
    <3>2. a.type # "create_file" /\ a.type # "create_directory"
      BY <1>3 DEF EditTypes
    <3> QED BY <1>3, <3>1, <3>2
  <2>2. Applies(a, request[r].before)
    BY <1>0, <1>3 DEF Sound
  <2>3. Edited(a, request[r].before) \in Lines
    BY <1>1, <1>3, <2>2, EditedType
  <2> QED BY <1>1, <1>2, <2>1, <2>3, Zenon
<1>4. CASE a.type = "create_file" /\ a.type \notin EditTypes
  <2>1. After(r) = <<a.text>>
    BY <1>4 DEF After, EditTypes
  <2>2. <<a.text>> \in Lines
    <3>1. a.text \in {"", "old", "new", "directory"}
      BY <1>2, Zenon
    <3> QED BY <3>1, Single, Zenon DEF Lines
  <2> QED BY <1>1, <1>2, <1>4, <2>1, <2>2, Zenon
<1>5. CASE a.type = "create_directory" /\ a.type \notin EditTypes
  <2>1. After(r) = Directory
    BY <1>5 DEF After, EditTypes
  <2> QED BY <1>1, <1>2, <1>5, <2>1, TextTypes, Zenon
<1>6. CASE a.type \notin EditTypes /\ a.type # "create_file" /\ a.type # "create_directory"
  <2>1. After(r) = Absent
    BY <1>6 DEF After
  <2> QED BY <1>1, <1>2, <1>6, <2>1, TextTypes, Zenon
<1> QED BY <1>3, <1>4, <1>5, <1>6

\* and the rest of its steps: nothing is written,
LEMMA WriteNothingStep ==
    ASSUME FilesInv, NEW r \in Requests, WriteNothing(r)
    PROVE  FilesInv'
<1>0. FileEditsTypeOK
  BY DEF FilesInv
<1>1. Reads /\ request[r].stage = "writing" /\ Ends(r, TRUE)
  BY DEF WriteNothing
<1>2. /\ request' \in [Requests -> RequestType]
      /\ request'[r] = [stage |-> "done", action |-> request[r].action, before |-> Absent,
                        expected |-> request[r].expected, ok |-> TRUE]
      /\ \A s \in Requests : s # r => request'[s] = request[s]
  BY <1>0, <1>1, EndsMeans, Zenon
<1>3. request'[r].stage = "done" /\ request'[r].action = request[r].action
  BY <1>2
<1>4. Sound(r)'
  BY <1>3 DEF Sound
<1> QED BY <1>1, <1>2, <1>3, <1>4, ReadsStep

\* A story that goes on with one more report of what was there before.
LEMMA StoryGoesOn ==
    ASSUME FilesInv, NEW p, NEW entry, p \in Paths, entry \in Report,
           changes'[p] = Append(changes[p], entry),
           contended \subseteq contended', p \notin contended => entry.before = disk[p],
           disk'[p] = entry.after
    PROVE  Story(p)'
<1>1. Story(p) /\ changes[p] \in Seq(Report)
  BY DEF FilesInv, FileEditsTypeOK, Report
<1>2. /\ Append(changes[p], entry) # <<>>
      /\ \A text : changes[p] # <<>> /\ Unbroken(changes[p], text) /\ entry.before = text =>
                      Unbroken(Append(changes[p], entry), entry.after)
  BY <1>1, OneMoreReport
<1>3. ASSUME p \notin contended' PROVE Unbroken(changes'[p], disk'[p])
  <2>1. changes[p] # <<>> /\ Unbroken(changes[p], disk[p]) /\ entry.before = disk[p]
    BY <1>1, <1>3 DEF Story
  <2>2. Unbroken(Append(changes[p], entry), entry.after)
    BY <1>2, <2>1
  <2> QED BY <2>2
<1>4. changes'[p] # <<>>
  BY <1>2, Zenon
<1>5. p \in contended' \/ Unbroken(changes[p], disk[p])'
  BY <1>3, SMTT(30) DEF Unbroken
<1> QED BY <1>4, <1>5 DEF Story

\* the file is written,
LEMMA WriteStep ==
    ASSUME FilesInv, NEW r \in Requests, Write(r)
    PROVE  FilesInv'
<1>0. FileEditsTypeOK /\ Sound(r)
  BY DEF FilesInv
<1> PICK a : a = request[r].action
  OBVIOUS
<1>1. request[r].stage = "writing"
  BY DEF Write, MayWrite
<1>2. Puts(a.path, After(r)) /\ Reported(a.path, request[r].before, After(r)) /\ Ends(r, TRUE) /\ Writes
  BY DEF Write
<1>3. After(r) \in Lines /\ request[r].before \in Lines /\ a.path \in Paths
  BY <1>1, AfterType
<1> PICK text \in Lines : text = After(r)
  BY <1>3
<1> PICK before \in Lines : before = request[r].before
  BY <1>3
<1> PICK entry : entry = [before |-> before, after |-> text]
  OBVIOUS
<1>4. entry \in Report /\ entry.before = before /\ entry.after = text
  BY DEF Report
<1>5. disk' = [disk EXCEPT ![a.path] = text]
  BY <1>2 DEF Puts
<1>6. changes' = [changes EXCEPT ![a.path] = Append(changes[a.path], entry)]
  BY <1>2, Zenon DEF Reported
<1>7. UNCHANGED <<applyEdits, contended, diskFaults>>
  BY <1>2 DEF Writes
<1>8. disk \in [Paths -> Lines] /\ changes \in [Paths -> Seq(Report)]
  BY <1>0 DEF FileEditsTypeOK, Report
<1>9. disk' \in [Paths -> Lines] /\ disk'[a.path] = text
  BY <1>3, <1>5, <1>8
<1>10. changes' \in [Paths -> Seq(Report)] /\ changes'[a.path] = Append(changes[a.path], entry)
  <2>1. Append(changes[a.path], entry) \in Seq(Report)
    BY <1>3, <1>4, <1>8, AppendProperties
  <2> QED BY <1>3, <1>6, <1>8, <2>1
<1>11. \A p \in Paths \ {a.path} : disk'[p] = disk[p] /\ changes'[p] = changes[p]
  BY <1>5, <1>6, <1>8
<1>12. a.path \notin contended => entry.before = disk[a.path]
  BY <1>0, <1>1, <1>4, SMTT(30) DEF Sound
<1>13. Story(a.path)'
  <2>1. contended \subseteq contended' /\ disk'[a.path] = entry.after
    BY <1>4, <1>7, <1>9
  <2> QED BY <1>3, <1>4, <1>10, <1>12, <2>1, StoryGoesOn
<1>14. {a.path} \in SUBSET Paths /\ {a.path} \subseteq Touches(request[r].action)
  BY <1>3 DEF Touches
<1>15. contended \subseteq contended' /\ contended' \subseteq Paths /\ diskFaults' \in 0 .. MaxDiskFaults
       /\ applyEdits' = applyEdits
  BY <1>0, <1>7 DEF FileEditsTypeOK
<1>16. \A p \in {a.path} : Story(p)'
  BY <1>13, Zenon
<1> QED BY <1>1, <1>2, <1>9, <1>10, <1>11, <1>14, <1>15, <1>16, WritesStep

\* it gets another name,
LEMMA RenameStep ==
    ASSUME FilesInv, NEW r \in Requests, Rename(r)
    PROVE  FilesInv'
<1>0. FileEditsTypeOK /\ Sound(r)
  BY DEF FilesInv
<1> PICK a : a = request[r].action
  OBVIOUS
<1>1. request[r].stage = "writing" /\ a.type = "move_file" /\ a.to # a.path /\ Ends(r, TRUE) /\ Writes
  BY DEF Rename, MayWrite
<1>2. a.path \in Paths /\ a.to \in Paths
  BY <1>1, AfterType
<1>3. disk \in [Paths -> Lines] /\ changes \in [Paths -> Seq(Report)]
  BY <1>0 DEF FileEditsTypeOK, Report
<1> PICK text \in Lines : text = disk[a.path]
  BY <1>2, <1>3
<1> PICK gone : gone = [before |-> text, after |-> Absent]
  OBVIOUS
<1> PICK come : come = [before |-> Absent, after |-> text]
  OBVIOUS
<1>4. /\ gone \in Report /\ gone.before = text /\ gone.after = Absent
      /\ come \in Report /\ come.before = Absent /\ come.after = text
  BY TextTypes, Zenon DEF Report
<1>5. disk' = [disk EXCEPT ![a.to] = text, ![a.path] = Absent]
  BY DEF Rename
<1>6. changes' = [changes EXCEPT ![a.path] = Append(changes[a.path], gone),
                                 ![a.to] = Append(changes[a.to], come)]
  <2>1. changes' = [changes EXCEPT ![a.path] = Append(@, gone), ![a.to] = Append(@, come)]
    BY Zenon DEF Rename
  <2> QED BY <1>1, <1>2, <1>3, <2>1
<1>7. disk' \in [Paths -> Lines] /\ disk'[a.path] = Absent /\ disk'[a.to] = text
  BY <1>1, <1>2, <1>3, <1>5, TextTypes, Zenon
<1>8. Append(changes[a.path], gone) \in Seq(Report) /\ Append(changes[a.to], come) \in Seq(Report)
  <2>1. changes[a.path] \in Seq(Report) /\ changes[a.to] \in Seq(Report)
    BY <1>2, <1>3, Zenon
  <2>2. \A s \in Seq(Report) : \A e \in Report : Append(s, e) \in Seq(Report)
    BY AppendProperties
  <2> QED BY <1>4, <2>1, <2>2, Zenon
<1>9. /\ changes' \in [Paths -> Seq(Report)]
      /\ changes'[a.path] = Append(changes[a.path], gone) /\ changes'[a.to] = Append(changes[a.to], come)
  BY <1>1, <1>2, <1>3, <1>6, <1>8, ZenonT(40)
<1>10. \A p \in Paths \ {a.path, a.to} : disk'[p] = disk[p] /\ changes'[p] = changes[p]
  BY <1>3, <1>5, <1>6
<1>11. UNCHANGED <<applyEdits, contended, diskFaults>>
  BY <1>1 DEF Writes
<1>12. a.to \notin contended => come.before = disk[a.to]
  BY <1>0, <1>1, <1>4 DEF Sound
<1>13. Story(a.path)' /\ Story(a.to)'
  <2>1. contended \subseteq contended' /\ disk'[a.path] = gone.after /\ disk'[a.to] = come.after
        /\ gone.before = disk[a.path]
    BY <1>4, <1>7, <1>11, Zenon
  <2>2. Story(a.path)'
    BY <1>2, <1>4, <1>9, <2>1, StoryGoesOn, Zenon
  <2>3. Story(a.to)'
    BY <1>2, <1>4, <1>9, <1>12, <2>1, StoryGoesOn, Zenon
  <2> QED BY <2>2, <2>3
<1>14. {a.path, a.to} \in SUBSET Paths /\ {a.path, a.to} \subseteq Touches(request[r].action)
  BY <1>2 DEF Touches
<1>15. contended \subseteq contended' /\ contended' \subseteq Paths /\ diskFaults' \in 0 .. MaxDiskFaults
       /\ applyEdits' = applyEdits
  BY <1>0, <1>11 DEF FileEditsTypeOK
<1>16. \A p \in {a.path, a.to} : Story(p)'
  BY <1>13
<1> QED BY <1>1, <1>7, <1>9, <1>10, <1>14, <1>15, <1>16, WritesStep, Zenon

\* or that fails.
LEMMA WriteFailsStep ==
    ASSUME FilesInv, NEW r \in Requests, WriteFails(r)
    PROVE  FilesInv'
<1>0. FileEditsTypeOK
  BY DEF FilesInv
<1> PICK a : a = request[r].action
  OBVIOUS
<1>1. request[r].stage = "writing" /\ Ends(r, FALSE) /\ UNCHANGED <<applyEdits, changes>>
  BY Zenon DEF WriteFails, MayWrite
<1>2. a.path \in Paths /\ a.to \in Paths
  BY <1>1, AfterType
<1>3. /\ disk \in [Paths -> Lines] /\ changes \in [Paths -> Seq(Report)] /\ contended \subseteq Paths
      /\ diskFaults \in 0 .. MaxDiskFaults /\ MaxDiskFaults \in Nat
  BY <1>0, FileEditsAssumption, Zenon DEF FileEditsTypeOK, Report
<1>4. CASE UNCHANGED <<disk, contended, diskFaults>>
  <2>1. /\ disk' \in [Paths -> Lines] /\ changes' \in [Paths -> Seq(Report)] /\ applyEdits' = applyEdits
        /\ contended \subseteq contended' /\ contended' \subseteq Paths /\ diskFaults' \in 0 .. MaxDiskFaults
        /\ \A p \in Paths \ {} : disk'[p] = disk[p] /\ changes'[p] = changes[p]
    BY <1>1, <1>3, <1>4
  <2>2. {} \in SUBSET Paths /\ {} \subseteq Touches(request[r].action) /\ \A p \in {} : Story(p)'
    OBVIOUS
  <2> QED BY <1>1, <2>1, <2>2, WritesStep
<1>5. CASE /\ diskFaults < MaxDiskFaults /\ diskFaults' = diskFaults + 1
           /\ contended' = contended \cup Touches(a)
           /\ UNCHANGED disk \/ Puts(a.path, <<"">>)
  <2>1. /\ disk' \in [Paths -> Lines] /\ \A p \in Paths \ {a.path} : disk'[p] = disk[p]
    BY <1>3, <1>5, TextTypes, Zenon DEF Puts
  <2>2. changes' \in [Paths -> Seq(Report)] /\ \A p \in Paths : changes'[p] = changes[p]
    BY <1>1, <1>3
  <2>3. /\ contended \subseteq contended' /\ contended' \subseteq Paths /\ diskFaults' \in 0 .. MaxDiskFaults
        /\ applyEdits' = applyEdits /\ a.path \in contended'
    <3>1. diskFaults' \in 0 .. MaxDiskFaults
      <4>1. \A m \in Nat : \A k \in 0 .. m : k < m => k + 1 \in 0 .. m
        OBVIOUS
      <4> QED BY <1>3, <1>5, <4>1, Zenon
    <3>2. Touches(a) \subseteq Paths /\ a.path \in Touches(a)
      BY <1>2 DEF Touches
    <3> QED BY <1>1, <1>3, <1>5, <3>1, <3>2, Zenon
  <2>4. Story(a.path)'
    <3>1. Story(a.path)
      BY <1>2 DEF FilesInv
    <3> QED BY <1>2, <2>2, <2>3, <3>1 DEF Story
  <2>5. {a.path} \in SUBSET Paths /\ {a.path} \subseteq Touches(request[r].action)
        /\ \A p \in {a.path} : Story(p)'
    BY <1>2, <2>4 DEF Touches
  <2>6. \A p \in Paths \ {a.path} : disk'[p] = disk[p] /\ changes'[p] = changes[p]
    BY <2>1, <2>2
  <2> QED BY <1>1, <2>1, <2>2, <2>3, <2>5, <2>6, WritesStep
<1> QED BY <1>4, <1>5, Zenon DEF WriteFails

LEMMA EngineStep ==
    ASSUME FilesInv, EngineNext
    PROVE  FilesInv'
BY LookStep, ReadStep, WriteNothingStep, WriteStep, RenameStep, WriteFailsStep DEF EngineNext

\* A sequence over a set is one over a larger set.
LEMMA MoreElements ==
    ASSUME NEW A, NEW B, NEW s \in Seq(A), A \subseteq B
    PROVE  s \in Seq(B)
<1>1. PICK n \in Nat : n = Len(s)
  BY LenProperties
<1>2. s \in [1 .. n -> B]
  BY <1>1, LenProperties, ElementOfSeq
<1> QED BY <1>2, Numbered

LEMMA ActionsAllowed == \A p \in Paths : [Plain("replace_text", p) EXCEPT !.text = "new"] \in Actions
<1> TAKE p \in Paths
<1>1. [Plain("replace_text", p) EXCEPT !.text = "new"]
        \in {[Plain("replace_text", p) EXCEPT !.text = "new"],
             [Plain("append_text", p) EXCEPT !.text = "new"]}
            \cup {[Plain("insert_line", p) EXCEPT !.line = n, !.text = "new"] : n \in 1 .. 3}
            \cup {[Plain("delete_line", p) EXCEPT !.line = n] : n \in 1 .. 3}
  <2> PICK a : a = [Plain("replace_text", p) EXCEPT !.text = "new"]
    OBVIOUS
  <2> PICK b : b = [Plain("append_text", p) EXCEPT !.text = "new"]
    OBVIOUS
  <2>1. \A A, B : a \in {a, b} \cup A \cup B
    OBVIOUS
  <2> QED BY <2>1, Zenon
<1> QED BY <1>1, ZenonT(40) DEF EditActions, Actions

LEMMA FilesStart ==
    ASSUME FileEditsInit, Paths # {}
    PROVE  FilesInv
<1>1. PICK text \in Texts, p \in Paths : disk = [q \in Paths |-> IF q = p THEN text ELSE Absent]
  BY DEF FileEditsInit
<1>2. text \in Lines
  <2>1. text \in Seq({"", "old", "new"})
    BY FileEditsAssumption, Zenon
  <2>2. {"", "old", "new"} \subseteq {"", "old", "new", "directory"}
    OBVIOUS
  <2> QED BY <2>1, <2>2, MoreElements, Zenon DEF Lines
<1>3. disk \in [Paths -> Lines]
  BY <1>1, <1>2, TextTypes, Zenon
<1>4. \A q \in Paths : [before |-> Absent, after |-> disk[q]] \in Report
  BY <1>3, TextTypes, Zenon DEF Report
<1>5. ASSUME NEW q \in Paths PROVE changes[q] \in Seq(Report) /\ Len(changes[q]) = 1
                                   /\ changes[q][1].after = disk[q]
  <2> PICK entry \in Report : entry = [before |-> Absent, after |-> disk[q]]
    BY <1>4
  <2>1. changes[q] = <<entry>>
    BY DEF FileEditsInit
  <2>2. <<entry>> \in Seq(Report) /\ Len(<<entry>>) = 1 /\ <<entry>>[1] = entry
    BY Single
  <2>3. entry.after = disk[q]
    OBVIOUS
  <2> QED BY <2>1, <2>2, <2>3
<1>6. changes \in [Paths -> Seq(Report)]
  <2>1. changes = [q \in Paths |-> changes[q]]
    BY DEF FileEditsInit
  <2> QED BY <1>5, <2>1
<1>7. \A q \in Paths : Story(q)
  <2> TAKE q \in Paths
  <2>1. changes[q] # <<>>
    BY <1>5
  <2>2. Unbroken(changes[q], disk[q])
    <3>1. Len(changes[q]) = 1 /\ Last(changes[q]).after = disk[q]
      BY <1>5 DEF Last
    <3>2. \A i \in 2 .. 1 : FALSE
      OBVIOUS
    <3> QED BY <3>1, <3>2 DEF Unbroken
  <2> QED BY <2>1, <2>2 DEF Story
<1>8. request = [r \in Requests |-> NotAsked] /\ NotAsked \in RequestType /\ NotAsked.stage = "none"
  BY FirstType DEF FileEditsInit
<1>9. \A r \in Requests : Sound(r) /\ request[r].stage = "none"
  BY <1>8 DEF Sound
<1>10. FileEditsTypeOK
  <2>1. request \in [Requests -> RequestType]
    BY <1>8
  <2>2. applyEdits \in [Processes -> BOOLEAN] /\ contended \subseteq Paths /\ diskFaults = 0
    BY DEF FileEditsInit
  <2>3. diskFaults \in 0 .. MaxDiskFaults
    <3>1. MaxDiskFaults \in Nat
      BY FileEditsAssumption, Zenon
    <3> QED BY <2>2, <3>1
  <2> QED BY <1>3, <1>6, <2>1, <2>2, <2>3 DEF FileEditsTypeOK, RequestType, Report
<1>11. Apart
  BY <1>9 DEF Apart, InFlight
<1> QED BY <1>7, <1>9, <1>10, <1>11 DEF FilesInv

\* What the invariant of the files is for.
LEMMA FilesMean ==
    ASSUME FilesInv
    PROVE  ReportsExplain
<1> SUFFICES ASSUME NEW p \in Paths \ contended
             PROVE  /\ \A i \in 2 .. Len(changes[p]) : changes[p][i].before = changes[p][i - 1].after
                    /\ Last(changes[p]).after = disk[p]
                    /\ \A i \in 2 .. Len(changes[p]) :
                          LET before == LinesOf(changes[p][i].before)  after == LinesOf(changes[p][i].after)
                          IN  LinedUp(before, after) => Patched(before, Hunk(before, after)) = after
  BY Zenon DEF ReportsExplain
<1>1. Story(p) /\ changes[p] \in Seq(Report)
  BY DEF FilesInv, FileEditsTypeOK, Report
<1>2. Unbroken(changes[p], disk[p])
  BY <1>1 DEF Story
<1>3. ASSUME NEW i \in 2 .. Len(changes[p])
      PROVE  LET before == LinesOf(changes[p][i].before)  after == LinesOf(changes[p][i].after)
             IN  LinedUp(before, after) => Patched(before, Hunk(before, after)) = after
  <2>1. changes[p][i] \in Report
    <3>1. PICK n \in Nat : n = Len(changes[p])
      BY <1>1, LenProperties
    <3>2. i \in 1 .. Len(changes[p])
      BY <3>1
    <3> QED BY <1>1, <3>2, ElementOfSeq
  <2>2. \A text \in Lines : LinesOf(text) \in Lines
    BY TextTypes, Zenon DEF LinesOf
  <2>3. PICK b \in Lines : b = LinesOf(changes[p][i].before)
    BY <2>1, <2>2 DEF Report
  <2>4. PICK a \in Lines : a = LinesOf(changes[p][i].after)
    BY <2>1, <2>2 DEF Report
  <2>5. b \in Seq({"", "old", "new", "directory"}) /\ a \in Seq({"", "old", "new", "directory"})
    BY Zenon, <2>3, <2>4 DEF Lines
  <2>6. LinedUp(b, a) => Patched(b, Hunk(b, a)) = a
    BY <2>5, HunkExplains, Zenon
  <2> QED BY <2>3, <2>4, <2>6, Zenon
<1> QED BY <1>2, <1>3, Zenon DEF Unbroken

\* What a new batch changes.
LEMMA NewBatchMeans ==
    ASSUME FileEditsTypeOK, Paths # {}, NEW p \in Processes, NEW apply, apply \in BOOLEAN, NewBatch(p, apply)
    PROVE  /\ applyEdits' \in [Processes -> BOOLEAN] /\ applyEdits'[p] = apply
           /\ \A q \in Processes : q # p => applyEdits'[q] = applyEdits[q]
           /\ request' \in [Requests -> RequestType]
           /\ \A r \in Requests : r[1] = p => request'[r] = NotAsked
           /\ \A r \in Requests : r[1] # p => request'[r] = request[r]
<1>1. request \in [Requests -> RequestType] /\ applyEdits \in [Processes -> BOOLEAN]
  BY DEF FileEditsTypeOK, RequestType
<1>2. NotAsked \in RequestType
  BY FirstType
<1>3. request' = [r \in Requests |-> IF r[1] = p THEN NotAsked ELSE request[r]]
  BY DEF NewBatch
<1>4. applyEdits' = [applyEdits EXCEPT ![p] = apply]
  BY DEF NewBatch
<1>5. applyEdits' \in [Processes -> BOOLEAN] /\ applyEdits'[p] = apply
      /\ \A q \in Processes : q # p => applyEdits'[q] = applyEdits[q]
  BY <1>1, <1>4
<1> QED BY <1>1, <1>2, <1>3, <1>5

\* A batch begins, and nothing is left of the one before.
LEMMA NewBatchStep ==
    ASSUME FilesInv, Paths # {}, NEW p \in Processes, NEW apply, apply \in BOOLEAN, NewBatch(p, apply),
           UNCHANGED <<disk, changes, contended, diskFaults>>
    PROVE  FilesInv'
<1>0. FileEditsTypeOK /\ Apart
  BY DEF FilesInv
<1>1. /\ applyEdits' \in [Processes -> BOOLEAN]
      /\ request' \in [Requests -> RequestType]
      /\ \A r \in Requests : r[1] = p => request'[r] = NotAsked
      /\ \A r \in Requests : r[1] # p => request'[r] = request[r]
  BY <1>0, NewBatchMeans
<1>2. FileEditsTypeOK'
  BY <1>0, <1>1 DEF FileEditsTypeOK, RequestType
<1>3. NotAsked.stage = "none"
  BY FirstType
<1>4. Apart'
  <2>1. \A r \in Requests : request'[r].stage \notin {"none", "done"} =>
            request[r].stage \notin {"none", "done"} /\ request'[r].action = request[r].action
    BY <1>1, <1>3
  <2> QED BY <1>0, <2>1, StillApart
<1>5. ASSUME NEW r \in Requests
      PROVE  Sound(r)' \/ (request'[r] = request[r] /\ Touches(request[r].action) \cap {} \subseteq contended')
  <2>1. CASE r[1] = p
    <3>1. request'[r].stage = "none"
      BY <1>1, <1>3, <2>1
    <3> QED BY <3>1 DEF Sound
  <2>2. CASE r[1] # p
    BY <1>1, <2>2
  <2> QED BY <2>1, <2>2
<1> QED BY <1>2, <1>4, <1>5, FilesStep

\* A smoke copies its fixture.
LEMMA CopyStep ==
    ASSUME FilesInv, {Fixture, Temp} \subseteq Paths, NEW p \in Processes, NewBatch(p, FALSE),
           Puts(Temp, disk[Fixture]), Reported(Temp, disk[Temp], disk[Fixture]),
           contended' = contended \cup {q \in {Temp, Fixture} : \E r \in InFlight : q \in Touches(request[r].action)},
           diskFaults' = diskFaults
    PROVE  FilesInv'
<1>0. FileEditsTypeOK /\ Apart
  BY DEF FilesInv
<1>1. /\ applyEdits' \in [Processes -> BOOLEAN]
      /\ request' \in [Requests -> RequestType]
      /\ \A r \in Requests : r[1] = p => request'[r] = NotAsked
      /\ \A r \in Requests : r[1] # p => request'[r] = request[r]
  BY <1>0, NewBatchMeans
<1>2. /\ disk \in [Paths -> Lines] /\ changes \in [Paths -> Seq(Report)] /\ contended \subseteq Paths
      /\ diskFaults \in 0 .. MaxDiskFaults
  BY <1>0 DEF FileEditsTypeOK, Report
<1> PICK text \in Lines : text = disk[Fixture]
  BY <1>2
<1> PICK before \in Lines : before = disk[Temp]
  BY <1>2
<1> PICK entry : entry = [before |-> before, after |-> text]
  OBVIOUS
<1>3. entry \in Report /\ entry.before = before /\ entry.after = text
  BY DEF Report
<1>4. disk' = [disk EXCEPT ![Temp] = text]
  BY DEF Puts
<1>5. changes' = [changes EXCEPT ![Temp] = Append(changes[Temp], entry)]
  BY Zenon DEF Reported
<1>6. disk' \in [Paths -> Lines] /\ disk'[Temp] = text
  BY <1>2, <1>4
<1>7. changes' \in [Paths -> Seq(Report)] /\ changes'[Temp] = Append(changes[Temp], entry)
  <2>1. Append(changes[Temp], entry) \in Seq(Report)
    BY <1>2, <1>3, AppendProperties
  <2> QED BY <1>2, <1>5, <2>1
<1>8. \A q \in Paths \ {Temp} : disk'[q] = disk[q] /\ changes'[q] = changes[q]
  BY <1>2, <1>4, <1>5
<1>9. contended \subseteq contended' /\ contended' \subseteq Paths
  BY <1>2
<1>10. FileEditsTypeOK'
  BY <1>1, <1>2, <1>6, <1>7, <1>9 DEF FileEditsTypeOK, RequestType, Report
<1>11. NotAsked.stage = "none"
  BY FirstType
<1>12. Apart'
  <2>1. \A r \in Requests : request'[r].stage \notin {"none", "done"} =>
            request[r].stage \notin {"none", "done"} /\ request'[r].action = request[r].action
    BY <1>1, <1>11
  <2> QED BY <1>0, <1>9, <2>1, StillApart
<1>13. Story(Temp)'
  <2>1. Temp \notin contended => entry.before = disk[Temp]
    BY <1>3
  <2>2. disk'[Temp] = entry.after
    BY <1>3, <1>6
  <2> QED BY <1>3, <1>7, <1>9, <2>1, <2>2, StoryGoesOn
<1>14. ASSUME NEW r \in Requests
       PROVE  Sound(r)' \/ (request'[r] = request[r] /\ Touches(request[r].action) \cap {Temp} \subseteq contended')
  <2>1. CASE r[1] = p
    <3>1. request'[r].stage = "none"
      BY <1>1, <1>11, <2>1
    <3> QED BY <3>1 DEF Sound
  <2>2. CASE r[1] # p /\ request[r].stage \in {"none", "done"}
    <3>1. request'[r].stage \in {"none", "done"}
      BY <1>1, <2>2
    <3> QED BY <3>1 DEF Sound
  <2>3. CASE r[1] # p /\ request[r].stage \notin {"none", "done"}
    <3>1. r \in InFlight
      BY <2>3 DEF InFlight
    <3>2. Temp \in Touches(request[r].action) => Temp \in contended'
      BY <3>1
    <3> QED BY <1>1, <2>3, <3>2
  <2> QED BY <2>1, <2>2, <2>3
<1>15. {Temp} \in SUBSET Paths /\ \A q \in {Temp} : Story(q)'
  BY <1>13
<1> QED BY <1>8, <1>9, <1>10, <1>12, <1>14, <1>15, FilesStep

\* A request begins.
LEMMA BeginsMeans ==
    ASSUME FileEditsTypeOK, Paths # {}, NEW r \in Requests, NEW a \in Actions, NEW expected, expected \in BOOLEAN,
           StartAction(r, a, expected)
    PROVE  /\ request' \in [Requests -> RequestType]
           /\ request'[r] = [stage |-> FirstStage(a), action |-> a, before |-> Absent,
                             expected |-> expected, ok |-> FALSE]
           /\ \A s \in Requests : s # r => request'[s] = request[s]
<1>1. request \in [Requests -> RequestType]
  BY DEF FileEditsTypeOK, RequestType
<1>2. PICK q : q = [stage |-> FirstStage(a), action |-> a, before |-> Absent, expected |-> expected, ok |-> FALSE]
  OBVIOUS
<1>3. q = [NotAsked EXCEPT !.stage = FirstStage(a), !.action = a, !.expected = expected]
  <2>1. PICK p \in RequestType : p = NotAsked
    BY FirstType
  <2>2. p.before = Absent /\ p.ok = FALSE
    BY <2>1 DEF NotAsked
  <2>3. PICK stage : stage = FirstStage(a)
    OBVIOUS
  <2>4. PICK asked : asked = [p EXCEPT !.stage = stage, !.action = a, !.expected = expected]
    OBVIOUS
  <2>5. asked = [stage |-> stage, action |-> a, before |-> p.before, expected |-> expected, ok |-> p.ok]
    BY <2>1, <2>4 DEF RequestType
  <2>6. q = asked
    BY <1>2, <2>2, <2>3, <2>5
  <2> QED BY <2>1, <2>3, <2>4, <2>6
<1>4. request' = [request EXCEPT ![r] = q]
  BY <1>3 DEF StartAction
<1>5. q \in RequestType
  <2>1. FirstStage(a) \in Stages
    BY DEF FirstStage, Stages
  <2> QED BY <1>2, <2>1, TextTypes, Zenon DEF RequestType
<1> QED BY <1>1, <1>2, <1>4, <1>5

\* A prompt that asks for nothing the engine knows is a request that has ended.
LEMMA NotUnderstoodMeans ==
    ASSUME FileEditsTypeOK, Paths # {}, NEW r \in Requests, NEW expected, expected \in BOOLEAN,
           NotUnderstood(r, expected)
    PROVE  /\ request' \in [Requests -> RequestType]
           /\ request'[r].stage = "done" /\ request'[r].expected = expected /\ request'[r].ok = FALSE
           /\ \A s \in Requests : s # r => request'[s] = request[s]
<1>1. request \in [Requests -> RequestType]
  BY DEF FileEditsTypeOK, RequestType
<1>2. PICK p \in RequestType : p = NotAsked
  BY FirstType
<1>3. PICK q : q = [p EXCEPT !.stage = "done", !.expected = expected]
  OBVIOUS
<1>4. q = [stage |-> "done", action |-> p.action, before |-> p.before, expected |-> expected, ok |-> p.ok]
  BY <1>2, <1>3 DEF RequestType
<1>5. q \in RequestType
  <2>1. p.action \in Actions /\ p.before \in Lines /\ p.ok \in BOOLEAN
    BY <1>2 DEF RequestType
  <2>2. "done" \in Stages
    BY DEF Stages
  <2> QED BY <1>4, <2>1, <2>2 DEF RequestType
<1>6. request' = [request EXCEPT ![r] = q]
  BY <1>2, <1>3 DEF NotUnderstood
<1>7. q.stage = "done" /\ q.expected = expected /\ q.ok = FALSE
  <2>1. p.ok = FALSE
    BY <1>2 DEF NotAsked
  <2> QED BY <1>4, <2>1
<1> QED BY <1>1, <1>5, <1>6, <1>7

LEMMA StartActionStep ==
    ASSUME FilesInv, Paths # {}, NEW r \in Requests, NEW a \in Actions, NEW expected, expected \in BOOLEAN,
           StartAction(r, a, expected)
    PROVE  FilesInv'
<1>0. FileEditsTypeOK /\ Apart
  BY DEF FilesInv
<1>1. /\ request' \in [Requests -> RequestType]
      /\ request'[r] = [stage |-> FirstStage(a), action |-> a, before |-> Absent,
                        expected |-> expected, ok |-> FALSE]
      /\ \A s \in Requests : s # r => request'[s] = request[s]
  BY <1>0, BeginsMeans
<1>2. request'[r].stage = FirstStage(a) /\ request'[r].action = a
  BY <1>1
<1>3. request[r].stage = "none" /\ UNCHANGED <<disk, applyEdits, changes, diskFaults>>
      /\ contended' = contended \cup UNION {Touches(request[s].action) \cap Touches(a) : s \in InFlight}
  BY DEF StartAction, MayStart
<1>4. a.path \in Paths /\ a.to \in Paths
  BY ActionTypes, Zenon DEF ActionType
<1>5. contended \subseteq contended' /\ contended' \subseteq Paths
  <2>1. contended \subseteq Paths
    BY <1>0 DEF FileEditsTypeOK
  <2>2. Touches(a) \subseteq Paths
    BY <1>4 DEF Touches
  <2> QED BY <1>3, <2>1, <2>2
<1>6. FileEditsTypeOK'
  BY <1>0, <1>1, <1>3, <1>5 DEF FileEditsTypeOK, RequestType
<1>7. ASSUME NEW s \in InFlight
      PROVE  Touches(request[s].action) \cap Touches(a) \subseteq contended'
  BY <1>3
<1>8. Apart'
  <2> SUFFICES ASSUME NEW s \in InFlight', NEW t \in InFlight', s # t
               PROVE  Touches(request'[s].action) \cap Touches(request'[t].action) \subseteq contended'
    BY DEF Apart, Touches
  <2>1. s \in Requests /\ t \in Requests
    BY DEF InFlight
  <2>2. (s # r => s \in InFlight) /\ (t # r => t \in InFlight)
    BY <1>1, <2>1 DEF InFlight
  <2>3. CASE s = r
    <3>1. t # r /\ t \in InFlight /\ request'[t] = request[t]
      BY <1>1, <2>1, <2>2, <2>3
    <3>2. Touches(request[t].action) \cap Touches(a) \subseteq contended'
      BY <1>7, <3>1
    <3> QED BY <1>2, <2>3, <3>1, <3>2
  <2>4. CASE t = r
    <3>1. s # r /\ s \in InFlight /\ request'[s] = request[s]
      BY <1>1, <2>1, <2>2, <2>4
    <3>2. Touches(request[s].action) \cap Touches(a) \subseteq contended'
      BY <1>7, <3>1
    <3> QED BY <1>2, <2>4, <3>1, <3>2
  <2>5. CASE s # r /\ t # r
    <3>1. s \in InFlight /\ t \in InFlight /\ request'[s] = request[s] /\ request'[t] = request[t]
      BY <1>1, <2>1, <2>2, <2>5
    <3>2. Touches(request[s].action) \cap Touches(request[t].action) \subseteq contended
      BY <1>0, <3>1 DEF Apart
    <3> QED BY <1>5, <3>1, <3>2
  <2> QED BY <2>3, <2>4, <2>5
<1>9. Sound(r)'
  <2>1. CASE a.type \in EditTypes
    <3>1. request'[r].stage = "reading" /\ a.type # "move_file"
      BY <1>2, <2>1 DEF FirstStage, EditTypes
    <3> QED BY <1>2, <3>1 DEF Sound
  <2>2. CASE a.type \notin EditTypes
    <3>1. request'[r].stage = "looking"
      BY <1>2, <2>2 DEF FirstStage
    <3> QED BY <1>2, <2>2, <3>1 DEF Sound
  <2> QED BY <2>1, <2>2
<1>10. ASSUME NEW s \in Requests
       PROVE  Sound(s)' \/ (request'[s] = request[s] /\ Touches(request[s].action) \cap {} \subseteq contended')
  BY <1>1, <1>9
<1> QED BY <1>3, <1>5, <1>6, <1>8, <1>10, FilesStep

LEMMA NotUnderstoodStep ==
    ASSUME FilesInv, Paths # {}, NEW r \in Requests, NEW expected, expected \in BOOLEAN,
           NotUnderstood(r, expected)
    PROVE  FilesInv'
<1>0. FileEditsTypeOK /\ Apart
  BY DEF FilesInv
<1>1. /\ request' \in [Requests -> RequestType] /\ request'[r].stage = "done"
      /\ \A s \in Requests : s # r => request'[s] = request[s]
  BY <1>0, NotUnderstoodMeans
<1>2. UNCHANGED <<disk, applyEdits, changes, contended, diskFaults>>
  BY DEF NotUnderstood
<1>3. FileEditsTypeOK'
  BY <1>0, <1>1, <1>2 DEF FileEditsTypeOK, RequestType
<1>4. Apart'
  <2>1. \A s \in Requests : request'[s].stage \notin {"none", "done"} =>
            request[s].stage \notin {"none", "done"} /\ request'[s].action = request[s].action
    BY <1>1
  <2> QED BY <1>0, <1>2, <2>1, StillApart
<1>5. ASSUME NEW s \in Requests
      PROVE  Sound(s)' \/ (request'[s] = request[s] /\ Touches(request[s].action) \cap {} \subseteq contended')
  <2>1. CASE s = r
    BY <1>1, <2>1 DEF Sound
  <2>2. CASE s # r
    BY <1>1, <2>2
  <2> QED BY <2>1, <2>2
<1> QED BY <1>2, <1>3, <1>4, <1>5, FilesStep

\* Nothing happens to the files.
LEMMA FilesIdle ==
    ASSUME FilesInv, UNCHANGED <<disk, applyEdits, request, changes, contended>>,
           diskFaults' \in 0 .. MaxDiskFaults
    PROVE  FilesInv'
<1>1. FileEditsTypeOK'
  BY DEF FilesInv, FileEditsTypeOK
<1>2. Apart'
  BY DEF FilesInv, Apart, InFlight
<1>3. ASSUME NEW s \in Requests
      PROVE  Sound(s)' \/ (request'[s] = request[s] /\ Touches(request[s].action) \cap {} \subseteq contended')
  OBVIOUS
<1> QED BY <1>1, <1>2, <1>3, FilesStep

-----------------------------------------------------------------------------
(* The smoke suite *)

\* The commands and where they are.
CommandType ==
    [kind : {"none", "smoke", "batch"}, matched : BOOLEAN,
     phase : {"idle", "copying", "trying", "applying", "verifying", "reporting", "passed", "failed"}]
CommandsInv == command \in [Processes -> CommandType] /\ disturbed \subseteq Processes

\* Only a batch under way has requests.
QuietInv ==
    \A r \in Requests : command[r[1]].phase \notin {"trying", "applying"} => request[r].stage = "none"

\* Beside a command that was not disturbed nothing is at work.
AloneInv ==
    \A p \in Processes \ disturbed :
        command[p] # NoCommand => \A q \in Processes \ {p} : ~Active(q)

\* The one edit of a smoke, the copy before it and the copy after it.
OneEdit == [Plain("replace_text", Temp) EXCEPT !.text = "new"]
Copied == IsFile(Fixture) /\ disk[Temp] = disk[Fixture]
EditMade ==
    /\ IsFile(Fixture) /\ Contains(disk[Fixture], "old")
    /\ disk[Temp] = Replaced(disk[Fixture], "new")

\* How far the edit is.
EditUnderWay(q) ==
    /\ q.stage \in {"none", "reading", "writing", "done"}
    /\ q.stage # "done" => Copied
    /\ q.stage # "none" => q.expected = TRUE
    /\ q.stage \in {"reading", "writing"} => q.action = OneEdit
    /\ q.stage = "writing" => q.before = disk[Temp] /\ Contains(q.before, "old")
    /\ q.stage = "done" /\ q.ok = TRUE => EditMade

\* What holds of a smoke that was not disturbed in each of its phases.
SmokeRun(p) ==
    /\ command[p].phase = "trying" => applyEdits[p] = FALSE /\ Copied
    /\ command[p].phase = "applying" =>
          /\ applyEdits[p] = TRUE /\ EditUnderWay(request[<<p, 1>>])
          /\ \A n \in 2 .. MaxRequests : request[<<p, n>>].stage = "none"
    /\ command[p].phase \in {"verifying", "reporting"} /\ command[p].matched = TRUE => EditMade
    /\ command[p].phase = "passed" => EditMade

\* The invariant of the commands, of their requests and of the files.
SmokeInv ==
    /\ FilesInv /\ CommandsInv /\ QuietInv /\ AloneInv
    /\ \A p \in Processes \ disturbed : command[p].kind = "smoke" => SmokeRun(p)

\* The two files of a smoke are two files.
LEMMA Places == Fixture \in Paths /\ Temp \in Paths /\ Fixture # Temp /\ Paths # {}
BY SmokeSuiteAssumption

\* What the invariant is for.
LEMMA SmokeMeans ==
    ASSUME SmokeInv
    PROVE  SmokeSuiteTypeOK /\ ReportsExplain /\ SmokeMeansWorking
<1>1. SmokeSuiteTypeOK
  BY DEF SmokeInv, FilesInv, CommandsInv, CommandType, SmokeSuiteTypeOK
<1>2. ReportsExplain
  BY FilesMean DEF SmokeInv
<1>3. SmokeMeansWorking
  <2> SUFFICES ASSUME NEW p \in Processes \ disturbed, command[p].kind = "smoke", command[p].phase = "passed"
               PROVE  /\ IsFile(Fixture) /\ Applies(Plain("replace_text", Fixture), disk[Fixture])
                      /\ disk[Temp] = Replaced(disk[Fixture], "new")
    BY DEF SmokeMeansWorking
  <2>1. EditMade
    BY DEF SmokeInv, SmokeRun
  <2>2. Plain("replace_text", Fixture).type = "replace_text"
    BY DEF Plain
  <2>3. Applies(Plain("replace_text", Fixture), disk[Fixture])
    BY <2>1, <2>2 DEF EditMade, Applies
  <2> QED BY <2>1, <2>3 DEF EditMade
<1> QED BY <1>1, <1>2, <1>3

LEMMA SmokeStart ==
    ASSUME SmokeSuiteInit
    PROVE  SmokeInv
<1>1. FilesInv
  BY Places, FilesStart DEF SmokeSuiteInit
<1>2. command = [p \in Processes |-> NoCommand] /\ disturbed = {}
  BY DEF SmokeSuiteInit
<1>3. NoCommand \in CommandType /\ NoCommand.kind = "none"
  BY DEF NoCommand, CommandType
<1>4. CommandsInv
  BY <1>2, <1>3 DEF CommandsInv
<1>5. \A r \in Requests : request[r].stage = "none"
  BY Places, FirstType DEF SmokeSuiteInit, FileEditsInit
<1>6. QuietInv
  BY <1>5 DEF QuietInv
<1>7. AloneInv
  BY <1>2 DEF AloneInv
<1>8. \A p \in Processes : command[p].kind # "smoke"
  BY <1>2, <1>3
<1> QED BY <1>1, <1>4, <1>6, <1>7, <1>8 DEF SmokeInv

\* A step of a command at work disturbs nothing that was not disturbed.
LEMMA AloneStays ==
    ASSUME SmokeInv, NEW p \in Processes, Active(p), disturbed' = disturbed,
           \A q \in Processes : q # p => command'[q] = command[q]
    PROVE  /\ AloneInv'
           /\ \A q \in Processes \ disturbed : command[q].kind = "smoke" => q = p
<1>0. AloneInv /\ CommandsInv
  BY DEF SmokeInv
<1>1. command[p] # NoCommand
  BY DEF Active, NoCommand
<1>2. ASSUME NEW q \in Processes \ disturbed, command[q] # NoCommand PROVE q = p
  BY <1>0, <1>2 DEF AloneInv
<1>3. AloneInv'
  <2> SUFFICES ASSUME NEW q \in Processes \ disturbed, command'[q] # NoCommand, NEW s \in Processes \ {q}
               PROVE  ~Active(s)'
    BY DEF AloneInv, NoCommand
  <2>1. q = p
    BY <1>2
  <2>2. ~Active(s) /\ command'[s] = command[s]
    BY <1>0, <1>1, <2>1 DEF AloneInv
  <2> QED BY <2>2 DEF Active
<1>4. \A q \in Processes \ disturbed : command[q].kind = "smoke" => command[q] # NoCommand
  BY DEF NoCommand
<1> QED BY <1>2, <1>3, <1>4

\* A step of a command.
LEMMA CommandStep ==
    ASSUME SmokeInv, NEW p \in Processes, Active(p), disturbed' = disturbed, FilesInv',
           command' \in [Processes -> CommandType], command'[p].kind = command[p].kind,
           \A q \in Processes : q # p => command'[q] = command[q],
           \A r \in Requests : r[1] # p => request'[r] = request[r],
           command'[p].phase \notin {"trying", "applying"} =>
              \A r \in Requests : r[1] = p => request'[r].stage = "none",
           p \notin disturbed /\ command[p].kind = "smoke" => SmokeRun(p)'
    PROVE  SmokeInv'
<1>0. QuietInv /\ CommandsInv
  BY DEF SmokeInv
<1>1. AloneInv' /\ \A q \in Processes \ disturbed : command[q].kind = "smoke" => q = p
  BY AloneStays
<1>2. CommandsInv'
  BY <1>0 DEF CommandsInv, CommandType
<1>3. QuietInv'
  <2> SUFFICES ASSUME NEW r \in Requests, command'[r[1]].phase \notin {"trying", "applying"}
               PROVE  request'[r].stage = "none"
    BY DEF QuietInv, Requests
  <2>1. CASE r[1] = p
    BY <2>1
  <2>2. CASE r[1] # p
    <3>1. r[1] \in Processes
      BY DEF Requests
    <3> QED BY <1>0, <2>2, <3>1 DEF QuietInv
  <2> QED BY <2>1, <2>2
<1>4. ASSUME NEW q \in Processes \ disturbed', command'[q].kind = "smoke" PROVE SmokeRun(q)'
  <2>1. command[q].kind = "smoke"
    BY <1>4
  <2> QED BY <1>1, <2>1
<1> QED BY <1>1, <1>2, <1>3, <1>4 DEF SmokeInv

\* The request of a smoke, by name.
LEMMA RequestNamed ==
    ASSUME NEW r \in Requests
    PROVE  r[1] \in Processes /\ r[2] \in 1 .. MaxRequests /\ r = <<r[1], r[2]>>
BY DEF Requests

LEMMA EditNamed ==
    /\ OneEdit \in Actions /\ OneEdit.type = "replace_text" /\ OneEdit.path = Temp /\ OneEdit.text = "new"
    /\ \A lines : Applies(OneEdit, lines) <=> Contains(lines, "old")
    /\ \A lines : Edited(OneEdit, lines) = Replaced(lines, "new")
<1>1. OneEdit \in Actions
  BY Places, ActionsAllowed DEF OneEdit
<1>2. OneEdit = [type |-> "replace_text", path |-> Temp, to |-> Temp, line |-> 0, text |-> "new",
                 overwrite |-> FALSE]
  <2>1. PICK a : a = [Plain("replace_text", Temp) EXCEPT !.text = "new"]
    OBVIOUS
  <2>2. a = [type |-> "replace_text", path |-> Temp, to |-> Temp, line |-> 0, text |-> "new",
             overwrite |-> FALSE]
    BY <2>1, Zenon DEF Plain
  <2> QED BY <2>1, <2>2 DEF OneEdit
<1>3. OneEdit.type = "replace_text" /\ OneEdit.path = Temp /\ OneEdit.text = "new"
  BY <1>2
<1>4. \A lines : Applies(OneEdit, lines) <=> Contains(lines, "old")
  BY <1>3 DEF Applies
<1>5. \A lines : Edited(OneEdit, lines) = Replaced(lines, "new")
  BY <1>3 DEF Edited
<1> QED BY <1>1, <1>3, <1>4, <1>5

\* A step of one command leaves the others and their requests alone.
LEMMA OthersStay ==
    ASSUME FilesInv, NEW r \in Requests,
           Look(r) \/ Read(r) \/ WriteNothing(r) \/ Write(r) \/ Rename(r) \/ WriteFails(r)
    PROVE  /\ request[r].stage \in {"looking", "reading", "writing"}
           /\ applyEdits' = applyEdits
           /\ \A s \in Requests : s # r => request'[s] = request[s]
<1>0. request \in [Requests -> RequestType]
  BY DEF FilesInv, FileEditsTypeOK, RequestType
<1>1. ASSUME NEW q, request' = [request EXCEPT ![r] = q]
      PROVE  \A s \in Requests : s # r => request'[s] = request[s]
  BY <1>0, <1>1
<1>2. ASSUME NEW ok, Ends(r, ok) PROVE \A s \in Requests : s # r => request'[s] = request[s]
  <2>1. request' = [request EXCEPT ![r] = [request[r] EXCEPT !.stage = "done", !.ok = ok, !.before = Absent]]
    BY <1>2 DEF Ends
  <2> QED BY <1>1, <2>1
<1>3. ASSUME NEW stage, NEW before, Goes(r, stage, before)
      PROVE \A s \in Requests : s # r => request'[s] = request[s]
  <2>1. request' = [request EXCEPT ![r] = [request[r] EXCEPT !.stage = stage, !.before = before]]
    BY <1>3 DEF Goes
  <2> QED BY <1>1, <2>1
<1>4. CASE Look(r)
  <2>1. request[r].stage = "looking" /\ applyEdits' = applyEdits
    BY <1>4 DEF Look, Reads
  <2>2. \/ \E ok \in BOOLEAN : Ends(r, ok)
        \/ \E stage \in {"reading", "writing"} : \E before \in Lines : Goes(r, stage, before)
    BY <1>4, LookMeans, Zenon
  <2>3. \A s \in Requests : s # r => request'[s] = request[s]
    BY <1>2, <1>3, <2>2, Zenon
  <2> QED BY <2>1, <2>3
<1>5. CASE Read(r)
  <2>1. request[r].stage = "reading" /\ applyEdits' = applyEdits
    BY <1>5 DEF Read, Reads
  <2>2. Goes(r, "writing", disk[request[r].action.path]) \/ Ends(r, FALSE)
    BY <1>5 DEF Read
  <2> QED BY <1>2, <1>3, <2>1, <2>2
<1>6. CASE WriteNothing(r)
  <2>1. request[r].stage = "writing" /\ applyEdits' = applyEdits /\ Ends(r, TRUE)
    BY <1>6 DEF WriteNothing, Reads
  <2> QED BY <1>2, <2>1
<1>7. CASE Write(r) \/ Rename(r) \/ WriteFails(r)
  <2>1. request[r].stage = "writing" /\ applyEdits' = applyEdits /\ (Ends(r, TRUE) \/ Ends(r, FALSE))
    BY <1>7, Zenon DEF Write, Rename, WriteFails, MayWrite, Writes
  <2> QED BY <1>2, <2>1, Zenon
<1> QED BY <1>4, <1>5, <1>6, <1>7

\* A text edit that is read or written.
LEMMA ReadMeans ==
    ASSUME FileEditsTypeOK, NEW r \in Requests, Read(r)
    PROVE  /\ request'[r].action = request[r].action /\ request'[r].expected = request[r].expected
           /\ UNCHANGED disk
           /\ \/ /\ request'[r].stage = "writing" /\ request'[r].before = disk[request[r].action.path]
                 /\ request[r].action.type \in EditTypes =>
                       Applies(request[r].action, disk[request[r].action.path])
              \/ request'[r].stage = "done" /\ request'[r].ok = FALSE
<1> PICK a : a = request[r].action
  OBVIOUS
<1>1. a.path \in Paths /\ disk[a.path] \in Lines
  <2>1. request[r] \in RequestType
    BY DEF FileEditsTypeOK, RequestType
  <2>2. a \in ActionType
    BY <2>1, ActionTypes DEF RequestType
  <2> QED BY <2>2, Zenon DEF ActionType, FileEditsTypeOK
<1>2. CASE Goes(r, "writing", disk[a.path]) /\ (a.type \in EditTypes => Applies(a, disk[a.path]))
  <2>1. "writing" \in Stages
    BY DEF Stages
  <2>2. request'[r] = [stage |-> "writing", action |-> request[r].action, before |-> disk[a.path],
                       expected |-> request[r].expected, ok |-> request[r].ok]
    BY <1>1, <1>2, <2>1, GoesMeans, Zenon
  <2> QED BY <1>2, <2>2 DEF Read, Reads
<1>3. CASE Ends(r, FALSE)
  <2>1. request'[r] = [stage |-> "done", action |-> request[r].action, before |-> Absent,
                       expected |-> request[r].expected, ok |-> FALSE]
    BY <1>3, EndsMeans, Zenon
  <2> QED BY <2>1 DEF Read, Reads
<1> QED BY <1>2, <1>3 DEF Read

\* The request of the one edit, at each of its steps.
LEMMA EditStep ==
    ASSUME SmokeInv, NEW p \in Processes, <<p, 1>> \in Requests, applyEdits[p] = TRUE,
           EditUnderWay(request[<<p, 1>>]),
           \/ Look(<<p, 1>>) \/ Read(<<p, 1>>) \/ WriteNothing(<<p, 1>>) \/ Write(<<p, 1>>)
           \/ Rename(<<p, 1>>) \/ WriteFails(<<p, 1>>)
    PROVE  EditUnderWay(request[<<p, 1>>])'
<1> PICK r \in Requests : r = <<p, 1>>
  OBVIOUS
<1>0. FileEditsTypeOK /\ disk \in [Paths -> Lines] /\ FilesInv
  BY DEF SmokeInv, FilesInv, FileEditsTypeOK
<1>1. request[r].stage \in {"reading", "writing"}
  <2>1. request[r].stage \in {"looking", "reading", "writing"}
    BY <1>0, OthersStay
  <2> QED BY <2>1 DEF EditUnderWay
<1>2. /\ request[r].action = OneEdit /\ request[r].expected = TRUE /\ Copied
      /\ request[r].stage = "writing" => request[r].before = disk[Temp] /\ Contains(disk[Temp], "old")
  BY <1>1 DEF EditUnderWay
<1>3. CASE Read(r)
  <2>1. /\ request'[r].action = OneEdit /\ request'[r].expected = TRUE /\ UNCHANGED disk
        /\ \/ request'[r].stage = "writing" /\ request'[r].before = disk[Temp] /\ Contains(disk[Temp], "old")
           \/ request'[r].stage = "done" /\ request'[r].ok = FALSE
    <3>1. /\ request'[r].action = request[r].action /\ request'[r].expected = request[r].expected
          /\ UNCHANGED disk
          /\ \/ /\ request'[r].stage = "writing" /\ request'[r].before = disk[request[r].action.path]
                /\ request[r].action.type \in EditTypes =>
                      Applies(request[r].action, disk[request[r].action.path])
             \/ request'[r].stage = "done" /\ request'[r].ok = FALSE
      BY <1>0, <1>3, ReadMeans
    <3>2. OneEdit.type \in EditTypes
      BY EditNamed DEF EditTypes
    <3> QED BY <1>2, <3>1, <3>2, EditNamed
  <2>2. Copied'
    BY <1>2, <2>1 DEF Copied, IsFile
  <2> QED BY <2>1, <2>2 DEF EditUnderWay
<1>4. CASE ~Read(r)
  <2>1. request[r].stage = "writing" /\ (WriteNothing(r) \/ Write(r) \/ Rename(r) \/ WriteFails(r))
    <3>1. CASE Look(r)
      BY <1>1, <3>1 DEF Look
    <3> QED BY <1>4, <3>1, Zenon DEF WriteNothing, Write, Rename, WriteFails, MayWrite
  <2>2. request[r].before = disk[Temp] /\ disk[Temp] = disk[Fixture] /\ Contains(disk[Fixture], "old")
        /\ IsFile(Fixture)
    BY <1>2, <2>1 DEF Copied
  <2>3. After(r) = Replaced(disk[Fixture], "new") /\ After(r) \in Lines
    <3>1. OneEdit.type \in EditTypes
      BY EditNamed DEF EditTypes
    <3>2. After(r) \in Lines /\ After(r) = Edited(request[r].action, request[r].before)
      BY <1>0, <1>2, <2>1, <3>1, AfterType
    <3> QED BY <1>2, <2>2, <3>2, EditNamed
  <2>4. ASSUME NEW ok \in BOOLEAN, Ends(r, ok)
        PROVE  request'[r].stage = "done" /\ request'[r].expected = TRUE /\ request'[r].ok = ok
    <3>1. request'[r] = [stage |-> "done", action |-> request[r].action, before |-> Absent,
                         expected |-> request[r].expected, ok |-> ok]
      BY <1>0, <2>4, EndsMeans, Zenon
    <3> QED BY <1>2, <3>1
  <2>5. CASE WriteNothing(r)
    <3>1. UNCHANGED disk /\ Ends(r, TRUE) /\ After(r) = disk[Temp]
      BY <1>2, <2>2, <2>5, EditNamed DEF WriteNothing, Reads
    <3>2. EditMade'
      BY <2>2, <2>3, <3>1 DEF EditMade, IsFile
    <3> QED BY <2>4, <3>1, <3>2 DEF EditUnderWay
  <2>6. CASE Write(r)
    <3>1. Ends(r, TRUE) /\ disk' = [disk EXCEPT ![Temp] = After(r)]
      BY <1>2, <2>6, EditNamed DEF Write, Puts
    <3>2. disk'[Temp] = Replaced(disk[Fixture], "new") /\ disk'[Fixture] = disk[Fixture]
      BY <1>0, <2>3, <3>1, Places
    <3>3. EditMade'
      BY <2>2, <3>2 DEF EditMade, IsFile
    <3> QED BY <2>4, <3>1, <3>3 DEF EditUnderWay
  <2>7. CASE Rename(r)
    BY <1>2, <2>7, EditNamed DEF Rename
  <2>8. CASE WriteFails(r)
    <3>1. Ends(r, FALSE)
      BY <2>8, Zenon DEF WriteFails
    <3> QED BY <2>4, <3>1 DEF EditUnderWay
  <2> QED BY <2>1, <2>5, <2>6, <2>7, <2>8, Zenon
<1> QED BY <1>3, <1>4, Zenon

\* The phases of a command.
Phases == {"idle", "copying", "trying", "applying", "verifying", "reporting", "passed", "failed"}

\* What entering a phase changes.
LEMMA EntersMeans ==
    ASSUME CommandsInv, NEW p \in Processes, NEW phase, phase \in Phases, Enters(p, phase)
    PROVE  /\ command' \in [Processes -> CommandType]
           /\ command'[p].phase = phase /\ command'[p].kind = command[p].kind
           /\ command'[p].matched = command[p].matched
           /\ \A q \in Processes : q # p => command'[q] = command[q]
<1>1. command \in [Processes -> CommandType]
  BY DEF CommandsInv
<1>2. PICK c \in CommandType : c = command[p]
  BY <1>1
<1>3. PICK d : d = [kind |-> c.kind, matched |-> c.matched, phase |-> phase]
  OBVIOUS
<1>4. d = [c EXCEPT !.phase = phase]
  BY <1>2, <1>3 DEF CommandType
<1>5. command' = [command EXCEPT ![p] = d]
  BY <1>2, <1>4 DEF Enters
<1>6. d \in CommandType
  BY <1>2, <1>3 DEF CommandType, Phases
<1> QED BY <1>1, <1>2, <1>3, <1>5, <1>6

\* A step that the requests of other commands and the phases do not see.
LEMMA QuietPhase ==
    ASSUME SmokeInv, NEW p \in Processes, command[p].phase \notin {"trying", "applying"}, UNCHANGED request
    PROVE  \A r \in Requests : r[1] = p => request'[r].stage = "none"
BY DEF SmokeInv, QuietInv

\* A phase of a command at work.
LEMMA ActivePhases ==
    ASSUME CommandsInv, NEW p \in Processes
    PROVE  /\ Active(p) <=> command[p].phase \in {"copying", "trying", "applying", "verifying", "reporting"}
           /\ command[p].matched \in BOOLEAN
BY DEF CommandsInv, CommandType, Active

\* A request of a smoke that was not disturbed.
LEMMA RequestOfSmoke ==
    ASSUME SmokeInv, NEW r \in Requests, request[r].stage # "none"
    PROVE  Active(r[1]) /\ command[r[1]].phase \in {"trying", "applying"} /\ r[1] \in Processes
<1>1. r[1] \in Processes
  BY RequestNamed
<1> QED BY <1>1 DEF SmokeInv, QuietInv, Active

\* The actions of the commands, one by one: a request goes on,
LEMMA EngineKeeps ==
    ASSUME SmokeInv, NEW r \in Requests,
           Look(r) \/ Read(r) \/ WriteNothing(r) \/ Write(r) \/ Rename(r) \/ WriteFails(r),
           UNCHANGED <<command, disturbed>>
    PROVE  SmokeInv'
<1>0. FilesInv /\ FilesInv' /\ CommandsInv
  <2>1. EngineNext
    BY DEF EngineNext
  <2> QED BY <2>1, EngineStep DEF SmokeInv
<1>1. /\ request[r].stage \in {"looking", "reading", "writing"}
      /\ applyEdits' = applyEdits
      /\ \A s \in Requests : s # r => request'[s] = request[s]
  BY <1>0, OthersStay
<1> PICK p \in Processes : p = r[1]
  BY RequestNamed
<1>2. Active(p) /\ command[p].phase \in {"trying", "applying"}
  BY <1>1, RequestOfSmoke
<1>3. ASSUME p \notin disturbed, command[p].kind = "smoke"
      PROVE  SmokeRun(p)'
  <2>1. SmokeRun(p)
    BY <1>3 DEF SmokeInv
  <2>2. CASE command[p].phase = "trying"
    <3>1. applyEdits[p] = FALSE /\ Copied
      BY <2>1, <2>2 DEF SmokeRun
    <3>2. ~MayWrite(r)
      <4>1. ~applyEdits[r[1]]
        BY <3>1, Zenon
      <4> QED BY <4>1, Zenon DEF MayWrite
    <3>3. UNCHANGED disk
      BY <3>2, Zenon DEF Look, Read, WriteNothing, Write, Rename, WriteFails, Reads
    <3>4. Copied'
      BY <3>1, <3>3 DEF Copied, IsFile
    <3> QED BY <1>1, <2>2, <3>1, <3>4 DEF SmokeRun
  <2>3. CASE command[p].phase = "applying"
    <3>1. /\ applyEdits[p] = TRUE /\ EditUnderWay(request[<<p, 1>>])
          /\ \A n \in 2 .. MaxRequests : request[<<p, n>>].stage = "none"
      BY <2>1, <2>3 DEF SmokeRun
    <3>2. r = <<p, 1>>
      <4>1. r[2] \in 1 .. MaxRequests /\ r = <<p, r[2]>>
        BY RequestNamed
      <4>2. r[2] \notin 2 .. MaxRequests
        BY <1>1, <3>1, <4>1
      <4>3. MaxRequests \in Nat
        BY FileEditsAssumption, Zenon
      <4>4. r[2] = 1
        BY <4>1, <4>2, <4>3
      <4> QED BY <4>1, <4>4
    <3>3. EditUnderWay(request[<<p, 1>>])'
      BY <3>1, <3>2, EditStep
    <3>4. ASSUME NEW n \in 2 .. MaxRequests PROVE request'[<<p, n>>].stage = "none"
      <4>1. <<p, n>> \in Requests /\ <<p, n>> # r
        <5>1. MaxRequests \in Nat
          BY FileEditsAssumption, Zenon
        <5>2. n \in 1 .. MaxRequests /\ n # 1
          BY <5>1
        <5> QED BY <3>2, <5>2 DEF Requests
      <4> QED BY <1>1, <3>1, <4>1
    <3> QED BY <1>1, <2>3, <3>1, <3>3, <3>4 DEF SmokeRun
  <2> QED BY <1>2, <2>2, <2>3
<1>4. command' \in [Processes -> CommandType] /\ disturbed' = disturbed
  BY <1>0 DEF CommandsInv
<1>5. \A s \in Requests : s[1] # p => request'[s] = request[s]
  BY <1>1
<1>6. command'[p].phase \in {"trying", "applying"} /\ command'[p].kind = command[p].kind
      /\ \A q \in Processes : q # p => command'[q] = command[q]
  BY <1>2
<1> QED BY <1>0, <1>2, <1>3, <1>4, <1>5, <1>6, CommandStep

\* A command begins.
LEMMA BeginsKeeps ==
    ASSUME SmokeInv, NEW p \in Processes, NEW kind, NEW phase, Begins(p, kind, phase), FilesInv',
           (kind = "smoke" /\ phase = "copying") \/ (kind = "batch" /\ phase = "applying"),
           \A r \in Requests : r[1] = p => request'[r].stage = "none",
           \A r \in Requests : r[1] # p => request'[r] = request[r]
    PROVE  SmokeInv'
<1>0. CommandsInv /\ QuietInv /\ command \in [Processes -> CommandType] /\ disturbed \subseteq Processes
  BY DEF SmokeInv, CommandsInv
<1>1. PICK c : c = [kind |-> kind, phase |-> phase, matched |-> TRUE]
  OBVIOUS
<1>2. command' = [command EXCEPT ![p] = c]
  <2>1. PICK d : d = [NoCommand EXCEPT !.kind = kind, !.phase = phase]
    OBVIOUS
  <2>2. PICK n \in CommandType : n = NoCommand /\ n.matched = TRUE
    <3>1. NoCommand \in CommandType
      BY DEF NoCommand, CommandType
    <3>2. NoCommand.matched = TRUE
      BY Zenon DEF NoCommand
    <3> QED BY <3>1, <3>2
  <2>3. d = [kind |-> kind, phase |-> phase, matched |-> n.matched]
    BY <2>1, <2>2 DEF CommandType
  <2>4. d = c
    BY <1>1, <2>2, <2>3
  <2> QED BY <2>1, <2>4 DEF Begins
<1>3. c \in CommandType /\ c.kind = kind /\ c.phase = phase
  BY <1>1 DEF CommandType
<1>4. /\ disturbed' \subseteq Processes /\ disturbed \subseteq disturbed'
      /\ \A q \in Processes \ disturbed' : q # p => command[q] = NoCommand
      /\ p \notin disturbed' => \A q \in Processes : ~Active(q)
  BY <1>0 DEF Begins
<1>5. CommandsInv' /\ command'[p] = c /\ \A q \in Processes : q # p => command'[q] = command[q]
  BY <1>0, <1>2, <1>3, <1>4 DEF CommandsInv
<1>6. QuietInv'
  <2> SUFFICES ASSUME NEW r \in Requests, command'[r[1]].phase \notin {"trying", "applying"}
               PROVE  request'[r].stage = "none"
    BY DEF QuietInv, Requests
  <2>1. r[1] \in Processes
    BY RequestNamed
  <2> QED BY <1>0, <1>5, <2>1 DEF QuietInv
<1>7. AloneInv'
  <2> SUFFICES ASSUME NEW q \in Processes \ disturbed', command'[q] # NoCommand, NEW s \in Processes \ {q}
               PROVE  ~Active(s)'
    BY DEF AloneInv, NoCommand
  <2>1. q = p
    BY <1>4, <1>5
  <2>2. ~Active(s) /\ command'[s] = command[s]
    BY <1>4, <1>5, <2>1
  <2> QED BY <2>2 DEF Active
<1>8. ASSUME NEW q \in Processes \ disturbed', command'[q].kind = "smoke" PROVE SmokeRun(q)'
  <2>1. NoCommand.kind = "none"
    BY DEF NoCommand
  <2>2. q = p
    BY <1>4, <1>5, <1>8, <2>1
  <2>3. command'[p].phase = "copying"
    BY <1>3, <1>5, <1>8, <2>2
  <2> QED BY <2>2, <2>3 DEF SmokeRun
<1> QED BY <1>5, <1>6, <1>7, <1>8 DEF SmokeInv

\* a batch starts,
LEMMA StartKeeps ==
    ASSUME SmokeInv, NEW p \in Processes, StartSmoke(p) \/ \E apply \in BOOLEAN : StartBatch(p, apply)
    PROVE  SmokeInv'
<1>0. FilesInv /\ FileEditsTypeOK
  BY DEF SmokeInv, FilesInv
<1>1. CASE StartSmoke(p)
  <2>1. Begins(p, "smoke", "copying") /\ UNCHANGED fileVars /\ command[p] = NoCommand
    BY <1>1 DEF StartSmoke, Begins
  <2>2. UNCHANGED <<disk, applyEdits, request, changes, contended>> /\ UNCHANGED diskFaults
    BY <2>1 DEF fileVars
  <2>3. FilesInv'
    BY <1>0, <2>2, FilesIdle DEF FileEditsTypeOK
  <2>4. \A r \in Requests : r[1] = p => request'[r].stage = "none"
    <3>1. command[p].phase = "idle"
      BY <2>1 DEF NoCommand
    <3> QED BY <2>2, <3>1, QuietPhase
  <2> QED BY <2>1, <2>2, <2>3, <2>4, BeginsKeeps
<1>2. CASE \E apply \in BOOLEAN : StartBatch(p, apply)
  <2>1. PICK apply \in BOOLEAN : StartBatch(p, apply)
    BY <1>2
  <2>2. Begins(p, "batch", "applying") /\ NewBatch(p, apply) /\ UNCHANGED <<disk, changes, contended, diskFaults>>
    BY <2>1 DEF StartBatch
  <2>3. FilesInv'
    BY <1>0, <2>2, NewBatchStep, Places
  <2>4. /\ \A r \in Requests : r[1] = p => request'[r] = NotAsked
        /\ \A r \in Requests : r[1] # p => request'[r] = request[r]
    BY <1>0, <2>2, NewBatchMeans, Places
  <2>5. NotAsked.stage = "none"
    BY FirstType, Places
  <2> QED BY <2>2, <2>3, <2>4, <2>5, BeginsKeeps
<1> QED BY <1>1, <1>2

\* the fixture is copied,
LEMMA CopyKeeps ==
    ASSUME SmokeInv, NEW p \in Processes, CopyFixture(p)
    PROVE  SmokeInv'
<1>0. FilesInv /\ FileEditsTypeOK /\ CommandsInv /\ Active(p) /\ command[p].phase = "copying"
      /\ disturbed' = disturbed /\ diskFaults' = diskFaults
  BY DEF SmokeInv, FilesInv, CopyFixture, Active
<1>1. CASE IsFile(Fixture) /\ disk[Temp] # Directory
  <2>1. /\ Puts(Temp, disk[Fixture]) /\ Reported(Temp, disk[Temp], disk[Fixture])
        /\ contended' = contended
               \cup {q \in {Temp, Fixture} : \E r \in InFlight : q \in Touches(request[r].action)}
        /\ NewBatch(p, FALSE) /\ Enters(p, "trying")
    BY <1>1 DEF CopyFixture
  <2>2. FilesInv'
    BY <1>0, <2>1, Places, CopyStep
  <2>3. /\ applyEdits'[p] = FALSE
        /\ \A r \in Requests : r[1] # p => request'[r] = request[r]
    BY <1>0, <2>1, NewBatchMeans, Places
  <2>4. "trying" \in Phases
    BY DEF Phases
  <2>5. /\ command' \in [Processes -> CommandType]
        /\ command'[p].phase = "trying" /\ command'[p].kind = command[p].kind
        /\ \A q \in Processes : q # p => command'[q] = command[q]
    BY <1>0, <2>1, <2>4, EntersMeans
  <2>6. Copied'
    <3>1. disk' = [disk EXCEPT ![Temp] = disk[Fixture]] /\ disk \in [Paths -> Lines]
      BY <1>0, <2>1 DEF Puts, FileEditsTypeOK
    <3>2. disk'[Temp] = disk[Fixture] /\ disk'[Fixture] = disk[Fixture]
      BY <3>1, Places
    <3> QED BY <1>1, <3>2 DEF Copied, IsFile
  <2>7. SmokeRun(p)'
    BY <2>3, <2>5, <2>6 DEF SmokeRun
  <2>8. command'[p].phase \in {"trying", "applying"}
    BY <2>5
  <2> QED BY <1>0, <2>2, <2>3, <2>5, <2>7, <2>8, CommandStep
<1>2. CASE ~(IsFile(Fixture) /\ disk[Temp] # Directory)
  <2>1. Enters(p, "failed") /\ UNCHANGED <<disk, changes, contended, applyEdits, request>>
    BY <1>2 DEF CopyFixture
  <2>2. FilesInv'
    BY <1>0, <2>1, FilesIdle DEF FileEditsTypeOK
  <2>3. "failed" \in Phases
    BY DEF Phases
  <2>4. /\ command' \in [Processes -> CommandType]
        /\ command'[p].phase = "failed" /\ command'[p].kind = command[p].kind
        /\ \A q \in Processes : q # p => command'[q] = command[q]
    BY <1>0, <2>1, <2>3, EntersMeans
  <2>5. \A r \in Requests : r[1] = p => request'[r].stage = "none"
    BY <1>0, <2>1, QuietPhase
  <2>6. SmokeRun(p)'
    BY <2>4 DEF SmokeRun
  <2>7. \A r \in Requests : r[1] # p => request'[r] = request[r]
    BY <2>1
  <2> QED BY <1>0, <2>2, <2>4, <2>5, <2>6, <2>7, CommandStep
<1> QED BY <1>1, <1>2

\* the batch ends (and which phase that leads to),
LEMMA BatchEndsMeans ==
    ASSUME CommandsInv, NEW p \in Processes, BatchEnds(p)
    PROVE  /\ command[p].phase \in {"trying", "applying"}
           /\ command' \in [Processes -> CommandType] /\ command'[p].kind = command[p].kind
           /\ command'[p].phase = "applying" <=> command[p].phase = "trying"
           /\ command'[p].phase \in {"applying", "verifying", "reporting"}
           /\ command[p].phase = "applying" /\ command[p].kind = "smoke" => command'[p].phase = "verifying"
           /\ command'[p].matched = TRUE => Cardinality(Matches(p)) = BatchSize(p)
           /\ \A q \in Processes : q # p => command'[q] = command[q]
<1>1. command \in [Processes -> CommandType]
  BY DEF CommandsInv
<1>2. PICK c \in CommandType : c = command[p]
  BY <1>1
<1>3. PICK phase : phase = CASE c.phase = "trying" -> "applying"
                             [] c.phase = "applying" /\ c.kind = "smoke" -> "verifying"
                             [] OTHER -> "reporting"
  OBVIOUS
<1>4. PICK matched : matched = (c.matched /\ Cardinality(Matches(p)) = BatchSize(p))
  OBVIOUS
<1>5. PICK d : d = [kind |-> c.kind, matched |-> matched, phase |-> phase]
  OBVIOUS
<1>6. c.phase \in {"trying", "applying"}
  BY <1>2 DEF BatchEnds
<1>7. /\ c.phase = "trying" => phase = "applying"
      /\ c.phase = "applying" /\ c.kind = "smoke" => phase = "verifying"
      /\ phase \in {"applying", "verifying", "reporting"} /\ (phase = "applying" => c.phase = "trying")
  <2>1. CASE c.phase = "trying"
    BY <1>3, <2>1
  <2>2. CASE c.phase = "applying" /\ c.kind = "smoke"
    BY <1>3, <2>2
  <2>3. CASE c.phase = "applying" /\ c.kind # "smoke"
    BY <1>3, <2>3
  <2> QED BY <1>6, <2>1, <2>2, <2>3
<1>8. matched \in BOOLEAN /\ (matched = TRUE => Cardinality(Matches(p)) = BatchSize(p))
  BY <1>4
<1>9. d \in CommandType
  BY <1>2, <1>5, <1>7, <1>8 DEF CommandType
<1>10. d = [c EXCEPT !.matched = matched, !.phase = phase]
  <2>1. PICK e : e = [c EXCEPT !.matched = matched, !.phase = phase]
    OBVIOUS
  <2>2. e = [kind |-> c.kind, matched |-> matched, phase |-> phase]
    BY <1>2, <1>8, <2>1 DEF CommandType
  <2> QED BY <1>5, <2>1, <2>2, Zenon
<1>11. command' = [command EXCEPT ![p].matched = matched, ![p].phase = phase]
  BY <1>1, <1>2, <1>3, <1>4 DEF BatchEnds
<1>12. command' = [command EXCEPT ![p] = d]
  BY <1>1, <1>2, <1>10, <1>11
<1>13. command' \in [Processes -> CommandType] /\ command'[p] = d
       /\ \A q \in Processes : q # p => command'[q] = command[q]
  BY <1>1, <1>9, <1>12
<1> QED BY <1>2, <1>5, <1>6, <1>7, <1>8, <1>13

LEMMA BatchEndsKeeps ==
    ASSUME SmokeInv, NEW p \in Processes, BatchEnds(p)
    PROVE  SmokeInv'
<1>0. FilesInv /\ FileEditsTypeOK /\ CommandsInv /\ QuietInv
  BY DEF SmokeInv, FilesInv
<1>1. /\ command[p].phase \in {"trying", "applying"}
      /\ command' \in [Processes -> CommandType] /\ command'[p].kind = command[p].kind
      /\ command'[p].phase = "applying" <=> command[p].phase = "trying"
      /\ command'[p].phase \in {"applying", "verifying", "reporting"}
      /\ command[p].phase = "applying" /\ command[p].kind = "smoke" => command'[p].phase = "verifying"
      /\ command'[p].matched = TRUE => Cardinality(Matches(p)) = BatchSize(p)
      /\ \A q \in Processes : q # p => command'[q] = command[q]
  BY <1>0, BatchEndsMeans
<1>2. UNCHANGED <<disk, changes, contended, diskFaults, disturbed>> /\ Active(p)
  BY <1>1 DEF BatchEnds, Active
<1> PICK apply \in BOOLEAN : apply = IF command[p].phase = "trying" THEN TRUE ELSE applyEdits[p]
  BY <1>0 DEF FileEditsTypeOK
<1>3. NewBatch(p, apply)
  BY DEF BatchEnds
<1>4. FilesInv'
  BY <1>0, <1>2, <1>3, NewBatchStep, Places
<1>5. /\ applyEdits'[p] = apply
      /\ \A r \in Requests : r[1] = p => request'[r] = NotAsked
      /\ \A r \in Requests : r[1] # p => request'[r] = request[r]
  BY <1>0, <1>3, NewBatchMeans, Places
<1>6. \A r \in Requests : r[1] = p => request'[r].stage = "none"
  BY <1>5, FirstType, Places
<1>7. MaxRequests \in Nat /\ 1 \in 1 .. MaxRequests
  <2>1. MaxRequests \in Nat
    BY FileEditsAssumption, Zenon
  <2>2. MaxRequests >= 1
    BY SmokeSuiteAssumption
  <2> QED BY <2>1, <2>2
<1>8. ASSUME p \notin disturbed, command[p].kind = "smoke"
      PROVE  SmokeRun(p)'
  <2>1. SmokeRun(p)
    BY <1>8 DEF SmokeInv
  <2>2. CASE command[p].phase = "trying"
    <3>1. Copied'
      BY <1>2, <2>1, <2>2 DEF SmokeRun, Copied, IsFile
    <3>2. \A n \in 1 .. MaxRequests : request'[<<p, n>>].stage = "none"
      <4>1. \A n \in 1 .. MaxRequests : <<p, n>> \in Requests /\ <<p, n>>[1] = p
        BY DEF Requests
      <4> QED BY <1>6, <4>1
    <3>3. EditUnderWay(request[<<p, 1>>])'
      BY <1>7, <3>1, <3>2 DEF EditUnderWay
    <3>4. \A n \in 2 .. MaxRequests : n \in 1 .. MaxRequests
      BY <1>7
    <3>5. applyEdits'[p] = TRUE /\ command'[p].phase = "applying"
      BY <1>1, <1>5, <2>2
    <3> QED BY <3>2, <3>3, <3>4, <3>5 DEF SmokeRun
  <2>3. CASE command[p].phase = "applying"
    <3>1. EditUnderWay(request[<<p, 1>>])
      BY <2>1, <2>3 DEF SmokeRun
    <3>2. BatchSize(p) = 1
      BY <1>8, <2>3 DEF BatchSize
    <3>3. request[<<p, 1>>].stage = "done"
      BY <3>2 DEF BatchEnds
    <3>4. ASSUME command'[p].matched = TRUE PROVE EditMade'
      <4>1. Cardinality(Matches(p)) = 1
        BY <1>1, <3>2, <3>4
      <4>2. Matches(p) # {}
        BY <4>1, FS_EmptySet
      <4>3. request[<<p, 1>>].ok = request[<<p, 1>>].expected
        <5>1. PICK n \in 1 .. BatchSize(p) : request[<<p, n>>].ok = request[<<p, n>>].expected
          BY <4>2 DEF Matches
        <5>2. n \in 1 .. 1
          BY <3>2, <5>1
        <5>3. n = 1
          BY <5>2
        <5> QED BY <5>1, <5>3
      <4>4. EditMade
        BY <3>1, <3>3, <4>3 DEF EditUnderWay
      <4> QED BY <1>2, <4>4 DEF EditMade, IsFile
    <3>5. command'[p].phase = "verifying"
      BY <1>1, <1>8, <2>3
    <3> QED BY <3>4, <3>5 DEF SmokeRun
  <2> QED BY <1>1, <2>2, <2>3
<1> QED BY <1>1, <1>2, <1>4, <1>5, <1>6, <1>8, CommandStep

\* the copy is compared,
LEMMA VerifyKeeps ==
    ASSUME SmokeInv, NEW p \in Processes, Verify(p)
    PROVE  SmokeInv'
<1>0. FilesInv /\ FileEditsTypeOK /\ CommandsInv /\ Active(p) /\ command[p].phase = "verifying"
      /\ disturbed' = disturbed
      /\ UNCHANGED <<disk, applyEdits, request, changes, contended>> /\ UNCHANGED diskFaults
  BY DEF SmokeInv, FilesInv, Verify, Active, fileVars
<1>1. command \in [Processes -> CommandType]
  BY <1>0 DEF CommandsInv
<1>2. PICK c \in CommandType : c = command[p]
  BY <1>1
<1>3. PICK phase : phase = IF IsFile(Temp) THEN "reporting" ELSE "failed"
  OBVIOUS
<1>4. PICK matched : matched = (c.matched /\ Contains(disk[Temp], "new"))
  OBVIOUS
<1>5. PICK d : d = [kind |-> c.kind, matched |-> matched, phase |-> phase]
  OBVIOUS
<1>6. matched \in BOOLEAN /\ (matched = TRUE => c.matched = TRUE)
  <2>1. c.matched \in BOOLEAN
    BY <1>2 DEF CommandType
  <2> QED BY <1>4, <2>1
<1>7. d \in CommandType
  BY <1>2, <1>3, <1>5, <1>6 DEF CommandType
<1>8. d = [c EXCEPT !.phase = phase, !.matched = matched]
  <2>1. PICK e : e = [c EXCEPT !.phase = phase, !.matched = matched]
    OBVIOUS
  <2>2. e = [kind |-> c.kind, matched |-> matched, phase |-> phase]
    BY <1>2, <1>6, <2>1 DEF CommandType
  <2> QED BY <1>5, <2>1, <2>2, Zenon
<1>9. command' = [command EXCEPT ![p].phase = phase, ![p].matched = matched]
  BY <1>1, <1>2, <1>3, <1>4 DEF Verify
<1>10. command' = [command EXCEPT ![p] = d]
  BY <1>1, <1>2, <1>8, <1>9
<1>11. command' \in [Processes -> CommandType] /\ command'[p] = d
       /\ \A q \in Processes : q # p => command'[q] = command[q]
  BY <1>1, <1>7, <1>10
<1>12. command'[p].phase \in {"reporting", "failed"} /\ command'[p].kind = command[p].kind
       /\ (command'[p].matched = TRUE => command[p].matched = TRUE)
  BY <1>2, <1>3, <1>5, <1>6, <1>11
<1>13. FilesInv'
  BY <1>0, FilesIdle DEF FileEditsTypeOK
<1>14. \A r \in Requests : r[1] = p => request'[r].stage = "none"
  BY <1>0, QuietPhase
<1>15. ASSUME p \notin disturbed, command[p].kind = "smoke"
       PROVE  SmokeRun(p)'
  <2>1. SmokeRun(p)
    BY <1>15 DEF SmokeInv
  <2>2. command[p].matched = TRUE => EditMade
    BY <1>0, <2>1 DEF SmokeRun
  <2>3. command'[p].matched = TRUE => EditMade'
    BY <1>0, <1>12, <2>2 DEF EditMade, IsFile
  <2> QED BY <1>12, <2>3 DEF SmokeRun
<1>16. \A r \in Requests : r[1] # p => request'[r] = request[r]
  BY <1>0
<1> QED BY <1>0, <1>11, <1>12, <1>13, <1>14, <1>15, <1>16, CommandStep

\* the report is made,
LEMMA LastPhaseKeeps ==
    ASSUME SmokeInv, NEW p \in Processes, WriteReport(p) \/ CommandFails(p)
    PROVE  SmokeInv'
<1>0. FilesInv /\ FileEditsTypeOK /\ CommandsInv /\ Active(p) /\ command[p].phase \in {"copying", "reporting"}
      /\ disturbed' = disturbed
      /\ UNCHANGED <<disk, applyEdits, request, changes, contended>>
  BY DEF SmokeInv, FilesInv, WriteReport, CommandFails, Active, fileVars
<1>1. diskFaults' \in 0 .. MaxDiskFaults
  <2>1. diskFaults \in 0 .. MaxDiskFaults /\ MaxDiskFaults \in Nat
    BY <1>0, FileEditsAssumption, Zenon DEF FileEditsTypeOK
  <2> QED BY <2>1 DEF WriteReport, CommandFails, fileVars
<1>2. FilesInv'
  BY <1>0, <1>1, FilesIdle
<1>3. PICK phase \in {"passed", "failed"} :
          Enters(p, phase) /\ (phase = "passed" => command[p].phase = "reporting" /\ command[p].matched = TRUE)
  <2>1. command[p].matched \in BOOLEAN
    BY <1>0, ActivePhases
  <2> QED BY <2>1 DEF WriteReport, CommandFails
<1>4. phase \in Phases
  BY <1>3 DEF Phases
<1>5. /\ command' \in [Processes -> CommandType]
      /\ command'[p].phase = phase /\ command'[p].kind = command[p].kind
      /\ \A q \in Processes : q # p => command'[q] = command[q]
  BY <1>0, <1>3, <1>4, EntersMeans
<1>6. \A r \in Requests : r[1] = p => request'[r].stage = "none"
  BY <1>0, QuietPhase
<1>7. ASSUME p \notin disturbed, command[p].kind = "smoke"
      PROVE  SmokeRun(p)'
  <2>1. SmokeRun(p)
    BY <1>7 DEF SmokeInv
  <2>2. ASSUME phase = "passed" PROVE EditMade'
    <3>1. EditMade
      BY <1>3, <2>1, <2>2 DEF SmokeRun
    <3> QED BY <1>0, <3>1 DEF EditMade, IsFile
  <2> QED BY <1>3, <1>5, <2>2 DEF SmokeRun
<1>8. \A r \in Requests : r[1] # p => request'[r] = request[r]
  BY <1>0
<1> QED BY <1>0, <1>2, <1>5, <1>6, <1>7, <1>8, CommandStep

\* What the requests of a batch ask for.
LEMMA AskedMeans ==
    ASSUME CommandsInv, NEW r \in Requests, NEW asked, asked \in Asked(r)
    PROVE  /\ asked.action \in Actions /\ asked.expected \in BOOLEAN
           /\ command[r[1]].phase \in {"trying", "applying"}
           /\ command[r[1]].phase = "applying" /\ command[r[1]].kind = "smoke" =>
                 r[2] = 1 /\ asked.action = OneEdit /\ asked.expected = TRUE
<1> PICK c : c = command[r[1]]
  OBVIOUS
<1>0. PICK a : a = [Plain("replace_text", Temp) EXCEPT !.text = "new"]
  OBVIOUS
<1>1. \/ c.phase = "trying" /\ r[2] <= Len(Scenario) /\ asked \in {Scenario[r[2]]}
      \/ c.phase = "applying" /\ c.kind = "smoke" /\ r[2] = 1 /\ asked = Wanted(a)
      \/ c.phase = "applying" /\ c.kind = "batch" /\ asked \in {Wanted(b) : b \in Prompts}
  BY <1>0 DEF Asked
<1>2. CASE c.phase = "trying" /\ r[2] <= Len(Scenario) /\ asked \in {Scenario[r[2]]}
  <2>1. Scenario \in Seq([action : Actions, expected : BOOLEAN])
    BY SmokeSuiteAssumption
  <2>2. r[2] \in 1 .. MaxRequests /\ MaxRequests \in Nat /\ Len(Scenario) \in Nat
    BY <2>1, RequestNamed, FileEditsAssumption, LenProperties, Zenon
  <2>3. r[2] \in 1 .. Len(Scenario)
    BY <1>2, <2>2
  <2>4. asked \in [action : Actions, expected : BOOLEAN]
    <3>1. Scenario[r[2]] \in [action : Actions, expected : BOOLEAN]
      BY <2>1, <2>3, ElementOfSeq
    <3> QED BY <1>2, <3>1
  <2> QED BY <1>2, <2>4
<1>3. CASE c.phase = "applying" /\ c.kind = "smoke" /\ r[2] = 1 /\ asked = Wanted(a)
  <2>1. asked = [action |-> a, expected |-> TRUE]
    BY <1>3 DEF Wanted
  <2>2. a = OneEdit /\ a \in Actions
    BY <1>0, EditNamed DEF OneEdit
  <2> QED BY <1>3, <2>1, <2>2
<1>4. CASE c.phase = "applying" /\ c.kind = "batch" /\ asked \in {Wanted(b) : b \in Prompts}
  <2>1. PICK b \in Prompts : asked = [action |-> b, expected |-> TRUE]
    BY <1>4 DEF Wanted
  <2>2. b \in Actions
    BY SmokeSuiteAssumption
  <2> QED BY <1>4, <2>1, <2>2
<1> QED BY <1>1, <1>2, <1>3, <1>4

\* and a request begins.
LEMMA RequestKeeps ==
    ASSUME SmokeInv, NEW r \in Requests, StartRequest(r)
    PROVE  SmokeInv'
<1>0. FilesInv /\ FileEditsTypeOK /\ CommandsInv /\ UNCHANGED <<command, disturbed>>
  BY DEF SmokeInv, FilesInv, StartRequest
<1>1. PICK asked \in Asked(r) : StartAction(r, asked.action, asked.expected) \/ NotUnderstood(r, asked.expected)
  BY DEF StartRequest
<1>2. PICK a \in Actions, expected \in BOOLEAN : a = asked.action /\ expected = asked.expected
  BY <1>0, <1>1, AskedMeans
<1>3. /\ command[r[1]].phase \in {"trying", "applying"}
      /\ command[r[1]].phase = "applying" /\ command[r[1]].kind = "smoke" =>
            r[2] = 1 /\ a = OneEdit /\ expected = TRUE
  BY <1>0, <1>1, <1>2, AskedMeans
<1>4. StartAction(r, a, expected) \/ NotUnderstood(r, expected)
  BY <1>1, <1>2
<1> PICK p \in Processes : p = r[1]
  BY RequestNamed
<1>5. FilesInv'
  BY <1>0, <1>2, <1>4, StartActionStep, NotUnderstoodStep, Places
<1>6. /\ UNCHANGED <<disk, applyEdits>> /\ request[r].stage = "none"
      /\ \A s \in Requests : s # r => request'[s] = request[s]
      /\ \/ request'[r].stage = FirstStage(a) /\ request'[r].action = a /\ request'[r].expected = expected
         \/ request'[r].stage = "done" /\ request'[r].ok = FALSE /\ request'[r].expected = expected
  <2>1. CASE StartAction(r, a, expected)
    <3>1. /\ request'[r] = [stage |-> FirstStage(a), action |-> a, before |-> Absent,
                            expected |-> expected, ok |-> FALSE]
          /\ \A s \in Requests : s # r => request'[s] = request[s]
      BY <1>0, <1>2, <2>1, BeginsMeans, Places
    <3> QED BY <2>1, <3>1 DEF StartAction, MayStart
  <2>2. CASE NotUnderstood(r, expected)
    <3>1. /\ request'[r].stage = "done" /\ request'[r].expected = expected /\ request'[r].ok = FALSE
          /\ \A s \in Requests : s # r => request'[s] = request[s]
      BY <1>0, <1>2, <2>2, NotUnderstoodMeans, Places
    <3> QED BY <2>2, <3>1 DEF NotUnderstood, MayStart
  <2> QED BY <1>4, <2>1, <2>2
<1>7. ASSUME p \notin disturbed, command[p].kind = "smoke"
      PROVE  SmokeRun(p)'
  <2>1. SmokeRun(p)
    BY <1>7 DEF SmokeInv
  <2>2. CASE command[p].phase = "trying"
    <3>1. applyEdits'[p] = FALSE /\ Copied'
      BY <1>6, <2>1, <2>2 DEF SmokeRun, Copied, IsFile
    <3> QED BY <1>0, <2>2, <3>1 DEF SmokeRun
  <2>3. CASE command[p].phase = "applying"
    <3>1. r[2] = 1 /\ a = OneEdit /\ expected = TRUE
      BY <1>3, <1>7, <2>3
    <3>2. r = <<p, 1>>
      BY <3>1, RequestNamed
    <3>3. /\ applyEdits[p] = TRUE /\ EditUnderWay(request[<<p, 1>>])
          /\ \A n \in 2 .. MaxRequests : request[<<p, n>>].stage = "none"
      BY <2>1, <2>3 DEF SmokeRun
    <3>4. Copied'
      BY <1>6, <3>2, <3>3 DEF EditUnderWay, Copied, IsFile
    <3>5. FirstStage(a) = "reading"
      BY <3>1, EditNamed DEF FirstStage, EditTypes
    <3>6. EditUnderWay(request[<<p, 1>>])'
      BY <1>6, <3>1, <3>2, <3>4, <3>5 DEF EditUnderWay
    <3>7. ASSUME NEW n \in 2 .. MaxRequests PROVE request'[<<p, n>>].stage = "none"
      <4>1. MaxRequests \in Nat
        BY FileEditsAssumption, Zenon
      <4>2. n \in 1 .. MaxRequests /\ n # 1
        BY <4>1
      <4>3. <<p, n>> \in Requests /\ <<p, n>> # r
        BY <3>2, <4>2 DEF Requests
      <4> QED BY <1>6, <3>3, <4>3
    <3> QED BY <1>0, <1>6, <2>3, <3>3, <3>6, <3>7 DEF SmokeRun
  <2> QED BY <1>3, <2>2, <2>3
<1>8. command' \in [Processes -> CommandType] /\ disturbed' = disturbed /\ Active(p)
  BY <1>0, <1>3 DEF CommandsInv, Active
<1>9. \A s \in Requests : s[1] # p => request'[s] = request[s]
  BY <1>6
<1>10. command'[p].phase \in {"trying", "applying"} /\ command'[p].kind = command[p].kind
       /\ \A q \in Processes : q # p => command'[q] = command[q]
  BY <1>0, <1>3
<1> QED BY <1>5, <1>7, <1>8, <1>9, <1>10, CommandStep

\* A step of the commands keeps their invariant.
LEMMA SmokeStep ==
    ASSUME SmokeInv, SmokeSuiteNext
    PROVE  SmokeInv'
<1>1. ASSUME NEW p \in Processes,
             \/ StartSmoke(p) \/ \E apply \in BOOLEAN : StartBatch(p, apply)
             \/ CopyFixture(p) \/ BatchEnds(p) \/ Verify(p) \/ WriteReport(p) \/ CommandFails(p)
      PROVE  SmokeInv'
  BY <1>1, StartKeeps, CopyKeeps, BatchEndsKeeps, VerifyKeeps, LastPhaseKeeps
<1>2. ASSUME NEW r \in Requests, StartRequest(r) PROVE SmokeInv'
  BY <1>2, RequestKeeps
<1>3. ASSUME EngineNext, UNCHANGED <<command, disturbed>> PROVE SmokeInv'
  BY <1>3, EngineKeeps DEF EngineNext
<1> QED BY <1>1, <1>2, <1>3 DEF SmokeSuiteNext

\* A step of another tool leaves it alone.
LEMMA SmokeIdle ==
    ASSUME SmokeInv, UNCHANGED smokeVars
    PROVE  SmokeInv'
<1>1. UNCHANGED <<disk, applyEdits, request, changes, contended, diskFaults, command, disturbed>>
  BY DEF smokeVars, fileVars
<1>2. FilesInv'
  BY <1>1, FilesIdle DEF SmokeInv, FilesInv, FileEditsTypeOK
<1>3. CommandsInv' /\ QuietInv' /\ AloneInv'
  BY <1>1 DEF SmokeInv, CommandsInv, QuietInv, AloneInv, Active
<1>4. ASSUME NEW p \in Processes \ disturbed', command'[p].kind = "smoke" PROVE SmokeRun(p)'
  <2>1. SmokeRun(p)
    BY <1>1, <1>4 DEF SmokeInv
  <2> QED BY <1>1, <2>1 DEF SmokeRun, EditUnderWay, EditMade, Copied, IsFile
<1> QED BY <1>2, <1>3, <1>4 DEF SmokeInv

-----------------------------------------------------------------------------
(* The tools together: each keeps to its own files. *)

\* The inductive invariant of the tools, one part for each.
ToolsInv == tool \in ToolNames /\ SmokeInv /\ ReviewInv /\ SyncInv /\ ScriptsInv

LEMMA ToolsStart ==
    ASSUME ToolsInit
    PROVE  ToolsInv
BY SmokeStart, ReviewStart, SyncStart, ScriptsStart DEF ToolsInit, ToolsInv

LEMMA ToolsStep ==
    ASSUME ToolsInv, [ToolsNext]_toolVars
    PROVE  ToolsInv'
<1>1. CASE ToolsNext
  <2>1. tool' \in ToolNames
    BY <1>1 DEF ToolsNext, ToolsInv
  <2>2. SmokeInv'
    BY <1>1, SmokeStep, SmokeIdle DEF ToolsNext, ToolsInv
  <2>3. ReviewInv'
    BY <1>1, ReviewStep, ReviewIdle DEF ToolsNext, ToolsInv
  <2>4. SyncInv'
    BY <1>1, SyncStep, SyncIdle DEF ToolsNext, ToolsInv
  <2>5. ScriptsInv'
    BY <1>1, PromotionStep, ReadmeStep, ScriptsIdle DEF ToolsNext, ToolsInv
  <2> QED BY <2>1, <2>2, <2>3, <2>4, <2>5 DEF ToolsInv
<1>2. CASE UNCHANGED toolVars
  <2>1. tool' = tool /\ UNCHANGED smokeVars /\ UNCHANGED reviewVars /\ UNCHANGED syncVars /\ UNCHANGED scriptVars
    BY <1>2 DEF toolVars
  <2> QED BY <2>1, SmokeIdle, ReviewIdle, SyncIdle, ScriptsIdle DEF ToolsInv
<1> QED BY <1>1, <1>2

\* The invariant is inductive.
LEMMA ToolsSafe == ToolsSpec => []ToolsInv
<1>1. ToolsInit => ToolsInv
  BY ToolsStart
<1>2. ToolsInv /\ [ToolsNext]_toolVars => ToolsInv'
  BY ToolsStep
<1> QED BY <1>1, <1>2, PTL DEF ToolsSpec

\* Every variable of the tools keeps its type.
THEOREM ToolsTypes == ToolsSpec => []ToolsTypeOK
<1>1. ToolsInv => ToolsTypeOK
  BY SmokeMeans, ReviewMeans, SyncMeans, ScriptsMean DEF ToolsInv, ToolsTypeOK
<1> QED BY <1>1, ToolsSafe, PTL

\* The reports of the edits to a file follow on each other and end with what
\* the file holds, and the diff that is shown turns the one text into the
\* other: file-edit-engine.mjs with diff-utils.mjs, for any number of
\* processes, requests, files and lines, and any context.
THEOREM FilesReportsExplain == ToolsSpec => []ReportsExplain
<1>1. ToolsInv => ReportsExplain
  BY SmokeMeans DEF ToolsInv
<1> QED BY <1>1, ToolsSafe, PTL

\* A smoke that passed with no other command beside it leaves its copy one
\* replacement away from the fixture: smoke-runner.mjs with the engine.
THEOREM SmokePassesOnlyWhenWorking == ToolsSpec => []SmokeMeansWorking
<1>1. ToolsInv => SmokeMeansWorking
  BY SmokeMeans DEF ToolsInv
<1> QED BY <1>1, ToolsSafe, PTL

\* A strict review that lets a check-in through has left no more behind than
\* the thresholds allow: review-core.mjs, and the check-in that waits for it.
THEOREM StrictReviewBounds == ToolsSpec => []StrictMeansReviewed
<1>1. ToolsInv => StrictMeansReviewed
  BY ReviewMeans DEF ToolsInv
<1> QED BY <1>1, ToolsSafe, PTL

\* What a maintenance script reports as done is done: the sync of shared
\* repositories, the promotion of an agent and the section of the README.
THEOREM ScriptsFinishTheirWork == ToolsSpec => []DoneMeansDone
<1>1. ToolsInv => DoneMeansDone
  BY SyncMeans, ScriptsMean DEF ToolsInv, DoneMeansDone
<1> QED BY <1>1, ToolsSafe, PTL
==============================================================================
