---------------------------- MODULE LibraryProofs -----------------------------
(* Theorems about what the console's pages are drawn with: the patching of a    *)
(* list of children, for any number of children and of renderings, and          *)
(* transitions, for any number of keys and of wishes.                           *)
EXTENDS Library, SequenceTheorems, FiniteSetTheorems, WellFoundedInduction, TLAPS

-----------------------------------------------------------------------------
(* Sequences without repetition, and the order they put their elements in.   *)

LEMMA Inserted ==
    ASSUME NEW S, NEW s \in Seq(S), NEW k \in 1..Len(s) + 1, NEW e \in S
    PROVE  /\ Patching!InsertAt(s, k, e) \in Seq(S) /\ Len(Patching!InsertAt(s, k, e)) = Len(s) + 1
           /\ \A j \in 1..Len(s) + 1 :
                 Patching!InsertAt(s, k, e)[j] = IF j < k THEN s[j] ELSE IF j = k THEN e ELSE s[j - 1]
<1> DEFINE a == SubSeq(s, 1, k - 1)  b == SubSeq(s, k, Len(s))
<1>0. Len(s) \in Nat /\ \A j \in 1..Len(s) : s[j] \in S
  BY LenProperties, ElementOfSeq
<1>1. a \in Seq(S) /\ Len(a) = k - 1 /\ \A j \in 1..k - 1 : a[j] = s[j]
  BY <1>0, SubSeqProperties
<1>2. b \in Seq(S) /\ Len(b) = Len(s) - k + 1 /\ \A j \in 1..Len(s) - k + 1 : b[j] = s[k + j - 1]
  BY <1>0, SubSeqProperties
<1>3. <<e>> \in Seq(S) /\ Len(<<e>>) = 1 /\ <<e>>[1] = e
  OBVIOUS
<1> HIDE DEF a, b
<1>4. /\ a \o <<e>> \in Seq(S) /\ Len(a \o <<e>>) = k
      /\ \A j \in 1..k : (a \o <<e>>)[j] = IF j < k THEN s[j] ELSE e
  BY <1>0, <1>1, <1>3, ConcatProperties
<1>5. /\ a \o <<e>> \o b \in Seq(S) /\ Len(a \o <<e>> \o b) = Len(s) + 1
      /\ \A j \in 1..Len(s) + 1 :
            (a \o <<e>> \o b)[j] = IF j < k THEN s[j] ELSE IF j = k THEN e ELSE s[j - 1]
  <2> DEFINE c == a \o <<e>>
  <2> HIDE DEF c
  <2>1. c \in Seq(S) /\ Len(c) = k /\ \A j \in 1..k : c[j] = IF j < k THEN s[j] ELSE e
    BY <1>4 DEF c
  <2>2. /\ c \o b \in Seq(S) /\ Len(c \o b) = Len(s) + 1
        /\ \A j \in 1..Len(s) + 1 : (c \o b)[j] = IF j <= k THEN c[j] ELSE b[j - k]
    <3>1. /\ c \o b \in Seq(S) /\ Len(c \o b) = Len(c) + Len(b)
          /\ \A j \in 1..Len(c) + Len(b) : (c \o b)[j] = IF j <= Len(c) THEN c[j] ELSE b[j - Len(c)]
      BY <1>2, <2>1, ConcatProperties
    <3>2. Len(c) + Len(b) = Len(s) + 1
      BY <1>0, <1>2, <2>1
    <3> QED BY <2>1, <3>1, <3>2
  <2>3. ASSUME NEW j \in 1..Len(s) + 1
        PROVE  (c \o b)[j] = IF j < k THEN s[j] ELSE IF j = k THEN e ELSE s[j - 1]
    <3>1. (c \o b)[j] = IF j <= k THEN c[j] ELSE b[j - k]
      BY <1>0, <2>2
    <3>2. CASE j <= k
      BY <2>1, <3>1, <3>2
    <3>3. CASE j > k
      <4>1. PICK i \in 1..Len(s) - k + 1 : j - k = i /\ k + i - 1 = j - 1
        BY <1>0, <3>3
      <4>2. b[i] = s[j - 1]
        BY <1>2, <4>1
      <4>3. ~(j <= k) /\ ~(j < k) /\ j # k
        BY <1>0, <3>3
      <4>4. (c \o b)[j] = b[i]
        BY <3>1, <4>1, <4>3
      <4> QED BY <4>2, <4>3, <4>4
    <3>4. j <= k \/ j > k
      BY <1>0
    <3> QED BY <3>2, <3>3, <3>4
  <2> QED BY <2>2, <2>3 DEF c
<1> QED BY <1>5 DEF Patching!InsertAt, a, b

LEMMA Removed ==
    ASSUME NEW S, NEW s \in Seq(S), NEW k \in 1..Len(s)
    PROVE  /\ Patching!RemoveAt(s, k) \in Seq(S) /\ Len(Patching!RemoveAt(s, k)) = Len(s) - 1
           /\ \A j \in 1..Len(s) - 1 : Patching!RemoveAt(s, k)[j] = IF j < k THEN s[j] ELSE s[j + 1]
<1> DEFINE a == SubSeq(s, 1, k - 1)  b == SubSeq(s, k + 1, Len(s))
<1>0. Len(s) \in Nat /\ \A j \in 1..Len(s) : s[j] \in S
  BY LenProperties, ElementOfSeq
<1>1. a \in Seq(S) /\ Len(a) = k - 1 /\ \A j \in 1..k - 1 : a[j] = s[j]
  BY <1>0, SubSeqProperties
<1>2. b \in Seq(S) /\ Len(b) = Len(s) - k /\ \A j \in 1..Len(s) - k : b[j] = s[k + j]
  <2>1. /\ b \in Seq(S) /\ Len(b) = IF k + 1 <= Len(s) THEN Len(s) - (k + 1) + 1 ELSE 0
        /\ \A j \in 1..Len(s) - (k + 1) + 1 : b[j] = s[k + 1 + j - 1]
    BY <1>0, SubSeqProperties
  <2> HIDE DEF b
  <2> QED BY <1>0, <2>1
<1> HIDE DEF a, b
<1>3. /\ a \o b \in Seq(S) /\ Len(a \o b) = Len(s) - 1
      /\ \A j \in 1..Len(s) - 1 : (a \o b)[j] = IF j < k THEN s[j] ELSE s[j + 1]
  <2>1. /\ a \o b \in Seq(S) /\ Len(a \o b) = Len(s) - 1
        /\ \A j \in 1..(k - 1) + (Len(s) - k) : (a \o b)[j] = IF j <= k - 1 THEN a[j] ELSE b[j - (k - 1)]
    BY <1>0, <1>1, <1>2, ConcatProperties
  <2>2. ASSUME NEW j \in 1..Len(s) - 1
        PROVE  (a \o b)[j] = IF j < k THEN s[j] ELSE s[j + 1]
    <3>1. (a \o b)[j] = IF j <= k - 1 THEN a[j] ELSE b[j - (k - 1)]
      BY <1>0, <2>1
    <3>2. CASE j < k
      BY <1>0, <1>1, <3>1, <3>2
    <3>3. CASE j >= k
      <4>1. PICK i \in 1..Len(s) - k : j - (k - 1) = i /\ k + i = j + 1
        BY <1>0, <3>3
      <4>2. b[i] = s[j + 1]
        BY <1>2, <4>1
      <4>3. ~(j <= k - 1) /\ ~(j < k)
        BY <1>0, <3>3
      <4>4. (a \o b)[j] = b[i]
        BY <3>1, <4>1, <4>3
      <4> QED BY <4>2, <4>3, <4>4
    <3>4. j < k \/ j >= k
      BY <1>0
    <3> QED BY <3>2, <3>3, <3>4
  <2> QED BY <2>1, <2>2
<1> QED BY <1>3 DEF Patching!RemoveAt, a, b

LEMMA SeqFacts ==
    ASSUME NEW S, NEW s \in Seq(S)
    PROVE  /\ Len(s) \in Nat /\ DOMAIN s = 1..Len(s)
           /\ \A j \in 1..Len(s) : s[j] \in S /\ s[j] \in Patching!ToSet(s)
           /\ \A e \in Patching!ToSet(s) : e \in S /\ \E j \in 1..Len(s) : s[j] = e
BY LenProperties, ElementOfSeq DEF Patching!ToSet

LEMMA BeforeIsOrder ==
    ASSUME NEW S, NEW s \in Seq(S), Patching!IsInjective(s)
    PROVE  /\ \A e, f : Patching!Before(s, e, f) => e \in Patching!ToSet(s) /\ f \in Patching!ToSet(s) /\ e # f /\ ~Patching!Before(s, f, e)
           /\ \A e, f, g : Patching!Before(s, e, f) /\ Patching!Before(s, f, g) => Patching!Before(s, e, g)
           /\ \A e, f \in Patching!ToSet(s) : e = f \/ Patching!Before(s, e, f) \/ Patching!Before(s, f, e)
<1> Len(s) \in Nat /\ DOMAIN s = 1..Len(s)
  BY SeqFacts
<1>1. ASSUME NEW i \in 1..Len(s), NEW j \in 1..Len(s), s[i] = s[j]
      PROVE  i = j
  BY <1>1 DEF Patching!IsInjective
<1>2. ASSUME NEW e, NEW f, Patching!Before(s, e, f)
      PROVE  e \in Patching!ToSet(s) /\ f \in Patching!ToSet(s) /\ e # f /\ ~Patching!Before(s, f, e)
  <2>1. PICK i \in 1..Len(s), j \in 1..Len(s) : i < j /\ s[i] = e /\ s[j] = f
    BY <1>2 DEF Patching!Before
  <2>2. e # f
    BY <2>1, <1>1
  <2>3. ASSUME Patching!Before(s, f, e) PROVE FALSE
    <3>1. PICK k \in 1..Len(s), l \in 1..Len(s) : k < l /\ s[k] = f /\ s[l] = e
      BY <2>3 DEF Patching!Before
    <3> QED BY <2>1, <3>1, <1>1
  <2> QED BY <2>1, <2>2, <2>3, SeqFacts
<1>3. ASSUME NEW e, NEW f, NEW g, Patching!Before(s, e, f), Patching!Before(s, f, g)
      PROVE  Patching!Before(s, e, g)
  <2>1. PICK i \in 1..Len(s), j \in 1..Len(s) : i < j /\ s[i] = e /\ s[j] = f
    BY <1>3 DEF Patching!Before
  <2>2. PICK k \in 1..Len(s), l \in 1..Len(s) : k < l /\ s[k] = f /\ s[l] = g
    BY <1>3 DEF Patching!Before
  <2>3. j = k
    BY <2>1, <2>2, <1>1
  <2> QED BY <2>1, <2>2, <2>3 DEF Patching!Before
<1>4. ASSUME NEW e \in Patching!ToSet(s), NEW f \in Patching!ToSet(s), e # f
      PROVE  Patching!Before(s, e, f) \/ Patching!Before(s, f, e)
  <2>1. PICK i \in 1..Len(s), j \in 1..Len(s) : s[i] = e /\ s[j] = f
    BY SeqFacts
  <2>2. i < j \/ j < i
    BY <1>4, <2>1
  <2> QED BY <2>1, <2>2 DEF Patching!Before
<1> QED BY <1>2, <1>3, <1>4

LEMMA PositionIs ==
    ASSUME NEW S, NEW s \in Seq(S), NEW e \in Patching!ToSet(s)
    PROVE  Patching!Position(s, e) \in 1..Len(s) /\ s[Patching!Position(s, e)] = e
BY SeqFacts DEF Patching!Position

\* An element taken out leaves the others as they were.
LEMMA TakenOut ==
    ASSUME NEW S, NEW s \in Seq(S), Patching!IsInjective(s), NEW e
    PROVE  /\ Patching!Without(s, e) \in Seq(S) /\ Patching!IsInjective(Patching!Without(s, e))
           /\ Patching!ToSet(Patching!Without(s, e)) = Patching!ToSet(s) \ {e}
           /\ \A f, g : Patching!Before(Patching!Without(s, e), f, g) <=> f # e /\ g # e /\ Patching!Before(s, f, g)
<1>1. CASE e \notin Patching!ToSet(s)
  BY <1>1, BeforeIsOrder DEF Patching!Without
<1>2. CASE e \in Patching!ToSet(s)
  <2> DEFINE k == Patching!Position(s, e)  t == Patching!RemoveAt(s, k)
  <2>1. k \in 1..Len(s) /\ s[k] = e
    BY <1>2, PositionIs
  <2> HIDE DEF k
  <2>2. /\ t \in Seq(S) /\ Len(t) = Len(s) - 1
        /\ \A j \in 1..Len(s) - 1 : t[j] = IF j < k THEN s[j] ELSE s[j + 1]
    BY <2>1, Removed
  <2>3. Patching!Without(s, e) = t
    BY <1>2 DEF Patching!Without, k
  <2> HIDE DEF t
  <2>4. /\ Len(s) \in Nat /\ DOMAIN s = 1..Len(s) /\ DOMAIN t = 1..Len(s) - 1
        /\ \A i, j \in 1..Len(s) : s[i] = s[j] => i = j
    <3>1. Len(s) \in Nat /\ DOMAIN s = 1..Len(s)
      BY SeqFacts
    <3>2. DOMAIN t = 1..Len(t)
      BY <2>2, SeqFacts
    <3> QED BY <2>2, <3>1, <3>2 DEF Patching!IsInjective
  <2>5. Patching!IsInjective(t)
    BY <2>1, <2>2, <2>4 DEF Patching!IsInjective
  <2>6. ASSUME NEW j \in 1..Len(s), s[j] # e
        PROVE  \E i \in 1..Len(s) - 1 : t[i] = s[j] /\ i = IF j < k THEN j ELSE j - 1
    <3>1. j # k
      BY <2>1, <2>6
    <3>2. CASE j < k
      BY <2>1, <2>2, <2>4, <3>2
    <3>3. CASE j > k
      <4>1. j - 1 \in 1..Len(s) - 1 /\ ~(j - 1 < k) /\ j - 1 + 1 = j
        BY <2>1, <2>4, <3>3
      <4>2. t[j - 1] = s[j]
        BY <2>2, <4>1
      <4> QED BY <2>1, <3>3, <4>1, <4>2
    <3> QED BY <2>1, <2>4, <3>1, <3>2, <3>3
  <2>7. ASSUME NEW i \in 1..Len(s) - 1
        PROVE  \E j \in 1..Len(s) : t[i] = s[j] /\ s[j] # e /\ j = IF i < k THEN i ELSE i + 1
    BY <2>1, <2>2, <2>4
  <2>8. Patching!ToSet(t) = Patching!ToSet(s) \ {e}
    <3>1. Patching!ToSet(t) = {t[i] : i \in 1..Len(s) - 1} /\ Patching!ToSet(s) = {s[i] : i \in 1..Len(s)}
      BY <2>4 DEF Patching!ToSet
    <3>2. ASSUME NEW f PROVE f \in Patching!ToSet(t) <=> f \in Patching!ToSet(s) /\ f # e
      BY <2>6, <2>7, <3>1
    <3> QED BY <3>2
  <2>9. ASSUME NEW f, NEW g
        PROVE  Patching!Before(t, f, g) <=> f # e /\ g # e /\ Patching!Before(s, f, g)
    <3>1. ASSUME Patching!Before(t, f, g) PROVE f # e /\ g # e /\ Patching!Before(s, f, g)
      <4>1. PICK i \in 1..Len(s) - 1, j \in 1..Len(s) - 1 : i < j /\ t[i] = f /\ t[j] = g
        BY <2>4, <3>1 DEF Patching!Before
      <4>2. PICK a \in 1..Len(s) : f = s[a] /\ s[a] # e /\ a = IF i < k THEN i ELSE i + 1
        BY <2>7, <4>1
      <4>3. PICK b \in 1..Len(s) : g = s[b] /\ s[b] # e /\ b = IF j < k THEN j ELSE j + 1
        BY <2>7, <4>1
      <4>4. a < b
        BY <2>1, <4>1, <4>2, <4>3
      <4> QED BY <2>4, <4>2, <4>3, <4>4 DEF Patching!Before
    <3>2. ASSUME f # e, g # e, Patching!Before(s, f, g) PROVE Patching!Before(t, f, g)
      <4>1. PICK i \in 1..Len(s), j \in 1..Len(s) : i < j /\ s[i] = f /\ s[j] = g
        BY <2>4, <3>2 DEF Patching!Before
      <4>2. PICK a \in 1..Len(s) - 1 : t[a] = f /\ a = IF i < k THEN i ELSE i - 1
        BY <2>6, <3>2, <4>1
      <4>3. PICK b \in 1..Len(s) - 1 : t[b] = g /\ b = IF j < k THEN j ELSE j - 1
        BY <2>6, <3>2, <4>1
      <4>4. i # k /\ j # k
        BY <2>1, <3>2, <4>1
      <4>5. a < b
        BY <2>1, <4>1, <4>2, <4>3, <4>4
      <4> QED BY <2>4, <4>2, <4>3, <4>5 DEF Patching!Before
    <3> QED BY <3>1, <3>2
  <2> QED BY <2>2, <2>3, <2>5, <2>8, <2>9
<1> QED BY <1>1, <1>2

Spot(s, k, ref) ==
    /\ k \in 1..Len(s) + 1
    /\ ref = 0 => k = Len(s) + 1
    /\ ref # 0 => k \in 1..Len(s) /\ s[k] = ref

\* An element put in at the place of ref, or at the end for 0, is behind those
\* before ref and before the others.
LEMMA PutIn ==
    ASSUME NEW S, NEW s \in Seq(S), Patching!IsInjective(s), NEW e \in S, e \notin Patching!ToSet(s), NEW k, NEW ref, Spot(s, k, ref)
    PROVE  /\ Patching!InsertAt(s, k, e) \in Seq(S) /\ Patching!IsInjective(Patching!InsertAt(s, k, e))
           /\ Patching!ToSet(Patching!InsertAt(s, k, e)) = Patching!ToSet(s) \cup {e}
           /\ \A f, g : f # e /\ g # e => (Patching!Before(Patching!InsertAt(s, k, e), f, g) <=> Patching!Before(s, f, g))
           /\ \A f \in Patching!ToSet(s) :
                 /\ ref = 0 \/ Patching!Before(s, f, ref) => Patching!Before(Patching!InsertAt(s, k, e), f, e)
                 /\ ref # 0 /\ (f = ref \/ Patching!Before(s, ref, f)) => Patching!Before(Patching!InsertAt(s, k, e), e, f)
<1> DEFINE t == Patching!InsertAt(s, k, e)
<1>0. /\ k \in 1..Len(s) + 1
      /\ ref = 0 => k = Len(s) + 1
      /\ ref # 0 => k \in 1..Len(s) /\ s[k] = ref
  BY DEF Spot
<1>1. /\ t \in Seq(S) /\ Len(t) = Len(s) + 1
      /\ \A j \in 1..Len(s) + 1 : t[j] = IF j < k THEN s[j] ELSE IF j = k THEN e ELSE s[j - 1]
  BY <1>0, Inserted
<1> HIDE DEF t
<1>2. /\ Len(s) \in Nat /\ DOMAIN s = 1..Len(s) /\ DOMAIN t = 1..Len(s) + 1
      /\ k \in 1..Len(s) + 1
      /\ \A i, j \in 1..Len(s) : s[i] = s[j] => i = j
      /\ \A j \in 1..Len(s) : s[j] # e
  <2>1. Len(s) \in Nat /\ DOMAIN s = 1..Len(s) /\ \A j \in 1..Len(s) : s[j] # e
    BY SeqFacts
  <2>2. DOMAIN t = 1..Len(t)
    BY <1>1, SeqFacts
  <2> QED BY <1>0, <1>1, <2>1, <2>2 DEF Patching!IsInjective
<1>3. t[k] = e
  BY <1>1, <1>2
<1>4. ASSUME NEW j \in 1..Len(s)
      PROVE  \E i \in 1..Len(s) + 1 : t[i] = s[j] /\ i = IF j < k THEN j ELSE j + 1
  <2>1. CASE j < k
    BY <1>1, <1>2, <2>1
  <2>2. CASE j >= k
    <3>1. j + 1 \in 1..Len(s) + 1 /\ ~(j + 1 < k) /\ j + 1 # k /\ j + 1 - 1 = j
      BY <1>2, <2>2
    <3>2. t[j + 1] = s[j]
      BY <1>1, <3>1
    <3> QED BY <1>2, <2>2, <3>1, <3>2
  <2>3. j < k \/ j >= k
    BY <1>2
  <2> QED BY <2>1, <2>2, <2>3
<1>5. ASSUME NEW i \in 1..Len(s) + 1, i # k
      PROVE  \E j \in 1..Len(s) : t[i] = s[j] /\ j = IF i < k THEN i ELSE i - 1
  BY <1>1, <1>2, <1>5
<1>6. ASSUME NEW i \in 1..Len(s) + 1, NEW j \in 1..Len(s) + 1, t[i] = t[j]
      PROVE  i = j
  <2>1. CASE i = k
    BY <1>2, <1>3, <1>5, <1>6, <2>1
  <2>2. CASE j = k
    BY <1>2, <1>3, <1>5, <1>6, <2>2
  <2>3. CASE i # k /\ j # k
    <3>1. PICK a \in 1..Len(s) : t[i] = s[a] /\ a = IF i < k THEN i ELSE i - 1
      BY <1>5, <2>3
    <3>2. PICK b \in 1..Len(s) : t[j] = s[b] /\ b = IF j < k THEN j ELSE j - 1
      BY <1>5, <2>3
    <3>3. a = b
      BY <1>2, <1>6, <3>1, <3>2
    <3> QED BY <1>2, <2>3, <3>1, <3>2, <3>3
  <2> QED BY <2>1, <2>2, <2>3
<1>7. Patching!IsInjective(t)
  BY <1>2, <1>6 DEF Patching!IsInjective
<1>8. Patching!ToSet(t) = Patching!ToSet(s) \cup {e}
  <2>1. Patching!ToSet(t) = {t[i] : i \in 1..Len(s) + 1} /\ Patching!ToSet(s) = {s[i] : i \in 1..Len(s)}
    BY <1>2 DEF Patching!ToSet
  <2>2. ASSUME NEW f PROVE f \in Patching!ToSet(t) <=> f \in Patching!ToSet(s) \/ f = e
    <3>1. f \in Patching!ToSet(t) => f \in Patching!ToSet(s) \/ f = e
      BY <1>3, <1>5, <2>1
    <3>2. f \in Patching!ToSet(s) => f \in Patching!ToSet(t)
      BY <1>4, <2>1
    <3>3. e \in Patching!ToSet(t)
      BY <1>2, <1>3, <2>1
    <3> QED BY <3>1, <3>2, <3>3
  <2> QED BY <2>2
<1>9. ASSUME NEW f, NEW g, f # e, g # e
      PROVE  Patching!Before(t, f, g) <=> Patching!Before(s, f, g)
  <2>1. ASSUME Patching!Before(t, f, g) PROVE Patching!Before(s, f, g)
    <3>1. PICK i \in 1..Len(s) + 1, j \in 1..Len(s) + 1 : i < j /\ t[i] = f /\ t[j] = g
      BY <1>2, <2>1 DEF Patching!Before
    <3>2. i # k /\ j # k
      BY <1>3, <1>9, <3>1
    <3>3. PICK a \in 1..Len(s) : f = s[a] /\ a = IF i < k THEN i ELSE i - 1
      BY <1>5, <3>1, <3>2
    <3>4. PICK b \in 1..Len(s) : g = s[b] /\ b = IF j < k THEN j ELSE j - 1
      BY <1>5, <3>1, <3>2
    <3>5. a < b
      BY <1>2, <3>1, <3>2, <3>3, <3>4
    <3> QED BY <1>2, <3>3, <3>4, <3>5 DEF Patching!Before
  <2>2. ASSUME Patching!Before(s, f, g) PROVE Patching!Before(t, f, g)
    <3>1. PICK i \in 1..Len(s), j \in 1..Len(s) : i < j /\ s[i] = f /\ s[j] = g
      BY <1>2, <2>2 DEF Patching!Before
    <3>2. PICK a \in 1..Len(s) + 1 : t[a] = f /\ a = IF i < k THEN i ELSE i + 1
      BY <1>4, <3>1
    <3>3. PICK b \in 1..Len(s) + 1 : t[b] = g /\ b = IF j < k THEN j ELSE j + 1
      BY <1>4, <3>1
    <3>4. a < b
      BY <1>2, <3>1, <3>2, <3>3
    <3> QED BY <1>2, <3>2, <3>3, <3>4 DEF Patching!Before
  <2> QED BY <2>1, <2>2
<1>10. ASSUME NEW j \in 1..Len(s)
       PROVE  (j < k => Patching!Before(t, s[j], e)) /\ (j >= k => Patching!Before(t, e, s[j]))
  <2>1. PICK a \in 1..Len(s) + 1 : t[a] = s[j] /\ a = IF j < k THEN j ELSE j + 1
    BY <1>4
  <2>3. /\ a < k => Patching!Before(t, s[j], e)
        /\ k < a => Patching!Before(t, e, s[j])
    BY <1>2, <1>3, <2>1 DEF Patching!Before
  <2>4. (a < k <=> j < k) /\ (k < a <=> j >= k)
    BY <1>2, <2>1
  <2> QED BY <2>3, <2>4
<1>11. ASSUME NEW f \in Patching!ToSet(s)
       PROVE  /\ ref = 0 \/ Patching!Before(s, f, ref) => Patching!Before(t, f, e)
              /\ ref # 0 /\ (f = ref \/ Patching!Before(s, ref, f)) => Patching!Before(t, e, f)
  <2>1. PICK j \in 1..Len(s) : s[j] = f
    BY SeqFacts
  <2>2. (j < k => Patching!Before(t, f, e)) /\ (j >= k => Patching!Before(t, e, f))
    BY <1>10, <2>1
  <2>3. ref = 0 => j < k
    BY <1>0, <1>2, <2>1
  <2>4. ASSUME ref # 0, Patching!Before(s, f, ref) PROVE j < k
    <3>1. PICK a \in 1..Len(s), b \in 1..Len(s) : a < b /\ s[a] = f /\ s[b] = ref
      BY <1>2, <2>4 DEF Patching!Before
    <3>2. a = j /\ b = k
      BY <1>0, <1>2, <2>1, <2>4, <3>1
    <3> QED BY <3>1, <3>2
  <2>5. ASSUME ref # 0, f = ref PROVE j >= k
    BY <1>0, <1>2, <2>1, <2>5
  <2>6. ASSUME ref # 0, Patching!Before(s, ref, f) PROVE j >= k
    <3>1. PICK a \in 1..Len(s), b \in 1..Len(s) : a < b /\ s[a] = ref /\ s[b] = f
      BY <1>2, <2>6 DEF Patching!Before
    <3>2. b = j /\ a = k
      BY <1>0, <1>2, <2>1, <2>6, <3>1
    <3> QED BY <1>2, <3>1, <3>2
  <2> QED BY <2>2, <2>3, <2>4, <2>5, <2>6
<1> QED BY <1>1, <1>7, <1>8, <1>9, <1>11 DEF t

Puts(s, elm, ref, t) ==
    LET rest == Patching!Without(s, elm)
    IN  t = Patching!InsertAt(rest, IF ref = 0 THEN Len(rest) + 1 ELSE Patching!Position(rest, ref), elm)

\* insertBefore, of an element that is new or elsewhere.
LEMMA PutBefore ==
    ASSUME NEW S, NEW s \in Seq(S), Patching!IsInjective(s), NEW elm \in S,
           NEW ref, ref = 0 \/ (ref \in Patching!ToSet(s) /\ ref # elm),
           NEW t, Puts(s, elm, ref, t)
    PROVE  /\ t \in Seq(S) /\ Patching!IsInjective(t) /\ Patching!ToSet(t) = Patching!ToSet(s) \cup {elm}
           /\ \A f, g : f # elm /\ g # elm => (Patching!Before(t, f, g) <=> Patching!Before(s, f, g))
           /\ \A f \in Patching!ToSet(s) :
                 f # elm => /\ ref = 0 \/ Patching!Before(s, f, ref) => Patching!Before(t, f, elm)
                            /\ ref # 0 /\ (f = ref \/ Patching!Before(s, ref, f)) => Patching!Before(t, elm, f)
<1> DEFINE r == Patching!Without(s, elm)  k == IF ref = 0 THEN Len(r) + 1 ELSE Patching!Position(r, ref)
<1>0. t = Patching!InsertAt(r, k, elm) /\ k = IF ref = 0 THEN Len(r) + 1 ELSE Patching!Position(r, ref)
  BY DEF Puts
<1>1. /\ r \in Seq(S) /\ Patching!IsInjective(r) /\ Patching!ToSet(r) = Patching!ToSet(s) \ {elm}
      /\ \A f, g : Patching!Before(r, f, g) <=> f # elm /\ g # elm /\ Patching!Before(s, f, g)
  BY TakenOut
<1> HIDE DEF r, k
<1>2. elm \notin Patching!ToSet(r) /\ (ref # 0 => ref \in Patching!ToSet(r))
  BY <1>1
<1>3. Len(r) \in Nat
  BY <1>1, SeqFacts
<1>4. ref # 0 => k \in 1..Len(r) /\ r[k] = ref
  BY <1>0, <1>1, <1>2, PositionIs
<1>5. Spot(r, k, ref)
  <2>1. CASE ref = 0
    <3>1. k = Len(r) + 1
      BY <1>0, <2>1
    <3>2. k \in 1..Len(r) + 1
      BY ONLY <1>3, <3>1
    <3> QED BY <2>1, <3>1, <3>2 DEF Spot
  <2>2. CASE ref # 0
    <3>1. k \in 1..Len(r) /\ k \in 1..Len(r) + 1
      BY ONLY <1>3, <1>4, <2>2
    <3> QED BY <1>4, <2>2, <3>1 DEF Spot
  <2> QED BY <2>1, <2>2
<1>6. /\ t \in Seq(S) /\ Patching!IsInjective(t) /\ Patching!ToSet(t) = Patching!ToSet(r) \cup {elm}
      /\ \A f, g : f # elm /\ g # elm => (Patching!Before(t, f, g) <=> Patching!Before(r, f, g))
      /\ \A f \in Patching!ToSet(r) :
            /\ ref = 0 \/ Patching!Before(r, f, ref) => Patching!Before(t, f, elm)
            /\ ref # 0 /\ (f = ref \/ Patching!Before(r, ref, f)) => Patching!Before(t, elm, f)
  <2>1. r \in Seq(S) /\ Patching!IsInjective(r)
    BY <1>1
  <2> QED BY <1>0, <1>2, <1>5, <2>1, PutIn
<1>7. Patching!ToSet(t) = Patching!ToSet(s) \cup {elm}
  BY <1>1, <1>6
<1>8. ASSUME NEW f, NEW g, f # elm, g # elm
      PROVE  Patching!Before(t, f, g) <=> Patching!Before(s, f, g)
  BY <1>1, <1>6, <1>8
<1>9. ASSUME NEW f \in Patching!ToSet(s), f # elm
      PROVE  /\ ref = 0 \/ Patching!Before(s, f, ref) => Patching!Before(t, f, elm)
             /\ ref # 0 /\ (f = ref \/ Patching!Before(s, ref, f)) => Patching!Before(t, elm, f)
  <2>1. f \in Patching!ToSet(r)
    BY <1>1, <1>9
  <2>2. ref # 0 => ref # elm
    OBVIOUS
  <2>3. ref # 0 => (Patching!Before(s, f, ref) => Patching!Before(r, f, ref)) /\ (Patching!Before(s, ref, f) => Patching!Before(r, ref, f))
    BY <1>1, <1>9, <2>2
  <2>4. Patching!Before(t, f, elm) \/ ~(ref = 0 \/ Patching!Before(r, f, ref))
    BY <1>6, <2>1
  <2>5. Patching!Before(t, elm, f) \/ ~(ref # 0 /\ (f = ref \/ Patching!Before(r, ref, f)))
    BY <1>6, <2>1
  <2> QED BY <2>3, <2>4, <2>5
<1> QED BY <1>6, <1>7, <1>8, <1>9

\* What stands before the next sibling is the element and what is before it.
LEMMA NextIs ==
    ASSUME NEW S, dom \in Seq(S), Patching!IsInjective(dom), NEW e \in Patching!ToSet(dom)
    PROVE  \/ /\ Patching!NextSibling(e) = 0
              /\ \A f \in Patching!ToSet(dom) : f = e \/ Patching!Before(dom, f, e)
           \/ /\ Patching!NextSibling(e) \in Patching!ToSet(dom) /\ Patching!NextSibling(e) # e
              /\ \A f \in Patching!ToSet(dom) : Patching!Before(dom, f, Patching!NextSibling(e)) <=> f = e \/ Patching!Before(dom, f, e)
<1> DEFINE k == Patching!Position(dom, e)
<1>1. k \in 1..Len(dom) /\ dom[k] = e
  BY PositionIs
<1>2. Patching!NextSibling(e) = IF k = Len(dom) THEN 0 ELSE dom[k + 1]
  BY DEF Patching!NextSibling
<1> HIDE DEF k
<1>3. Len(dom) \in Nat
  BY SeqFacts
<1>9. DOMAIN dom = 1..Len(dom)
  BY SeqFacts
<1>8. \A i, j \in 1..Len(dom) : dom[i] = dom[j] => i = j
  BY <1>9 DEF Patching!IsInjective
<1>4. ASSUME NEW j \in 1..Len(dom), NEW l \in 1..Len(dom)
      PROVE  Patching!Before(dom, dom[j], dom[l]) <=> j < l
  BY <1>8, <1>9 DEF Patching!Before
<1>5. \A f \in Patching!ToSet(dom) : \E j \in 1..Len(dom) : dom[j] = f
  BY SeqFacts
<1>6. CASE k = Len(dom)
  <2>1. ASSUME NEW f \in Patching!ToSet(dom) PROVE f = e \/ Patching!Before(dom, f, e)
    <3>1. PICK j \in 1..Len(dom) : dom[j] = f
      BY <1>5
    <3>2. j = k \/ j < k
      BY <1>3, <1>6, <3>1
    <3> QED BY <1>1, <1>4, <3>1, <3>2
  <2> QED BY <1>2, <1>6, <2>1
<1>7. CASE k # Len(dom)
  <2>1. k + 1 \in 1..Len(dom) /\ k + 1 # k
    BY <1>1, <1>3, <1>7
  <2>2. Patching!NextSibling(e) = dom[k + 1]
    BY <1>2, <1>7
  <2>3. ASSUME NEW f \in Patching!ToSet(dom)
        PROVE  Patching!Before(dom, f, dom[k + 1]) <=> f = e \/ Patching!Before(dom, f, e)
    <3>1. PICK j \in 1..Len(dom) : dom[j] = f
      BY <1>5
    <3>2. Patching!Before(dom, f, dom[k + 1]) <=> j < k + 1
      BY <1>4, <2>1, <3>1
    <3>3. Patching!Before(dom, f, e) <=> j < k
      BY <1>1, <1>4, <3>1
    <3>4. f = e <=> j = k
      BY <1>1, <1>8, <3>1
    <3>5. j < k + 1 <=> j = k \/ j < k
      BY <1>1, <1>3, <3>1
    <3> QED BY <3>2, <3>3, <3>4, <3>5
  <2>4. dom[k + 1] # e /\ dom[k + 1] \in Patching!ToSet(dom)
    BY <1>1, <1>8, <2>1, SeqFacts
  <2> QED BY <2>2, <2>3, <2>4
<1> QED BY <1>6, <1>7
-----------------------------------------------------------------------------
(* The invariant.                                                            *)

\* The children that have their elements, before and after those that do not,
\* and the old children that are still to be matched.
Leading(new, a) == {i \in DOMAIN new : i < a.ns}
Trailing(new, a) == {i \in DOMAIN new : i > a.ne}
Standing(new, a) == Leading(new, a) \cup Trailing(new, a)
Waiting(old, a) == {o \in a.os..a.oe : old[o].elm # 0}

\* Those in front, those that wait and those at the back follow each other, and
\* with what is leaving they are all there is.
Ordered(old, new, a, d, gone) ==
    /\ \A i, j \in Standing(new, a) : i < j => Patching!Before(d, new[i].elm, new[j].elm)
    /\ \A o, p \in Waiting(old, a) : o < p => Patching!Before(d, old[o].elm, old[p].elm)
    /\ \A i \in Leading(new, a), o \in Waiting(old, a) : Patching!Before(d, new[i].elm, old[o].elm)
    /\ \A i \in Trailing(new, a), o \in Waiting(old, a) : Patching!Before(d, old[o].elm, new[i].elm)
    /\ Patching!ToSet(d) \ gone = {new[i].elm : i \in Standing(new, a)} \cup {old[o].elm : o \in Waiting(old, a)}

\* Elements are numbered by the rendering that made them.
Base == patches * MaxChildren
ByRendering ==
    /\ \A e \in Patching!ToSet(dom) : e <= Base \/ \E i \in Standing(newCh, at) : e = Base + i
    /\ \A i \in DOMAIN newCh : newCh[i].elm <= Base \/ (newCh[i].elm = Base + i /\ i \in Standing(newCh, at))
    /\ \A o \in DOMAIN oldCh : oldCh[o].elm <= Base

NotReached ==
    /\ \A n \in at.ns..at.ne : newCh[n].elm = 0
    /\ step = "idle" => oldCh = <<>> /\ at.os = 1 /\ at.oe = 0 /\ at.ns = 1 /\ at.ne = 0

TypeInv == Patching!TypeOK /\ NotReached /\ ByRendering

\* Keys of a list differ; an element is that of the child it was made for; an old
\* child that does not wait was matched, and one that waits is like no child with
\* a key that has its element.
KeysDiffer(list) ==
    \A i, j \in DOMAIN list : i # j => list[i].kind.key = None \/ list[i].kind.key # list[j].kind.key
OfItsKind(list, m) == \A i \in DOMAIN list : list[i].elm # 0 => m[list[i].elm] = list[i].kind
Matched(old, new, a) ==
    \A o \in DOMAIN old \ Waiting(old, a) :
        old[o].elm # 0 => \E j \in Standing(new, a) : new[j].kind = old[o].kind /\ new[j].elm = old[o].elm
Unmatched(old, new, a) ==
    \A o \in Waiting(old, a), j \in Standing(new, a) : new[j].kind.key # None => new[j].kind # old[o].kind
SameElement(old, new, a) ==
    \A o \in DOMAIN old \ Waiting(old, a), j \in Standing(new, a) :
        old[o].elm # 0 /\ new[j].kind = old[o].kind /\ new[j].kind.key # None => new[j].elm = old[o].elm
Keyed ==
    /\ KeysDiffer(oldCh) /\ KeysDiffer(newCh)
    /\ OfItsKind(oldCh, elements) /\ OfItsKind(newCh, elements)
    /\ at.ns <= at.ne => Matched(oldCh, newCh, at)
    /\ Unmatched(oldCh, newCh, at)
    /\ SameElement(oldCh, newCh, at)

-----------------------------------------------------------------------------
(* What a step does to the order.                                            *)

\* A child n gets the element x, at the front of those without or at their back.
Taking(old, new, a, gone, old2, new2, a2, d, e, n, x) ==
    /\ Standing(new2, a2) = Standing(new, a) \cup {n} /\ n \notin Standing(new, a)
    /\ \/ Leading(new2, a2) = Leading(new, a) \cup {n} /\ Trailing(new2, a2) = Trailing(new, a)
       \/ Leading(new2, a2) = Leading(new, a) /\ Trailing(new2, a2) = Trailing(new, a) \cup {n}
    /\ \A i \in Standing(new, a) : new2[i].elm = new[i].elm
    /\ new2[n].elm = x
    /\ Waiting(old2, a2) = {o \in Waiting(old, a) : old[o].elm # x}
    /\ \A o \in Waiting(old2, a2) : old2[o].elm = old[o].elm
    /\ x \notin gone /\ Patching!ToSet(e) = Patching!ToSet(d) \cup {x}
    /\ \A f, g : f # x /\ g # x => (Patching!Before(e, f, g) <=> Patching!Before(d, f, g))
    /\ ~(n < n)
    /\ \A i \in Leading(new, a) : ~(n < i) /\ Patching!Before(e, new[i].elm, x)
    /\ \A i \in Trailing(new, a) : ~(i < n) /\ Patching!Before(e, x, new[i].elm)
    /\ n \in Leading(new2, a2) => \A o \in Waiting(old2, a2) : Patching!Before(e, x, old[o].elm)
    /\ n \in Trailing(new2, a2) => \A o \in Waiting(old2, a2) : Patching!Before(e, old[o].elm, x)

LEMMA TakesPlace ==
    ASSUME NEW S, NEW d \in Seq(S), Patching!IsInjective(d), NEW e \in Seq(S), Patching!IsInjective(e),
           NEW old, NEW new, NEW a, NEW gone, Ordered(old, new, a, d, gone),
           NEW old2, NEW new2, NEW a2, NEW n, NEW x,
           Taking(old, new, a, gone, old2, new2, a2, d, e, n, x)
    PROVE  Ordered(old2, new2, a2, e, gone)
<1> DEFINE F == Leading(new, a)  B == Trailing(new, a)  F2 == Leading(new2, a2)  B2 == Trailing(new2, a2)
           G == Standing(new, a)  G2 == Standing(new2, a2)  W == Waiting(old, a)  W2 == Waiting(old2, a2)
<1>1. G = F \cup B /\ G2 = F2 \cup B2
  BY DEF Standing
<1>2. /\ \A i, j \in G : i < j => Patching!Before(d, new[i].elm, new[j].elm)
      /\ \A o, p \in W : o < p => Patching!Before(d, old[o].elm, old[p].elm)
      /\ \A i \in F, o \in W : Patching!Before(d, new[i].elm, old[o].elm)
      /\ \A i \in B, o \in W : Patching!Before(d, old[o].elm, new[i].elm)
      /\ Patching!ToSet(d) \ gone = {new[i].elm : i \in G} \cup {old[o].elm : o \in W}
  BY DEF Ordered
<1> HIDE DEF F, B, F2, B2, G, G2, W, W2
<1>3. /\ \A f, g : f # x /\ g # x => (Patching!Before(e, f, g) <=> Patching!Before(d, f, g))
      /\ x \notin gone /\ Patching!ToSet(e) = Patching!ToSet(d) \cup {x} /\ ~(n < n)
  BY DEF Taking
<1>4. /\ G2 = G \cup {n} /\ n \notin G /\ new2[n].elm = x
      /\ (F2 = F \cup {n} /\ B2 = B) \/ (F2 = F /\ B2 = B \cup {n})
      /\ \A i \in G : new2[i].elm = new[i].elm
      /\ W2 = {o \in W : old[o].elm # x} /\ \A o \in W2 : old2[o].elm = old[o].elm
  BY DEF F, B, F2, B2, G, G2, W, W2, Taking
<1>5. /\ \A i \in F : ~(n < i) /\ Patching!Before(e, new[i].elm, x)
      /\ \A i \in B : ~(i < n) /\ Patching!Before(e, x, new[i].elm)
      /\ n \in F2 => \A o \in W2 : Patching!Before(e, x, old[o].elm)
      /\ n \in B2 => \A o \in W2 : Patching!Before(e, old[o].elm, x)
  BY DEF F, B, F2, B2, W2, Taking
<1>6. \A i \in G : new[i].elm # x
  <2>1. \A f, g : Patching!Before(e, f, g) => f # g
    BY BeforeIsOrder
  <2> QED BY <1>1, <1>5, <2>1
<1>7. ASSUME NEW i \in G2, NEW j \in G2, i < j
      PROVE  Patching!Before(e, new2[i].elm, new2[j].elm)
  <2>1. CASE i \in G /\ j \in G
    BY <1>2, <1>3, <1>4, <1>6, <1>7, <2>1
  <2>2. CASE i = n
    <3>1. j # n
      BY <1>3, <1>7, <2>2
    <3> QED BY <1>1, <1>4, <1>5, <1>7, <2>2, <3>1
  <2>3. CASE j = n
    <3>1. i # n
      BY <1>3, <1>7, <2>3
    <3> QED BY <1>1, <1>4, <1>5, <1>7, <2>3, <3>1
  <2> QED BY <1>4, <2>1, <2>2, <2>3
<1>8. \A o, p \in W2 : o < p => Patching!Before(e, old2[o].elm, old2[p].elm)
  BY <1>2, <1>3, <1>4
<1>9. ASSUME NEW i \in F2, NEW o \in W2
      PROVE  Patching!Before(e, new2[i].elm, old2[o].elm)
  <2>1. old2[o].elm = old[o].elm /\ old[o].elm # x /\ o \in W
    BY <1>4
  <2>2. CASE i = n
    BY <1>4, <1>5, <2>1, <2>2
  <2>3. CASE i # n
    <3>1. i \in F /\ i \in G
      BY <1>1, <1>4, <2>3
    <3> QED BY <1>2, <1>3, <1>4, <1>6, <2>1, <3>1
  <2> QED BY <2>2, <2>3
<1>10. ASSUME NEW i \in B2, NEW o \in W2
       PROVE  Patching!Before(e, old2[o].elm, new2[i].elm)
  <2>1. old2[o].elm = old[o].elm /\ old[o].elm # x /\ o \in W
    BY <1>4
  <2>2. CASE i = n
    BY <1>4, <1>5, <2>1, <2>2
  <2>3. CASE i # n
    <3>1. i \in B /\ i \in G
      BY <1>1, <1>4, <2>3
    <3> QED BY <1>2, <1>3, <1>4, <1>6, <2>1, <3>1
  <2> QED BY <2>2, <2>3
<1>11. Patching!ToSet(e) \ gone = {new2[i].elm : i \in G2} \cup {old2[o].elm : o \in W2}
  <2>1. ASSUME NEW f, f \in Patching!ToSet(e) \ gone
        PROVE  f \in {new2[i].elm : i \in G2} \cup {old2[o].elm : o \in W2}
    <3>1. CASE f = x
      BY <1>3, <1>4, <3>1
    <3>2. CASE f # x
      <4>1. f \in Patching!ToSet(d) \ gone
        BY <1>3, <2>1, <3>2
      <4>2. (\E i \in G : f = new[i].elm) \/ (\E o \in W : f = old[o].elm)
        BY <1>2, <4>1
      <4> QED BY <1>4, <3>2, <4>2
    <3> QED BY <3>1, <3>2
  <2>2. ASSUME NEW i \in G2 PROVE new2[i].elm \in Patching!ToSet(e) \ gone
    <3>1. CASE i = n
      BY <1>3, <1>4, <3>1
    <3>2. CASE i # n
      BY <1>2, <1>3, <1>4, <3>2
    <3> QED BY <3>1, <3>2
  <2>3. ASSUME NEW o \in W2 PROVE old2[o].elm \in Patching!ToSet(e) \ gone
    BY <1>2, <1>3, <1>4
  <2> QED BY <2>1, <2>2, <2>3
<1> QED BY <1>7, <1>8, <1>9, <1>10, <1>11 DEF Ordered, F2, B2, G2, W2

-----------------------------------------------------------------------------
(* Types.                                                                    *)

LEMMA BaseType ==
    ASSUME Patching!TypeOK
    PROVE  /\ Base \in Nat /\ \A n \in 1..MaxChildren : Base + n \in Patching!Elements
           /\ patches < MaxPatches => (patches + 1) * MaxChildren = Base + MaxChildren
           /\ \A e \in Patching!Elements : e \in Nat /\ e # 0
<1>1. patches \in Nat /\ patches <= MaxPatches /\ MaxPatches \in Nat /\ MaxChildren \in Nat
  BY LibraryBounds DEF Patching!TypeOK
<1>2. Base \in Nat /\ (patches + 1) * MaxChildren = Base + MaxChildren
  BY <1>1 DEF Base
<1>3. (MaxPatches + 1) * MaxChildren \in Nat /\ Base + MaxChildren <= (MaxPatches + 1) * MaxChildren
  <2>1. PICK m \in Nat : MaxPatches + 1 = patches + 1 + m
    BY <1>1
  <2>2. (MaxPatches + 1) * MaxChildren = (patches + 1) * MaxChildren + m * MaxChildren
    BY <1>1, <2>1
  <2>3. m * MaxChildren \in Nat
    BY <1>1
  <2> QED BY <1>1, <1>2, <2>2, <2>3
<1> QED BY <1>1, <1>2, <1>3 DEF Patching!Elements

LEMMA TypeFacts ==
    ASSUME Patching!TypeOK
    PROVE  /\ Len(newCh) \in Nat /\ Len(oldCh) \in Nat /\ Len(newCh) <= MaxChildren
           /\ DOMAIN newCh = 1..Len(newCh) /\ DOMAIN oldCh = 1..Len(oldCh)
           /\ at.os \in Nat /\ at.oe \in Nat /\ at.ns \in Nat /\ at.ne \in Nat
           /\ 1 <= at.os /\ at.os <= at.oe + 1 /\ at.oe <= Len(oldCh)
           /\ 1 <= at.ns /\ at.ns <= at.ne + 1 /\ at.ne <= Len(newCh)
           /\ \A i \in DOMAIN newCh : newCh[i] \in Patching!Vnodes
           /\ \A o \in DOMAIN oldCh : oldCh[o] \in Patching!Vnodes \cup {Patching!Undefined}
<1>1. /\ Len(newCh) \in Nat /\ DOMAIN newCh = 1..Len(newCh) /\ \A i \in DOMAIN newCh : newCh[i] \in Patching!Vnodes
      /\ Len(oldCh) \in Nat /\ DOMAIN oldCh = 1..Len(oldCh)
      /\ \A o \in DOMAIN oldCh : oldCh[o] \in Patching!Vnodes \cup {Patching!Undefined}
  <2>1. newCh \in Seq(Patching!Vnodes) /\ oldCh \in Seq(Patching!Vnodes \cup {Patching!Undefined})
    BY DEF Patching!TypeOK
  <2> QED BY <2>1, LenProperties, ElementOfSeq
<1>2. /\ at.oe \in 0..Len(oldCh) /\ at.ne \in 0..Len(newCh)
      /\ at.os \in 1..at.oe + 1 /\ at.ns \in 1..at.ne + 1 /\ Len(newCh) <= MaxChildren
  BY DEF Patching!TypeOK
<1>3. at.oe \in Nat /\ at.ne \in Nat /\ at.oe <= Len(oldCh) /\ at.ne <= Len(newCh)
  BY ONLY <1>1, <1>2
<1>4. /\ at.os \in Nat /\ at.ns \in Nat /\ 1 <= at.os /\ at.os <= at.oe + 1
      /\ 1 <= at.ns /\ at.ns <= at.ne + 1
  BY ONLY <1>2, <1>3
<1> QED BY ONLY <1>1, <1>2, <1>3, <1>4

\* The element of a vnode, in a list that is one of the types.
LEMMA ElmType ==
    ASSUME Patching!TypeOK
    PROVE  /\ \A i \in DOMAIN newCh : newCh[i].elm \in Patching!Elements \cup {0} /\ newCh[i].kind \in ListKinds
           /\ \A o \in DOMAIN oldCh : /\ oldCh[o].elm \in Patching!Elements \cup {0}
                                      /\ oldCh[o].elm # 0 => oldCh[o] \in Patching!Vnodes
BY TypeFacts DEF Patching!Vnodes, Patching!Undefined

GetsElm(new, new2, n, x) == new2 = [new EXCEPT ![n].elm = x]
LEMMA ElmSet ==
    ASSUME NEW new \in Seq(Patching!Vnodes), NEW n \in 1..Len(new), NEW x \in Patching!Elements,
           NEW new2, GetsElm(new, new2, n, x)
    PROVE  /\ new2 \in Seq(Patching!Vnodes) /\ Len(new2) = Len(new) /\ DOMAIN new2 = DOMAIN new
           /\ new2[n].elm = x /\ \A i \in DOMAIN new : new2[i].kind = new[i].kind
           /\ \A i \in DOMAIN new : i # n => new2[i] = new[i]
<1>1. Len(new) \in Nat /\ DOMAIN new = 1..Len(new)
  BY LenProperties
<1>2. \A i \in DOMAIN new : new[i] \in Patching!Vnodes
  BY <1>1, ElementOfSeq
<1>3. n \in DOMAIN new
  BY <1>1
<1>4. DOMAIN new2 = DOMAIN new /\ \A i \in DOMAIN new : i # n => new2[i] = new[i]
  BY DEF GetsElm
<1>5. new2[n] = [new[n] EXCEPT !.elm = x]
  BY <1>3 DEF GetsElm
<1>6. new2[n] \in Patching!Vnodes /\ new2[n].elm = x /\ new2[n].kind = new[n].kind
  BY <1>2, <1>3, <1>5 DEF Patching!Vnodes
<1>7. new2 = [i \in 1..Len(new) |-> new2[i]]
  BY <1>1 DEF GetsElm
<1>8. \A i \in 1..Len(new) : new2[i] \in Patching!Vnodes
  BY <1>1, <1>2, <1>4, <1>6
<1>9. new2 \in Seq(Patching!Vnodes) /\ Len(new2) = Len(new)
  <2>1. new2 \in [1..Len(new) -> Patching!Vnodes]
    BY <1>7, <1>8
  <2>2. new2 \in Seq(Patching!Vnodes)
    BY <1>1, <2>1, SeqDef
  <2> QED BY <1>1, <1>4, <2>2, LenProperties
<1> QED BY <1>4, <1>6, <1>9

\* newCh[n] gets the element x, and is out of what is left.
Gives(n, x) ==
    /\ at.ns <= at.ne /\ x \in Patching!Elements
    /\ newCh' = [newCh EXCEPT ![n].elm = x]
    /\ \/ n = at.ns /\ at'.ns = at.ns + 1 /\ at'.ne = at.ne
       \/ n = at.ne /\ at'.ns = at.ns /\ at'.ne = at.ne - 1

LEMMA GivesSets ==
    ASSUME Patching!TypeOK, NEW n, NEW x, Gives(n, x)
    PROVE  /\ n \in 1..Len(newCh) /\ n \in at.ns..at.ne
           /\ newCh' \in Seq(Patching!Vnodes) /\ Len(newCh') = Len(newCh) /\ DOMAIN newCh' = DOMAIN newCh
           /\ newCh'[n].elm = x /\ \A i \in DOMAIN newCh : newCh'[i].kind = newCh[i].kind
           /\ \A i \in DOMAIN newCh : i # n => newCh'[i] = newCh[i]
           /\ at'.ns \in 1..at'.ne + 1 /\ at'.ne \in 0..Len(newCh)
           /\ n \notin Standing(newCh, at) /\ Standing(newCh', at') = Standing(newCh, at) \cup {n}
           /\ \/ /\ n = at.ns /\ Leading(newCh', at') = Leading(newCh, at) \cup {n}
                 /\ Trailing(newCh', at') = Trailing(newCh, at) /\ n \notin Trailing(newCh', at')
              \/ /\ n = at.ne /\ Leading(newCh', at') = Leading(newCh, at)
                 /\ Trailing(newCh', at') = Trailing(newCh, at) \cup {n} /\ n \notin Leading(newCh', at')
           /\ \A i \in Leading(newCh, at) : ~(n < i)
           /\ \A i \in Trailing(newCh, at) : ~(i < n)
           /\ ~(n < n)
<1>1. /\ Len(newCh) \in Nat /\ at.ns \in Nat /\ at.ne \in Nat
      /\ 1 <= at.ns /\ at.ns <= at.ne /\ at.ne <= Len(newCh)
  BY TypeFacts DEF Gives
<1>2. n \in 1..Len(newCh) /\ n \in at.ns..at.ne
  BY <1>1 DEF Gives
<1>3. newCh \in Seq(Patching!Vnodes) /\ DOMAIN newCh = 1..Len(newCh)
  BY TypeFacts DEF Patching!TypeOK
<1>4. /\ newCh' \in Seq(Patching!Vnodes) /\ Len(newCh') = Len(newCh) /\ DOMAIN newCh' = DOMAIN newCh
      /\ newCh'[n].elm = x /\ \A i \in DOMAIN newCh : newCh'[i].kind = newCh[i].kind
      /\ \A i \in DOMAIN newCh : i # n => newCh'[i] = newCh[i]
  <2>1. x \in Patching!Elements /\ GetsElm(newCh, newCh', n, x)
    BY DEF Gives, GetsElm
  <2> QED BY ONLY <1>2, <1>3, <2>1, ElmSet
<1>5. at'.ns \in 1..at'.ne + 1 /\ at'.ne \in 0..Len(newCh)
  BY <1>1 DEF Gives
<1>6. /\ n \notin Standing(newCh, at)
      /\ \A i \in Leading(newCh, at) : ~(n < i)
      /\ \A i \in Trailing(newCh, at) : ~(i < n)
      /\ ~(n < n)
  BY <1>1, <1>2, <1>3 DEF Standing, Leading, Trailing
<1>7. CASE n = at.ns /\ at'.ns = at.ns + 1 /\ at'.ne = at.ne
  <2>1. Leading(newCh', at') = Leading(newCh, at) \cup {n} /\ Trailing(newCh', at') = Trailing(newCh, at)
    BY <1>1, <1>2, <1>3, <1>4, <1>7 DEF Leading, Trailing
  <2>2. n \notin Trailing(newCh, at)
    BY <1>6 DEF Standing
  <2> QED BY <1>2, <1>4, <1>5, <1>6, <1>7, <2>1, <2>2 DEF Standing
<1>8. CASE n = at.ne /\ at'.ns = at.ns /\ at'.ne = at.ne - 1
  <2>1. Trailing(newCh', at') = Trailing(newCh, at) \cup {n} /\ Leading(newCh', at') = Leading(newCh, at)
    BY <1>1, <1>2, <1>3, <1>4, <1>8 DEF Leading, Trailing
  <2>2. n \notin Leading(newCh, at)
    BY <1>6 DEF Standing
  <2> QED BY <1>2, <1>4, <1>5, <1>6, <1>8, <2>1, <2>2 DEF Standing
<1> QED BY <1>7, <1>8 DEF Gives

LEMMA Placed ==
    ASSUME Patching!TypeOK, NEW x \in Patching!Elements, NEW ref, ref = 0 \/ (ref \in Patching!ToSet(dom) /\ ref # x), Patching!Place(x, ref)
    PROVE  /\ dom' \in Seq(Patching!Elements) /\ Patching!IsInjective(dom') /\ Patching!ToSet(dom') = Patching!ToSet(dom) \cup {x}
           /\ \A f, g : f # x /\ g # x => (Patching!Before(dom', f, g) <=> Patching!Before(dom, f, g))
           /\ \A f \in Patching!ToSet(dom) :
                 f # x => /\ ref = 0 \/ Patching!Before(dom, f, ref) => Patching!Before(dom', f, x)
                          /\ ref # 0 /\ (f = ref \/ Patching!Before(dom, ref, f)) => Patching!Before(dom', x, f)
<1>1. dom \in Seq(Patching!Elements) /\ Patching!IsInjective(dom)
  BY DEF Patching!TypeOK
<1>2. Puts(dom, x, ref, dom')
  BY DEF Patching!Place, Puts
<1> QED BY ONLY <1>1, <1>2, PutBefore, ref = 0 \/ (ref \in Patching!ToSet(dom) /\ ref # x), x \in Patching!Elements

LEMMA GivesTypes ==
    ASSUME TypeInv, step = "loop", NEW n, NEW x, Gives(n, x), x <= Base \/ x = Base + n,
           dom' \in Seq(Patching!Elements), Patching!IsInjective(dom'), Patching!ToSet(dom') = Patching!ToSet(dom) \cup {x},
           oldCh' \in Seq(Patching!Vnodes \cup {Patching!Undefined}), Len(oldCh') = Len(oldCh),
           \A o \in DOMAIN oldCh : oldCh'[o].elm = oldCh[o].elm \/ oldCh'[o].elm = 0,
           at'.os \in 1..at'.oe + 1, at'.oe \in 0..Len(oldCh),
           elements' \in [Patching!Elements -> ListKinds \cup {Patching!Undefined.kind}], UNCHANGED <<leaving, patches, step>>
    PROVE  TypeInv'
<1>1. Patching!TypeOK /\ NotReached /\ ByRendering
  BY DEF TypeInv
<1>2. /\ n \in at.ns..at.ne
      /\ newCh' \in Seq(Patching!Vnodes) /\ Len(newCh') = Len(newCh) /\ DOMAIN newCh' = DOMAIN newCh
      /\ newCh'[n].elm = x /\ \A i \in DOMAIN newCh : i # n => newCh'[i] = newCh[i]
      /\ at'.ns \in 1..at'.ne + 1 /\ at'.ne \in 0..Len(newCh)
      /\ Standing(newCh', at') = Standing(newCh, at) \cup {n}
  BY <1>1, GivesSets
<1>3. Patching!TypeOK'
  <2>1. leaving' \subseteq Patching!ToSet(dom') /\ patches' \in 0..MaxPatches /\ step' \in {"idle", "loop"}
    BY <1>1 DEF Patching!TypeOK
  <2>2. Len(oldCh') <= MaxChildren /\ Len(newCh') <= MaxChildren
    BY <1>1, <1>2 DEF Patching!TypeOK
  <2> QED BY <1>2, <2>1, <2>2 DEF Patching!TypeOK
<1>4. NotReached'
  <2>1. ASSUME NEW i \in at'.ns..at'.ne PROVE newCh'[i].elm = 0
    <3>1. /\ Len(newCh) \in Nat /\ at.ns \in Nat /\ at.ne \in Nat
          /\ 1 <= at.ns /\ at.ns <= at.ne /\ at.ne <= Len(newCh)
      BY <1>1, TypeFacts DEF Gives
    <3>2. i \in at.ns..at.ne /\ i # n /\ i \in 1..Len(newCh)
      BY <3>1 DEF Gives
    <3>3. i \in DOMAIN newCh
      BY <1>1, <3>2, TypeFacts
    <3> QED BY <1>1, <1>2, <3>2, <3>3 DEF NotReached
  <2>2. step' # "idle"
    OBVIOUS
  <2> QED BY <2>1, <2>2 DEF NotReached
<1>5. ByRendering'
  <2>1. Base' = Base
    BY DEF Base
  <2>2. ASSUME NEW e \in Patching!ToSet(dom')
        PROVE  e <= Base \/ \E i \in Standing(newCh', at') : e = Base + i
    BY <1>1, <1>2 DEF ByRendering
  <2>3. ASSUME NEW i \in DOMAIN newCh'
        PROVE  newCh'[i].elm <= Base \/ (newCh'[i].elm = Base + i /\ i \in Standing(newCh', at'))
    BY <1>1, <1>2 DEF ByRendering
  <2>4. \A o \in DOMAIN oldCh' : oldCh'[o].elm <= Base
    <3>1. DOMAIN oldCh' = 1..Len(oldCh') /\ DOMAIN oldCh = 1..Len(oldCh)
      BY <1>1, <1>3, LenProperties DEF Patching!TypeOK
    <3>2. DOMAIN oldCh' = DOMAIN oldCh
      BY <3>1
    <3>3. Base \in Nat
      BY <1>1, BaseType
    <3>4. \A o \in DOMAIN oldCh : oldCh[o].elm <= Base
      BY <1>1 DEF ByRendering
    <3> QED BY <3>2, <3>3, <3>4
  <2> QED BY <2>1, <2>2, <2>3, <2>4 DEF ByRendering
<1> QED BY <1>3, <1>4, <1>5 DEF TypeInv

\* The step keeps the order when x is behind what is in front and before the back.
LEMMA GivesOrder ==
    ASSUME Patching!TypeOK, Ordered(oldCh, newCh, at, dom, leaving), NEW n, NEW x, Gives(n, x),
           dom' \in Seq(Patching!Elements), Patching!IsInjective(dom'), Patching!ToSet(dom') = Patching!ToSet(dom) \cup {x},
           x \notin leaving, UNCHANGED leaving,
           \A f, g : f # x /\ g # x => (Patching!Before(dom', f, g) <=> Patching!Before(dom, f, g)),
           Waiting(oldCh', at') = {o \in Waiting(oldCh, at) : oldCh[o].elm # x},
           \A o \in Waiting(oldCh', at') : oldCh'[o].elm = oldCh[o].elm,
           \A i \in Leading(newCh, at) : Patching!Before(dom', newCh[i].elm, x),
           \A i \in Trailing(newCh, at) : Patching!Before(dom', x, newCh[i].elm),
           \/ n = at.ns /\ at'.ne = at.ne /\ \A o \in Waiting(oldCh', at') : Patching!Before(dom', x, oldCh[o].elm)
           \/ n = at.ne /\ at'.ns = at.ns /\ \A o \in Waiting(oldCh', at') : Patching!Before(dom', oldCh[o].elm, x)
    PROVE  Ordered(oldCh', newCh', at', dom', leaving')
<1>1. dom \in Seq(Patching!Elements) /\ Patching!IsInjective(dom)
  BY DEF Patching!TypeOK
<1>2. /\ newCh'[n].elm = x
      /\ n \notin Standing(newCh, at) /\ Standing(newCh', at') = Standing(newCh, at) \cup {n}
      /\ \A i \in DOMAIN newCh : i # n => newCh'[i] = newCh[i]
      /\ \/ Leading(newCh', at') = Leading(newCh, at) \cup {n} /\ Trailing(newCh', at') = Trailing(newCh, at)
         \/ Leading(newCh', at') = Leading(newCh, at) /\ Trailing(newCh', at') = Trailing(newCh, at) \cup {n}
      /\ \A i \in Leading(newCh, at) : ~(n < i)
      /\ \A i \in Trailing(newCh, at) : ~(i < n)
      /\ ~(n < n)
  BY GivesSets
<1>3. \A i \in Standing(newCh, at) : newCh'[i].elm = newCh[i].elm
  <2>1. Standing(newCh, at) \subseteq DOMAIN newCh
    BY DEF Standing, Leading, Trailing
  <2> QED BY <1>2, <2>1
<1>4. /\ Len(newCh) \in Nat /\ at.ns \in Nat /\ at.ne \in Nat
      /\ 1 <= at.ns /\ at.ns <= at.ne /\ at.ne <= Len(newCh)
  BY TypeFacts DEF Gives
<1>5. n \in Leading(newCh', at') => \A o \in Waiting(oldCh', at') : Patching!Before(dom', x, oldCh[o].elm)
  <2>1. n = at.ne /\ at'.ns = at.ns => n \notin Leading(newCh', at')
    BY <1>4 DEF Leading
  <2> QED BY <2>1
<1>6. n \in Trailing(newCh', at') => \A o \in Waiting(oldCh', at') : Patching!Before(dom', oldCh[o].elm, x)
  <2>1. n = at.ns /\ at'.ne = at.ne => n \notin Trailing(newCh', at')
    BY <1>4 DEF Trailing
  <2> QED BY <2>1
<1>7. Taking(oldCh, newCh, at, leaving, oldCh', newCh', at', dom, dom', n, x)
  BY <1>2, <1>3, <1>5, <1>6 DEF Taking
<1>8. Ordered(oldCh', newCh', at', dom', leaving)
  BY <1>1, <1>7, TakesPlace
<1> QED BY <1>8

-----------------------------------------------------------------------------
(* What a step does to the keys.                                             *)

LEMMA SameLists ==
    ASSUME Patching!TypeOK, NEW n, NEW x, Gives(n, x), KeysDiffer(newCh)
    PROVE  /\ KeysDiffer(newCh') /\ n \in DOMAIN newCh /\ n \notin Standing(newCh, at) /\ at.ns <= at.ne
           /\ Standing(newCh', at') = Standing(newCh, at) \cup {n}
           /\ Standing(newCh, at) \subseteq DOMAIN newCh /\ DOMAIN newCh' = DOMAIN newCh
           /\ newCh'[n].elm = x /\ newCh'[n].kind = newCh[n].kind
           /\ \A i \in DOMAIN newCh : i # n => newCh'[i] = newCh[i]
           /\ \A j \in Standing(newCh, at) : newCh'[j] = newCh[j]
           /\ \A j \in Standing(newCh, at) : newCh[j].kind.key # None => newCh[j].kind.key # newCh[n].kind.key
<1>1. /\ n \in 1..Len(newCh) /\ n \notin Standing(newCh, at) /\ DOMAIN newCh' = DOMAIN newCh
      /\ newCh'[n].elm = x /\ \A i \in DOMAIN newCh : newCh'[i].kind = newCh[i].kind
      /\ \A i \in DOMAIN newCh : i # n => newCh'[i] = newCh[i]
      /\ Standing(newCh', at') = Standing(newCh, at) \cup {n}
  BY GivesSets
<1>2. n \in DOMAIN newCh
  BY <1>1, TypeFacts
<1>3. Standing(newCh, at) \subseteq DOMAIN newCh
  BY DEF Standing, Leading, Trailing
<1>4. KeysDiffer(newCh')
  BY <1>1 DEF KeysDiffer
<1>5. \A j \in Standing(newCh, at) : newCh'[j] = newCh[j] /\ j # n /\ j \in DOMAIN newCh
  BY <1>1, <1>3
<1>6. \A j \in Standing(newCh, at) : newCh[j].kind.key # None => newCh[j].kind.key # newCh[n].kind.key
  BY <1>2, <1>5 DEF KeysDiffer
<1>7. at.ns <= at.ne
  BY DEF Gives
<1> QED BY <1>1, <1>2, <1>3, <1>4, <1>5, <1>6, <1>7

\* A child takes the element of one that waits and is like it.
LEMMA MatchKeeps ==
    ASSUME TypeInv, Keyed, NEW n, NEW p \in Waiting(oldCh, at), Gives(n, oldCh[p].elm),
           newCh[n].kind = oldCh[p].kind, UNCHANGED elements,
           Waiting(oldCh', at') = Waiting(oldCh, at) \ {p}, DOMAIN oldCh' = DOMAIN oldCh,
           \A o \in DOMAIN oldCh : o # p => oldCh'[o] = oldCh[o],
           oldCh'[p] = oldCh[p] \/ oldCh'[p] = Patching!Undefined
    PROVE  Keyed'
<1> DEFINE W == Waiting(oldCh, at)  G == Standing(newCh, at)
<1>1. Patching!TypeOK
  BY DEF TypeInv
<1>2. /\ KeysDiffer(oldCh) /\ KeysDiffer(newCh) /\ OfItsKind(oldCh, elements) /\ OfItsKind(newCh, elements)
      /\ at.ns <= at.ne => Matched(oldCh, newCh, at)
      /\ Unmatched(oldCh, newCh, at) /\ SameElement(oldCh, newCh, at)
  BY DEF Keyed
<1>3. /\ KeysDiffer(newCh') /\ n \in DOMAIN newCh /\ n \notin G /\ at.ns <= at.ne
      /\ Standing(newCh', at') = G \cup {n}
      /\ G \subseteq DOMAIN newCh /\ DOMAIN newCh' = DOMAIN newCh
      /\ newCh'[n].elm = oldCh[p].elm /\ newCh'[n].kind = newCh[n].kind
      /\ \A i \in DOMAIN newCh : i # n => newCh'[i] = newCh[i]
      /\ \A j \in G : newCh'[j] = newCh[j]
      /\ \A j \in G : newCh[j].kind.key # None => newCh[j].kind.key # newCh[n].kind.key
  BY <1>1, <1>2, SameLists
<1>4. W \subseteq DOMAIN oldCh
  <2>1. /\ DOMAIN oldCh = 1..Len(oldCh) /\ Len(oldCh) \in Nat /\ at.os \in Nat /\ at.oe \in Nat
        /\ 1 <= at.os /\ at.oe <= Len(oldCh)
    BY <1>1, TypeFacts
  <2> QED BY <2>1 DEF Waiting
<1>5. p \in W /\ oldCh[p].elm # 0 /\ p \in DOMAIN oldCh
  BY <1>4 DEF Waiting
<1>6. Waiting(oldCh', at') = W \ {p} /\ DOMAIN oldCh' = DOMAIN oldCh
  OBVIOUS
<1>7. \A o \in DOMAIN oldCh : oldCh'[o] = oldCh[o] \/ (o = p /\ oldCh'[o] = Patching!Undefined)
  BY <1>5
<1> HIDE DEF W, G
<1>8. Patching!Undefined.elm = 0 /\ Patching!Undefined.kind.key = None
  BY DEF Patching!Undefined
<1>9. KeysDiffer(oldCh')
  BY <1>2, <1>6, <1>7, <1>8 DEF KeysDiffer
<1>10. OfItsKind(oldCh', elements')
  BY <1>2, <1>6, <1>7, <1>8 DEF OfItsKind
<1>11. OfItsKind(newCh', elements')
  <2>1. elements'[newCh'[n].elm] = newCh'[n].kind
    BY <1>2, <1>3, <1>5 DEF OfItsKind
  <2> QED BY <1>2, <1>3, <2>1 DEF OfItsKind
<1>12. Matched(oldCh, newCh, at)
  BY <1>2, <1>3
<1>13. Matched(oldCh', newCh', at')
  <2>1. ASSUME NEW o \in DOMAIN oldCh' \ Waiting(oldCh', at'), oldCh'[o].elm # 0
        PROVE  \E j \in Standing(newCh', at') : newCh'[j].kind = oldCh'[o].kind /\ newCh'[j].elm = oldCh'[o].elm
    <3>1. oldCh'[o] = oldCh[o] /\ o \in DOMAIN oldCh /\ (o = p \/ o \in DOMAIN oldCh \ W)
      BY <1>6, <1>7, <1>8, <2>1
    <3>2. CASE o = p
      BY <1>3, <3>1, <3>2
    <3>3. CASE o \in DOMAIN oldCh \ W
      <4>1. PICK j \in G : newCh[j].kind = oldCh[o].kind /\ newCh[j].elm = oldCh[o].elm
        BY <1>12, <2>1, <3>1, <3>3 DEF Matched, W, G
      <4> QED BY <1>3, <3>1, <4>1
    <3> QED BY <3>1, <3>2, <3>3
  <2> QED BY <2>1 DEF Matched
<1>14. Unmatched(oldCh', newCh', at')
  <2>1. ASSUME NEW o \in Waiting(oldCh', at'), NEW j \in Standing(newCh', at'), newCh'[j].kind.key # None
        PROVE  newCh'[j].kind # oldCh'[o].kind
    <3>1. o \in W /\ o # p /\ o \in DOMAIN oldCh /\ oldCh'[o] = oldCh[o]
      BY <1>4, <1>6, <1>7
    <3>2. CASE j = n
      BY <1>2, <1>3, <1>5, <2>1, <3>1, <3>2 DEF KeysDiffer
    <3>3. CASE j \in G
      BY <1>2, <1>3, <2>1, <3>1, <3>3 DEF Unmatched, W, G
    <3> QED BY <1>3, <3>2, <3>3
  <2> QED BY <2>1 DEF Unmatched
<1>15. SameElement(oldCh', newCh', at')
  <2>1. ASSUME NEW o \in DOMAIN oldCh' \ Waiting(oldCh', at'), NEW j \in Standing(newCh', at'),
               oldCh'[o].elm # 0, newCh'[j].kind = oldCh'[o].kind, newCh'[j].kind.key # None
        PROVE  newCh'[j].elm = oldCh'[o].elm
    <3>1. oldCh'[o] = oldCh[o] /\ o \in DOMAIN oldCh /\ (o = p \/ o \in DOMAIN oldCh \ W)
      BY <1>6, <1>7, <1>8, <2>1
    <3>2. CASE o = p /\ j = n
      BY <1>3, <3>1, <3>2
    <3>3. CASE o = p /\ j \in G
      BY <1>2, <1>3, <1>5, <2>1, <3>1, <3>3 DEF Unmatched, W, G
    <3>4. CASE o \in DOMAIN oldCh \ W /\ j \in G
      BY <1>2, <1>3, <2>1, <3>1, <3>4 DEF SameElement, W, G
    <3>5. CASE o \in DOMAIN oldCh \ W /\ j = n
      <4>1. PICK i \in G : newCh[i].kind = oldCh[o].kind
        BY <1>12, <2>1, <3>1, <3>5 DEF Matched, W, G
      <4> QED BY <1>3, <2>1, <3>1, <3>5, <4>1
    <3> QED BY <1>3, <3>1, <3>2, <3>3, <3>4, <3>5
  <2> QED BY <2>1 DEF SameElement
<1> QED BY <1>3, <1>9, <1>10, <1>11, <1>13, <1>14, <1>15 DEF Keyed

\* A child gets an element of its own when no child that waits is like it.
LEMMA CreateElmKeeps ==
    ASSUME TypeInv, Keyed, NEW n, Gives(n, Base + n),
           elements' = [elements EXCEPT ![Base + n] = newCh[n].kind], UNCHANGED oldCh,
           Waiting(oldCh', at') = Waiting(oldCh, at),
           newCh[n].kind.key # None => \A o \in Waiting(oldCh, at) : oldCh[o].kind # newCh[n].kind
    PROVE  Keyed'
<1> DEFINE W == Waiting(oldCh, at)  G == Standing(newCh, at)
<1>1. Patching!TypeOK /\ ByRendering /\ Base \in Nat
  BY BaseType DEF TypeInv
<1>2. /\ KeysDiffer(oldCh) /\ KeysDiffer(newCh) /\ OfItsKind(oldCh, elements) /\ OfItsKind(newCh, elements)
      /\ at.ns <= at.ne => Matched(oldCh, newCh, at)
      /\ Unmatched(oldCh, newCh, at) /\ SameElement(oldCh, newCh, at)
  BY DEF Keyed
<1>3. /\ KeysDiffer(newCh') /\ n \in DOMAIN newCh /\ n \notin G /\ at.ns <= at.ne
      /\ Standing(newCh', at') = G \cup {n}
      /\ G \subseteq DOMAIN newCh /\ DOMAIN newCh' = DOMAIN newCh
      /\ newCh'[n].elm = Base + n /\ newCh'[n].kind = newCh[n].kind
      /\ \A i \in DOMAIN newCh : i # n => newCh'[i] = newCh[i]
      /\ \A j \in G : newCh'[j] = newCh[j]
      /\ \A j \in G : newCh[j].kind.key # None => newCh[j].kind.key # newCh[n].kind.key
  BY <1>1, <1>2, SameLists
<1>4. Waiting(oldCh', at') = W /\ oldCh' = oldCh
  OBVIOUS
<1>5. \A o \in W : newCh[n].kind.key # None => oldCh[o].kind # newCh[n].kind
  OBVIOUS
<1>6. /\ \A o \in DOMAIN oldCh : oldCh[o].elm # Base + n
      /\ \A i \in DOMAIN newCh : i # n => newCh[i].elm # Base + n
  <2>1. DOMAIN newCh = 1..Len(newCh) /\ Len(newCh) \in Nat
    BY <1>1, TypeFacts
  <2>2. \A i \in DOMAIN newCh : i \in Nat /\ i >= 1
    BY <2>1
  <2>3. n \in Nat /\ n >= 1
    BY <1>3, <2>2
  <2>4. ~(Base + n <= Base) /\ \A i \in Nat : Base + n = Base + i => n = i
    BY <1>1, <2>3
  <2>5. \A o \in DOMAIN oldCh : oldCh[o].elm <= Base
    BY <1>1 DEF ByRendering
  <2>6. \A i \in DOMAIN newCh : newCh[i].elm <= Base \/ newCh[i].elm = Base + i
    BY <1>1 DEF ByRendering
  <2> QED BY <2>2, <2>4, <2>5, <2>6
<1>7. elements'[Base + n] = newCh[n].kind /\ \A e \in Patching!Elements : e # Base + n => elements'[e] = elements[e]
  <2>1. elements \in [Patching!Elements -> ListKinds \cup {Patching!Undefined.kind}] /\ Base + n \in Patching!Elements
    BY <1>1 DEF Patching!TypeOK, Gives
  <2> QED BY <2>1
<1> HIDE DEF W, G
<1>10. OfItsKind(oldCh', elements')
  <2>1. \A o \in DOMAIN oldCh : oldCh[o].elm # 0 => oldCh[o].elm \in Patching!Elements
    BY <1>1, ElmType
  <2> QED BY <1>2, <1>4, <1>6, <1>7, <2>1 DEF OfItsKind
<1>11. OfItsKind(newCh', elements')
  <2>1. \A i \in DOMAIN newCh : newCh[i].elm # 0 => newCh[i].elm \in Patching!Elements
    BY <1>1, ElmType
  <2> QED BY <1>2, <1>3, <1>6, <1>7, <2>1 DEF OfItsKind
<1>12. Matched(oldCh, newCh, at)
  BY <1>2, <1>3
<1>13. Matched(oldCh', newCh', at')
  <2>1. ASSUME NEW o \in DOMAIN oldCh \ W, oldCh[o].elm # 0
        PROVE  \E j \in Standing(newCh', at') : newCh'[j].kind = oldCh[o].kind /\ newCh'[j].elm = oldCh[o].elm
    <3>1. PICK j \in G : newCh[j].kind = oldCh[o].kind /\ newCh[j].elm = oldCh[o].elm
      BY <1>12, <2>1 DEF Matched, W, G
    <3> QED BY <1>3, <3>1
  <2> QED BY <1>4, <2>1 DEF Matched
<1>14. Unmatched(oldCh', newCh', at')
  <2>1. ASSUME NEW o \in W, NEW j \in Standing(newCh', at'), newCh'[j].kind.key # None
        PROVE  newCh'[j].kind # oldCh[o].kind
    <3>1. CASE j = n
      BY <1>3, <1>5, <2>1, <3>1
    <3>2. CASE j \in G
      BY <1>2, <1>3, <2>1, <3>2 DEF Unmatched, W, G
    <3> QED BY <1>3, <3>1, <3>2
  <2> QED BY <1>4, <2>1 DEF Unmatched
<1>15. SameElement(oldCh', newCh', at')
  <2>1. ASSUME NEW o \in DOMAIN oldCh \ W, NEW j \in Standing(newCh', at'),
               oldCh[o].elm # 0, newCh'[j].kind = oldCh[o].kind, newCh'[j].kind.key # None
        PROVE  newCh'[j].elm = oldCh[o].elm
    <3>1. CASE j \in G
      BY <1>2, <1>3, <2>1, <3>1 DEF SameElement, W, G
    <3>2. CASE j = n
      <4>1. PICK i \in G : newCh[i].kind = oldCh[o].kind
        BY <1>12, <2>1 DEF Matched, W, G
      <4> QED BY <1>3, <2>1, <3>2, <4>1
    <3> QED BY <1>3, <3>1, <3>2
  <2> QED BY <1>4, <2>1 DEF SameElement
<1> QED BY <1>2, <1>3, <1>4, <1>10, <1>11, <1>13, <1>14, <1>15 DEF Keyed

PatchInv == TypeInv /\ Ordered(oldCh, newCh, at, dom, leaving) /\ Keyed

LEMMA WaitFacts ==
    ASSUME PatchInv
    PROVE  /\ \A o \in Waiting(oldCh, at) :
                 /\ o \in DOMAIN oldCh /\ oldCh[o].elm \in Patching!Elements /\ oldCh[o].elm <= Base
                 /\ oldCh[o].elm \in Patching!ToSet(dom) /\ oldCh[o].elm \notin leaving
           /\ \A o, p \in Waiting(oldCh, at) : o # p => oldCh[o].elm # oldCh[p].elm
           /\ \A i \in Standing(newCh, at) : newCh[i].elm \in Patching!ToSet(dom) /\ newCh[i].elm \notin leaving
           /\ Patching!ToSet(dom) \subseteq Patching!Elements /\ dom \in Seq(Patching!Elements) /\ Patching!IsInjective(dom)
<1>1. Patching!TypeOK /\ ByRendering /\ dom \in Seq(Patching!Elements) /\ Patching!IsInjective(dom)
  BY DEF PatchInv, TypeInv, Patching!TypeOK
<1>2. /\ DOMAIN oldCh = 1..Len(oldCh) /\ Len(oldCh) \in Nat /\ at.os \in Nat /\ at.oe \in Nat
      /\ 1 <= at.os /\ at.oe <= Len(oldCh)
  BY <1>1, TypeFacts
<1>3. /\ Patching!ToSet(dom) \ leaving = {newCh[i].elm : i \in Standing(newCh, at)} \cup {oldCh[o].elm : o \in Waiting(oldCh, at)}
      /\ \A o, p \in Waiting(oldCh, at) : o < p => Patching!Before(dom, oldCh[o].elm, oldCh[p].elm)
  BY DEF PatchInv, Ordered
<1>4. Patching!ToSet(dom) \subseteq Patching!Elements
  BY <1>1, SeqFacts
<1>5. ASSUME NEW o \in Waiting(oldCh, at)
      PROVE  o \in DOMAIN oldCh /\ oldCh[o].elm <= Base /\ oldCh[o].elm \in Patching!ToSet(dom) \ leaving
  <2>1. o \in DOMAIN oldCh
    BY <1>2 DEF Waiting
  <2> QED BY <1>1, <1>3, <2>1 DEF ByRendering
<1>6. ASSUME NEW o \in Waiting(oldCh, at), NEW p \in Waiting(oldCh, at), o # p
      PROVE  oldCh[o].elm # oldCh[p].elm
  <2>1. o \in Nat /\ p \in Nat
    BY <1>2 DEF Waiting
  <2>2. o < p \/ p < o
    BY <1>6, <2>1
  <2>3. Patching!Before(dom, oldCh[o].elm, oldCh[p].elm) \/ Patching!Before(dom, oldCh[p].elm, oldCh[o].elm)
    BY <1>3, <2>2
  <2> QED BY <1>1, <2>3, BeforeIsOrder
<1> QED BY <1>1, <1>3, <1>4, <1>5, <1>6

LEMMA MarkedType ==
    ASSUME Patching!TypeOK, NEW p \in DOMAIN oldCh,
           oldCh' = oldCh \/ oldCh' = [oldCh EXCEPT ![p] = Patching!Undefined]
    PROVE  /\ oldCh' \in Seq(Patching!Vnodes \cup {Patching!Undefined}) /\ Len(oldCh') = Len(oldCh)
           /\ DOMAIN oldCh' = DOMAIN oldCh
           /\ \A o \in DOMAIN oldCh : o # p => oldCh'[o] = oldCh[o]
           /\ oldCh'[p] = oldCh[p] \/ oldCh'[p] = Patching!Undefined
           /\ \A o \in DOMAIN oldCh : oldCh'[o].elm = oldCh[o].elm \/ oldCh'[o].elm = 0
<1> DEFINE T == Patching!Vnodes \cup {Patching!Undefined}
<1>1. /\ DOMAIN oldCh = 1..Len(oldCh) /\ Len(oldCh) \in Nat
      /\ \A o \in DOMAIN oldCh : oldCh[o] \in T
  BY TypeFacts
<1>2. Patching!Undefined \in T /\ Patching!Undefined.elm = 0
  BY DEF Patching!Undefined
<1>3. oldCh \in Seq(T)
  BY DEF Patching!TypeOK
<1> HIDE DEF T
<1>4. CASE oldCh' = oldCh
  BY <1>3, <1>4 DEF T
<1>5. CASE oldCh' = [oldCh EXCEPT ![p] = Patching!Undefined]
  <2>1. /\ DOMAIN oldCh' = DOMAIN oldCh /\ oldCh'[p] = Patching!Undefined
        /\ \A o \in DOMAIN oldCh : o # p => oldCh'[o] = oldCh[o]
    BY <1>5
  <2>2. oldCh' = [o \in 1..Len(oldCh) |-> oldCh'[o]]
    BY <1>1, <1>5
  <2>3. \A o \in 1..Len(oldCh) : oldCh'[o] \in T
    BY <1>1, <1>2, <2>1
  <2>4. oldCh' \in [1..Len(oldCh) -> T]
    BY <2>2, <2>3
  <2>5. oldCh' \in Seq(T)
    BY <1>1, <2>4, SeqDef
  <2>6. Len(oldCh') = Len(oldCh)
    BY <1>1, <2>1, <2>5, LenProperties
  <2> QED BY <1>2, <2>1, <2>5, <2>6 DEF T
<1> QED BY <1>4, <1>5

\* A child takes the element of one that waits, wherever that is put.
LEMMA MatchStep ==
    ASSUME PatchInv, step = "loop", NEW n, NEW p \in Waiting(oldCh, at), NEW x, x = oldCh[p].elm, Gives(n, x),
           newCh[n].kind = oldCh[p].kind, UNCHANGED <<elements, leaving, patches, step>>,
           oldCh' = oldCh \/ oldCh' = [oldCh EXCEPT ![p] = Patching!Undefined],
           at'.os \in 1..at'.oe + 1, at'.oe \in 0..Len(oldCh),
           Waiting(oldCh', at') = Waiting(oldCh, at) \ {p},
           dom' \in Seq(Patching!Elements), Patching!IsInjective(dom'), Patching!ToSet(dom') = Patching!ToSet(dom) \cup {x},
           \A f, g : f # x /\ g # x => (Patching!Before(dom', f, g) <=> Patching!Before(dom, f, g)),
           \A i \in Leading(newCh, at) : Patching!Before(dom', newCh[i].elm, x),
           \A i \in Trailing(newCh, at) : Patching!Before(dom', x, newCh[i].elm),
           \/ n = at.ns /\ at'.ne = at.ne /\ \A o \in Waiting(oldCh', at') : Patching!Before(dom', x, oldCh[o].elm)
           \/ n = at.ne /\ at'.ns = at.ns /\ \A o \in Waiting(oldCh', at') : Patching!Before(dom', oldCh[o].elm, x)
    PROVE  PatchInv'
<1>1. TypeInv /\ Patching!TypeOK /\ Keyed /\ Ordered(oldCh, newCh, at, dom, leaving)
  BY DEF PatchInv, TypeInv
<1>2. /\ p \in DOMAIN oldCh /\ x <= Base /\ x \in Patching!ToSet(dom) /\ x \notin leaving
      /\ \A o \in Waiting(oldCh, at) : o # p => oldCh[o].elm # x
      /\ \A o \in Waiting(oldCh, at) : o \in DOMAIN oldCh
  BY WaitFacts
<1>3. /\ oldCh' \in Seq(Patching!Vnodes \cup {Patching!Undefined}) /\ Len(oldCh') = Len(oldCh)
      /\ DOMAIN oldCh' = DOMAIN oldCh
      /\ \A o \in DOMAIN oldCh : o # p => oldCh'[o] = oldCh[o]
      /\ oldCh'[p] = oldCh[p] \/ oldCh'[p] = Patching!Undefined
      /\ \A o \in DOMAIN oldCh : oldCh'[o].elm = oldCh[o].elm \/ oldCh'[o].elm = 0
  BY <1>1, <1>2, MarkedType
<1>4. elements' \in [Patching!Elements -> ListKinds \cup {Patching!Undefined.kind}] /\ UNCHANGED <<leaving, patches, step>>
  BY <1>1 DEF Patching!TypeOK
<1>5. TypeInv'
  BY <1>1, <1>2, <1>3, <1>4, GivesTypes
<1>6. Waiting(oldCh', at') = {o \in Waiting(oldCh, at) : oldCh[o].elm # x}
  BY <1>2
<1>7. \A o \in Waiting(oldCh', at') : oldCh'[o].elm = oldCh[o].elm
  BY <1>2, <1>3
<1>8. Ordered(oldCh', newCh', at', dom', leaving')
  BY <1>1, <1>2, <1>6, <1>7, GivesOrder
<1>9. Keyed'
  BY <1>1, <1>3, MatchKeeps
<1> QED BY <1>5, <1>8, <1>9 DEF PatchInv

\* A child gets an element of its own.
LEMMA CreateStep ==
    ASSUME PatchInv, step = "loop", NEW x, x = Base + at.ns, Gives(at.ns, x), at'.ne = at.ne,
           elements' = [elements EXCEPT ![x] = newCh[at.ns].kind], UNCHANGED <<oldCh, leaving, patches, step>>,
           at'.os = at.os, at'.oe = at.oe,
           newCh[at.ns].kind.key # None => \A o \in Waiting(oldCh, at) : oldCh[o].kind # newCh[at.ns].kind,
           dom' \in Seq(Patching!Elements), Patching!IsInjective(dom'), Patching!ToSet(dom') = Patching!ToSet(dom) \cup {x},
           \A f, g : f # x /\ g # x => (Patching!Before(dom', f, g) <=> Patching!Before(dom, f, g)),
           \A i \in Leading(newCh, at) : Patching!Before(dom', newCh[i].elm, x),
           \A i \in Trailing(newCh, at) : Patching!Before(dom', x, newCh[i].elm),
           \A o \in Waiting(oldCh, at) : Patching!Before(dom', x, oldCh[o].elm)
    PROVE  PatchInv'
<1> DEFINE n == at.ns
<1>1. TypeInv /\ Patching!TypeOK /\ Keyed /\ ByRendering /\ Base \in Nat /\ Ordered(oldCh, newCh, at, dom, leaving)
  BY BaseType DEF PatchInv, TypeInv
<1>2. Waiting(oldCh', at') = Waiting(oldCh, at)
  BY DEF Waiting
<1>3. x \notin Patching!ToSet(dom)
  <2>1. n \notin Standing(newCh, at)
    BY <1>1, GivesSets
  <2>2. n \in Nat /\ n >= 1 /\ Len(newCh) \in Nat /\ DOMAIN newCh = 1..Len(newCh)
    BY <1>1, TypeFacts
  <2>3. \A i \in Standing(newCh, at) : i \in Nat
    BY <2>2 DEF Standing, Leading, Trailing
  <2>4. ~(x <= Base) /\ \A i \in Nat : x = Base + i => i = n
    BY <1>1, <2>2
  <2> QED BY <1>1, <2>1, <2>3, <2>4 DEF ByRendering
<1>4. x \notin leaving
  BY <1>1, <1>3 DEF Patching!TypeOK
<1>5. \A o \in Waiting(oldCh, at) : oldCh[o].elm # x
  BY <1>3, WaitFacts
<1>6. TypeInv'
  <2>1. elements' \in [Patching!Elements -> ListKinds \cup {Patching!Undefined.kind}]
    <3>1. n \in DOMAIN newCh
      BY <1>1, GivesSets, TypeFacts
    <3>2. newCh[n].kind \in ListKinds
      BY <1>1, <3>1, ElmType
    <3>3. elements \in [Patching!Elements -> ListKinds \cup {Patching!Undefined.kind}]
      BY <1>1 DEF Patching!TypeOK
    <3> QED BY <3>2, <3>3
  <2>2. /\ oldCh' \in Seq(Patching!Vnodes \cup {Patching!Undefined}) /\ Len(oldCh') = Len(oldCh)
        /\ \A o \in DOMAIN oldCh : oldCh'[o].elm = oldCh[o].elm \/ oldCh'[o].elm = 0
    BY <1>1 DEF Patching!TypeOK
  <2>3. at'.os \in 1..at'.oe + 1 /\ at'.oe \in 0..Len(oldCh)
    BY <1>1 DEF Patching!TypeOK
  <2> QED BY <1>1, <2>1, <2>2, <2>3, GivesTypes
<1>7. Ordered(oldCh', newCh', at', dom', leaving')
  <2>1. Waiting(oldCh', at') = {o \in Waiting(oldCh, at) : oldCh[o].elm # x}
    BY <1>2, <1>5
  <2>2. \A o \in Waiting(oldCh', at') : oldCh'[o].elm = oldCh[o].elm
    OBVIOUS
  <2>3. n = at.ns /\ at'.ne = at.ne /\ \A o \in Waiting(oldCh', at') : Patching!Before(dom', x, oldCh[o].elm)
    BY <1>2
  <2> QED BY <1>1, <1>4, <2>1, <2>2, <2>3, GivesOrder
<1>8. Keyed'
  BY <1>1, <1>2, CreateElmKeeps
<1> QED BY <1>6, <1>7, <1>8 DEF PatchInv

-----------------------------------------------------------------------------
(* The steps of the loop.                                                    *)

LEMMA BranchIs ==
    /\ Patching!Branch = "skipStart" => Patching!OldStart.elm = 0
    /\ Patching!Branch = "skipEnd" => Patching!OldEnd.elm = 0
    /\ Patching!Branch \in {"start", "end", "right", "left", "search"} => Patching!OldStart.elm # 0 /\ Patching!OldEnd.elm # 0
    /\ Patching!Branch = "start" => Patching!OldStart.kind = Patching!NewStart.kind
    /\ Patching!Branch = "end" => Patching!OldEnd.kind = Patching!NewEnd.kind
    /\ Patching!Branch = "right" => Patching!OldStart.kind = Patching!NewEnd.kind /\ Patching!OldEnd.kind # Patching!NewEnd.kind
    /\ Patching!Branch = "left" => Patching!OldEnd.kind = Patching!NewStart.kind /\ Patching!OldStart.kind # Patching!NewStart.kind
    /\ Patching!Branch = "search" => Patching!OldStart.kind # Patching!NewStart.kind
BY DEF Patching!Branch, Patching!Undef, Patching!SameVnode

LEMMA LoopFacts ==
    ASSUME PatchInv
    PROVE  /\ Patching!TypeOK /\ dom \in Seq(Patching!Elements) /\ Patching!IsInjective(dom)
           /\ Len(newCh) \in Nat /\ Len(oldCh) \in Nat
           /\ at.os \in Nat /\ at.oe \in Nat /\ at.ns \in Nat /\ at.ne \in Nat
           /\ 1 <= at.os /\ at.os <= at.oe + 1 /\ at.oe <= Len(oldCh)
           /\ 1 <= at.ns /\ at.ns <= at.ne + 1 /\ at.ne <= Len(newCh)
           /\ \A i, j \in Standing(newCh, at) : i < j => Patching!Before(dom, newCh[i].elm, newCh[j].elm)
           /\ \A o, p \in Waiting(oldCh, at) : o < p => Patching!Before(dom, oldCh[o].elm, oldCh[p].elm)
           /\ \A i \in Leading(newCh, at), o \in Waiting(oldCh, at) : Patching!Before(dom, newCh[i].elm, oldCh[o].elm)
           /\ \A i \in Trailing(newCh, at), o \in Waiting(oldCh, at) : Patching!Before(dom, oldCh[o].elm, newCh[i].elm)
           /\ at.os <= at.oe /\ oldCh[at.os].elm # 0 => at.os \in Waiting(oldCh, at)
           /\ at.os <= at.oe /\ oldCh[at.oe].elm # 0 => at.oe \in Waiting(oldCh, at)
<1>1. Patching!TypeOK /\ dom \in Seq(Patching!Elements) /\ Patching!IsInjective(dom)
  BY DEF PatchInv, TypeInv, Patching!TypeOK
<1>2. /\ Len(newCh) \in Nat /\ Len(oldCh) \in Nat
      /\ at.os \in Nat /\ at.oe \in Nat /\ at.ns \in Nat /\ at.ne \in Nat
      /\ 1 <= at.os /\ at.os <= at.oe + 1 /\ at.oe <= Len(oldCh)
      /\ 1 <= at.ns /\ at.ns <= at.ne + 1 /\ at.ne <= Len(newCh)
  BY <1>1, TypeFacts
<1>3. /\ at.os <= at.oe /\ oldCh[at.os].elm # 0 => at.os \in Waiting(oldCh, at)
      /\ at.os <= at.oe /\ oldCh[at.oe].elm # 0 => at.oe \in Waiting(oldCh, at)
  BY <1>2 DEF Waiting
<1>4. /\ \A i, j \in Standing(newCh, at) : i < j => Patching!Before(dom, newCh[i].elm, newCh[j].elm)
      /\ \A o, p \in Waiting(oldCh, at) : o < p => Patching!Before(dom, oldCh[o].elm, oldCh[p].elm)
      /\ \A i \in Leading(newCh, at), o \in Waiting(oldCh, at) : Patching!Before(dom, newCh[i].elm, oldCh[o].elm)
      /\ \A i \in Trailing(newCh, at), o \in Waiting(oldCh, at) : Patching!Before(dom, oldCh[o].elm, newCh[i].elm)
  BY DEF PatchInv, Ordered
<1> QED BY <1>1, <1>2, <1>3, <1>4

LEMMA SameEndsStep ==
    ASSUME PatchInv, Patching!SameEnds, UNCHANGED <<leaving, patches, step>>
    PROVE  PatchInv'
<1> DEFINE W == Waiting(oldCh, at)
<1>1. step = "loop" /\ at.os <= at.oe /\ at.ns <= at.ne /\ oldCh' = oldCh /\ dom' = dom
  BY DEF Patching!SameEnds, Patching!Looping
<1>2. /\ Patching!TypeOK /\ dom \in Seq(Patching!Elements) /\ Patching!IsInjective(dom)
      /\ at.os \in Nat /\ at.oe \in Nat /\ at.ns \in Nat /\ at.ne \in Nat
      /\ 1 <= at.os /\ at.oe <= Len(oldCh) /\ Len(oldCh) \in Nat
  BY LoopFacts
<1>3. /\ \A o, p \in W : o < p => Patching!Before(dom, oldCh[o].elm, oldCh[p].elm)
      /\ \A i \in Leading(newCh, at), o \in W : Patching!Before(dom, newCh[i].elm, oldCh[o].elm)
      /\ \A i \in Trailing(newCh, at), o \in W : Patching!Before(dom, oldCh[o].elm, newCh[i].elm)
      /\ \A o \in W : oldCh[o].elm \in Patching!Elements /\ oldCh[o].elm \in Patching!ToSet(dom)
  BY LoopFacts, WaitFacts
<1>4. CASE Patching!Branch = "start" /\ Patching!PatchVnode(at.os, at.ns) /\ Patching!Move(1, 0, 1, 0)
  <2> DEFINE p == at.os  x == oldCh[p].elm
  <2>1. p \in W /\ newCh[at.ns].kind = oldCh[p].kind
    BY <1>1, <1>4, BranchIs, LoopFacts DEF Patching!OldStart, Patching!NewStart
  <2>2. newCh' = [newCh EXCEPT ![at.ns].elm = x] /\ UNCHANGED <<elements, leaving, patches, step>>
    BY <1>4 DEF Patching!PatchVnode
  <2>3. at'.os = at.os + 1 /\ at'.oe = at.oe /\ at'.ns = at.ns + 1 /\ at'.ne = at.ne
    BY <1>2, <1>4 DEF Patching!Move
  <2>4. Gives(at.ns, x)
    BY <1>1, <1>3, <2>1, <2>2, <2>3 DEF Gives
  <2>5. at'.os \in 1..at'.oe + 1 /\ at'.oe \in 0..Len(oldCh)
    BY <1>1, <1>2, <2>3
  <2>6. Waiting(oldCh', at') = W \ {p}
    BY <1>1, <1>2, <2>3 DEF Waiting
  <2>7. \A o \in W \ {p} : p < o
    BY <1>2 DEF Waiting
  <2>8. /\ Patching!ToSet(dom') = Patching!ToSet(dom) \cup {x}
        /\ \A i \in Leading(newCh, at) : Patching!Before(dom', newCh[i].elm, x)
        /\ \A i \in Trailing(newCh, at) : Patching!Before(dom', x, newCh[i].elm)
        /\ \A o \in Waiting(oldCh', at') : Patching!Before(dom', x, oldCh[o].elm)
    BY <1>1, <1>3, <2>1, <2>6, <2>7
  <2> HIDE DEF p, W
  <2> QED BY <1>1, <1>2, <2>1, <2>2, <2>3, <2>4, <2>5, <2>6, <2>8, MatchStep DEF W
<1>5. CASE Patching!Branch = "end" /\ Patching!PatchVnode(at.oe, at.ne) /\ Patching!Move(0, 1, 0, 1)
  <2> DEFINE p == at.oe  x == oldCh[p].elm
  <2>1. p \in W /\ newCh[at.ne].kind = oldCh[p].kind
    BY <1>1, <1>5, BranchIs, LoopFacts DEF Patching!OldEnd, Patching!NewEnd
  <2>2. newCh' = [newCh EXCEPT ![at.ne].elm = x] /\ UNCHANGED <<elements, leaving, patches, step>>
    BY <1>5 DEF Patching!PatchVnode
  <2>3. at'.os = at.os /\ at'.oe = at.oe - 1 /\ at'.ns = at.ns /\ at'.ne = at.ne - 1
    BY <1>2, <1>5 DEF Patching!Move
  <2>4. Gives(at.ne, x)
    BY <1>1, <1>3, <2>1, <2>2, <2>3 DEF Gives
  <2>5. at'.os \in 1..at'.oe + 1 /\ at'.oe \in 0..Len(oldCh)
    BY <1>1, <1>2, <2>3
  <2>6. Waiting(oldCh', at') = W \ {p}
    BY <1>1, <1>2, <2>3 DEF Waiting
  <2>7. \A o \in W \ {p} : o < p
    BY <1>2 DEF Waiting
  <2>8. /\ Patching!ToSet(dom') = Patching!ToSet(dom) \cup {x}
        /\ \A i \in Leading(newCh, at) : Patching!Before(dom', newCh[i].elm, x)
        /\ \A i \in Trailing(newCh, at) : Patching!Before(dom', x, newCh[i].elm)
        /\ \A o \in Waiting(oldCh', at') : Patching!Before(dom', oldCh[o].elm, x)
    BY <1>1, <1>3, <2>1, <2>6, <2>7
  <2> HIDE DEF p, W
  <2> QED BY <1>1, <1>2, <2>1, <2>2, <2>3, <2>4, <2>5, <2>6, <2>8, MatchStep DEF W
<1> QED BY <1>4, <1>5 DEF Patching!SameEnds

\* What is put before the old start is behind what is in front, before the rest.
LEMMA PutFront ==
    ASSUME PatchInv, at.os \in Waiting(oldCh, at), NEW x \in Patching!Elements, x # oldCh[at.os].elm,
           Patching!Place(x, oldCh[at.os].elm)
    PROVE  /\ dom' \in Seq(Patching!Elements) /\ Patching!IsInjective(dom') /\ Patching!ToSet(dom') = Patching!ToSet(dom) \cup {x}
           /\ \A f, g : f # x /\ g # x => (Patching!Before(dom', f, g) <=> Patching!Before(dom, f, g))
           /\ \A i \in Leading(newCh, at) : newCh[i].elm # x => Patching!Before(dom', newCh[i].elm, x)
           /\ \A i \in Trailing(newCh, at) : newCh[i].elm # x => Patching!Before(dom', x, newCh[i].elm)
           /\ \A o \in Waiting(oldCh, at) : oldCh[o].elm # x => Patching!Before(dom', x, oldCh[o].elm)
<1> DEFINE W == Waiting(oldCh, at)  ref == oldCh[at.os].elm
<1>1. /\ Patching!TypeOK /\ at.os \in Nat /\ at.oe \in Nat
      /\ \A o, p \in W : o < p => Patching!Before(dom, oldCh[o].elm, oldCh[p].elm)
      /\ \A i \in Leading(newCh, at), o \in W : Patching!Before(dom, newCh[i].elm, oldCh[o].elm)
      /\ \A i \in Trailing(newCh, at), o \in W : Patching!Before(dom, oldCh[o].elm, newCh[i].elm)
  BY LoopFacts
<1>2. /\ \A o \in W : oldCh[o].elm \in Patching!ToSet(dom) /\ oldCh[o].elm \in Patching!Elements
      /\ \A i \in Standing(newCh, at) : newCh[i].elm \in Patching!ToSet(dom)
  BY WaitFacts
<1>3. ref \in Patching!ToSet(dom) /\ ref # x /\ ref # 0
  BY <1>1, <1>2, BaseType
<1>4. \A o \in W : o = at.os \/ at.os < o
  BY <1>1 DEF Waiting
<1> HIDE DEF W
<1>5. at.os \in W
  BY DEF W
<1>6. /\ dom' \in Seq(Patching!Elements) /\ Patching!IsInjective(dom') /\ Patching!ToSet(dom') = Patching!ToSet(dom) \cup {x}
      /\ \A f, g : f # x /\ g # x => (Patching!Before(dom', f, g) <=> Patching!Before(dom, f, g))
      /\ \A f \in Patching!ToSet(dom) :
            f # x => /\ ref = 0 \/ Patching!Before(dom, f, ref) => Patching!Before(dom', f, x)
                     /\ ref # 0 /\ (f = ref \/ Patching!Before(dom, ref, f)) => Patching!Before(dom', x, f)
  BY <1>1, <1>3, Placed
<1>7. Leading(newCh, at) \subseteq Standing(newCh, at) /\ Trailing(newCh, at) \subseteq Standing(newCh, at)
  BY DEF Standing
<1>8. ASSUME NEW i \in Leading(newCh, at), newCh[i].elm # x PROVE Patching!Before(dom', newCh[i].elm, x)
  BY <1>1, <1>2, <1>5, <1>6, <1>7, <1>8
<1>9. ASSUME NEW i \in Trailing(newCh, at), newCh[i].elm # x PROVE Patching!Before(dom', x, newCh[i].elm)
  BY <1>1, <1>2, <1>3, <1>5, <1>6, <1>7, <1>9
<1>10. ASSUME NEW o \in W, oldCh[o].elm # x PROVE Patching!Before(dom', x, oldCh[o].elm)
  <2>1. oldCh[o].elm = ref \/ Patching!Before(dom, ref, oldCh[o].elm)
    BY <1>1, <1>4, <1>5
  <2> QED BY <1>2, <1>3, <1>6, <1>10, <2>1
<1> QED BY <1>6, <1>8, <1>9, <1>10 DEF W

LEMMA Apart ==
    ASSUME PatchInv, NEW i \in Standing(newCh, at), NEW o \in Waiting(oldCh, at)
    PROVE  newCh[i].elm # oldCh[o].elm
<1>1. dom \in Seq(Patching!Elements) /\ Patching!IsInjective(dom)
  BY LoopFacts
<1>2. Patching!Before(dom, newCh[i].elm, oldCh[o].elm) \/ Patching!Before(dom, oldCh[o].elm, newCh[i].elm)
  BY LoopFacts DEF Standing
<1> QED BY <1>1, <1>2, BeforeIsOrder

\* The element of one that waits comes before the old start.
LEMMA FrontStep ==
    ASSUME PatchInv, step = "loop", at.ns <= at.ne,
           at.os \in Waiting(oldCh, at), NEW p \in Waiting(oldCh, at), p # at.os, NEW x, x = oldCh[p].elm,
           Patching!PatchVnode(p, at.ns), Patching!Place(x, oldCh[at.os].elm), newCh[at.ns].kind = oldCh[p].kind,
           at'.ns = at.ns + 1, at'.ne = at.ne, UNCHANGED <<leaving, patches, step>>,
           oldCh' = oldCh \/ oldCh' = [oldCh EXCEPT ![p] = Patching!Undefined],
           at'.os \in 1..at'.oe + 1, at'.oe \in 0..Len(oldCh),
           Waiting(oldCh', at') = Waiting(oldCh, at) \ {p}
    PROVE  PatchInv'
<1>1. x \in Patching!Elements /\ \A o \in Waiting(oldCh, at) : o # p => oldCh[o].elm # x
  BY WaitFacts
<1>2. \A i \in Standing(newCh, at) : newCh[i].elm # x
  BY Apart
<1>3. /\ dom' \in Seq(Patching!Elements) /\ Patching!IsInjective(dom') /\ Patching!ToSet(dom') = Patching!ToSet(dom) \cup {x}
      /\ \A f, g : f # x /\ g # x => (Patching!Before(dom', f, g) <=> Patching!Before(dom, f, g))
      /\ \A i \in Leading(newCh, at) : newCh[i].elm # x => Patching!Before(dom', newCh[i].elm, x)
      /\ \A i \in Trailing(newCh, at) : newCh[i].elm # x => Patching!Before(dom', x, newCh[i].elm)
      /\ \A o \in Waiting(oldCh, at) : oldCh[o].elm # x => Patching!Before(dom', x, oldCh[o].elm)
  BY <1>1, PutFront
<1>4. Leading(newCh, at) \subseteq Standing(newCh, at) /\ Trailing(newCh, at) \subseteq Standing(newCh, at)
  BY DEF Standing
<1>5. newCh' = [newCh EXCEPT ![at.ns].elm = x] /\ UNCHANGED elements
  BY DEF Patching!PatchVnode
<1>6. Gives(at.ns, x)
  BY <1>1, <1>5 DEF Gives
<1>7. /\ \A i \in Leading(newCh, at) : Patching!Before(dom', newCh[i].elm, x)
      /\ \A i \in Trailing(newCh, at) : Patching!Before(dom', x, newCh[i].elm)
      /\ \A o \in Waiting(oldCh', at') : Patching!Before(dom', x, oldCh[o].elm)
  BY <1>1, <1>2, <1>3, <1>4
<1>8. UNCHANGED <<elements, leaving, patches, step>>
  BY <1>5
<1> QED BY <1>3, <1>6, <1>7, <1>8, MatchStep

LEMMA MovedLeftStep ==
    ASSUME PatchInv, Patching!MovedLeft, UNCHANGED <<leaving, patches, step>>
    PROVE  PatchInv'
<1>1. step = "loop" /\ at.os <= at.oe /\ at.ns <= at.ne /\ oldCh' = oldCh
  BY DEF Patching!MovedLeft, Patching!Looping
<1>2. /\ at.os \in Nat /\ at.oe \in Nat /\ at.ns \in Nat /\ at.ne \in Nat
      /\ 1 <= at.os /\ at.oe <= Len(oldCh) /\ Len(oldCh) \in Nat
  BY LoopFacts
<1>3. Patching!Branch = "left" /\ Patching!PatchVnode(at.oe, at.ns) /\ Patching!Place(Patching!OldEnd.elm, Patching!OldStart.elm) /\ Patching!Move(0, 1, 1, 0)
  BY DEF Patching!MovedLeft
<1>4. /\ at.os \in Waiting(oldCh, at) /\ at.oe \in Waiting(oldCh, at) /\ at.oe # at.os
      /\ newCh[at.ns].kind = oldCh[at.oe].kind
  BY <1>1, <1>3, BranchIs, LoopFacts DEF Patching!OldStart, Patching!OldEnd, Patching!NewStart
<1>5. at'.os = at.os /\ at'.oe = at.oe - 1 /\ at'.ns = at.ns + 1 /\ at'.ne = at.ne
  BY <1>2, <1>3 DEF Patching!Move
<1>6. at'.os \in 1..at'.oe + 1 /\ at'.oe \in 0..Len(oldCh)
  BY <1>1, <1>2, <1>5
<1>7. Waiting(oldCh', at') = Waiting(oldCh, at) \ {at.oe}
  BY <1>1, <1>2, <1>5 DEF Waiting
<1>8. Patching!Place(oldCh[at.oe].elm, oldCh[at.os].elm)
  BY <1>3 DEF Patching!OldStart, Patching!OldEnd
<1> QED BY <1>1, <1>3, <1>4, <1>5, <1>6, <1>7, <1>8, FrontStep

LEMMA MovedRightStep ==
    ASSUME PatchInv, Patching!MovedRight, UNCHANGED <<leaving, patches, step>>
    PROVE  PatchInv'
<1> DEFINE W == Waiting(oldCh, at)  p == at.os  x == oldCh[at.os].elm  e == oldCh[at.oe].elm  ref == Patching!NextSibling(e)
<1>1. step = "loop" /\ at.os <= at.oe /\ at.ns <= at.ne /\ oldCh' = oldCh
  BY DEF Patching!MovedRight, Patching!Looping
<1>2. /\ Patching!TypeOK /\ dom \in Seq(Patching!Elements) /\ Patching!IsInjective(dom)
      /\ at.os \in Nat /\ at.oe \in Nat /\ at.ns \in Nat /\ at.ne \in Nat
      /\ 1 <= at.os /\ at.oe <= Len(oldCh) /\ Len(oldCh) \in Nat
      /\ \A o, q \in W : o < q => Patching!Before(dom, oldCh[o].elm, oldCh[q].elm)
      /\ \A i \in Leading(newCh, at), o \in W : Patching!Before(dom, newCh[i].elm, oldCh[o].elm)
      /\ \A i \in Trailing(newCh, at), o \in W : Patching!Before(dom, oldCh[o].elm, newCh[i].elm)
  BY LoopFacts
<1>3. Patching!Branch = "right" /\ Patching!PatchVnode(at.os, at.ne) /\ Patching!Place(x, ref) /\ Patching!Move(1, 0, 0, 1)
  BY DEF Patching!MovedRight, Patching!OldStart, Patching!OldEnd
<1>4. p \in W /\ at.oe \in W /\ at.os # at.oe /\ newCh[at.ne].kind = oldCh[p].kind
  BY <1>1, <1>3, BranchIs, LoopFacts DEF Patching!OldStart, Patching!OldEnd, Patching!NewEnd
<1>5. at'.os = at.os + 1 /\ at'.oe = at.oe /\ at'.ns = at.ns /\ at'.ne = at.ne - 1
  BY <1>2, <1>3 DEF Patching!Move
<1>6. at'.os \in 1..at'.oe + 1 /\ at'.oe \in 0..Len(oldCh)
  BY <1>1, <1>2, <1>5
<1>7. Waiting(oldCh', at') = W \ {p}
  BY <1>1, <1>2, <1>5 DEF Waiting
<1>8. /\ \A o \in W : oldCh[o].elm \in Patching!ToSet(dom) /\ oldCh[o].elm \in Patching!Elements
      /\ \A o \in W : o # p => oldCh[o].elm # x
      /\ \A i \in Standing(newCh, at) : newCh[i].elm \in Patching!ToSet(dom) /\ newCh[i].elm # x
  BY <1>4, WaitFacts, Apart
<1>9. \A o \in W : o = at.oe \/ o < at.oe
  BY <1>2 DEF Waiting
<1> HIDE DEF W
<1>10. at.os < at.oe /\ Patching!Before(dom, x, e)
  BY <1>1, <1>2, <1>4
<1>11. e \in Patching!ToSet(dom) /\ x \in Patching!ToSet(dom) /\ x \in Patching!Elements
  BY <1>4, <1>8
<1>12. \/ ref = 0 /\ \A f \in Patching!ToSet(dom) : f = e \/ Patching!Before(dom, f, e)
       \/ ref \in Patching!ToSet(dom) /\ ref # e /\ \A f \in Patching!ToSet(dom) : Patching!Before(dom, f, ref) <=> f = e \/ Patching!Before(dom, f, e)
  BY <1>2, <1>11, NextIs
<1> HIDE DEF ref, x, e, p
<1>13. /\ \A f, g : Patching!Before(dom, f, g) => f # g /\ ~Patching!Before(dom, g, f)
       /\ \A f, g \in Patching!ToSet(dom) : f = g \/ Patching!Before(dom, f, g) \/ Patching!Before(dom, g, f)
  BY <1>2, BeforeIsOrder
<1>14. ref = 0 \/ (ref \in Patching!ToSet(dom) /\ ref # x)
  BY <1>10, <1>11, <1>12, <1>13
<1>15. /\ dom' \in Seq(Patching!Elements) /\ Patching!IsInjective(dom') /\ Patching!ToSet(dom') = Patching!ToSet(dom) \cup {x}
       /\ \A f, g : f # x /\ g # x => (Patching!Before(dom', f, g) <=> Patching!Before(dom, f, g))
       /\ \A f \in Patching!ToSet(dom) :
             f # x => /\ ref = 0 \/ Patching!Before(dom, f, ref) => Patching!Before(dom', f, x)
                      /\ ref # 0 /\ (f = ref \/ Patching!Before(dom, ref, f)) => Patching!Before(dom', x, f)
  BY <1>2, <1>3, <1>11, <1>14, Placed
<1>16. ASSUME NEW f \in Patching!ToSet(dom), f # x, f = e \/ Patching!Before(dom, f, e) PROVE Patching!Before(dom', f, x)
  BY <1>12, <1>15, <1>16
<1>17. ASSUME NEW f \in Patching!ToSet(dom), f # x, Patching!Before(dom, e, f) PROVE Patching!Before(dom', x, f)
  <2>1. f # e /\ ~Patching!Before(dom, f, e)
    BY <1>13, <1>17
  <2>2. ref \in Patching!ToSet(dom) /\ ~Patching!Before(dom, f, ref)
    BY <1>12, <2>1
  <2>3. f = ref \/ Patching!Before(dom, ref, f)
    BY <1>13, <2>2
  <2>4. ref # 0
    BY <1>2, <2>2, SeqFacts, BaseType
  <2> QED BY <1>15, <1>17, <2>3, <2>4
<1>18. Leading(newCh, at) \subseteq Standing(newCh, at) /\ Trailing(newCh, at) \subseteq Standing(newCh, at)
  BY DEF Standing
<1>19. \A i \in Leading(newCh, at) : Patching!Before(dom', newCh[i].elm, x)
  BY <1>2, <1>4, <1>8, <1>16, <1>18 DEF e
<1>20. \A i \in Trailing(newCh, at) : Patching!Before(dom', x, newCh[i].elm)
  BY <1>2, <1>4, <1>8, <1>17, <1>18 DEF e
<1>21. ASSUME NEW o \in W, o # p PROVE Patching!Before(dom', oldCh[o].elm, x)
  <2>1. oldCh[o].elm \in Patching!ToSet(dom) /\ oldCh[o].elm # x
    BY <1>8, <1>21
  <2>2. oldCh[o].elm = e \/ Patching!Before(dom, oldCh[o].elm, e)
    BY <1>2, <1>4, <1>9 DEF e
  <2> QED BY <1>16, <2>1, <2>2
<1>22. newCh' = [newCh EXCEPT ![at.ne].elm = x] /\ UNCHANGED <<elements, leaving, patches, step>>
  BY <1>3 DEF Patching!PatchVnode, x
<1>23. Gives(at.ne, x)
  BY <1>1, <1>5, <1>11, <1>22 DEF Gives
<1>24. p \in Waiting(oldCh, at) /\ x = oldCh[p].elm
  BY <1>4 DEF p, x, W
<1>25. \A o \in Waiting(oldCh', at') : Patching!Before(dom', oldCh[o].elm, x)
  BY <1>7, <1>21
<1>26. Waiting(oldCh', at') = Waiting(oldCh, at) \ {p}
  BY <1>7 DEF W
<1> QED BY <1>1, <1>4, <1>5, <1>6, <1>15, <1>19, <1>20, <1>22, <1>23, <1>24, <1>25, <1>26, MatchStep

LEMMA Least ==
    ASSUME NEW T \in SUBSET Nat, T # {}
    PROVE  \E x \in T : \A y \in T : x <= y
<1> DEFINE R == OpToRel(<, Nat)
<1>1. IsWellFoundedOn(R, Nat)
  BY NatLessThanWellFounded
<1>2. \A a, b \in Nat : a < b => <<a, b>> \in R
  BY DEF OpToRel
<1> HIDE DEF R
<1>3. PICK x \in T : \A y \in T : ~ (<<y, x>> \in R)
  BY <1>1, WFMin
<1>4. \A y \in T : y \in Nat /\ x \in Nat /\ ~(y < x)
  BY <1>2, <1>3
<1>5. \A y \in T : x <= y
  BY <1>4
<1> QED BY <1>5

LEMMA FreshIsNew ==
    ASSUME PatchInv, at.ns <= at.ne
    PROVE  /\ Patching!Fresh(at.ns) = Base + at.ns /\ Base + at.ns \in Patching!Elements /\ Base + at.ns \notin Patching!ToSet(dom)
           /\ \A i \in Standing(newCh, at) : newCh[i].elm # Base + at.ns
           /\ \A o \in Waiting(oldCh, at) : oldCh[o].elm # Base + at.ns
<1>1. Patching!TypeOK /\ ByRendering /\ Base \in Nat /\ \A n \in 1..MaxChildren : Base + n \in Patching!Elements
  BY BaseType DEF PatchInv, TypeInv
<1>2. /\ at.ns \in Nat /\ at.ns >= 1 /\ at.ne \in Nat /\ Len(newCh) \in Nat /\ DOMAIN newCh = 1..Len(newCh)
      /\ at.ne <= Len(newCh) /\ Len(newCh) <= MaxChildren
  BY <1>1, TypeFacts
<1>3. at.ns \in 1..MaxChildren
  BY <1>2, LibraryBounds
<1>4. \A i \in Standing(newCh, at) : i \in Nat /\ i # at.ns
  BY <1>2 DEF Standing, Leading, Trailing
<1>5. ~(Base + at.ns <= Base) /\ \A i \in Nat : Base + at.ns = Base + i => i = at.ns
  BY <1>1, <1>2
<1>6. Base + at.ns \notin Patching!ToSet(dom)
  BY <1>1, <1>4, <1>5 DEF ByRendering
<1> QED BY <1>1, <1>3, <1>6, WaitFacts DEF Patching!Fresh, Base

LEMMA IdxFound ==
    ASSUME PatchInv
    PROVE  /\ Patching!IdxInOld = 0 \/ Patching!IdxInOld \in Waiting(oldCh, at)
           /\ Patching!NewStart.kind.key # None =>
                 \A o \in Waiting(oldCh, at) : oldCh[o].kind = Patching!NewStart.kind => Patching!IdxInOld = o
<1> DEFINE keyed == Patching!NewStart.kind.key # None
           found == {i \in at.os..at.oe : ~Patching!Undef(oldCh[i]) /\
                        IF keyed THEN oldCh[i].kind.key = Patching!NewStart.kind.key
                        ELSE i < at.oe /\ Patching!SameVnode(Patching!NewStart, oldCh[i])}
           first == CHOOSE i \in found : \A j \in found : IF keyed THEN j <= i ELSE i <= j
<1>1. Patching!IdxInOld = IF found = {} THEN 0 ELSE first
  BY DEF Patching!IdxInOld
<1>2. found \subseteq Waiting(oldCh, at)
  BY DEF Waiting, Patching!Undef
<1>3. at.os \in Nat /\ at.oe \in Nat
  BY LoopFacts
<1>4. found \in SUBSET Nat
  BY <1>3
<1>5. KeysDiffer(oldCh) /\ \A o \in Waiting(oldCh, at) : o \in DOMAIN oldCh
  BY WaitFacts DEF PatchInv, Keyed
<1>6. keyed => \A i, j \in found : i = j
  <2>1. keyed => \A i \in found : i \in DOMAIN oldCh /\ oldCh[i].kind.key = Patching!NewStart.kind.key
    BY <1>2, <1>5
  <2> HIDE DEF found
  <2> QED BY <1>5, <2>1 DEF KeysDiffer
<1>7. keyed => \A o \in Waiting(oldCh, at) : oldCh[o].kind = Patching!NewStart.kind => o \in found
  BY DEF Waiting, Patching!Undef
<1> HIDE DEF found
<1>8. found # {} => first \in found
  <2>1. CASE keyed
    <3>1. \A i, j \in found : j <= i
      BY <1>4, <1>6, <2>1
    <3> QED BY <2>1, <3>1
  <2>2. CASE ~keyed
    <3>1. found # {} => \E i \in found : \A j \in found : i <= j
      BY <1>4, Least
    <3> QED BY <2>2, <3>1
  <2> QED BY <2>1, <2>2
<1> HIDE DEF first, keyed
<1>9. Patching!IdxInOld = 0 \/ Patching!IdxInOld \in Waiting(oldCh, at)
  BY <1>1, <1>2, <1>8
<1>10. keyed => \A o \in Waiting(oldCh, at) : oldCh[o].kind = Patching!NewStart.kind => Patching!IdxInOld = o
  <2>1. ASSUME keyed, NEW o \in Waiting(oldCh, at), oldCh[o].kind = Patching!NewStart.kind
        PROVE  Patching!IdxInOld = o
    <3>1. o \in found
      BY <1>7, <2>1
    <3>2. Patching!IdxInOld \in found
      BY <1>1, <1>8, <3>1
    <3> QED BY <1>6, <2>1, <3>1, <3>2
  <2> QED BY <2>1
<1> QED BY <1>9, <1>10 DEF keyed

LEMMA SearchStep ==
    ASSUME PatchInv, Patching!Search, UNCHANGED <<leaving, patches, step>>
    PROVE  PatchInv'
<1>1. step = "loop" /\ at.os <= at.oe /\ at.ns <= at.ne /\ Patching!Branch = "search" /\ Patching!Move(0, 0, 1, 0)
  BY DEF Patching!Search, Patching!Looping
<1>2. /\ Patching!TypeOK /\ at.os \in Nat /\ at.oe \in Nat /\ at.ns \in Nat /\ at.ne \in Nat
      /\ 1 <= at.os /\ at.oe <= Len(oldCh) /\ Len(oldCh) \in Nat
  BY LoopFacts
<1>3. at.os \in Waiting(oldCh, at) /\ oldCh[at.os].kind # newCh[at.ns].kind
  BY <1>1, BranchIs, LoopFacts DEF Patching!OldStart, Patching!NewStart
<1>4. at'.os = at.os /\ at'.oe = at.oe /\ at'.ns = at.ns + 1 /\ at'.ne = at.ne
  BY <1>1, <1>2 DEF Patching!Move
<1>5. at'.os \in 1..at'.oe + 1 /\ at'.oe \in 0..Len(oldCh)
  BY <1>2, <1>4, LoopFacts
<1>6. CASE Patching!IdxInOld # 0 /\ Patching!SameVnode(oldCh[Patching!IdxInOld], Patching!NewStart)
  <2> DEFINE p == Patching!IdxInOld  x == oldCh[p].elm
  <2>1. p \in Waiting(oldCh, at) /\ newCh[at.ns].kind = oldCh[p].kind
    BY <1>6, IdxFound DEF Patching!SameVnode, Patching!NewStart
  <2>2. Patching!PatchVnode(p, at.ns) /\ oldCh' = [oldCh EXCEPT ![p] = Patching!Undefined] /\ Patching!Place(x, oldCh[at.os].elm)
    BY <1>6 DEF Patching!Search, Patching!OldStart
  <2> HIDE DEF p
  <2>3. p # at.os
    BY <1>3, <2>1
  <2>4. \A o \in Waiting(oldCh, at) : o \in DOMAIN oldCh
    BY WaitFacts
  <2>5. /\ \A o \in DOMAIN oldCh : o # p => oldCh'[o] = oldCh[o]
        /\ oldCh'[p].elm = 0
    BY <2>1, <2>2, <2>4 DEF Patching!Undefined
  <2>6. Waiting(oldCh', at') = Waiting(oldCh, at) \ {p}
    <3>1. at.os..at.oe \subseteq DOMAIN oldCh
      <4>1. DOMAIN oldCh = 1..Len(oldCh)
        BY <1>2, TypeFacts
      <4> QED BY <1>2, <4>1
    <3> QED BY <1>4, <2>5, <3>1 DEF Waiting
  <2> QED BY <1>1, <1>3, <1>4, <1>5, <2>1, <2>2, <2>3, <2>6, FrontStep
<1>7. CASE ~(Patching!IdxInOld # 0 /\ Patching!SameVnode(oldCh[Patching!IdxInOld], Patching!NewStart))
  <2> DEFINE x == Base + at.ns
  <2>1. /\ Patching!Fresh(at.ns) = x /\ x \in Patching!Elements /\ x \notin Patching!ToSet(dom)
        /\ \A i \in Standing(newCh, at) : newCh[i].elm # x
        /\ \A o \in Waiting(oldCh, at) : oldCh[o].elm # x
    BY <1>1, FreshIsNew
  <2>2. Patching!CreateElm(at.ns, oldCh[at.os].elm) /\ oldCh' = oldCh
    BY <1>7 DEF Patching!Search, Patching!OldStart
  <2> HIDE DEF x
  <2>3. newCh' = [newCh EXCEPT ![at.ns].elm = x] /\ elements' = [elements EXCEPT ![x] = newCh[at.ns].kind]
    BY <2>1, <2>2 DEF Patching!CreateElm
  <2>4. Patching!Place(x, oldCh[at.os].elm)
    BY <2>1, <2>2 DEF Patching!CreateElm
  <2>5. /\ dom' \in Seq(Patching!Elements) /\ Patching!IsInjective(dom') /\ Patching!ToSet(dom') = Patching!ToSet(dom) \cup {x}
        /\ \A f, g : f # x /\ g # x => (Patching!Before(dom', f, g) <=> Patching!Before(dom, f, g))
        /\ \A i \in Leading(newCh, at) : newCh[i].elm # x => Patching!Before(dom', newCh[i].elm, x)
        /\ \A i \in Trailing(newCh, at) : newCh[i].elm # x => Patching!Before(dom', x, newCh[i].elm)
        /\ \A o \in Waiting(oldCh, at) : oldCh[o].elm # x => Patching!Before(dom', x, oldCh[o].elm)
    BY <1>3, <2>1, <2>4, PutFront
  <2>6. /\ \A i \in Leading(newCh, at) : Patching!Before(dom', newCh[i].elm, x)
        /\ \A i \in Trailing(newCh, at) : Patching!Before(dom', x, newCh[i].elm)
        /\ \A o \in Waiting(oldCh, at) : Patching!Before(dom', x, oldCh[o].elm)
    BY <2>1, <2>5 DEF Standing
  <2>7. newCh[at.ns].kind.key # None => \A o \in Waiting(oldCh, at) : oldCh[o].kind # newCh[at.ns].kind
    <3>1. ASSUME newCh[at.ns].kind.key # None, NEW o \in Waiting(oldCh, at), oldCh[o].kind = newCh[at.ns].kind
          PROVE  FALSE
      <4>1. Patching!IdxInOld = o
        BY <3>1, IdxFound DEF Patching!NewStart
      <4>2. o # 0
        BY <1>2 DEF Waiting
      <4> QED BY <1>7, <3>1, <4>1, <4>2 DEF Patching!SameVnode, Patching!NewStart
    <3> QED BY <3>1
  <2>8. Gives(at.ns, x)
    BY <1>1, <1>4, <2>1, <2>3 DEF Gives
  <2>9. x = Base + at.ns
    BY DEF x
  <2> QED BY <1>1, <1>4, <2>2, <2>3, <2>5, <2>6, <2>7, <2>8, <2>9, CreateStep
<1> QED BY <1>6, <1>7

LEMMA AddVnodeStep ==
    ASSUME PatchInv, Patching!AddVnode, UNCHANGED <<leaving, patches, step>>
    PROVE  PatchInv'
<1> DEFINE x == Base + at.ns  ref == IF at.ne < Len(newCh) THEN newCh[at.ne + 1].elm ELSE 0
<1>1. step = "loop" /\ at.os > at.oe /\ at.ns <= at.ne /\ Patching!Move(0, 0, 1, 0) /\ oldCh' = oldCh
  BY DEF Patching!AddVnode
<1>2. /\ Patching!TypeOK /\ at.os \in Nat /\ at.oe \in Nat /\ at.ns \in Nat /\ at.ne \in Nat
      /\ 1 <= at.ns /\ at.ne <= Len(newCh) /\ Len(newCh) \in Nat
      /\ \A i, j \in Standing(newCh, at) : i < j => Patching!Before(dom, newCh[i].elm, newCh[j].elm)
  BY LoopFacts
<1>3. Waiting(oldCh, at) = {}
  BY <1>1, <1>2 DEF Waiting
<1>4. at'.os = at.os /\ at'.oe = at.oe /\ at'.ns = at.ns + 1 /\ at'.ne = at.ne
  BY <1>1, <1>2 DEF Patching!Move
<1>5. /\ Patching!Fresh(at.ns) = x /\ x \in Patching!Elements /\ x \notin Patching!ToSet(dom)
      /\ \A i \in Standing(newCh, at) : newCh[i].elm # x
  BY <1>1, FreshIsNew
<1>6. Patching!CreateElm(at.ns, ref)
  BY DEF Patching!AddVnode
<1> HIDE DEF x
<1>7. newCh' = [newCh EXCEPT ![at.ns].elm = x] /\ elements' = [elements EXCEPT ![x] = newCh[at.ns].kind] /\ Patching!Place(x, ref)
  BY <1>5, <1>6 DEF Patching!CreateElm
<1>8. DOMAIN newCh = 1..Len(newCh)
  BY <1>2, TypeFacts
<1>9. \A i \in Standing(newCh, at) : newCh[i].elm \in Patching!ToSet(dom) /\ newCh[i].elm # 0
  BY <1>2, WaitFacts, BaseType
<1>10. at.ne < Len(newCh) => at.ne + 1 \in Trailing(newCh, at) /\ at.ne + 1 \in Standing(newCh, at)
  BY <1>2, <1>8 DEF Trailing, Standing
<1>11. ref = 0 \/ (ref \in Patching!ToSet(dom) /\ ref # x)
  BY <1>5, <1>9, <1>10
<1>12. ASSUME NEW i \in Leading(newCh, at)
       PROVE  i \in Standing(newCh, at) /\ (ref = 0 \/ Patching!Before(dom, newCh[i].elm, ref))
  <2>1. i \in Standing(newCh, at) /\ i < at.ne + 1
    BY <1>1, <1>2, <1>8 DEF Leading, Standing
  <2> QED BY <1>2, <1>10, <2>1
<1>13. ASSUME NEW i \in Trailing(newCh, at)
       PROVE  i \in Standing(newCh, at) /\ ref # 0 /\ (newCh[i].elm = ref \/ Patching!Before(dom, ref, newCh[i].elm))
  <2>1. i \in Standing(newCh, at) /\ at.ne < Len(newCh) /\ (i = at.ne + 1 \/ at.ne + 1 < i)
    BY <1>2, <1>8 DEF Trailing, Standing
  <2>2. ref = newCh[at.ne + 1].elm
    BY <2>1
  <2> QED BY <1>2, <1>9, <1>10, <2>1, <2>2
<1> HIDE DEF ref
<1>14. /\ dom' \in Seq(Patching!Elements) /\ Patching!IsInjective(dom') /\ Patching!ToSet(dom') = Patching!ToSet(dom) \cup {x}
       /\ \A f, g : f # x /\ g # x => (Patching!Before(dom', f, g) <=> Patching!Before(dom, f, g))
       /\ \A f \in Patching!ToSet(dom) :
             f # x => /\ ref = 0 \/ Patching!Before(dom, f, ref) => Patching!Before(dom', f, x)
                      /\ ref # 0 /\ (f = ref \/ Patching!Before(dom, ref, f)) => Patching!Before(dom', x, f)
  BY <1>2, <1>5, <1>7, <1>11, Placed
<1>15. \A i \in Leading(newCh, at) : Patching!Before(dom', newCh[i].elm, x)
  BY <1>5, <1>9, <1>12, <1>14
<1>16. \A i \in Trailing(newCh, at) : Patching!Before(dom', x, newCh[i].elm)
  BY <1>5, <1>9, <1>13, <1>14
<1>17. Gives(at.ns, x)
  BY <1>1, <1>4, <1>5, <1>7 DEF Gives
<1>18. x = Base + at.ns
  BY DEF x
<1> QED BY <1>1, <1>3, <1>4, <1>7, <1>14, <1>15, <1>16, <1>17, <1>18, CreateStep

LEMMA SkipStep ==
    ASSUME PatchInv, Patching!Skip, UNCHANGED <<leaving, patches, step>>
    PROVE  PatchInv'
<1>1. step = "loop" /\ at.os <= at.oe /\ UNCHANGED <<oldCh, newCh, dom, elements>>
  BY DEF Patching!Skip, Patching!Looping
<1>2. /\ TypeInv /\ Patching!TypeOK /\ Keyed /\ NotReached /\ ByRendering /\ Ordered(oldCh, newCh, at, dom, leaving)
  BY DEF PatchInv, TypeInv
<1>3. /\ at.os \in Nat /\ at.oe \in Nat /\ at.ns \in Nat /\ at.ne \in Nat
      /\ 1 <= at.os /\ at.oe <= Len(oldCh) /\ Len(oldCh) \in Nat
  BY LoopFacts
<1>4. /\ at'.ns = at.ns /\ at'.ne = at.ne
      /\ \/ at'.os = at.os + 1 /\ at'.oe = at.oe /\ oldCh[at.os].elm = 0
         \/ at'.os = at.os /\ at'.oe = at.oe - 1 /\ oldCh[at.oe].elm = 0
  BY <1>3, BranchIs DEF Patching!Skip, Patching!Move, Patching!OldStart, Patching!OldEnd
<1>5. at'.os \in 1..at'.oe + 1 /\ at'.oe \in 0..Len(oldCh)
  BY <1>1, <1>3, <1>4
<1>6. /\ Leading(newCh', at') = Leading(newCh, at) /\ Trailing(newCh', at') = Trailing(newCh, at)
      /\ Standing(newCh', at') = Standing(newCh, at)
  BY <1>1, <1>4 DEF Leading, Trailing, Standing
<1>7. Waiting(oldCh', at') = Waiting(oldCh, at)
  <2>1. CASE at'.os = at.os + 1 /\ at'.oe = at.oe /\ oldCh[at.os].elm = 0
    BY <1>1, <1>3, <2>1 DEF Waiting
  <2>2. CASE at'.os = at.os /\ at'.oe = at.oe - 1 /\ oldCh[at.oe].elm = 0
    BY <1>1, <1>3, <2>2 DEF Waiting
  <2> QED BY <1>4, <2>1, <2>2
<1>8. Patching!TypeOK'
  BY <1>1, <1>2, <1>4, <1>5 DEF Patching!TypeOK
<1>9. NotReached' /\ ByRendering'
  <2>1. step' # "idle" /\ Base' = Base
    BY <1>1 DEF Base
  <2>2. NotReached'
    BY <1>1, <1>2, <1>4, <2>1 DEF NotReached
  <2>3. ByRendering'
    BY <1>1, <1>2, <1>6, <2>1 DEF ByRendering
  <2> QED BY <2>2, <2>3
<1>10. Ordered(oldCh', newCh', at', dom', leaving')
  BY <1>1, <1>2, <1>6, <1>7 DEF Ordered
<1>11. Keyed'
  BY <1>1, <1>2, <1>4, <1>6, <1>7 DEF Keyed, Matched, Unmatched, SameElement
<1> QED BY <1>8, <1>9, <1>10, <1>11 DEF PatchInv, TypeInv

\* An element e is no more among those that stay: it is gone, or leaving.
LEMMA Departs ==
    ASSUME NEW S, dom \in Seq(S), Patching!IsInjective(dom), NEW e, Ordered(oldCh, newCh, at, dom, leaving),
           \/ dom' = Patching!Without(dom, e) /\ Patching!ToSet(dom') \ leaving' = (Patching!ToSet(dom) \ leaving) \ {e}
           \/ dom' = dom /\ leaving' = leaving \cup {e},
           NEW old2, NEW a2, \A i \in Standing(newCh, a2) : newCh[i].elm # e,
           Leading(newCh, a2) = Leading(newCh, at), Trailing(newCh, a2) = Trailing(newCh, at),
           Waiting(old2, a2) = {o \in Waiting(oldCh, at) : oldCh[o].elm # e},
           \A o \in Waiting(old2, a2) : old2[o].elm = oldCh[o].elm
    PROVE  Ordered(old2, newCh, a2, dom', leaving')
<1>1. Standing(newCh, a2) = Standing(newCh, at)
  BY DEF Standing
<1>2. \A f, g : f # e /\ g # e /\ Patching!Before(dom, f, g) => Patching!Before(dom', f, g)
  BY TakenOut
<1>3. Patching!ToSet(dom') \ leaving' = (Patching!ToSet(dom) \ leaving) \ {e}
  OBVIOUS
<1>4. /\ \A i, j \in Standing(newCh, at) : i < j => Patching!Before(dom, newCh[i].elm, newCh[j].elm)
      /\ \A o, p \in Waiting(oldCh, at) : o < p => Patching!Before(dom, oldCh[o].elm, oldCh[p].elm)
      /\ \A i \in Leading(newCh, at), o \in Waiting(oldCh, at) : Patching!Before(dom, newCh[i].elm, oldCh[o].elm)
      /\ \A i \in Trailing(newCh, at), o \in Waiting(oldCh, at) : Patching!Before(dom, oldCh[o].elm, newCh[i].elm)
      /\ Patching!ToSet(dom) \ leaving
           = {newCh[i].elm : i \in Standing(newCh, at)} \cup {oldCh[o].elm : o \in Waiting(oldCh, at)}
  BY DEF Ordered
<1>5. /\ \A o \in Waiting(old2, a2) : o \in Waiting(oldCh, at) /\ old2[o].elm = oldCh[o].elm /\ oldCh[o].elm # e
      /\ \A o \in Waiting(oldCh, at) : oldCh[o].elm # e => o \in Waiting(old2, a2)
  OBVIOUS
<1>6. \A i, j \in Standing(newCh, a2) : i < j => Patching!Before(dom', newCh[i].elm, newCh[j].elm)
  BY <1>1, <1>2, <1>4
<1>7. \A o, p \in Waiting(old2, a2) : o < p => Patching!Before(dom', old2[o].elm, old2[p].elm)
  BY <1>2, <1>4, <1>5
<1>8. \A i \in Leading(newCh, a2), o \in Waiting(old2, a2) : Patching!Before(dom', newCh[i].elm, old2[o].elm)
  BY <1>2, <1>4, <1>5 DEF Standing
<1>9. \A i \in Trailing(newCh, a2), o \in Waiting(old2, a2) : Patching!Before(dom', old2[o].elm, newCh[i].elm)
  BY <1>2, <1>4, <1>5 DEF Standing
<1>10. Patching!ToSet(dom') \ leaving'
         = {newCh[i].elm : i \in Standing(newCh, a2)} \cup {old2[o].elm : o \in Waiting(old2, a2)}
  <2>1. ASSUME NEW f
        PROVE  f \in Patching!ToSet(dom') \ leaving' <=>
                  \/ \E i \in Standing(newCh, a2) : f = newCh[i].elm
                  \/ \E o \in Waiting(old2, a2) : f = old2[o].elm
    <3>1. f \in Patching!ToSet(dom') \ leaving' <=> f \in Patching!ToSet(dom) \ leaving /\ f # e
      BY <1>3
    <3>2. f \in Patching!ToSet(dom) \ leaving <=>
             \/ \E i \in Standing(newCh, at) : f = newCh[i].elm
             \/ \E o \in Waiting(oldCh, at) : f = oldCh[o].elm
      BY <1>4
    <3> QED BY <1>1, <1>5, <3>1, <3>2
  <2> QED BY <2>1
<1> QED BY <1>6, <1>7, <1>8, <1>9, <1>10 DEF Ordered

LEMMA RemoveVnodeStep ==
    ASSUME PatchInv, Patching!RemoveVnode
    PROVE  PatchInv'
<1> DEFINE e == oldCh[at.os].elm  W == Waiting(oldCh, at)
<1>1. /\ step = "loop" /\ at.ns > at.ne /\ at.os <= at.oe /\ UNCHANGED <<oldCh, newCh, elements, patches, step>>
      /\ Patching!Move(1, 0, 0, 0)
  BY DEF Patching!RemoveVnode
<1>2. /\ TypeInv /\ Patching!TypeOK /\ Keyed /\ NotReached /\ ByRendering /\ Ordered(oldCh, newCh, at, dom, leaving)
      /\ leaving \subseteq Patching!ToSet(dom)
  BY DEF PatchInv, TypeInv, Patching!TypeOK
<1>3. /\ at.os \in Nat /\ at.oe \in Nat /\ at.ns \in Nat /\ at.ne \in Nat
      /\ 1 <= at.os /\ at.oe <= Len(oldCh) /\ Len(oldCh) \in Nat
      /\ dom \in Seq(Patching!Elements) /\ Patching!IsInjective(dom)
      /\ e # 0 => at.os \in W
  BY <1>1, LoopFacts
<1>4. at'.os = at.os + 1 /\ at'.oe = at.oe /\ at'.ns = at.ns /\ at'.ne = at.ne
  BY <1>1, <1>3 DEF Patching!Move
<1>5. at'.os \in 1..at'.oe + 1 /\ at'.oe \in 0..Len(oldCh)
  BY <1>1, <1>3, <1>4
<1>6. /\ Leading(newCh, at') = Leading(newCh, at) /\ Trailing(newCh, at') = Trailing(newCh, at)
      /\ Standing(newCh, at') = Standing(newCh, at)
  BY <1>4 DEF Leading, Trailing, Standing
<1>7. Waiting(oldCh, at') = {o \in W : o # at.os}
  BY <1>3, <1>4 DEF Waiting
<1>8. e = 0 => Waiting(oldCh, at') = W
  BY <1>7 DEF Waiting
<1>9. \/ e = 0 /\ UNCHANGED <<dom, leaving>>
      \/ e # 0 /\ dom' = Patching!Without(dom, e) /\ leaving' = leaving
      \/ e # 0 /\ leaving' = leaving \cup {e} /\ dom' = dom
  BY DEF Patching!RemoveVnode, Patching!OldStart
<1>10. e # 0 => e \in Patching!ToSet(dom) /\ e \notin leaving
  BY <1>3, WaitFacts
<1>11. /\ Patching!Without(dom, e) \in Seq(Patching!Elements) /\ Patching!IsInjective(Patching!Without(dom, e))
       /\ Patching!ToSet(Patching!Without(dom, e)) = Patching!ToSet(dom) \ {e}
  BY <1>3, TakenOut
<1>12. /\ dom' \in Seq(Patching!Elements) /\ Patching!IsInjective(dom') /\ leaving' \subseteq Patching!ToSet(dom')
       /\ Patching!ToSet(dom') \subseteq Patching!ToSet(dom)
  BY <1>2, <1>3, <1>9, <1>10, <1>11
<1>13. Patching!TypeOK'
  BY <1>1, <1>2, <1>4, <1>5, <1>12 DEF Patching!TypeOK
<1>14. NotReached' /\ ByRendering'
  <2>1. step' # "idle" /\ Base' = Base
    BY <1>1 DEF Base
  <2>2. NotReached'
    BY <1>1, <1>2, <1>4, <2>1 DEF NotReached
  <2>3. ByRendering'
    BY <1>1, <1>2, <1>6, <1>12, <2>1 DEF ByRendering
  <2> QED BY <2>2, <2>3
<1>15. Ordered(oldCh', newCh', at', dom', leaving')
  <2>1. CASE e = 0
    BY <1>1, <1>2, <1>6, <1>8, <1>9, <2>1 DEF Ordered
  <2>2. CASE e # 0
    <3>1. Waiting(oldCh, at') = {o \in W : oldCh[o].elm # e}
      BY <1>3, <1>7, <2>2, WaitFacts
    <3>2. \A i \in Standing(newCh, at') : newCh[i].elm # e
      BY <1>3, <1>6, <2>2, Apart
    <3>3. \/ dom' = Patching!Without(dom, e) /\ Patching!ToSet(dom') \ leaving' = (Patching!ToSet(dom) \ leaving) \ {e}
          \/ dom' = dom /\ leaving' = leaving \cup {e}
      BY <1>9, <1>11, <2>2
    <3> HIDE DEF e
    <3>4. Ordered(oldCh, newCh, at', dom', leaving')
      BY <1>2, <1>3, <1>6, <3>1, <3>2, <3>3, Departs
    <3> QED BY <1>1, <3>4
  <2> QED BY <2>1, <2>2
<1>16. Keyed'
  <2>1. /\ KeysDiffer(oldCh) /\ KeysDiffer(newCh) /\ OfItsKind(oldCh, elements) /\ OfItsKind(newCh, elements)
        /\ Unmatched(oldCh, newCh, at) /\ SameElement(oldCh, newCh, at)
    BY <1>2 DEF Keyed
  <2>2. Unmatched(oldCh, newCh, at')
    BY <1>6, <1>7, <2>1 DEF Unmatched
  <2>3. SameElement(oldCh, newCh, at')
    <3>1. ASSUME NEW o \in DOMAIN oldCh \ Waiting(oldCh, at'), NEW j \in Standing(newCh, at),
                 oldCh[o].elm # 0, newCh[j].kind = oldCh[o].kind, newCh[j].kind.key # None
          PROVE  newCh[j].elm = oldCh[o].elm
      <4>1. CASE o \in W
        BY <2>1, <3>1, <4>1 DEF Unmatched
      <4>2. CASE o \notin W
        BY <2>1, <3>1, <4>2 DEF SameElement
      <4> QED BY <4>1, <4>2
    <3> QED BY <1>6, <3>1 DEF SameElement
  <2>4. ~(at'.ns <= at'.ne)
    BY <1>1, <1>3, <1>4
  <2> QED BY <1>1, <2>1, <2>2, <2>3, <2>4 DEF Keyed
<1> QED BY <1>13, <1>14, <1>15, <1>16 DEF PatchInv, TypeInv

\* Between renderings every child has its element and none waits.
LEMMA IdleFacts ==
    ASSUME PatchInv, step = "idle"
    PROVE  /\ oldCh = <<>> /\ at.os = 1 /\ at.oe = 0 /\ at.ns = 1 /\ at.ne = 0
           /\ Waiting(oldCh, at) = {} /\ Standing(newCh, at) = DOMAIN newCh
           /\ Trailing(newCh, at) = DOMAIN newCh /\ Leading(newCh, at) = {}
           /\ DOMAIN newCh = 1..Len(newCh) /\ Len(newCh) \in Nat
           /\ Patching!ToSet(dom) \ leaving = {newCh[i].elm : i \in DOMAIN newCh}
           /\ \A i, j \in DOMAIN newCh : i < j => Patching!Before(dom, newCh[i].elm, newCh[j].elm)
<1>1. oldCh = <<>> /\ at.os = 1 /\ at.oe = 0 /\ at.ns = 1 /\ at.ne = 0
  BY DEF PatchInv, TypeInv, NotReached
<1>2. Patching!TypeOK /\ Ordered(oldCh, newCh, at, dom, leaving)
  BY DEF PatchInv, TypeInv
<1>3. DOMAIN newCh = 1..Len(newCh) /\ Len(newCh) \in Nat
  BY <1>2, TypeFacts
<1>4. Trailing(newCh, at) = DOMAIN newCh /\ Leading(newCh, at) = {}
  BY <1>1, <1>3 DEF Trailing, Leading
<1>5. Standing(newCh, at) = DOMAIN newCh
  BY <1>4 DEF Standing
<1>6. Waiting(oldCh, at) = {}
  BY <1>1 DEF Waiting
<1>7. /\ Patching!ToSet(dom) \ leaving = {newCh[i].elm : i \in DOMAIN newCh}
      /\ \A i, j \in DOMAIN newCh : i < j => Patching!Before(dom, newCh[i].elm, newCh[j].elm)
  BY <1>2, <1>5, <1>6 DEF Ordered
<1> QED BY <1>1, <1>3, <1>4, <1>5, <1>6, <1>7

LEMMA LeftStep ==
    ASSUME PatchInv, NEW e \in leaving, Patching!Left(e)
    PROVE  PatchInv'
<1>1. /\ step = "idle" /\ leaving' = leaving \ {e} /\ dom' = Patching!Without(dom, e)
      /\ UNCHANGED <<oldCh, newCh, at, elements, patches, step>>
  BY DEF Patching!Left
<1>2. /\ Patching!TypeOK /\ Keyed /\ NotReached /\ ByRendering /\ Ordered(oldCh, newCh, at, dom, leaving)
      /\ dom \in Seq(Patching!Elements) /\ Patching!IsInjective(dom) /\ leaving \subseteq Patching!ToSet(dom)
  BY DEF PatchInv, TypeInv, Patching!TypeOK
<1>3. dom' \in Seq(Patching!Elements) /\ Patching!IsInjective(dom') /\ Patching!ToSet(dom') = Patching!ToSet(dom) \ {e}
  BY <1>1, <1>2, TakenOut
<1>4. Patching!TypeOK'
  <2>1. leaving' \subseteq Patching!ToSet(dom')
    BY <1>1, <1>2, <1>3
  <2> QED BY <1>1, <1>2, <1>3, <2>1 DEF Patching!TypeOK
<1>5. NotReached' /\ ByRendering'
  BY <1>1, <1>2, <1>3 DEF NotReached, ByRendering, Base
<1>6. Ordered(oldCh, newCh, at, dom', leaving')
  <2>1. /\ \A i \in Standing(newCh, at) : newCh[i].elm # e
        /\ Waiting(oldCh, at) = {}
    BY WaitFacts, IdleFacts, <1>1
  <2>2. Patching!ToSet(dom') \ leaving' = (Patching!ToSet(dom) \ leaving) \ {e}
    BY <1>1, <1>3
  <2>3. Waiting(oldCh, at) = {o \in Waiting(oldCh, at) : oldCh[o].elm # e}
    BY <2>1
  <2> QED BY <1>1, <1>2, <2>1, <2>2, <2>3, Departs
<1>7. Keyed'
  BY <1>1, <1>2 DEF Keyed
<1> QED BY <1>1, <1>4, <1>5, <1>6, <1>7 DEF PatchInv, TypeInv

LEMMA EndPatchStep ==
    ASSUME PatchInv, Patching!EndPatch
    PROVE  PatchInv'
<1>1. /\ step = "loop" /\ at.os > at.oe /\ at.ns > at.ne /\ step' = "idle" /\ oldCh' = <<>>
      /\ at'.os = 1 /\ at'.oe = 0 /\ at'.ns = 1 /\ at'.ne = 0
      /\ UNCHANGED <<newCh, dom, leaving, elements, patches>>
  BY DEF Patching!EndPatch
<1>2. /\ Patching!TypeOK /\ Keyed /\ NotReached /\ ByRendering /\ Ordered(oldCh, newCh, at, dom, leaving)
  BY DEF PatchInv, TypeInv
<1>3. /\ at.os \in Nat /\ at.oe \in Nat /\ at.ns \in Nat /\ at.ne \in Nat
      /\ DOMAIN newCh = 1..Len(newCh) /\ Len(newCh) \in Nat
  BY <1>2, TypeFacts
<1>4. Standing(newCh, at) = DOMAIN newCh /\ Waiting(oldCh, at) = {}
  BY <1>1, <1>3 DEF Standing, Leading, Trailing, Waiting
<1>5. /\ Trailing(newCh, at') = DOMAIN newCh /\ Leading(newCh, at') = {}
      /\ Standing(newCh, at') = DOMAIN newCh /\ Waiting(oldCh', at') = {}
  BY <1>1, <1>3 DEF Standing, Leading, Trailing, Waiting
<1>6. /\ <<>> \in Seq(Patching!Vnodes \cup {Patching!Undefined}) /\ Len(<<>>) = 0 /\ DOMAIN <<>> = {}
  OBVIOUS
<1>7. Patching!TypeOK'
  <2>1. at'.os \in 1..at'.oe + 1 /\ at'.oe \in 0..Len(oldCh') /\ at'.ns \in 1..at'.ne + 1 /\ at'.ne \in 0..Len(newCh')
    BY <1>1, <1>3, <1>6
  <2>2. oldCh' \in Seq(Patching!Vnodes \cup {Patching!Undefined}) /\ Len(oldCh') <= MaxChildren
    BY <1>1, <1>6, LibraryBounds
  <2> QED BY <1>1, <1>2, <2>1, <2>2 DEF Patching!TypeOK
<1>8. NotReached' /\ ByRendering'
  <2>1. NotReached'
    BY <1>1 DEF NotReached
  <2>2. ByRendering'
    BY <1>1, <1>2, <1>4, <1>5, <1>6 DEF ByRendering, Base
  <2> QED BY <2>1, <2>2
<1>9. Ordered(oldCh', newCh', at', dom', leaving')
  BY <1>1, <1>2, <1>4, <1>5 DEF Ordered
<1>10. Keyed'
  <2>1. KeysDiffer(newCh) /\ OfItsKind(newCh, elements)
    BY <1>2 DEF Keyed
  <2>2. KeysDiffer(<<>>) /\ OfItsKind(<<>>, elements)
    BY <1>6 DEF KeysDiffer, OfItsKind
  <2>3. Unmatched(oldCh', newCh, at') /\ SameElement(oldCh', newCh, at')
    BY <1>1, <1>5, <1>6 DEF Unmatched, SameElement
  <2>4. ~(at'.ns <= at'.ne)
    BY <1>1
  <2> QED BY <1>1, <2>1, <2>2, <2>3, <2>4 DEF Keyed
<1> QED BY <1>7, <1>8, <1>9, <1>10 DEF PatchInv, TypeInv

LEMMA ListFacts ==
    ASSUME NEW list \in Patching!Lists
    PROVE  /\ Len(list) \in Nat /\ Len(list) <= MaxChildren /\ DOMAIN list = 1..Len(list)
           /\ \A i \in DOMAIN list : list[i] \in ListKinds
           /\ \A i, j \in DOMAIN list : i # j => list[i].key = None \/ list[i].key # list[j].key
<1>1. PICK m \in 0..MaxChildren : list \in [1..m -> ListKinds]
  BY DEF Patching!Lists, Patching!BoundedSeq, Patching!SeqOf
<1>2. m \in Nat /\ m <= MaxChildren
  BY LibraryBounds
<1>3. list \in Seq(ListKinds)
  BY <1>1, <1>2, SeqDef
<1>4. Len(list) \in Nat /\ DOMAIN list = 1..Len(list)
  BY <1>3, LenProperties
<1>5. Len(list) = m
  BY <1>1, <1>2, <1>4
<1> QED BY <1>1, <1>2, <1>4, <1>5 DEF Patching!Lists

LEMMA RenderStep ==
    ASSUME PatchInv, NEW list \in Patching!Lists, Patching!Render(list)
    PROVE  PatchInv'
<1>1. /\ step = "idle" /\ patches < MaxPatches /\ oldCh' = newCh
      /\ newCh' = [i \in DOMAIN list |-> Patching!Vnode(list[i], 0)]
      /\ at'.os = 1 /\ at'.oe = Len(newCh) /\ at'.ns = 1 /\ at'.ne = Len(list)
      /\ patches' = patches + 1 /\ step' = "loop" /\ UNCHANGED <<dom, leaving, elements>>
  BY DEF Patching!Render
<1>2. /\ Patching!TypeOK /\ Keyed /\ ByRendering /\ newCh \in Seq(Patching!Vnodes)
  BY DEF PatchInv, TypeInv, Patching!TypeOK
<1>3. /\ Len(list) \in Nat /\ Len(list) <= MaxChildren /\ DOMAIN list = 1..Len(list)
      /\ \A i \in DOMAIN list : list[i] \in ListKinds
      /\ \A i, j \in DOMAIN list : i # j => list[i].key = None \/ list[i].key # list[j].key
  BY ListFacts
<1>4. /\ DOMAIN newCh = 1..Len(newCh) /\ Len(newCh) \in Nat
      /\ Standing(newCh, at) = DOMAIN newCh
      /\ Patching!ToSet(dom) \ leaving = {newCh[i].elm : i \in DOMAIN newCh}
      /\ \A i, j \in DOMAIN newCh : i < j => Patching!Before(dom, newCh[i].elm, newCh[j].elm)
  BY <1>1, IdleFacts
<1>5. /\ DOMAIN newCh' = 1..Len(list)
      /\ \A i \in DOMAIN newCh' : newCh'[i].kind = list[i] /\ newCh'[i].elm = 0 /\ newCh'[i] \in Patching!Vnodes
  BY <1>1, <1>3 DEF Patching!Vnode, Patching!Vnodes
<1>6. newCh' \in Seq(Patching!Vnodes) /\ Len(newCh') = Len(list)
  <2>1. newCh' \in [1..Len(list) -> Patching!Vnodes]
    BY <1>1, <1>3, <1>5
  <2>2. newCh' \in Seq(Patching!Vnodes)
    BY <1>3, <2>1, SeqDef
  <2> QED BY <1>3, <1>5, <2>2, LenProperties
<1>7. \A o \in DOMAIN newCh : newCh[o].elm # 0
  <2>1. \A o \in DOMAIN newCh : newCh[o].elm \in Patching!ToSet(dom)
    BY <1>4
  <2>2. Patching!ToSet(dom) \subseteq Patching!Elements
    BY WaitFacts
  <2> QED BY <1>2, <2>1, <2>2, BaseType
<1>8. Waiting(oldCh', at') = DOMAIN newCh
  BY <1>1, <1>4, <1>7 DEF Waiting
<1>9. Standing(newCh', at') = {} /\ Leading(newCh', at') = {} /\ Trailing(newCh', at') = {}
  BY <1>1, <1>3, <1>5 DEF Standing, Leading, Trailing
<1>10. Patching!TypeOK'
  <2>1. oldCh' \in Seq(Patching!Vnodes \cup {Patching!Undefined}) /\ Len(oldCh') <= MaxChildren
    <3>1. Len(newCh) <= MaxChildren
      BY <1>2 DEF Patching!TypeOK
    <3>2. newCh \in Seq(Patching!Vnodes \cup {Patching!Undefined})
      BY <1>2, <1>4, SeqDef
    <3> QED BY <1>1, <3>1, <3>2
  <2>2. at'.os \in 1..at'.oe + 1 /\ at'.oe \in 0..Len(oldCh') /\ at'.ns \in 1..at'.ne + 1 /\ at'.ne \in 0..Len(newCh')
    BY <1>1, <1>3, <1>4, <1>6
  <2>3. patches' \in 0..MaxPatches
    BY <1>1, <1>2, LibraryBounds DEF Patching!TypeOK
  <2> QED BY <1>1, <1>2, <1>3, <1>6, <2>1, <2>2, <2>3 DEF Patching!TypeOK
<1>11. NotReached'
  BY <1>1, <1>5 DEF NotReached
<1>12. Base \in Nat /\ MaxChildren \in Nat /\ Base' = Base + MaxChildren
  BY <1>1, <1>2, BaseType, LibraryBounds DEF Base
<1>13. \A i \in DOMAIN newCh : newCh[i].elm <= Base'
  <2>1. Len(newCh) <= MaxChildren /\ \A i \in DOMAIN newCh : newCh[i].elm \in Patching!Elements \cup {0}
    BY <1>2, TypeFacts, ElmType
  <2>2. \A i \in DOMAIN newCh : newCh[i].elm \in Nat
    BY <1>2, <2>1, BaseType
  <2>3. \A i \in DOMAIN newCh : newCh[i].elm <= Base \/ newCh[i].elm = Base + i
    BY <1>2 DEF ByRendering
  <2>4. \A i \in DOMAIN newCh : i \in Nat /\ i <= MaxChildren
    BY <1>4, <1>12, <2>1
  <2> QED BY <1>12, <2>2, <2>3, <2>4
<1>14. ByRendering'
  <2>1. \A e \in Patching!ToSet(dom) : e <= Base'
    <3>1. ASSUME NEW e \in Patching!ToSet(dom) PROVE e <= Base'
      <4>1. e \in Nat
        BY <1>2, WaitFacts, BaseType
      <4>2. CASE e <= Base
        BY <1>12, <4>1, <4>2
      <4>3. CASE ~(e <= Base)
        <5>1. PICK i \in Standing(newCh, at) : e = Base + i
          BY <1>2, <4>3 DEF ByRendering
        <5>2. i \in Nat /\ i <= MaxChildren
          BY <1>2, <1>4, <1>12, <5>1, TypeFacts
        <5> QED BY <1>12, <5>1, <5>2
      <4> QED BY <4>2, <4>3
    <3> QED BY <3>1
  <2>2. \A i \in DOMAIN newCh' : newCh'[i].elm <= Base'
    BY <1>5, <1>12
  <2> QED BY <1>1, <1>13, <2>1, <2>2 DEF ByRendering
<1>15. Ordered(oldCh', newCh', at', dom', leaving')
  BY <1>1, <1>4, <1>8, <1>9 DEF Ordered
<1>16. Keyed'
  <2>1. KeysDiffer(newCh) /\ OfItsKind(newCh, elements)
    BY <1>2 DEF Keyed
  <2>2. KeysDiffer(newCh')
    BY <1>3, <1>5 DEF KeysDiffer
  <2>3. OfItsKind(newCh', elements')
    BY <1>5 DEF OfItsKind
  <2>4. Matched(oldCh', newCh', at') /\ Unmatched(oldCh', newCh', at') /\ SameElement(oldCh', newCh', at')
    BY <1>1, <1>8, <1>9 DEF Matched, Unmatched, SameElement
  <2> QED BY <1>1, <2>1, <2>2, <2>3, <2>4 DEF Keyed
<1> QED BY <1>10, <1>11, <1>14, <1>15, <1>16 DEF PatchInv, TypeInv

LEMMA InitInv ==
    ASSUME Patching!Init
    PROVE  PatchInv
<1>1. PICK list \in Patching!Lists :
         /\ newCh = [i \in DOMAIN list |-> Patching!Vnode(list[i], i)]
         /\ dom = [i \in DOMAIN list |-> i]
         /\ elements = [e \in Patching!Elements |-> IF e \in DOMAIN list THEN list[e] ELSE Patching!Undefined.kind]
  BY DEF Patching!Init
<1>2. /\ oldCh = <<>> /\ leaving = {} /\ patches = 0 /\ step = "idle"
      /\ at.os = 1 /\ at.oe = 0 /\ at.ns = 1 /\ at.ne = 0
  BY DEF Patching!Init
<1>3. /\ Len(list) \in Nat /\ Len(list) <= MaxChildren /\ DOMAIN list = 1..Len(list)
      /\ \A i \in DOMAIN list : list[i] \in ListKinds
      /\ \A i, j \in DOMAIN list : i # j => list[i].key = None \/ list[i].key # list[j].key
  BY ListFacts
<1>4. MaxChildren \in Nat /\ MaxPatches \in Nat
  BY LibraryBounds
<1>5. MaxChildren <= (MaxPatches + 1) * MaxChildren /\ (MaxPatches + 1) * MaxChildren \in Nat
  <2>1. (MaxPatches + 1) * MaxChildren = MaxPatches * MaxChildren + MaxChildren
    BY <1>4
  <2>2. MaxPatches * MaxChildren \in Nat
    BY <1>4
  <2> QED BY <1>4, <2>1, <2>2
<1>6. \A i \in 1..Len(list) : i \in Patching!Elements
  BY <1>3, <1>4, <1>5 DEF Patching!Elements
<1>7. /\ DOMAIN newCh = 1..Len(list)
      /\ \A i \in DOMAIN newCh : newCh[i].kind = list[i] /\ newCh[i].elm = i /\ newCh[i] \in Patching!Vnodes
  BY <1>1, <1>3, <1>6 DEF Patching!Vnode, Patching!Vnodes
<1>8. newCh \in Seq(Patching!Vnodes) /\ Len(newCh) = Len(list)
  <2>1. newCh \in [1..Len(list) -> Patching!Vnodes]
    BY <1>1, <1>3, <1>7
  <2>2. newCh \in Seq(Patching!Vnodes)
    BY <1>3, <2>1, SeqDef
  <2> QED BY <1>3, <1>7, <2>2, LenProperties
<1>9. dom \in Seq(Patching!Elements) /\ Patching!IsInjective(dom) /\ Patching!ToSet(dom) = 1..Len(list) /\ DOMAIN dom = 1..Len(list)
  <2>1. dom \in [1..Len(list) -> Patching!Elements] /\ DOMAIN dom = 1..Len(list)
    BY <1>1, <1>3, <1>6
  <2>2. dom \in Seq(Patching!Elements)
    BY <1>3, <2>1, SeqDef
  <2>3. \A i \in 1..Len(list) : dom[i] = i
    BY <1>1, <1>3
  <2>4. Patching!IsInjective(dom)
    BY <2>1, <2>3 DEF Patching!IsInjective
  <2>5. Patching!ToSet(dom) = 1..Len(list)
    BY <2>1, <2>3 DEF Patching!ToSet
  <2> QED BY <2>1, <2>2, <2>4, <2>5
<1>10. /\ <<>> \in Seq(Patching!Vnodes \cup {Patching!Undefined}) /\ Len(<<>>) = 0 /\ DOMAIN <<>> = {}
  OBVIOUS
<1>11. Patching!TypeOK
  <2>1. elements \in [Patching!Elements -> ListKinds \cup {Patching!Undefined.kind}]
    BY <1>1, <1>3
  <2>2. at.os \in 1..at.oe + 1 /\ at.oe \in 0..Len(oldCh) /\ at.ns \in 1..at.ne + 1 /\ at.ne \in 0..Len(newCh)
    BY <1>2, <1>3, <1>8, <1>10
  <2>3. patches \in 0..MaxPatches /\ Len(oldCh) <= MaxChildren /\ Len(newCh) <= MaxChildren
    BY <1>2, <1>3, <1>4, <1>8, <1>10
  <2> QED BY <1>2, <1>8, <1>9, <1>10, <2>1, <2>2, <2>3 DEF Patching!TypeOK
<1>12. Base = 0
  BY <1>2, <1>4 DEF Base
<1>13. /\ Standing(newCh, at) = DOMAIN newCh /\ Waiting(oldCh, at) = {} /\ Leading(newCh, at) = {}
  BY <1>2, <1>7 DEF Standing, Leading, Trailing, Waiting
<1>14. NotReached
  BY <1>2 DEF NotReached
<1>15. ByRendering
  <2>1. \A i \in DOMAIN newCh : newCh[i].elm = Base + i /\ i \in Standing(newCh, at)
    BY <1>7, <1>12, <1>13
  <2>2. \A e \in Patching!ToSet(dom) : e \in Standing(newCh, at) /\ e = Base + e
    BY <1>7, <1>9, <1>12, <1>13
  <2> QED BY <1>2, <1>10, <2>1, <2>2 DEF ByRendering
<1>16. Ordered(oldCh, newCh, at, dom, leaving)
  <2>1. \A i \in DOMAIN dom : dom[i] = i
    BY <1>1
  <2>2. ASSUME NEW i \in DOMAIN newCh, NEW j \in DOMAIN newCh, i < j
        PROVE  Patching!Before(dom, newCh[i].elm, newCh[j].elm)
    BY <1>7, <1>9, <2>1, <2>2 DEF Patching!Before
  <2>3. Patching!ToSet(dom) \ leaving = {newCh[i].elm : i \in Standing(newCh, at)} \cup {oldCh[o].elm : o \in Waiting(oldCh, at)}
    BY <1>2, <1>7, <1>9, <1>13
  <2> QED BY <1>13, <2>2, <2>3 DEF Ordered
<1>17. Keyed
  <2>1. KeysDiffer(newCh)
    BY <1>3, <1>7 DEF KeysDiffer
  <2>2. OfItsKind(newCh, elements)
    BY <1>1, <1>3, <1>6, <1>7 DEF OfItsKind
  <2>3. KeysDiffer(oldCh) /\ OfItsKind(oldCh, elements) /\ Unmatched(oldCh, newCh, at) /\ SameElement(oldCh, newCh, at)
    BY <1>2, <1>10, <1>13 DEF KeysDiffer, OfItsKind, Unmatched, SameElement
  <2>4. ~(at.ns <= at.ne)
    BY <1>2
  <2> QED BY <2>1, <2>2, <2>3, <2>4 DEF Keyed
<1> QED BY <1>11, <1>14, <1>15, <1>16, <1>17 DEF PatchInv, TypeInv

-----------------------------------------------------------------------------
LEMMA StepInv ==
    ASSUME PatchInv, [Patching!Next]_Patching!vars
    PROVE  PatchInv'
<1>1. CASE \E list \in Patching!Lists : Patching!Render(list)
  BY <1>1, RenderStep
<1>2. CASE Patching!Loop
  <2>1. UNCHANGED <<leaving, patches, step>> /\ (Patching!Skip \/ Patching!SameEnds \/ Patching!MovedRight \/ Patching!MovedLeft \/ Patching!Search \/ Patching!AddVnode)
    BY <1>2 DEF Patching!Loop
  <2> QED BY <2>1, SkipStep, SameEndsStep, MovedRightStep, MovedLeftStep, SearchStep, AddVnodeStep
<1>3. CASE Patching!RemoveVnode
  BY <1>3, RemoveVnodeStep
<1>4. CASE Patching!EndPatch
  BY <1>4, EndPatchStep
<1>5. CASE \E e \in leaving : Patching!Left(e)
  BY <1>5, LeftStep
<1>6. CASE UNCHANGED Patching!vars
  <2>1. /\ oldCh' = oldCh /\ newCh' = newCh /\ at' = at /\ dom' = dom /\ leaving' = leaving
        /\ elements' = elements /\ patches' = patches /\ step' = step
    BY <1>6 DEF Patching!vars
  <2>2. Patching!TypeOK'
    BY <2>1 DEF PatchInv, TypeInv, Patching!TypeOK
  <2>3. NotReached' /\ ByRendering'
    BY <2>1 DEF PatchInv, TypeInv, NotReached, ByRendering, Base
  <2>4. Ordered(oldCh', newCh', at', dom', leaving')
    BY <2>1 DEF PatchInv
  <2>5. Keyed'
    BY <2>1 DEF PatchInv, Keyed
  <2> QED BY <2>2, <2>3, <2>4, <2>5 DEF PatchInv, TypeInv
<1> QED BY <1>1, <1>2, <1>3, <1>4, <1>5, <1>6 DEF Patching!Next

LEMMA InvShows ==
    ASSUME PatchInv
    PROVE  Patching!TypeOK /\ Patching!ShownAsRendered /\ Patching!KeysKeepElements
<1>1. Patching!TypeOK /\ NotReached /\ Keyed
  BY DEF PatchInv, TypeInv
<1>2. Patching!ShownAsRendered
  BY IdleFacts DEF Patching!ShownAsRendered
<1>3. Patching!KeysKeepElements
  <2>1. /\ OfItsKind(newCh, elements) /\ Unmatched(oldCh, newCh, at) /\ SameElement(oldCh, newCh, at)
    BY <1>1 DEF Keyed
  <2>2. ASSUME NEW i \in DOMAIN oldCh, NEW j \in DOMAIN newCh, newCh[j].elm # 0, ~Patching!Undef(oldCh[i]),
               newCh[j].kind = oldCh[i].kind, newCh[j].kind.key # None
        PROVE  newCh[j].elm = oldCh[i].elm
    <3>1. at.ns \in Nat /\ at.ne \in Nat /\ DOMAIN newCh = 1..Len(newCh) /\ Len(newCh) \in Nat
      BY <1>1, TypeFacts
    <3>2. j \in Standing(newCh, at)
      <4>1. j \notin at.ns..at.ne
        BY <1>1, <2>2 DEF NotReached
      <4> QED BY <3>1, <4>1 DEF Standing, Leading, Trailing
    <3>3. oldCh[i].elm # 0
      BY <2>2 DEF Patching!Undef
    <3>4. i \notin Waiting(oldCh, at)
      BY <2>1, <2>2, <3>2 DEF Unmatched
    <3> QED BY <2>1, <2>2, <3>2, <3>3, <3>4 DEF SameElement
  <2> QED BY <2>1, <2>2 DEF Patching!KeysKeepElements, OfItsKind
<1> QED BY <1>1, <1>2, <1>3

LEMMA PatchShows == Patching!Spec => [](Patching!TypeOK /\ Patching!ShownAsRendered /\ Patching!KeysKeepElements)
<1>1. Patching!Init => PatchInv
  BY InitInv
<1>2. PatchInv /\ [Patching!Next]_Patching!vars => PatchInv'
  BY StepInv
<1>3. PatchInv => Patching!TypeOK /\ Patching!ShownAsRendered /\ Patching!KeysKeepElements
  BY InvShows
<1> QED BY <1>1, <1>2, <1>3, PTL DEF Patching!Spec

-----------------------------------------------------------------------------
(* Transitions: the element of the last rendering has no leave under way, and  *)
(* only the leave of an element takes it from the page.                        *)

Kinds == {"enter", "leave"}
Elements == [key : Keys, on : BOOLEAN, classes : SUBSET Moving!Classes, _enterCb : Nat, _leaveCb : Nat]
Callbacks == [el : Nat, kind : Kinds, hook : Nat, cancelled : BOOLEAN, called : BOOLEAN]
Runs == [el : Seq(Elements), cbs : Seq(Callbacks), _pending : [Keys -> Nat], frames : Seq(Nat),
         ends : SUBSET Nat, _leaving : BOOLEAN, queued : BOOLEAN]

\* What is waited for, pending or delayed exists.
Waits(v) ==
    /\ v.ends \subseteq DOMAIN v.cbs
    /\ \A i \in DOMAIN v.frames : v.frames[i] \in DOMAIN v.cbs
    /\ \A k \in Keys : v._pending[k] \in {0} \cup DOMAIN v.el
Links(v) ==
    /\ \A n \in DOMAIN v.cbs : v.cbs[n].el \in DOMAIN v.el
    /\ \A n \in DOMAIN v.cbs : v.cbs[n].kind = "enter" /\ v.cbs[n].hook # 0 =>
          v.cbs[n].hook \in DOMAIN v.cbs /\ v.cbs[v.cbs[n].hook].kind = "leave"
    /\ \A e \in DOMAIN v.el : v.el[e]._enterCb # 0 =>
          /\ v.el[e]._enterCb \in DOMAIN v.cbs
          /\ v.cbs[v.el[e]._enterCb].el = e /\ v.cbs[v.el[e]._enterCb].kind = "enter"
    /\ \A e \in DOMAIN v.el : v.el[e]._leaveCb # 0 =>
          /\ v.el[e]._leaveCb \in DOMAIN v.cbs
          /\ v.cbs[v.el[e]._leaveCb].el = e /\ v.cbs[v.el[e]._leaveCb].kind = "leave"

\* A leave that is not over is the one its element knows of, and is over once it is
\* cancelled; m is a callback that is about to be called.
Leaving(v, n) == v.cbs[n].kind = "leave" /\ ~v.cbs[n].called
SoundBut(v, m) ==
    /\ v \in Runs /\ Waits(v) /\ Links(v)
    /\ \A n \in DOMAIN v.cbs : Leaving(v, n) => v.el[v.cbs[n].el]._leaveCb = n
    /\ \A n \in DOMAIN v.cbs : v.cbs[n].cancelled /\ n # m => v.cbs[n].called
Sound(v) == SoundBut(v, 0)

\* No leave of element s is under way; w comes from v, and s was not taken.
Away(v, s) == \A n \in DOMAIN v.cbs : Leaving(v, n) => v.cbs[n].el # s
NotTaken(v, w, s) ==
    \A e \in DOMAIN v.el : e \in DOMAIN w.el /\ (v.el[e].on /\ ~w.el[e].on => e # s)
Gentle(v, w) == \A s \in Nat : Away(v, s) => Away(w, s) /\ NotTaken(v, w, s)

-----------------------------------------------------------------------------
LEMMA Indices ==
    ASSUME NEW v \in Runs
    PROVE  /\ DOMAIN v.el = 1..Len(v.el) /\ Len(v.el) \in Nat
           /\ DOMAIN v.cbs = 1..Len(v.cbs) /\ Len(v.cbs) \in Nat
           /\ \A e \in DOMAIN v.el : v.el[e] \in Elements
           /\ \A n \in DOMAIN v.cbs : v.cbs[n] \in Callbacks
           /\ 0 \notin DOMAIN v.el /\ 0 \notin DOMAIN v.cbs
<1>1. v.el \in Seq(Elements) /\ v.cbs \in Seq(Callbacks)
  BY DEF Runs
<1>2. /\ DOMAIN v.el = 1..Len(v.el) /\ Len(v.el) \in Nat
      /\ DOMAIN v.cbs = 1..Len(v.cbs) /\ Len(v.cbs) \in Nat
  BY <1>1, LenProperties
<1>3. /\ \A e \in DOMAIN v.el : v.el[e] \in Elements
      /\ \A n \in DOMAIN v.cbs : v.cbs[n] \in Callbacks
  BY <1>1, <1>2, ElementOfSeq
<1> QED BY <1>2, <1>3

\* An element or a callback is changed.
IsElement(v, e, x, w) == w = [v EXCEPT !.el[e] = x]
IsCallback(v, n, c, w) == w = [v EXCEPT !.cbs[n] = c]

LEMMA ElementChanged ==
    ASSUME NEW v \in Runs, NEW e \in DOMAIN v.el, NEW x \in Elements, NEW w, IsElement(v, e, x, w)
    PROVE  /\ w \in Runs /\ DOMAIN w.el = DOMAIN v.el /\ w.el[e] = x
           /\ \A f \in DOMAIN v.el : f # e => w.el[f] = v.el[f]
           /\ w.cbs = v.cbs /\ w._pending = v._pending /\ w.frames = v.frames /\ w.ends = v.ends
           /\ w._leaving = v._leaving /\ w.queued = v.queued
<1> DEFINE l == [v.el EXCEPT ![e] = x]
<1>1. v.el \in Seq(Elements) /\ e \in 1..Len(v.el)
  BY Indices DEF Runs
<1>2. l \in Seq(Elements) /\ DOMAIN l = DOMAIN v.el /\ l[e] = x
      /\ \A f \in DOMAIN v.el : f # e => l[f] = v.el[f]
  BY <1>1, ExceptSeq
<1>3. w = [v EXCEPT !.el = l]
  BY DEF IsElement
<1> HIDE DEF l
<1> QED BY <1>2, <1>3 DEF Runs

LEMMA CallbackChanged ==
    ASSUME NEW v \in Runs, NEW n \in DOMAIN v.cbs, NEW c \in Callbacks, NEW w, IsCallback(v, n, c, w)
    PROVE  /\ w \in Runs /\ DOMAIN w.cbs = DOMAIN v.cbs /\ w.cbs[n] = c
           /\ \A m \in DOMAIN v.cbs : m # n => w.cbs[m] = v.cbs[m]
           /\ w.el = v.el /\ w._pending = v._pending /\ w.frames = v.frames /\ w.ends = v.ends
           /\ w._leaving = v._leaving /\ w.queued = v.queued
<1> DEFINE l == [v.cbs EXCEPT ![n] = c]
<1>1. v.cbs \in Seq(Callbacks) /\ n \in 1..Len(v.cbs)
  BY Indices DEF Runs
<1>2. l \in Seq(Callbacks) /\ DOMAIN l = DOMAIN v.cbs /\ l[n] = c
      /\ \A m \in DOMAIN v.cbs : m # n => l[m] = v.cbs[m]
  BY <1>1, ExceptSeq
<1>3. w = [v EXCEPT !.cbs = l]
  BY DEF IsCallback
<1> HIDE DEF l
<1> QED BY <1>2, <1>3 DEF Runs

-----------------------------------------------------------------------------
\* What the steps do to a run: the callback n begins, is called by an enter, is
\* called by a leave, is made for an element.
Parts == {"start", "active", "to"}
SameElements(v, w) ==
    /\ w \in Runs /\ DOMAIN w.el = DOMAIN v.el
    /\ \A f \in DOMAIN v.el : w.el[f].key = v.el[f].key
Begun(v, w, n) ==
    /\ SameElements(v, w) /\ w.cbs = v.cbs /\ w.ends = v.ends /\ w.frames = Append(v.frames, n)
    /\ w._leaving = v._leaving /\ w.queued = v.queued
    /\ \A f \in DOMAIN v.el :
          /\ w.el[f].on = v.el[f].on /\ w.el[f]._enterCb = v.el[f]._enterCb /\ w.el[f]._leaveCb = v.el[f]._leaveCb
          /\ w.el[f].classes = IF f = v.cbs[n].el
                               THEN v.el[f].classes \cup ({v.cbs[n].kind} \X {"start", "active"})
                               ELSE v.el[f].classes
    /\ \A k \in Keys : w._pending[k] =
          IF v.cbs[n].kind = "leave" /\ mode # "show" /\ k = v.el[v.cbs[n].el].key THEN v.cbs[n].el ELSE v._pending[k]
Over(v, w, n) ==
    /\ SameElements(v, w) /\ DOMAIN w.cbs = DOMAIN v.cbs /\ w.frames = v.frames /\ w.ends = v.ends
    /\ \A m \in DOMAIN v.cbs : /\ w.cbs[m].el = v.cbs[m].el /\ w.cbs[m].kind = v.cbs[m].kind
                               /\ w.cbs[m].hook = v.cbs[m].hook /\ w.cbs[m].cancelled = v.cbs[m].cancelled
                               /\ (w.cbs[m].called <=> m = n \/ v.cbs[m].called)
    /\ \A f \in DOMAIN v.el : w.el[f].classes =
          IF f = v.cbs[n].el
          THEN v.el[f].classes \ ({v.cbs[n].kind} \X IF v.cbs[n].cancelled THEN Parts ELSE {"active", "to"})
          ELSE v.el[f].classes
HasEntered(v, w, n) ==
    /\ Over(v, w, n) /\ w._pending = v._pending /\ w._leaving = v._leaving /\ w.queued = v.queued
    /\ \A f \in DOMAIN v.el : /\ w.el[f].on = v.el[f].on /\ w.el[f]._leaveCb = v.el[f]._leaveCb
                              /\ w.el[f]._enterCb = IF f = v.cbs[n].el THEN 0 ELSE v.el[f]._enterCb
HasLeft(v, w, n) ==
    /\ Over(v, w, n)
    /\ w._leaving <=> v._leaving /\ (v.cbs[n].cancelled \/ v.cbs[n].hook # 1)
    /\ w.queued <=> v.queued \/ (~v.cbs[n].cancelled /\ v.cbs[n].hook = 1)
    /\ \A k \in Keys : w._pending[k] = IF k = v.el[v.cbs[n].el].key THEN 0 ELSE v._pending[k]
    /\ \A f \in DOMAIN v.el : /\ w.el[f].on <=> v.el[f].on /\ (f # v.cbs[n].el \/ v.cbs[n].cancelled)
                              /\ w.el[f]._enterCb = v.el[f]._enterCb
                              /\ w.el[f]._leaveCb = IF f = v.cbs[n].el THEN 0 ELSE v.el[f]._leaveCb
Made(v, w, e, kind, hook, n) ==
    /\ SameElements(v, w) /\ w.frames = v.frames /\ w.ends = v.ends /\ w._pending = v._pending
    /\ w._leaving = v._leaving /\ w.queued = v.queued
    /\ DOMAIN w.cbs = DOMAIN v.cbs \cup {n} /\ n \notin DOMAIN v.cbs /\ n \in Nat /\ n # 0
    /\ \A m \in DOMAIN v.cbs : w.cbs[m] = v.cbs[m]
    /\ w.cbs[n] = Moving!NewCb(e, kind, hook)
    /\ \A f \in DOMAIN v.el :
          /\ w.el[f].on <=> v.el[f].on \/ (f = e /\ kind = "enter")
          /\ w.el[f].classes = v.el[f].classes
          /\ w.el[f]._enterCb = IF f = e /\ kind = "enter" THEN n ELSE v.el[f]._enterCb
          /\ w.el[f]._leaveCb = IF f = e /\ kind = "leave" THEN n ELSE v.el[f]._leaveCb

-----------------------------------------------------------------------------
\* What changes classes, frames and pending children only.
Reclassed(v, w, e, cs) ==
    \A f \in DOMAIN v.el : w.el[f].classes = IF f = e THEN cs ELSE v.el[f].classes
Without(v, w, n, parts) == Reclassed(v, w, v.cbs[n].el, v.el[v.cbs[n].el].classes \ ({v.cbs[n].kind} \X parts))
With(v, w, n) ==
    Reclassed(v, w, v.cbs[n].el, v.el[v.cbs[n].el].classes \cup ({v.cbs[n].kind} \X {"start", "active"}))
Kept(v, w) ==
    /\ w \in Runs /\ DOMAIN w.el = DOMAIN v.el /\ w.cbs = v.cbs
    /\ \A e \in DOMAIN v.el : /\ w.el[e].key = v.el[e].key /\ w.el[e].on = v.el[e].on
                              /\ w.el[e]._enterCb = v.el[e]._enterCb /\ w.el[e]._leaveCb = v.el[e]._leaveCb

LEMMA KeptIsSound ==
    ASSUME NEW v, NEW m, SoundBut(v, m), NEW w, Kept(v, w), Waits(w)
    PROVE  SoundBut(w, m) /\ Gentle(v, w)
<1>1. SoundBut(w, m)
  BY DEF SoundBut, Kept, Links, Leaving
<1>2. Gentle(v, w)
  BY DEF Kept, Gentle, Away, NotTaken, Leaving
<1> QED BY <1>1, <1>2

LEMMA ClassesChanged ==
    ASSUME NEW v \in Runs, NEW e \in DOMAIN v.el, NEW cs \in SUBSET Moving!Classes,
           NEW w, IsElement(v, e, [v.el[e] EXCEPT !.classes = cs], w)
    PROVE  /\ Kept(v, w) /\ w._pending = v._pending /\ w.frames = v.frames /\ w.ends = v.ends
           /\ w._leaving = v._leaving /\ w.queued = v.queued
           /\ Reclassed(v, w, e, cs)
<1> DEFINE x == [v.el[e] EXCEPT !.classes = cs]
<1>1. v.el[e] \in Elements
  BY Indices
<1>2. /\ x \in Elements /\ x.key = v.el[e].key /\ x.on = v.el[e].on
      /\ x._enterCb = v.el[e]._enterCb /\ x._leaveCb = v.el[e]._leaveCb /\ x.classes = cs
  BY <1>1 DEF Elements
<1> HIDE DEF x
<1>3. IsElement(v, e, x, w)
  BY DEF x
<1>4. /\ w \in Runs /\ DOMAIN w.el = DOMAIN v.el /\ w.el[e] = x
      /\ \A f \in DOMAIN v.el : f # e => w.el[f] = v.el[f]
      /\ w.cbs = v.cbs /\ w._pending = v._pending /\ w.frames = v.frames /\ w.ends = v.ends
      /\ w._leaving = v._leaving /\ w.queued = v.queued
  BY <1>2, <1>3, ElementChanged
<1>5. Kept(v, w) /\ Reclassed(v, w, e, cs)
  BY <1>2, <1>4 DEF Kept, Reclassed
<1> QED BY <1>4, <1>5

LEMMA DropKeeps ==
    ASSUME NEW v \in Runs, NEW n \in DOMAIN v.cbs, v.cbs[n].el \in DOMAIN v.el, NEW parts
    PROVE  LET w == Moving!Drop(v, n, parts)
           IN  /\ Kept(v, w) /\ w._pending = v._pending /\ w.frames = v.frames /\ w.ends = v.ends
               /\ w._leaving = v._leaving /\ w.queued = v.queued
               /\ Without(v, w, n, parts)
<1> DEFINE e == v.cbs[n].el
           cs == v.el[e].classes \ ({v.cbs[n].kind} \X parts)
           w == Moving!Drop(v, n, parts)
<1>1. v.el[e] \in Elements
  BY Indices
<1>2. cs \in SUBSET Moving!Classes
  BY <1>1 DEF Elements
<1>3. IsElement(v, e, [v.el[e] EXCEPT !.classes = cs], w)
  BY DEF IsElement, Moving!Drop
<1> HIDE DEF cs, w
<1>4. /\ Kept(v, w) /\ w._pending = v._pending /\ w.frames = v.frames /\ w.ends = v.ends
      /\ w._leaving = v._leaving /\ w.queued = v.queued
      /\ Reclassed(v, w, e, cs)
  BY <1>2, <1>3, ClassesChanged
<1>5. Without(v, w, n, parts)
  BY <1>4 DEF cs, Without
<1> HIDE DEF e
<1> QED BY <1>4, <1>5 DEF w

\* Classes are added and a frame is asked for.
LEMMA BeginKeeps ==
    ASSUME NEW v, NEW m, SoundBut(v, m), NEW n \in DOMAIN v.cbs
    PROVE  LET w == Moving!Begin(v, n)
           IN  /\ Kept(v, w) /\ SoundBut(w, m) /\ w.ends = v.ends /\ w.frames = Append(v.frames, n)
               /\ w._leaving = v._leaving /\ w.queued = v.queued /\ w._pending = v._pending
               /\ With(v, w, n)
<1> DEFINE e == v.cbs[n].el
           cs == v.el[e].classes \cup ({v.cbs[n].kind} \X {"start", "active"})
           u == [v EXCEPT !.el[e] = [v.el[e] EXCEPT !.classes = cs]]
           fs == Append(v.frames, n)
           w == [u EXCEPT !.frames = fs]
<1>1. v \in Runs /\ e \in DOMAIN v.el /\ v.el[e] \in Elements /\ v.cbs[n] \in Callbacks
  BY Indices DEF SoundBut, Links
<1>2. cs \in SUBSET Moving!Classes
  <2>1. {v.cbs[n].kind} \X {"start", "active"} \subseteq Moving!Classes
    BY <1>1 DEF Moving!Classes, Callbacks, Kinds
  <2> QED BY <1>1, <2>1 DEF Elements
<1>3. IsElement(v, e, [v.el[e] EXCEPT !.classes = cs], u)
  BY DEF IsElement
<1>4. w = Moving!Begin(v, n)
  BY DEF Moving!Begin
<1> HIDE DEF cs, u
<1>5. /\ Kept(v, u) /\ u._pending = v._pending /\ u.frames = v.frames /\ u.ends = v.ends
      /\ u._leaving = v._leaving /\ u.queued = v.queued
      /\ Reclassed(v, u, e, cs)
  BY <1>1, <1>2, <1>3, ClassesChanged
<1>6. fs \in Seq(Nat) /\ \A i \in DOMAIN fs : fs[i] \in DOMAIN v.cbs
  <2>1. v.frames \in Seq(Nat) /\ n \in Nat
    BY <1>1, Indices DEF Runs
  <2>2. /\ fs \in Seq(Nat) /\ DOMAIN fs = 1..Len(v.frames) + 1 /\ DOMAIN v.frames = 1..Len(v.frames)
        /\ Len(v.frames) \in Nat /\ fs[Len(v.frames) + 1] = n
        /\ \A i \in 1..Len(v.frames) : fs[i] = v.frames[i]
    BY <2>1, AppendProperties, LenProperties
  <2> HIDE DEF fs
  <2>3. \A i \in DOMAIN v.frames : v.frames[i] \in DOMAIN v.cbs
    BY DEF SoundBut, Waits
  <2>4. \A i \in DOMAIN fs : i = Len(v.frames) + 1 \/ i \in 1..Len(v.frames)
    BY <2>2
  <2> QED BY <2>2, <2>3, <2>4
<1> HIDE DEF fs
<1>7. /\ w \in Runs /\ w.el = u.el /\ w.cbs = u.cbs /\ w._pending = u._pending /\ w.ends = u.ends
      /\ w.frames = fs /\ w._leaving = u._leaving /\ w.queued = u.queued
  BY <1>5, <1>6 DEF Runs, Kept
<1> HIDE DEF w
<1>8. Kept(v, w)
  BY <1>5, <1>7 DEF Kept
<1>9. Waits(w)
  BY <1>5, <1>6, <1>7 DEF SoundBut, Waits, Kept
<1>10. With(v, w, n)
  BY <1>1, <1>5, <1>7 DEF cs, With, Reclassed
<1>11. /\ w.ends = v.ends /\ w.frames = Append(v.frames, n)
       /\ w._leaving = v._leaving /\ w.queued = v.queued /\ w._pending = v._pending
  BY <1>5, <1>7 DEF fs
<1>12. SoundBut(w, m)
  BY <1>8, <1>9, KeptIsSound
<1> HIDE DEF e
<1> QED BY <1>4, <1>8, <1>10, <1>11, <1>12 DEF e

LEMMA LeaveBegins ==
    ASSUME NEW v, NEW m, SoundBut(v, m), NEW n \in DOMAIN v.cbs
    PROVE  LET w == Moving!PerformLeave(v, n)
           IN  /\ Kept(v, w) /\ SoundBut(w, m)
               /\ ~v.cbs[n].cancelled /\ v.cbs[n].kind = "leave" => Begun(v, w, n)
<1> DEFINE e == v.cbs[n].el
           k == v.el[e].key
           q == IF mode = "show" THEN v._pending[k] ELSE e
           ps == [v._pending EXCEPT ![k] = q]
           u == [v EXCEPT !._pending = ps]
<1>1. v \in Runs /\ e \in DOMAIN v.el /\ v.el[e] \in Elements
  BY Indices DEF SoundBut, Links
<1>2. k \in Keys /\ v._pending \in [Keys -> Nat] /\ e \in Nat /\ v._pending[k] \in {0} \cup DOMAIN v.el
  BY <1>1, Indices DEF Elements, Runs, SoundBut, Waits
<1>3. q \in Nat /\ q \in {0} \cup DOMAIN v.el
  BY <1>1, <1>2
<1>4. Moving!PerformLeave(v, n) = IF v.cbs[n].cancelled THEN v ELSE Moving!Begin(u, n)
  BY DEF Moving!PerformLeave
<1> HIDE DEF q, k
<1>5. ps \in [Keys -> Nat] /\ \A j \in Keys : ps[j] \in {0} \cup DOMAIN v.el
  BY <1>2, <1>3 DEF SoundBut, Waits
<1>11. \A j \in Keys : ps[j] = IF j = k THEN q ELSE v._pending[j]
  BY <1>2
<1> HIDE DEF ps
<1>6. /\ u \in Runs /\ u.el = v.el /\ u.cbs = v.cbs /\ u.frames = v.frames /\ u.ends = v.ends
      /\ u._pending = ps /\ u._leaving = v._leaving /\ u.queued = v.queued
  BY <1>1, <1>5 DEF Runs
<1> HIDE DEF u
<1>7. Kept(v, u) /\ Kept(v, v)
  BY <1>1, <1>6 DEF Kept
<1>8. SoundBut(u, m)
  <2>1. Waits(u)
    BY <1>5, <1>6 DEF SoundBut, Waits
  <2> QED BY <1>7, <2>1, KeptIsSound
<1> DEFINE w == Moving!Begin(u, n)
<1>9. /\ Kept(u, w) /\ SoundBut(w, m) /\ w.ends = u.ends /\ w.frames = Append(u.frames, n)
      /\ w._leaving = u._leaving /\ w.queued = u.queued /\ w._pending = u._pending
      /\ With(u, w, n)
  BY <1>6, <1>8, BeginKeeps
<1> HIDE DEF w
<1>10. Kept(v, w)
  BY <1>6, <1>9 DEF Kept
<1>12. ASSUME v.cbs[n].kind = "leave"
       PROVE  Begun(v, w, n)
  <2>1. SameElements(v, w)
    BY <1>10 DEF Kept, SameElements
  <2>2. \A j \in Keys : w._pending[j] =
           IF v.cbs[n].kind = "leave" /\ mode # "show" /\ j = v.el[v.cbs[n].el].key THEN v.cbs[n].el ELSE v._pending[j]
    BY <1>6, <1>9, <1>11, <1>12 DEF q, k
  <2>3. \A f \in DOMAIN v.el :
           /\ w.el[f].on = v.el[f].on /\ w.el[f]._enterCb = v.el[f]._enterCb /\ w.el[f]._leaveCb = v.el[f]._leaveCb
    BY <1>10 DEF Kept
  <2>4. \A f \in DOMAIN v.el : w.el[f].classes =
           IF f = v.cbs[n].el
           THEN v.el[f].classes \cup ({v.cbs[n].kind} \X {"start", "active"})
           ELSE v.el[f].classes
    BY <1>6, <1>9 DEF With, Reclassed
  <2>5. /\ w.cbs = v.cbs /\ w.ends = v.ends /\ w.frames = Append(v.frames, n)
        /\ w._leaving = v._leaving /\ w.queued = v.queued
    BY <1>6, <1>9, <1>10 DEF Kept
  <2> HIDE DEF e
  <2> QED BY <2>1, <2>2, <2>3, <2>4, <2>5 DEF Begun
<1> QED BY <1>4, <1>7, <1>8, <1>9, <1>10, <1>12 DEF w

\* A callback is called: what it does to itself and its element's classes.
LEMMA CalledKeeps ==
    ASSUME NEW v, NEW n \in DOMAIN v.cbs, SoundBut(v, n)
    PROVE  LET w == Moving!Called(v, n)
           IN  /\ SoundBut(w, 0)
               /\ w \in Runs /\ DOMAIN w.el = DOMAIN v.el /\ DOMAIN w.cbs = DOMAIN v.cbs
               /\ \A e \in DOMAIN v.el : /\ w.el[e].key = v.el[e].key /\ w.el[e].on = v.el[e].on
                                         /\ w.el[e]._enterCb = v.el[e]._enterCb
                                         /\ w.el[e]._leaveCb = v.el[e]._leaveCb
               /\ \A m \in DOMAIN v.cbs : /\ w.cbs[m].el = v.cbs[m].el /\ w.cbs[m].kind = v.cbs[m].kind
                                          /\ w.cbs[m].hook = v.cbs[m].hook
                                          /\ w.cbs[m].cancelled = v.cbs[m].cancelled
                                          /\ (w.cbs[m].called <=> m = n \/ v.cbs[m].called)
               /\ w._pending = v._pending /\ w.frames = v.frames /\ w.ends = v.ends
               /\ w._leaving = v._leaving /\ w.queued = v.queued
               /\ Over(v, w, n)
<1> DEFINE c == [v.cbs[n] EXCEPT !.called = TRUE]
           u == [v EXCEPT !.cbs[n] = c]
           parts == IF v.cbs[n].cancelled THEN Parts ELSE {"active", "to"}
           w == Moving!Called(v, n)
<1>1. v \in Runs /\ v.cbs[n] \in Callbacks /\ v.cbs[n].el \in DOMAIN v.el
  BY Indices DEF SoundBut, Links
<1>2. /\ c \in Callbacks /\ c.el = v.cbs[n].el /\ c.kind = v.cbs[n].kind /\ c.hook = v.cbs[n].hook
      /\ c.cancelled = v.cbs[n].cancelled /\ c.called = TRUE
  BY <1>1 DEF Callbacks
<1>3. IsCallback(v, n, c, u) /\ w = Moving!Drop(u, n, parts)
  BY DEF IsCallback, Moving!Called, Parts
<1> HIDE DEF c, u, parts, w
<1>4. /\ u \in Runs /\ DOMAIN u.cbs = DOMAIN v.cbs /\ u.cbs[n] = c
      /\ \A m \in DOMAIN v.cbs : m # n => u.cbs[m] = v.cbs[m]
      /\ u.el = v.el /\ u._pending = v._pending /\ u.frames = v.frames /\ u.ends = v.ends
      /\ u._leaving = v._leaving /\ u.queued = v.queued
  BY <1>1, <1>2, <1>3, CallbackChanged
<1>5. /\ Kept(u, w) /\ w._pending = u._pending /\ w.frames = u.frames /\ w.ends = u.ends
      /\ w._leaving = u._leaving /\ w.queued = u.queued
      /\ Without(u, w, n, parts)
  BY <1>1, <1>2, <1>3, <1>4, DropKeeps
<1>6. \A m \in DOMAIN v.cbs : v.cbs[m] \in Callbacks
  BY <1>1, Indices
<1>7. \A m \in DOMAIN v.cbs : /\ w.cbs[m].el = v.cbs[m].el /\ w.cbs[m].kind = v.cbs[m].kind
                              /\ w.cbs[m].hook = v.cbs[m].hook
                              /\ w.cbs[m].cancelled = v.cbs[m].cancelled
                              /\ (w.cbs[m].called <=> m = n \/ v.cbs[m].called)
  <2>1. ASSUME NEW m \in DOMAIN v.cbs
        PROVE  /\ w.cbs[m].el = v.cbs[m].el /\ w.cbs[m].kind = v.cbs[m].kind
               /\ w.cbs[m].hook = v.cbs[m].hook
               /\ w.cbs[m].cancelled = v.cbs[m].cancelled
               /\ (w.cbs[m].called <=> m = n \/ v.cbs[m].called)
    <3>1. w.cbs[m] = u.cbs[m] /\ v.cbs[m].called \in BOOLEAN
      BY <1>5, <1>6 DEF Kept, Callbacks
    <3>2. CASE m = n
      BY <1>2, <1>4, <3>1, <3>2
    <3>3. CASE m # n
      BY <1>4, <3>1, <3>3
    <3> QED BY <3>2, <3>3
  <2> QED BY <2>1
<1>8. /\ w \in Runs /\ DOMAIN w.el = DOMAIN v.el /\ DOMAIN w.cbs = DOMAIN v.cbs
      /\ \A e \in DOMAIN v.el : /\ w.el[e].key = v.el[e].key /\ w.el[e].on = v.el[e].on
                                /\ w.el[e]._enterCb = v.el[e]._enterCb
                                /\ w.el[e]._leaveCb = v.el[e]._leaveCb
      /\ w._pending = v._pending /\ w.frames = v.frames /\ w.ends = v.ends
      /\ w._leaving = v._leaving /\ w.queued = v.queued
  BY <1>4, <1>5 DEF Kept
<1>9. SoundBut(w, 0)
  <2>1. Waits(w)
    BY <1>8 DEF SoundBut, Waits
  <2>2. Links(w)
    BY <1>7, <1>8 DEF SoundBut, Links
  <2>3. \A m \in DOMAIN w.cbs : Leaving(w, m) => w.el[w.cbs[m].el]._leaveCb = m
    BY <1>1, <1>7, <1>8 DEF SoundBut, Leaving, Links
  <2>4. \A m \in DOMAIN w.cbs : w.cbs[m].cancelled /\ m # 0 => w.cbs[m].called
    BY <1>7, <1>8 DEF SoundBut
  <2> QED BY <1>8, <2>1, <2>2, <2>3, <2>4 DEF SoundBut
<1>10. \A f \in DOMAIN v.el : w.el[f].classes =
          IF f = v.cbs[n].el THEN v.el[f].classes \ ({v.cbs[n].kind} \X parts) ELSE v.el[f].classes
  <2>1. u.cbs[n].el = v.cbs[n].el /\ u.cbs[n].kind = v.cbs[n].kind /\ u.el = v.el
    BY <1>2, <1>4
  <2>2. \A f \in DOMAIN u.el : w.el[f].classes =
           IF f = u.cbs[n].el THEN u.el[u.cbs[n].el].classes \ ({u.cbs[n].kind} \X parts) ELSE u.el[f].classes
    BY <1>5 DEF Without, Reclassed
  <2> QED BY <2>1, <2>2
<1>11. Over(v, w, n)
  <2>1. SameElements(v, w)
    BY <1>8 DEF SameElements
  <2>2. \A f \in DOMAIN v.el : w.el[f].classes =
           IF f = v.cbs[n].el
           THEN v.el[f].classes \ ({v.cbs[n].kind} \X IF v.cbs[n].cancelled THEN Parts ELSE {"active", "to"})
           ELSE v.el[f].classes
    BY <1>10 DEF parts
  <2>3. DOMAIN w.cbs = DOMAIN v.cbs /\ w.frames = v.frames /\ w.ends = v.ends
    BY <1>8
  <2> QED BY <1>7, <2>1, <2>2, <2>3 DEF Over
<1> QED BY <1>7, <1>8, <1>9, <1>11 DEF w

\* What leaves every element in the page and every leave as it was.
Alike(v, w) ==
    /\ DOMAIN w.el = DOMAIN v.el /\ DOMAIN w.cbs = DOMAIN v.cbs
    /\ \A e \in DOMAIN v.el : /\ w.el[e].key = v.el[e].key /\ w.el[e].on = v.el[e].on
                              /\ w.el[e]._leaveCb = v.el[e]._leaveCb
    /\ \A m \in DOMAIN v.cbs : /\ w.cbs[m].el = v.cbs[m].el /\ w.cbs[m].kind = v.cbs[m].kind
                               /\ Leaving(w, m) <=> Leaving(v, m)

LEMMA AlikeIsGentle ==
    ASSUME NEW v, NEW w, Alike(v, w)
    PROVE  Gentle(v, w)
BY DEF Alike, Gentle, Away, NotTaken

\* An enter is over; the leave it held back, if any, is to begin.
Entered(v, n) == [Moving!Called(v, n) EXCEPT !.el[v.cbs[n].el]._enterCb = 0]

LEMMA EnterIsOver ==
    ASSUME NEW v, NEW n \in DOMAIN v.cbs, SoundBut(v, n), v.cbs[n].kind = "enter", ~v.cbs[n].called
    PROVE  Sound(Entered(v, n)) /\ HasEntered(v, Entered(v, n), n)
<1> DEFINE e == v.cbs[n].el
           u == Moving!Called(v, n)
           x == [u.el[e] EXCEPT !._enterCb = 0]
           w == [u EXCEPT !.el[e] = x]
<1>1. Entered(v, n) = w
  BY DEF Entered
<1>2. e \in DOMAIN v.el
  BY DEF SoundBut, Links
<1> HIDE DEF u
<1>3. /\ SoundBut(u, 0) /\ u \in Runs /\ DOMAIN u.el = DOMAIN v.el /\ DOMAIN u.cbs = DOMAIN v.cbs
      /\ \A f \in DOMAIN v.el : /\ u.el[f].key = v.el[f].key /\ u.el[f].on = v.el[f].on
                                /\ u.el[f]._enterCb = v.el[f]._enterCb
                                /\ u.el[f]._leaveCb = v.el[f]._leaveCb
      /\ u._pending = v._pending /\ u.frames = v.frames /\ u.ends = v.ends
      /\ u._leaving = v._leaving /\ u.queued = v.queued /\ Over(v, u, n)
  BY CalledKeeps DEF u
<1>4. u.el[e] \in Elements
  BY <1>2, <1>3, Indices
<1>5. /\ x \in Elements /\ x.key = u.el[e].key /\ x.on = u.el[e].on /\ x._leaveCb = u.el[e]._leaveCb
      /\ x._enterCb = 0 /\ x.classes = u.el[e].classes
  BY <1>4 DEF Elements
<1> HIDE DEF x
<1>6. IsElement(u, e, x, w)
  BY DEF IsElement
<1> HIDE DEF w
<1>7. /\ w \in Runs /\ DOMAIN w.el = DOMAIN u.el /\ w.el[e] = x
      /\ \A f \in DOMAIN u.el : f # e => w.el[f] = u.el[f]
      /\ w.cbs = u.cbs /\ w._pending = u._pending /\ w.frames = u.frames /\ w.ends = u.ends
      /\ w._leaving = u._leaving /\ w.queued = u.queued
  BY <1>2, <1>3, <1>5, <1>6, ElementChanged
<1> HIDE DEF e
<1>8. ASSUME NEW f \in DOMAIN v.el
      PROVE  /\ w.el[f].key = v.el[f].key /\ w.el[f].on = v.el[f].on /\ w.el[f].classes = u.el[f].classes
             /\ w.el[f]._leaveCb = v.el[f]._leaveCb
             /\ w.el[f]._enterCb = IF f = e THEN 0 ELSE v.el[f]._enterCb
  <2>1. CASE f = e
    BY <1>3, <1>5, <1>7, <2>1
  <2>2. CASE f # e
    BY <1>3, <1>7, <2>2
  <2> QED BY <2>1, <2>2
<1>9. Sound(w)
  <2>1. Waits(w)
    BY <1>3, <1>7 DEF SoundBut, Waits
  <2>2. Links(w)
    BY <1>3, <1>7, <1>8 DEF SoundBut, Links
  <2>3. \A m \in DOMAIN w.cbs : Leaving(w, m) => w.el[w.cbs[m].el]._leaveCb = m
    BY <1>3, <1>7, <1>8 DEF SoundBut, Links, Leaving
  <2>4. \A m \in DOMAIN w.cbs : w.cbs[m].cancelled /\ m # 0 => w.cbs[m].called
    BY <1>3, <1>7 DEF SoundBut
  <2> QED BY <1>7, <2>1, <2>2, <2>3, <2>4 DEF Sound, SoundBut
<1>10. Over(v, w, n)
  <2>1. SameElements(v, w)
    BY <1>3, <1>7, <1>8 DEF SameElements
  <2>2. /\ DOMAIN w.cbs = DOMAIN v.cbs /\ w.frames = v.frames /\ w.ends = v.ends
        /\ \A m \in DOMAIN v.cbs : /\ w.cbs[m].el = v.cbs[m].el /\ w.cbs[m].kind = v.cbs[m].kind
                                   /\ w.cbs[m].hook = v.cbs[m].hook /\ w.cbs[m].cancelled = v.cbs[m].cancelled
                                   /\ (w.cbs[m].called <=> m = n \/ v.cbs[m].called)
    BY <1>3, <1>7 DEF Over
  <2>3. \A f \in DOMAIN v.el : w.el[f].classes =
           IF f = v.cbs[n].el
           THEN v.el[f].classes \ ({v.cbs[n].kind} \X IF v.cbs[n].cancelled THEN Parts ELSE {"active", "to"})
           ELSE v.el[f].classes
    <3>1. \A f \in DOMAIN v.el : w.el[f].classes = u.el[f].classes
      BY <1>8
    <3>2. \A f \in DOMAIN v.el : u.el[f].classes =
             IF f = v.cbs[n].el
             THEN v.el[f].classes \ ({v.cbs[n].kind} \X IF v.cbs[n].cancelled THEN Parts ELSE {"active", "to"})
             ELSE v.el[f].classes
      BY <1>3 DEF Over
    <3> QED BY <3>1, <3>2
  <2> QED BY <2>1, <2>2, <2>3 DEF Over
<1>11. HasEntered(v, w, n)
  BY <1>3, <1>7, <1>8, <1>10 DEF HasEntered, e
<1> QED BY <1>1, <1>9, <1>11

LEMMA EnterCbKeeps ==
    ASSUME NEW v, NEW n \in DOMAIN v.cbs, SoundBut(v, n), v.cbs[n].kind = "enter"
    PROVE  Sound(Moving!EnterCb(v, n)) /\ Alike(v, Moving!EnterCb(v, n))
<1>1. CASE v.cbs[n].called
  <2>1. Moving!EnterCb(v, n) = v
    BY <1>1 DEF Moving!EnterCb
  <2>2. Sound(v)
    BY <1>1 DEF Sound, SoundBut
  <2> QED BY <2>1, <2>2 DEF Alike
<1>2. CASE ~v.cbs[n].called
  <2> DEFINE w == Entered(v, n)
             h == v.cbs[n].hook
  <2>1. Moving!EnterCb(v, n) = IF h = 0 THEN w ELSE Moving!PerformLeave(w, h)
    BY <1>2 DEF Moving!EnterCb, Entered
  <2> HIDE DEF w
  <2>2. Sound(w) /\ HasEntered(v, w, n)
    BY <1>2, EnterIsOver DEF w
  <2>3. Alike(v, w)
    <3>1. \A m \in DOMAIN v.cbs : Leaving(w, m) <=> Leaving(v, m)
      BY <2>2 DEF HasEntered, Over, Leaving
    <3> QED BY <2>2, <3>1 DEF HasEntered, Over, SameElements, Alike
  <2>4. CASE h = 0
    BY <2>1, <2>2, <2>3, <2>4
  <2>5. CASE h # 0
    <3>1. h \in DOMAIN w.cbs
      BY <2>3, <2>5 DEF SoundBut, Links, Alike
    <3>2. Kept(w, Moving!PerformLeave(w, h)) /\ SoundBut(Moving!PerformLeave(w, h), 0)
      BY <2>2, <3>1, LeaveBegins DEF Sound
    <3>3. Alike(v, Moving!PerformLeave(w, h))
      BY <2>3, <3>2 DEF Alike, Kept, Leaving
    <3> QED BY <2>1, <2>5, <3>2, <3>3 DEF Sound
  <2> QED BY <2>4, <2>5
<1> QED BY <1>1, <1>2

\* A leave is over: its element is taken from the page, unless it was cancelled.
LEMMA LeaveIsOver ==
    ASSUME NEW v, NEW n \in DOMAIN v.cbs, SoundBut(v, n), v.cbs[n].kind = "leave", ~v.cbs[n].called
    PROVE  Sound(Moving!LeaveCb(v, n)) /\ HasLeft(v, Moving!LeaveCb(v, n), n)
<1> DEFINE e == v.cbs[n].el
           u == Moving!Called(v, n)
           k == v.el[e].key
           again == v.cbs[n].hook = 1
           x == [u.el[e] EXCEPT !._leaveCb = 0]
           a == [u EXCEPT !.el[e] = x]
           ps == [a._pending EXCEPT ![k] = 0]
           b == [a EXCEPT !._pending = ps]
           y == [b.el[e] EXCEPT !.on = FALSE]
           c == [b EXCEPT !.el[e] = y]
           l == b._leaving /\ ~again
           q == b.queued \/ again
           d == [c EXCEPT !._leaving = l, !.queued = q]
<1>1. Moving!LeaveCb(v, n) = IF v.cbs[n].cancelled THEN b ELSE d
  BY DEF Moving!LeaveCb
<1>2. v \in Runs /\ e \in DOMAIN v.el /\ v.el[e] \in Elements
  BY Indices DEF SoundBut, Links
<1>3. k \in Keys
  BY <1>2 DEF Elements
<1> HIDE DEF u, k
<1>4. /\ SoundBut(u, 0) /\ u \in Runs /\ DOMAIN u.el = DOMAIN v.el /\ DOMAIN u.cbs = DOMAIN v.cbs
      /\ \A f \in DOMAIN v.el : /\ u.el[f].key = v.el[f].key /\ u.el[f].on = v.el[f].on
                                /\ u.el[f]._enterCb = v.el[f]._enterCb
                                /\ u.el[f]._leaveCb = v.el[f]._leaveCb
      /\ u._pending = v._pending /\ u.frames = v.frames /\ u.ends = v.ends
      /\ u._leaving = v._leaving /\ u.queued = v.queued /\ Over(v, u, n)
  BY CalledKeeps DEF u
<1>5. u.el[e] \in Elements
  BY <1>2, <1>4, Indices
<1>6. /\ x \in Elements /\ x.key = u.el[e].key /\ x.on = u.el[e].on /\ x._enterCb = u.el[e]._enterCb
      /\ x._leaveCb = 0 /\ x.classes = u.el[e].classes
  BY <1>5 DEF Elements
<1> HIDE DEF x
<1>7. IsElement(u, e, x, a)
  BY DEF IsElement
<1> HIDE DEF a
<1>8. /\ a \in Runs /\ DOMAIN a.el = DOMAIN u.el /\ a.el[e] = x
      /\ \A f \in DOMAIN u.el : f # e => a.el[f] = u.el[f]
      /\ a.cbs = u.cbs /\ a._pending = u._pending /\ a.frames = u.frames /\ a.ends = u.ends
      /\ a._leaving = u._leaving /\ a.queued = u.queued
  BY <1>2, <1>4, <1>6, <1>7, ElementChanged
<1>9. ps \in [Keys -> Nat] /\ \A j \in Keys : ps[j] = IF j = k THEN 0 ELSE v._pending[j]
  BY <1>3, <1>4, <1>8 DEF Runs
<1> HIDE DEF ps
<1>10. /\ b \in Runs /\ b.el = a.el /\ b.cbs = u.cbs /\ b._pending = ps /\ b.frames = u.frames
       /\ b.ends = u.ends /\ b._leaving = v._leaving /\ b.queued = v.queued
  BY <1>4, <1>8, <1>9 DEF Runs
<1> HIDE DEF b
<1>11. ASSUME NEW f \in DOMAIN v.el
       PROVE  /\ b.el[f].key = v.el[f].key /\ b.el[f].on = v.el[f].on /\ b.el[f].classes = u.el[f].classes
              /\ b.el[f]._enterCb = v.el[f]._enterCb
              /\ b.el[f]._leaveCb = IF f = e THEN 0 ELSE v.el[f]._leaveCb
  <2>1. CASE f = e
    BY <1>4, <1>6, <1>8, <1>10, <2>1
  <2>2. CASE f # e
    BY <1>4, <1>8, <1>10, <2>2
  <2> QED BY <2>1, <2>2
<1>12. b.el[e] \in Elements
  BY <1>2, <1>4, <1>8, <1>10, Indices
<1>13. /\ y \in Elements /\ y.key = b.el[e].key /\ y.on = FALSE /\ y.classes = b.el[e].classes
       /\ y._enterCb = b.el[e]._enterCb /\ y._leaveCb = b.el[e]._leaveCb
  BY <1>12 DEF Elements
<1>14. IsElement(b, e, y, c)
  BY DEF IsElement
<1> HIDE DEF y, c
<1>15. /\ c \in Runs /\ DOMAIN c.el = DOMAIN b.el /\ c.el[e] = y
       /\ \A f \in DOMAIN b.el : f # e => c.el[f] = b.el[f]
       /\ c.cbs = b.cbs /\ c._pending = b._pending /\ c.frames = b.frames /\ c.ends = b.ends
  BY <1>2, <1>4, <1>8, <1>10, <1>13, <1>14, ElementChanged
<1>16. l \in BOOLEAN /\ q \in BOOLEAN
  OBVIOUS
<1> HIDE DEF l, q
<1>17. /\ d \in Runs /\ d.el = c.el /\ d.cbs = c.cbs /\ d._pending = c._pending /\ d.frames = c.frames
       /\ d.ends = c.ends /\ d._leaving = l /\ d.queued = q
  BY <1>15, <1>16 DEF Runs
<1> HIDE DEF d, e
<1>18. ASSUME NEW f \in DOMAIN v.el
       PROVE  /\ d.el[f].key = v.el[f].key /\ d.el[f].classes = u.el[f].classes
              /\ d.el[f].on <=> v.el[f].on /\ f # e
              /\ d.el[f]._enterCb = v.el[f]._enterCb
              /\ d.el[f]._leaveCb = IF f = e THEN 0 ELSE v.el[f]._leaveCb
  <2>1. CASE f = e
    BY <1>4, <1>8, <1>10, <1>11, <1>13, <1>15, <1>17, <2>1
  <2>2. CASE f # e
    BY <1>4, <1>8, <1>10, <1>11, <1>15, <1>17, <2>2
  <2> QED BY <2>1, <2>2
\* w is b or d: the same but for the element's being in the page and the flags.
<1>19. ASSUME NEW w \in Runs, DOMAIN w.el = DOMAIN v.el, w.cbs = u.cbs, w._pending = ps,
              w.frames = u.frames, w.ends = u.ends,
              \A f \in DOMAIN v.el : /\ w.el[f].key = v.el[f].key /\ w.el[f].classes = u.el[f].classes
                                     /\ w.el[f]._enterCb = v.el[f]._enterCb
                                     /\ w.el[f]._leaveCb = IF f = e THEN 0 ELSE v.el[f]._leaveCb
       PROVE  Sound(w) /\ Over(v, w, n)
  <2>1. Waits(w)
    BY <1>4, <1>9, <1>19 DEF SoundBut, Waits
  <2>2. Links(w)
    <3>1. Links(u)
      BY <1>4 DEF SoundBut
    <3>2. \A f \in DOMAIN v.el : /\ w.el[f]._enterCb = u.el[f]._enterCb
                                 /\ w.el[f]._leaveCb = 0 \/ w.el[f]._leaveCb = u.el[f]._leaveCb
      BY <1>4, <1>19
    <3> HIDE DEF again
    <3> QED BY <1>4, <1>19, <3>1, <3>2 DEF Links
  <2>3. ASSUME NEW m \in DOMAIN w.cbs, Leaving(w, m)
        PROVE  w.el[w.cbs[m].el]._leaveCb = m
    <3>1. m \in DOMAIN v.cbs /\ m # n /\ Leaving(v, m) /\ w.cbs[m].el = v.cbs[m].el
      BY <1>4, <1>19, <2>3 DEF Leaving, Over
    <3>2. v.el[v.cbs[m].el]._leaveCb = m /\ v.cbs[m].el \in DOMAIN v.el
      BY <3>1 DEF SoundBut, Links
    <3>3. v.el[e]._leaveCb = n
      BY DEF SoundBut, Leaving, e
    <3>4. v.cbs[m].el # e
      BY <3>1, <3>2, <3>3
    <3> QED BY <1>19, <3>1, <3>2, <3>4
  <2>4. \A m \in DOMAIN w.cbs : w.cbs[m].cancelled /\ m # 0 => w.cbs[m].called
    BY <1>4, <1>19 DEF SoundBut
  <2>5. Over(v, w, n)
    <3>1. SameElements(v, w)
      BY <1>19 DEF SameElements
    <3>2. \A f \in DOMAIN v.el : u.el[f].classes =
             IF f = v.cbs[n].el
             THEN v.el[f].classes \ ({v.cbs[n].kind} \X IF v.cbs[n].cancelled THEN Parts ELSE {"active", "to"})
             ELSE v.el[f].classes
      BY <1>4 DEF Over
    <3>3. \A f \in DOMAIN v.el : w.el[f].classes =
             IF f = v.cbs[n].el
             THEN v.el[f].classes \ ({v.cbs[n].kind} \X IF v.cbs[n].cancelled THEN Parts ELSE {"active", "to"})
             ELSE v.el[f].classes
      <4>1. \A f \in DOMAIN v.el : w.el[f].classes = u.el[f].classes
        BY <1>19
      <4> QED BY <3>2, <4>1
    <3>4. /\ DOMAIN w.cbs = DOMAIN v.cbs /\ w.frames = v.frames /\ w.ends = v.ends
          /\ \A m \in DOMAIN v.cbs : /\ w.cbs[m].el = v.cbs[m].el /\ w.cbs[m].kind = v.cbs[m].kind
                                     /\ w.cbs[m].hook = v.cbs[m].hook /\ w.cbs[m].cancelled = v.cbs[m].cancelled
                                     /\ (w.cbs[m].called <=> m = n \/ v.cbs[m].called)
      BY <1>4, <1>19 DEF Over
    <3> QED BY <3>1, <3>3, <3>4 DEF Over
  <2> QED BY <1>19, <2>1, <2>2, <2>3, <2>4, <2>5 DEF Sound, SoundBut
<1>20. DOMAIN b.el = DOMAIN v.el /\ Sound(b) /\ Over(v, b, n)
  <2>1. DOMAIN b.el = DOMAIN v.el
    BY <1>4, <1>8, <1>10
  <2> QED BY <1>10, <1>11, <1>19, <2>1
<1>21. Sound(d) /\ Over(v, d, n)
  <2>1. DOMAIN d.el = DOMAIN v.el
    BY <1>15, <1>17, <1>20
  <2> QED BY <1>10, <1>15, <1>17, <1>18, <1>19, <2>1
<1>22. CASE v.cbs[n].cancelled
  BY <1>1, <1>9, <1>10, <1>11, <1>20, <1>22 DEF HasLeft, k, e
<1>23. CASE ~v.cbs[n].cancelled
  <2>1. d._pending = ps
    BY <1>10, <1>15, <1>17
  <2>2. (d._leaving <=> v._leaving /\ ~again) /\ (d.queued <=> v.queued \/ again)
    BY <1>10, <1>17 DEF l, q
  <2> QED BY <1>1, <1>9, <1>18, <1>21, <1>23, <2>1, <2>2 DEF HasLeft, k, e
<1> QED BY <1>22, <1>23

LEMMA LeaveCbKeeps ==
    ASSUME NEW v, NEW n \in DOMAIN v.cbs, SoundBut(v, n), v.cbs[n].kind = "leave"
    PROVE  LET w == Moving!LeaveCb(v, n)
           IN  /\ Sound(w) /\ DOMAIN w.el = DOMAIN v.el /\ DOMAIN w.cbs = DOMAIN v.cbs
               /\ \A m \in DOMAIN v.cbs : /\ w.cbs[m].el = v.cbs[m].el /\ w.cbs[m].kind = v.cbs[m].kind
                                          /\ Leaving(w, m) <=> Leaving(v, m) /\ m # n
               /\ \A e \in DOMAIN v.el :
                     v.el[e].on /\ ~w.el[e].on => e = v.cbs[n].el /\ ~v.cbs[n].cancelled /\ Leaving(v, n)
<1>1. CASE v.cbs[n].called
  <2>1. Moving!LeaveCb(v, n) = v
    BY <1>1 DEF Moving!LeaveCb
  <2>2. Sound(v)
    BY <1>1 DEF Sound, SoundBut
  <2> QED BY <1>1, <2>1, <2>2 DEF Leaving
<1>2. CASE ~v.cbs[n].called
  <2> DEFINE w == Moving!LeaveCb(v, n)
  <2>1. Sound(w) /\ HasLeft(v, w, n)
    BY <1>2, LeaveIsOver
  <2> HIDE DEF w
  <2>2. \A m \in DOMAIN v.cbs : /\ w.cbs[m].el = v.cbs[m].el /\ w.cbs[m].kind = v.cbs[m].kind
                                /\ Leaving(w, m) <=> Leaving(v, m) /\ m # n
    BY <2>1 DEF HasLeft, Over, Leaving
  <2>3. \A e \in DOMAIN v.el :
           v.el[e].on /\ ~w.el[e].on => e = v.cbs[n].el /\ ~v.cbs[n].cancelled /\ Leaving(v, n)
    BY <1>2, <2>1 DEF HasLeft, Leaving
  <2>4. DOMAIN w.el = DOMAIN v.el /\ DOMAIN w.cbs = DOMAIN v.cbs
    BY <2>1 DEF HasLeft, Over, SameElements
  <2> QED BY <2>1, <2>2, <2>3, <2>4 DEF w
<1> QED BY <1>1, <1>2

-----------------------------------------------------------------------------
\* A callback is made, cancelled or given a hook; an element is made.
IsAdded(v, c, w) == w = [v EXCEPT !.cbs = Append(@, c)]

LEMMA CallbackAdded ==
    ASSUME NEW v \in Runs, NEW c \in Callbacks, NEW w, IsAdded(v, c, w)
    PROVE  LET n == Len(v.cbs) + 1
           IN  /\ w \in Runs /\ DOMAIN w.cbs = DOMAIN v.cbs \cup {n} /\ w.cbs[n] = c
               /\ n \notin DOMAIN v.cbs /\ n \in Nat /\ n # 0
               /\ \A m \in DOMAIN v.cbs : w.cbs[m] = v.cbs[m]
               /\ w.el = v.el /\ w._pending = v._pending /\ w.frames = v.frames /\ w.ends = v.ends
               /\ w._leaving = v._leaving /\ w.queued = v.queued
<1> DEFINE n == Len(v.cbs) + 1
           l == Append(v.cbs, c)
<1>1. v.cbs \in Seq(Callbacks) /\ DOMAIN v.cbs = 1..Len(v.cbs) /\ Len(v.cbs) \in Nat
  BY Indices DEF Runs
<1>2. /\ l \in Seq(Callbacks) /\ DOMAIN l = 1..n /\ l[n] = c
      /\ \A m \in 1..Len(v.cbs) : l[m] = v.cbs[m]
  BY <1>1, AppendProperties, LenProperties
<1>3. 1..n = DOMAIN v.cbs \cup {n} /\ n \notin DOMAIN v.cbs /\ n \in Nat /\ n # 0
  BY <1>1
<1>4. w = [v EXCEPT !.cbs = l]
  BY DEF IsAdded
<1> HIDE DEF l, n
<1>5. /\ w \in Runs /\ w.cbs = l /\ w.el = v.el /\ w._pending = v._pending /\ w.frames = v.frames
      /\ w.ends = v.ends /\ w._leaving = v._leaving /\ w.queued = v.queued
  BY <1>2, <1>4 DEF Runs
<1>6. /\ w \in Runs /\ DOMAIN w.cbs = DOMAIN v.cbs \cup {n} /\ w.cbs[n] = c
      /\ n \notin DOMAIN v.cbs /\ n \in Nat /\ n # 0
      /\ \A m \in DOMAIN v.cbs : w.cbs[m] = v.cbs[m]
      /\ w.el = v.el /\ w._pending = v._pending /\ w.frames = v.frames /\ w.ends = v.ends
      /\ w._leaving = v._leaving /\ w.queued = v.queued
  BY <1>1, <1>2, <1>3, <1>5
<1> QED BY <1>6 DEF n

Cancelled(v, w, n) ==
    /\ w \in Runs /\ w.el = v.el /\ w._pending = v._pending /\ w.frames = v.frames /\ w.ends = v.ends
    /\ w._leaving = v._leaving /\ w.queued = v.queued /\ DOMAIN w.cbs = DOMAIN v.cbs
    /\ \A m \in DOMAIN v.cbs : /\ w.cbs[m].el = v.cbs[m].el /\ w.cbs[m].kind = v.cbs[m].kind
                               /\ w.cbs[m].hook = v.cbs[m].hook /\ w.cbs[m].called = v.cbs[m].called
                               /\ w.cbs[m].cancelled <=> m = n \/ v.cbs[m].cancelled

LEMMA CancelKeeps ==
    ASSUME NEW v, Sound(v), NEW n \in DOMAIN v.cbs
    PROVE  Cancelled(v, Moving!Cancel(v, n), n) /\ SoundBut(Moving!Cancel(v, n), n)
<1> DEFINE c == [v.cbs[n] EXCEPT !.cancelled = TRUE]
           w == Moving!Cancel(v, n)
<1>1. v \in Runs /\ v.cbs[n] \in Callbacks /\ 0 \notin DOMAIN v.cbs
  BY Indices DEF Sound, SoundBut
<1>2. /\ c \in Callbacks /\ c.el = v.cbs[n].el /\ c.kind = v.cbs[n].kind /\ c.hook = v.cbs[n].hook
      /\ c.cancelled = TRUE /\ c.called = v.cbs[n].called
  BY <1>1 DEF Callbacks
<1>3. IsCallback(v, n, c, w)
  BY DEF IsCallback, Moving!Cancel
<1> HIDE DEF c, w
<1>4. /\ w \in Runs /\ DOMAIN w.cbs = DOMAIN v.cbs /\ w.cbs[n] = c
      /\ \A m \in DOMAIN v.cbs : m # n => w.cbs[m] = v.cbs[m]
      /\ w.el = v.el /\ w._pending = v._pending /\ w.frames = v.frames /\ w.ends = v.ends
      /\ w._leaving = v._leaving /\ w.queued = v.queued
  BY <1>1, <1>2, <1>3, CallbackChanged
<1>5. ASSUME NEW m \in DOMAIN v.cbs
      PROVE  /\ w.cbs[m].el = v.cbs[m].el /\ w.cbs[m].kind = v.cbs[m].kind
             /\ w.cbs[m].hook = v.cbs[m].hook /\ w.cbs[m].called = v.cbs[m].called
             /\ w.cbs[m].cancelled <=> m = n \/ v.cbs[m].cancelled
  <2>1. CASE m = n
    BY <1>2, <1>4, <2>1
  <2>2. CASE m # n
    BY <1>4, <2>2
  <2> QED BY <2>1, <2>2
<1>6. Cancelled(v, w, n)
  BY <1>4, <1>5 DEF Cancelled
<1>7. SoundBut(w, n)
  <2>1. Waits(w)
    BY <1>4 DEF Sound, SoundBut, Waits
  <2>2. Links(w)
    BY <1>4, <1>5 DEF Sound, SoundBut, Links
  <2>3. \A m \in DOMAIN w.cbs : Leaving(w, m) => w.el[w.cbs[m].el]._leaveCb = m
    BY <1>4, <1>5 DEF Sound, SoundBut, Leaving
  <2>4. \A m \in DOMAIN w.cbs : w.cbs[m].cancelled /\ m # n => w.cbs[m].called
    BY <1>1, <1>4, <1>5 DEF Sound, SoundBut
  <2> QED BY <1>4, <2>1, <2>2, <2>3, <2>4 DEF SoundBut
<1> QED BY <1>6, <1>7 DEF w

\* w comes from v, and nothing was taken from the page.
Untouched(v, w) ==
    /\ DOMAIN w.el = DOMAIN v.el
    /\ \A f \in DOMAIN v.el : v.el[f].on => w.el[f].on

LEMMA LeaveCbIsGentle ==
    ASSUME NEW v, Sound(v), NEW n \in DOMAIN v.cbs, v.cbs[n].kind = "leave"
    PROVE  Sound(Moving!LeaveCb(v, n)) /\ Gentle(v, Moving!LeaveCb(v, n))
<1> DEFINE w == Moving!LeaveCb(v, n)
<1>1. SoundBut(v, n)
  <2>1. 0 \notin DOMAIN v.cbs
    BY Indices DEF Sound, SoundBut
  <2> QED BY <2>1 DEF Sound, SoundBut
<1> HIDE DEF w
<1>2. /\ Sound(w) /\ DOMAIN w.el = DOMAIN v.el /\ DOMAIN w.cbs = DOMAIN v.cbs
      /\ \A m \in DOMAIN v.cbs : /\ w.cbs[m].el = v.cbs[m].el /\ w.cbs[m].kind = v.cbs[m].kind
                                 /\ Leaving(w, m) <=> Leaving(v, m) /\ m # n
      /\ \A e \in DOMAIN v.el :
            v.el[e].on /\ ~w.el[e].on => e = v.cbs[n].el /\ ~v.cbs[n].cancelled /\ Leaving(v, n)
  BY <1>1, LeaveCbKeeps DEF w
<1>3. ASSUME NEW s \in Nat, Away(v, s)
      PROVE  Away(w, s) /\ NotTaken(v, w, s)
  BY <1>2, <1>3 DEF Away, NotTaken
<1> QED BY <1>2, <1>3 DEF Gentle, w

LEMMA CbIsGentle ==
    ASSUME NEW v, Sound(v), NEW n \in DOMAIN v.cbs
    PROVE  Sound(Moving!Cb(v, n)) /\ Gentle(v, Moving!Cb(v, n))
<1>1. v.cbs[n].kind \in {"enter", "leave"} /\ SoundBut(v, n)
  BY Indices DEF Sound, SoundBut, Callbacks, Kinds
<1>2. CASE v.cbs[n].kind = "enter"
  <2>1. Moving!Cb(v, n) = Moving!EnterCb(v, n)
    BY <1>2 DEF Moving!Cb
  <2> QED BY <1>1, <1>2, <2>1, EnterCbKeeps, AlikeIsGentle
<1>3. CASE v.cbs[n].kind = "leave"
  <2>1. Moving!Cb(v, n) = Moving!LeaveCb(v, n)
    BY <1>3 DEF Moving!Cb
  <2> QED BY <1>3, <2>1, LeaveCbIsGentle
<1> QED BY <1>1, <1>2, <1>3

-----------------------------------------------------------------------------
\* enter and leave of an element.

\* The callback of an enter, or of a leave, is made for an element.
Opened(a, e) ==
    [a EXCEPT !.cbs = Append(@, Moving!NewCb(e, "enter", 0)),
              !.el[e]._enterCb = Len(a.cbs) + 1, !.el[e].on = TRUE]
Closed(a, e, hook) ==
    [a EXCEPT !.cbs = Append(@, Moving!NewCb(e, "leave", hook)), !.el[e]._leaveCb = Len(a.cbs) + 1]

LEMMA MadeIsSound ==
    ASSUME NEW a, Sound(a), NEW e \in DOMAIN a.el, NEW kind \in Kinds, NEW hook \in Nat, NEW d, NEW n,
           Made(a, d, e, kind, hook, n), kind = "enter" => hook = 0, kind = "leave" => a.el[e]._leaveCb = 0
    PROVE  Sound(d)
<1>1. /\ d \in Runs /\ DOMAIN d.el = DOMAIN a.el /\ d.frames = a.frames /\ d.ends = a.ends
      /\ d._pending = a._pending
      /\ DOMAIN d.cbs = DOMAIN a.cbs \cup {n} /\ n \notin DOMAIN a.cbs /\ n # 0
      /\ \A m \in DOMAIN a.cbs : d.cbs[m] = a.cbs[m]
      /\ \A f \in DOMAIN a.el : d.el[f]._enterCb = IF f = e /\ kind = "enter" THEN n ELSE a.el[f]._enterCb
      /\ \A f \in DOMAIN a.el : d.el[f]._leaveCb = IF f = e /\ kind = "leave" THEN n ELSE a.el[f]._leaveCb
  BY DEF Made, SameElements
<1>2. /\ d.cbs[n].el = e /\ d.cbs[n].kind = kind /\ d.cbs[n].hook = hook
      /\ ~d.cbs[n].cancelled /\ ~d.cbs[n].called
  BY DEF Made, Moving!NewCb
<1>3. Links(a) /\ Waits(a) /\ 0 \notin DOMAIN a.cbs /\ a \in Runs
  BY Indices DEF Sound, SoundBut
<1>4. \A m \in DOMAIN d.cbs : m = n \/ (m \in DOMAIN a.cbs /\ m # n /\ d.cbs[m] = a.cbs[m])
  BY <1>1
<1>5. Waits(d)
  BY <1>1, <1>3 DEF Waits
<1>6. Links(d)
  <2>1. \A m \in DOMAIN d.cbs : d.cbs[m].el \in DOMAIN d.el
    BY <1>1, <1>2, <1>3, <1>4 DEF Links
  <2>2. \A m \in DOMAIN d.cbs : d.cbs[m].kind = "enter" /\ d.cbs[m].hook # 0 =>
           d.cbs[m].hook \in DOMAIN d.cbs /\ d.cbs[d.cbs[m].hook].kind = "leave"
    BY <1>1, <1>2, <1>3, <1>4 DEF Links
  <2>3. \A f \in DOMAIN d.el : d.el[f]._enterCb # 0 =>
           /\ d.el[f]._enterCb \in DOMAIN d.cbs
           /\ d.cbs[d.el[f]._enterCb].el = f /\ d.cbs[d.el[f]._enterCb].kind = "enter"
    BY <1>1, <1>2, <1>3 DEF Links
  <2>4. \A f \in DOMAIN d.el : d.el[f]._leaveCb # 0 =>
           /\ d.el[f]._leaveCb \in DOMAIN d.cbs
           /\ d.cbs[d.el[f]._leaveCb].el = f /\ d.cbs[d.el[f]._leaveCb].kind = "leave"
    BY <1>1, <1>2, <1>3 DEF Links
  <2> QED BY <2>1, <2>2, <2>3, <2>4 DEF Links
<1>7. ASSUME NEW m \in DOMAIN d.cbs, Leaving(d, m)
      PROVE  d.el[d.cbs[m].el]._leaveCb = m
  <2>1. CASE m = n
    BY <1>1, <1>2, <1>7, <2>1 DEF Leaving
  <2>2. CASE m # n
    <3>1. m \in DOMAIN a.cbs /\ d.cbs[m] = a.cbs[m] /\ Leaving(a, m)
      BY <1>4, <1>7, <2>2 DEF Leaving
    <3>2. a.el[a.cbs[m].el]._leaveCb = m /\ a.cbs[m].el \in DOMAIN a.el /\ m # 0
      BY <1>3, <3>1 DEF Sound, SoundBut, Links
    <3>3. ~(a.cbs[m].el = e /\ kind = "leave")
      BY <3>2
    <3> QED BY <1>1, <3>1, <3>2, <3>3
  <2> QED BY <2>1, <2>2
<1>8. \A m \in DOMAIN d.cbs : d.cbs[m].cancelled /\ m # 0 => d.cbs[m].called
  BY <1>2, <1>4 DEF Sound, SoundBut
<1> QED BY <1>1, <1>5, <1>6, <1>7, <1>8 DEF Sound, SoundBut

LEMMA EnterMade ==
    ASSUME NEW a, Sound(a), NEW e \in DOMAIN a.el
    PROVE  LET n == Len(a.cbs) + 1
           IN  Made(a, Opened(a, e), e, "enter", 0, n) /\ Sound(Opened(a, e))
<1> DEFINE n == Len(a.cbs) + 1
           c == Moving!NewCb(e, "enter", 0)
           b == [a EXCEPT !.cbs = Append(@, c)]
           x == [b.el[e] EXCEPT !._enterCb = n, !.on = TRUE]
           d == [b EXCEPT !.el[e] = x]
<1>1. a \in Runs /\ e \in Nat
  BY Indices DEF Sound, SoundBut
<1>2. d = Opened(a, e)
  BY DEF Opened
<1>3. c \in Callbacks
  BY <1>1 DEF Moving!NewCb, Callbacks, Kinds
<1>4. IsAdded(a, c, b)
  BY DEF IsAdded
<1> HIDE DEF b, c
<1>5. /\ b \in Runs /\ DOMAIN b.cbs = DOMAIN a.cbs \cup {n} /\ b.cbs[n] = c
      /\ n \notin DOMAIN a.cbs /\ n \in Nat /\ n # 0
      /\ \A m \in DOMAIN a.cbs : b.cbs[m] = a.cbs[m]
      /\ b.el = a.el /\ b._pending = a._pending /\ b.frames = a.frames /\ b.ends = a.ends
      /\ b._leaving = a._leaving /\ b.queued = a.queued
  BY <1>1, <1>3, <1>4, CallbackAdded
<1>6. b.el[e] \in Elements
  BY <1>1, <1>5, Indices
<1> HIDE DEF n
<1>7. /\ x \in Elements /\ x.key = b.el[e].key /\ x._enterCb = n /\ x.on = TRUE
      /\ x._leaveCb = b.el[e]._leaveCb /\ x.classes = b.el[e].classes
  BY <1>5, <1>6 DEF Elements
<1>8. IsElement(b, e, x, d)
  BY DEF IsElement
<1> HIDE DEF x, d
<1>9. /\ d \in Runs /\ DOMAIN d.el = DOMAIN b.el /\ d.el[e] = x
      /\ \A f \in DOMAIN b.el : f # e => d.el[f] = b.el[f]
      /\ d.cbs = b.cbs /\ d._pending = b._pending /\ d.frames = b.frames /\ d.ends = b.ends
      /\ d._leaving = b._leaving /\ d.queued = b.queued
  BY <1>1, <1>5, <1>7, <1>8, ElementChanged
<1>10. ASSUME NEW f \in DOMAIN a.el
       PROVE  /\ d.el[f].key = a.el[f].key /\ d.el[f].on <=> a.el[f].on \/ f = e
              /\ d.el[f].classes = a.el[f].classes
              /\ d.el[f]._enterCb = IF f = e THEN n ELSE a.el[f]._enterCb
              /\ d.el[f]._leaveCb = a.el[f]._leaveCb
  <2>1. CASE f = e
    BY <1>5, <1>7, <1>9, <2>1
  <2>2. CASE f # e
    BY <1>5, <1>9, <2>2
  <2> QED BY <2>1, <2>2
<1>11. Made(a, d, e, "enter", 0, n)
  <2>1. SameElements(a, d)
    BY <1>5, <1>9, <1>10 DEF SameElements
  <2> QED BY <1>5, <1>9, <1>10, <2>1 DEF Made, c
<1>12. Sound(d)
  BY <1>11, MadeIsSound DEF Kinds
<1> QED BY <1>2, <1>11, <1>12 DEF n

LEMMA LeaveMade ==
    ASSUME NEW a, Sound(a), NEW e \in DOMAIN a.el, a.el[e]._leaveCb = 0, NEW hook \in Nat
    PROVE  LET n == Len(a.cbs) + 1
           IN  Made(a, Closed(a, e, hook), e, "leave", hook, n) /\ Sound(Closed(a, e, hook))
<1> DEFINE n == Len(a.cbs) + 1
           c == Moving!NewCb(e, "leave", hook)
           b == [a EXCEPT !.cbs = Append(@, c)]
           x == [b.el[e] EXCEPT !._leaveCb = n]
           d == [b EXCEPT !.el[e] = x]
<1>1. a \in Runs /\ e \in Nat
  BY Indices DEF Sound, SoundBut
<1>2. d = Closed(a, e, hook)
  BY DEF Closed
<1>3. c \in Callbacks
  BY <1>1 DEF Moving!NewCb, Callbacks, Kinds
<1>4. IsAdded(a, c, b)
  BY DEF IsAdded
<1> HIDE DEF b, c
<1>5. /\ b \in Runs /\ DOMAIN b.cbs = DOMAIN a.cbs \cup {n} /\ b.cbs[n] = c
      /\ n \notin DOMAIN a.cbs /\ n \in Nat /\ n # 0
      /\ \A m \in DOMAIN a.cbs : b.cbs[m] = a.cbs[m]
      /\ b.el = a.el /\ b._pending = a._pending /\ b.frames = a.frames /\ b.ends = a.ends
      /\ b._leaving = a._leaving /\ b.queued = a.queued
  BY <1>1, <1>3, <1>4, CallbackAdded
<1>6. b.el[e] \in Elements
  BY <1>1, <1>5, Indices
<1> HIDE DEF n
<1>7. /\ x \in Elements /\ x.key = b.el[e].key /\ x._leaveCb = n /\ x.on = b.el[e].on
      /\ x._enterCb = b.el[e]._enterCb /\ x.classes = b.el[e].classes
  BY <1>5, <1>6 DEF Elements
<1>8. IsElement(b, e, x, d)
  BY DEF IsElement
<1> HIDE DEF x, d
<1>9. /\ d \in Runs /\ DOMAIN d.el = DOMAIN b.el /\ d.el[e] = x
      /\ \A f \in DOMAIN b.el : f # e => d.el[f] = b.el[f]
      /\ d.cbs = b.cbs /\ d._pending = b._pending /\ d.frames = b.frames /\ d.ends = b.ends
      /\ d._leaving = b._leaving /\ d.queued = b.queued
  BY <1>1, <1>5, <1>7, <1>8, ElementChanged
<1>10. ASSUME NEW f \in DOMAIN a.el
       PROVE  /\ d.el[f].key = a.el[f].key /\ d.el[f].on = a.el[f].on
              /\ d.el[f].classes = a.el[f].classes
              /\ d.el[f]._enterCb = a.el[f]._enterCb
              /\ d.el[f]._leaveCb = IF f = e THEN n ELSE a.el[f]._leaveCb
  <2>1. CASE f = e
    BY <1>5, <1>7, <1>9, <2>1
  <2>2. CASE f # e
    BY <1>5, <1>9, <2>2
  <2> QED BY <2>1, <2>2
<1>11. Made(a, d, e, "leave", hook, n)
  <2>1. SameElements(a, d)
    BY <1>5, <1>9, <1>10 DEF SameElements
  <2> QED BY <1>5, <1>9, <1>10, <2>1 DEF Made, c
<1>12. Sound(d)
  BY <1>11, MadeIsSound DEF Kinds
<1> QED BY <1>2, <1>11, <1>12 DEF n

LEMMA EnterKeeps ==
    ASSUME NEW v, Sound(v), NEW e \in DOMAIN v.el
    PROVE  LET w == Moving!Enter(v, e)
           IN  /\ Sound(w) /\ Untouched(v, w)
               /\ \A s \in Nat : s = e \/ Away(v, s) => Away(w, s)
<1> DEFINE left == v.el[e]._leaveCb
           a == IF left = 0 THEN v ELSE Moving!LeaveCb(Moving!Cancel(v, left), left)
           n == Len(a.cbs) + 1
           d == Opened(a, e)
<1>1. /\ Sound(a) /\ Untouched(v, a)
      /\ \A s \in Nat : s = e \/ Away(v, s) => Away(a, s)
  <2>1. CASE left = 0
    <3>1. Away(v, e)
      <4>1. 0 \notin DOMAIN v.cbs
        BY Indices DEF Sound, SoundBut
      <4> QED BY <2>1, <4>1 DEF Sound, SoundBut, Away
    <3> QED BY <2>1, <3>1 DEF Untouched
  <2>2. CASE left # 0
    <3> DEFINE u == Moving!Cancel(v, left)
    <3>1. left \in DOMAIN v.cbs /\ v.cbs[left].el = e /\ v.cbs[left].kind = "leave"
      BY <2>2 DEF Sound, SoundBut, Links
    <3> HIDE DEF u
    <3>2. /\ SoundBut(u, left) /\ u.el = v.el /\ DOMAIN u.cbs = DOMAIN v.cbs /\ u.cbs[left].cancelled
          /\ \A m \in DOMAIN v.cbs : /\ u.cbs[m].el = v.cbs[m].el /\ u.cbs[m].kind = v.cbs[m].kind
                                     /\ Leaving(u, m) <=> Leaving(v, m)
      <4>1. Cancelled(v, u, left) /\ SoundBut(u, left)
        BY <3>1, CancelKeeps DEF u
      <4> HIDE DEF left
      <4> QED BY <3>1, <4>1 DEF Cancelled, Leaving
    <3>3. a = Moving!LeaveCb(u, left)
      BY <2>2 DEF u
    <3> HIDE DEF a
    <3>4. /\ Sound(a) /\ DOMAIN a.el = DOMAIN u.el /\ DOMAIN a.cbs = DOMAIN u.cbs
          /\ \A m \in DOMAIN u.cbs : /\ a.cbs[m].el = u.cbs[m].el /\ a.cbs[m].kind = u.cbs[m].kind
                                     /\ Leaving(a, m) <=> Leaving(u, m) /\ m # left
          /\ \A f \in DOMAIN u.el :
                u.el[f].on /\ ~a.el[f].on => f = u.cbs[left].el /\ ~u.cbs[left].cancelled /\ Leaving(u, left)
      BY <3>1, <3>2, <3>3, LeaveCbKeeps
    <3>5. Untouched(v, a)
      BY <3>2, <3>4 DEF Untouched
    <3>6. \A m \in DOMAIN v.cbs : Leaving(v, m) /\ v.cbs[m].el = e => m = left
      BY DEF Sound, SoundBut
    <3>7. ASSUME NEW s \in Nat, s = e \/ Away(v, s)
          PROVE  Away(a, s)
      <4> HIDE DEF left
      <4> QED BY <3>2, <3>4, <3>6, <3>7 DEF Away
    <3> QED BY <3>4, <3>5, <3>7
  <2> QED BY <2>1, <2>2
<1> HIDE DEF a
<1>2. /\ a \in Runs /\ e \in DOMAIN a.el /\ DOMAIN a.el = DOMAIN v.el /\ Links(a) /\ Waits(a)
      /\ e \in Nat
  BY <1>1, Indices DEF Sound, SoundBut, Untouched
<1>3. Moving!Enter(v, e) = IF a.el[e]._enterCb # 0 THEN a ELSE Moving!Begin(d, n)
  BY DEF Moving!Enter, a, Opened
<1>4. CASE a.el[e]._enterCb # 0
  BY <1>1, <1>3, <1>4
<1>5. CASE a.el[e]._enterCb = 0
  <2> HIDE DEF d, n
  <2>1. Made(a, d, e, "enter", 0, n) /\ Sound(d)
    BY <1>1, <1>2, EnterMade DEF d, n
  <2>2. n \in DOMAIN d.cbs /\ d.cbs[n].kind = "enter"
    BY <2>1 DEF Made, Moving!NewCb
  <2>3. Kept(d, Moving!Begin(d, n)) /\ SoundBut(Moving!Begin(d, n), 0)
    BY <2>1, <2>2, BeginKeeps DEF Sound
  <2> DEFINE w == Moving!Begin(d, n)
  <2>4. Moving!Enter(v, e) = w
    BY <1>3, <1>5
  <2> HIDE DEF w
  <2>5. Kept(d, w) /\ Sound(w)
    BY <2>3 DEF w, Sound
  <2>6. Untouched(v, w)
    BY <1>1, <2>1, <2>5 DEF Untouched, Kept, Made, SameElements
  <2>7. ASSUME NEW s \in Nat, Away(a, s)
        PROVE  Away(w, s)
    <3>1. Away(d, s)
      BY <2>1, <2>2, <2>7 DEF Away, Leaving, Made
    <3> QED BY <2>5, <3>1 DEF Away, Leaving, Kept
  <2> QED BY <1>1, <2>4, <2>5, <2>6, <2>7
<1> QED BY <1>4, <1>5

\* The enter callback is given the leave it lets go.
Hooked(v, delay, n) == [v EXCEPT !.cbs[delay].hook = n]
HookSet(v, w, delay, n) ==
    /\ w \in Runs /\ w.el = v.el /\ w._pending = v._pending /\ w.frames = v.frames /\ w.ends = v.ends
    /\ w._leaving = v._leaving /\ w.queued = v.queued /\ DOMAIN w.cbs = DOMAIN v.cbs
    /\ \A m \in DOMAIN v.cbs : /\ w.cbs[m].el = v.cbs[m].el /\ w.cbs[m].kind = v.cbs[m].kind
                               /\ w.cbs[m].cancelled = v.cbs[m].cancelled /\ w.cbs[m].called = v.cbs[m].called
                               /\ w.cbs[m].hook = IF m = delay THEN n ELSE v.cbs[m].hook

LEMMA HookKeeps ==
    ASSUME NEW v, Sound(v), NEW delay \in DOMAIN v.cbs, v.cbs[delay].kind = "enter",
           NEW n \in DOMAIN v.cbs, v.cbs[n].kind = "leave"
    PROVE  HookSet(v, Hooked(v, delay, n), delay, n) /\ Sound(Hooked(v, delay, n))
<1> DEFINE y == [v.cbs[delay] EXCEPT !.hook = n]
           w == [v EXCEPT !.cbs[delay] = y]
<1>1. Hooked(v, delay, n) = w
  BY DEF Hooked
<1>2. v \in Runs /\ v.cbs[delay] \in Callbacks /\ n \in Nat
  BY Indices DEF Sound, SoundBut
<1>3. /\ y \in Callbacks /\ y.el = v.cbs[delay].el /\ y.kind = v.cbs[delay].kind /\ y.hook = n
      /\ y.cancelled = v.cbs[delay].cancelled /\ y.called = v.cbs[delay].called
  BY <1>2 DEF Callbacks
<1>4. IsCallback(v, delay, y, w)
  BY DEF IsCallback
<1> HIDE DEF y, w
<1>5. /\ w \in Runs /\ DOMAIN w.cbs = DOMAIN v.cbs /\ w.cbs[delay] = y
      /\ \A m \in DOMAIN v.cbs : m # delay => w.cbs[m] = v.cbs[m]
      /\ w.el = v.el /\ w._pending = v._pending /\ w.frames = v.frames /\ w.ends = v.ends
      /\ w._leaving = v._leaving /\ w.queued = v.queued
  BY <1>2, <1>3, <1>4, CallbackChanged
<1>6. ASSUME NEW m \in DOMAIN v.cbs
      PROVE  /\ w.cbs[m].el = v.cbs[m].el /\ w.cbs[m].kind = v.cbs[m].kind
             /\ w.cbs[m].cancelled = v.cbs[m].cancelled /\ w.cbs[m].called = v.cbs[m].called
             /\ w.cbs[m].hook = IF m = delay THEN n ELSE v.cbs[m].hook
  <2>1. CASE m = delay
    BY <1>3, <1>5, <2>1
  <2>2. CASE m # delay
    BY <1>5, <2>2
  <2> QED BY <2>1, <2>2
<1>7. HookSet(v, w, delay, n)
  BY <1>5, <1>6 DEF HookSet
<1>8. Sound(w)
  <2>1. Waits(v) /\ Links(v)
    BY DEF Sound, SoundBut
  <2>2. Waits(w)
    BY <1>5, <2>1 DEF Waits
  <2>3. Links(w)
    BY <1>5, <1>6, <2>1 DEF Links
  <2>4. \A m \in DOMAIN w.cbs : Leaving(w, m) => w.el[w.cbs[m].el]._leaveCb = m
    BY <1>5, <1>6 DEF Sound, SoundBut, Leaving
  <2>5. \A m \in DOMAIN w.cbs : w.cbs[m].cancelled /\ m # 0 => w.cbs[m].called
    BY <1>5, <1>6 DEF Sound, SoundBut
  <2> QED BY <1>5, <2>2, <2>3, <2>4, <2>5 DEF Sound, SoundBut
<1> QED BY <1>1, <1>7, <1>8

LEMMA LeaveKeeps ==
    ASSUME NEW v, Sound(v), NEW e \in DOMAIN v.el, NEW hook \in Nat, NEW delay,
           delay = 0 \/ (delay \in DOMAIN v.cbs /\ v.cbs[delay].kind = "enter")
    PROVE  LET w == Moving!Leave(v, e, hook, delay)
           IN  /\ Sound(w) /\ Untouched(v, w)
               /\ \A s \in Nat : s # e /\ Away(v, s) => Away(w, s)
<1> DEFINE entered == v.el[e]._enterCb
           a == IF entered = 0 THEN v ELSE Moving!EnterCb(Moving!Cancel(v, entered), entered)
           n == Len(a.cbs) + 1
           b == Closed(a, e, hook)
           d == Hooked(b, delay, n)
<1>1. Sound(a) /\ Alike(v, a)
  <2>1. CASE entered = 0
    BY <2>1 DEF Alike
  <2>2. CASE entered # 0
    <3> DEFINE z == Moving!Cancel(v, entered)
    <3>1. entered \in DOMAIN v.cbs /\ v.cbs[entered].kind = "enter"
      BY <2>2 DEF Sound, SoundBut, Links
    <3> HIDE DEF z
    <3>2. /\ SoundBut(z, entered) /\ z.el = v.el /\ DOMAIN z.cbs = DOMAIN v.cbs
          /\ \A m \in DOMAIN v.cbs : /\ z.cbs[m].el = v.cbs[m].el /\ z.cbs[m].kind = v.cbs[m].kind
                                     /\ Leaving(z, m) <=> Leaving(v, m)
      <4>1. Cancelled(v, z, entered) /\ SoundBut(z, entered)
        BY <3>1, CancelKeeps DEF z
      <4> HIDE DEF entered
      <4> QED BY <3>1, <4>1 DEF Cancelled, Leaving
    <3>3. a = Moving!EnterCb(z, entered)
      BY <2>2 DEF z
    <3> HIDE DEF a
    <3>4. Sound(a) /\ Alike(z, a)
      BY <3>1, <3>2, <3>3, EnterCbKeeps
    <3>5. Alike(v, a)
      BY <3>2, <3>4 DEF Alike
    <3> QED BY <3>4, <3>5
  <2> QED BY <2>1, <2>2
<1> HIDE DEF a
<1>2. /\ a \in Runs /\ e \in DOMAIN a.el /\ DOMAIN a.el = DOMAIN v.el /\ Links(a) /\ Waits(a)
      /\ e \in Nat /\ DOMAIN a.cbs = DOMAIN v.cbs /\ 0 \notin DOMAIN a.cbs
  BY <1>1, Indices DEF Sound, SoundBut, Alike
<1>3. Untouched(v, a) /\ \A s \in Nat : Away(v, s) => Away(a, s)
  BY <1>1, AlikeIsGentle DEF Alike, Untouched, Gentle
<1>4. Moving!Leave(v, e, hook, delay) =
        IF a.el[e]._leaveCb # 0 THEN a ELSE IF delay = 0 THEN Moving!PerformLeave(b, n) ELSE d
  BY DEF Moving!Leave, Hooked, Closed, a
<1>5. CASE a.el[e]._leaveCb # 0
  BY <1>1, <1>3, <1>4, <1>5
<1>6. CASE a.el[e]._leaveCb = 0
  <2> HIDE DEF b, n
  <2>1. Made(a, b, e, "leave", hook, n) /\ Sound(b)
    BY <1>1, <1>2, <1>6, LeaveMade DEF b, n
  <2>2. /\ n \in DOMAIN b.cbs /\ n \notin DOMAIN a.cbs /\ n \in Nat /\ n # 0
        /\ b.cbs[n].el = e /\ b.cbs[n].kind = "leave" /\ ~b.cbs[n].cancelled
        /\ \A m \in DOMAIN a.cbs : m \in DOMAIN b.cbs /\ b.cbs[m] = a.cbs[m]
        /\ \A m \in DOMAIN b.cbs : m = n \/ (m \in DOMAIN a.cbs /\ m # n /\ b.cbs[m] = a.cbs[m])
    BY <2>1 DEF Made, Moving!NewCb
  <2>13. Untouched(v, b) /\ \A s \in Nat : s # e /\ Away(v, s) => Away(b, s)
    <3>1. Untouched(v, b)
      BY <1>3, <2>1 DEF Untouched, Made, SameElements
    <3>2. ASSUME NEW s \in Nat, s # e, Away(a, s)
          PROVE  Away(b, s)
      BY <2>2, <3>2 DEF Away, Leaving
    <3> QED BY <1>3, <3>1, <3>2
  <2>14. CASE delay = 0
    <3> DEFINE w == Moving!PerformLeave(b, n)
    <3>1. Moving!Leave(v, e, hook, delay) = w
      BY <1>4, <1>6, <2>14
    <3>2. Kept(b, w) /\ Sound(w)
      BY <2>1, <2>2, LeaveBegins DEF Sound
    <3> HIDE DEF w
    <3>3. Untouched(v, w) /\ \A s \in Nat : s # e /\ Away(v, s) => Away(w, s)
      BY <2>13, <3>2 DEF Untouched, Away, Leaving, Kept
    <3> QED BY <3>1, <3>2, <3>3
  <2>15. CASE delay # 0
    <3>1. delay \in DOMAIN b.cbs /\ b.cbs[delay].kind = "enter"
      BY <1>1, <2>2, <2>15 DEF Alike
    <3>2. HookSet(b, d, delay, n) /\ Sound(d)
      BY <2>1, <2>2, <3>1, HookKeeps
    <3>3. \A m \in DOMAIN b.cbs : Leaving(d, m) <=> Leaving(b, m)
      BY <3>2 DEF HookSet, Leaving
    <3> HIDE DEF d
    <3>4. Untouched(v, d) /\ \A s \in Nat : s # e /\ Away(v, s) => Away(d, s)
      BY <2>13, <3>2, <3>3 DEF Untouched, Away, HookSet
    <3>5. Moving!Leave(v, e, hook, delay) = d
      BY <1>4, <1>6, <2>15
    <3> QED BY <3>2, <3>4, <3>5
  <2> QED BY <2>14, <2>15
<1> QED BY <1>5, <1>6

LEMMA InsertKeeps ==
    ASSUME NEW v, Sound(v), NEW e \in DOMAIN v.el
    PROVE  Sound(Moving!Insert(v, e)) /\ Gentle(v, Moving!Insert(v, e))
<1> DEFINE p == v._pending[v.el[e].key]
<1>1. Gentle(v, v)
  BY DEF Gentle, NotTaken
<1>2. ASSUME p # 0, v.el[p]._leaveCb # 0
      PROVE  v.el[p]._leaveCb \in DOMAIN v.cbs /\ v.cbs[v.el[p]._leaveCb].kind = "leave"
  <2>1. v.el[e].key \in Keys
    BY Indices DEF Sound, SoundBut, Elements
  <2>2. p \in DOMAIN v.el
    BY <1>2, <2>1 DEF Sound, SoundBut, Waits
  <2> HIDE DEF p
  <2> QED BY <1>2, <2>2 DEF Sound, SoundBut, Links
<1>3. Moving!Insert(v, e) = IF p # 0 /\ v.el[p]._leaveCb # 0 THEN Moving!LeaveCb(v, v.el[p]._leaveCb) ELSE v
  BY DEF Moving!Insert
<1> HIDE DEF p
<1> QED BY <1>1, <1>2, <1>3, LeaveCbIsGentle

NewElement(v, w, n, k) ==
    /\ w \in Runs /\ DOMAIN w.el = DOMAIN v.el \cup {n} /\ n \notin DOMAIN v.el /\ n # 0
    /\ w.el[n].key = k /\ ~w.el[n].on /\ w.el[n].classes = {} /\ w.el[n]._enterCb = 0 /\ w.el[n]._leaveCb = 0
    /\ \A f \in DOMAIN v.el : w.el[f] = v.el[f]
    /\ w.cbs = v.cbs /\ w._pending = v._pending /\ w.frames = v.frames /\ w.ends = v.ends
    /\ w._leaving = v._leaving /\ w.queued = v.queued

LEMMA AddedKeeps ==
    ASSUME NEW v, Sound(v), NEW k \in Keys
    PROVE  LET w == Moving!Added(v, k)
               n == Len(v.el) + 1
           IN  /\ NewElement(v, w, n, k)
               /\ Sound(w) /\ DOMAIN w.el = DOMAIN v.el \cup {n} /\ n \notin DOMAIN v.el /\ n \in Nat
               /\ \A f \in DOMAIN v.el : w.el[f].on = v.el[f].on
               /\ Away(w, n) /\ \A s \in Nat : Away(v, s) => Away(w, s)
<1> DEFINE n == Len(v.el) + 1
           x == [key |-> k, on |-> FALSE, classes |-> {}, _enterCb |-> 0, _leaveCb |-> 0]
           l == Append(v.el, x)
           w == Moving!Added(v, k)
<1>1. /\ v \in Runs /\ v.el \in Seq(Elements) /\ DOMAIN v.el = 1..Len(v.el) /\ Len(v.el) \in Nat
      /\ Links(v) /\ Waits(v)
  BY Indices DEF Sound, SoundBut, Runs
<1>2. x \in Elements /\ x._enterCb = 0 /\ x._leaveCb = 0 /\ x.key = k /\ ~x.on /\ x.classes = {}
  BY DEF Elements
<1>3. w = [v EXCEPT !.el = l]
  BY DEF Moving!Added
<1> HIDE DEF x, w
<1>4. /\ l \in Seq(Elements) /\ DOMAIN l = 1..n /\ l[n] = x
      /\ \A f \in 1..Len(v.el) : l[f] = v.el[f]
  BY <1>1, <1>2, AppendProperties, LenProperties
<1>5. 1..n = DOMAIN v.el \cup {n} /\ n \notin DOMAIN v.el /\ n \in Nat /\ n # 0
  BY <1>1
<1> HIDE DEF l, n
<1>6. /\ w \in Runs /\ w.el = l /\ w.cbs = v.cbs /\ w._pending = v._pending /\ w.frames = v.frames
      /\ w.ends = v.ends /\ w._leaving = v._leaving /\ w.queued = v.queued
  BY <1>1, <1>3, <1>4 DEF Runs
<1>7. /\ DOMAIN w.el = DOMAIN v.el \cup {n} /\ w.el[n] = x
      /\ \A f \in DOMAIN v.el : w.el[f] = v.el[f]
  BY <1>1, <1>4, <1>5, <1>6
<1>8. Sound(w)
  <2>1. Waits(w)
    BY <1>1, <1>6, <1>7 DEF Waits
  <2>2. \A f \in DOMAIN w.el : f \in DOMAIN v.el \/ (w.el[f]._enterCb = 0 /\ w.el[f]._leaveCb = 0)
    BY <1>2, <1>7
  <2>3. Links(w)
    BY <1>1, <1>6, <1>7, <2>2 DEF Links
  <2>4. \A m \in DOMAIN w.cbs : Leaving(w, m) => w.el[w.cbs[m].el]._leaveCb = m
    BY <1>1, <1>6, <1>7 DEF Sound, SoundBut, Leaving, Links
  <2>5. \A m \in DOMAIN w.cbs : w.cbs[m].cancelled /\ m # 0 => w.cbs[m].called
    BY <1>6 DEF Sound, SoundBut
  <2> QED BY <1>6, <2>1, <2>3, <2>4, <2>5 DEF Sound, SoundBut
<1>9. Away(w, n) /\ \A s \in Nat : Away(v, s) => Away(w, s)
  BY <1>1, <1>5, <1>6 DEF Away, Leaving, Links
<1>10. /\ Sound(w) /\ DOMAIN w.el = DOMAIN v.el \cup {n} /\ n \notin DOMAIN v.el /\ n \in Nat
       /\ \A f \in DOMAIN v.el : w.el[f].on = v.el[f].on
       /\ Away(w, n) /\ \A s \in Nat : Away(v, s) => Away(w, s)
  BY <1>5, <1>7, <1>8, <1>9
<1>11. NewElement(v, w, n, k)
  BY <1>2, <1>5, <1>6, <1>7 DEF NewElement
<1> QED BY <1>10, <1>11 DEF n, w

-----------------------------------------------------------------------------
(* The element of the last rendering does not leave: nothing takes it.        *)
MoveInv ==
    /\ mode \in {"show", "default", "out-in", "in-out"} /\ want \in Keys \cup {None}
    /\ Sound(run) /\ shown \in {0} \cup DOMAIN run.el /\ Away(run, shown)
    /\ mode = "show" => 1 \in DOMAIN run.el /\ shown \in {0, 1}

LEMMA MoveInit == Keys # {} /\ None \notin Keys /\ Moving!Init => MoveInv
<1> SUFFICES ASSUME Keys # {}, None \notin Keys, Moving!Init
             PROVE  MoveInv
  OBVIOUS
<1> DEFINE k == IF want = None THEN CHOOSE j \in Keys : TRUE ELSE want
           x == [key |-> k, on |-> want # None, classes |-> {}, _enterCb |-> 0, _leaveCb |-> 0]
           l == IF want = None /\ mode # "show" THEN <<>> ELSE <<x>>
<1>1. k \in Keys
  BY DEF Moving!Init
<1> HIDE DEF k
<1>2. x \in Elements /\ x._enterCb = 0 /\ x._leaveCb = 0
  BY <1>1 DEF Elements
<1>3. run = [el |-> l, cbs |-> <<>>, _pending |-> [j \in Keys |-> 0], frames |-> <<>>, ends |-> {},
             _leaving |-> FALSE, queued |-> FALSE]
  BY DEF Moving!Init, k
<1> HIDE DEF x
<1>4. l \in Seq(Elements) /\ \A e \in DOMAIN l : l[e]._enterCb = 0 /\ l[e]._leaveCb = 0
  BY <1>2
<1>5. want # None \/ mode = "show" => 1 \in DOMAIN l
  OBVIOUS
<1> HIDE DEF l
<1>6. run \in Runs
  BY <1>3, <1>4 DEF Runs
<1>7. run.el = l /\ DOMAIN run.cbs = {} /\ run.ends = {} /\ DOMAIN run.frames = {}
      /\ \A j \in Keys : run._pending[j] = 0
  BY <1>3
<1>8. Sound(run) /\ Away(run, shown)
  BY <1>4, <1>6, <1>7 DEF Sound, SoundBut, Waits, Links, Away
<1> QED BY <1>5, <1>7, <1>8 DEF MoveInv, Moving!Init

\* What is left of the frames and the timers when one has come.
LEMMA Less ==
    ASSUME NEW v, Sound(v), NEW w, Kept(v, w), w._pending = v._pending,
           w.ends \subseteq v.ends, \A i \in DOMAIN w.frames : w.frames[i] \in DOMAIN v.cbs
    PROVE  Sound(w) /\ Gentle(v, w)
<1>1. Waits(w)
  BY DEF Sound, SoundBut, Waits, Kept
<1> QED BY <1>1, KeptIsSound DEF Sound

LEMMA FlagsKeep ==
    ASSUME NEW v, Sound(v), NEW q \in BOOLEAN, NEW w,
           w = [v EXCEPT !.queued = q] \/ w = [v EXCEPT !._leaving = q]
    PROVE  /\ Sound(w) /\ Gentle(v, w) /\ w.el = v.el /\ w.cbs = v.cbs
           /\ w._pending = v._pending /\ w.frames = v.frames /\ w.ends = v.ends
<1>1. /\ w \in Runs /\ w.el = v.el /\ w.cbs = v.cbs /\ w._pending = v._pending
      /\ w.frames = v.frames /\ w.ends = v.ends
  BY DEF Runs, Sound, SoundBut
<1>2. Kept(v, w) /\ \A i \in DOMAIN w.frames : w.frames[i] \in DOMAIN v.cbs
  BY <1>1 DEF Kept, Sound, SoundBut, Waits
<1> QED BY <1>1, <1>2, Less

\* What a step must establish of what is under way and of the element it shows.
Shows(w, s) == Sound(w) /\ s \in {0} \cup DOMAIN w.el /\ Away(w, s) /\ NotTaken(run, w, s)

LEMMA ShownNat == MoveInv => shown \in Nat
BY Indices DEF MoveInv, Sound, SoundBut

LEMMA GentleShows ==
    ASSUME MoveInv, NEW w, Sound(w), Gentle(run, w), DOMAIN run.el \subseteq DOMAIN w.el
    PROVE  Shows(w, shown)
BY ShownNat DEF MoveInv, Gentle, Shows

LEMMA RenderedKeeps ==
    ASSUME MoveInv
    PROVE  /\ Sound(Moving!Rendered) /\ Gentle(run, Moving!Rendered) /\ Shows(Moving!Rendered, shown)
           /\ Moving!Rendered.el = run.el /\ Moving!Rendered.cbs = run.cbs
           /\ \A s \in Nat : Away(Moving!Rendered, s) <=> Away(run, s)
<1> DEFINE w == Moving!Rendered
<1>1. Sound(run) /\ w = [run EXCEPT !.queued = FALSE]
  BY DEF MoveInv, Moving!Rendered
<1> HIDE DEF w
<1>2. Sound(w) /\ Gentle(run, w) /\ w.el = run.el /\ w.cbs = run.cbs
  BY <1>1, FlagsKeep
<1>3. \A s \in Nat : Away(w, s) <=> Away(run, s)
  BY <1>2 DEF Away, Leaving
<1> QED BY <1>2, <1>3, GentleShows DEF w

\* Gentle steps keep the elements there are.
LEMMA TakenShows ==
    ASSUME MoveInv, Sound(run'), Gentle(run, run'), shown' = shown
    PROVE  Shows(run', shown')
<1>1. Away(run', shown) /\ NotTaken(run, run', shown)
  BY ShownNat DEF MoveInv, Gentle
<1> QED BY <1>1 DEF Shows, MoveInv, NotTaken

LEMMA WishKeeps ==
    ASSUME MoveInv, NEW c \in Keys \cup {None}, Moving!Ask(c)
    PROVE  MoveInv' /\ Shows(run', shown')
<1>1. Sound(run) /\ run' = [run EXCEPT !.queued = TRUE]
  BY DEF MoveInv, Moving!Ask
<1>2. Sound(run') /\ Gentle(run, run') /\ run'.el = run.el
  BY <1>1, FlagsKeep
<1>3. Shows(run', shown)
  BY <1>2, GentleShows
<1>4. Sound(run)' /\ Away(run, shown)'
  <2>1. Sound(run') /\ Away(run', shown) /\ shown' = shown
    BY <1>3 DEF Shows, Moving!Ask
  <2> QED BY <2>1 DEF Sound, SoundBut, Away, Runs, Waits, Links, Leaving
<1>5. shown' = shown /\ mode' = mode /\ want' = c
  BY DEF Moving!Ask
<1>6. run'.el = run.el
  BY <1>2
<1> QED BY <1>3, <1>4, <1>5, <1>6 DEF MoveInv, Shows

\* A child leaves; nothing replaces it.
LEMMA LeavingShows ==
    ASSUME MoveInv, NEW v, Sound(v), v.el = run.el, NEW e \in DOMAIN run.el, NEW hook \in Nat
    PROVE  Shows(Moving!Leave(v, e, hook, 0), 0) /\ DOMAIN Moving!Leave(v, e, hook, 0).el = DOMAIN run.el
<1> DEFINE w == Moving!Leave(v, e, hook, 0)
<1>1. Sound(w) /\ Untouched(v, w)
  BY LeaveKeeps
<1> HIDE DEF w
<1>2. 0 \notin DOMAIN w.el
  BY <1>1, Indices DEF Sound, SoundBut
<1>3. Away(w, 0)
  BY <1>1, <1>2 DEF Away, Sound, SoundBut, Links
<1>4. NotTaken(run, w, 0) /\ DOMAIN w.el = DOMAIN run.el
  BY <1>1 DEF Untouched, NotTaken
<1> QED BY <1>1, <1>3, <1>4 DEF Shows, w

LEMMA DirectiveKeeps ==
    ASSUME MoveInv, Moving!Show
    PROVE  Shows(run', shown') /\ (mode = "show" => 1 \in DOMAIN run'.el /\ shown' \in {0, 1})
<1>1. mode = "show" /\ 1 \in DOMAIN run.el /\ shown' = IF want = None THEN 0 ELSE 1
  BY DEF MoveInv, Moving!Show
<1>2. /\ Sound(Moving!Rendered) /\ Shows(Moving!Rendered, shown) /\ Moving!Rendered.el = run.el
  BY RenderedKeeps
<1>3. CASE shown' = shown
  <2>1. run' = Moving!Rendered
    BY <1>3 DEF Moving!Show
  <2> QED BY <1>1, <1>2, <1>3, <2>1
<1>4. CASE shown' # shown /\ want = None
  <2>1. run' = Moving!Leave(Moving!Rendered, 1, 0, 0) /\ shown' = 0
    BY <1>4 DEF Moving!Show
  <2>2. Shows(Moving!Leave(Moving!Rendered, 1, 0, 0), 0) /\ DOMAIN Moving!Leave(Moving!Rendered, 1, 0, 0).el = DOMAIN run.el
    BY <1>1, <1>2, LeavingShows
  <2> QED BY <1>1, <2>1, <2>2
<1>5. CASE shown' # shown /\ want # None
  <2> DEFINE w == Moving!Enter(Moving!Rendered, 1)
  <2>1. run' = w /\ shown' = 1
    BY <1>5 DEF Moving!Show
  <2>2. Sound(w) /\ Untouched(Moving!Rendered, w) /\ Away(w, 1)
    BY <1>1, <1>2, EnterKeeps
  <2> HIDE DEF w
  <2>3. 1 \in DOMAIN w.el /\ NotTaken(run, w, 1)
    BY <1>1, <1>2, <2>2 DEF Untouched, NotTaken
  <2> QED BY <2>1, <2>2, <2>3 DEF Shows
<1> QED BY <1>3, <1>4, <1>5

\* The new child enters, and what leaves then is not it.
LEMMA EnteringShows ==
    ASSUME MoveInv, NEW k \in Keys
    PROVE  LET v == Moving!Enter(Moving!Added(Moving!Rendered, k), Moving!New)
           IN  /\ Sound(v) /\ DOMAIN v.el = DOMAIN run.el \cup {Moving!New} /\ Moving!New \notin DOMAIN run.el
               /\ Moving!New \in Nat /\ Away(v, Moving!New)
               /\ \A f \in DOMAIN run.el : run.el[f].on => v.el[f].on
<1> DEFINE a == Moving!Added(Moving!Rendered, k)
           v == Moving!Enter(a, Moving!New)
<1>1. Sound(Moving!Rendered) /\ Moving!Rendered.el = run.el
  BY RenderedKeeps
<1>2. Moving!New = Len(Moving!Rendered.el) + 1
  BY <1>1 DEF Moving!New
<1>3. /\ Sound(a) /\ DOMAIN a.el = DOMAIN run.el \cup {Moving!New} /\ Moving!New \notin DOMAIN run.el /\ Moving!New \in Nat
      /\ \A f \in DOMAIN run.el : a.el[f].on = run.el[f].on
  <2> HIDE DEF a
  <2>1. /\ Sound(a) /\ DOMAIN a.el = DOMAIN Moving!Rendered.el \cup {Len(Moving!Rendered.el) + 1}
        /\ Len(Moving!Rendered.el) + 1 \notin DOMAIN Moving!Rendered.el /\ Len(Moving!Rendered.el) + 1 \in Nat
        /\ \A f \in DOMAIN Moving!Rendered.el : a.el[f].on = Moving!Rendered.el[f].on
    BY <1>1, AddedKeeps DEF a
  <2> QED BY <1>1, <1>2, <2>1
<1> HIDE DEF a
<1>4. Sound(v) /\ Untouched(a, v) /\ Away(v, Moving!New)
  BY <1>3, EnterKeeps
<1> HIDE DEF v
<1>5. /\ DOMAIN v.el = DOMAIN run.el \cup {Moving!New}
      /\ \A f \in DOMAIN run.el : run.el[f].on => v.el[f].on
  BY <1>3, <1>4 DEF Untouched
<1> QED BY <1>3, <1>4, <1>5 DEF v, a

LEMMA InsertShows ==
    ASSUME MoveInv, NEW v, Sound(v), DOMAIN v.el = DOMAIN run.el \cup {Moving!New}, Moving!New \in Nat, Away(v, Moving!New),
           \A f \in DOMAIN run.el : run.el[f].on => v.el[f].on
    PROVE  Shows(Moving!Insert(v, Moving!New), Moving!New)
<1> DEFINE w == Moving!Insert(v, Moving!New)
<1>1. Sound(w) /\ Gentle(v, w)
  BY InsertKeeps
<1> HIDE DEF w
<1>2. Away(w, Moving!New) /\ NotTaken(v, w, Moving!New)
  BY <1>1 DEF Gentle
<1>3. NotTaken(run, w, Moving!New) /\ Moving!New \in DOMAIN w.el
  BY <1>2 DEF NotTaken
<1> QED BY <1>1, <1>2, <1>3 DEF Shows, w

LEMMA WantIsKey == MoveInv /\ Moving!Target # None => want \in Keys
BY DEF MoveInv, Moving!Target

LEMMA RenderNewKeeps ==
    ASSUME MoveInv, Moving!RenderNew
    PROVE  Shows(run', shown')
<1> DEFINE v == Moving!Enter(Moving!Added(Moving!Rendered, want), Moving!New)
<1>1. run' = Moving!Insert(v, Moving!New) /\ shown' = Moving!New /\ shown = 0 /\ ~Moving!Same
  BY DEF Moving!RenderNew
<1>2. want \in Keys
  BY <1>1, WantIsKey DEF Moving!Same
<1>3. /\ Sound(v) /\ DOMAIN v.el = DOMAIN run.el \cup {Moving!New} /\ Moving!New \in Nat /\ Away(v, Moving!New)
      /\ \A f \in DOMAIN run.el : run.el[f].on => v.el[f].on
  BY <1>2, EnteringShows
<1> HIDE DEF v
<1> QED BY <1>1, <1>3, InsertShows

LEMMA RenderReplacedKeeps ==
    ASSUME MoveInv, Moving!RenderReplaced
    PROVE  Shows(run', shown')
<1> DEFINE v == Moving!Enter(Moving!Added(Moving!Rendered, want), Moving!New)
           delay == IF mode = "in-out" THEN v.el[Moving!New]._enterCb ELSE 0
           w == Moving!Leave(v, shown, 0, delay)
<1>1. run' = Moving!Insert(w, Moving!New) /\ shown' = Moving!New /\ shown # 0 /\ Moving!Target # None
  BY DEF Moving!RenderReplaced, Moving!Replaces
<1>2. want \in Keys
  BY <1>1, WantIsKey
<1>3. /\ Sound(v) /\ DOMAIN v.el = DOMAIN run.el \cup {Moving!New} /\ Moving!New \notin DOMAIN run.el
      /\ Moving!New \in Nat /\ Away(v, Moving!New)
      /\ \A f \in DOMAIN run.el : run.el[f].on => v.el[f].on
  BY <1>2, EnteringShows
<1> HIDE DEF v
<1>4. shown \in DOMAIN v.el /\ shown # Moving!New
  BY <1>1, <1>3 DEF MoveInv
<1>5. delay = 0 \/ (delay \in DOMAIN v.cbs /\ v.cbs[delay].kind = "enter")
  BY <1>3 DEF Sound, SoundBut, Links
<1> HIDE DEF delay
<1>6. Sound(w) /\ Untouched(v, w) /\ Away(w, Moving!New)
  BY <1>3, <1>4, <1>5, LeaveKeeps
<1> HIDE DEF w
<1>7. /\ DOMAIN w.el = DOMAIN run.el \cup {Moving!New}
      /\ \A f \in DOMAIN run.el : run.el[f].on => w.el[f].on
  BY <1>3, <1>6 DEF Untouched
<1> QED BY <1>1, <1>3, <1>6, <1>7, InsertShows

LEMMA FrameKeeps ==
    ASSUME MoveInv, Moving!Frame
    PROVE  Shows(run', shown')
<1> DEFINE n == Head(run.frames)
           fs == Tail(run.frames)
           a == [run EXCEPT !.frames = fs]
           v == Moving!Drop(a, n, {"start"})
           e == v.cbs[n].el
           cs == v.el[e].classes \cup {<<v.cbs[n].kind, "to">>}
           w == [v EXCEPT !.el[e] = [v.el[e] EXCEPT !.classes = cs]]
           es == w.ends \cup {n}
           d == [w EXCEPT !.ends = es]
<1>1. /\ run.frames # <<>> /\ shown' = shown
      /\ run' = v \/ run' = Moving!Cb(w, n) \/ run' = d
  BY DEF Moving!Frame
<1>2. /\ Sound(run) /\ run \in Runs /\ Links(run) /\ run.frames \in Seq(Nat)
      /\ \A i \in DOMAIN run.frames : run.frames[i] \in DOMAIN run.cbs
      /\ DOMAIN run.frames = 1..Len(run.frames) /\ Len(run.frames) \in Nat
  BY LenProperties DEF MoveInv, Sound, SoundBut, Runs, Waits
<1>3. /\ n = run.frames[1] /\ 1 \in DOMAIN run.frames
      /\ fs \in Seq(Nat) /\ DOMAIN fs = 1..Len(run.frames) - 1
      /\ \A i \in DOMAIN fs : fs[i] = run.frames[i + 1]
  <2>1. run.frames # <<>> /\ run.frames \in Seq(Nat)
    BY <1>1, <1>2
  <2>2. Len(run.frames) \in Nat \ {0} /\ DOMAIN run.frames = 1..Len(run.frames)
    BY <2>1, EmptySeq, LenProperties
  <2>3. /\ n = run.frames[1] /\ fs \in Seq(Nat) /\ Len(fs) = Len(run.frames) - 1
        /\ \A i \in 1..Len(run.frames) - 1 : fs[i] = run.frames[i + 1]
    BY <2>1, HeadTailProperties
  <2>4. DOMAIN fs = 1..Len(fs)
    BY <2>3, LenProperties
  <2>5. 1 \in DOMAIN run.frames
    BY <2>2
  <2>6. DOMAIN fs = 1..Len(run.frames) - 1
    BY <2>3, <2>4
  <2> HIDE DEF n, fs
  <2> QED BY <2>3, <2>5, <2>6
<1> HIDE DEF n, fs
<1>4. n \in DOMAIN run.cbs /\ n \in Nat /\ \A i \in DOMAIN fs : fs[i] \in DOMAIN run.cbs
  <2>1. \A i \in DOMAIN fs : i + 1 \in DOMAIN run.frames
    BY <1>2, <1>3
  <2>2. n \in DOMAIN run.cbs
    BY <1>2, <1>3
  <2>3. n \in Nat
    BY <1>2, <2>2, Indices
  <2> QED BY <1>2, <1>3, <2>1, <2>2, <2>3
<1>5. /\ a \in Runs /\ a.el = run.el /\ a.cbs = run.cbs /\ a._pending = run._pending
      /\ a.frames = fs /\ a.ends = run.ends
  BY <1>2, <1>3 DEF Runs
<1> HIDE DEF a
<1>6. Sound(a) /\ Gentle(run, a)
  BY <1>2, <1>4, <1>5, Less DEF Kept
<1>7. Kept(a, v) /\ v._pending = a._pending /\ v.frames = a.frames /\ v.ends = a.ends
  BY <1>2, <1>4, <1>5, DropKeeps DEF Links
<1> HIDE DEF v
<1>8. Sound(v) /\ Gentle(a, v)
  BY <1>4, <1>5, <1>6, <1>7, Less
<1>9. /\ n \in DOMAIN v.cbs /\ v \in Runs /\ e \in DOMAIN v.el /\ v.el[e] \in Elements
      /\ v.cbs[n] \in Callbacks
  BY <1>4, <1>5, <1>7, <1>8, Indices DEF Kept, Sound, SoundBut, Links
<1>10. cs \in SUBSET Moving!Classes
  BY <1>9 DEF Moving!Classes, Elements, Callbacks, Kinds
<1>11. IsElement(v, e, [v.el[e] EXCEPT !.classes = cs], w)
  BY DEF IsElement
<1> HIDE DEF cs, w, e
<1>12. Kept(v, w) /\ w._pending = v._pending /\ w.frames = v.frames /\ w.ends = v.ends
  BY <1>9, <1>10, <1>11, ClassesChanged
<1>13. Sound(w) /\ Gentle(v, w)
  BY <1>4, <1>5, <1>7, <1>8, <1>12, Less DEF Kept
<1>14. n \in DOMAIN w.cbs
  BY <1>9, <1>12 DEF Kept
<1>15. Sound(Moving!Cb(w, n)) /\ Gentle(w, Moving!Cb(w, n))
  BY <1>13, <1>14, CbIsGentle
<1>16. es \in SUBSET Nat /\ es \subseteq DOMAIN w.cbs
  BY <1>4, <1>13, <1>14 DEF Sound, SoundBut, Runs, Waits
<1> HIDE DEF es
<1>17. /\ d \in Runs /\ d.el = w.el /\ d.cbs = w.cbs /\ d._pending = w._pending
       /\ d.frames = w.frames /\ d.ends = es
  BY <1>13, <1>16 DEF Runs, Sound, SoundBut
<1> HIDE DEF d
<1>18. Sound(d) /\ Gentle(w, d)
  <2>1. Kept(w, d) /\ Waits(d)
    BY <1>13, <1>16, <1>17 DEF Kept, Waits, Sound, SoundBut
  <2> QED BY <1>13, <2>1, KeptIsSound DEF Sound
<1>19. \A x, y, z : Gentle(x, y) /\ Gentle(y, z) => Gentle(x, z)
  BY DEF Gentle, NotTaken
<1>20. Gentle(run, v) /\ Gentle(run, w) /\ Gentle(run, Moving!Cb(w, n)) /\ Gentle(run, d)
  BY <1>6, <1>8, <1>13, <1>15, <1>18, <1>19
<1>21. Sound(run') /\ Gentle(run, run')
  BY <1>1, <1>8, <1>15, <1>18, <1>20
<1> QED BY <1>1, <1>21, TakenShows

LEMMA TransitionEndKeeps ==
    ASSUME MoveInv, NEW n \in run.ends, Moving!End(n)
    PROVE  Shows(run', shown')
<1> DEFINE es == run.ends \ {n}
           a == [run EXCEPT !.ends = es]
<1>1. run' = Moving!Cb(a, n) /\ shown' = shown
  BY DEF Moving!End
<1>2. /\ Sound(run) /\ run \in Runs /\ run.ends \subseteq DOMAIN run.cbs
      /\ \A i \in DOMAIN run.frames : run.frames[i] \in DOMAIN run.cbs
  BY DEF MoveInv, Sound, SoundBut, Waits
<1>3. es \in SUBSET Nat /\ es \subseteq run.ends
  BY <1>2 DEF Runs
<1> HIDE DEF es
<1>4. /\ a \in Runs /\ a.el = run.el /\ a.cbs = run.cbs /\ a._pending = run._pending
      /\ a.frames = run.frames /\ a.ends = es
  BY <1>2, <1>3 DEF Runs
<1> HIDE DEF a
<1>5. Sound(a) /\ Gentle(run, a)
  BY <1>2, <1>3, <1>4, Less DEF Kept
<1>6. Sound(Moving!Cb(a, n)) /\ Gentle(a, Moving!Cb(a, n))
  BY <1>2, <1>4, <1>5, CbIsGentle
<1>7. Gentle(run, Moving!Cb(a, n))
  BY <1>5, <1>6 DEF Gentle, NotTaken
<1> QED BY <1>1, <1>6, <1>7, TakenShows

LEMMA MoveStep ==
    ASSUME MoveInv, [Moving!Next]_Moving!vars
    PROVE  MoveInv' /\ NotTaken(run, run', shown')
<1>1. CASE UNCHANGED Moving!vars
  <2>1. NotTaken(run, run, shown)
    BY DEF NotTaken
  <2> QED BY <1>1, <2>1 DEF Moving!vars, MoveInv, Sound, SoundBut, Away, Runs, Waits, Links, Leaving
<1>2. ASSUME NEW c \in Keys \cup {None}, Moving!Ask(c)
      PROVE  MoveInv' /\ NotTaken(run, run', shown')
  BY <1>2, WishKeeps DEF Shows
<1>3. ASSUME Shows(run', shown'), UNCHANGED <<mode, want>>,
             mode = "show" => 1 \in DOMAIN run'.el /\ shown' \in {0, 1}
      PROVE  MoveInv' /\ NotTaken(run, run', shown')
  <2>1. Sound(run)' /\ Away(run, shown)'
    BY <1>3 DEF Shows, Sound, SoundBut, Away, Runs, Waits, Links, Leaving
  <2> QED BY <1>3, <2>1 DEF MoveInv, Shows
<1>4. CASE Moving!Show
  BY <1>3, <1>4, DirectiveKeeps DEF Moving!Show
<1>5. ASSUME Shows(run', shown'), UNCHANGED <<mode, want>>, mode # "show" \/ shown' = shown
      PROVE  MoveInv' /\ NotTaken(run, run', shown')
  <2>1. mode = "show" => 1 \in DOMAIN run'.el /\ shown' \in {0, 1}
    BY <1>5 DEF MoveInv, Shows, NotTaken
  <2> QED BY <1>3, <1>5, <2>1
<1>6. CASE Moving!RenderSame
  BY <1>5, <1>6, RenderedKeeps DEF Moving!RenderSame
<1>7. CASE Moving!RenderNew
  BY <1>5, <1>7, RenderNewKeeps DEF Moving!RenderNew, Moving!Rendering
<1>8. CASE Moving!RenderNone
  <2>1. run' = Moving!Leave(Moving!Rendered, shown, 0, 0) /\ shown' = 0 /\ shown \in DOMAIN run.el
    BY <1>8 DEF Moving!RenderNone, MoveInv
  <2>2. Shows(run', shown')
    BY <2>1, RenderedKeeps, LeavingShows
  <2> QED BY <1>5, <1>8, <2>2 DEF Moving!RenderNone, Moving!Rendering
<1>9. CASE Moving!RenderOutIn
  <2> DEFINE v == [Moving!Rendered EXCEPT !._leaving = TRUE]
  <2>1. run' = Moving!Leave(v, shown, 1, 0) /\ shown' = 0 /\ shown \in DOMAIN run.el
    BY <1>9 DEF Moving!RenderOutIn, Moving!Replaces, MoveInv
  <2>2. Sound(v) /\ v.el = run.el
    BY RenderedKeeps, FlagsKeep
  <2> HIDE DEF v
  <2>3. Shows(run', shown')
    BY <2>1, <2>2, LeavingShows
  <2> QED BY <1>5, <1>9, <2>3 DEF Moving!RenderOutIn, Moving!Rendering
<1>10. CASE Moving!RenderReplaced
  BY <1>5, <1>10, RenderReplacedKeeps DEF Moving!RenderReplaced, Moving!Rendering
<1>11. CASE Moving!Frame
  BY <1>5, <1>11, FrameKeeps DEF Moving!Frame
<1>12. ASSUME NEW n \in run.ends, Moving!End(n)
       PROVE  MoveInv' /\ NotTaken(run, run', shown')
  BY <1>5, <1>12, TransitionEndKeeps DEF Moving!End
<1> QED BY <1>1, <1>2, <1>4, <1>6, <1>7, <1>8, <1>9, <1>10, <1>11, <1>12 DEF Moving!Next, Moving!Render

LEMMA MoveInvariant == Moving!Spec => []MoveInv
<1>1. Moving!Init => MoveInv
  BY MoveInit, KeysAssumption
<1>2. MoveInv /\ [Moving!Next]_Moving!vars => MoveInv'
  BY MoveStep
<1> QED BY <1>1, <1>2, PTL DEF Moving!Spec

LEMMA NobodyTakesShown == Moving!Spec => Moving!ShownIsNotTaken
<1>1. MoveInv /\ [Moving!Next]_Moving!vars =>
        [\A e \in DOMAIN run.el : run.el[e].on /\ ~run'.el[e].on => e # shown']_Moving!vars
  BY MoveStep DEF NotTaken
<1> QED BY <1>1, MoveInvariant, PTL DEF Moving!Spec, Moving!ShownIsNotTaken

-----------------------------------------------------------------------------
(* Transitions at rest: what is under way is asked for, waited for or held     *)
(* back, and whoever is not the element of the last rendering leaves.          *)

Entering(v, n) == v.cbs[n].kind = "enter" /\ ~v.cbs[n].called
Once(fs) == \A i, j \in DOMAIN fs : fs[i] = fs[j] => i = j
Named(fs) == {fs[i] : i \in DOMAIN fs}
Goes(v, n) == n \in Named(v.frames) \cup v.ends
Holds(v, m, n) == Entering(v, m) /\ v.cbs[m].hook = n
Held(v, n) == \E m \in DOMAIN v.cbs : Holds(v, m, n)

\* The callback an element remembers is not over, and those that are not over are
\* remembered.
Remembers(v) ==
    /\ \A n \in DOMAIN v.cbs : Entering(v, n) => v.el[v.cbs[n].el]._enterCb = n
    /\ \A e \in DOMAIN v.el : v.el[e]._enterCb # 0 => ~v.cbs[v.el[e]._enterCb].called
    /\ \A e \in DOMAIN v.el : v.el[e]._leaveCb # 0 => ~v.cbs[v.el[e]._leaveCb].called

\* All but m that is not over waits for a frame or its end, once, or is held back.
Scheduled(v, m, md) ==
    /\ Once(v.frames) /\ \A n \in v.ends : n \notin Named(v.frames)
    /\ \A n \in DOMAIN v.cbs \ {m} : Entering(v, n) => Goes(v, n)
    /\ \A n \in DOMAIN v.cbs \ {m} : Leaving(v, n) => Goes(v, n) \/ Held(v, n)
    /\ \A n \in Named(v.frames) :
          v.cbs[n].called /\ ~v.cbs[n].cancelled => md # "show" /\ ~v.el[v.cbs[n].el].on
Unplaced(v, n) == v._pending[v.el[v.cbs[n].el].key] # v.cbs[n].el
HeldBack(v, md) ==
    \A m, n \in DOMAIN v.cbs : Holds(v, m, n) =>
       /\ md # "show" /\ Leaving(v, n) /\ ~Goes(v, n)
       /\ Unplaced(v, n)
       /\ \A l \in DOMAIN v.cbs : Holds(v, l, n) => l = m
Pending(v, md) ==
    \A k \in Keys : v._pending[k] # 0 =>
       md # "show" /\ v.el[v._pending[k]].key = k /\ v.el[v._pending[k]]._leaveCb # 0

\* The classes of an element are those of its transition.
Wears(v, e) ==
    /\ \A p \in Parts : /\ <<"enter", p>> \in v.el[e].classes => v.el[e]._enterCb # 0
                        /\ <<"leave", p>> \in v.el[e].classes => v.el[e]._leaveCb # 0
    /\ <<"enter", "start">> \in v.el[e].classes => v.el[e]._enterCb \in Named(v.frames)
    /\ <<"leave", "start">> \in v.el[e].classes => v.el[e]._leaveCb \in Named(v.frames)
Dressed(v, md) == \A e \in DOMAIN v.el : v.el[e].on \/ md = "show" => Wears(v, e)

\* The elements of S stay, the others in the page leave, and none but x has the key
\* of another.
Present(v, S, x, m, md) ==
    /\ S \subseteq DOMAIN v.el /\ \A e \in S : v.el[e].on /\ v.el[e]._leaveCb = 0
    /\ \A e \in DOMAIN v.el : v.el[e]._leaveCb # 0 => v.el[e].on
    /\ \A e \in DOMAIN v.el : v.el[e]._enterCb # 0 => e \in S
    /\ \A e \in DOMAIN v.el \ S : v.el[e].on =>
          /\ v.el[e]._leaveCb # 0
          /\ md = "show" \/ v.el[e]._leaveCb = m \/ v._pending[v.el[e].key] = e \/ Held(v, v.el[e]._leaveCb)
    /\ \A e, f \in DOMAIN v.el :
          v.el[e].on /\ v.el[f].on /\ e # x /\ f # x /\ e # f => v.el[e].key # v.el[f].key

Good(v, m, S, x) ==
    /\ SoundBut(v, m) /\ Remembers(v) /\ Scheduled(v, m, mode) /\ HeldBack(v, mode)
    /\ Pending(v, mode) /\ Dressed(v, mode) /\ Present(v, S, x, m, mode) /\ x \in S \cup {0}

-----------------------------------------------------------------------------
LEMMA FrameAsked ==
    ASSUME NEW fs \in Seq(Nat), NEW n \in Nat
    PROVE  /\ Named(Append(fs, n)) = Named(fs) \cup {n}
           /\ Once(fs) /\ n \notin Named(fs) => Once(Append(fs, n))
<1> DEFINE t == Append(fs, n)
<1>1. /\ DOMAIN t = 1..Len(fs) + 1 /\ DOMAIN fs = 1..Len(fs) /\ Len(fs) \in Nat
      /\ t[Len(fs) + 1] = n /\ \A i \in 1..Len(fs) : t[i] = fs[i]
  BY AppendProperties, LenProperties
<1> HIDE DEF t
<1>2. \A i \in DOMAIN t : i = Len(fs) + 1 \/ i \in 1..Len(fs)
  BY <1>1
<1>3. \A i \in 1..Len(fs) : i # Len(fs) + 1 /\ i \in DOMAIN t
  BY <1>1
<1>4. Len(fs) + 1 \in DOMAIN t
  BY <1>1
<1>5. Named(t) = Named(fs) \cup {n}
  BY <1>1, <1>2, <1>3, <1>4 DEF Named
<1>6. Once(fs) /\ n \notin Named(fs) => Once(t)
  BY <1>1, <1>2 DEF Once, Named
<1> QED BY <1>5, <1>6 DEF t

LEMMA FrameTaken ==
    ASSUME NEW fs \in Seq(Nat), fs # <<>>, Once(fs)
    PROVE  /\ Named(Tail(fs)) = Named(fs) \ {Head(fs)} /\ Once(Tail(fs))
           /\ Head(fs) \in Named(fs) /\ Tail(fs) \in Seq(Nat)
<1> DEFINE t == Tail(fs)
<1>1. /\ DOMAIN fs = 1..Len(fs) /\ Len(fs) \in Nat /\ Len(fs) # 0
      /\ t \in Seq(Nat) /\ Len(t) = Len(fs) - 1 /\ \A i \in 1..Len(fs) - 1 : t[i] = fs[i + 1]
  BY LenProperties, EmptySeq, HeadTailProperties
<1>2. DOMAIN t = 1..Len(fs) - 1 /\ Head(fs) = fs[1]
  BY <1>1, LenProperties
<1> HIDE DEF t
<1>3. \A i \in 1..Len(fs) - 1 : i + 1 \in 1..Len(fs) /\ i + 1 # 1
  BY <1>1
<1>4. \A i \in 1..Len(fs) : i # 1 => i - 1 \in 1..Len(fs) - 1 /\ (i - 1) + 1 = i
  BY <1>1
<1>5. 1 \in 1..Len(fs)
  BY <1>1
<1>6. \A i \in DOMAIN t : t[i] = fs[i + 1] /\ i + 1 \in DOMAIN fs /\ i + 1 # 1
  BY <1>1, <1>2, <1>3
<1>7. \A i \in DOMAIN fs : i # 1 => \E j \in DOMAIN t : t[j] = fs[i]
  BY <1>1, <1>2, <1>4
<1>8. Named(t) = Named(fs) \ {Head(fs)}
  <2>1. \A i \in DOMAIN fs : i # 1 => fs[i] # fs[1]
    BY <1>1, <1>5 DEF Once
  <2>2. \A i \in DOMAIN t : t[i] \in Named(fs) /\ t[i] # fs[1]
    BY <1>6, <2>1 DEF Named
  <2>3. \A i \in DOMAIN fs : fs[i] # fs[1] => fs[i] \in Named(t)
    BY <1>7 DEF Named
  <2> QED BY <1>2, <2>2, <2>3 DEF Named
<1>9. Once(t)
  <2>1. ASSUME NEW i \in DOMAIN t, NEW j \in DOMAIN t, t[i] = t[j]
        PROVE  i = j
    <3>1. i + 1 = j + 1
      BY <1>6, <2>1 DEF Once
    <3> QED BY <1>1, <1>2, <3>1
  <2> QED BY <2>1 DEF Once
<1> QED BY <1>1, <1>2, <1>5, <1>8, <1>9 DEF t, Named

-----------------------------------------------------------------------------
\* A transition begins.
LEMMA StartKeeps ==
    ASSUME NEW v, NEW n, NEW S, NEW x, Good(v, n, S, x), n \in DOMAIN v.cbs, ~v.cbs[n].called, ~v.cbs[n].cancelled,
           ~Goes(v, n), ~Held(v, n), NEW w, Sound(w), Begun(v, w, n)
    PROVE  Good(w, 0, S, x)
<1> DEFINE e == v.cbs[n].el
           c == v.cbs[n].kind
<1>1. /\ v \in Runs /\ w \in Runs /\ w.cbs = v.cbs /\ w.ends = v.ends /\ DOMAIN w.el = DOMAIN v.el
      /\ e \in DOMAIN v.el /\ c \in {"enter", "leave"} /\ 0 \notin DOMAIN v.cbs /\ 0 \notin DOMAIN v.el
      /\ n \in Nat /\ v.frames \in Seq(Nat)
  <2>1. v \in Runs /\ e \in DOMAIN v.el
    BY DEF Good, SoundBut, Links
  <2>2. v.cbs[n] \in Callbacks /\ n \in Nat /\ 0 \notin DOMAIN v.cbs /\ 0 \notin DOMAIN v.el
    BY <2>1, Indices
  <2>3. c \in {"enter", "leave"}
    BY <2>2 DEF Callbacks, Kinds
  <2>4. v.frames \in Seq(Nat)
    BY <2>1 DEF Runs
  <2> QED BY <2>1, <2>2, <2>3, <2>4 DEF Begun, SameElements
<1>2. \A f \in DOMAIN v.el :
         /\ w.el[f].key = v.el[f].key /\ w.el[f].on = v.el[f].on
         /\ w.el[f]._enterCb = v.el[f]._enterCb /\ w.el[f]._leaveCb = v.el[f]._leaveCb
  BY DEF Begun, SameElements
<1>3. \A f \in DOMAIN v.el : w.el[f].classes =
         IF f = e THEN v.el[f].classes \cup ({c} \X {"start", "active"}) ELSE v.el[f].classes
  BY DEF Begun
<1>4. \A k \in Keys : w._pending[k] = IF c = "leave" /\ mode # "show" /\ k = v.el[e].key THEN e ELSE v._pending[k]
  BY DEF Begun
<1>5. Named(w.frames) = Named(v.frames) \cup {n} /\ Once(w.frames)
  <2>1. w.frames = Append(v.frames, n) /\ Once(v.frames) /\ n \notin Named(v.frames)
    BY DEF Begun, Good, Scheduled, Goes
  <2> QED BY <1>1, <2>1, FrameAsked
<1>6. \A j : /\ Goes(w, j) <=> Goes(v, j) \/ j = n
             /\ Entering(w, j) <=> Entering(v, j)
             /\ Leaving(w, j) <=> Leaving(v, j)
  BY <1>1, <1>5 DEF Goes, Entering, Leaving
<1>7. \A j : /\ Held(w, j) <=> Held(v, j)
             /\ \A m : Holds(w, m, j) <=> Holds(v, m, j)
  BY <1>1, <1>6 DEF Held, Holds
<1>8. /\ c = "enter" => v.el[e]._enterCb = n
      /\ c = "leave" => v.el[e]._leaveCb = n
  BY DEF Good, Remembers, Entering, SoundBut, Leaving
<1>9. \A f \in DOMAIN v.el : v.el[f].key \in Keys
  BY <1>1, Indices DEF Elements
<1> HIDE DEF e, c
<1>10. Remembers(w)
  <2>1. Remembers(v) /\ \A j \in DOMAIN v.cbs : v.cbs[j].el \in DOMAIN v.el
    BY DEF Good, SoundBut, Links
  <2>2. \A j \in DOMAIN w.cbs : Entering(w, j) => w.el[w.cbs[j].el]._enterCb = j
    BY <1>1, <1>2, <1>6, <2>1 DEF Remembers
  <2>3. \A f \in DOMAIN w.el : w.el[f]._enterCb # 0 => ~w.cbs[w.el[f]._enterCb].called
    BY <1>1, <1>2, <2>1 DEF Remembers
  <2>4. \A f \in DOMAIN w.el : w.el[f]._leaveCb # 0 => ~w.cbs[w.el[f]._leaveCb].called
    BY <1>1, <1>2, <2>1 DEF Remembers
  <2> QED BY <2>2, <2>3, <2>4 DEF Remembers
<1>11. Scheduled(w, 0, mode)
  <2>1. \A j \in w.ends : j \notin Named(w.frames)
    BY <1>1, <1>5 DEF Good, Scheduled, Goes
  <2>2. /\ \A j \in DOMAIN w.cbs \ {0} : Entering(w, j) => Goes(w, j)
        /\ \A j \in DOMAIN w.cbs \ {0} : Leaving(w, j) => Goes(w, j) \/ Held(w, j)
    BY <1>1, <1>6, <1>7 DEF Good, Scheduled
  <2>3. \A j \in Named(w.frames) :
          w.cbs[j].called /\ ~w.cbs[j].cancelled => mode # "show" /\ ~w.el[w.cbs[j].el].on
    <3>1. ASSUME NEW j \in Named(v.frames), v.cbs[j].called, ~v.cbs[j].cancelled
          PROVE  mode # "show" /\ ~w.el[v.cbs[j].el].on
      <4>1. mode # "show" /\ ~v.el[v.cbs[j].el].on
        BY <3>1 DEF Good, Scheduled
      <4>2. v.cbs[j].el \in DOMAIN v.el
        BY <3>1 DEF Good, SoundBut, Links, Waits, Named
      <4> QED BY <1>2, <4>1, <4>2
    <3> QED BY <1>1, <1>5, <3>1
  <2> QED BY <1>5, <2>1, <2>2, <2>3 DEF Scheduled
<1>12. HeldBack(w, mode)
  <2>1. ASSUME NEW m \in DOMAIN v.cbs, NEW j \in DOMAIN v.cbs, Holds(v, m, j)
        PROVE  /\ mode # "show" /\ Leaving(w, j) /\ ~Goes(w, j)
               /\ Unplaced(w, j)
               /\ \A l \in DOMAIN v.cbs : Holds(w, l, j) => l = m
    <3>1. /\ mode # "show" /\ Leaving(v, j) /\ ~Goes(v, j)
          /\ Unplaced(v, j)
          /\ \A l \in DOMAIN v.cbs : Holds(v, l, j) => l = m
      BY <2>1 DEF Good, HeldBack
    <3>2. j # n
      BY <2>1 DEF Held
    <3>3. v.cbs[j].el \in DOMAIN v.el /\ v.el[v.cbs[j].el]._leaveCb = j
      BY <3>1 DEF Good, SoundBut, Links
    <3>4. c = "leave" => v.cbs[j].el # e
      BY <1>8, <3>2, <3>3
    <3>5. Unplaced(w, j)
      BY <1>1, <1>2, <1>4, <1>9, <3>1, <3>3, <3>4 DEF Unplaced
    <3> QED BY <1>6, <1>7, <3>1, <3>2, <3>5
  <2> QED BY <1>1, <1>7, <2>1 DEF HeldBack
<1>13. Pending(w, mode)
  <2>1. ASSUME NEW k \in Keys, w._pending[k] # 0
        PROVE  mode # "show" /\ w.el[w._pending[k]].key = k /\ w.el[w._pending[k]]._leaveCb # 0
    <3>1. CASE c = "leave" /\ mode # "show" /\ k = v.el[e].key
      BY <1>1, <1>2, <1>4, <1>8, <3>1
    <3>2. CASE ~(c = "leave" /\ mode # "show" /\ k = v.el[e].key)
      <4>1. w._pending[k] = v._pending[k]
        BY <1>4, <3>2
      <4>2. v._pending[k] \in DOMAIN v.el
        BY <2>1, <4>1 DEF Good, SoundBut, Waits
      <4>3. mode # "show" /\ v.el[v._pending[k]].key = k /\ v.el[v._pending[k]]._leaveCb # 0
        BY <2>1, <4>1 DEF Good, Pending
      <4> QED BY <1>2, <4>1, <4>2, <4>3
    <3> QED BY <3>1, <3>2
  <2> QED BY <2>1 DEF Pending
<1>14. Dressed(w, mode)
  <2>1. ASSUME NEW f \in DOMAIN v.el, v.el[f].on \/ mode = "show"
        PROVE  Wears(w, f)
    <3>1. Wears(v, f)
      BY <2>1 DEF Good, Dressed
    <3>2. CASE f # e
      <4>1. w.el[f].classes = v.el[f].classes
        BY <1>3, <3>2
      <4> QED BY <1>2, <1>5, <3>1, <4>1 DEF Wears
    <3>3. CASE f = e
      <4>1. \A d, p : <<d, p>> \in w.el[f].classes => <<d, p>> \in v.el[f].classes \/ d = c
        <5>1. w.el[f].classes = v.el[f].classes \cup ({c} \X {"start", "active"})
          BY <1>3, <3>3
        <5>2. \A d, p : <<d, p>> \in {c} \X {"start", "active"} => d = c
          OBVIOUS
        <5> QED BY <5>1, <5>2
      <4>2. /\ <<"enter", "start">> \in w.el[f].classes => <<"enter", "start">> \in v.el[f].classes \/ "enter" = c
            /\ <<"leave", "start">> \in w.el[f].classes => <<"leave", "start">> \in v.el[f].classes \/ "leave" = c
            /\ \A p \in Parts : /\ <<"enter", p>> \in w.el[f].classes => <<"enter", p>> \in v.el[f].classes \/ "enter" = c
                                /\ <<"leave", p>> \in w.el[f].classes => <<"leave", p>> \in v.el[f].classes \/ "leave" = c
        BY <4>1
      <4>3. n # 0
        BY <1>1
      <4> QED BY <1>2, <1>5, <1>8, <3>1, <3>3, <4>2, <4>3 DEF Wears
    <3> QED BY <3>2, <3>3
  <2> QED BY <1>1, <1>2, <2>1 DEF Dressed
<1>15. Present(w, S, x, 0, mode)
  <2>1. /\ S \subseteq DOMAIN w.el /\ \A f \in S : w.el[f].on /\ w.el[f]._leaveCb = 0
        /\ \A f \in DOMAIN w.el : w.el[f]._leaveCb # 0 => w.el[f].on
        /\ \A f \in DOMAIN w.el : w.el[f]._enterCb # 0 => f \in S
        /\ \A f, g \in DOMAIN w.el :
              w.el[f].on /\ w.el[g].on /\ f # x /\ g # x /\ f # g => w.el[f].key # w.el[g].key
    BY <1>1, <1>2 DEF Good, Present
  <2>2. ASSUME NEW f \in DOMAIN v.el, f \notin S, v.el[f].on
        PROVE  /\ w.el[f]._leaveCb # 0
               /\ mode = "show" \/ w.el[f]._leaveCb = 0 \/ w._pending[w.el[f].key] = f \/ Held(w, w.el[f]._leaveCb)
    <3>1. /\ v.el[f]._leaveCb # 0
          /\ mode = "show" \/ v.el[f]._leaveCb = n \/ v._pending[v.el[f].key] = f \/ Held(v, v.el[f]._leaveCb)
      BY <2>2 DEF Good, Present
    <3>2. /\ v.el[f]._leaveCb \in DOMAIN v.cbs
          /\ v.cbs[v.el[f]._leaveCb].el = f /\ v.cbs[v.el[f]._leaveCb].kind = "leave"
      BY <3>1 DEF Good, SoundBut, Links
    <3>3. CASE v.el[f]._leaveCb = n
      <4>1. f = e /\ c = "leave"
        BY <3>2, <3>3 DEF e, c
      <4> QED BY <1>2, <1>4, <1>9, <2>2, <3>1, <4>1
    <3>4. CASE v._pending[v.el[f].key] = f
      <4>1. CASE c = "leave" /\ mode # "show" /\ v.el[f].key = v.el[e].key
        <5>1. v.el[e]._leaveCb = n /\ v.el[e].on
          BY <1>1, <1>8, <4>1 DEF Good, Present
        <5>2. e \notin S
          BY <1>1, <5>1 DEF Good, Present
        <5>3. f # x /\ e # x
          BY <1>1, <2>2, <5>2 DEF Good
        <5>4. f = e
          BY <1>1, <2>2, <4>1, <5>1, <5>3 DEF Good, Present
        <5> QED BY <1>2, <1>4, <1>9, <2>2, <3>1, <4>1, <5>4
      <4>2. CASE ~(c = "leave" /\ mode # "show" /\ v.el[f].key = v.el[e].key)
        BY <1>2, <1>4, <1>9, <2>2, <3>1, <3>4, <4>2
      <4> QED BY <4>1, <4>2
    <3> QED BY <1>2, <1>7, <2>2, <3>1, <3>3, <3>4
  <2> QED BY <1>1, <1>2, <2>1, <2>2 DEF Present
<1> QED BY <1>10, <1>11, <1>12, <1>13, <1>14, <1>15 DEF Good, Sound

\* What a callback that is over leaves as it was; the one it held back, if any, is h.
LEMMA OverFacts ==
    ASSUME NEW v, NEW n \in DOMAIN v.cbs, NEW S, NEW x, Good(v, n, S, x), NEW w, Over(v, w, n)
    PROVE  /\ v \in Runs /\ w \in Runs /\ DOMAIN w.el = DOMAIN v.el /\ DOMAIN w.cbs = DOMAIN v.cbs
           /\ 0 \notin DOMAIN v.cbs /\ 0 \notin DOMAIN v.el
           /\ \A f \in DOMAIN v.el : w.el[f].key = v.el[f].key /\ v.el[f].key \in Keys
           /\ \A j \in DOMAIN v.cbs : v.cbs[j].el \in DOMAIN v.el /\ w.cbs[j].el = v.cbs[j].el
           /\ \A j : Goes(w, j) <=> Goes(v, j)
           /\ \A j \in DOMAIN v.cbs : /\ Entering(w, j) <=> Entering(v, j) /\ j # n
                                      /\ Leaving(w, j) <=> Leaving(v, j) /\ j # n
                                      /\ \A l : Holds(w, j, l) <=> Holds(v, j, l) /\ j # n
           /\ Named(w.frames) = Named(v.frames) /\ w.ends = v.ends /\ w.frames = v.frames
           /\ \A j \in Named(v.frames) : j \in DOMAIN v.cbs
<1>1. /\ v \in Runs /\ \A j \in DOMAIN v.cbs : v.cbs[j].el \in DOMAIN v.el
      /\ \A j \in Named(v.frames) : j \in DOMAIN v.cbs
  BY DEF Good, SoundBut, Links, Waits, Named
<1>2. 0 \notin DOMAIN v.cbs /\ 0 \notin DOMAIN v.el /\ \A f \in DOMAIN v.el : v.el[f].key \in Keys
  BY <1>1, Indices DEF Elements
<1>3. /\ w \in Runs /\ DOMAIN w.el = DOMAIN v.el /\ DOMAIN w.cbs = DOMAIN v.cbs
      /\ \A f \in DOMAIN v.el : w.el[f].key = v.el[f].key
      /\ \A j \in DOMAIN v.cbs : w.cbs[j].el = v.cbs[j].el
      /\ w.ends = v.ends /\ w.frames = v.frames
  BY DEF Over, SameElements
<1>4. \A j \in DOMAIN v.cbs : /\ Entering(w, j) <=> Entering(v, j) /\ j # n
                              /\ Leaving(w, j) <=> Leaving(v, j) /\ j # n
  BY DEF Over, Entering, Leaving
<1>5. \A j \in DOMAIN v.cbs : \A l : Holds(w, j, l) <=> Holds(v, j, l) /\ j # n
  BY <1>4 DEF Over, Holds
<1>6. \A j : Goes(w, j) <=> Goes(v, j)
  BY <1>3 DEF Goes
<1> QED BY <1>1, <1>2, <1>3, <1>4, <1>5, <1>6

LEMMA OverSchedule ==
    ASSUME NEW v, NEW n \in DOMAIN v.cbs, NEW S, NEW x, Good(v, n, S, x), NEW w, Over(v, w, n), NEW h,
           \A f \in DOMAIN v.el : w.el[f].on => v.el[f].on,
           \A l \in DOMAIN v.cbs : Holds(v, n, l) => l = h,
           v.cbs[n].cancelled \/ n \notin Named(v.frames) \/ (mode # "show" /\ ~w.el[v.cbs[n].el].on)
    PROVE  Scheduled(w, h, mode)
<1>1. /\ DOMAIN w.cbs = DOMAIN v.cbs
      /\ \A j \in DOMAIN v.cbs : v.cbs[j].el \in DOMAIN v.el /\ w.cbs[j].el = v.cbs[j].el
      /\ \A j : Goes(w, j) <=> Goes(v, j)
      /\ \A j \in DOMAIN v.cbs : /\ Entering(w, j) <=> Entering(v, j) /\ j # n
                                 /\ Leaving(w, j) <=> Leaving(v, j) /\ j # n
                                 /\ \A l : Holds(w, j, l) <=> Holds(v, j, l) /\ j # n
      /\ Named(w.frames) = Named(v.frames) /\ w.ends = v.ends /\ w.frames = v.frames
      /\ \A j \in Named(v.frames) : j \in DOMAIN v.cbs
  BY OverFacts
<1>2. Scheduled(v, n, mode)
  BY DEF Good
<1>3. Once(w.frames) /\ \A j \in w.ends : j \notin Named(w.frames)
  BY <1>1, <1>2 DEF Scheduled
<1>4. \A j \in DOMAIN w.cbs \ {h} : Entering(w, j) => Goes(w, j)
  BY <1>1, <1>2 DEF Scheduled
<1>5. ASSUME NEW j \in DOMAIN w.cbs \ {h}, Leaving(w, j)
      PROVE  Goes(w, j) \/ Held(w, j)
  <2>1. Leaving(v, j) /\ j # n /\ (Goes(v, j) \/ Held(v, j))
    BY <1>1, <1>2, <1>5 DEF Scheduled
  <2>2. CASE Goes(v, j)
    BY <1>1, <2>2
  <2>3. CASE Held(v, j)
    <3>1. PICK m \in DOMAIN v.cbs : Holds(v, m, j)
      BY <2>3 DEF Held
    <3>2. m # n
      BY <1>1, <1>5, <3>1
    <3> QED BY <1>1, <3>1, <3>2 DEF Held
  <2> QED BY <2>1, <2>2, <2>3
<1>6. ASSUME NEW j \in Named(w.frames), w.cbs[j].called, ~w.cbs[j].cancelled
      PROVE  mode # "show" /\ ~w.el[w.cbs[j].el].on
  <2>1. j \in Named(v.frames) /\ j \in DOMAIN v.cbs
    BY <1>1, <1>6
  <2>2. w.cbs[j].cancelled = v.cbs[j].cancelled /\ (w.cbs[j].called <=> j = n \/ v.cbs[j].called)
    BY <2>1 DEF Over
  <2>3. CASE j = n
    BY <1>1, <1>6, <2>1, <2>2, <2>3
  <2>4. CASE j # n
    <3>1. v.cbs[j].called /\ ~v.cbs[j].cancelled
      BY <1>6, <2>2, <2>4
    <3>2. mode # "show" /\ ~v.el[v.cbs[j].el].on
      BY <1>2, <2>1, <3>1 DEF Scheduled
    <3> QED BY <1>1, <2>1, <3>2
  <2> QED BY <2>3, <2>4
<1> QED BY <1>3, <1>4, <1>5, <1>6 DEF Scheduled

\* An enter is over: the leave it held back is to begin.
LEMMA EnteredKeeps ==
    ASSUME NEW v, NEW n \in DOMAIN v.cbs, NEW S, NEW x, Good(v, n, S, x), Entering(v, n),
           v.cbs[n].cancelled \/ n \notin Named(v.frames), NEW w, Sound(w), HasEntered(v, w, n)
    PROVE  /\ Good(w, v.cbs[n].hook, S, x)
           /\ v.cbs[n].hook # 0 => /\ v.cbs[n].hook \in DOMAIN w.cbs /\ Leaving(w, v.cbs[n].hook)
                                   /\ ~Goes(w, v.cbs[n].hook) /\ ~Held(w, v.cbs[n].hook)
<1> DEFINE e == v.cbs[n].el
           h == v.cbs[n].hook
<1>0. Over(v, w, n)
  BY DEF HasEntered
<1>1. /\ v \in Runs /\ DOMAIN w.el = DOMAIN v.el /\ DOMAIN w.cbs = DOMAIN v.cbs
      /\ 0 \notin DOMAIN v.cbs /\ 0 \notin DOMAIN v.el
      /\ \A f \in DOMAIN v.el : w.el[f].key = v.el[f].key /\ v.el[f].key \in Keys
      /\ \A j \in DOMAIN v.cbs : v.cbs[j].el \in DOMAIN v.el /\ w.cbs[j].el = v.cbs[j].el
      /\ \A j : Goes(w, j) <=> Goes(v, j)
      /\ \A j \in DOMAIN v.cbs : /\ Entering(w, j) <=> Entering(v, j) /\ j # n
                                 /\ Leaving(w, j) <=> Leaving(v, j) /\ j # n
                                 /\ \A l : Holds(w, j, l) <=> Holds(v, j, l) /\ j # n
      /\ Named(w.frames) = Named(v.frames)
  BY <1>0, OverFacts
<1>2. /\ w._pending = v._pending
      /\ \A f \in DOMAIN v.el : /\ w.el[f].on = v.el[f].on /\ w.el[f]._leaveCb = v.el[f]._leaveCb
                                /\ w.el[f]._enterCb = IF f = e THEN 0 ELSE v.el[f]._enterCb
  BY DEF HasEntered
<1>3. e \in DOMAIN v.el /\ v.el[e]._enterCb = n /\ v.cbs[n].kind = "enter"
  BY <1>1 DEF Good, Remembers, Entering
<1>4. \A f \in DOMAIN v.el : w.el[f].classes =
         IF f = e THEN v.el[f].classes \ ({"enter"} \X IF v.cbs[n].cancelled THEN Parts ELSE {"active", "to"})
         ELSE v.el[f].classes
  BY <1>0, <1>3 DEF Over
<1>5. \A l \in DOMAIN v.cbs : Holds(v, n, l) => l = h
  BY DEF Holds
<1>6. h # 0 => h \in DOMAIN v.cbs /\ v.cbs[h].kind = "leave"
  BY <1>3 DEF Good, SoundBut, Links
<1>7. Holds(v, n, h)
  BY DEF Holds
<1> HIDE DEF e, h
<1>8. h # 0 => /\ mode # "show" /\ Leaving(v, h) /\ ~Goes(v, h) /\ h # n
               /\ \A l \in DOMAIN v.cbs : Holds(v, l, h) => l = n
  BY <1>3, <1>6, <1>7 DEF Good, HeldBack, Leaving
<1>9. \A j \in DOMAIN v.cbs : j # h => (Held(w, j) <=> Held(v, j))
  BY <1>1, <1>5 DEF Held
<1>10. h # 0 => h \in DOMAIN w.cbs /\ Leaving(w, h) /\ ~Goes(w, h) /\ ~Held(w, h)
  BY <1>1, <1>6, <1>8 DEF Held
<1>11. Remembers(w)
  <2>1. Remembers(v)
    BY DEF Good
  <2>2. \A j \in DOMAIN w.cbs : Entering(w, j) => w.el[w.cbs[j].el]._enterCb = j
    BY <1>1, <1>2, <1>3, <2>1 DEF Remembers
  <2>3. ASSUME NEW f \in DOMAIN w.el, w.el[f]._enterCb # 0
        PROVE  ~w.cbs[w.el[f]._enterCb].called
    <3>1. f # e /\ w.el[f]._enterCb = v.el[f]._enterCb
      BY <1>1, <1>2, <2>3
    <3>2. v.el[f]._enterCb \in DOMAIN v.cbs /\ v.cbs[v.el[f]._enterCb].el = f /\ ~v.cbs[v.el[f]._enterCb].called
      BY <1>1, <2>1, <2>3, <3>1 DEF Good, SoundBut, Links, Remembers
    <3>3. v.el[f]._enterCb # n
      BY <3>1, <3>2 DEF e
    <3> QED BY <1>0, <3>1, <3>2, <3>3 DEF Over
  <2>4. ASSUME NEW f \in DOMAIN w.el, w.el[f]._leaveCb # 0
        PROVE  ~w.cbs[w.el[f]._leaveCb].called
    <3>1. w.el[f]._leaveCb = v.el[f]._leaveCb
      BY <1>1, <1>2
    <3>2. /\ v.el[f]._leaveCb \in DOMAIN v.cbs /\ v.cbs[v.el[f]._leaveCb].kind = "leave"
          /\ ~v.cbs[v.el[f]._leaveCb].called
      BY <1>1, <2>1, <2>4, <3>1 DEF Good, SoundBut, Links, Remembers
    <3>3. v.el[f]._leaveCb # n
      BY <1>3, <3>2
    <3> QED BY <1>0, <3>1, <3>2, <3>3 DEF Over
  <2> QED BY <2>2, <2>3, <2>4 DEF Remembers
<1>12. Scheduled(w, h, mode)
  BY <1>0, <1>1, <1>2, <1>5, OverSchedule
<1>13. HeldBack(w, mode)
  <2>1. ASSUME NEW m \in DOMAIN v.cbs, NEW j \in DOMAIN v.cbs, Holds(w, m, j)
        PROVE  /\ mode # "show" /\ Leaving(w, j) /\ ~Goes(w, j)
               /\ Unplaced(w, j)
               /\ \A l \in DOMAIN v.cbs : Holds(w, l, j) => l = m
    <3>1. /\ mode # "show" /\ Leaving(v, j) /\ ~Goes(v, j)
          /\ Unplaced(v, j)
          /\ \A l \in DOMAIN v.cbs : Holds(v, l, j) => l = m
      BY <1>1, <2>1 DEF Good, HeldBack
    <3>2. j # n
      BY <1>3, <3>1 DEF Leaving
    <3>3. Unplaced(w, j)
      BY <1>1, <1>2, <3>1 DEF Unplaced
    <3> QED BY <1>1, <3>1, <3>2, <3>3
  <2> QED BY <1>1, <2>1 DEF HeldBack
<1>14. Pending(w, mode)
  <2>1. \A k \in Keys : v._pending[k] # 0 => v._pending[k] \in DOMAIN v.el
    BY DEF Good, SoundBut, Waits
  <2> QED BY <1>1, <1>2, <2>1 DEF Good, Pending
<1>15. Dressed(w, mode)
  <2>1. ASSUME NEW f \in DOMAIN v.el, v.el[f].on \/ mode = "show"
        PROVE  Wears(w, f)
    <3>1. Wears(v, f)
      BY <2>1 DEF Good, Dressed
    <3>2. CASE f # e
      <4>1. w.el[f].classes = v.el[f].classes
        BY <1>4, <3>2
      <4> QED BY <1>1, <1>2, <3>1, <3>2, <4>1 DEF Wears
    <3>3. CASE f = e
      <4>1. <<"enter", "start">> \in v.el[f].classes => v.cbs[n].cancelled
        BY <1>3, <3>1, <3>3 DEF Wears
      <4>2. w.el[f].classes = v.el[f].classes \ ({"enter"} \X IF v.cbs[n].cancelled THEN Parts ELSE {"active", "to"})
        BY <1>4, <3>3
      <4>3. \A p \in Parts : <<"enter", p>> \notin w.el[f].classes
        BY <4>1, <4>2 DEF Parts
      <4>4. \A p \in Parts : <<"leave", p>> \in w.el[f].classes => <<"leave", p>> \in v.el[f].classes
        BY <4>2
      <4>5. "start" \in Parts
        BY DEF Parts
      <4> QED BY <1>1, <1>2, <3>1, <4>3, <4>4, <4>5 DEF Wears
    <3> QED BY <3>2, <3>3
  <2> QED BY <1>1, <1>2, <2>1 DEF Dressed
<1>16. Present(w, S, x, h, mode)
  <2>1. /\ S \subseteq DOMAIN w.el /\ \A f \in S : w.el[f].on /\ w.el[f]._leaveCb = 0
        /\ \A f \in DOMAIN w.el : w.el[f]._leaveCb # 0 => w.el[f].on
        /\ \A f, g \in DOMAIN w.el :
              w.el[f].on /\ w.el[g].on /\ f # x /\ g # x /\ f # g => w.el[f].key # w.el[g].key
    BY <1>1, <1>2 DEF Good, Present
  <2>2. \A f \in DOMAIN w.el : w.el[f]._enterCb # 0 => f \in S
    BY <1>1, <1>2 DEF Good, Present
  <2>3. ASSUME NEW f \in DOMAIN v.el, f \notin S, v.el[f].on
        PROVE  /\ w.el[f]._leaveCb # 0
               /\ mode = "show" \/ w.el[f]._leaveCb = h \/ w._pending[w.el[f].key] = f \/ Held(w, w.el[f]._leaveCb)
    <3>1. /\ v.el[f]._leaveCb # 0
          /\ mode = "show" \/ v.el[f]._leaveCb = n \/ v._pending[v.el[f].key] = f \/ Held(v, v.el[f]._leaveCb)
      BY <2>3 DEF Good, Present
    <3>2. v.el[f]._leaveCb \in DOMAIN v.cbs /\ v.cbs[v.el[f]._leaveCb].kind = "leave"
      BY <3>1 DEF Good, SoundBut, Links
    <3>3. v.el[f]._leaveCb # n
      BY <1>3, <3>2
    <3> QED BY <1>1, <1>2, <1>9, <3>1, <3>2, <3>3
  <2> QED BY <1>1, <1>2, <2>1, <2>2, <2>3 DEF Present
<1>17. SoundBut(w, h) /\ x \in S \cup {0}
  BY <1>1 DEF Good, Sound, SoundBut
<1> QED BY <1>10, <1>11, <1>12, <1>13, <1>14, <1>15, <1>16, <1>17 DEF Good, h

\* A leave is over: its element goes, or stays when the leave was cancelled.
LEMMA LeftKeeps ==
    ASSUME NEW v, NEW n \in DOMAIN v.cbs, NEW S, NEW x, Good(v, n, S, x), Leaving(v, n), ~Held(v, n),
           v.cbs[n].cancelled => mode = "show",
           v.cbs[n].cancelled \/ n \notin Named(v.frames) \/ mode # "show", NEW w, Sound(w), HasLeft(v, w, n)
    PROVE  Good(w, 0, IF v.cbs[n].cancelled THEN S \cup {v.cbs[n].el} ELSE S, x)
<1> DEFINE e == v.cbs[n].el
           T == IF v.cbs[n].cancelled THEN S \cup {e} ELSE S
<1>0. Over(v, w, n)
  BY DEF HasLeft
<1>1. /\ v \in Runs /\ DOMAIN w.el = DOMAIN v.el /\ DOMAIN w.cbs = DOMAIN v.cbs
      /\ 0 \notin DOMAIN v.cbs /\ 0 \notin DOMAIN v.el
      /\ \A f \in DOMAIN v.el : w.el[f].key = v.el[f].key /\ v.el[f].key \in Keys
      /\ \A j \in DOMAIN v.cbs : v.cbs[j].el \in DOMAIN v.el /\ w.cbs[j].el = v.cbs[j].el
      /\ \A j : Goes(w, j) <=> Goes(v, j)
      /\ \A j \in DOMAIN v.cbs : /\ Entering(w, j) <=> Entering(v, j) /\ j # n
                                 /\ Leaving(w, j) <=> Leaving(v, j) /\ j # n
                                 /\ \A l : Holds(w, j, l) <=> Holds(v, j, l) /\ j # n
      /\ Named(w.frames) = Named(v.frames)
  BY <1>0, OverFacts
<1>2. /\ \A k \in Keys : w._pending[k] = IF k = v.el[e].key THEN 0 ELSE v._pending[k]
      /\ \A f \in DOMAIN v.el : /\ w.el[f].on <=> v.el[f].on /\ (f # e \/ v.cbs[n].cancelled)
                                /\ w.el[f]._enterCb = v.el[f]._enterCb
                                /\ w.el[f]._leaveCb = IF f = e THEN 0 ELSE v.el[f]._leaveCb
  BY DEF HasLeft
<1>3. e \in DOMAIN v.el /\ v.el[e]._leaveCb = n /\ v.cbs[n].kind = "leave" /\ v.el[e].on /\ e \notin S
  <2>1. e \in DOMAIN v.el /\ v.el[e]._leaveCb = n /\ v.cbs[n].kind = "leave" /\ n # 0
    BY <1>1 DEF Good, SoundBut, Leaving
  <2> QED BY <2>1 DEF Good, Present
<1>4. \A f \in DOMAIN v.el : w.el[f].classes =
         IF f = e THEN v.el[f].classes \ ({"leave"} \X IF v.cbs[n].cancelled THEN Parts ELSE {"active", "to"})
         ELSE v.el[f].classes
  BY <1>0, <1>3 DEF Over
<1>5. \A l \in DOMAIN v.cbs : ~Holds(v, n, l)
  BY <1>3 DEF Holds, Entering
<1> HIDE DEF e
<1>6. \A j \in DOMAIN v.cbs : Held(w, j) <=> Held(v, j)
  BY <1>1, <1>5 DEF Held
<1>7. Remembers(w)
  <2>1. Remembers(v)
    BY DEF Good
  <2>2. \A j \in DOMAIN w.cbs : Entering(w, j) => w.el[w.cbs[j].el]._enterCb = j
    BY <1>1, <1>2, <1>3, <2>1 DEF Remembers
  <2>3. ASSUME NEW f \in DOMAIN w.el, w.el[f]._enterCb # 0
        PROVE  ~w.cbs[w.el[f]._enterCb].called
    <3>1. w.el[f]._enterCb = v.el[f]._enterCb
      BY <1>1, <1>2
    <3>2. /\ v.el[f]._enterCb \in DOMAIN v.cbs /\ v.cbs[v.el[f]._enterCb].kind = "enter"
          /\ ~v.cbs[v.el[f]._enterCb].called
      BY <1>1, <2>1, <2>3, <3>1 DEF Good, SoundBut, Links, Remembers
    <3>3. v.el[f]._enterCb # n
      BY <1>3, <3>2
    <3> QED BY <1>0, <3>1, <3>2, <3>3 DEF Over
  <2>4. ASSUME NEW f \in DOMAIN w.el, w.el[f]._leaveCb # 0
        PROVE  ~w.cbs[w.el[f]._leaveCb].called
    <3>1. f # e /\ w.el[f]._leaveCb = v.el[f]._leaveCb
      BY <1>1, <1>2, <2>4
    <3>2. /\ v.el[f]._leaveCb \in DOMAIN v.cbs /\ v.cbs[v.el[f]._leaveCb].el = f
          /\ ~v.cbs[v.el[f]._leaveCb].called
      BY <1>1, <2>1, <2>4, <3>1 DEF Good, SoundBut, Links, Remembers
    <3>3. v.el[f]._leaveCb # n
      BY <3>1, <3>2 DEF e
    <3> QED BY <1>0, <3>1, <3>2, <3>3 DEF Over
  <2> QED BY <2>2, <2>3, <2>4 DEF Remembers
<1>8. Scheduled(w, 0, mode)
  <2>1. \A l \in DOMAIN v.cbs : Holds(v, n, l) => l = 0
    BY <1>5
  <2>2. \A f \in DOMAIN v.el : w.el[f].on => v.el[f].on
    BY <1>2
  <2>3. v.cbs[n].cancelled \/ n \notin Named(v.frames) \/ (mode # "show" /\ ~w.el[v.cbs[n].el].on)
    BY <1>2, <1>3 DEF e
  <2> QED BY <1>0, <2>1, <2>2, <2>3, OverSchedule
<1>9. HeldBack(w, mode)
  <2>1. ASSUME NEW m \in DOMAIN v.cbs, NEW j \in DOMAIN v.cbs, Holds(w, m, j)
        PROVE  /\ mode # "show" /\ Leaving(w, j) /\ ~Goes(w, j)
               /\ Unplaced(w, j)
               /\ \A l \in DOMAIN v.cbs : Holds(w, l, j) => l = m
    <3>1. Holds(v, m, j)
      BY <1>1, <2>1
    <3>2. /\ mode # "show" /\ Leaving(v, j) /\ ~Goes(v, j)
          /\ Unplaced(v, j)
          /\ \A l \in DOMAIN v.cbs : Holds(v, l, j) => l = m
      BY <3>1 DEF Good, HeldBack
    <3>3. j # n
      BY <3>1 DEF Held
    <3> DEFINE g == v.cbs[j].el
    <3>4. g \in DOMAIN v.el /\ v.el[g].key \in Keys /\ w.cbs[j].el = g /\ w.el[g].key = v.el[g].key /\ g # 0
      BY <1>1
    <3>5. v._pending[v.el[g].key] # g
      BY <3>2 DEF Unplaced
    <3> HIDE DEF g
    <3>6. Unplaced(w, j)
      BY <1>2, <3>4, <3>5 DEF Unplaced
    <3> QED BY <1>1, <3>2, <3>3, <3>6
  <2> QED BY <1>1, <2>1 DEF HeldBack
<1>10. Pending(w, mode)
  <2>1. ASSUME NEW k \in Keys, w._pending[k] # 0
        PROVE  mode # "show" /\ w.el[w._pending[k]].key = k /\ w.el[w._pending[k]]._leaveCb # 0
    <3>1. k # v.el[e].key /\ w._pending[k] = v._pending[k]
      BY <1>2, <2>1
    <3>2. v._pending[k] \in DOMAIN v.el
      BY <2>1, <3>1 DEF Good, SoundBut, Waits
    <3>3. mode # "show" /\ v.el[v._pending[k]].key = k /\ v.el[v._pending[k]]._leaveCb # 0
      BY <2>1, <3>1 DEF Good, Pending
    <3> QED BY <1>1, <1>2, <3>1, <3>2, <3>3
  <2> QED BY <2>1 DEF Pending
<1>11. Dressed(w, mode)
  <2>1. ASSUME NEW f \in DOMAIN v.el, w.el[f].on \/ mode = "show"
        PROVE  Wears(w, f)
    <3>1. Wears(v, f)
      BY <1>2, <2>1 DEF Good, Dressed
    <3>2. CASE f # e
      <4>1. w.el[f].classes = v.el[f].classes
        BY <1>4, <3>2
      <4> QED BY <1>1, <1>2, <3>1, <3>2, <4>1 DEF Wears
    <3>3. CASE f = e
      <4>0. mode = "show"
        BY <1>2, <2>1, <3>3
      <4>1. <<"leave", "start">> \in v.el[f].classes => v.cbs[n].cancelled
        BY <1>3, <3>1, <3>3, <4>0 DEF Wears
      <4>2. w.el[f].classes = v.el[f].classes \ ({"leave"} \X IF v.cbs[n].cancelled THEN Parts ELSE {"active", "to"})
        BY <1>4, <3>3
      <4>3. \A p \in Parts : <<"leave", p>> \notin w.el[f].classes
        BY <4>1, <4>2 DEF Parts
      <4>4. \A p \in Parts : <<"enter", p>> \in w.el[f].classes => <<"enter", p>> \in v.el[f].classes
        BY <4>2
      <4>5. "start" \in Parts
        BY DEF Parts
      <4> QED BY <1>1, <1>2, <3>1, <4>3, <4>4, <4>5 DEF Wears
    <3> QED BY <3>2, <3>3
  <2> QED BY <1>1, <2>1 DEF Dressed
<1>12. Present(w, T, x, 0, mode)
  <2>1. /\ \A f \in S : f \in DOMAIN v.el /\ v.el[f].on /\ v.el[f]._leaveCb = 0
        /\ \A f \in DOMAIN v.el : v.el[f]._leaveCb # 0 => v.el[f].on
        /\ \A f \in DOMAIN v.el : v.el[f]._enterCb # 0 => f \in S
        /\ \A f \in DOMAIN v.el \ S : v.el[f].on =>
              /\ v.el[f]._leaveCb # 0
              /\ mode = "show" \/ v.el[f]._leaveCb = n \/ v._pending[v.el[f].key] = f \/ Held(v, v.el[f]._leaveCb)
        /\ \A f, g \in DOMAIN v.el :
              v.el[f].on /\ v.el[g].on /\ f # x /\ g # x /\ f # g => v.el[f].key # v.el[g].key
    BY DEF Good, Present
  <2>2. \A f \in T : f \in S \/ (f = e /\ v.cbs[n].cancelled)
    OBVIOUS
  <2>3. T \subseteq DOMAIN w.el /\ \A f \in T : w.el[f].on /\ w.el[f]._leaveCb = 0
    BY <1>1, <1>2, <1>3, <2>1, <2>2
  <2>4. /\ \A f \in DOMAIN w.el : w.el[f]._leaveCb # 0 => w.el[f].on
        /\ \A f \in DOMAIN w.el : w.el[f]._enterCb # 0 => f \in T
    BY <1>1, <1>2, <2>1
  <2>5. \A f, g \in DOMAIN w.el :
           w.el[f].on /\ w.el[g].on /\ f # x /\ g # x /\ f # g => w.el[f].key # w.el[g].key
    BY <1>1, <1>2, <2>1
  <2>6. ASSUME NEW f \in DOMAIN v.el, f \notin T, w.el[f].on
        PROVE  /\ w.el[f]._leaveCb # 0
               /\ mode = "show" \/ w.el[f]._leaveCb = 0 \/ w._pending[w.el[f].key] = f \/ Held(w, w.el[f]._leaveCb)
    <3>1. f # e /\ v.el[f].on /\ f \notin S
      BY <1>2, <2>6
    <3>2. /\ v.el[f]._leaveCb # 0
          /\ mode = "show" \/ v.el[f]._leaveCb = n \/ v._pending[v.el[f].key] = f \/ Held(v, v.el[f]._leaveCb)
      BY <2>1, <3>1
    <3>3. v.el[f]._leaveCb \in DOMAIN v.cbs /\ v.cbs[v.el[f]._leaveCb].el = f
      BY <3>2 DEF Good, SoundBut, Links
    <3>4. v.el[f]._leaveCb # n
      BY <3>1, <3>3 DEF e
    <3>5. v.el[f].key # v.el[e].key
      <4>1. f # x /\ e # x
        BY <1>1, <1>3, <3>1 DEF Good
      <4> QED BY <1>3, <2>1, <3>1, <4>1
    <3> QED BY <1>1, <1>2, <1>6, <3>1, <3>2, <3>3, <3>4, <3>5
  <2> HIDE DEF T
  <2> QED BY <1>1, <2>3, <2>4, <2>5, <2>6 DEF Present
<1>13. SoundBut(w, 0) /\ x \in T \cup {0}
  BY DEF Good, Sound
<1> HIDE DEF T
<1> QED BY <1>7, <1>8, <1>9, <1>10, <1>11, <1>12, <1>13 DEF Good, T, e

-----------------------------------------------------------------------------
\* A callback about to be called may be any, and is none when it is over.
LEMMA ToBeCalled ==
    ASSUME NEW v, NEW S, NEW x, Good(v, 0, S, x), NEW n
    PROVE  Good(v, n, S, x)
<1>1. SoundBut(v, 0) /\ 0 \notin DOMAIN v.cbs /\ 0 \notin DOMAIN v.el
  BY Indices DEF Good, SoundBut
<1>2. SoundBut(v, n)
  BY <1>1 DEF SoundBut
<1>3. Scheduled(v, n, mode)
  BY <1>1 DEF Good, Scheduled
<1>4. Present(v, S, x, n, mode)
  BY <1>1 DEF Good, Present
<1> QED BY <1>2, <1>3, <1>4 DEF Good

LEMMA NotToBeCalled ==
    ASSUME NEW v, NEW n \in DOMAIN v.cbs, NEW S, NEW x, Good(v, n, S, x), v.cbs[n].called
    PROVE  Good(v, 0, S, x)
<1>1. SoundBut(v, n) /\ Remembers(v) /\ Scheduled(v, n, mode) /\ Present(v, S, x, n, mode)
  BY DEF Good
<1>2. SoundBut(v, 0)
  BY <1>1 DEF SoundBut
<1>3. Scheduled(v, 0, mode)
  BY <1>1 DEF Scheduled, Entering, Leaving
<1>4. \A f \in DOMAIN v.el : v.el[f]._leaveCb # 0 => v.el[f]._leaveCb # n
  BY <1>1 DEF Remembers
<1>5. Present(v, S, x, 0, mode)
  BY <1>1, <1>4 DEF Present
<1> QED BY <1>2, <1>3, <1>5 DEF Good

LEMMA CancelledKeeps ==
    ASSUME NEW v, NEW n \in DOMAIN v.cbs, NEW S, NEW x, Good(v, 0, S, x), NEW w, Cancelled(v, w, n), SoundBut(w, n)
    PROVE  Good(w, n, S, x)
<1>1. Good(v, n, S, x)
  BY ToBeCalled
<1>2. /\ w.el = v.el /\ w._pending = v._pending /\ w.frames = v.frames /\ w.ends = v.ends
      /\ DOMAIN w.cbs = DOMAIN v.cbs
      /\ \A m \in DOMAIN v.cbs : /\ w.cbs[m].el = v.cbs[m].el /\ w.cbs[m].kind = v.cbs[m].kind
                                 /\ w.cbs[m].hook = v.cbs[m].hook /\ w.cbs[m].called = v.cbs[m].called
                                 /\ w.cbs[m].cancelled <=> m = n \/ v.cbs[m].cancelled
  BY DEF Cancelled
<1>3. /\ \A m : Goes(w, m) <=> Goes(v, m)
      /\ \A m \in DOMAIN v.cbs : Entering(w, m) <=> Entering(v, m)
      /\ \A m \in DOMAIN v.cbs : Leaving(w, m) <=> Leaving(v, m)
      /\ \A m \in DOMAIN v.cbs : \A j : Holds(w, m, j) <=> Holds(v, m, j)
      /\ \A j : Held(w, j) <=> Held(v, j)
  BY <1>2 DEF Goes, Entering, Leaving, Holds, Held
<1>4. SoundBut(v, n) /\ \A j \in Named(v.frames) : j \in DOMAIN v.cbs
  BY <1>1 DEF Good, SoundBut, Waits, Named
<1>5. Remembers(w)
  <2>1. \A f \in DOMAIN v.el : v.el[f]._enterCb # 0 => v.el[f]._enterCb \in DOMAIN v.cbs
    BY <1>4 DEF SoundBut, Links
  <2>2. \A f \in DOMAIN v.el : v.el[f]._leaveCb # 0 => v.el[f]._leaveCb \in DOMAIN v.cbs
    BY <1>4 DEF SoundBut, Links
  <2> QED BY <1>1, <1>2, <1>3, <2>1, <2>2 DEF Good, Remembers
<1>6. Scheduled(w, n, mode)
  BY <1>1, <1>2, <1>3, <1>4 DEF Good, Scheduled
<1>7. HeldBack(w, mode)
  BY <1>1, <1>2, <1>3 DEF Good, HeldBack, Unplaced
<1>8. Pending(w, mode) /\ Dressed(w, mode)
  BY <1>1, <1>2 DEF Good, Pending, Dressed, Wears
<1>9. Present(w, S, x, n, mode)
  BY <1>1, <1>2, <1>3 DEF Good, Present
<1> QED BY <1>1, <1>5, <1>6, <1>7, <1>8, <1>9 DEF Good

\* An enter is over, finished or cancelled, and lets the leave it held back begin.
Aside(v, w, n) ==
    /\ SameElements(v, w) /\ DOMAIN w.cbs = DOMAIN v.cbs /\ w._leaving = v._leaving /\ w.queued = v.queued
    /\ \A m \in DOMAIN v.cbs : /\ w.cbs[m].el = v.cbs[m].el /\ w.cbs[m].kind = v.cbs[m].kind
                               /\ w.cbs[m].hook = v.cbs[m].hook
                               /\ (w.cbs[m].called <=> m = n \/ v.cbs[m].called)
    /\ \A f \in DOMAIN v.el : w.el[f]._enterCb = IF f = v.cbs[n].el THEN 0 ELSE v.el[f]._enterCb

LEMMA EnterIsFinished ==
    ASSUME NEW v, NEW n \in DOMAIN v.cbs, NEW S, NEW x, Good(v, n, S, x), Entering(v, n),
           v.cbs[n].cancelled \/ n \notin Named(v.frames)
    PROVE  Good(Moving!EnterCb(v, n), 0, S, x) /\ Aside(v, Moving!EnterCb(v, n), n)
<1> DEFINE u == Entered(v, n)
           h == v.cbs[n].hook
           w == IF h = 0 THEN u ELSE Moving!PerformLeave(u, h)
<1>1. Moving!EnterCb(v, n) = w /\ v.cbs[n].kind = "enter" /\ ~v.cbs[n].called /\ SoundBut(v, n)
  BY DEF Moving!EnterCb, Entered, Entering, Good
<1>2. Sound(u) /\ HasEntered(v, u, n)
  BY <1>1, EnterIsOver
<1> HIDE DEF u
<1>3. /\ Good(u, h, S, x)
      /\ h # 0 => h \in DOMAIN u.cbs /\ Leaving(u, h) /\ ~Goes(u, h) /\ ~Held(u, h)
  BY <1>2, EnteredKeeps
<1>4. Aside(v, u, n)
  BY <1>2 DEF HasEntered, Over, Aside
<1>5. CASE h = 0
  BY <1>1, <1>3, <1>4, <1>5
<1>6. CASE h # 0
  <2> DEFINE p == Moving!PerformLeave(u, h)
  <2>1. /\ h \in DOMAIN u.cbs /\ u.cbs[h].kind = "leave" /\ ~u.cbs[h].called /\ ~u.cbs[h].cancelled
        /\ SoundBut(u, 0)
    BY <1>2, <1>3, <1>6 DEF Leaving, Sound, SoundBut
  <2>2. SoundBut(p, 0) /\ Begun(u, p, h)
    BY <2>1, LeaveBegins
  <2> HIDE DEF p, h
  <2>3. Good(p, 0, S, x)
    BY <1>3, <1>6, <2>1, <2>2, StartKeeps DEF Sound
  <2>4. Aside(v, p, n)
    <3>1. /\ SameElements(u, p) /\ p.cbs = u.cbs /\ p._leaving = u._leaving /\ p.queued = u.queued
          /\ \A f \in DOMAIN u.el : p.el[f]._enterCb = u.el[f]._enterCb
      BY <2>2 DEF Begun
    <3>2. SameElements(v, p) /\ DOMAIN u.el = DOMAIN v.el
      BY <1>4, <3>1 DEF Aside, SameElements
    <3> QED BY <1>4, <3>1, <3>2 DEF Aside
  <2> QED BY <1>1, <1>6, <2>3, <2>4 DEF p, h
<1> QED BY <1>5, <1>6

LEMMA LeaveIsFinished ==
    ASSUME NEW v, NEW n \in DOMAIN v.cbs, NEW S, NEW x, Good(v, n, S, x), Leaving(v, n), ~Held(v, n),
           v.cbs[n].cancelled => mode = "show",
           v.cbs[n].cancelled \/ n \notin Named(v.frames) \/ mode # "show"
    PROVE  /\ Good(Moving!LeaveCb(v, n), 0, IF v.cbs[n].cancelled THEN S \cup {v.cbs[n].el} ELSE S, x)
           /\ HasLeft(v, Moving!LeaveCb(v, n), n)
<1>1. v.cbs[n].kind = "leave" /\ ~v.cbs[n].called /\ SoundBut(v, n)
  BY DEF Leaving, Good
<1>2. Sound(Moving!LeaveCb(v, n)) /\ HasLeft(v, Moving!LeaveCb(v, n), n)
  BY <1>1, LeaveIsOver
<1> QED BY <1>2, LeftKeeps

-----------------------------------------------------------------------------
\* A callback is made.
LEMMA SoundForAll ==
    ASSUME NEW v, Sound(v), NEW n
    PROVE  SoundBut(v, n)
<1>1. SoundBut(v, 0) /\ 0 \notin DOMAIN v.cbs
  BY Indices DEF Sound, SoundBut
<1> QED BY <1>1 DEF SoundBut

LEMMA MadeFacts ==
    ASSUME NEW a, NEW S, NEW x, Good(a, 0, S, x), NEW e \in DOMAIN a.el, NEW kind \in Kinds, NEW hook \in Nat,
           NEW d, NEW n, Made(a, d, e, kind, hook, n), kind = "enter" => hook = 0 /\ a.el[e]._enterCb = 0
    PROVE  /\ DOMAIN d.el = DOMAIN a.el /\ DOMAIN d.cbs = DOMAIN a.cbs \cup {n} /\ n \notin DOMAIN a.cbs /\ n # 0
           /\ 0 \notin DOMAIN a.cbs /\ 0 \notin DOMAIN a.el
           /\ \A f \in DOMAIN a.el : d.el[f].key = a.el[f].key /\ a.el[f].key \in Keys
           /\ d._pending = a._pending /\ d.frames = a.frames
           /\ \A j \in DOMAIN a.cbs : a.cbs[j].el \in DOMAIN a.el /\ d.cbs[j] = a.cbs[j]
           /\ d.cbs[n].el = e /\ ~d.cbs[n].called /\ ~d.cbs[n].cancelled /\ d.cbs[n].hook = hook
           /\ Entering(d, n) <=> kind = "enter"
           /\ Leaving(d, n) <=> kind = "leave"
           /\ ~Goes(d, n) /\ ~Held(d, n) /\ \A j : Goes(d, j) <=> Goes(a, j)
           /\ \A j \in DOMAIN a.cbs : /\ Entering(d, j) <=> Entering(a, j)
                                      /\ Leaving(d, j) <=> Leaving(a, j)
                                      /\ \A l : Holds(d, j, l) <=> Holds(a, j, l)
           /\ \A l : l # 0 => ~Holds(d, n, l)
           /\ \A j : j # 0 => (Held(d, j) <=> Held(a, j))
           /\ \A j \in Named(a.frames) : j \in DOMAIN a.cbs
<1>1. /\ a \in Runs /\ \A j \in DOMAIN a.cbs : a.cbs[j].el \in DOMAIN a.el
      /\ \A j \in Named(a.frames) : j \in DOMAIN a.cbs
      /\ a.ends \subseteq DOMAIN a.cbs
  BY DEF Good, SoundBut, Links, Waits, Named
<1>2. 0 \notin DOMAIN a.cbs /\ 0 \notin DOMAIN a.el /\ \A f \in DOMAIN a.el : a.el[f].key \in Keys
  BY <1>1, Indices DEF Elements
<1>3. /\ DOMAIN d.el = DOMAIN a.el /\ DOMAIN d.cbs = DOMAIN a.cbs \cup {n} /\ n \notin DOMAIN a.cbs /\ n # 0
      /\ \A f \in DOMAIN a.el : d.el[f].key = a.el[f].key
      /\ d._pending = a._pending /\ d.frames = a.frames /\ d.ends = a.ends
      /\ \A j \in DOMAIN a.cbs : d.cbs[j] = a.cbs[j]
  BY DEF Made, SameElements
<1>4. /\ d.cbs[n].el = e /\ ~d.cbs[n].called /\ ~d.cbs[n].cancelled /\ d.cbs[n].hook = hook
      /\ d.cbs[n].kind = kind
  BY DEF Made, Moving!NewCb
<1>5. /\ Entering(d, n) <=> kind = "enter"
      /\ Leaving(d, n) <=> kind = "leave"
  BY <1>4 DEF Entering, Leaving
<1>6. /\ \A j : Goes(d, j) <=> Goes(a, j)
      /\ ~Goes(d, n)
  BY <1>1, <1>3 DEF Goes
<1>7. \A j \in DOMAIN a.cbs : /\ Entering(d, j) <=> Entering(a, j)
                              /\ Leaving(d, j) <=> Leaving(a, j)
                              /\ \A l : Holds(d, j, l) <=> Holds(a, j, l)
  BY <1>3 DEF Entering, Leaving, Holds
<1>8. \A l : l # 0 => ~Holds(d, n, l)
  BY <1>4, <1>5 DEF Holds
<1>9. \A j : j # 0 => (Held(d, j) <=> Held(a, j))
  BY <1>3, <1>7, <1>8 DEF Held
<1>10. ~Held(a, n)
  BY <1>3 DEF Held, Holds, Entering, Good, SoundBut, Links
<1> QED BY <1>1, <1>2, <1>3, <1>4, <1>5, <1>6, <1>7, <1>8, <1>9, <1>10

LEMMA MadeKeeps ==
    ASSUME NEW a, NEW S, NEW x, Good(a, 0, S, x), NEW e \in DOMAIN a.el, NEW kind \in Kinds, NEW hook \in Nat,
           NEW d, NEW n, Made(a, d, e, kind, hook, n), kind = "enter" => hook = 0 /\ a.el[e]._enterCb = 0,
           a.el[e]._leaveCb = 0, Wears(a, e), mode = "show" \/ kind = "leave" \/ \A j \in DOMAIN a.cbs : a.cbs[j].el # e
    PROVE  Remembers(d) /\ Scheduled(d, n, mode) /\ HeldBack(d, mode) /\ Pending(d, mode) /\ Dressed(d, mode)
<1>1. /\ DOMAIN d.el = DOMAIN a.el /\ DOMAIN d.cbs = DOMAIN a.cbs \cup {n} /\ n \notin DOMAIN a.cbs /\ n # 0
      /\ 0 \notin DOMAIN a.cbs /\ 0 \notin DOMAIN a.el
      /\ \A f \in DOMAIN a.el : d.el[f].key = a.el[f].key /\ a.el[f].key \in Keys
      /\ d._pending = a._pending /\ d.frames = a.frames
      /\ \A j \in DOMAIN a.cbs : a.cbs[j].el \in DOMAIN a.el /\ d.cbs[j] = a.cbs[j]
      /\ d.cbs[n].el = e /\ ~d.cbs[n].called /\ ~d.cbs[n].cancelled
      /\ Entering(d, n) <=> kind = "enter"
      /\ ~Goes(d, n) /\ ~Held(d, n) /\ \A j : Goes(d, j) <=> Goes(a, j)
      /\ \A j \in DOMAIN a.cbs : /\ Entering(d, j) <=> Entering(a, j)
                                 /\ Leaving(d, j) <=> Leaving(a, j)
                                 /\ \A l : Holds(d, j, l) <=> Holds(a, j, l)
      /\ \A l : l # 0 => ~Holds(d, n, l)
      /\ \A j : j # 0 => (Held(d, j) <=> Held(a, j))
      /\ \A j \in Named(a.frames) : j \in DOMAIN a.cbs
  BY MadeFacts
<1>2. \A f \in DOMAIN a.el :
          /\ d.el[f].on <=> a.el[f].on \/ (f = e /\ kind = "enter")
          /\ d.el[f].classes = a.el[f].classes
          /\ d.el[f]._enterCb = IF f = e /\ kind = "enter" THEN n ELSE a.el[f]._enterCb
          /\ d.el[f]._leaveCb = IF f = e /\ kind = "leave" THEN n ELSE a.el[f]._leaveCb
  BY DEF Made
<1>3. kind \in {"enter", "leave"}
  BY DEF Kinds
<1>4. /\ \A f \in DOMAIN a.el : a.el[f]._enterCb # 0 => a.el[f]._enterCb \in DOMAIN a.cbs
      /\ \A f \in DOMAIN a.el : a.el[f]._leaveCb # 0 => a.el[f]._leaveCb \in DOMAIN a.cbs
  BY DEF Good, SoundBut, Links
<1>5. Remembers(d)
  <2>1. Remembers(a)
    BY DEF Good
  <2>2. \A j \in DOMAIN d.cbs : Entering(d, j) => d.el[d.cbs[j].el]._enterCb = j
    BY <1>1, <1>2, <2>1 DEF Remembers
  <2>3. \A f \in DOMAIN d.el : d.el[f]._enterCb # 0 => ~d.cbs[d.el[f]._enterCb].called
    BY <1>1, <1>2, <1>4, <2>1 DEF Remembers
  <2>4. \A f \in DOMAIN d.el : d.el[f]._leaveCb # 0 => ~d.cbs[d.el[f]._leaveCb].called
    BY <1>1, <1>2, <1>4, <2>1 DEF Remembers
  <2> QED BY <2>2, <2>3, <2>4 DEF Remembers
<1>6. Scheduled(d, n, mode)
  <2>1. Scheduled(a, 0, mode)
    BY DEF Good
  <2>2. Once(d.frames) /\ \A j \in d.ends : j \notin Named(d.frames)
    BY <1>1, <2>1 DEF Scheduled, Made
  <2>3. \A j \in DOMAIN d.cbs \ {n} : Entering(d, j) => Goes(d, j)
    BY <1>1, <2>1 DEF Scheduled
  <2>4. \A j \in DOMAIN d.cbs \ {n} : Leaving(d, j) => Goes(d, j) \/ Held(d, j)
    BY <1>1, <2>1 DEF Scheduled
  <2>5. ASSUME NEW j \in Named(d.frames), d.cbs[j].called, ~d.cbs[j].cancelled
        PROVE  mode # "show" /\ ~d.el[d.cbs[j].el].on
    <3>1. j \in Named(a.frames) /\ j \in DOMAIN a.cbs /\ d.cbs[j] = a.cbs[j] /\ a.cbs[j].el \in DOMAIN a.el
      BY <1>1, <2>5
    <3>2. mode # "show" /\ ~a.el[a.cbs[j].el].on
      BY <2>1, <2>5, <3>1 DEF Scheduled
    <3> QED BY <1>2, <3>1, <3>2
  <2> QED BY <2>2, <2>3, <2>4, <2>5 DEF Scheduled
<1>7. HeldBack(d, mode)
  <2>1. HeldBack(a, mode)
    BY DEF Good
  <2>2. ASSUME NEW m \in DOMAIN d.cbs, NEW j \in DOMAIN d.cbs, Holds(d, m, j)
        PROVE  /\ mode # "show" /\ Leaving(d, j) /\ ~Goes(d, j)
               /\ Unplaced(d, j)
               /\ \A l \in DOMAIN d.cbs : Holds(d, l, j) => l = m
    <3>1. m \in DOMAIN a.cbs /\ Holds(a, m, j) /\ j # n
      BY <1>1, <2>2 DEF Held
    <3>2. j \in DOMAIN a.cbs
      BY <1>1, <3>1
    <3>3. /\ mode # "show" /\ Leaving(a, j) /\ ~Goes(a, j)
          /\ Unplaced(a, j)
          /\ \A l \in DOMAIN a.cbs : Holds(a, l, j) => l = m
      BY <2>1, <3>1, <3>2 DEF HeldBack
    <3>4. Unplaced(d, j)
      BY <1>1, <3>2, <3>3 DEF Unplaced
    <3>5. \A l \in DOMAIN d.cbs : Holds(d, l, j) => l = m
      BY <1>1, <3>2, <3>3
    <3> QED BY <1>1, <3>2, <3>3, <3>4, <3>5
  <2> QED BY <2>2 DEF HeldBack
<1>8. Pending(d, mode)
  <2>1. \A k \in Keys : a._pending[k] # 0 => a._pending[k] \in DOMAIN a.el
    BY DEF Good, SoundBut, Waits
  <2> QED BY <1>1, <1>2, <2>1 DEF Good, Pending
<1>9. Dressed(d, mode)
  <2>1. ASSUME NEW f \in DOMAIN a.el, d.el[f].on \/ mode = "show"
        PROVE  Wears(d, f)
    <3>1. Wears(a, f)
      BY <1>2, <2>1 DEF Good, Dressed
    <3>2. "start" \in Parts
      BY DEF Parts
    <3> QED BY <1>1, <1>2, <3>1, <3>2 DEF Wears
  <2> QED BY <1>1, <2>1 DEF Dressed
<1> QED BY <1>5, <1>6, <1>7, <1>8, <1>9

LEMMA EnterMadeKeeps ==
    ASSUME NEW a, NEW S, Good(a, 0, S, 0), NEW e \in DOMAIN a.el, NEW d, NEW n, Made(a, d, e, "enter", 0, n),
           Sound(d), a.el[e]._enterCb = 0, a.el[e]._leaveCb = 0, Wears(a, e),
           mode = "show" \/ \A j \in DOMAIN a.cbs : a.cbs[j].el # e
    PROVE  Good(d, n, S \cup {e}, e)
<1>1. "enter" \in Kinds /\ 0 \in Nat
  BY DEF Kinds
<1>2. Remembers(d) /\ Scheduled(d, n, mode) /\ HeldBack(d, mode) /\ Pending(d, mode) /\ Dressed(d, mode)
  BY <1>1, MadeKeeps
<1>3. /\ DOMAIN d.el = DOMAIN a.el /\ n # 0 /\ n \notin DOMAIN a.cbs /\ 0 \notin DOMAIN a.el
      /\ \A f \in DOMAIN a.el : d.el[f].key = a.el[f].key
      /\ d._pending = a._pending /\ \A j : j # 0 => (Held(d, j) <=> Held(a, j))
  BY <1>1, MadeFacts
<1>4. \A f \in DOMAIN a.el :
          /\ d.el[f].on <=> a.el[f].on \/ f = e
          /\ d.el[f]._enterCb = IF f = e THEN n ELSE a.el[f]._enterCb
          /\ d.el[f]._leaveCb = a.el[f]._leaveCb
  BY DEF Made
<1>5. Present(a, S, 0, 0, mode)
  BY DEF Good
<1>6. Present(d, S \cup {e}, e, n, mode)
  <2>1. S \cup {e} \subseteq DOMAIN d.el /\ \A f \in S \cup {e} : d.el[f].on /\ d.el[f]._leaveCb = 0
    BY <1>3, <1>4, <1>5 DEF Present
  <2>2. /\ \A f \in DOMAIN d.el : d.el[f]._leaveCb # 0 => d.el[f].on
        /\ \A f \in DOMAIN d.el : d.el[f]._enterCb # 0 => f \in S \cup {e}
    BY <1>3, <1>4, <1>5 DEF Present
  <2>3. \A f \in DOMAIN d.el \ (S \cup {e}) : d.el[f].on =>
           /\ d.el[f]._leaveCb # 0
           /\ mode = "show" \/ d.el[f]._leaveCb = n \/ d._pending[d.el[f].key] = f \/ Held(d, d.el[f]._leaveCb)
    BY <1>3, <1>4, <1>5 DEF Present
  <2>4. \A f, g \in DOMAIN d.el :
           d.el[f].on /\ d.el[g].on /\ f # e /\ g # e /\ f # g => d.el[f].key # d.el[g].key
    BY <1>3, <1>4, <1>5 DEF Present
  <2> QED BY <2>1, <2>2, <2>3, <2>4 DEF Present
<1>7. SoundBut(d, n)
  BY SoundForAll
<1> QED BY <1>2, <1>6, <1>7 DEF Good

LEMMA LeaveMadeKeeps ==
    ASSUME NEW a, NEW S, NEW x, Good(a, 0, S, x), NEW e \in S, x # e, NEW hook \in Nat, NEW d, NEW n,
           Made(a, d, e, "leave", hook, n), Sound(d), a.el[e]._enterCb = 0
    PROVE  Good(d, n, S \ {e}, x)
<1>1. "leave" \in Kinds
  BY DEF Kinds
<1>2. e \in DOMAIN a.el /\ a.el[e]._leaveCb = 0 /\ a.el[e].on /\ Wears(a, e)
  BY DEF Good, Present, Dressed
<1>3. Remembers(d) /\ Scheduled(d, n, mode) /\ HeldBack(d, mode) /\ Pending(d, mode) /\ Dressed(d, mode)
  BY <1>1, <1>2, MadeKeeps
<1>4. /\ DOMAIN d.el = DOMAIN a.el /\ n # 0 /\ 0 \notin DOMAIN a.el
      /\ \A f \in DOMAIN a.el : d.el[f].key = a.el[f].key
      /\ d._pending = a._pending /\ \A j : j # 0 => (Held(d, j) <=> Held(a, j))
  BY <1>1, <1>2, MadeFacts
<1>5. \A f \in DOMAIN a.el :
          /\ d.el[f].on <=> a.el[f].on
          /\ d.el[f]._enterCb = a.el[f]._enterCb
          /\ d.el[f]._leaveCb = IF f = e THEN n ELSE a.el[f]._leaveCb
  BY DEF Made
<1>6. Present(a, S, x, 0, mode)
  BY DEF Good
<1>7. Present(d, S \ {e}, x, n, mode)
  <2>1. S \ {e} \subseteq DOMAIN d.el /\ \A f \in S \ {e} : d.el[f].on /\ d.el[f]._leaveCb = 0
    BY <1>4, <1>5, <1>6 DEF Present
  <2>2. \A f \in DOMAIN d.el : d.el[f]._leaveCb # 0 => d.el[f].on
    BY <1>2, <1>4, <1>5, <1>6 DEF Present
  <2>3. \A f \in DOMAIN d.el : d.el[f]._enterCb # 0 => f \in S \ {e}
    BY <1>4, <1>5, <1>6 DEF Present
  <2>4. \A f \in DOMAIN d.el \ (S \ {e}) : d.el[f].on =>
           /\ d.el[f]._leaveCb # 0
           /\ mode = "show" \/ d.el[f]._leaveCb = n \/ d._pending[d.el[f].key] = f \/ Held(d, d.el[f]._leaveCb)
    BY <1>4, <1>5, <1>6 DEF Present
  <2>5. \A f, g \in DOMAIN d.el :
           d.el[f].on /\ d.el[g].on /\ f # x /\ g # x /\ f # g => d.el[f].key # d.el[g].key
    BY <1>4, <1>5, <1>6 DEF Present
  <2> QED BY <2>1, <2>2, <2>3, <2>4, <2>5 DEF Present
<1>8. SoundBut(d, n) /\ x \in (S \ {e}) \cup {0}
  BY SoundForAll DEF Good
<1> QED BY <1>3, <1>7, <1>8 DEF Good

-----------------------------------------------------------------------------
\* What renders the component again when it is over, and the flags of its rendering.
Again(v, n) == Leaving(v, n) /\ v.cbs[n].hook = 1
Returns(v) == {n \in DOMAIN v.cbs : Again(v, n)}
SameFlags(v, w) == (w._leaving <=> v._leaving) /\ (w.queued <=> v.queued)
SameFlow(v, w) == SameFlags(v, w) /\ Returns(w) = Returns(v)

LEMMA SameIsSame ==
    ASSUME NEW v \in Runs
    PROVE  SameElements(v, v) /\ SameFlow(v, v)
BY DEF SameElements, SameFlow, SameFlags

LEMMA FlowBegun ==
    ASSUME NEW v, NEW w, NEW n, Begun(v, w, n)
    PROVE  SameFlow(v, w)
BY DEF Begun, SameFlow, SameFlags, Returns, Again, Leaving

LEMMA FlowCancelled ==
    ASSUME NEW v, NEW w, NEW n, Cancelled(v, w, n)
    PROVE  SameFlow(v, w)
BY DEF Cancelled, SameFlow, SameFlags, Returns, Again, Leaving

LEMMA FlowAside ==
    ASSUME NEW v, NEW w, NEW n \in DOMAIN v.cbs, Aside(v, w, n), Entering(v, n)
    PROVE  SameFlow(v, w)
<1>1. \A m \in DOMAIN v.cbs : Leaving(w, m) <=> Leaving(v, m)
  BY DEF Aside, Leaving, Entering
<1>2. Returns(w) = Returns(v)
  BY <1>1 DEF Aside, Returns, Again
<1> QED BY <1>2 DEF Aside, SameFlow, SameFlags

LEMMA FlowMade ==
    ASSUME NEW v, NEW w, NEW e, NEW kind, NEW hook, NEW n, Made(v, w, e, kind, hook, n)
    PROVE  /\ SameFlags(v, w)
           /\ Returns(w) = IF kind = "leave" /\ hook = 1 THEN Returns(v) \cup {n} ELSE Returns(v)
<1>1. /\ DOMAIN w.cbs = DOMAIN v.cbs \cup {n} /\ n \notin DOMAIN v.cbs
      /\ \A m \in DOMAIN v.cbs : w.cbs[m] = v.cbs[m]
      /\ w.cbs[n].kind = kind /\ w.cbs[n].hook = hook /\ ~w.cbs[n].called
  BY DEF Made, Moving!NewCb
<1>2. /\ \A m \in DOMAIN v.cbs : Again(w, m) <=> Again(v, m)
      /\ Again(w, n) <=> kind = "leave" /\ hook = 1
  BY <1>1 DEF Again, Leaving
<1>3. SameFlags(v, w)
  BY DEF Made, SameFlags
<1>4. CASE kind = "leave" /\ hook = 1
  BY <1>1, <1>2, <1>3, <1>4 DEF Returns
<1>5. CASE ~(kind = "leave" /\ hook = 1)
  BY <1>1, <1>2, <1>3, <1>5 DEF Returns
<1> QED BY <1>4, <1>5

LEMMA FlowHookSet ==
    ASSUME NEW v, NEW w, NEW delay, NEW n, HookSet(v, w, delay, n), v.cbs[delay].kind = "enter"
    PROVE  SameFlow(v, w)
<1>1. \A m \in DOMAIN v.cbs : Again(w, m) <=> Again(v, m)
  BY DEF HookSet, Again, Leaving
<1> QED BY <1>1 DEF HookSet, SameFlow, SameFlags, Returns

LEMMA FlowLeft ==
    ASSUME NEW v, NEW w, NEW n \in DOMAIN v.cbs, HasLeft(v, w, n)
    PROVE  Returns(w) = Returns(v) \ {n}
<1>1. /\ DOMAIN w.cbs = DOMAIN v.cbs
      /\ \A m \in DOMAIN v.cbs : w.cbs[m].kind = v.cbs[m].kind /\ w.cbs[m].hook = v.cbs[m].hook
                                 /\ (w.cbs[m].called <=> m = n \/ v.cbs[m].called)
  BY DEF HasLeft, Over
<1>2. \A m \in DOMAIN v.cbs : Again(w, m) <=> Again(v, m) /\ m # n
  BY <1>1 DEF Again, Leaving
<1> QED BY <1>1, <1>2 DEF Returns

-----------------------------------------------------------------------------
\* An element enters; if it was leaving, that is cancelled first.
LEMMA EntersAlone ==
    ASSUME NEW a, NEW S, Good(a, 0, S, 0), NEW e \in DOMAIN a.el, a.el[e]._enterCb = 0, a.el[e]._leaveCb = 0,
           Wears(a, e), mode = "show" \/ \A j \in DOMAIN a.cbs : a.cbs[j].el # e
    PROVE  LET n == Len(a.cbs) + 1
               w == Moving!Begin(Opened(a, e), n)
           IN  /\ Good(w, 0, S \cup {e}, e) /\ SameFlow(a, w) /\ SameElements(a, w)
               /\ n \in DOMAIN w.cbs /\ Entering(w, n) /\ w.cbs[n].el = e /\ w.cbs[n].hook = 0
<1> DEFINE n == Len(a.cbs) + 1
           d == Opened(a, e)
           w == Moving!Begin(d, n)
<1>1. Made(a, d, e, "enter", 0, n) /\ Sound(d)
  BY EnterMade DEF Good, Sound
<1> HIDE DEF d, n
<1>2. Good(d, n, S \cup {e}, e)
  BY <1>1, EnterMadeKeeps
<1>3. /\ n \in DOMAIN d.cbs /\ d.cbs[n].el = e /\ ~d.cbs[n].called /\ ~d.cbs[n].cancelled /\ d.cbs[n].hook = 0
      /\ Entering(d, n) /\ ~Goes(d, n) /\ ~Held(d, n)
  <2>1. "enter" \in Kinds /\ 0 \in Nat
    BY DEF Kinds
  <2> QED BY <1>1, <2>1, MadeFacts
<1>4. /\ Kept(d, w) /\ Sound(w) /\ w.ends = d.ends /\ w.frames = Append(d.frames, n)
      /\ w._leaving = d._leaving /\ w.queued = d.queued /\ w._pending = d._pending
      /\ With(d, w, n)
  BY <1>1, <1>3, BeginKeeps DEF Sound
<1> HIDE DEF w
<1>5. Begun(d, w, n)
  <2>1. d.cbs[n].kind = "enter"
    BY <1>3 DEF Entering
  <2>2. SameElements(d, w) /\ w.cbs = d.cbs
    BY <1>4 DEF Kept, SameElements
  <2>3. \A f \in DOMAIN d.el :
          /\ w.el[f].on = d.el[f].on /\ w.el[f]._enterCb = d.el[f]._enterCb /\ w.el[f]._leaveCb = d.el[f]._leaveCb
          /\ w.el[f].classes = IF f = d.cbs[n].el
                               THEN d.el[f].classes \cup ({d.cbs[n].kind} \X {"start", "active"})
                               ELSE d.el[f].classes
    BY <1>4 DEF Kept, With, Reclassed
  <2>4. \A k \in Keys : w._pending[k] =
          IF d.cbs[n].kind = "leave" /\ mode # "show" /\ k = d.el[d.cbs[n].el].key THEN d.cbs[n].el ELSE d._pending[k]
    BY <1>4, <2>1
  <2> QED BY <1>4, <2>2, <2>3, <2>4 DEF Begun
<1>6. Good(w, 0, S \cup {e}, e)
  BY <1>2, <1>3, <1>4, <1>5, StartKeeps
<1>7. SameFlow(a, w)
  <2>1. SameFlags(a, d) /\ Returns(d) = Returns(a)
    BY <1>1, FlowMade
  <2>2. SameFlow(d, w)
    BY <1>5, FlowBegun
  <2> QED BY <2>1, <2>2 DEF SameFlow, SameFlags
<1>8. SameElements(a, w)
  BY <1>1, <1>5 DEF Made, Begun, SameElements
<1>9. w.cbs = d.cbs
  BY <1>5 DEF Begun
<1>10. Entering(w, n)
  BY <1>3, <1>9 DEF Entering
<1> QED BY <1>3, <1>6, <1>7, <1>8, <1>9, <1>10 DEF w, d, n

LEMMA EnterGood ==
    ASSUME NEW v, NEW S, Good(v, 0, S, 0), NEW e \in DOMAIN v.el \ S, Wears(v, e), Returns(v) = {},
           mode = "show" \/ \A j \in DOMAIN v.cbs : v.cbs[j].el # e
    PROVE  LET w == Moving!Enter(v, e)
           IN  /\ Good(w, 0, S \cup {e}, e) /\ SameFlow(v, w) /\ SameElements(v, w)
               /\ \E n \in DOMAIN w.cbs : Entering(w, n) /\ w.cbs[n].el = e /\ w.cbs[n].hook = 0
<1> DEFINE left == v.el[e]._leaveCb
           a == IF left = 0 THEN v ELSE Moving!LeaveCb(Moving!Cancel(v, left), left)
           n == Len(a.cbs) + 1
           w == Moving!Begin(Opened(a, e), n)
<1>1. v.el[e]._enterCb = 0 /\ 0 \notin DOMAIN v.cbs /\ Sound(v)
  <2>1. Sound(v) /\ v \in Runs
    BY DEF Good, Sound, SoundBut
  <2>2. v.el[e]._enterCb = 0
    BY DEF Good, Present
  <2> QED BY <2>1, <2>2, Indices
<1>2. /\ Good(a, 0, S, 0) \/ Good(a, 0, S \cup {e}, 0)
      /\ SameFlow(v, a) /\ SameElements(v, a) /\ a.el[e]._enterCb = 0 /\ a.el[e]._leaveCb = 0 /\ Wears(a, e)
      /\ mode = "show" \/ \A j \in DOMAIN a.cbs : a.cbs[j].el # e
  <2>1. CASE left = 0
    <3>1. SameElements(v, v) /\ SameFlow(v, v)
      BY <1>1 DEF SameElements, SameFlow, SameFlags, Sound, SoundBut
    <3> QED BY <1>1, <2>1, <3>1
  <2>2. CASE left # 0
    <3> DEFINE u == Moving!Cancel(v, left)
               c == Moving!LeaveCb(u, left)
    <3>1. /\ left \in DOMAIN v.cbs /\ v.cbs[left].el = e /\ v.cbs[left].kind = "leave"
          /\ ~v.cbs[left].called
      BY <2>2 DEF Good, SoundBut, Links, Remembers
    <3>2. mode = "show"
      BY <3>1
    <3>3. a = c
      BY <2>2
    <3>4. Cancelled(v, u, left) /\ SoundBut(u, left)
      BY <1>1, <3>1, CancelKeeps
    <3> HIDE DEF left, u, a
    <3>5. Good(u, left, S, 0)
      BY <3>1, <3>4, CancelledKeeps
    <3>6. /\ left \in DOMAIN u.cbs /\ u.cbs[left].cancelled /\ u.cbs[left].el = e /\ Leaving(u, left)
          /\ u.el = v.el
      BY <3>1, <3>4 DEF Cancelled, Leaving
    <3>7. ~Held(u, left)
      BY <3>2, <3>5, <3>6 DEF Held, Good, HeldBack
    <3>8. Good(c, 0, S \cup {e}, 0) /\ HasLeft(u, c, left)
      BY <3>2, <3>5, <3>6, <3>7, LeaveIsFinished
    <3> HIDE DEF c
    <3>9. SameFlow(v, u)
      BY <3>4, FlowCancelled
    <3>10. Returns(c) = Returns(u) \ {left}
      BY <3>6, <3>8, FlowLeft
    <3>11. SameFlags(u, c)
      BY <3>6, <3>8 DEF HasLeft, SameFlags
    <3>12. SameFlow(v, c)
      BY <3>9, <3>10, <3>11 DEF SameFlow, SameFlags
    <3>13. SameElements(v, c)
      BY <3>6, <3>8 DEF HasLeft, Over, SameElements
    <3>14. c.el[e]._enterCb = 0
      BY <1>1, <3>6, <3>8 DEF HasLeft
    <3>15. e \in S \cup {e}
      OBVIOUS
    <3>16. c.el[e]._leaveCb = 0 /\ Wears(c, e)
      BY <3>8, <3>15 DEF Good, Present, Dressed
    <3> QED BY <3>2, <3>3, <3>8, <3>12, <3>13, <3>14, <3>16
  <2> QED BY <2>1, <2>2
<1>3. Moving!Enter(v, e) = IF a.el[e]._enterCb # 0 THEN a ELSE w
  BY DEF Moving!Enter, Opened
<1>4. /\ Good(w, 0, S \cup {e}, e) /\ SameFlow(a, w) /\ SameElements(a, w)
      /\ n \in DOMAIN w.cbs /\ Entering(w, n) /\ w.cbs[n].el = e /\ w.cbs[n].hook = 0
  <2> HIDE DEF a
  <2>1. e \in DOMAIN a.el
    BY <1>2 DEF SameElements
  <2>2. (S \cup {e}) \cup {e} = S \cup {e}
    OBVIOUS
  <2>3. CASE Good(a, 0, S, 0)
    BY <1>2, <2>1, <2>3, EntersAlone
  <2>4. CASE Good(a, 0, S \cup {e}, 0)
    <3> DEFINE T == S \cup {e}
    <3>1. T \cup {e} = T /\ Good(a, 0, T, 0)
      BY <2>4
    <3> HIDE DEF T
    <3>2. /\ Good(w, 0, T \cup {e}, e) /\ SameFlow(a, w) /\ SameElements(a, w)
          /\ n \in DOMAIN w.cbs /\ Entering(w, n) /\ w.cbs[n].el = e /\ w.cbs[n].hook = 0
      BY <1>2, <2>1, <3>1, EntersAlone
    <3> HIDE DEF w, n
    <3>3. Good(w, 0, T, e)
      BY <3>1, <3>2
    <3> QED BY <3>2, <3>3 DEF T
  <2> QED BY <1>2, <2>3, <2>4
<1>5. Moving!Enter(v, e) = w
  BY <1>2, <1>3
<1> HIDE DEF w, a, n
<1>6. SameFlow(v, w)
  BY <1>2, <1>4 DEF SameFlow, SameFlags
<1>7. SameElements(v, w)
  BY <1>2, <1>4 DEF SameElements
<1> QED BY <1>4, <1>5, <1>6, <1>7

\* The leave of an element of the last rendering is held back by an enter.
\* The enter m holds nobody back.
HoldsNobody(v, m) == Entering(v, m) /\ v.cbs[m].hook = 0

LEMMA HookedKeeps ==
    ASSUME NEW v, NEW n, NEW S, NEW x, Good(v, n, S, x), n \in DOMAIN v.cbs, Leaving(v, n), ~Goes(v, n), ~Held(v, n),
           NEW delay \in DOMAIN v.cbs, HoldsNobody(v, delay), mode # "show", Unplaced(v, n), NEW w, HookSet(v, w, delay, n), Sound(w)
    PROVE  Good(w, 0, S, x)
<1>1. /\ w.el = v.el /\ w._pending = v._pending /\ w.frames = v.frames /\ w.ends = v.ends
      /\ DOMAIN w.cbs = DOMAIN v.cbs
      /\ \A m \in DOMAIN v.cbs : /\ w.cbs[m].el = v.cbs[m].el /\ w.cbs[m].kind = v.cbs[m].kind
                                 /\ w.cbs[m].cancelled = v.cbs[m].cancelled /\ w.cbs[m].called = v.cbs[m].called
                                 /\ w.cbs[m].hook = IF m = delay THEN n ELSE v.cbs[m].hook
  BY DEF HookSet
<1>2. 0 \notin DOMAIN v.cbs /\ \A j \in Named(v.frames) : j \in DOMAIN v.cbs
  BY Indices DEF Good, SoundBut, Waits, Named
<1>3. /\ \A m : Goes(w, m) <=> Goes(v, m)
      /\ \A m \in DOMAIN v.cbs : Entering(w, m) <=> Entering(v, m)
      /\ \A m \in DOMAIN v.cbs : Leaving(w, m) <=> Leaving(v, m)
  BY <1>1 DEF Goes, Entering, Leaving
<1>4. \A m, j \in DOMAIN v.cbs : Holds(w, m, j) <=> Holds(v, m, j) \/ (m = delay /\ j = n)
  BY <1>1, <1>2, <1>3 DEF Holds, HoldsNobody
<1>5. \A j \in DOMAIN v.cbs : Held(w, j) <=> Held(v, j) \/ j = n
  BY <1>1, <1>4 DEF Held
<1>6. Remembers(w)
  <2>1. \A f \in DOMAIN v.el : v.el[f]._enterCb # 0 => v.el[f]._enterCb \in DOMAIN v.cbs
    BY DEF Good, SoundBut, Links
  <2>2. \A f \in DOMAIN v.el : v.el[f]._leaveCb # 0 => v.el[f]._leaveCb \in DOMAIN v.cbs
    BY DEF Good, SoundBut, Links
  <2>3. Remembers(v)
    BY DEF Good
  <2>4. \A j \in DOMAIN w.cbs : Entering(w, j) => w.el[w.cbs[j].el]._enterCb = j
    BY <1>1, <1>3, <2>3 DEF Remembers
  <2>5. \A j \in DOMAIN v.cbs : w.cbs[j].called = v.cbs[j].called
    BY <1>1
  <2>6. w.el = v.el
    BY <1>1
  <2>7. \A f \in DOMAIN w.el : w.el[f]._enterCb # 0 => ~w.cbs[w.el[f]._enterCb].called
    <3>1. \A f \in DOMAIN v.el : v.el[f]._enterCb # 0 => ~v.cbs[v.el[f]._enterCb].called
      BY <2>3 DEF Remembers
    <3> QED BY <2>1, <2>5, <2>6, <3>1
  <2>8. \A f \in DOMAIN w.el : w.el[f]._leaveCb # 0 => ~w.cbs[w.el[f]._leaveCb].called
    <3>1. \A f \in DOMAIN v.el : v.el[f]._leaveCb # 0 => ~v.cbs[v.el[f]._leaveCb].called
      BY <2>3 DEF Remembers
    <3> QED BY <2>2, <2>5, <2>6, <3>1
  <2> QED BY <2>4, <2>7, <2>8 DEF Remembers
<1>7. Scheduled(w, 0, mode)
  <2>1. Scheduled(v, n, mode)
    BY DEF Good
  <2>2. Once(w.frames) /\ \A j \in w.ends : j \notin Named(w.frames)
    BY <1>1, <2>1 DEF Scheduled
  <2>3. \A j \in DOMAIN w.cbs \ {0} : Entering(w, j) => Goes(w, j)
    <3>1. ~Entering(v, n)
      BY DEF Entering, Leaving
    <3> QED BY <1>1, <1>3, <2>1, <3>1 DEF Scheduled
  <2>4. \A j \in DOMAIN w.cbs \ {0} : Leaving(w, j) => Goes(w, j) \/ Held(w, j)
    BY <1>1, <1>3, <1>5, <2>1 DEF Scheduled
  <2>5. \A j \in Named(w.frames) :
           w.cbs[j].called /\ ~w.cbs[j].cancelled => mode # "show" /\ ~w.el[w.cbs[j].el].on
    BY <1>1, <1>2, <2>1 DEF Scheduled
  <2> QED BY <2>2, <2>3, <2>4, <2>5 DEF Scheduled
<1>8. HeldBack(w, mode)
  <2>1. ASSUME NEW m \in DOMAIN v.cbs, NEW j \in DOMAIN v.cbs, Holds(w, m, j)
        PROVE  /\ mode # "show" /\ Leaving(w, j) /\ ~Goes(w, j)
               /\ Unplaced(w, j)
               /\ \A l \in DOMAIN v.cbs : Holds(w, l, j) => l = m
    <3>1. CASE Holds(v, m, j)
      <4>1. j # n
        BY <3>1 DEF Held
      <4>2. /\ mode # "show" /\ Leaving(v, j) /\ ~Goes(v, j)
            /\ Unplaced(v, j)
            /\ \A l \in DOMAIN v.cbs : Holds(v, l, j) => l = m
        <5>1. HeldBack(v, mode)
          BY DEF Good
        <5> QED BY <3>1, <5>1 DEF HeldBack
      <4>3. Unplaced(w, j)
        BY <1>1, <4>2 DEF Unplaced
      <4> QED BY <1>3, <1>4, <4>1, <4>2, <4>3
    <3>2. CASE m = delay /\ j = n
      BY <1>1, <1>3, <1>4, <3>2 DEF Held, HoldsNobody, Unplaced
    <3> QED BY <1>4, <2>1, <3>1, <3>2
  <2> QED BY <1>1, <2>1 DEF HeldBack
<1>9. Pending(w, mode) /\ Dressed(w, mode)
  <2>1. Pending(v, mode) /\ Dressed(v, mode)
    BY DEF Good
  <2>2. Pending(w, mode)
    BY <1>1, <2>1 DEF Pending
  <2>3. \A f : Wears(w, f) <=> Wears(v, f)
    BY <1>1 DEF Wears
  <2>4. Dressed(w, mode)
    BY <1>1, <2>1, <2>3 DEF Dressed
  <2> QED BY <2>2, <2>4
<1>10. Present(w, S, x, 0, mode)
  <2>1. \A f \in DOMAIN v.el : v.el[f]._leaveCb # 0 => v.el[f]._leaveCb \in DOMAIN v.cbs
    BY DEF Good, SoundBut, Links
  <2>2. Present(v, S, x, n, mode)
    BY DEF Good
  <2>3. /\ S \subseteq DOMAIN w.el /\ \A f \in S : w.el[f].on /\ w.el[f]._leaveCb = 0
        /\ \A f \in DOMAIN w.el : w.el[f]._leaveCb # 0 => w.el[f].on
        /\ \A f \in DOMAIN w.el : w.el[f]._enterCb # 0 => f \in S
        /\ \A f, g \in DOMAIN w.el :
              w.el[f].on /\ w.el[g].on /\ f # x /\ g # x /\ f # g => w.el[f].key # w.el[g].key
    <3>1. w.el = v.el
      BY <1>1
    <3>2. /\ S \subseteq DOMAIN v.el /\ \A f \in S : v.el[f].on /\ v.el[f]._leaveCb = 0
          /\ \A f \in DOMAIN v.el : v.el[f]._leaveCb # 0 => v.el[f].on
          /\ \A f \in DOMAIN v.el : v.el[f]._enterCb # 0 => f \in S
      BY <2>2 DEF Present
    <3>3. \A f, g \in DOMAIN v.el :
             v.el[f].on /\ v.el[g].on /\ f # x /\ g # x /\ f # g => v.el[f].key # v.el[g].key
      BY <2>2 DEF Present
    <3> QED BY <3>1, <3>2, <3>3
  <2>4. \A f \in DOMAIN w.el \ S : w.el[f].on =>
           /\ w.el[f]._leaveCb # 0
           /\ mode = "show" \/ w.el[f]._leaveCb = 0 \/ w._pending[w.el[f].key] = f \/ Held(w, w.el[f]._leaveCb)
    <3>1. w.el = v.el /\ w._pending = v._pending
      BY <1>1
    <3> QED BY <1>5, <2>1, <2>2, <3>1 DEF Present
  <2> QED BY <2>3, <2>4 DEF Present
<1>11. SoundBut(w, 0) /\ x \in S \cup {0}
  BY DEF Good, Sound
<1> QED BY <1>6, <1>7, <1>8, <1>9, <1>10, <1>11 DEF Good

\* An element leaves: at once, or held back by an enter; if it was entering, that
\* is cancelled first.
LEMMA EnterCancelled ==
    ASSUME NEW v, NEW S, NEW x, Good(v, 0, S, x), NEW e \in DOMAIN v.el
    PROVE  LET entered == v.el[e]._enterCb
               a == IF entered = 0 THEN v ELSE Moving!EnterCb(Moving!Cancel(v, entered), entered)
           IN  /\ Good(a, 0, S, x) /\ SameFlow(v, a) /\ SameElements(v, a) /\ a.el[e]._enterCb = 0
               /\ DOMAIN a.cbs = DOMAIN v.cbs
               /\ \A m \in DOMAIN v.cbs : /\ a.cbs[m].el = v.cbs[m].el /\ a.cbs[m].hook = v.cbs[m].hook
                                          /\ Entering(a, m) <=> Entering(v, m) /\ m # entered
<1> DEFINE entered == v.el[e]._enterCb
           u == Moving!Cancel(v, entered)
           c == Moving!EnterCb(u, entered)
<1>1. Sound(v) /\ 0 \notin DOMAIN v.cbs /\ v \in Runs
  <2>1. Sound(v) /\ v \in Runs
    BY DEF Good, Sound, SoundBut
  <2> QED BY <2>1, Indices
<1>2. CASE entered = 0
  <2>1. SameElements(v, v) /\ SameFlow(v, v)
    BY <1>1, SameIsSame
  <2> QED BY <1>1, <1>2, <2>1, Zenon
<1>3. CASE entered # 0
  <2>1. /\ entered \in DOMAIN v.cbs /\ v.cbs[entered].el = e /\ v.cbs[entered].kind = "enter"
        /\ ~v.cbs[entered].called
    BY <1>3 DEF Good, SoundBut, Links, Remembers
  <2>2. Cancelled(v, u, entered) /\ SoundBut(u, entered)
    BY <1>1, <2>1, CancelKeeps
  <2> HIDE DEF entered, u
  <2>3. Good(u, entered, S, x)
    BY <2>1, <2>2, CancelledKeeps
  <2>4. /\ u.el = v.el /\ DOMAIN u.cbs = DOMAIN v.cbs
        /\ \A m \in DOMAIN v.cbs : /\ u.cbs[m].el = v.cbs[m].el /\ u.cbs[m].kind = v.cbs[m].kind
                                   /\ u.cbs[m].hook = v.cbs[m].hook /\ u.cbs[m].called = v.cbs[m].called
                                   /\ u.cbs[m].cancelled <=> m = entered \/ v.cbs[m].cancelled
    BY <2>2 DEF Cancelled
  <2>5. entered \in DOMAIN u.cbs /\ Entering(u, entered) /\ u.cbs[entered].cancelled
    BY <2>1, <2>4 DEF Entering
  <2>6. Good(c, 0, S, x) /\ Aside(u, c, entered)
    BY <2>3, <2>5, EnterIsFinished
  <2> HIDE DEF c
  <2>7. SameFlow(v, u) /\ SameFlow(u, c)
    BY <2>2, <2>5, <2>6, FlowCancelled, FlowAside
  <2>8. SameFlow(v, c)
    BY <2>7 DEF SameFlow, SameFlags
  <2>9. SameElements(v, c)
    BY <2>4, <2>6 DEF Aside, SameElements
  <2>10. c.el[e]._enterCb = 0
    BY <2>1, <2>4, <2>6 DEF Aside
  <2>11. /\ DOMAIN c.cbs = DOMAIN u.cbs
         /\ \A m \in DOMAIN u.cbs : /\ c.cbs[m].el = u.cbs[m].el /\ c.cbs[m].kind = u.cbs[m].kind
                                    /\ c.cbs[m].hook = u.cbs[m].hook
                                    /\ (c.cbs[m].called <=> m = entered \/ u.cbs[m].called)
    BY <2>6 DEF Aside
  <2>12. \A m \in DOMAIN v.cbs : /\ c.cbs[m].el = v.cbs[m].el /\ c.cbs[m].hook = v.cbs[m].hook
                                 /\ Entering(c, m) <=> Entering(v, m) /\ m # entered
    BY <2>4, <2>11 DEF Entering
  <2> QED BY <1>3, <2>4, <2>6, <2>8, <2>9, <2>10, <2>11, <2>12 DEF c, u, entered
<1> QED BY <1>2, <1>3

OneReturns(v) == \E n : Returns(v) = {n}
OthersEnter(v, w, e) ==
    \A m \in DOMAIN v.cbs : Entering(v, m) /\ v.cbs[m].el # e =>
       m \in DOMAIN w.cbs /\ Entering(w, m) /\ w.cbs[m].el = v.cbs[m].el /\ w.cbs[m].hook = v.cbs[m].hook

LEMMA LeaveGood ==
    ASSUME NEW v, NEW S, NEW x, Good(v, 0, S, x), NEW e \in S, x # e, NEW hook \in Nat, Returns(v) = {}
    PROVE  LET w == Moving!Leave(v, e, hook, 0)
           IN  /\ Good(w, 0, S \ {e}, x) /\ SameFlags(v, w) /\ SameElements(v, w)
               /\ hook # 1 => Returns(w) = {}
               /\ hook = 1 => OneReturns(w)
               /\ OthersEnter(v, w, e)
<1> DEFINE entered == v.el[e]._enterCb
           a == IF entered = 0 THEN v ELSE Moving!EnterCb(Moving!Cancel(v, entered), entered)
           n == Len(a.cbs) + 1
           b == Closed(a, e, hook)
           w == Moving!PerformLeave(b, n)
<1>1. e \in DOMAIN v.el /\ 0 \notin DOMAIN v.cbs
  BY Indices DEF Good, Present, SoundBut
<1>17. \A m \in DOMAIN v.cbs : Entering(v, m) /\ v.cbs[m].el # e =>
          /\ m \in DOMAIN a.cbs /\ Entering(a, m)
          /\ a.cbs[m].el = v.cbs[m].el /\ a.cbs[m].hook = v.cbs[m].hook
  <2>1. \A m \in DOMAIN v.cbs : v.cbs[m].el # e => m # entered
    BY <1>1 DEF Good, SoundBut, Links
  <2> QED BY <1>1, <2>1, EnterCancelled
<1>2. Good(a, 0, S, x) /\ SameFlow(v, a) /\ SameElements(v, a) /\ a.el[e]._enterCb = 0
  BY <1>1, EnterCancelled
<1>3. Moving!Leave(v, e, hook, 0) = IF a.el[e]._leaveCb # 0 THEN a ELSE w
  BY DEF Moving!Leave, Closed
<1> HIDE DEF a
<1>4. a.el[e]._leaveCb = 0 /\ Sound(a) /\ e \in DOMAIN a.el
  BY <1>1, <1>2 DEF Good, Present, Sound, SameElements
<1>5. Made(a, b, e, "leave", hook, n) /\ Sound(b)
  BY <1>4, LeaveMade
<1>6. Moving!Leave(v, e, hook, 0) = w
  BY <1>3, <1>4
<1> HIDE DEF b, n
<1>7. Good(b, n, S \ {e}, x)
  BY <1>2, <1>5, LeaveMadeKeeps
<1>8. /\ n \in DOMAIN b.cbs /\ ~b.cbs[n].called /\ ~b.cbs[n].cancelled
      /\ Leaving(b, n) /\ ~Goes(b, n) /\ ~Held(b, n)
  <2>1. "leave" \in Kinds
    BY DEF Kinds
  <2> QED BY <1>2, <1>4, <1>5, <2>1, MadeFacts
<1>9. Begun(b, w, n) /\ Sound(w)
  BY <1>5, <1>8, LeaveBegins DEF Sound, Leaving
<1> HIDE DEF w
<1>10. Good(w, 0, S \ {e}, x)
  BY <1>7, <1>8, <1>9, StartKeeps
<1>11. SameFlow(b, w)
  BY <1>9, FlowBegun
<1>12. SameFlags(a, b) /\ Returns(b) = IF hook = 1 THEN Returns(a) \cup {n} ELSE Returns(a)
  BY <1>5, FlowMade
<1>13. Returns(a) = {}
  BY <1>2 DEF SameFlow
<1>14. /\ hook # 1 => Returns(w) = {}
       /\ hook = 1 => OneReturns(w)
  <2>1. CASE hook = 1
    BY <1>11, <1>12, <1>13, <2>1 DEF SameFlow, OneReturns
  <2>2. CASE hook # 1
    BY <1>11, <1>12, <1>13, <2>2 DEF SameFlow
  <2> QED BY <2>1, <2>2
<1>15. SameFlags(v, w)
  BY <1>2, <1>11, <1>12 DEF SameFlow, SameFlags
<1>16. SameElements(v, w)
  BY <1>2, <1>5, <1>9 DEF Made, Begun, SameElements
<1>18. OthersEnter(v, w, e)
  <2>1. w.cbs = b.cbs
    BY <1>9 DEF Begun
  <2>2. \A m \in DOMAIN a.cbs : m \in DOMAIN b.cbs /\ b.cbs[m] = a.cbs[m]
    BY <1>5 DEF Made
  <2> QED BY <1>17, <2>1, <2>2 DEF Entering, OthersEnter
<1> QED BY <1>6, <1>10, <1>14, <1>15, <1>16, <1>18

HoldsOnly(v, m, e) == \A l \in DOMAIN v.cbs : Holds(v, m, l) => v.cbs[l].el = e

LEMMA LeaveHeldGood ==
    ASSUME NEW v, NEW S, NEW x, Good(v, 0, S, x), NEW e \in S, x # e, Returns(v) = {}, mode # "show",
           NEW delay \in DOMAIN v.cbs, Entering(v, delay), v.cbs[delay].el # e, v.cbs[delay].hook = 0
    PROVE  LET w == Moving!Leave(v, e, 0, delay)
           IN  /\ Good(w, 0, S \ {e}, x) /\ SameFlow(v, w) /\ SameElements(v, w)
               /\ delay \in DOMAIN w.cbs /\ Entering(w, delay) /\ w.cbs[delay].el = v.cbs[delay].el
               /\ HoldsOnly(w, delay, e)
<1> DEFINE entered == v.el[e]._enterCb
           a == IF entered = 0 THEN v ELSE Moving!EnterCb(Moving!Cancel(v, entered), entered)
           n == Len(a.cbs) + 1
           b == Closed(a, e, 0)
           w == Hooked(b, delay, n)
<1>1. e \in DOMAIN v.el /\ 0 \notin DOMAIN v.cbs
  BY Indices DEF Good, Present, SoundBut
<1>2. Good(a, 0, S, x) /\ SameFlow(v, a) /\ SameElements(v, a) /\ a.el[e]._enterCb = 0
  BY <1>1, EnterCancelled
<1>3. /\ delay \in DOMAIN a.cbs /\ Entering(a, delay) /\ a.cbs[delay].el = v.cbs[delay].el
      /\ a.cbs[delay].hook = 0
  <2>1. delay # entered
    BY <1>1 DEF Good, SoundBut, Links
  <2> QED BY <1>1, <2>1, EnterCancelled
<1>4. Moving!Leave(v, e, 0, delay) = IF a.el[e]._leaveCb # 0 THEN a ELSE w
  BY <1>1 DEF Moving!Leave, Closed, Hooked
<1> HIDE DEF a
<1>5. a.el[e]._leaveCb = 0 /\ Sound(a) /\ e \in DOMAIN a.el
  BY <1>1, <1>2 DEF Good, Present, Sound, SameElements
<1>6. Made(a, b, e, "leave", 0, n) /\ Sound(b)
  BY <1>5, LeaveMade
<1>7. Moving!Leave(v, e, 0, delay) = w
  BY <1>4, <1>5
<1> HIDE DEF b, n
<1>8. Good(b, n, S \ {e}, x)
  BY <1>2, <1>6, LeaveMadeKeeps
<1>9. /\ n \in DOMAIN b.cbs /\ b.cbs[n].el = e /\ Leaving(b, n) /\ ~Goes(b, n) /\ ~Held(b, n)
      /\ b._pending = a._pending /\ b.el[e].key = a.el[e].key /\ a.el[e].key \in Keys
      /\ b.cbs[delay] = a.cbs[delay] /\ delay \in DOMAIN b.cbs
  <2>1. "leave" \in Kinds /\ 0 \in Nat
    BY DEF Kinds
  <2> QED BY <1>2, <1>3, <1>5, <1>6, <2>1, MadeFacts
<1>10. b.cbs[delay].kind = "enter" /\ b.cbs[n].kind = "leave" /\ Entering(b, delay) /\ b.cbs[delay].hook = 0
  BY <1>3, <1>9 DEF Entering, Leaving
<1>11. HookSet(b, w, delay, n) /\ Sound(w)
  BY <1>6, <1>9, <1>10, HookKeeps
<1> HIDE DEF w
<1>12. Unplaced(b, n) /\ HoldsNobody(b, delay)
  <2>1. 0 \notin DOMAIN a.el
    BY <1>5, Indices DEF Sound, SoundBut
  <2>2. Unplaced(b, n)
    BY <1>2, <1>5, <1>9, <2>1 DEF Good, Pending, Unplaced
  <2> QED BY <1>10, <2>2 DEF HoldsNobody
<1>13. Good(w, 0, S \ {e}, x)
  BY <1>8, <1>9, <1>10, <1>11, <1>12, HookedKeeps
<1>14. SameFlow(v, w)
  <2>1. SameFlags(a, b) /\ Returns(b) = Returns(a)
    BY <1>6, FlowMade
  <2>2. SameFlow(b, w)
    BY <1>10, <1>11, FlowHookSet
  <2> QED BY <1>2, <2>1, <2>2 DEF SameFlow, SameFlags
<1>15. SameElements(v, w)
  BY <1>2, <1>6, <1>11 DEF Made, HookSet, SameElements
<1>16. HoldsOnly(w, delay, e)
  BY <1>9, <1>11 DEF HookSet, Holds, HoldsOnly
<1>17. delay \in DOMAIN w.cbs /\ Entering(w, delay) /\ w.cbs[delay].el = v.cbs[delay].el
  BY <1>3, <1>9, <1>10, <1>11 DEF HookSet, Entering
<1> QED BY <1>7, <1>13, <1>14, <1>15, <1>16, <1>17

\* What is in the page with the key of the one that comes is pending.
LEMMA InsertGood ==
    ASSUME NEW v, NEW e, Good(v, 0, {e}, e), mode # "show", Returns(v) = {},
           NEW n \in DOMAIN v.cbs, Entering(v, n), v.cbs[n].el = e,
           \A l \in DOMAIN v.cbs : Holds(v, n, l) => v.el[v.cbs[l].el].key # v.el[e].key
    PROVE  LET w == Moving!Insert(v, e)
           IN  Good(w, 0, {e}, 0) /\ SameFlow(v, w) /\ SameElements(v, w)
<1> DEFINE p == v._pending[v.el[e].key]
           l == v.el[p]._leaveCb
           w == Moving!LeaveCb(v, l)
<1>1. v \in Runs /\ e \in DOMAIN v.el /\ Present(v, {e}, e, 0, mode)
  BY DEF Good, Present, SoundBut
<1>2. 0 \notin DOMAIN v.el /\ 0 \notin DOMAIN v.cbs /\ v.el[e].key \in Keys
  BY <1>1, Indices DEF Elements
<1>3. \A j \in DOMAIN v.cbs : Held(v, j) => v.el[v.cbs[j].el].key # v.el[e].key
  <2>1. ASSUME NEW m \in DOMAIN v.cbs, NEW j \in DOMAIN v.cbs, Holds(v, m, j)
        PROVE  m = n
    <3>1. v.el[v.cbs[m].el]._enterCb = m /\ v.el[e]._enterCb = n
      BY <2>1 DEF Good, Remembers, Holds
    <3>2. v.cbs[m].el \in DOMAIN v.el
      BY DEF Good, SoundBut, Links
    <3>3. v.cbs[m].el = e
      BY <1>1, <1>2, <3>1, <3>2 DEF Present
    <3> QED BY <3>1, <3>3
  <2> QED BY <2>1 DEF Held
<1>4. ASSUME NEW f \in DOMAIN v.el, v.el[f].on, f # e, v.el[f].key = v.el[e].key
      PROVE  f = p
  <2>1. /\ v.el[f]._leaveCb # 0
        /\ v.el[f]._leaveCb = 0 \/ v._pending[v.el[f].key] = f \/ Held(v, v.el[f]._leaveCb)
    BY <1>1, <1>4 DEF Present
  <2>2. v.el[f]._leaveCb \in DOMAIN v.cbs /\ v.cbs[v.el[f]._leaveCb].el = f
    BY <2>1 DEF Good, SoundBut, Links
  <2>3. ~Held(v, v.el[f]._leaveCb)
    BY <1>3, <1>4, <2>2
  <2> QED BY <1>4, <2>1, <2>3
<1>5. Moving!Insert(v, e) = IF p # 0 /\ v.el[p]._leaveCb # 0 THEN w ELSE v
  BY DEF Moving!Insert
<1>6. CASE p = 0
  <2>1. \A f, g \in DOMAIN v.el : v.el[f].on /\ v.el[g].on /\ f # g => v.el[f].key # v.el[g].key
    BY <1>1, <1>2, <1>4, <1>6 DEF Present
  <2>2. Present(v, {e}, 0, 0, mode)
    BY <1>1, <2>1 DEF Present
  <2>3. Good(v, 0, {e}, 0)
    BY <2>2 DEF Good
  <2>4. SameFlow(v, v) /\ SameElements(v, v)
    BY <1>1 DEF SameFlow, SameFlags, SameElements
  <2> QED BY <1>5, <1>6, <2>3, <2>4
<1>7. CASE p # 0
  <2>1. p \in DOMAIN v.el /\ v.el[p].key = v.el[e].key /\ l # 0
    BY <1>2, <1>7 DEF Good, Pending, SoundBut, Waits
  <2> HIDE DEF p
  <2>2. l \in DOMAIN v.cbs /\ v.cbs[l].el = p /\ Leaving(v, l) /\ ~v.cbs[l].called
    BY <2>1 DEF Good, SoundBut, Links, Remembers, Leaving
  <2>3. ~v.cbs[l].cancelled
    BY <1>2, <2>2 DEF Good, SoundBut
  <2>4. ~Held(v, l)
    BY <1>3, <2>1, <2>2
  <2>5. Good(v, l, {e}, e)
    BY ToBeCalled
  <2>6. Moving!Insert(v, e) = w
    BY <1>5, <1>7, <2>1
  <2> HIDE DEF l
  <2>7. Good(w, 0, {e}, e) /\ HasLeft(v, w, l)
    BY <2>2, <2>3, <2>4, <2>5, LeaveIsFinished
  <2> HIDE DEF w
  <2>8. DOMAIN w.el = DOMAIN v.el /\ \A f \in DOMAIN v.el : w.el[f].key = v.el[f].key
    BY <2>7 DEF HasLeft, Over, SameElements
  <2>9. \A f \in DOMAIN v.el : w.el[f].on <=> v.el[f].on /\ f # p
    BY <2>2, <2>3, <2>7 DEF HasLeft
  <2>10. Present(w, {e}, e, 0, mode)
    BY <2>7 DEF Good
  <2>11. \A f \in DOMAIN v.el : w.el[f].on /\ f # e => v.el[f].key # v.el[e].key
    BY <1>4, <2>9
  <2>12. \A f, g \in DOMAIN w.el : w.el[f].on /\ w.el[g].on /\ f # g => w.el[f].key # w.el[g].key
    BY <2>8, <2>10, <2>11 DEF Present
  <2>13. Present(w, {e}, 0, 0, mode)
    BY <2>10, <2>12 DEF Present
  <2>14. Good(w, 0, {e}, 0)
    BY <2>7, <2>13 DEF Good
  <2>15. Returns(w) = Returns(v) \ {l} /\ l \notin Returns(v)
    BY <2>2, <2>7, FlowLeft
  <2>16. v.cbs[l].hook # 1
    BY <2>2, <2>15 DEF Returns, Again
  <2>17. SameFlow(v, w)
    BY <2>7, <2>15, <2>16 DEF HasLeft, SameFlow, SameFlags
  <2>18. SameElements(v, w)
    BY <2>7 DEF HasLeft, Over
  <2> QED BY <2>6, <2>14, <2>17, <2>18
<1> QED BY <1>6, <1>7

-----------------------------------------------------------------------------
\* An element is made; a flag changes.
LEMMA AddedGood ==
    ASSUME NEW v, NEW S, Good(v, 0, S, 0), NEW w, NEW n, NEW k, NewElement(v, w, n, k), Sound(w)
    PROVE  /\ Good(w, 0, S, 0) /\ SameFlow(v, w) /\ Wears(w, n) /\ n \notin S
           /\ \A j \in DOMAIN w.cbs : w.cbs[j].el # n
<1>1. /\ DOMAIN w.el = DOMAIN v.el \cup {n} /\ n \notin DOMAIN v.el /\ n # 0
      /\ w.el[n].key = k /\ ~w.el[n].on /\ w.el[n].classes = {} /\ w.el[n]._enterCb = 0 /\ w.el[n]._leaveCb = 0
      /\ \A f \in DOMAIN v.el : w.el[f] = v.el[f]
      /\ w.cbs = v.cbs /\ w._pending = v._pending /\ w.frames = v.frames /\ w.ends = v.ends
      /\ w._leaving = v._leaving /\ w.queued = v.queued
  BY DEF NewElement
<1>2. /\ \A j \in DOMAIN v.cbs : v.cbs[j].el \in DOMAIN v.el
      /\ \A j \in Named(v.frames) : j \in DOMAIN v.cbs
      /\ \A q \in Keys : v._pending[q] # 0 => v._pending[q] \in DOMAIN v.el
      /\ S \subseteq DOMAIN v.el
  BY DEF Good, SoundBut, Links, Waits, Named, Present
<1>3. /\ \A m : Goes(w, m) <=> Goes(v, m)
      /\ \A m : Entering(w, m) <=> Entering(v, m)
      /\ \A m : Leaving(w, m) <=> Leaving(v, m)
      /\ \A m, j : Holds(w, m, j) <=> Holds(v, m, j)
      /\ \A j : Held(w, j) <=> Held(v, j)
  BY <1>1 DEF Goes, Entering, Leaving, Holds, Held
<1>4. Wears(w, n)
  BY <1>1 DEF Wears
<1>5. Remembers(w)
  <2>1. Remembers(v)
    BY DEF Good
  <2>2. \A j \in DOMAIN w.cbs : Entering(w, j) => w.el[w.cbs[j].el]._enterCb = j
    BY <1>1, <1>2, <1>3, <2>1 DEF Remembers
  <2>3. \A f \in DOMAIN w.el : w.el[f]._enterCb # 0 => ~w.cbs[w.el[f]._enterCb].called
    BY <1>1, <2>1 DEF Remembers
  <2>4. \A f \in DOMAIN w.el : w.el[f]._leaveCb # 0 => ~w.cbs[w.el[f]._leaveCb].called
    BY <1>1, <2>1 DEF Remembers
  <2> QED BY <2>2, <2>3, <2>4 DEF Remembers
<1>6. Scheduled(w, 0, mode)
  <2>1. Scheduled(v, 0, mode)
    BY DEF Good
  <2>2. \A j \in Named(w.frames) :
           w.cbs[j].called /\ ~w.cbs[j].cancelled => mode # "show" /\ ~w.el[w.cbs[j].el].on
    BY <1>1, <1>2, <2>1 DEF Scheduled
  <2> QED BY <1>1, <1>3, <2>1, <2>2 DEF Scheduled
<1>7. HeldBack(w, mode)
  <2>1. HeldBack(v, mode)
    BY DEF Good
  <2>2. \A j \in DOMAIN v.cbs : w.el[w.cbs[j].el].key = v.el[v.cbs[j].el].key
    BY <1>1, <1>2
  <2> QED BY <1>1, <1>3, <2>1, <2>2 DEF HeldBack, Unplaced
<1>8. Pending(w, mode)
  BY <1>1, <1>2 DEF Good, Pending
<1>9. Dressed(w, mode)
  <2>1. \A f \in DOMAIN v.el : Wears(w, f) <=> Wears(v, f)
    BY <1>1 DEF Wears
  <2>2. Dressed(v, mode)
    BY DEF Good
  <2> QED BY <1>1, <1>4, <2>1, <2>2 DEF Dressed
<1>10. Present(w, S, 0, 0, mode)
  <2>1. Present(v, S, 0, 0, mode)
    BY DEF Good
  <2>2. /\ S \subseteq DOMAIN w.el /\ \A f \in S : w.el[f].on /\ w.el[f]._leaveCb = 0
        /\ \A f \in DOMAIN w.el : w.el[f]._leaveCb # 0 => w.el[f].on
        /\ \A f \in DOMAIN w.el : w.el[f]._enterCb # 0 => f \in S
    BY <1>1, <1>2, <2>1 DEF Present
  <2>3. \A f \in DOMAIN w.el \ S : w.el[f].on =>
           /\ w.el[f]._leaveCb # 0
           /\ mode = "show" \/ w.el[f]._leaveCb = 0 \/ w._pending[w.el[f].key] = f \/ Held(w, w.el[f]._leaveCb)
    BY <1>1, <1>3, <2>1 DEF Present
  <2>4. \A f, g \in DOMAIN w.el : w.el[f].on /\ w.el[g].on /\ f # 0 /\ g # 0 /\ f # g => w.el[f].key # w.el[g].key
    BY <1>1, <2>1 DEF Present
  <2> QED BY <2>2, <2>3, <2>4 DEF Present
<1>11. SameFlow(v, w)
  BY <1>1, <1>3 DEF SameFlow, SameFlags, Returns, Again
<1>12. Good(w, 0, S, 0)
  <2>1. SoundBut(w, 0) /\ 0 \in S \cup {0}
    BY DEF Sound
  <2> QED BY <1>5, <1>6, <1>7, <1>8, <1>9, <1>10, <2>1 DEF Good
<1> QED BY <1>1, <1>2, <1>4, <1>11, <1>12

LEMMA FlagsGood ==
    ASSUME NEW v, NEW S, NEW x, Good(v, 0, S, x), NEW w, Sound(w), w.el = v.el, w.cbs = v.cbs,
           w._pending = v._pending, w.frames = v.frames, w.ends = v.ends
    PROVE  Good(w, 0, S, x) /\ Returns(w) = Returns(v)
<1>1. /\ \A m : Goes(w, m) <=> Goes(v, m)
      /\ \A m : Entering(w, m) <=> Entering(v, m)
      /\ \A m : Leaving(w, m) <=> Leaving(v, m)
      /\ \A m, j : Holds(w, m, j) <=> Holds(v, m, j)
      /\ \A j : Held(w, j) <=> Held(v, j)
      /\ \A f : Wears(w, f) <=> Wears(v, f)
  BY DEF Goes, Entering, Leaving, Holds, Held, Wears
<1>2. Remembers(w)
  BY <1>1 DEF Good, Remembers
<1>3. Scheduled(w, 0, mode)
  BY <1>1 DEF Good, Scheduled
<1>4. HeldBack(w, mode)
  BY <1>1 DEF Good, HeldBack, Unplaced
<1>5. Pending(w, mode)
  BY DEF Good, Pending
<1>6. Dressed(w, mode)
  BY <1>1 DEF Good, Dressed
<1>7. Present(w, S, x, 0, mode)
  BY <1>1 DEF Good, Present
<1>8. Returns(w) = Returns(v)
  BY <1>1 DEF Returns, Again
<1> QED BY <1>2, <1>3, <1>4, <1>5, <1>6, <1>7, <1>8 DEF Good, Sound

-----------------------------------------------------------------------------
(* What the last rendering shows stays, the others leave; it shows what is     *)
(* wanted, unless the page renders again or waits for a child to leave.        *)
Stays(s) == IF s = 0 THEN {} ELSE {s}
Wanted(v, s, c, md) ==
    /\ md = "show" => DOMAIN v.el = {1} /\ c \in {None, v.el[1].key}
    /\ ~v.queued => IF s = 0 THEN v._leaving \/ c = None ELSE v.el[s].key = c
    /\ v._leaving => s = 0 /\ md # "show" /\ \E n : Returns(v) = {n}
    /\ ~v._leaving => Returns(v) = {}
Rest(v, s, c) == Good(v, 0, Stays(s), 0) /\ Wanted(v, s, c, mode)
RestInv == Rest(run, shown, want)

LEMMA RenderedRests ==
    ASSUME MoveInv, RestInv
    PROVE  /\ Good(Moving!Rendered, 0, Stays(shown), 0) /\ Sound(Moving!Rendered) /\ Returns(Moving!Rendered) = Returns(run)
           /\ Moving!Rendered.el = run.el /\ (Moving!Rendered._leaving <=> run._leaving) /\ ~Moving!Rendered.queued
           /\ 0 \notin DOMAIN run.el /\ Moving!Rendered.cbs = run.cbs
<1> DEFINE w == Moving!Rendered
<1>1. Sound(run) /\ run \in Runs /\ w = [run EXCEPT !.queued = FALSE] /\ Good(run, 0, Stays(shown), 0)
  BY DEF MoveInv, Moving!Rendered, RestInv, Rest, Sound, SoundBut
<1> HIDE DEF w
<1>2. (w._leaving <=> run._leaving) /\ ~w.queued
  BY <1>1 DEF Runs
<1>3. /\ Sound(w) /\ w.el = run.el /\ w.cbs = run.cbs
      /\ w._pending = run._pending /\ w.frames = run.frames /\ w.ends = run.ends
  BY <1>1, FlagsKeep
<1>4. Good(w, 0, Stays(shown), 0) /\ Returns(w) = Returns(run)
  BY <1>1, <1>3, FlagsGood
<1> QED BY <1>1, <1>2, <1>3, <1>4, Indices DEF w

LEMMA AskRests ==
    ASSUME MoveInv, RestInv, NEW c \in Keys \cup {None}, Moving!Ask(c)
    PROVE  Rest(run', shown', want')
<1>1. Sound(run) /\ run \in Runs /\ run' = [run EXCEPT !.queued = TRUE] /\ Good(run, 0, Stays(shown), 0)
  BY DEF MoveInv, Moving!Ask, RestInv, Rest, Sound, SoundBut
<1> DEFINE w == run'
<1>2. (w._leaving <=> run._leaving) /\ w.queued
  BY <1>1 DEF Runs
<1>3. /\ Sound(w) /\ w.el = run.el /\ w.cbs = run.cbs
      /\ w._pending = run._pending /\ w.frames = run.frames /\ w.ends = run.ends
  BY <1>1, FlagsKeep
<1> HIDE DEF w
<1>4. Good(w, 0, Stays(shown), 0) /\ Returns(w) = Returns(run)
  BY <1>1, <1>3, FlagsGood
<1>5. Wanted(w, shown, c, mode)
  BY <1>2, <1>3, <1>4 DEF RestInv, Rest, Wanted, Moving!Ask
<1> QED BY <1>4, <1>5 DEF Rest, w, Moving!Ask

LEMMA ShowRests ==
    ASSUME MoveInv, RestInv, Moving!Show
    PROVE  Rest(run', shown', want')
<1>1. /\ mode = "show" /\ 1 \in DOMAIN run.el /\ shown \in {0, 1}
      /\ shown' = (IF want = None THEN 0 ELSE 1) /\ want' = want
  BY DEF MoveInv, Moving!Show
<1> DEFINE r == Moving!Rendered
<1>2. /\ Good(r, 0, Stays(shown), 0) /\ Sound(r) /\ Returns(r) = Returns(run)
      /\ r.el = run.el /\ (r._leaving <=> run._leaving) /\ ~r.queued
  BY RenderedRests
<1>3. ~r._leaving /\ Returns(r) = {} /\ DOMAIN r.el = {1} /\ want \in {None, r.el[1].key}
  BY <1>1, <1>2 DEF RestInv, Rest, Wanted
<1>4. run' = IF shown' = shown THEN r ELSE IF want = None THEN Moving!Leave(r, 1, 0, 0) ELSE Moving!Enter(r, 1)
  BY DEF Moving!Show
<1> HIDE DEF r
<1>5. CASE shown' = shown
  <2>1. run' = r
    BY <1>4, <1>5
  <2>2. Wanted(r, shown, want, mode)
    BY <1>1, <1>2, <1>3, <1>5 DEF Wanted
  <2> QED BY <1>1, <1>2, <1>5, <2>1, <2>2 DEF Rest
<1>6. CASE shown' # shown /\ want = None
  <2> DEFINE w == Moving!Leave(r, 1, 0, 0)
  <2>1. run' = w /\ shown = 1 /\ shown' = 0 /\ Stays(shown) = {1} /\ Stays(shown') = {1} \ {1}
    BY <1>1, <1>4, <1>6 DEF Stays
  <2>2. Good(w, 0, {1} \ {1}, 0) /\ SameFlags(r, w) /\ SameElements(r, w) /\ Returns(w) = {}
    BY <1>2, <1>3, <2>1, LeaveGood
  <2> HIDE DEF w
  <2>3. Wanted(w, 0, want, mode)
    BY <1>2, <1>3, <1>6, <2>2 DEF Wanted, SameFlags, SameElements
  <2> QED BY <1>1, <2>1, <2>2, <2>3 DEF Rest
<1>7. CASE shown' # shown /\ want # None
  <2> DEFINE w == Moving!Enter(r, 1)
  <2>1. run' = w /\ shown = 0 /\ shown' = 1 /\ Stays(shown) = {} /\ Stays(shown') = {} \cup {1}
    BY <1>1, <1>4, <1>7 DEF Stays
  <2>2. Good(r, 0, {}, 0) /\ Wears(r, 1)
    BY <1>1, <1>2, <1>3, <2>1 DEF Good, Dressed
  <2>3. 1 \in DOMAIN r.el \ {}
    BY <1>3
  <2>4. Good(w, 0, {} \cup {1}, 1) /\ SameFlow(r, w) /\ SameElements(r, w)
    BY <1>1, <1>3, <2>2, <2>3, EnterGood
  <2> HIDE DEF w
  <2>5. DOMAIN w.el = {1} /\ w.el[1].key = r.el[1].key
    BY <1>3, <2>4 DEF SameElements
  <2>6. Present(w, {1}, 0, 0, mode)
    BY <2>4, <2>5 DEF Good, Present
  <2>7. Good(w, 0, {1}, 0)
    BY <2>4, <2>6 DEF Good
  <2>8. Wanted(w, 1, want, mode)
    BY <1>2, <1>3, <1>7, <2>4, <2>5 DEF Wanted, SameFlags, SameFlow
  <2>9. Stays(1) = {1}
    BY DEF Stays
  <2> QED BY <1>1, <2>1, <2>7, <2>8, <2>9 DEF Rest
<1> QED BY <1>5, <1>6, <1>7

LEMMA RenderSameRests ==
    ASSUME MoveInv, RestInv, Moving!RenderSame
    PROVE  Rest(run', shown', want')
<1> DEFINE r == Moving!Rendered
<1>1. /\ Good(r, 0, Stays(shown), 0) /\ Returns(r) = Returns(run)
      /\ r.el = run.el /\ (r._leaving <=> run._leaving) /\ ~r.queued
  BY RenderedRests
<1>2. run' = r /\ shown' = shown /\ want' = want /\ mode # "show" /\ Moving!Same
  BY DEF Moving!RenderSame, Moving!Rendering
<1> HIDE DEF r
<1>3. IF shown = 0 THEN run._leaving \/ want = None ELSE run.el[shown].key = want
  BY <1>2 DEF Moving!Same, Moving!Target, RestInv, Rest, Wanted
<1>4. Wanted(r, shown, want, mode)
  BY <1>1, <1>2, <1>3 DEF RestInv, Rest, Wanted
<1> QED BY <1>1, <1>2, <1>4 DEF Rest

\* The new child comes.
LEMMA NewComes ==
    ASSUME MoveInv, RestInv, mode # "show", ~run._leaving, NEW k \in Keys
    PROVE  LET v == Moving!Enter(Moving!Added(Moving!Rendered, k), Moving!New)
           IN  /\ Good(v, 0, Stays(shown) \cup {Moving!New}, Moving!New) /\ Returns(v) = {} /\ ~v._leaving /\ ~v.queued
               /\ DOMAIN v.el = DOMAIN run.el \cup {Moving!New} /\ Moving!New \notin DOMAIN run.el /\ Moving!New # 0 /\ v.el[Moving!New].key = k
               /\ \A f \in DOMAIN run.el : v.el[f].key = run.el[f].key
               /\ \E n \in DOMAIN v.cbs : Entering(v, n) /\ v.cbs[n].el = Moving!New /\ v.cbs[n].hook = 0
<1> DEFINE r == Moving!Rendered
           a == Moving!Added(r, k)
           v == Moving!Enter(a, Moving!New)
           S == Stays(shown)
<1>1. /\ Good(r, 0, S, 0) /\ Sound(r) /\ Returns(r) = {} /\ r.el = run.el /\ ~r._leaving /\ ~r.queued
  BY RenderedRests DEF RestInv, Rest, Wanted
<1>2. NewElement(r, a, Moving!New, k) /\ Sound(a)
  BY <1>1, AddedKeeps DEF Moving!New
<1> HIDE DEF a, r, S
<1>3. Good(a, 0, S, 0) /\ SameFlow(r, a) /\ Wears(a, Moving!New) /\ Moving!New \notin S /\ \A j \in DOMAIN a.cbs : a.cbs[j].el # Moving!New
  BY <1>1, <1>2, AddedGood
<1>4. /\ DOMAIN a.el = DOMAIN run.el \cup {Moving!New} /\ Moving!New \notin DOMAIN run.el /\ Moving!New # 0 /\ a.el[Moving!New].key = k
      /\ \A f \in DOMAIN run.el : a.el[f] = run.el[f]
  BY <1>1, <1>2 DEF NewElement
<1>5. Returns(a) = {} /\ ~a._leaving /\ ~a.queued
  BY <1>1, <1>3 DEF SameFlow, SameFlags
<1>6. /\ Good(v, 0, S \cup {Moving!New}, Moving!New) /\ SameFlow(a, v) /\ SameElements(a, v)
      /\ \E n \in DOMAIN v.cbs : Entering(v, n) /\ v.cbs[n].el = Moving!New /\ v.cbs[n].hook = 0
  <2>1. Moving!New \in DOMAIN a.el \ S
    BY <1>3, <1>4
  <2> QED BY <1>3, <1>5, <2>1, EnterGood
<1> HIDE DEF v
<1>7. Returns(v) = {} /\ ~v._leaving /\ ~v.queued
  BY <1>5, <1>6 DEF SameFlow, SameFlags
<1>8. /\ DOMAIN v.el = DOMAIN run.el \cup {Moving!New} /\ v.el[Moving!New].key = k
      /\ \A f \in DOMAIN run.el : v.el[f].key = run.el[f].key
  BY <1>4, <1>6 DEF SameElements
<1> QED BY <1>4, <1>6, <1>7, <1>8 DEF v, a, r, S

LEMMA NewIsWanted ==
    ASSUME NEW v, NEW w, NEW e, NEW c, Good(w, 0, {e}, 0), SameFlow(v, w), SameElements(v, w), Returns(v) = {},
           ~v._leaving, ~v.queued, e \in DOMAIN v.el, e # 0, v.el[e].key = c, mode # "show"
    PROVE  Rest(w, e, c)
<1>1. Wanted(w, e, c, mode)
  BY DEF Wanted, SameFlow, SameFlags, SameElements
<1> QED BY <1>1 DEF Rest, Stays

LEMMA RenderNewRests ==
    ASSUME MoveInv, RestInv, Moving!RenderNew
    PROVE  Rest(run', shown', want')
<1> DEFINE v == Moving!Enter(Moving!Added(Moving!Rendered, want), Moving!New)
           w == Moving!Insert(v, Moving!New)
<1>1. /\ run' = w /\ shown' = Moving!New /\ want' = want /\ mode # "show" /\ shown = 0
      /\ ~run._leaving /\ want # None /\ want \in Keys /\ Stays(shown) \cup {Moving!New} = {Moving!New}
  BY DEF Moving!RenderNew, Moving!Rendering, Moving!Same, Moving!Target, MoveInv, Stays
<1>2. /\ Good(v, 0, Stays(shown) \cup {Moving!New}, Moving!New) /\ Returns(v) = {} /\ ~v._leaving /\ ~v.queued
      /\ DOMAIN v.el = DOMAIN run.el \cup {Moving!New} /\ Moving!New # 0 /\ v.el[Moving!New].key = want
      /\ \E n \in DOMAIN v.cbs : Entering(v, n) /\ v.cbs[n].el = Moving!New /\ v.cbs[n].hook = 0
  BY <1>1, NewComes
<1> HIDE DEF v
<1>3. PICK n \in DOMAIN v.cbs : Entering(v, n) /\ v.cbs[n].el = Moving!New /\ v.cbs[n].hook = 0
  BY <1>2
<1>4. Good(v, 0, {Moving!New}, Moving!New)
  BY <1>1, <1>2
<1>5. \A l \in DOMAIN v.cbs : Holds(v, n, l) => v.el[v.cbs[l].el].key # v.el[Moving!New].key
  <2>1. 0 \notin DOMAIN v.cbs
    BY <1>4, Indices DEF Good, SoundBut
  <2> QED BY <1>3, <2>1 DEF Holds
<1>6. Good(w, 0, {Moving!New}, 0) /\ SameFlow(v, w) /\ SameElements(v, w)
  BY <1>1, <1>2, <1>3, <1>4, <1>5, InsertGood
<1> HIDE DEF w
<1>7. Rest(w, Moving!New, want)
  <2>1. Moving!New \in DOMAIN v.el
    BY <1>2
  <2> QED BY <1>1, <1>2, <1>6, <2>1, NewIsWanted
<1> QED BY <1>1, <1>7

LEMMA RenderNoneRests ==
    ASSUME MoveInv, RestInv, Moving!RenderNone
    PROVE  Rest(run', shown', want')
<1> DEFINE r == Moving!Rendered
           w == Moving!Leave(r, shown, 0, 0)
<1>1. /\ Good(r, 0, Stays(shown), 0) /\ Returns(r) = Returns(run)
      /\ (r._leaving <=> run._leaving) /\ ~r.queued
  BY RenderedRests
<1>2. run' = w /\ shown' = 0 /\ want' = want /\ mode # "show" /\ shown # 0 /\ Moving!Target = None
  BY DEF Moving!RenderNone, Moving!Rendering
<1>3. ~run._leaving /\ Returns(run) = {} /\ want = None
  BY <1>2 DEF RestInv, Rest, Wanted, Moving!Target
<1> HIDE DEF r
<1>4. Stays(shown) = {shown} /\ Stays(0) = {shown} \ {shown} /\ 0 \in Nat
  BY <1>2 DEF Stays
<1>5. Good(w, 0, {shown} \ {shown}, 0) /\ SameFlags(r, w) /\ Returns(w) = {}
  BY <1>1, <1>2, <1>3, <1>4, LeaveGood
<1> HIDE DEF w
<1>6. Wanted(w, 0, want, mode)
  BY <1>1, <1>2, <1>3, <1>5 DEF Wanted, SameFlags
<1> QED BY <1>2, <1>4, <1>5, <1>6 DEF Rest

LEMMA RenderOutInRests ==
    ASSUME MoveInv, RestInv, Moving!RenderOutIn
    PROVE  Rest(run', shown', want')
<1> DEFINE r == Moving!Rendered
           v == [r EXCEPT !._leaving = TRUE]
           w == Moving!Leave(v, shown, 1, 0)
<1>1. /\ Good(r, 0, Stays(shown), 0) /\ Sound(r) /\ Returns(r) = Returns(run)
      /\ (r._leaving <=> run._leaving) /\ ~r.queued
  BY RenderedRests
<1>2. run' = w /\ shown' = 0 /\ want' = want /\ mode = "out-in" /\ shown # 0
  BY DEF Moving!RenderOutIn, Moving!Rendering, Moving!Replaces
<1>3. Returns(run) = {}
  BY <1>2 DEF RestInv, Rest, Wanted
<1> HIDE DEF r
<1>4. v._leaving /\ (v.queued <=> r.queued)
  BY <1>1 DEF Sound, SoundBut, Runs
<1>5. /\ Sound(v) /\ v.el = r.el /\ v.cbs = r.cbs
      /\ v._pending = r._pending /\ v.frames = r.frames /\ v.ends = r.ends
  BY <1>1, FlagsKeep
<1> HIDE DEF v
<1>6. Good(v, 0, Stays(shown), 0) /\ Returns(v) = {}
  BY <1>1, <1>3, <1>5, FlagsGood
<1>7. Stays(shown) = {shown} /\ Stays(0) = {shown} \ {shown}
  BY <1>2 DEF Stays
<1>8. Good(w, 0, {shown} \ {shown}, 0) /\ SameFlags(v, w) /\ OneReturns(w)
  <2>1. Good(v, 0, {shown}, 0) /\ shown \in {shown} /\ 0 # shown /\ 1 \in Nat
    BY <1>2, <1>6, <1>7
  <2> QED BY <1>6, <2>1, LeaveGood
<1> HIDE DEF w
<1>9. Wanted(w, 0, want, mode)
  BY <1>1, <1>2, <1>4, <1>8 DEF Wanted, SameFlags, OneReturns
<1> QED BY <1>2, <1>7, <1>8, <1>9 DEF Rest

LEMMA RenderReplacedRests ==
    ASSUME MoveInv, RestInv, Moving!RenderReplaced
    PROVE  Rest(run', shown', want')
<1> DEFINE v == Moving!Enter(Moving!Added(Moving!Rendered, want), Moving!New)
           delay == IF mode = "in-out" THEN v.el[Moving!New]._enterCb ELSE 0
           w == Moving!Leave(v, shown, 0, delay)
           z == Moving!Insert(w, Moving!New)
<1>1. /\ run' = z /\ shown' = Moving!New /\ want' = want /\ mode # "show" /\ shown # 0
      /\ ~run._leaving /\ want # None /\ want \in Keys /\ run.el[shown].key # want
      /\ shown \in DOMAIN run.el /\ Stays(shown) = {shown}
  BY DEF Moving!RenderReplaced, Moving!Rendering, Moving!Replaces, Moving!Same, Moving!Target, MoveInv, Stays
<1>2. /\ Good(v, 0, Stays(shown) \cup {Moving!New}, Moving!New) /\ Returns(v) = {} /\ ~v._leaving /\ ~v.queued
      /\ DOMAIN v.el = DOMAIN run.el \cup {Moving!New} /\ Moving!New \notin DOMAIN run.el /\ Moving!New # 0 /\ v.el[Moving!New].key = want
      /\ \A f \in DOMAIN run.el : v.el[f].key = run.el[f].key
      /\ \E n \in DOMAIN v.cbs : Entering(v, n) /\ v.cbs[n].el = Moving!New /\ v.cbs[n].hook = 0
  BY <1>1, NewComes
<1> DEFINE S == Stays(shown) \cup {Moving!New}
<1>3. shown # Moving!New /\ shown \in S /\ S \ {shown} = {Moving!New}
  BY <1>1, <1>2
<1> HIDE DEF v, S
<1>4. PICK n \in DOMAIN v.cbs : Entering(v, n) /\ v.cbs[n].el = Moving!New /\ v.cbs[n].hook = 0
  BY <1>2
<1>5. v.el[Moving!New]._enterCb = n
  BY <1>2, <1>4 DEF Good, Remembers
<1>6. Good(v, 0, S, Moving!New)
  BY <1>2 DEF S
<1>7. /\ Good(w, 0, {Moving!New}, Moving!New) /\ SameFlags(v, w) /\ Returns(w) = {} /\ SameElements(v, w)
      /\ n \in DOMAIN w.cbs /\ Entering(w, n) /\ w.cbs[n].el = Moving!New
      /\ \A l \in DOMAIN w.cbs : Holds(w, n, l) => w.cbs[l].el = shown
  <2>1. CASE mode = "in-out"
    <3>1. w = Moving!Leave(v, shown, 0, n)
      BY <1>5, <2>1
    <3> HIDE DEF w
    <3>2. /\ Good(w, 0, S \ {shown}, Moving!New) /\ SameFlow(v, w) /\ SameElements(v, w)
          /\ n \in DOMAIN w.cbs /\ Entering(w, n) /\ w.cbs[n].el = v.cbs[n].el
          /\ HoldsOnly(w, n, shown)
      <4>1. /\ v.cbs[n].el # shown /\ Moving!New # shown /\ shown \in S /\ Returns(v) = {} /\ mode # "show"
            /\ n \in DOMAIN v.cbs /\ Entering(v, n) /\ v.cbs[n].hook = 0
        BY <1>1, <1>2, <1>3, <1>4
      <4>2. LET u == Moving!Leave(v, shown, 0, n)
            IN  /\ Good(u, 0, S \ {shown}, Moving!New) /\ SameFlow(v, u) /\ SameElements(v, u)
                /\ n \in DOMAIN u.cbs /\ Entering(u, n) /\ u.cbs[n].el = v.cbs[n].el
                /\ HoldsOnly(u, n, shown)
        BY <1>6, <4>1, LeaveHeldGood
      <4> QED BY <3>1, <4>2
    <3> QED BY <1>2, <1>3, <1>4, <3>2 DEF SameFlow, HoldsOnly
  <2>2. CASE mode # "in-out"
    <3>1. w = Moving!Leave(v, shown, 0, 0) /\ 0 \in Nat
      BY <2>2
    <3> HIDE DEF w
    <3>2. /\ Good(w, 0, S \ {shown}, Moving!New) /\ SameFlags(v, w) /\ SameElements(v, w) /\ Returns(w) = {}
          /\ OthersEnter(v, w, shown)
      <4>1. shown \in S /\ Moving!New # shown /\ Returns(v) = {} /\ 0 \in Nat
        BY <1>2, <1>3, <3>1
      <4>2. LET u == Moving!Leave(v, shown, 0, 0)
            IN  /\ Good(u, 0, S \ {shown}, Moving!New) /\ SameFlags(v, u) /\ SameElements(v, u)
                /\ 0 # 1 => Returns(u) = {}
                /\ 0 = 1 => OneReturns(u)
                /\ OthersEnter(v, u, shown)
        BY <1>6, <4>1, LeaveGood
      <4> QED BY <3>1, <4>2
    <3>3. 0 \notin DOMAIN w.cbs
      BY <3>2, Indices DEF Good, SoundBut
    <3>4. n \in DOMAIN w.cbs /\ Entering(w, n) /\ w.cbs[n].el = Moving!New /\ w.cbs[n].hook = 0
      BY <1>3, <1>4, <3>2 DEF OthersEnter
    <3>5. \A l \in DOMAIN w.cbs : ~Holds(w, n, l)
      BY <3>3, <3>4 DEF Holds
    <3> QED BY <1>3, <3>2, <3>4, <3>5
  <2> QED BY <2>1, <2>2
<1> HIDE DEF w
<1>8. w.el[shown].key # w.el[Moving!New].key
  BY <1>1, <1>2, <1>7 DEF SameElements
<1>9. Good(z, 0, {Moving!New}, 0) /\ SameFlow(w, z) /\ SameElements(w, z)
  <2>1. \A l \in DOMAIN w.cbs : Holds(w, n, l) => w.el[w.cbs[l].el].key # w.el[Moving!New].key
    BY <1>7, <1>8
  <2> QED BY <1>1, <1>7, <2>1, InsertGood
<1> HIDE DEF z
<1>10. Moving!New \in DOMAIN w.el /\ w.el[Moving!New].key = want /\ ~w._leaving /\ ~w.queued
  BY <1>2, <1>7 DEF SameElements, SameFlags
<1>11. Rest(z, Moving!New, want)
  BY <1>1, <1>2, <1>7, <1>9, <1>10, NewIsWanted
<1> QED BY <1>1, <1>11

-----------------------------------------------------------------------------
\* A callback is called.
LEMMA WantedKeeps ==
    ASSUME NEW v, NEW w, NEW s, NEW c, Wanted(v, s, c, mode), SameElements(v, w), s \in {0} \cup DOMAIN v.el,
           SameFlow(v, w) \/ (\E n : n \in Returns(v) /\ Returns(w) = Returns(v) \ {n} /\ ~w._leaving /\ w.queued)
    PROVE  Wanted(w, s, c, mode)
<1>1. DOMAIN w.el = DOMAIN v.el /\ \A f \in DOMAIN v.el : w.el[f].key = v.el[f].key
  BY DEF SameElements
<1>2. CASE SameFlow(v, w)
  BY <1>1, <1>2 DEF Wanted, SameFlow, SameFlags
<1>3. CASE \E n : n \in Returns(v) /\ Returns(w) = Returns(v) \ {n} /\ ~w._leaving /\ w.queued
  <2>1. PICK n : n \in Returns(v) /\ Returns(w) = Returns(v) \ {n} /\ ~w._leaving /\ w.queued
    BY <1>3
  <2>2. Returns(w) = {}
    BY <2>1 DEF Wanted
  <2>3. mode = "show" => DOMAIN w.el = {1} /\ c \in {None, w.el[1].key}
    BY <1>1 DEF Wanted
  <2> QED BY <2>1, <2>2, <2>3 DEF Wanted
<1> QED BY <1>2, <1>3

LEMMA CbRests ==
    ASSUME NEW v, Sound(v), NEW n \in DOMAIN v.cbs, NEW s, NEW c, Good(v, n, Stays(s), 0), ~Held(v, n),
           n \notin Named(v.frames), Wanted(v, s, c, mode), s \in {0} \cup DOMAIN v.el
    PROVE  Rest(Moving!Cb(v, n), s, c)
<1>1. v \in Runs /\ n # 0 /\ v.cbs[n].kind \in {"enter", "leave"}
  BY Indices DEF Sound, SoundBut, Callbacks, Kinds
<1>2. CASE v.cbs[n].called
  <2>1. Moving!Cb(v, n) = v
    BY <1>1, <1>2 DEF Moving!Cb, Moving!EnterCb, Moving!LeaveCb
  <2>2. Good(v, 0, Stays(s), 0)
    BY <1>2, NotToBeCalled
  <2> QED BY <2>1, <2>2 DEF Rest
<1>3. CASE ~v.cbs[n].called /\ v.cbs[n].kind = "enter"
  <2> DEFINE w == Moving!EnterCb(v, n)
  <2>1. Moving!Cb(v, n) = w /\ Entering(v, n)
    BY <1>3 DEF Moving!Cb, Entering
  <2>2. Good(w, 0, Stays(s), 0) /\ Aside(v, w, n)
    BY <2>1, EnterIsFinished
  <2> HIDE DEF w
  <2>3. SameFlow(v, w) /\ SameElements(v, w)
    BY <2>1, <2>2, FlowAside DEF Aside
  <2>4. Wanted(w, s, c, mode)
    BY <2>3, WantedKeeps
  <2> QED BY <2>1, <2>2, <2>4 DEF Rest
<1>4. CASE ~v.cbs[n].called /\ v.cbs[n].kind = "leave"
  <2> DEFINE w == Moving!LeaveCb(v, n)
  <2>1. Moving!Cb(v, n) = w /\ Leaving(v, n) /\ ~v.cbs[n].cancelled
    BY <1>1, <1>4 DEF Moving!Cb, Leaving, Sound, SoundBut
  <2>2. Good(w, 0, Stays(s), 0) /\ HasLeft(v, w, n)
    BY <2>1, LeaveIsFinished
  <2> HIDE DEF w
  <2>3. SameElements(v, w) /\ Returns(w) = Returns(v) \ {n}
    <3>1. SameElements(v, w)
      BY <2>2 DEF HasLeft, Over
    <3>2. Returns(w) = Returns(v) \ {n}
      BY <2>2, FlowLeft
    <3> QED BY <3>1, <3>2
  <2>4. CASE v.cbs[n].hook = 1
    <3>1. n \in Returns(v)
      BY <2>1, <2>4 DEF Returns, Again
    <3>2. ~w._leaving /\ w.queued
      BY <2>1, <2>2, <2>4 DEF HasLeft
    <3>3. Wanted(w, s, c, mode)
      BY <2>3, <3>1, <3>2, WantedKeeps
    <3> QED BY <2>1, <2>2, <3>3 DEF Rest
  <2>5. CASE v.cbs[n].hook # 1
    <3>1. n \notin Returns(v)
      BY <2>5 DEF Returns, Again
    <3>2. SameFlow(v, w)
      BY <2>1, <2>2, <2>3, <2>5, <3>1 DEF HasLeft, SameFlow, SameFlags
    <3>3. Wanted(w, s, c, mode)
      BY <2>3, <3>2, WantedKeeps
    <3> QED BY <2>1, <2>2, <3>3 DEF Rest
  <2> QED BY <2>4, <2>5
<1> QED BY <1>1, <1>2, <1>3, <1>4

\* A frame: the class "start" gives way to "to", unless the transition was cancelled.
Worn(v, w, n, to) ==
    \A f \in DOMAIN v.el : \A c, p : <<c, p>> \in w.el[f].classes =>
       \/ <<c, p>> \in v.el[f].classes /\ ~(f = v.cbs[n].el /\ c = v.cbs[n].kind /\ p = "start")
       \/ to /\ f = v.cbs[n].el /\ c = v.cbs[n].kind /\ p = "to"

\* w is v without the frame of n, as it is worn then.
Taken(v, w, n, to) ==
    /\ v.frames # <<>> /\ n = Head(v.frames) /\ (to => ~v.cbs[n].cancelled)
    /\ Kept(v, w) /\ w._pending = v._pending /\ w.frames = Tail(v.frames) /\ w.ends = v.ends
    /\ Worn(v, w, n, to)

LEMMA FrameGood ==
    ASSUME NEW v, NEW S, Good(v, 0, S, 0), NEW n, NEW to \in BOOLEAN, NEW w, Sound(w), Taken(v, w, n, to)
    PROVE  /\ Good(w, n, S, 0) /\ Present(w, S, 0, 0, mode) /\ ~Goes(w, n) /\ ~Held(w, n)
           /\ n \in DOMAIN w.cbs /\ Returns(w) = Returns(v)
<1>0. /\ v.frames # <<>> /\ n = Head(v.frames) /\ (to => ~v.cbs[n].cancelled)
      /\ Kept(v, w) /\ w._pending = v._pending /\ w.frames = Tail(v.frames) /\ w.ends = v.ends
      /\ Worn(v, w, n, to)
  BY DEF Taken
<1> DEFINE e == v.cbs[n].el
<1>1. /\ DOMAIN w.el = DOMAIN v.el /\ w.cbs = v.cbs /\ w._pending = v._pending /\ w.ends = v.ends
      /\ \A f \in DOMAIN v.el : /\ w.el[f].key = v.el[f].key /\ w.el[f].on = v.el[f].on
                                /\ w.el[f]._enterCb = v.el[f]._enterCb /\ w.el[f]._leaveCb = v.el[f]._leaveCb
  BY <1>0 DEF Kept
<1>2. /\ v.frames \in Seq(Nat) /\ Once(v.frames) /\ \A j \in v.ends : j \notin Named(v.frames)
      /\ \A j \in Named(v.frames) : j \in DOMAIN v.cbs
      /\ \A j \in DOMAIN v.cbs : v.cbs[j].el \in DOMAIN v.el
      /\ 0 \notin DOMAIN v.cbs
  BY Indices DEF Good, SoundBut, Runs, Scheduled, Waits, Links, Named
<1>3. /\ Named(w.frames) = Named(v.frames) \ {n} /\ Once(w.frames) /\ n \in Named(v.frames)
  <2>1. v.frames \in Seq(Nat) /\ v.frames # <<>> /\ Once(v.frames)
    BY <1>0, <1>2
  <2> QED BY <1>0, <2>1, FrameTaken
<1>4. /\ n \in DOMAIN v.cbs /\ e \in DOMAIN v.el /\ n # 0 /\ Goes(v, n)
      /\ \A j : Goes(w, j) <=> Goes(v, j) /\ j # n
  BY <1>1, <1>2, <1>3 DEF Goes
<1>5. /\ \A j : Entering(w, j) <=> Entering(v, j)
      /\ \A j : Leaving(w, j) <=> Leaving(v, j)
      /\ \A m, j : Holds(w, m, j) <=> Holds(v, m, j)
      /\ \A j : Held(w, j) <=> Held(v, j)
  BY <1>1 DEF Entering, Leaving, Holds, Held
<1>6. ~Held(v, n)
  BY <1>4 DEF Held, Good, HeldBack
<1> HIDE DEF e
<1>7. Remembers(w)
  <2>1. Remembers(v)
    BY DEF Good
  <2>2. \A j \in DOMAIN w.cbs : Entering(w, j) => w.el[w.cbs[j].el]._enterCb = j
    BY <1>1, <1>2, <1>5, <2>1 DEF Remembers
  <2>3. \A f \in DOMAIN w.el : w.el[f]._enterCb # 0 => ~w.cbs[w.el[f]._enterCb].called
    BY <1>1, <2>1 DEF Remembers
  <2>4. \A f \in DOMAIN w.el : w.el[f]._leaveCb # 0 => ~w.cbs[w.el[f]._leaveCb].called
    BY <1>1, <2>1 DEF Remembers
  <2> QED BY <2>2, <2>3, <2>4 DEF Remembers
<1>8. Scheduled(w, n, mode)
  <2>1. Scheduled(v, 0, mode)
    BY DEF Good
  <2>2. \A j \in w.ends : j \notin Named(w.frames)
    BY <1>1, <1>2, <1>3
  <2>3. \A j \in DOMAIN w.cbs \ {n} : Entering(w, j) => Goes(w, j)
    BY <1>1, <1>2, <1>4, <1>5, <2>1 DEF Scheduled
  <2>4. \A j \in DOMAIN w.cbs \ {n} : Leaving(w, j) => Goes(w, j) \/ Held(w, j)
    BY <1>1, <1>2, <1>4, <1>5, <2>1 DEF Scheduled
  <2>5. \A j \in Named(w.frames) :
           w.cbs[j].called /\ ~w.cbs[j].cancelled => mode # "show" /\ ~w.el[w.cbs[j].el].on
    BY <1>1, <1>2, <1>3, <2>1 DEF Scheduled
  <2> QED BY <1>3, <2>2, <2>3, <2>4, <2>5 DEF Scheduled
<1>9. HeldBack(w, mode)
  <2>1. HeldBack(v, mode)
    BY DEF Good
  <2>2. \A j \in DOMAIN v.cbs : w.el[w.cbs[j].el].key = v.el[v.cbs[j].el].key
    BY <1>1, <1>2
  <2> QED BY <1>1, <1>4, <1>5, <2>1, <2>2 DEF HeldBack, Unplaced
<1>10. Pending(w, mode)
  <2>1. \A k \in Keys : v._pending[k] # 0 => v._pending[k] \in DOMAIN v.el
    BY DEF Good, SoundBut, Waits
  <2> QED BY <1>1, <2>1 DEF Good, Pending
<1>11. Dressed(w, mode)
  <2>1. ASSUME NEW f \in DOMAIN v.el, v.el[f].on \/ mode = "show"
        PROVE  Wears(w, f)
    <3>1. Wears(v, f) /\ "start" \in Parts
      BY <2>1 DEF Good, Dressed, Parts
    <3>2. /\ v.el[f]._enterCb # 0 => v.cbs[v.el[f]._enterCb].el = f /\ v.cbs[v.el[f]._enterCb].kind = "enter"
          /\ v.el[f]._leaveCb # 0 => v.cbs[v.el[f]._leaveCb].el = f /\ v.cbs[v.el[f]._leaveCb].kind = "leave"
      BY <2>1 DEF Good, SoundBut, Links
    <3>3. to /\ f = e => /\ v.cbs[n].kind = "enter" => v.el[f]._enterCb = n
                         /\ v.cbs[n].kind = "leave" => v.el[f]._leaveCb = n
      <4>1. SUFFICES ASSUME to, f = e
                     PROVE  /\ v.cbs[n].kind = "enter" => v.el[f]._enterCb = n
                            /\ v.cbs[n].kind = "leave" => v.el[f]._leaveCb = n
        OBVIOUS
      <4>2. ~v.cbs[n].called
        BY <1>0, <1>3, <2>1, <4>1 DEF Good, Scheduled, e
      <4> QED BY <1>4, <4>1, <4>2 DEF Good, Remembers, SoundBut, Entering, Leaving, e
    <3>4. \A c, p : <<c, p>> \in w.el[f].classes =>
             \/ <<c, p>> \in v.el[f].classes /\ ~(f = e /\ c = v.cbs[n].kind /\ p = "start")
             \/ to /\ f = e /\ c = v.cbs[n].kind /\ p = "to"
      BY <1>0, <2>1 DEF Worn, e
    <3>5. \A p \in Parts : /\ <<"enter", p>> \in w.el[f].classes => w.el[f]._enterCb # 0
                           /\ <<"leave", p>> \in w.el[f].classes => w.el[f]._leaveCb # 0
      BY <1>1, <1>4, <3>1, <3>3, <3>4 DEF Wears
    <3>6. <<"enter", "start">> \in w.el[f].classes => w.el[f]._enterCb \in Named(w.frames)
      <4>1. SUFFICES ASSUME <<"enter", "start">> \in w.el[f].classes
                     PROVE  w.el[f]._enterCb \in Named(w.frames)
        OBVIOUS
      <4>2. <<"enter", "start">> \in v.el[f].classes /\ ~(f = e /\ "enter" = v.cbs[n].kind)
        BY <3>4, <4>1
      <4>3. v.el[f]._enterCb \in Named(v.frames) /\ v.el[f]._enterCb # 0
        BY <3>1, <4>2 DEF Wears
      <4>4. v.el[f]._enterCb # n
        BY <3>2, <4>2, <4>3 DEF e
      <4> QED BY <1>1, <1>3, <4>3, <4>4
    <3>7. <<"leave", "start">> \in w.el[f].classes => w.el[f]._leaveCb \in Named(w.frames)
      <4>1. SUFFICES ASSUME <<"leave", "start">> \in w.el[f].classes
                     PROVE  w.el[f]._leaveCb \in Named(w.frames)
        OBVIOUS
      <4>2. <<"leave", "start">> \in v.el[f].classes /\ ~(f = e /\ "leave" = v.cbs[n].kind)
        BY <3>4, <4>1
      <4>3. v.el[f]._leaveCb \in Named(v.frames) /\ v.el[f]._leaveCb # 0
        BY <3>1, <4>2 DEF Wears
      <4>4. v.el[f]._leaveCb # n
        BY <3>2, <4>2, <4>3 DEF e
      <4> QED BY <1>1, <1>3, <4>3, <4>4
    <3> QED BY <3>5, <3>6, <3>7 DEF Wears
  <2> QED BY <1>1, <2>1 DEF Dressed
<1>12. Present(w, S, 0, 0, mode) /\ Present(w, S, 0, n, mode)
  <2>1. Present(v, S, 0, 0, mode)
    BY DEF Good
  <2>2. /\ S \subseteq DOMAIN w.el /\ \A f \in S : w.el[f].on /\ w.el[f]._leaveCb = 0
        /\ \A f \in DOMAIN w.el : w.el[f]._leaveCb # 0 => w.el[f].on
        /\ \A f \in DOMAIN w.el : w.el[f]._enterCb # 0 => f \in S
        /\ \A f, g \in DOMAIN w.el :
              w.el[f].on /\ w.el[g].on /\ f # 0 /\ g # 0 /\ f # g => w.el[f].key # w.el[g].key
    BY <1>1, <2>1 DEF Present
  <2>3. \A f \in DOMAIN w.el \ S : w.el[f].on =>
           /\ w.el[f]._leaveCb # 0
           /\ mode = "show" \/ w.el[f]._leaveCb = 0 \/ w._pending[w.el[f].key] = f \/ Held(w, w.el[f]._leaveCb)
    BY <1>1, <1>5, <2>1 DEF Present
  <2> QED BY <2>2, <2>3 DEF Present
<1>13. Good(w, n, S, 0)
  <2>1. SoundBut(w, n) /\ 0 \in S \cup {0}
    BY SoundForAll
  <2> QED BY <1>7, <1>8, <1>9, <1>10, <1>11, <1>12, <2>1 DEF Good
<1>14. Returns(w) = Returns(v)
  BY <1>1, <1>5 DEF Returns, Again
<1> QED BY <1>1, <1>4, <1>5, <1>6, <1>12, <1>13, <1>14

\* The end of a transition is waited for, and comes.
LEMMA WaitsForEnd ==
    ASSUME NEW v, NEW n, NEW S, Good(v, n, S, 0), n \in DOMAIN v.cbs, Present(v, S, 0, 0, mode), ~Goes(v, n),
           ~Held(v, n), NEW w, Sound(w), w.el = v.el, w.cbs = v.cbs, w._pending = v._pending,
           w.frames = v.frames, w.ends = v.ends \cup {n}
    PROVE  Good(w, 0, S, 0)
<1>1. /\ \A m : Goes(w, m) <=> Goes(v, m) \/ m = n
      /\ \A m : Entering(w, m) <=> Entering(v, m)
      /\ \A m : Leaving(w, m) <=> Leaving(v, m)
      /\ \A m, j : Holds(w, m, j) <=> Holds(v, m, j)
      /\ \A j : Held(w, j) <=> Held(v, j)
      /\ \A f : Wears(w, f) <=> Wears(v, f)
  BY DEF Goes, Entering, Leaving, Holds, Held, Wears
<1>2. Remembers(w)
  BY <1>1 DEF Good, Remembers
<1>3. Scheduled(w, 0, mode)
  <2>1. n \notin Named(v.frames)
    BY DEF Goes
  <2> QED BY <1>1, <2>1 DEF Good, Scheduled
<1>4. HeldBack(w, mode)
  <2>1. HeldBack(v, mode)
    BY DEF Good
  <2>2. \A m, j \in DOMAIN v.cbs : Holds(v, m, j) => j # n
    BY DEF Held
  <2> QED BY <1>1, <2>1, <2>2 DEF HeldBack, Unplaced
<1>5. Pending(w, mode)
  BY DEF Good, Pending
<1>6. Dressed(w, mode)
  BY <1>1 DEF Good, Dressed
<1>7. Present(w, S, 0, 0, mode)
  BY <1>1 DEF Present
<1> QED BY <1>2, <1>3, <1>4, <1>5, <1>6, <1>7 DEF Good, Sound

LEMMA EndGood ==
    ASSUME NEW v, NEW S, Good(v, 0, S, 0), NEW n \in v.ends, NEW w, Sound(w), w.el = v.el, w.cbs = v.cbs,
           w._pending = v._pending, w.frames = v.frames, w.ends = v.ends \ {n}
    PROVE  /\ Good(w, n, S, 0) /\ ~Held(w, n) /\ n \in DOMAIN w.cbs /\ n \notin Named(w.frames)
           /\ Returns(w) = Returns(v)
<1>1. /\ \A m : Entering(w, m) <=> Entering(v, m)
      /\ \A m : Leaving(w, m) <=> Leaving(v, m)
      /\ \A m, j : Holds(w, m, j) <=> Holds(v, m, j)
      /\ \A j : Held(w, j) <=> Held(v, j)
      /\ \A f : Wears(w, f) <=> Wears(v, f)
  BY DEF Entering, Leaving, Holds, Held, Wears
<1>2. n \in DOMAIN v.cbs /\ n \notin Named(v.frames) /\ Goes(v, n) /\ 0 \notin DOMAIN v.cbs
  BY Indices DEF Good, SoundBut, Waits, Scheduled, Goes
<1>3. \A m : Goes(w, m) <=> Goes(v, m) /\ m # n
  BY <1>2 DEF Goes
<1>4. ~Held(v, n)
  BY <1>2 DEF Held, Good, HeldBack
<1>5. Remembers(w)
  BY <1>1 DEF Good, Remembers
<1>6. Scheduled(w, n, mode)
  BY <1>1, <1>2, <1>3 DEF Good, Scheduled
<1>7. HeldBack(w, mode)
  BY <1>1, <1>3 DEF Good, HeldBack, Unplaced
<1>8. Pending(w, mode)
  BY DEF Good, Pending
<1>9. Dressed(w, mode)
  BY <1>1 DEF Good, Dressed
<1>10. Present(w, S, 0, n, mode)
  BY <1>1 DEF Good, Present
<1>11. Good(w, n, S, 0)
  <2>1. SoundBut(w, n) /\ 0 \in S \cup {0}
    BY SoundForAll
  <2> QED BY <1>5, <1>6, <1>7, <1>8, <1>9, <1>10, <2>1 DEF Good
<1>12. Returns(w) = Returns(v)
  BY <1>1 DEF Returns, Again
<1> QED BY <1>1, <1>2, <1>4, <1>11, <1>12

LEMMA EndRests ==
    ASSUME MoveInv, RestInv, NEW n \in run.ends, Moving!End(n)
    PROVE  Rest(run', shown', want')
<1> DEFINE es == run.ends \ {n}
           a == [run EXCEPT !.ends = es]
           S == Stays(shown)
<1>1. run' = Moving!Cb(a, n) /\ shown' = shown /\ want' = want
  BY DEF Moving!End
<1>2. /\ Sound(run) /\ run \in Runs /\ Good(run, 0, S, 0) /\ Wanted(run, shown, want, mode)
      /\ \A i \in DOMAIN run.frames : run.frames[i] \in DOMAIN run.cbs
      /\ shown \in {0} \cup DOMAIN run.el
  BY DEF MoveInv, Sound, SoundBut, Waits, RestInv, Rest
<1>3. es \in SUBSET Nat /\ es \subseteq run.ends
  BY <1>2 DEF Runs
<1> HIDE DEF S
<1>4. /\ a \in Runs /\ a.el = run.el /\ a.cbs = run.cbs /\ a._pending = run._pending
      /\ a.frames = run.frames /\ a.ends = run.ends \ {n}
      /\ a._leaving = run._leaving /\ a.queued = run.queued
  BY <1>2, <1>3 DEF Runs
<1> HIDE DEF a, es
<1>5. Sound(a)
  BY <1>2, <1>4, Less DEF Kept
<1>6. Good(a, n, S, 0) /\ ~Held(a, n) /\ n \in DOMAIN a.cbs /\ n \notin Named(a.frames) /\ Returns(a) = Returns(run)
  BY <1>2, <1>4, <1>5, EndGood
<1>7. Wanted(a, shown, want, mode)
  BY <1>2, <1>4, <1>6 DEF Wanted
<1>8. Rest(Moving!Cb(a, n), shown, want)
  BY <1>2, <1>4, <1>5, <1>6, <1>7, CbRests DEF S
<1> QED BY <1>1, <1>8

LEMMA FrameRests ==
    ASSUME MoveInv, RestInv, Moving!Frame
    PROVE  Rest(run', shown', want')
<1> DEFINE n == Head(run.frames)
           fs == Tail(run.frames)
           a == [run EXCEPT !.frames = fs]
           v == Moving!Drop(a, n, {"start"})
           e == v.cbs[n].el
           cs == v.el[e].classes \cup {<<v.cbs[n].kind, "to">>}
           w == [v EXCEPT !.el[e] = [v.el[e] EXCEPT !.classes = cs]]
           es == w.ends \cup {n}
           d == [w EXCEPT !.ends = es]
           S == Stays(shown)
<1>0. IF v.cbs[n].cancelled THEN run' = v ELSE run' = Moving!Cb(w, n) \/ run' = d
  <2>1. \E x \in {v} :
           IF x.cbs[n].cancelled THEN run' = x
           ELSE \E y \in {[x EXCEPT !.el[x.cbs[n].el].classes = @ \cup {<<x.cbs[n].kind, "to">>}]} :
                   run' = Moving!Cb(y, n) \/ run' = [y EXCEPT !.ends = @ \cup {n}]
    BY DEF Moving!Frame
  <2> HIDE DEF v, n
  <2> QED BY <2>1
<1> HIDE DEF w, d
<1>1. run.frames # <<>> /\ shown' = shown /\ want' = want
  BY DEF Moving!Frame
<1>2. /\ Sound(run) /\ run \in Runs /\ Links(run) /\ run.frames \in Seq(Nat)
      /\ \A i \in DOMAIN run.frames : run.frames[i] \in DOMAIN run.cbs
      /\ Good(run, 0, S, 0) /\ Wanted(run, shown, want, mode) /\ shown \in {0} \cup DOMAIN run.el
      /\ Once(run.frames)
  BY DEF MoveInv, Sound, SoundBut, Runs, Waits, RestInv, Rest, Good, Scheduled
<1>3. /\ Named(fs) = Named(run.frames) \ {n} /\ n \in Named(run.frames) /\ fs \in Seq(Nat)
  <2>1. run.frames \in Seq(Nat) /\ run.frames # <<>> /\ Once(run.frames)
    BY <1>1, <1>2
  <2> QED BY <2>1, FrameTaken
<1>4. n = Head(run.frames) /\ fs = Tail(run.frames)
  OBVIOUS
<1> HIDE DEF n, fs, S
<1>5. n \in DOMAIN run.cbs /\ \A i \in DOMAIN fs : fs[i] \in DOMAIN run.cbs
  BY <1>2, <1>3 DEF Named
<1>6. /\ a \in Runs /\ a.el = run.el /\ a.cbs = run.cbs /\ a._pending = run._pending
      /\ a.frames = fs /\ a.ends = run.ends /\ a._leaving = run._leaving /\ a.queued = run.queued
  BY <1>2, <1>3 DEF Runs
<1> HIDE DEF a
<1>7. /\ Kept(a, v) /\ v._pending = a._pending /\ v.frames = a.frames /\ v.ends = a.ends
      /\ v._leaving = a._leaving /\ v.queued = a.queued
      /\ Without(a, v, n, {"start"})
  BY <1>2, <1>5, <1>6, DropKeeps DEF Links
<1> HIDE DEF v
<1>8. Kept(run, v) /\ v._pending = run._pending /\ v.frames = fs /\ v.ends = run.ends
      /\ v._leaving = run._leaving /\ v.queued = run.queued
  BY <1>6, <1>7 DEF Kept
<1>9. Sound(v)
  BY <1>2, <1>5, <1>8, Less
<1>10. \A f \in DOMAIN run.el : v.el[f].classes =
          IF f = run.cbs[n].el THEN run.el[f].classes \ ({run.cbs[n].kind} \X {"start"}) ELSE run.el[f].classes
  <2> DEFINE ds == {run.cbs[n].kind} \X {"start"}
  <2>1. Reclassed(run, v, run.cbs[n].el, run.el[run.cbs[n].el].classes \ ds)
    <3>1. Without(a, v, n, {"start"}) /\ a.el = run.el /\ a.cbs = run.cbs
      BY <1>6, <1>7
    <3> QED BY <3>1 DEF Without, Reclassed
  <2> HIDE DEF ds
  <2>2. \A f \in DOMAIN run.el : f = run.cbs[n].el => run.el[f].classes \ ds = run.el[run.cbs[n].el].classes \ ds
    OBVIOUS
  <2>3. \A f \in DOMAIN run.el : v.el[f].classes =
           IF f = run.cbs[n].el THEN run.el[run.cbs[n].el].classes \ ds ELSE run.el[f].classes
    BY <2>1 DEF Reclassed
  <2>4. \A f \in DOMAIN run.el : v.el[f].classes =
           IF f = run.cbs[n].el THEN run.el[f].classes \ ds ELSE run.el[f].classes
    BY <2>2, <2>3
  <2> QED BY <2>4 DEF ds
<1>11. Worn(run, v, n, FALSE)
  <2>1. ASSUME NEW f \in DOMAIN run.el, NEW c, NEW p, <<c, p>> \in v.el[f].classes
        PROVE  <<c, p>> \in run.el[f].classes /\ ~(f = run.cbs[n].el /\ c = run.cbs[n].kind /\ p = "start")
    <3>1. CASE f = run.cbs[n].el
      <4>1. v.el[f].classes = run.el[f].classes \ ({run.cbs[n].kind} \X {"start"})
        BY <1>10, <3>1
      <4>2. <<c, p>> \in run.el[f].classes /\ <<c, p>> \notin {run.cbs[n].kind} \X {"start"}
        BY <2>1, <4>1
      <4> QED BY <4>2
    <3>2. CASE f # run.cbs[n].el
      <4>1. v.el[f].classes = run.el[f].classes
        BY <1>10, <3>2
      <4> QED BY <2>1, <3>2, <4>1
    <3> QED BY <3>1, <3>2
  <2> QED BY <2>1 DEF Worn
<1>12. CASE v.cbs[n].cancelled
  <2>1. run' = v
    BY <1>0, <1>12
  <2>2. Good(v, n, S, 0) /\ n \in DOMAIN v.cbs /\ Returns(v) = Returns(run)
    <3>1. Taken(run, v, n, FALSE)
      BY <1>1, <1>4, <1>8, <1>11 DEF Taken
    <3>2. FALSE \in BOOLEAN /\ Good(run, 0, S, 0) /\ Sound(v)
      BY <1>2, <1>9
    <3> QED BY <3>1, <3>2, FrameGood
  <2>3. v.cbs[n].called
    <3>1. n # 0
      BY <1>2, <1>5, Indices
    <3> QED BY <1>9, <1>12, <2>2, <3>1 DEF Sound, SoundBut
  <2>4. Good(v, 0, S, 0)
    BY <2>2, <2>3, NotToBeCalled
  <2>5. Wanted(v, shown, want, mode)
    BY <1>2, <1>8, <2>2 DEF Wanted, Kept
  <2> QED BY <1>1, <2>1, <2>4, <2>5 DEF Rest, S
<1>13. CASE ~v.cbs[n].cancelled
  <2>1. /\ n \in DOMAIN v.cbs /\ v \in Runs /\ e \in DOMAIN v.el /\ v.el[e] \in Elements
        /\ v.cbs[n] \in Callbacks
    BY <1>5, <1>8, <1>9, Indices DEF Kept, Sound, SoundBut, Links
  <2>2. cs \in SUBSET Moving!Classes
    BY <2>1 DEF Moving!Classes, Elements, Callbacks, Kinds
  <2>3. IsElement(v, e, [v.el[e] EXCEPT !.classes = cs], w)
    BY DEF IsElement, w
  <2>4. /\ Kept(v, w) /\ w._pending = v._pending /\ w.frames = v.frames /\ w.ends = v.ends
        /\ w._leaving = v._leaving /\ w.queued = v.queued /\ Reclassed(v, w, e, cs)
    <3> HIDE DEF cs, e
    <3> QED BY <2>1, <2>2, <2>3, ClassesChanged
  <2>5. Kept(run, w) /\ w._pending = run._pending /\ w.frames = fs /\ w.ends = run.ends
        /\ w._leaving = run._leaving /\ w.queued = run.queued
    BY <1>8, <2>4 DEF Kept
  <2>6. Sound(w)
    BY <1>2, <1>5, <2>5, Less
  <2>7. Worn(run, w, n, TRUE)
    <3>1. v.cbs[n] = run.cbs[n] /\ DOMAIN v.el = DOMAIN run.el
      BY <1>8 DEF Kept
    <3>2. \A f \in DOMAIN run.el : w.el[f].classes =
             IF f = run.cbs[n].el THEN v.el[f].classes \cup {<<run.cbs[n].kind, "to">>} ELSE v.el[f].classes
      BY <2>4, <3>1 DEF Reclassed
    <3> HIDE DEF cs, e
    <3>3. ASSUME NEW f \in DOMAIN run.el, NEW c, NEW p, <<c, p>> \in w.el[f].classes
          PROVE  <<c, p>> \in v.el[f].classes \/ (f = run.cbs[n].el /\ c = run.cbs[n].kind /\ p = "to")
      <4>1. CASE f = run.cbs[n].el
        <5>1. w.el[f].classes = v.el[f].classes \cup {<<run.cbs[n].kind, "to">>}
          BY <3>2, <4>1
        <5>2. <<c, p>> \in v.el[f].classes \/ <<c, p>> = <<run.cbs[n].kind, "to">>
          BY <3>3, <5>1
        <5> QED BY <4>1, <5>2
      <4>2. CASE f # run.cbs[n].el
        <5>1. w.el[f].classes = v.el[f].classes
          BY <3>2, <4>2
        <5> QED BY <3>3, <5>1
      <4> QED BY <4>1, <4>2
    <3> QED BY <1>11, <3>3 DEF Worn
  <2>8. ~run.cbs[n].cancelled
    BY <1>8, <1>13 DEF Kept
  <2>9. /\ Good(w, n, S, 0) /\ Present(w, S, 0, 0, mode) /\ ~Goes(w, n) /\ ~Held(w, n)
        /\ n \in DOMAIN w.cbs /\ Returns(w) = Returns(run)
    <3>1. Taken(run, w, n, TRUE)
      BY <1>1, <1>4, <2>5, <2>7, <2>8 DEF Taken
    <3>2. TRUE \in BOOLEAN /\ Good(run, 0, S, 0) /\ Sound(w)
      BY <1>2, <2>6
    <3> QED BY <3>1, <3>2, FrameGood
  <2>10. Wanted(w, shown, want, mode) /\ shown \in {0} \cup DOMAIN w.el
    BY <1>2, <2>5, <2>9 DEF Wanted, Kept
  <2>11. CASE run' = Moving!Cb(w, n)
    <3>1. n \notin Named(w.frames)
      BY <1>3, <2>5
    <3>2. Rest(Moving!Cb(w, n), shown, want)
      BY <2>6, <2>9, <2>10, <3>1, CbRests DEF S
    <3> QED BY <1>1, <2>11, <3>2
  <2>12. CASE run' = d
    <3>1. es \in SUBSET Nat /\ es \subseteq DOMAIN w.cbs
      BY <2>6, <2>9, Indices DEF Sound, SoundBut, Runs, Waits
    <3>2. es = w.ends \cup {n}
      OBVIOUS
    <3> HIDE DEF es
    <3>3. /\ d \in Runs /\ d.el = w.el /\ d.cbs = w.cbs /\ d._pending = w._pending
          /\ d.frames = w.frames /\ d.ends = es /\ d._leaving = w._leaving /\ d.queued = w.queued
      <4>1. w \in Runs
        BY <2>6 DEF Sound, SoundBut
      <4> QED BY <3>1, <3>2, <4>1 DEF Runs, d, es
    <3>4. Sound(d)
      <4>1. Kept(w, d) /\ Waits(d)
        BY <2>6, <3>1, <3>3 DEF Kept, Waits, Sound, SoundBut
      <4> QED BY <2>6, <4>1, KeptIsSound DEF Sound
    <3>5. Good(d, 0, S, 0)
      BY <2>9, <3>2, <3>3, <3>4, WaitsForEnd
    <3>6. Returns(d) = Returns(w)
      BY <3>3 DEF Returns, Again, Leaving
    <3>7. Wanted(d, shown, want, mode)
      BY <2>10, <3>3, <3>6 DEF Wanted
    <3>8. Rest(d, shown, want)
      BY <3>5, <3>7 DEF Rest, S
    <3> QED BY <1>1, <2>12, <3>8
  <2>13. run' = Moving!Cb(w, n) \/ run' = d
    BY <1>0, <1>13
  <2> QED BY <2>11, <2>12, <2>13
<1> QED BY <1>12, <1>13

-----------------------------------------------------------------------------
LEMMA RestInit == Keys # {} /\ None \notin Keys /\ Moving!Init => RestInv
<1> SUFFICES ASSUME Keys # {}, None \notin Keys, Moving!Init
             PROVE  RestInv
  OBVIOUS
<1> DEFINE k == IF want = None THEN CHOOSE j \in Keys : TRUE ELSE want
           x == [key |-> k, on |-> want # None, classes |-> {}, _enterCb |-> 0, _leaveCb |-> 0]
           l == IF want = None /\ mode # "show" THEN <<>> ELSE <<x>>
           S == Stays(shown)
<1>1. Sound(run)
  BY MoveInit DEF MoveInv
<1>2. /\ run = [el |-> l, cbs |-> <<>>, _pending |-> [j \in Keys |-> 0], frames |-> <<>>, ends |-> {},
               _leaving |-> FALSE, queued |-> FALSE]
      /\ shown = IF want = None THEN 0 ELSE 1
  BY DEF Moving!Init, k
<1>3. want # None => k = want
  OBVIOUS
<1> HIDE DEF k
<1>4. x.key = k /\ (x.on <=> want # None) /\ x.classes = {} /\ x._enterCb = 0 /\ x._leaveCb = 0
  OBVIOUS
<1> HIDE DEF x
<1>5. /\ DOMAIN l \in {{}, {1}} /\ \A e \in DOMAIN l : e = 1 /\ l[e] = x
      /\ want # None \/ mode = "show" => DOMAIN l = {1}
  OBVIOUS
<1> HIDE DEF l
<1>6. /\ run.el = l /\ DOMAIN run.cbs = {} /\ run.ends = {} /\ run.frames = <<>> /\ DOMAIN run.frames = {}
      /\ ~run._leaving /\ ~run.queued /\ \A j \in Keys : run._pending[j] = 0
  BY <1>2
<1>7. S = (IF shown = 0 THEN {} ELSE {shown}) /\ Named(run.frames) = {}
  BY <1>6 DEF Stays, Named
<1> HIDE DEF S
<1>8. /\ want = None => shown = 0 /\ S = {}
      /\ want # None => shown = 1 /\ S = {1} /\ DOMAIN run.el = {1} /\ run.el[1].key = want
      /\ \A e \in DOMAIN run.el : /\ e = 1 /\ (run.el[e].on <=> want # None) /\ run.el[e].classes = {}
                                  /\ run.el[e]._enterCb = 0 /\ run.el[e]._leaveCb = 0
  BY <1>2, <1>3, <1>4, <1>5, <1>6, <1>7
<1>9. Good(run, 0, S, 0)
  <2>1. Remembers(run)
    BY <1>6, <1>8 DEF Remembers
  <2>2. Scheduled(run, 0, mode)
    BY <1>6, <1>7 DEF Scheduled, Once
  <2>3. HeldBack(run, mode) /\ Pending(run, mode)
    BY <1>6 DEF HeldBack, Pending
  <2>4. Dressed(run, mode)
    BY <1>8 DEF Dressed, Wears
  <2>5. Present(run, S, 0, 0, mode)
    BY <1>8 DEF Present
  <2> QED BY <1>1, <2>1, <2>2, <2>3, <2>4, <2>5 DEF Good, Sound
<1>10. Returns(run) = {}
  BY <1>6 DEF Returns
<1>11. mode = "show" => DOMAIN run.el = {1} /\ want \in {None, run.el[1].key}
  BY <1>5, <1>6, <1>8
<1>12. Wanted(run, shown, want, mode)
  <2>1. IF shown = 0 THEN run._leaving \/ want = None ELSE run.el[shown].key = want
    BY <1>8
  <2> QED BY <1>6, <1>10, <1>11, <2>1 DEF Wanted
<1> QED BY <1>9, <1>12 DEF RestInv, Rest, S

LEMMA RestStep ==
    ASSUME MoveInv, RestInv, [Moving!Next]_Moving!vars
    PROVE  RestInv'
<1>1. Rest(run', shown', want')
  <2>1. CASE UNCHANGED Moving!vars
    <3>1. run' = run /\ shown' = shown /\ want' = want
      BY <2>1 DEF Moving!vars
    <3> QED BY <3>1 DEF RestInv
  <2>2. ASSUME NEW c \in Keys \cup {None}, Moving!Ask(c)
        PROVE  Rest(run', shown', want')
    BY <2>2, AskRests
  <2>3. CASE Moving!Show
    BY <2>3, ShowRests
  <2>4. CASE Moving!RenderSame
    BY <2>4, RenderSameRests
  <2>5. CASE Moving!RenderNew
    BY <2>5, RenderNewRests
  <2>6. CASE Moving!RenderNone
    BY <2>6, RenderNoneRests
  <2>7. CASE Moving!RenderOutIn
    BY <2>7, RenderOutInRests
  <2>8. CASE Moving!RenderReplaced
    BY <2>8, RenderReplacedRests
  <2>9. CASE Moving!Frame
    BY <2>9, FrameRests
  <2>10. ASSUME NEW n \in run.ends, Moving!End(n)
         PROVE  Rest(run', shown', want')
    BY <2>10, EndRests
  <2> QED BY <2>1, <2>2, <2>3, <2>4, <2>5, <2>6, <2>7, <2>8, <2>9, <2>10, Zenon DEF Moving!Next, Moving!Render
<1>2. mode' = mode
  BY DEF Moving!Next, Moving!vars, Moving!Ask, Moving!Render, Moving!Show, Moving!RenderSame, Moving!RenderNew, Moving!RenderNone, Moving!RenderOutIn, Moving!RenderReplaced, Moving!Frame, Moving!End
<1> QED BY <1>1, <1>2 DEF RestInv, Rest, Good

LEMMA NothingUnderWay ==
    ASSUME MoveInv, RestInv, ~run.queued, run.frames = <<>>, run.ends = {}
    PROVE  /\ Returns(run) = {}
           /\ \A e \in DOMAIN run.el : run.el[e]._enterCb = 0 /\ run.el[e]._leaveCb = 0
<1>1. /\ Sound(run) /\ Links(run) /\ Remembers(run) /\ Scheduled(run, 0, mode) /\ 0 \notin DOMAIN run.cbs
  BY Indices DEF MoveInv, Sound, SoundBut, RestInv, Rest, Good
<1>2. \A n : ~Goes(run, n)
  <2>1. Named(run.frames) = {}
    BY DEF Named
  <2> QED BY <2>1 DEF Goes
<1>3. \A n \in DOMAIN run.cbs : ~Entering(run, n)
  BY <1>1, <1>2 DEF Scheduled
<1>4. \A n : ~Held(run, n)
  BY <1>3 DEF Held, Holds
<1>5. \A n \in DOMAIN run.cbs : ~Leaving(run, n)
  BY <1>1, <1>2, <1>4 DEF Scheduled
<1>6. Returns(run) = {}
  BY <1>5 DEF Returns, Again
<1>7. ASSUME NEW e \in DOMAIN run.el
      PROVE  run.el[e]._enterCb = 0 /\ run.el[e]._leaveCb = 0
  <2>1. run.el[e]._enterCb # 0 => /\ run.el[e]._enterCb \in DOMAIN run.cbs
                                  /\ Entering(run, run.el[e]._enterCb)
    BY <1>1 DEF Links, Remembers, Entering
  <2>2. run.el[e]._leaveCb # 0 => /\ run.el[e]._leaveCb \in DOMAIN run.cbs
                                  /\ Leaving(run, run.el[e]._leaveCb)
    BY <1>1 DEF Links, Remembers, Leaving
  <2> QED BY <1>3, <1>5, <2>1, <2>2
<1> QED BY <1>6, <1>7

LEMMA AtRest ==
    ASSUME None \notin Keys, MoveInv, RestInv
    PROVE  Moving!RestShowsWanted /\ Moving!OneOfAKey
<1>1. /\ Sound(run) /\ run \in Runs /\ Dressed(run, mode) /\ Present(run, Stays(shown), 0, 0, mode)
      /\ Wanted(run, shown, want, mode) /\ shown \in {0} \cup DOMAIN run.el
      /\ 0 \notin DOMAIN run.el
  BY Indices DEF MoveInv, Sound, SoundBut, RestInv, Rest, Good
<1>2. Moving!OneOfAKey
  BY <1>1 DEF Present, Moving!OneOfAKey
<1>3. ASSUME ~run.queued, run.frames = <<>>, run.ends = {}
      PROVE  /\ want # None <=> shown # 0
             /\ \A e \in DOMAIN run.el : /\ run.el[e].on <=> e = shown
                                         /\ run.el[e].on => run.el[e].classes = {} /\ run.el[e].key = want
  <2>1. /\ Returns(run) = {}
        /\ \A e \in DOMAIN run.el : run.el[e]._enterCb = 0 /\ run.el[e]._leaveCb = 0
    BY <1>3, NothingUnderWay
  <2>2. ~run._leaving
    BY <1>1, <2>1 DEF Wanted
  <2>3. /\ shown = 0 => want = None
        /\ shown # 0 => run.el[shown].key = want
    BY <1>1, <1>3, <2>2 DEF Wanted
  <2>4. \A e \in DOMAIN run.el : run.el[e].key \in Keys /\ run.el[e].classes \subseteq Moving!Classes
    BY <1>1, Indices DEF Elements
  <2>5. want # None <=> shown # 0
    BY <1>1, <2>3, <2>4
  <2>6. \A e \in DOMAIN run.el : run.el[e].on <=> e = shown
    <3>1. \A e : e \in Stays(shown) <=> e = shown /\ shown # 0
      BY DEF Stays
    <3> QED BY <1>1, <2>1, <3>1 DEF Present
  <2>7. ASSUME NEW e \in DOMAIN run.el, run.el[e].on
        PROVE  run.el[e].classes = {}
    <3>1. Wears(run, e)
      BY <1>1, <2>7 DEF Dressed
    <3>2. \A p \in Parts : <<"enter", p>> \notin run.el[e].classes /\ <<"leave", p>> \notin run.el[e].classes
      BY <2>1, <3>1 DEF Wears
    <3>3. \A c \in Moving!Classes : c \notin run.el[e].classes
      BY <3>2 DEF Moving!Classes, Parts
    <3> QED BY <2>4, <3>3
  <2>8. \A e \in DOMAIN run.el : run.el[e].on => run.el[e].key = want
    <3>1. 0 \notin DOMAIN run.el
      BY <1>1
    <3> QED BY <2>3, <2>6, <3>1
  <2> QED BY <2>5, <2>6, <2>7, <2>8
<1>4. Moving!RestShowsWanted
  BY <1>3 DEF Moving!RestShowsWanted
<1> QED BY <1>2, <1>4

LEMMA MovingRests == Moving!Spec => [](Moving!RestShowsWanted /\ Moving!OneOfAKey)
<1>1. Moving!Init => MoveInv /\ RestInv
  BY MoveInit, RestInit, KeysAssumption
<1>2. MoveInv /\ RestInv /\ [Moving!Next]_Moving!vars => MoveInv' /\ RestInv'
  BY MoveStep, RestStep
<1>3. MoveInv /\ RestInv => Moving!RestShowsWanted /\ Moving!OneOfAKey
  BY AtRest, KeysAssumption
<1> QED BY <1>1, <1>2, <1>3, PTL DEF Moving!Spec
=============================================================================
