---------------------------- MODULE VectorFacts -----------------------------
(***************************************************************************)
(* Facts about sequences used as vectors: elements are appended at the end *)
(* and erased by index.  No lemma here mentions the state of a component.  *)
(***************************************************************************)
EXTENDS SequencesExt, SequenceTheorems, WellFoundedInduction, TLAPS

\* Erasing one position: everything above it moves down by one.
LEMMA RemoveAtFacts ==
  ASSUME NEW S, NEW s \in Seq(S), NEW i \in 1 .. Len(s)
  PROVE  /\ RemoveAt(s, i) \in Seq(S)
         /\ Len(RemoveAt(s, i)) = Len(s) - 1
         /\ \A j \in 1 .. (Len(s) - 1) :
              RemoveAt(s, i)[j] = IF j < i THEN s[j] ELSE s[j + 1]
<1> DEFINE a == SubSeq(s, 1, i - 1)
           b == SubSeq(s, i + 1, Len(s))
<1>1. a \in Seq(S) /\ Len(a) = i - 1 /\ \A j \in 1 .. (i - 1) : a[j] = s[j]
  <2>1. \A j \in 1 .. (i - 1) : s[j] \in S
    BY ElementOfSeq
  <2> QED BY <2>1, SubSeqProperties
<1>2. /\ b \in Seq(S)
      /\ Len(b) = Len(s) - i
      /\ \A j \in 1 .. (Len(s) - i) : b[j] = s[i + j]
  <2>1. \A j \in (i + 1) .. Len(s) : s[j] \in S
    BY ElementOfSeq
  <2> QED BY <2>1, SubSeqProperties
<1>3. RemoveAt(s, i) = a \o b
  BY DEF RemoveAt
<1> HIDE DEF a, b
<1>4. /\ a \o b \in Seq(S)
      /\ Len(a \o b) = Len(s) - 1
      /\ \A j \in 1 .. (Len(s) - 1) :
           (a \o b)[j] = IF j <= i - 1 THEN a[j] ELSE b[j - (i - 1)]
  <2>1. /\ a \o b \in Seq(S)
        /\ Len(a \o b) = Len(a) + Len(b)
        /\ \A j \in 1 .. (Len(a) + Len(b)) :
             (a \o b)[j] = IF j <= Len(a) THEN a[j] ELSE b[j - Len(a)]
    BY <1>1, <1>2, ConcatProperties
  <2>2. Len(a) + Len(b) = Len(s) - 1 /\ Len(a) = i - 1
    BY <1>1, <1>2
  <2> QED BY <2>1, <2>2
<1>5. ASSUME NEW j \in 1 .. (Len(s) - 1)
      PROVE  (a \o b)[j] = IF j < i THEN s[j] ELSE s[j + 1]
  BY <1>1, <1>2, <1>4
<1> QED BY <1>3, <1>4, <1>5

\* Erasing a position keeps a vector free of duplicates.
LEMMA RemoveAtInjective ==
  ASSUME NEW S, NEW s \in Seq(S), NEW i \in 1 .. Len(s), IsInjective(s)
  PROVE  IsInjective(RemoveAt(s, i))
<1> DEFINE r == RemoveAt(s, i)
<1>1. /\ r \in Seq(S) /\ Len(r) = Len(s) - 1
      /\ \A j \in 1 .. (Len(s) - 1) : r[j] = IF j < i THEN s[j] ELSE s[j + 1]
  BY RemoveAtFacts
<1> HIDE DEF r
<1>2. SUFFICES ASSUME NEW a \in 1 .. (Len(s) - 1), NEW b \in 1 .. (Len(s) - 1),
                      r[a] = r[b]
               PROVE  a = b
  BY <1>1 DEF IsInjective, r
<1>3. \A j, k \in 1 .. Len(s) : s[j] = s[k] => j = k
  BY DEF IsInjective
<1> QED BY <1>1, <1>2, <1>3, SMTT(30)

\* Appending a new element keeps a vector free of duplicates.
LEMMA InjectiveAppend ==
  ASSUME NEW S, NEW s \in Seq(S), NEW e \in S, IsInjective(s),
         e \notin ToSet(s)
  PROVE  IsInjective(Append(s, e))
<1> DEFINE t == Append(s, e)
<1>1. /\ t \in Seq(S) /\ Len(t) = Len(s) + 1 /\ t[Len(s) + 1] = e
      /\ \A i \in 1 .. Len(s) : t[i] = s[i]
  BY AppendProperties
<1> HIDE DEF t
<1>2. /\ \A j, k \in 1 .. Len(s) : s[j] = s[k] => j = k
      /\ \A j \in 1 .. Len(s) : s[j] # e
  BY DEF IsInjective, ToSet
<1>3. \A j, k \in 1 .. (Len(s) + 1) : t[j] = t[k] => j = k
  BY <1>1, <1>2
<1> QED BY <1>1, <1>3 DEF IsInjective, t

\* The elements of a vector after push_back.
LEMMA ToSetAppend ==
  ASSUME NEW S, NEW s \in Seq(S), NEW e \in S
  PROVE  ToSet(Append(s, e)) = ToSet(s) \cup {e}
<1> DEFINE t == Append(s, e)
<1>1. /\ t \in Seq(S) /\ Len(t) = Len(s) + 1 /\ t[Len(s) + 1] = e
      /\ \A i \in 1 .. Len(s) : t[i] = s[i]
  BY AppendProperties
<1> HIDE DEF t
<1>2. DOMAIN t = 1 .. (Len(s) + 1) /\ DOMAIN s = 1 .. Len(s)
  BY <1>1
<1> QED BY <1>1, <1>2 DEF ToSet, t

\* The elements of two vectors put one after the other.
LEMMA ToSetConcat ==
  ASSUME NEW S, NEW s \in Seq(S), NEW t \in Seq(S)
  PROVE  ToSet(s \o t) = ToSet(s) \cup ToSet(t)
<1>1. /\ s \o t \in Seq(S) /\ Len(s \o t) = Len(s) + Len(t)
      /\ \A i \in 1 .. (Len(s) + Len(t)) :
           (s \o t)[i] = IF i <= Len(s) THEN s[i] ELSE t[i - Len(s)]
  BY ConcatProperties
<1>2. ASSUME NEW i \in 1 .. (Len(s) + Len(t))
      PROVE  (s \o t)[i] \in ToSet(s) \cup ToSet(t)
  BY <1>1 DEF ToSet
<1>3. ASSUME NEW i \in 1 .. Len(s)
      PROVE  s[i] \in ToSet(s \o t)
  <2>1. i \in 1 .. (Len(s) + Len(t)) /\ (s \o t)[i] = s[i]
    BY <1>1
  <2> QED BY <1>1, <2>1 DEF ToSet
<1>4. ASSUME NEW i \in 1 .. Len(t)
      PROVE  t[i] \in ToSet(s \o t)
  <2>1. i + Len(s) \in 1 .. (Len(s) + Len(t)) /\ (s \o t)[i + Len(s)] = t[i]
    BY <1>1
  <2>2. i + Len(s) \in DOMAIN (s \o t)
    BY <1>1, <2>1
  <2> QED BY <2>1, <2>2 DEF ToSet
<1>5. ToSet(s \o t) \subseteq ToSet(s) \cup ToSet(t)
  BY <1>1, <1>2 DEF ToSet
<1>6. ToSet(s) \subseteq ToSet(s \o t) /\ ToSet(t) \subseteq ToSet(s \o t)
  <2>1. DOMAIN s = 1 .. Len(s) /\ DOMAIN t = 1 .. Len(t)
    OBVIOUS
  <2>2. ASSUME NEW x \in ToSet(s)
        PROVE  x \in ToSet(s \o t)
    <3>1. PICK i \in 1 .. Len(s) : x = s[i]
      BY <2>1 DEF ToSet
    <3> QED BY <3>1, <1>3
  <2>3. ASSUME NEW x \in ToSet(t)
        PROVE  x \in ToSet(s \o t)
    <3>1. PICK i \in 1 .. Len(t) : x = t[i]
      BY <2>1 DEF ToSet
    <3> QED BY <3>1, <1>4
  <2> QED BY <2>2, <2>3
<1> QED BY <1>5, <1>6

\* A nonempty sequence of bounded naturals has a greatest element: what
\* sorting in descending order puts first.
LEMMA GreatestElement ==
  ASSUME NEW N \in Nat, NEW q \in Seq(Nat), q # <<>>,
         \A j \in DOMAIN q : q[j] <= N
  PROVE  \E k \in DOMAIN q : \A j \in DOMAIN q : q[j] <= q[k]
<1> DEFINE R == OpToRel(<, Nat)
           T == {N - q[j] : j \in DOMAIN q}
<1>1. \A j \in DOMAIN q : q[j] \in 0 .. N
  OBVIOUS
<1>2. T \subseteq Nat
  BY <1>1
<1>3. T # {}
  <2>1. 1 \in DOMAIN q
    OBVIOUS
  <2> QED BY <2>1
<1>4. PICK x \in T : \A y \in T : <<y, x>> \notin R
  <2>1. IsWellFoundedOn(R, Nat)
    BY NatLessThanWellFounded
  <2> QED BY <1>2, <1>3, <2>1, WFMin
<1>5. PICK k \in DOMAIN q : x = N - q[k]
  OBVIOUS
<1>6. ASSUME NEW j \in DOMAIN q
      PROVE  q[j] <= q[k]
  <2>1. ~(N - q[j] < x)
    BY <1>2, <1>4 DEF OpToRel
  <2> QED BY <1>1, <1>5, <2>1
<1> QED BY <1>6

\* Erasing in the front part of a concatenation.
LEMMA RemoveAtConcat ==
  ASSUME NEW S, NEW s \in Seq(S), NEW t \in Seq(S), NEW i \in 1 .. Len(s)
  PROVE  RemoveAt(s, i) \o t = RemoveAt(s \o t, i)
<1> DEFINE r == RemoveAt(s, i)
           c == s \o t
           rc == RemoveAt(c, i)
<1>1. /\ r \in Seq(S) /\ Len(r) = Len(s) - 1
      /\ \A j \in 1 .. (Len(s) - 1) : r[j] = IF j < i THEN s[j] ELSE s[j + 1]
  BY RemoveAtFacts
<1>2. /\ c \in Seq(S) /\ Len(c) = Len(s) + Len(t)
      /\ \A j \in 1 .. (Len(s) + Len(t)) :
           c[j] = IF j <= Len(s) THEN s[j] ELSE t[j - Len(s)]
  BY ConcatProperties
<1>3. i \in 1 .. Len(c)
  BY <1>2
<1>4. /\ rc \in Seq(S) /\ Len(rc) = Len(c) - 1
      /\ \A j \in 1 .. (Len(c) - 1) : rc[j] = IF j < i THEN c[j] ELSE c[j + 1]
  BY <1>2, <1>3, RemoveAtFacts
<1>5. /\ r \o t \in Seq(S) /\ Len(r \o t) = Len(r) + Len(t)
      /\ \A j \in 1 .. (Len(r) + Len(t)) :
           (r \o t)[j] = IF j <= Len(r) THEN r[j] ELSE t[j - Len(r)]
  BY <1>1, ConcatProperties
<1> HIDE DEF r, c, rc
<1>6. ASSUME NEW j \in 1 .. Len(rc)
      PROVE  (r \o t)[j] = rc[j]
  <2>0. /\ Len(s) \in Nat /\ Len(t) \in Nat /\ i <= Len(s) /\ i \in Nat
        /\ j \in Nat /\ 1 <= j /\ j <= Len(s) + Len(t) - 1
        /\ Len(r) = Len(s) - 1
    BY <1>1, <1>2, <1>4
  <2>1. CASE j < i
    <3>1. rc[j] = c[j] /\ c[j] = s[j]
      BY <1>2, <1>4, <2>0, <2>1, SMTT(30)
    <3>2. (r \o t)[j] = r[j] /\ r[j] = s[j]
      BY <1>1, <1>5, <2>0, <2>1
    <3> QED BY <3>1, <3>2
  <2>2. CASE i <= j /\ j <= Len(s) - 1
    <3>1. rc[j] = c[j + 1] /\ c[j + 1] = s[j + 1]
      BY <1>2, <1>4, <2>0, <2>2
    <3>2. (r \o t)[j] = r[j] /\ r[j] = s[j + 1]
      BY <1>1, <1>5, <2>0, <2>2
    <3> QED BY <3>1, <3>2
  <2>3. CASE Len(s) - 1 < j
    <3>1. rc[j] = c[j + 1] /\ c[j + 1] = t[j + 1 - Len(s)]
      BY <1>2, <1>4, <2>0, <2>3
    <3>2. (r \o t)[j] = t[j - (Len(s) - 1)]
      BY <1>1, <1>5, <2>0, <2>3
    <3>3. j + 1 - Len(s) = j - (Len(s) - 1)
      BY <2>0
    <3> QED BY <3>1, <3>2, <3>3
  <2> QED BY <2>0, <2>1, <2>2, <2>3
<1>7. Len(r \o t) = Len(rc)
  BY <1>1, <1>2, <1>4, <1>5
<1>8. r \o t = rc
  BY <1>4, <1>5, <1>6, <1>7, SeqEqual
<1> QED BY <1>8 DEF r, rc, c

\* Appending to the back part of a concatenation.
LEMMA AppendConcat ==
  ASSUME NEW S, NEW s \in Seq(S), NEW t \in Seq(S), NEW e \in S
  PROVE  s \o Append(t, e) = Append(s \o t, e)
<1>1. <<e>> \in Seq(S)
  OBVIOUS
<1>2. s \o t \in Seq(S)
  BY ConcatProperties
<1>3. Append(t, e) = t \o <<e>> /\ Append(s \o t, e) = (s \o t) \o <<e>>
  BY <1>2, AppendIsConcat
<1>4. (s \o t) \o <<e>> = s \o (t \o <<e>>)
  BY <1>1, ConcatAssociative
<1> QED BY <1>3, <1>4
=============================================================================
