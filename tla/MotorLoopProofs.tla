--------------------------- MODULE MotorLoopProofs ---------------------------
(***************************************************************************)
(* Theorems about the motor controller in the server's loop (MotorLoop),   *)
(* for every set of channels, speeds and texts, any number of requests     *)
(* under way and any timing of the controller.                             *)
(***************************************************************************)
EXTENDS MotorLoop, FiniteSetTheorems, SequenceTheorems, TLAPS

\* The characters of an answer.
AnswerLength(expected) == IF expected = "RESET" THEN 11 ELSE 3

(***************************************************************************)
(* In the characters s that are to be read, the requests e are answered in *)
(* order, the k-th behind position b[k], and every other character is a    *)
(* "W" of the controller's watchdog.                                       *)
(***************************************************************************)
AnswersIn(s, e, b) ==
  /\ \A k \in 1 .. Len(e) : b[k] + AnswerLength(e[k]) <= Len(s)
  /\ \A j, k \in 1 .. Len(e) : j < k => b[j] + AnswerLength(e[j]) <= b[k]
  /\ \A k \in 1 .. Len(e) : \A i \in 1 .. AnswerLength(e[k]) :
        s[b[k] + i] = ControllerAnswer(e[k])[i]
  /\ \A p \in 1 .. Len(s) :
        s[p] = "W" \/ \E k \in 1 .. Len(e) : p \in b[k] + 1 .. b[k] + AnswerLength(e[k])

Characters == {"0", "flag", CR, "W"}

\* The characters of each answer, as far as onActivity() tells them apart.
LEMMA AnswerIs ==
  ASSUME NEW kind \in Expectations
  PROVE  /\ ControllerAnswer(kind) \in Seq(Characters)
         /\ Len(ControllerAnswer(kind)) = AnswerLength(kind)
         /\ AnswerLength(kind) \in Nat \ {0}
         /\ kind = "RESET" \/ AnswerLength(kind) = 3
         /\ kind = "RESET" => AnswerLength(kind) = 11
         /\ kind = "COMMAND" =>
              ControllerAnswer(kind)[1] = CR /\ ControllerAnswer(kind)[2] # CR
         /\ kind = "MAIN_BATT" => \A i \in 1 .. 3 : ControllerAnswer(kind)[i] = CR
         /\ kind = "RESET" => \A i \in 1 .. 11 : ControllerAnswer(kind)[i] = CR <=> i \notin {8, 9}
<1>1. CASE kind = "COMMAND"
  <2>1. ControllerAnswer(kind) = <<CR, "flag", CR>> /\ AnswerLength(kind) = 3
    BY <1>1 DEF ControllerAnswer, AnswerLength
  <2>2. <<CR, "flag", CR>> \in Seq(Characters) /\ Len(<<CR, "flag", CR>>) = 3
    BY DEF Characters
  <2>3. <<CR, "flag", CR>>[1] = CR /\ <<CR, "flag", CR>>[2] # CR
    BY DEF CR
  <2>4. kind # "RESET" /\ kind # "MAIN_BATT"
    BY <1>1
  <2>5. QED
    BY <2>1, <2>2, <2>3, <2>4
<1>2. CASE kind = "MAIN_BATT"
  <2> DEFINE A == [i \in 1 .. 3 |-> CR]
  <2>1. ControllerAnswer(kind) = A /\ AnswerLength(kind) = 3
    BY <1>2 DEF ControllerAnswer, Lines, AnswerLength
  <2>2. \A i \in 1 .. 3 : A[i] = CR
    OBVIOUS
  <2>3. A \in Seq(Characters)
    BY CR \in Characters, IsASeq DEF Characters
  <2>4. Len(A) = 3
    BY <2>3, LenProperties
  <2>5. kind # "RESET" /\ kind # "COMMAND"
    BY <1>2
  <2> HIDE DEF A
  <2>6. QED
    BY <2>1, <2>2, <2>3, <2>4, <2>5
<1>3. CASE kind = "RESET"
  <2> DEFINE A == [i \in 1 .. 7 |-> CR]
             B == <<"0", "flag", CR>>
             C == [i \in 1 .. 1 |-> CR]
  <2>1. ControllerAnswer(kind) = (A \o B) \o C
    BY <1>3 DEF ControllerAnswer, Lines
  <2>2. /\ A \in Seq(Characters) /\ Len(A) = 7
        /\ C \in Seq(Characters) /\ Len(C) = 1
    BY CR \in Characters, IsASeq, LenProperties, SMTT(30) DEF Characters
  <2>3. B \in Seq(Characters) /\ Len(B) = 3 /\ B[1] = "0" /\ B[2] = "flag" /\ B[3] = CR
    BY SMTT(30) DEF Characters
  <2>4. \A i \in 1 .. 7 : A[i] = CR
    OBVIOUS
  <2>5. C[1] = CR
    OBVIOUS
  <2> HIDE DEF A, B, C
  <2>6. /\ A \o B \in Seq(Characters) /\ Len(A \o B) = 10
        /\ \A i \in 1 .. 10 : (A \o B)[i] = IF i <= 7 THEN A[i] ELSE B[i - 7]
    <3>1. /\ A \o B \in Seq(Characters) /\ Len(A \o B) = Len(A) + Len(B)
          /\ \A i \in 1 .. Len(A) + Len(B) :
               (A \o B)[i] = IF i <= Len(A) THEN A[i] ELSE B[i - Len(A)]
      BY <2>2, <2>3, ConcatProperties
    <3>2. Len(A) + Len(B) = 10
      BY <2>2, <2>3
    <3>3. QED
      BY <3>1, <3>2, <2>2
  <2>7. /\ (A \o B) \o C \in Seq(Characters) /\ Len((A \o B) \o C) = 11
        /\ \A i \in 1 .. 11 : ((A \o B) \o C)[i] = IF i <= 10 THEN (A \o B)[i] ELSE C[i - 10]
    <3> DEFINE D == A \o B
    <3>0. D \in Seq(Characters) /\ Len(D) = 10
      BY <2>6
    <3> HIDE DEF D
    <3>1. /\ D \o C \in Seq(Characters) /\ Len(D \o C) = Len(D) + Len(C)
          /\ \A i \in 1 .. Len(D) + Len(C) :
               (D \o C)[i] = IF i <= Len(D) THEN D[i] ELSE C[i - Len(D)]
      BY <2>2, <3>0, ConcatProperties
    <3>2. Len(D) + Len(C) = 11
      BY <2>2, <3>0
    <3>3. /\ D \o C \in Seq(Characters) /\ Len(D \o C) = 11
          /\ \A i \in 1 .. 11 : (D \o C)[i] = IF i <= 10 THEN D[i] ELSE C[i - 10]
      BY <3>0, <3>1, <3>2
    <3>4. QED
      BY <3>3 DEF D
  <2>8. \A i \in 1 .. 11 : ((A \o B) \o C)[i] = CR <=> i \notin {8, 9}
    <3>1. "0" # CR /\ "flag" # CR
      BY DEF CR
    <3>2. QED
      BY <3>1, <2>3, <2>4, <2>5, <2>6, <2>7, SMTT(30)
  <2>9. kind # "COMMAND" /\ kind # "MAIN_BATT" /\ AnswerLength(kind) = 11
    BY <1>3 DEF AnswerLength
  <2>10. /\ ControllerAnswer(kind) \in Seq(Characters) /\ Len(ControllerAnswer(kind)) = 11
         /\ \A i \in 1 .. 11 : ControllerAnswer(kind)[i] = CR <=> i \notin {8, 9}
    BY <2>1, <2>7, <2>8
  <2>11. Len(ControllerAnswer(kind)) = AnswerLength(kind) /\ AnswerLength(kind) \in Nat \ {0}
    BY <2>9, <2>10
  <2>12. kind = "RESET" => AnswerLength(kind) = 11
    BY <2>9
  <2>13. QED
    BY <1>3, <2>9, <2>10, <2>11, <2>12, Zenon
<1>4. QED
  BY <1>1, <1>2, <1>3 DEF Expectations

\* What is left of a sequence when its first t elements are taken.
LEMMA SuffixIs ==
  ASSUME NEW s \in Seq(Characters), NEW t \in Nat, t <= Len(s)
  PROVE  /\ SubSeq(s, t + 1, Len(s)) \in Seq(Characters)
         /\ Len(SubSeq(s, t + 1, Len(s))) = Len(s) - t
         /\ \A i \in 1 .. Len(s) - t : SubSeq(s, t + 1, Len(s))[i] = s[t + i]
<1>1. t + 1 \in Int /\ Len(s) \in Int
  OBVIOUS
<1>2. \A i \in t + 1 .. Len(s) : s[i] \in Characters
  OBVIOUS
<1> DEFINE r == SubSeq(s, t + 1, Len(s))
<1>3. /\ r \in Seq(Characters)
      /\ Len(r) = IF t + 1 <= Len(s) THEN (Len(s) - (t + 1)) + 1 ELSE 0
      /\ \A i \in 1 .. (Len(s) - (t + 1)) + 1 : r[i] = s[((t + 1) + i) - 1]
  BY <1>1, <1>2, SubSeqProperties
<1> HIDE DEF r
<1>4. Len(r) = Len(s) - t /\ (Len(s) - (t + 1)) + 1 = Len(s) - t
  BY <1>1, <1>3
<1>5. \A i \in Int : ((t + 1) + i) - 1 = t + i
  OBVIOUS
<1>6. \A i \in 1 .. Len(s) - t : r[i] = s[t + i]
  BY <1>1, <1>3, <1>4, <1>5
<1>7. QED
  BY <1>3, <1>4, <1>6 DEF r

\* Taking from the front of f leaves what comes after f alone.
LEMMA SuffixOfConcat ==
  ASSUME NEW f \in Seq(Characters), NEW o \in Seq(Characters), NEW t \in Nat, t <= Len(f)
  PROVE  /\ SubSeq(f, t + 1, Len(f)) \in Seq(Characters)
         /\ SubSeq(f \o o, t + 1, Len(f \o o)) = SubSeq(f, t + 1, Len(f)) \o o
<1> DEFINE s == f \o o
           g == SubSeq(f, t + 1, Len(f))
           r == SubSeq(s, t + 1, Len(s))
<1>1. Len(f) \in Nat /\ Len(o) \in Nat
  OBVIOUS
<1>2. /\ s \in Seq(Characters) /\ Len(s) = Len(f) + Len(o)
      /\ \A i \in 1 .. Len(f) + Len(o) : s[i] = IF i <= Len(f) THEN f[i] ELSE o[i - Len(f)]
  BY ConcatProperties
<1> HIDE DEF s
<1>3. /\ g \in Seq(Characters) /\ Len(g) = Len(f) - t
      /\ \A i \in 1 .. Len(f) - t : g[i] = f[t + i]
  BY SuffixIs
<1>4. /\ r \in Seq(Characters) /\ Len(r) = Len(s) - t
      /\ \A i \in 1 .. Len(s) - t : r[i] = s[t + i]
  <2>1. t <= Len(s)
    BY <1>1, <1>2
  <2>2. QED
    BY <1>2, <2>1, SuffixIs
<1> HIDE DEF g, r
<1>5. /\ g \o o \in Seq(Characters) /\ Len(g \o o) = Len(g) + Len(o)
      /\ \A i \in 1 .. Len(g) + Len(o) : (g \o o)[i] = IF i <= Len(g) THEN g[i] ELSE o[i - Len(g)]
  BY <1>3, ConcatProperties
<1>6. Len(r) = Len(g \o o)
  BY <1>1, <1>2, <1>3, <1>4, <1>5
<1>7. ASSUME NEW i \in 1 .. Len(r) PROVE r[i] = (g \o o)[i]
  <2>1. /\ i \in 1 .. Len(s) - t /\ i \in 1 .. Len(g) + Len(o) /\ t + i \in 1 .. Len(f) + Len(o)
        /\ (i <= Len(g) <=> t + i <= Len(f)) /\ (t + i) - Len(f) = i - Len(g)
        /\ (i <= Len(g) => i \in 1 .. Len(f) - t)
    BY <1>1, <1>2, <1>3, <1>4
  <2>2. r[i] = IF t + i <= Len(f) THEN f[t + i] ELSE o[(t + i) - Len(f)]
    BY <1>2, <1>4, <2>1
  <2>3. (g \o o)[i] = IF i <= Len(g) THEN g[i] ELSE o[i - Len(g)]
    BY <1>5, <2>1
  <2>4. QED
    BY <1>3, <2>1, <2>2, <2>3
<1>8. r = g \o o
  BY <1>4, <1>5, <1>6, <1>7, SeqEqual
<1>9. QED
  BY <1>3, <1>8 DEF g, r, s

\* The two parts of a sequence that is cut in one place.
LEMMA SplitIsWhole ==
  ASSUME NEW s \in Seq(Characters), NEW n \in 1 .. Len(s)
  PROVE  /\ SubSeq(s, 1, n) \in Seq(Characters)
         /\ SubSeq(s, n + 1, Len(s)) \in Seq(Characters)
         /\ SubSeq(s, 1, n) \o SubSeq(s, n + 1, Len(s)) = s
<1> DEFINE x == SubSeq(s, 1, n)
           y == SubSeq(s, n + 1, Len(s))
<1>1. Len(s) \in Nat /\ n \in Nat /\ n <= Len(s)
  OBVIOUS
<1>2. /\ x \in Seq(Characters) /\ Len(x) = n
      /\ \A i \in 1 .. n : x[i] = s[i]
  BY <1>1
<1>3. /\ y \in Seq(Characters) /\ Len(y) = Len(s) - n
      /\ \A i \in 1 .. Len(s) - n : y[i] = s[n + i]
  BY <1>1, SuffixIs
<1> HIDE DEF x, y
<1>4. /\ x \o y \in Seq(Characters) /\ Len(x \o y) = Len(x) + Len(y)
      /\ \A i \in 1 .. Len(x) + Len(y) : (x \o y)[i] = IF i <= Len(x) THEN x[i] ELSE y[i - Len(x)]
  BY <1>2, <1>3, ConcatProperties
<1>5. Len(x \o y) = Len(s)
  BY <1>1, <1>2, <1>3, <1>4
<1>6. ASSUME NEW i \in 1 .. Len(x \o y) PROVE (x \o y)[i] = s[i]
  <2>1. CASE i <= n
    BY <1>1, <1>2, <1>3, <1>4, <1>5, <2>1
  <2>2. CASE ~(i <= n)
    <3>1. i - n \in 1 .. Len(s) - n /\ n + (i - n) = i /\ i \in 1 .. Len(x) + Len(y)
      BY <1>1, <1>4, <1>5, <2>2
    <3>2. QED
      BY <1>2, <1>3, <1>4, <2>2, <3>1
  <2>3. QED
    BY <2>1, <2>2
<1>7. x \o y = s
  BY <1>4, <1>5, <1>6, SeqEqual
<1>8. QED
  BY <1>2, <1>3, <1>7 DEF x, y

\* A carriage return with n of them up to it is the n-th: only one has that count.
LEMMA CrAfterIs ==
  ASSUME NEW s \in Seq(Characters), NEW i \in Nat, NEW n \in Nat \ {0},
         NEW p \in i .. Len(s), s[p] = CR,
         Cardinality({q \in i .. p : s[q] = CR}) = n
  PROVE  CrAfter(s, i, n) = p
<1> DEFINE crs == {q \in i .. Len(s) : s[q] = CR}
           upTo(x) == {q \in crs : q <= x}
<1>1. Len(s) \in Nat
  OBVIOUS
<1>2. /\ IsFiniteSet(crs) /\ Cardinality(crs) \in Nat
      /\ \A x \in Int : IsFiniteSet(upTo(x)) /\ Cardinality(upTo(x)) \in Nat
                        /\ Cardinality(upTo(x)) <= Cardinality(crs)
  <2>1. IsFiniteSet(i .. Len(s))
    BY <1>1, FS_Interval
  <2>2. crs \subseteq i .. Len(s)
    OBVIOUS
  <2>3. IsFiniteSet(crs)
    BY <2>1, <2>2, FS_Subset
  <2>4. \A x \in Int : upTo(x) \subseteq crs
    OBVIOUS
  <2> HIDE DEF crs, upTo
  <2>5. QED
    BY <2>3, <2>4, FS_Subset, FS_CardinalityType
<1>3. p \in crs /\ upTo(p) = {q \in i .. p : s[q] = CR}
  BY <1>1
<1>4. Cardinality(upTo(p)) = n
  BY <1>3
<1>5. ASSUME NEW x \in crs, NEW y \in crs, x < y
      PROVE  Cardinality(upTo(x)) < Cardinality(upTo(y))
  <2>1. x \in Int /\ y \in Int
    BY <1>1
  <2>2. y \notin upTo(x) /\ upTo(x) \cup {y} \subseteq upTo(y)
    BY <1>5, <2>1
  <2> HIDE DEF crs, upTo
  <2>3. Cardinality(upTo(x) \cup {y}) = Cardinality(upTo(x)) + 1
    BY <1>2, <2>1, <2>2, FS_AddElement
  <2>4. Cardinality(upTo(x) \cup {y}) <= Cardinality(upTo(y))
    BY <1>2, <2>1, <2>2, FS_Subset
  <2>5. QED
    BY <1>2, <2>1, <2>3, <2>4
<1>6. \A x \in crs : x \in Int
  BY <1>1
<1>7. \A x \in crs : Cardinality(upTo(x)) = n => x = p
  <2> HIDE DEF crs, upTo
  <2>1. SUFFICES ASSUME NEW x \in crs, Cardinality(upTo(x)) = n, x # p PROVE FALSE
    OBVIOUS
  <2>2. x < p \/ p < x
    BY <1>3, <1>6, <2>1
  <2>3. QED
    <3>1. ~ n < n
      OBVIOUS
    <3>2. CASE x < p
      BY <1>3, <1>4, <1>5, <2>1, <3>1, <3>2
    <3>3. CASE p < x
      BY <1>3, <1>4, <1>5, <2>1, <3>1, <3>3
    <3>4. QED
      BY <2>2, <3>2, <3>3
<1>8. ~ Cardinality(crs) < n
  <2> HIDE DEF crs, upTo
  <2>1. p \in Int
    BY <1>3, <1>6
  <2>2. QED
    BY <1>2, <1>4, <2>1
<1>9. CrAfter(s, i, n) = CHOOSE x \in crs : Cardinality({q \in crs : q <= x}) = n
  BY <1>8 DEF CrAfter
<1>10. (CHOOSE x \in crs : Cardinality(upTo(x)) = n) = p
  <2> HIDE DEF crs, upTo
  <2>1. QED
    BY <1>3, <1>4, <1>7
<1>11. QED
  BY <1>9, <1>10

\* If the n-th carriage return has come, there are n.
LEMMA CrAfterCounts ==
  ASSUME NEW s \in Seq(Characters), NEW i \in Nat, NEW n \in Nat, CrAfter(s, i, n) > 0
  PROVE  Cardinality({q \in i .. Len(s) : s[q] = CR}) >= n
<1>1. IsFiniteSet({q \in i .. Len(s) : s[q] = CR})
  <2>1. IsFiniteSet(i .. Len(s))
    BY FS_Interval
  <2>2. {q \in i .. Len(s) : s[q] = CR} \subseteq i .. Len(s)
    OBVIOUS
  <2>3. QED
    BY <2>1, <2>2, FS_Subset
<1>2. Cardinality({q \in i .. Len(s) : s[q] = CR}) \in Nat
  BY <1>1, FS_CardinalityType
<1>3. ~ Cardinality({q \in i .. Len(s) : s[q] = CR}) < n
  BY ~(0 > 0) DEF CrAfter
<1>4. QED
  BY <1>2, <1>3

-----------------------------------------------------------------------------
(* The stream of answers.                                                  *)

InStream(s, e, b) ==
  /\ s \in Seq(Characters)
  /\ e \in Seq(Expectations)
  /\ b \in [1 .. Len(e) -> Nat]
  /\ AnswersIn(s, e, b)

\* An expected answer has a length.
LEMMA LengthsAre ==
  ASSUME NEW e \in Seq(Expectations), NEW k \in 1 .. Len(e)
  PROVE  e[k] \in Expectations /\ AnswerLength(e[k]) \in {3, 11}
<1>1. e[k] \in Expectations
  BY ElementOfSeq
<1>2. QED
  BY <1>1 DEF AnswerLength

\* The oldest request's answer: nothing but the controller's "W" is in front of it.
LEMMA OldestFirst ==
  ASSUME NEW s, NEW e, NEW b, InStream(s, e, b), e # <<>>
  PROVE  /\ 1 \in 1 .. Len(e) /\ e[1] \in Expectations /\ b[1] \in Nat
         /\ b[1] + AnswerLength(e[1]) <= Len(s)
         /\ \A p \in 1 .. b[1] : p <= Len(s) => s[p] = "W"
         /\ \A i \in 1 .. AnswerLength(e[1]) : s[b[1] + i] = ControllerAnswer(e[1])[i]
<1> USE DEF InStream
<1>1. Len(e) \in Nat \ {0}
  BY EmptySeq
<1>2. 1 \in 1 .. Len(e)
  BY <1>1
<1>3. e[1] \in Expectations /\ b[1] \in Nat
  BY <1>2, LengthsAre
<1>4. ASSUME NEW p \in 1 .. b[1], p <= Len(s)
      PROVE  s[p] = "W"
  <2>1. Len(s) \in Nat /\ p \in 1 .. Len(s)
    BY <1>3, <1>4
  <2>2. SUFFICES ASSUME NEW k \in 1 .. Len(e), p \in b[k] + 1 .. b[k] + AnswerLength(e[k])
                 PROVE  FALSE
    BY <2>1 DEF AnswersIn
  <2>3. b[k] \in Nat /\ AnswerLength(e[k]) \in Nat /\ AnswerLength(e[1]) \in Nat
    BY <1>2, LengthsAre
  <2>4. CASE k = 1
    BY <1>3, <2>2, <2>3, <2>4
  <2>5. CASE k # 1
    <3>1. 1 < k
      BY <2>5, <1>1
    <3>2. b[1] + AnswerLength(e[1]) <= b[k]
      BY <1>2, <3>1 DEF AnswersIn
    <3>3. QED
      BY <1>3, <2>2, <2>3, <3>2
  <2>6. QED
    BY <2>4, <2>5
<1>5. QED
  BY <1>2, <1>3, <1>4 DEF AnswersIn

\* Lines that follow B characters without a carriage return: the n-th ends at B + n.
LEMMA FirstLines ==
  ASSUME NEW f \in Seq(Characters), NEW B \in Nat, NEW n \in Nat \ {0},
         \A p \in 1 .. B : p <= Len(f) => f[p] # CR,
         \A i \in 1 .. n : B + i <= Len(f) => f[B + i] = CR,
         Cardinality({q \in 1 .. Len(f) : f[q] = CR}) >= n
  PROVE  B + n <= Len(f) /\ CrAfter(f, 1, n) = B + n
<1>1. Len(f) \in Nat
  OBVIOUS
<1>2. B + n <= Len(f)
  <2>1. SUFFICES ASSUME Len(f) < B + n PROVE FALSE
    BY <1>1
  <2>2. {q \in 1 .. Len(f) : f[q] = CR} \subseteq B + 1 .. Len(f)
    BY <1>1
  <2>3. /\ IsFiniteSet(B + 1 .. Len(f))
        /\ Cardinality(B + 1 .. Len(f)) = IF B + 1 > Len(f) THEN 0 ELSE (Len(f) - (B + 1)) + 1
    <3>1. B + 1 \in Int /\ Len(f) \in Int
      BY <1>1
    <3>2. QED
      BY <3>1, FS_Interval
  <2>4. Cardinality(B + 1 .. Len(f)) < n
    BY <1>1, <2>1, <2>3
  <2>5. /\ Cardinality({q \in 1 .. Len(f) : f[q] = CR}) <= Cardinality(B + 1 .. Len(f))
        /\ Cardinality({q \in 1 .. Len(f) : f[q] = CR}) \in Nat
        /\ Cardinality(B + 1 .. Len(f)) \in Nat
    BY <2>2, <2>3, FS_Subset, FS_CardinalityType
  <2>6. QED
    BY <2>4, <2>5
<1>3. {q \in 1 .. B + n : f[q] = CR} = B + 1 .. B + n
  <2>1. ASSUME NEW q \in B + 1 .. B + n PROVE f[q] = CR
    <3>1. q - B \in 1 .. n /\ B + (q - B) = q /\ q <= Len(f)
      BY <1>1, <1>2
    <3>2. QED
      BY <3>1
  <2>2. ASSUME NEW q \in 1 .. B + n, f[q] = CR PROVE q \in B + 1 .. B + n
    <3>1. q <= Len(f)
      BY <1>1, <1>2
    <3>2. QED
      BY <2>2, <3>1
  <2>3. B + 1 .. B + n \subseteq 1 .. B + n
    OBVIOUS
  <2>4. QED
    BY <2>1, <2>2, <2>3
<1>4. Cardinality(B + 1 .. B + n) = n
  <2>1. Cardinality(B + 1 .. B + n)
          = IF B + 1 > B + n THEN 0 ELSE ((B + n) - (B + 1)) + 1
    BY FS_Interval
  <2>2. QED
    BY <2>1
<1>5. B + n \in 1 .. Len(f) /\ f[B + n] = CR
  <2>1. n \in 1 .. n /\ B + n \in 1 .. Len(f)
    BY <1>1, <1>2
  <2>2. QED
    BY <1>2, <2>1
<1>6. QED
  BY <1>2, <1>3, <1>4, <1>5, CrAfterIs

(***************************************************************************)
(* What onActivity() takes of the stream when the oldest answer has come   *)
(* is that answer and the "W"s in front of it: it does not stop inside the *)
(* answer, nor read into the next one (Ax3500.cpp:166-218).                *)
(***************************************************************************)
LEMMA TakenIs ==
  ASSUME NEW f \in Seq(Characters), NEW o \in Seq(Characters), NEW e, NEW b,
         InStream(f \o o, e, b), e # <<>>, AllCame(e[1], f)
  PROVE  Taken(e[1], f) = b[1] + AnswerLength(e[1]) /\ b[1] + AnswerLength(e[1]) <= Len(f)
<1> DEFINE B == b[1]
           kind == e[1]
           crs == {q \in 1 .. Len(f) : f[q] = CR}
<1>1. Len(f) \in Nat /\ Len(o) \in Nat
  OBVIOUS
<1>2. \A p \in 1 .. Len(f) : (f \o o)[p] = f[p] /\ p <= Len(f \o o)
  <2>1. /\ Len(f \o o) = Len(f) + Len(o)
        /\ \A i \in 1 .. Len(f) + Len(o) :
             (f \o o)[i] = IF i <= Len(f) THEN f[i] ELSE o[i - Len(f)]
    BY ConcatProperties
  <2>2. QED
    BY <1>1, <2>1
<1>3. /\ kind \in Expectations /\ B \in Nat
      /\ \A p \in 1 .. B : p <= Len(f \o o) => (f \o o)[p] = "W"
      /\ \A i \in 1 .. AnswerLength(kind) : (f \o o)[B + i] = ControllerAnswer(kind)[i]
  <2>1. PICK s : s = f \o o
    OBVIOUS
  <2>2. InStream(s, e, b)
    BY <2>1
  <2>3. /\ kind \in Expectations /\ B \in Nat
        /\ \A p \in 1 .. B : p <= Len(s) => s[p] = "W"
        /\ \A i \in 1 .. AnswerLength(kind) : s[B + i] = ControllerAnswer(kind)[i]
    BY <2>2, OldestFirst
  <2>4. QED
    BY <2>1, <2>3
<1>4. \A p \in 1 .. B : p <= Len(f) => f[p] # CR
  <2>1. "W" # CR
    BY DEF CR
  <2>2. SUFFICES ASSUME NEW p \in 1 .. B, p <= Len(f) PROVE f[p] # CR
    OBVIOUS
  <2>3. p \in 1 .. Len(f)
    BY <1>1, <1>3, <2>2
  <2>4. QED
    BY <1>2, <1>3, <2>1, <2>3
<1>5. AnswerLength(kind) \in Nat \ {0}
  BY <1>3, AnswerIs
<1>6. \A i \in 1 .. AnswerLength(kind) : B + i <= Len(f) => f[B + i] = ControllerAnswer(kind)[i]
  <2>1. SUFFICES ASSUME NEW i \in 1 .. AnswerLength(kind), B + i <= Len(f)
                 PROVE  f[B + i] = ControllerAnswer(kind)[i]
    OBVIOUS
  <2>2. B + i \in 1 .. Len(f)
    BY <1>1, <1>3, <1>5, <2>1
  <2>3. QED
    BY <1>2, <1>3, <2>2
<1> HIDE DEF B
<1>7. ASSUME NEW n \in 1 .. AnswerLength(kind), NEW m \in Nat, m >= n,
             \A i \in 1 .. n : ControllerAnswer(kind)[i] = CR,
             CrAfter(f, 1, m) > 0
      PROVE  B + n <= Len(f) /\ CrAfter(f, 1, n) = B + n
  <2>1. n \in Nat \ {0}
    BY <1>5
  <2>2. \A i \in 1 .. n : B + i <= Len(f) => f[B + i] = CR
    <3>1. \A i \in 1 .. n : i \in 1 .. AnswerLength(kind)
      BY <1>5, <2>1
    <3>2. QED
      BY <1>6, <1>7, <3>1
  <2>3. Cardinality(crs) >= m
    BY <1>7, CrAfterCounts
  <2>4. Cardinality(crs) \in Nat
    <3>1. IsFiniteSet(1 .. Len(f))
      BY <1>1, FS_Interval
    <3>2. crs \subseteq 1 .. Len(f)
      OBVIOUS
    <3> HIDE DEF crs
    <3>3. QED
      BY <3>1, <3>2, FS_Subset, FS_CardinalityType
  <2>5. Cardinality(crs) >= n
    BY <1>7, <2>1, <2>3, <2>4
  <2>6. QED
    BY <1>3, <1>4, <2>1, <2>2, <2>5, FirstLines
<1>8. /\ CrAfter(f, 1, LinesBefore(kind)) > 0
      /\ Len(f) >= Taken(kind, f)
  BY DEF AllCame
<1> HIDE DEF kind, crs
<1>9. CASE kind = "COMMAND"
  <2>1. AnswerLength(kind) = 3 /\ ControllerAnswer(kind)[1] = CR
    BY <1>3, <1>9, AnswerIs
  <2>2. LinesBefore(kind) = 1 /\ Taken(kind, f) = CrAfter(f, 1, 1) + 2
    BY <1>9 DEF LinesBefore, Taken
  <2>3. \A i \in 1 .. 1 : ControllerAnswer(kind)[i] = CR
    BY <2>1
  <2>4. CrAfter(f, 1, 1) = B + 1
    BY <1>7, <1>8, <2>1, <2>2, <2>3
  <2>5. QED
    BY <1>1, <1>3, <1>8, <2>1, <2>2, <2>4 DEF kind, B
<1>10. CASE kind = "MAIN_BATT"
  <2>1. AnswerLength(kind) = 3 /\ \A i \in 1 .. 3 : ControllerAnswer(kind)[i] = CR
    <3>1. kind # "RESET"
      BY <1>10
    <3>2. QED
      BY <1>3, <1>10, <3>1, AnswerIs
  <2>2. LinesBefore(kind) = 3 /\ Taken(kind, f) = CrAfter(f, 1, 3)
    BY <1>10 DEF LinesBefore, Taken
  <2>3. CrAfter(f, 1, 3) = B + 3
    BY <1>7, <1>8, <2>1, <2>2
  <2>4. QED
    BY <1>1, <1>3, <1>8, <2>1, <2>2, <2>3 DEF kind, B
<1>11. CASE kind = "RESET"
  <2>1. /\ AnswerLength(kind) = 11
        /\ \A i \in 1 .. 11 : ControllerAnswer(kind)[i] = CR <=> i \notin {8, 9}
    BY <1>3, <1>11, AnswerIs
  <2>2. /\ LinesBefore(kind) = 9
        /\ Taken(kind, f) = CrAfter(f, CrAfter(f, 1, 7) + 3, 2)
    BY <1>11 DEF LinesBefore, Taken
  <2>3. CrAfter(f, 1, 7) = B + 7
    <3>1. \A i \in 1 .. 7 : ControllerAnswer(kind)[i] = CR
      BY <2>1
    <3>2. QED
      BY <1>7, <1>8, <2>1, <2>2, <3>1
  <2>4. Len(f) >= B + 11
    <3>1. SUFFICES ASSUME Len(f) < B + 11 PROVE FALSE
      BY <1>1, <1>3
    <3>2. crs \subseteq (B + 1 .. B + 7) \cup {B + 10}
      <4>1. SUFFICES ASSUME NEW q \in 1 .. Len(f), f[q] = CR
                     PROVE  q \in B + 1 .. B + 7 \/ q = B + 10
        BY DEF crs
      <4>2. q > B
        BY <1>1, <1>3, <1>4, <4>1
      <4>3. q - B \in 1 .. 11 /\ B + (q - B) = q /\ q <= Len(f)
        BY <1>1, <1>3, <3>1, <4>2
      <4>4. ControllerAnswer(kind)[q - B] = CR
        BY <1>6, <2>1, <4>1, <4>3
      <4>5. q - B \notin {8, 9}
        BY <2>1, <4>3, <4>4
      <4>6. QED
        BY <1>1, <1>3, <3>1, <4>3, <4>5
    <3>3. IsFiniteSet(B + 1 .. B + 7) /\ Cardinality(B + 1 .. B + 7) = 7
      <4>1. B + 1 \in Int /\ B + 7 \in Int
        BY <1>3
      <4>2. /\ IsFiniteSet(B + 1 .. B + 7)
            /\ Cardinality(B + 1 .. B + 7) = IF B + 1 > B + 7 THEN 0 ELSE ((B + 7) - (B + 1)) + 1
        BY <4>1, FS_Interval
      <4>3. QED
        BY <1>3, <4>2
    <3>4. /\ IsFiniteSet((B + 1 .. B + 7) \cup {B + 10})
          /\ Cardinality((B + 1 .. B + 7) \cup {B + 10}) = 8
      <4>1. B + 10 \notin B + 1 .. B + 7
        BY <1>3
      <4>2. QED
        <5> DEFINE S == B + 1 .. B + 7
                   x == B + 10
        <5>1. IsFiniteSet(S) /\ Cardinality(S) = 7 /\ x \notin S
          BY <3>3, <4>1
        <5> HIDE DEF S, x
        <5>2. IsFiniteSet(S \cup {x}) /\ Cardinality(S \cup {x}) = 8
          BY <5>1, FS_AddElement
        <5>3. QED
          BY <5>2 DEF S, x
    <3>5. Cardinality(crs) <= 8 /\ Cardinality(crs) \in Nat
      <4> DEFINE T == (B + 1 .. B + 7) \cup {B + 10}
      <4>1. IsFiniteSet(T) /\ Cardinality(T) = 8 /\ crs \subseteq T
        BY <3>2, <3>4
      <4> HIDE DEF T
      <4>2. QED
        BY <4>1, FS_Subset, FS_CardinalityType
    <3>6. Cardinality(crs) >= 9
      BY <1>8, <2>2, CrAfterCounts DEF crs
    <3>7. QED
      BY <3>5, <3>6
  <2>5. CrAfter(f, B + 10, 2) = B + 11
    <3>1. f[B + 10] = CR /\ f[B + 11] = CR
      <4>1. B + 10 <= Len(f) /\ B + 11 <= Len(f)
        BY <1>1, <1>3, <2>4
      <4>2. QED
        BY <1>6, <2>1, <4>1
    <3>2. {q \in B + 10 .. B + 11 : f[q] = CR} = B + 10 .. B + 11
      <4>1. \A q \in B + 10 .. B + 11 : q = B + 10 \/ q = B + 11
        BY <1>3
      <4>2. QED
        BY <3>1, <4>1
    <3>3. Cardinality(B + 10 .. B + 11) = 2
      <4>1. B + 10 \in Int /\ B + 11 \in Int
        BY <1>3
      <4>2. Cardinality(B + 10 .. B + 11)
              = IF B + 10 > B + 11 THEN 0 ELSE ((B + 11) - (B + 10)) + 1
        BY <4>1, FS_Interval
      <4>3. QED
        BY <1>3, <4>2
    <3>4. B + 11 \in B + 10 .. Len(f) /\ B + 10 \in Nat
      BY <1>1, <1>3, <2>4
    <3>5. QED
      BY <3>1, <3>2, <3>3, <3>4, CrAfterIs
  <2>6. (B + 7) + 3 = B + 10
    BY <1>3
  <2>7. Taken(kind, f) = B + 11
    BY <2>2, <2>3, <2>5, <2>6
  <2>8. QED
    BY <2>1, <2>4, <2>7 DEF kind, B
<1>12. QED
  BY <1>3, <1>9, <1>10, <1>11 DEF Expectations

\* The requests e are answered in s.
Stream(s, e) == \E b \in [1 .. Len(e) -> 0 .. Len(s)] : AnswersIn(s, e, b)

\* The positions in Stream may be any numbers: the answers bound them.
LEMMA StreamIs ==
  ASSUME NEW s \in Seq(Characters), NEW e \in Seq(Expectations)
  PROVE  Stream(s, e) <=> \E b : InStream(s, e, b)
<1>1. Len(s) \in Nat /\ Len(e) \in Nat
  OBVIOUS
<1>2. ASSUME NEW b \in [1 .. Len(e) -> 0 .. Len(s)], AnswersIn(s, e, b)
      PROVE  InStream(s, e, b)
  <2>1. b \in [1 .. Len(e) -> Nat]
    BY <1>1
  <2>2. QED
    BY <1>2, <2>1 DEF InStream
<1>3. ASSUME NEW b, InStream(s, e, b)
      PROVE  b \in [1 .. Len(e) -> 0 .. Len(s)] /\ AnswersIn(s, e, b)
  <2>1. b \in [1 .. Len(e) -> Nat] /\ AnswersIn(s, e, b)
    BY <1>3 DEF InStream
  <2>2. ASSUME NEW k \in 1 .. Len(e) PROVE b[k] \in 0 .. Len(s)
    <3>1. AnswerLength(e[k]) \in {3, 11}
      BY LengthsAre
    <3>2. b[k] + AnswerLength(e[k]) <= Len(s) /\ b[k] \in Nat
      BY <2>1 DEF AnswersIn
    <3>3. QED
      BY <1>1, <3>1, <3>2
  <2>3. QED
    BY <2>1, <2>2
<1>4. QED
  BY <1>2, <1>3 DEF Stream

\* A request whose answer will come after everything else.
LEMMA AnswerAppended ==
  ASSUME NEW s, NEW e, NEW b, InStream(s, e, b), NEW kind \in Expectations
  PROVE  \E c : InStream(s \o ControllerAnswer(kind), Append(e, kind), c)
<1> USE DEF InStream
<1> DEFINE a == ControllerAnswer(kind)
           n == Len(e)
           c == [k \in 1 .. n + 1 |-> IF k <= n THEN b[k] ELSE Len(s)]
<1>1. a \in Seq(Characters) /\ Len(a) = AnswerLength(kind) /\ Len(a) \in Nat
  BY AnswerIs
<1>2. PICK t : t = s \o a
  OBVIOUS
<1>3. /\ t \in Seq(Characters) /\ Len(t) = Len(s) + Len(a)
      /\ \A i \in 1 .. Len(s) + Len(a) : t[i] = IF i <= Len(s) THEN s[i] ELSE a[i - Len(s)]
  BY <1>1, <1>2, ConcatProperties
<1>4. PICK d : d = Append(e, kind)
  OBVIOUS
<1>5. /\ d \in Seq(Expectations) /\ Len(d) = n + 1 /\ n \in Nat /\ Len(s) \in Nat
      /\ \A k \in 1 .. n : d[k] = e[k]
      /\ d[n + 1] = kind
  BY <1>4, AppendProperties
<1>6. \A k \in 1 .. n : AnswerLength(e[k]) \in {3, 11} /\ e[k] \in Expectations
  BY LengthsAre
<1> HIDE DEF a, n
<1>7. /\ c \in [1 .. Len(d) -> Nat]
      /\ \A k \in 1 .. n : c[k] = b[k]
      /\ c[n + 1] = Len(s)
  <2>1. \A k \in 1 .. n : b[k] \in Nat
    BY DEF n
  <2>2. QED
    BY <1>5, <2>1
<1> HIDE DEF c
<1>8. \A k \in 1 .. Len(d) : k \in 1 .. n \/ k = n + 1
  BY <1>5
<1>9. \A k \in 1 .. n : /\ b[k] \in Nat
                        /\ b[k] + AnswerLength(e[k]) <= Len(s)
                        /\ \A i \in 1 .. AnswerLength(e[k]) :
                             s[b[k] + i] = ControllerAnswer(e[k])[i]
  BY DEF n, AnswersIn
<1>10. ASSUME NEW k \in 1 .. Len(d)
       PROVE  /\ c[k] + AnswerLength(d[k]) <= Len(t)
              /\ \A i \in 1 .. AnswerLength(d[k]) : t[c[k] + i] = ControllerAnswer(d[k])[i]
  <2>1. CASE k \in 1 .. n
    <3>1. c[k] = b[k] /\ d[k] = e[k] /\ AnswerLength(e[k]) \in {3, 11}
      BY <1>5, <1>6, <1>7, <2>1
    <3>2. b[k] \in Nat /\ b[k] + AnswerLength(e[k]) <= Len(s)
      BY <1>9, <2>1
    <3>3. \A i \in 1 .. AnswerLength(e[k]) : t[b[k] + i] = s[b[k] + i]
      BY <1>1, <1>3, <1>5, <3>1, <3>2, SMTT(30)
    <3>4. QED
      BY <1>1, <1>3, <1>5, <1>9, <2>1, <3>1, <3>2, <3>3
  <2>2. CASE k = n + 1
    <3>1. c[k] = Len(s) /\ d[k] = kind
      BY <1>5, <1>7, <2>2
    <3>2. \A i \in 1 .. Len(a) : t[Len(s) + i] = a[i]
      <4>1. SUFFICES ASSUME NEW i \in 1 .. Len(a) PROVE t[Len(s) + i] = a[i]
        OBVIOUS
      <4>2. /\ Len(s) + i \in 1 .. Len(s) + Len(a) /\ ~(Len(s) + i <= Len(s))
            /\ (Len(s) + i) - Len(s) = i
        BY <1>1, <1>5
      <4>3. QED
        BY <1>3, <4>2
    <3>3. QED
      BY <1>1, <1>3, <1>5, <3>1, <3>2 DEF a
  <2>3. QED
    BY <1>8, <2>1, <2>2
<1>11. ASSUME NEW j \in 1 .. Len(d), NEW k \in 1 .. Len(d), j < k
       PROVE  c[j] + AnswerLength(d[j]) <= c[k]
  <2>1. j \in 1 .. n
    BY <1>5, <1>11
  <2>2. c[j] = b[j] /\ d[j] = e[j]
    BY <1>5, <1>7, <2>1
  <2>3. CASE k \in 1 .. n
    <3>1. b[j] + AnswerLength(e[j]) <= b[k]
      BY <1>11, <2>1, <2>3 DEF n, AnswersIn
    <3>2. QED
      BY <1>7, <2>2, <2>3, <3>1
  <2>4. CASE k = n + 1
    BY <1>7, <1>9, <2>1, <2>2, <2>4
  <2>5. QED
    BY <1>8, <2>3, <2>4
<1>12. ASSUME NEW p \in 1 .. Len(t)
       PROVE  t[p] = "W" \/ \E k \in 1 .. Len(d) : p \in c[k] + 1 .. c[k] + AnswerLength(d[k])
  <2>1. CASE p <= Len(s)
    <3>1. t[p] = s[p] /\ p \in 1 .. Len(s)
      BY <1>1, <1>3, <1>5, <2>1
    <3>2. s[p] = "W" \/ \E k \in 1 .. n : p \in b[k] + 1 .. b[k] + AnswerLength(e[k])
      BY <3>1 DEF n, AnswersIn
    <3>3. ASSUME NEW k \in 1 .. n, p \in b[k] + 1 .. b[k] + AnswerLength(e[k])
          PROVE  \E l \in 1 .. Len(d) : p \in c[l] + 1 .. c[l] + AnswerLength(d[l])
      <4>1. k \in 1 .. Len(d) /\ c[k] = b[k] /\ d[k] = e[k]
        BY <1>5, <1>7
      <4>2. QED
        BY <3>3, <4>1
    <3>4. QED
      BY <3>1, <3>2, <3>3
  <2>2. CASE ~(p <= Len(s))
    <3>1. n + 1 \in 1 .. Len(d) /\ c[n + 1] = Len(s) /\ d[n + 1] = kind
      BY <1>5, <1>7
    <3>2. p \in Len(s) + 1 .. Len(s) + AnswerLength(kind)
      BY <1>1, <1>3, <1>5, <2>2
    <3>3. QED
      BY <3>1, <3>2
  <2>3. QED
    BY <2>1, <2>2
<1>13. AnswersIn(t, d, c)
  BY <1>10, <1>11, <1>12 DEF AnswersIn
<1>14. InStream(t, d, c)
  BY <1>3, <1>5, <1>7, <1>13
<1>15. QED
  BY <1>2, <1>4, <1>14 DEF a

\* The controller's watchdog adds a "W" behind everything else.
LEMMA WatchdogAppended ==
  ASSUME NEW s, NEW e, NEW b, InStream(s, e, b)
  PROVE  InStream(Append(s, "W"), e, b)
<1> USE DEF InStream
<1>1. PICK t : t = Append(s, "W")
  OBVIOUS
<1>2. "W" \in Characters
  BY DEF Characters
<1>3. /\ t \in Seq(Characters) /\ Len(t) = Len(s) + 1 /\ Len(s) \in Nat
      /\ \A i \in 1 .. Len(s) : t[i] = s[i]
      /\ t[Len(s) + 1] = "W"
  BY <1>1, <1>2, AppendProperties
<1>4. ASSUME NEW k \in 1 .. Len(e)
      PROVE  /\ b[k] + AnswerLength(e[k]) <= Len(t)
             /\ \A i \in 1 .. AnswerLength(e[k]) : t[b[k] + i] = ControllerAnswer(e[k])[i]
  <2>1. AnswerLength(e[k]) \in {3, 11} /\ b[k] \in Nat
    BY LengthsAre
  <2>2. b[k] + AnswerLength(e[k]) <= Len(s)
    BY DEF AnswersIn
  <2>3. \A i \in 1 .. AnswerLength(e[k]) : t[b[k] + i] = s[b[k] + i]
    BY <1>3, <2>1, <2>2
  <2>4. QED
    BY <1>3, <2>1, <2>2, <2>3 DEF AnswersIn
<1>5. ASSUME NEW p \in 1 .. Len(t)
      PROVE  t[p] = "W" \/ \E k \in 1 .. Len(e) : p \in b[k] + 1 .. b[k] + AnswerLength(e[k])
  <2>1. p \in 1 .. Len(s) \/ p = Len(s) + 1
    BY <1>3
  <2>2. QED
    BY <1>3, <2>1 DEF AnswersIn
<1>6. AnswersIn(t, e, b)
  BY <1>4, <1>5 DEF AnswersIn
<1>7. QED
  BY <1>1, <1>3, <1>6

\* The oldest answer and what was in front of it are read: the rest still answers the rest.
LEMMA AnswerDropped ==
  ASSUME NEW s, NEW e, NEW b, InStream(s, e, b), e # <<>>
  PROVE  \E c : InStream(SubSeq(s, b[1] + AnswerLength(e[1]) + 1, Len(s)), Tail(e), c)
<1> USE DEF InStream
<1> DEFINE T == b[1] + AnswerLength(e[1])
           n == Len(e) - 1
           c == [k \in 1 .. n |-> b[k + 1] - T]
<1>1. /\ Len(s) \in Nat /\ n \in Nat /\ T \in Nat /\ T <= Len(s)
      /\ 1 \in 1 .. Len(e) /\ AnswerLength(e[1]) \in {3, 11}
  <2>1. Len(e) \in Nat \ {0} /\ Len(s) \in Nat
    BY EmptySeq
  <2>2. /\ b[1] \in Nat /\ b[1] + AnswerLength(e[1]) <= Len(s)
        /\ 1 \in 1 .. Len(e) /\ AnswerLength(e[1]) \in {3, 11}
    BY OldestFirst, LengthsAre
  <2>3. QED
    BY <2>1, <2>2
<1>2. PICK r : r = SubSeq(s, T + 1, Len(s))
  OBVIOUS
<1>3. /\ r \in Seq(Characters) /\ Len(r) = Len(s) - T
      /\ \A i \in 1 .. Len(r) : r[i] = s[T + i]
  <2> HIDE DEF T
  <2>1. /\ r \in Seq(Characters) /\ Len(r) = Len(s) - T
        /\ \A i \in 1 .. Len(s) - T : r[i] = s[T + i]
    BY <1>1, <1>2, SuffixIs
  <2>2. QED
    BY <2>1
<1>4. PICK d : d = Tail(e)
  OBVIOUS
<1>5. /\ d \in Seq(Expectations) /\ Len(d) = n
      /\ \A k \in 1 .. n : d[k] = e[k + 1]
  BY <1>4, HeadTailProperties
<1>6. \A k \in 1 .. n : k + 1 \in 1 .. Len(e) /\ 1 < k + 1
  BY <1>1
<1>7. ASSUME NEW k \in 1 .. n
      PROVE  /\ b[k + 1] \in Nat /\ T <= b[k + 1]
             /\ b[k + 1] + AnswerLength(e[k + 1]) <= Len(s)
             /\ AnswerLength(e[k + 1]) \in {3, 11}
             /\ \A i \in 1 .. AnswerLength(e[k + 1]) :
                  s[b[k + 1] + i] = ControllerAnswer(e[k + 1])[i]
  <2>1. PICK m \in 1 .. Len(e) : m = k + 1
    BY <1>6
  <2>2. 1 < m
    BY <1>6, <2>1
  <2>3. /\ b[m] \in Nat /\ T <= b[m]
        /\ b[m] + AnswerLength(e[m]) <= Len(s)
        /\ AnswerLength(e[m]) \in {3, 11}
        /\ \A i \in 1 .. AnswerLength(e[m]) : s[b[m] + i] = ControllerAnswer(e[m])[i]
    BY <1>1, <2>2, LengthsAre DEF AnswersIn
  <2>4. QED
    BY <2>1, <2>3
<1>8. ASSUME NEW j \in 1 .. n, NEW k \in 1 .. n, j < k
      PROVE  b[j + 1] + AnswerLength(e[j + 1]) <= b[k + 1]
  <2>1. j + 1 \in 1 .. Len(e) /\ k + 1 \in 1 .. Len(e) /\ j + 1 < k + 1
    BY <1>1, <1>6, <1>8
  <2>2. \A i, l \in 1 .. Len(e) : i < l => b[i] + AnswerLength(e[i]) <= b[l]
    BY DEF AnswersIn
  <2>3. QED
    BY <2>1, <2>2
<1>9. ASSUME NEW p \in T + 1 .. Len(s)
      PROVE  \/ s[p] = "W"
             \/ \E k \in 1 .. n : p \in b[k + 1] + 1 .. b[k + 1] + AnswerLength(e[k + 1])
  <2>1. p \in 1 .. Len(s)
    BY <1>1
  <2>2. SUFFICES ASSUME NEW m \in 1 .. Len(e), p \in b[m] + 1 .. b[m] + AnswerLength(e[m])
                 PROVE  \E k \in 1 .. n : p \in b[k + 1] + 1 .. b[k + 1] + AnswerLength(e[k + 1])
    BY <2>1 DEF AnswersIn
  <2>3. m # 1
    <3>1. b[1] \in Nat
      BY <1>1
    <3>2. QED
      BY <1>1, <2>2, <3>1
  <2>4. m - 1 \in 1 .. n /\ (m - 1) + 1 = m
    BY <1>1, <2>3
  <2>5. QED
    BY <2>2, <2>4
<1> HIDE DEF T, n
<1>10. \A k \in 1 .. n : c[k] = b[k + 1] - T /\ c[k] \in Nat
  BY <1>1, <1>7
<1>11. c \in [1 .. Len(d) -> Nat]
  BY <1>5, <1>10
<1> HIDE DEF c
<1>12. \A x, y, z, t \in Int : x + y <= z => (x - t) + y <= z - t
  OBVIOUS
<1>13. \A x, y, z, t \in Int : t + x \in y + 1 .. y + z => x \in (y - t) + 1 .. (y - t) + z
  OBVIOUS
<1>14. \A x, y, z, t \in Int : y \in 1 .. z => t + ((x - t) + y) = x + y
  OBVIOUS
<1>15. ASSUME NEW k \in 1 .. Len(d)
       PROVE  /\ c[k] + AnswerLength(d[k]) <= Len(r)
              /\ \A i \in 1 .. AnswerLength(d[k]) : r[c[k] + i] = ControllerAnswer(d[k])[i]
  <2>1. /\ k \in 1 .. n /\ d[k] = e[k + 1] /\ c[k] = b[k + 1] - T /\ c[k] \in Nat
        /\ b[k + 1] \in Nat /\ AnswerLength(e[k + 1]) \in {3, 11}
        /\ b[k + 1] + AnswerLength(e[k + 1]) <= Len(s)
    BY <1>5, <1>7, <1>10
  <2>2. c[k] + AnswerLength(d[k]) <= Len(r)
    <3>1. /\ b[k + 1] \in Int /\ AnswerLength(e[k + 1]) \in Int /\ Len(s) \in Int /\ T \in Int
      BY <1>1, <2>1
    <3>2. (b[k + 1] - T) + AnswerLength(e[k + 1]) <= Len(s) - T
      BY <1>12, <2>1, <3>1
    <3>3. QED
      BY <1>3, <2>1, <3>2
  <2>3. ASSUME NEW i \in 1 .. AnswerLength(d[k])
        PROVE  r[c[k] + i] = ControllerAnswer(d[k])[i]
    <3>1. c[k] + i \in 1 .. Len(r) /\ T + (c[k] + i) = b[k + 1] + i
      <4>1. /\ AnswerLength(d[k]) \in Nat /\ i \in 1 .. AnswerLength(d[k]) /\ Len(r) \in Nat
            /\ c[k] \in Nat
        BY <1>3, <2>1, <2>3
      <4>2. \A x, y, z, l \in Nat : x + y <= l /\ z \in 1 .. y => x + z \in 1 .. l
        OBVIOUS
      <4>3. c[k] + i \in 1 .. Len(r)
        BY <2>2, <4>1, <4>2
      <4>4. T + ((b[k + 1] - T) + i) = b[k + 1] + i
        <5>1. b[k + 1] \in Int /\ T \in Int /\ AnswerLength(d[k]) \in Int /\ i \in Int
          BY <1>1, <2>1, <4>1
        <5>2. QED
          BY <1>14, <4>1, <5>1
      <4>5. QED
        BY <2>1, <4>3, <4>4
    <3>2. r[c[k] + i] = s[b[k + 1] + i]
      BY <1>3, <3>1
    <3>3. QED
      BY <1>7, <2>1, <3>2
  <2>4. QED
    BY <2>2, <2>3
<1>16. ASSUME NEW j \in 1 .. Len(d), NEW k \in 1 .. Len(d), j < k
       PROVE  c[j] + AnswerLength(d[j]) <= c[k]
  <2>1. /\ j \in 1 .. n /\ k \in 1 .. n /\ d[j] = e[j + 1]
        /\ c[j] = b[j + 1] - T /\ c[k] = b[k + 1] - T
        /\ b[j + 1] \in Nat /\ b[k + 1] \in Nat /\ AnswerLength(e[j + 1]) \in {3, 11}
    BY <1>5, <1>7, <1>10
  <2>2. b[j + 1] + AnswerLength(e[j + 1]) <= b[k + 1]
    BY <1>8, <1>16, <2>1
  <2>3. b[j + 1] \in Int /\ b[k + 1] \in Int /\ AnswerLength(e[j + 1]) \in Int /\ T \in Int
    BY <1>1, <2>1, SMTT(30)
  <2>4. (b[j + 1] - T) + AnswerLength(e[j + 1]) <= b[k + 1] - T
    BY <1>12, <2>2, <2>3
  <2>5. QED
    BY <2>1, <2>4
<1>17. ASSUME NEW p \in 1 .. Len(r)
       PROVE  r[p] = "W" \/ \E k \in 1 .. Len(d) : p \in c[k] + 1 .. c[k] + AnswerLength(d[k])
  <2>1. T + p \in T + 1 .. Len(s) /\ r[p] = s[T + p]
    BY <1>1, <1>3
  <2>2. \/ s[T + p] = "W"
        \/ \E k \in 1 .. n : T + p \in b[k + 1] + 1 .. b[k + 1] + AnswerLength(e[k + 1])
    BY <1>9, <2>1
  <2>3. ASSUME NEW k \in 1 .. n, T + p \in b[k + 1] + 1 .. b[k + 1] + AnswerLength(e[k + 1])
        PROVE  k \in 1 .. Len(d) /\ p \in c[k] + 1 .. c[k] + AnswerLength(d[k])
    <3>1. /\ k \in 1 .. Len(d) /\ d[k] = e[k + 1] /\ c[k] = b[k + 1] - T
          /\ b[k + 1] \in Nat /\ AnswerLength(e[k + 1]) \in {3, 11}
      BY <1>5, <1>7, <1>10
    <3>2. QED
      <4>1. p \in Int /\ b[k + 1] \in Int /\ AnswerLength(e[k + 1]) \in Int /\ T \in Int
        BY <1>1, <1>3, <3>1
      <4>2. p \in (b[k + 1] - T) + 1 .. (b[k + 1] - T) + AnswerLength(e[k + 1])
        BY <1>13, <2>3, <4>1
      <4>3. QED
        BY <3>1, <4>2
  <2>4. QED
    BY <2>1, <2>2, <2>3
<1>18. AnswersIn(r, d, c)
  BY <1>15, <1>16, <1>17 DEF AnswersIn
<1>19. InStream(r, d, c)
  BY <1>3, <1>5, <1>11, <1>18
<1>20. QED
  BY <1>2, <1>4, <1>19 DEF T

\* When nothing was asked, only "W" can come.
LEMMA NothingAsked ==
  ASSUME NEW s, NEW b, InStream(s, <<>>, b), s # <<>>
  PROVE  Head(s) = "W" /\ InStream(Tail(s), <<>>, b)
<1> USE DEF InStream
<1>1. \A p \in 1 .. Len(s) : s[p] = "W"
  BY DEF AnswersIn
<1>2. Len(s) \in Nat \ {0}
  BY EmptySeq
<1>3. /\ Tail(s) \in Seq(Characters) /\ Len(Tail(s)) = Len(s) - 1
      /\ \A i \in 1 .. Len(Tail(s)) : Tail(s)[i] = s[i + 1]
  BY HeadTailProperties
<1>4. \A i \in 1 .. Len(Tail(s)) : Tail(s)[i] = "W"
  BY <1>1, <1>2, <1>3
<1>5. AnswersIn(Tail(s), <<>>, b)
  BY <1>4 DEF AnswersIn
<1>6. Head(s) = s[1]
  BY <1>2
<1>7. QED
  BY <1>1, <1>2, <1>3, <1>5, <1>6

-----------------------------------------------------------------------------
(* Speeds.                                                                 *)

\* The two hexadecimal digits carry every accepted speed: a speed of the motor's range is
\* accepted and comes out as it went in, any other int that a char takes comes out in range.
LEMMA SpeedIsCommanded ==
  ASSUME NEW c, NEW v \in Int
  PROVE  /\ Accepted(v) => CommandedSpeed(Command(c, v)) \in -MAX_SPEED .. MAX_SPEED
         /\ v \in -MAX_SPEED .. MAX_SPEED =>
              Accepted(v) /\ CommandedSpeed(Command(c, v)) = v
<1> DEFINE M == Magnitude(v)
<1>1. ASSUME NEW m \in 0 .. 127
      PROVE  fromHex(toHex(m)) = m
  <2>1. toHex(m)[1] = m \div 16 /\ toHex(m)[2] = m % 16
    BY DEF toHex
  <2>2. ((m \div 16) * 16 + (m % 16)) % 256 = m
    <3>1. (m \div 16) * 16 + (m % 16) = m
      OBVIOUS
    <3>2. m % 256 = m
      OBVIOUS
    <3>3. QED
      BY <3>1, <3>2
  <2>3. QED
    BY <2>1, <2>2 DEF fromHex
<1>2. v \in -127 .. 127 => M = IF v < 0 THEN -v ELSE v
  BY DEF Magnitude, Narrow
<1>3. /\ Command(c, v).reverse = (v < 0)
      /\ Command(c, v).digits = toHex(M)
  BY DEF Command
<1> HIDE DEF M
<1>4. ASSUME M \in 0 .. 127
      PROVE  CommandedSpeed(Command(c, v)) = IF v < 0 THEN -M ELSE M
  <2>1. fromHex(toHex(M)) = M
    BY <1>1, <1>4
  <2>2. QED
    BY <1>3, <2>1 DEF CommandedSpeed
<1>5. Accepted(v) <=> M \in 0 .. 127
  BY DEF Accepted, MAX_SPEED, M
<1>6. ASSUME Accepted(v) PROVE CommandedSpeed(Command(c, v)) \in -127 .. 127
  BY <1>4, <1>5, <1>6
<1>7. ASSUME v \in -127 .. 127
      PROVE  Accepted(v) /\ CommandedSpeed(Command(c, v)) = v
  <2>1. M \in 0 .. 127
    BY <1>2, <1>7
  <2>2. QED
    BY <1>2, <1>4, <1>5, <1>7, <2>1
<1>8. QED
  BY <1>6, <1>7 DEF MAX_SPEED

-----------------------------------------------------------------------------
(***************************************************************************)
(* The inductive invariant: what has been asked and not been read is on    *)
(* the wire, in order and whole (WireInv), each motor obeys its key        *)
(* (DriveInv), and the controller has not been given up.                   *)
(***************************************************************************)
Loops == {"idle", "motor", "client", "handshake", "terminated"}

WireInv ==
  /\ expectedResponses \in Seq(Expectations)
  /\ fromMotor \in Seq(Characters)
  /\ motorOut \in Seq(Characters)
  /\ Stream(fromMotor \o motorOut, expectedResponses)

Obeyed(c) ==
  port = "ok" /\ c \notin tripped /\ motors[c] \in -MAX_SPEED .. MAX_SPEED =>
    speed[c] = motors[c]

DriveInv ==
  /\ motors \in [Channel -> Speeds \cup Texts \cup {Unset}]
  /\ speed \in [Channel -> -MAX_SPEED .. MAX_SPEED]
  /\ tripped \subseteq Channel
  /\ \A c \in Channel : Obeyed(c)

CoreInv ==
  /\ loop \in Loops
  /\ silence \in 0 .. SilenceLimit
  /\ port \in {"ok", "gone"}
  /\ WireInv
  /\ DriveInv

MotorInv == CoreInv /\ inbox \in Seq({Size} \cup Messages)

\* The invariant gives the type invariant and the two properties.
LEMMA MotorInvMeans ==
  MotorInv => TypeOK /\ FollowsState /\ NotGivenUp
<1>1. SUFFICES ASSUME MotorInv PROVE TypeOK /\ FollowsState /\ NotGivenUp
  OBVIOUS
<1> USE DEF MotorInv, CoreInv
<1>2. TypeOK
  BY <1>1 DEF TypeOK, Loops, WireInv, DriveInv, Characters
<1>3. NotGivenUp
  BY <1>1 DEF NotGivenUp
<1>4. FollowsState
  BY <1>1, <1>2 DEF FollowsState, DriveInv, Obeyed
<1>5. QED
  BY <1>2, <1>3, <1>4

\* The constants, as the proofs use them.
LEMMA ConstantTypes ==
  /\ SilenceLimit \in Nat \ {0}
  /\ Speeds \subseteq -MAX_SPEED .. MAX_SPEED
  /\ -MAX_SPEED .. MAX_SPEED \subseteq Int
  /\ Unset \notin Texts /\ Unset \notin Int
BY BoundAssumption, SpeedAssumption, UnsetAssumption DEF MAX_SPEED

\* The constructor has sent reset(), whose answer is on its way.
LEMMA InitInv == Init => MotorInv
<1>1. SUFFICES ASSUME Init PROVE MotorInv
  OBVIOUS
<1> USE DEF Init
<1>2. loop \in Loops /\ silence \in 0 .. SilenceLimit /\ port \in {"ok", "gone"}
  BY <1>1, ConstantTypes DEF Loops
<1>3. WireInv
  <2> DEFINE a == ControllerAnswer("RESET")
  <2>1. "RESET" \in Expectations
    BY DEF Expectations
  <2>2. <<>> \in Seq(Characters) /\ Len(<<>>) = 0 /\ <<>> \in Seq(Expectations)
    BY EmptySeq
  <2>3. InStream(<<>>, <<>>, <<>>)
    BY <2>2 DEF InStream, AnswersIn
  <2>4. PICK c : InStream(<<>> \o a, Append(<<>>, "RESET"), c)
    BY <2>1, <2>3, AnswerAppended
  <2>5. Append(<<>>, "RESET") = <<"RESET">>
    OBVIOUS
  <2>6. a \in Seq(Characters)
    BY <2>1, AnswerIs
  <2>7. <<>> \o a \in Seq(Characters) /\ <<"RESET">> \in Seq(Expectations)
    BY <2>4, <2>5 DEF InStream
  <2> HIDE DEF a
  <2>8. Stream(<<>> \o a, <<"RESET">>)
    BY <2>4, <2>5, <2>7, StreamIs
  <2>9. QED
    BY <1>1, <2>2, <2>6, <2>7, <2>8 DEF WireInv, a
<1>4. DriveInv
  <2>1. 0 \in -MAX_SPEED .. MAX_SPEED
    BY DEF MAX_SPEED
  <2>2. \A c \in Channel : motors[c] = Unset
    BY <1>1
  <2>3. \A c \in Channel : Obeyed(c)
    BY <2>2, ConstantTypes DEF Obeyed
  <2>4. motors \in [Channel -> Speeds \cup Texts \cup {Unset}]
    BY <1>1
  <2>5. speed \in [Channel -> -MAX_SPEED .. MAX_SPEED]
    BY <1>1, <2>1
  <2>6. QED
    BY <1>1, <2>3, <2>4, <2>5 DEF DriveInv
<1>5. inbox \in Seq({Size} \cup Messages)
  BY <1>1
<1>6. QED
  BY <1>2, <1>3, <1>4, <1>5 DEF MotorInv, CoreInv

\* Steps that leave the motors and the wire alone.
LEMMA CoreKept ==
  ASSUME CoreInv, loop' \in Loops, UNCHANGED <<motors, motorVars, port>>
  PROVE  CoreInv'
<1>1. WireInv'
  <2>1. fromMotor' = fromMotor /\ motorOut' = motorOut /\ expectedResponses' = expectedResponses
    BY DEF motorVars
  <2>2. QED
    BY <2>1 DEF CoreInv, WireInv
<1>2. DriveInv'
  BY DEF CoreInv, DriveInv, motorVars, Obeyed
<1>3. QED
  BY <1>1, <1>2 DEF CoreInv, motorVars

\* A request and its answer go to the ends of the two queues.
LEMMA RequestKeeps ==
  ASSUME WireInv, NEW kind \in Expectations, Request(kind), UNCHANGED fromMotor
  PROVE  WireInv'
<1> DEFINE s == fromMotor \o motorOut
           a == ControllerAnswer(kind)
<1>1. /\ fromMotor' = fromMotor /\ motorOut' = motorOut \o a
      /\ expectedResponses' = Append(expectedResponses, kind)
  BY DEF Request
<1>2. /\ fromMotor \in Seq(Characters) /\ motorOut \in Seq(Characters) /\ a \in Seq(Characters)
      /\ expectedResponses \in Seq(Expectations)
  BY AnswerIs DEF WireInv
<1> HIDE DEF a
<1>3. fromMotor' \o motorOut' = s \o a
  <2>1. (fromMotor \o motorOut) \o a = fromMotor \o (motorOut \o a)
    BY <1>2, ConcatAssociative
  <2>2. QED
    BY <1>1, <2>1
<1>4. /\ motorOut' \in Seq(Characters) /\ expectedResponses' \in Seq(Expectations)
      /\ s \in Seq(Characters) /\ s \o a \in Seq(Characters)
  BY <1>1, <1>2, ConcatProperties, AppendProperties
<1>5. Stream(s, expectedResponses)
  BY DEF WireInv
<1> HIDE DEF s
<1>6. PICK b : InStream(s, expectedResponses, b)
  BY <1>2, <1>4, <1>5, StreamIs
<1>7. PICK c : InStream(s \o a, Append(expectedResponses, kind), c)
  BY <1>6, AnswerAppended DEF a
<1>8. Stream(s \o a, Append(expectedResponses, kind))
  BY <1>1, <1>4, <1>7, StreamIs
<1>9. Stream(fromMotor' \o motorOut', expectedResponses')
  BY <1>1, <1>3, <1>8
<1>10. QED
  BY <1>1, <1>2, <1>4, <1>9 DEF WireInv

\* One substate is set.
LEMMA MotorsTyped ==
  ASSUME CoreInv, NEW c \in Channel, NEW v \in Speeds \cup Texts,
         motors' = [motors EXCEPT ![c] = v]
  PROVE  /\ motors' \in [Channel -> Speeds \cup Texts \cup {Unset}]
         /\ motors'[c] = v
         /\ \A d \in Channel : d # c => motors'[d] = motors[d]
<1>1. motors \in [Channel -> Speeds \cup Texts \cup {Unset}]
  BY DEF CoreInv, DriveInv
<1>2. QED
  BY <1>1

\* State::set() without a command: the key did not change, is no speed, or the cable is gone.
LEMMA UnsentKeeps ==
  ASSUME CoreInv, NEW c \in Channel, NEW v \in Speeds \cup Texts,
         motors' = [motors EXCEPT ![c] = v], UNCHANGED <<motorVars, port>>, loop' \in Loops,
         v = motors[c] \/ port # "ok" \/ v \notin -MAX_SPEED .. MAX_SPEED
  PROVE  CoreInv'
<1>1. /\ fromMotor' = fromMotor /\ motorOut' = motorOut /\ expectedResponses' = expectedResponses
      /\ speed' = speed /\ silence' = silence /\ tripped' = tripped /\ port' = port
  BY DEF motorVars
<1>2. WireInv'
  BY <1>1 DEF CoreInv, WireInv
<1>3. /\ motors' \in [Channel -> Speeds \cup Texts \cup {Unset}]
      /\ motors'[c] = v
      /\ \A d \in Channel : d # c => motors'[d] = motors[d]
  BY MotorsTyped
<1>4. ASSUME NEW d \in Channel PROVE Obeyed(d)'
  <2>1. Obeyed(d)
    BY DEF CoreInv, DriveInv
  <2>2. CASE d # c \/ v = motors[c]
    <3>1. motors'[d] = motors[d]
      BY <1>3, <2>2
    <3>2. QED
      BY <1>1, <2>1, <3>1 DEF Obeyed
  <2>3. CASE d = c /\ port # "ok"
    BY <1>1, <2>3 DEF Obeyed
  <2>4. CASE d = c /\ v \notin -MAX_SPEED .. MAX_SPEED
    BY <1>3, <2>4 DEF Obeyed
  <2>5. QED
    BY <2>2, <2>3, <2>4
<1>5. DriveInv'
  BY <1>1, <1>3, <1>4 DEF CoreInv, DriveInv
<1>6. QED
  BY <1>1, <1>2, <1>5 DEF CoreInv

\* State::set() with a command: the motor gets the speed of its key.
LEMMA SentKeeps ==
  ASSUME CoreInv, NEW c \in Channel, NEW v \in Speeds \cup Texts, v \in Int, Accepted(v),
         motors' = [motors EXCEPT ![c] = v], port' = port, loop' = "idle",
         Request("COMMAND"), UNCHANGED fromMotor,
         speed' = [speed EXCEPT ![c] = CommandedSpeed(Command(c, v))],
         tripped' = tripped \ {c}
  PROVE  CoreInv'
<1>1. WireInv'
  BY RequestKeeps DEF CoreInv, Expectations
<1>2. silence' = 0
  BY DEF Request
<1>3. /\ motors' \in [Channel -> Speeds \cup Texts \cup {Unset}]
      /\ motors'[c] = v
      /\ \A d \in Channel : d # c => motors'[d] = motors[d]
  BY MotorsTyped
<1>4. PICK w : w = CommandedSpeed(Command(c, v))
  OBVIOUS
<1>5. w \in -MAX_SPEED .. MAX_SPEED /\ (v \in -MAX_SPEED .. MAX_SPEED => w = v)
  BY <1>4, SpeedIsCommanded
<1>6. /\ speed' \in [Channel -> -MAX_SPEED .. MAX_SPEED]
      /\ speed'[c] = w
      /\ \A d \in Channel : d # c => speed'[d] = speed[d]
  <2>1. speed \in [Channel -> -MAX_SPEED .. MAX_SPEED] /\ speed' = [speed EXCEPT ![c] = w]
    BY <1>4 DEF CoreInv, DriveInv
  <2>2. QED
    BY <1>5, <2>1
<1>7. ASSUME NEW d \in Channel PROVE Obeyed(d)'
  <2>1. Obeyed(d)
    BY DEF CoreInv, DriveInv
  <2>2. CASE d = c
    BY <1>3, <1>5, <1>6, <2>2 DEF Obeyed
  <2>3. CASE d # c
    <3>1. motors'[d] = motors[d] /\ speed'[d] = speed[d] /\ (d \in tripped' <=> d \in tripped)
      BY <1>3, <1>6, <2>3
    <3>2. QED
      BY <2>1, <3>1 DEF Obeyed
  <2>4. QED
    BY <2>2, <2>3
<1>8. DriveInv'
  <2>1. tripped' \subseteq Channel
    BY DEF CoreInv, DriveInv
  <2>2. QED
    BY <1>3, <1>6, <1>7, <2>1 DEF DriveInv
<1>9. QED
  BY <1>1, <1>2, <1>8, ConstantTypes DEF CoreInv, Loops

\* State::set() of a motor key, whoever calls it.
LEMMA SetSubstateKeeps ==
  ASSUME CoreInv, NEW c \in Channel, NEW v \in Speeds \cup Texts, SetSubstate(c, v), port' = port
  PROVE  CoreInv'
<1>1. motors' = [motors EXCEPT ![c] = v] /\ port \in {"ok", "gone"}
  BY DEF SetSubstate, CoreInv
<1>2. "idle" \in Loops /\ "terminated" \in Loops
  BY DEF Loops
<1>3. CASE v = motors[c] \/ ~Numeric(v)
  <2>1. loop' = "idle" /\ UNCHANGED motorVars
    BY <1>3 DEF SetSubstate
  <2>2. v = motors[c] \/ v \notin -MAX_SPEED .. MAX_SPEED
    BY <1>3, ConstantTypes DEF Numeric
  <2>3. QED
    BY <1>1, <1>2, <2>1, <2>2, UnsentKeeps
<1>4. CASE v # motors[c] /\ Numeric(v)
  <2>1. setSpeed(c, v) /\ v \in Int
    BY <1>1, <1>4 DEF SetSubstate, Numeric
  <2>2. CASE ~Accepted(v)
    <3>1. loop' = "idle" /\ UNCHANGED motorVars
      BY <2>1, <2>2 DEF setSpeed
    <3>2. v \notin -MAX_SPEED .. MAX_SPEED
      BY <2>1, <2>2, SpeedIsCommanded
    <3>3. QED
      BY <1>1, <1>2, <3>1, <3>2, UnsentKeeps
  <2>3. CASE Accepted(v) /\ port = "gone"
    <3>1. loop' = "terminated" /\ UNCHANGED motorVars
      BY <2>1, <2>3 DEF setSpeed
    <3>2. port # "ok"
      BY <2>3
    <3>3. QED
      BY <1>1, <1>2, <3>1, <3>2, UnsentKeeps
  <2>4. CASE Accepted(v) /\ port # "gone"
    <3>1. /\ Request("COMMAND") /\ loop' = "idle" /\ UNCHANGED fromMotor
          /\ speed' = [speed EXCEPT ![c] = CommandedSpeed(Command(c, v))]
          /\ tripped' = tripped \ {c}
      BY <2>1, <2>4 DEF setSpeed
    <3>2. QED
      BY <1>1, <2>1, <2>4, <3>1, SentKeeps
  <2>5. QED
    BY <2>2, <2>3, <2>4
<1>5. QED
  BY <1>3, <1>4

\* An interval: resetWatchdog(), the autopilot, the dead man's switch.
LEMMA IntervalKeeps == MotorInv /\ Interval => MotorInv'
<1>1. SUFFICES ASSUME MotorInv, Interval PROVE MotorInv'
  OBVIOUS
<1>2. CoreInv /\ inbox' = inbox /\ port' = port
  BY <1>1 DEF MotorInv, Interval, clientVars
<1>3. CoreInv'
  <2>1. CASE /\ loop' = "terminated" /\ UNCHANGED <<motors, motorVars>>
    <3>1. loop' \in Loops
      BY <2>1 DEF Loops
    <3>2. QED
      BY <1>2, <2>1, <3>1, CoreKept
  <2>2. CASE /\ silence' = 0
             /\ UNCHANGED <<motors, expectedResponses, fromMotor, motorOut, speed, tripped, loop>>
    <3>1. WireInv'
      BY <1>2, <2>2 DEF CoreInv, WireInv
    <3>2. DriveInv'
      BY <1>2, <2>2 DEF CoreInv, DriveInv, Obeyed
    <3>3. QED
      BY <1>2, <2>2, <3>1, <3>2, ConstantTypes DEF CoreInv
  <2>3. ASSUME NEW c \in Channel, NEW v \in Speeds, SetSubstate(c, v)
        PROVE  CoreInv'
    BY <1>2, <2>3, SetSubstateKeeps
  <2>4. QED
    BY <1>1, <2>1, <2>2, <2>3 DEF Interval
<1>4. QED
  BY <1>1, <1>2, <1>3 DEF MotorInv

\* requestBatteryVoltage().
LEMMA BatteryKeeps == MotorInv /\ requestBatteryVoltage => MotorInv'
<1>1. SUFFICES ASSUME MotorInv, requestBatteryVoltage PROVE MotorInv'
  OBVIOUS
<1>2. /\ Request("MAIN_BATT") /\ silence' = 0
      /\ UNCHANGED <<loop, motors, fromMotor, speed, tripped, port, inbox>>
  BY <1>1 DEF requestBatteryVoltage, Request, clientVars
<1>3. WireInv'
  BY <1>1, <1>2, RequestKeeps DEF MotorInv, CoreInv, Expectations
<1>4. DriveInv'
  BY <1>1, <1>2 DEF MotorInv, CoreInv, DriveInv, Obeyed
<1>5. QED
  BY <1>1, <1>2, <1>3, <1>4, ConstantTypes DEF MotorInv, CoreInv

\* The wire changes and nothing else but silence.
LEMMA WireOnly ==
  ASSUME MotorInv, WireInv', silence' \in 0 .. SilenceLimit, loop' \in Loops,
         UNCHANGED <<motors, speed, tripped, port, clientVars>>
  PROVE  MotorInv'
<1>1. DriveInv'
  BY DEF MotorInv, CoreInv, DriveInv, Obeyed
<1>2. QED
  BY <1>1 DEF MotorInv, CoreInv, clientVars

\* Something comes although nothing was asked: it is a "W", and the object stays.
LEMMA UnaskedKeeps == MotorInv /\ Unasked => MotorInv'
<1>1. SUFFICES ASSUME MotorInv, Unasked PROVE MotorInv'
  OBVIOUS
<1>2. /\ fromMotor # <<>> /\ expectedResponses = <<>> /\ expectedResponses' = <<>>
      /\ UNCHANGED <<loop, motors, tripped, clientVars>>
  BY <1>1 DEF Unasked, Readable
<1>3. /\ fromMotor \in Seq(Characters) /\ motorOut \in Seq(Characters)
      /\ Stream(fromMotor \o motorOut, <<>>)
  BY <1>1, <1>2 DEF MotorInv, CoreInv, WireInv
<1>4. PICK s : s = fromMotor \o motorOut
  OBVIOUS
<1>5. /\ s \in Seq(Characters) /\ s # <<>> /\ Head(s) = Head(fromMotor)
      /\ Tail(fromMotor) \in Seq(Characters)
      /\ Tail(s) = Tail(fromMotor) \o motorOut
  BY <1>2, <1>3, <1>4
<1>6. <<>> \in Seq(Expectations)
  BY EmptySeq
<1>7. PICK b : InStream(s, <<>>, b)
  BY <1>3, <1>4, <1>5, <1>6, StreamIs
<1>8. Head(s) = "W" /\ InStream(Tail(s), <<>>, b)
  BY <1>5, <1>7, NothingAsked
<1>9. /\ fromMotor' = Tail(fromMotor) /\ silence' = 0
      /\ UNCHANGED <<speed, port, motorOut>>
  BY <1>1, <1>5, <1>8 DEF Unasked
<1>10. WireInv'
  <2>1. Tail(s) \in Seq(Characters)
    BY <1>8 DEF InStream
  <2>2. Stream(Tail(s), <<>>)
    BY <1>6, <1>8, <2>1, StreamIs
  <2>3. QED
    BY <1>2, <1>3, <1>5, <1>6, <1>9, <2>2 DEF WireInv
<1>11. silence' \in 0 .. SilenceLimit /\ loop' \in Loops
  BY <1>1, <1>2, <1>9, ConstantTypes DEF MotorInv, CoreInv
<1>12. QED
  BY <1>1, <1>2, <1>9, <1>10, <1>11, WireOnly

\* onActivity() reads exactly the oldest answer, or waits for the rest of it.
LEMMA ReadAnswerKeeps == MotorInv /\ ReadAnswer => MotorInv'
<1>1. SUFFICES ASSUME MotorInv, ReadAnswer PROVE MotorInv'
  OBVIOUS
<1>2. /\ expectedResponses # <<>>
      /\ UNCHANGED <<motors, motorOut, speed, silence, tripped, port, clientVars>>
  BY <1>1 DEF ReadAnswer
<1>3. silence' \in 0 .. SilenceLimit /\ "idle" \in Loops /\ "motor" \in Loops
  BY <1>1, <1>2 DEF MotorInv, CoreInv, Loops
<1>4. /\ fromMotor \in Seq(Characters) /\ motorOut \in Seq(Characters)
      /\ expectedResponses \in Seq(Expectations)
      /\ Stream(fromMotor \o motorOut, expectedResponses)
  BY <1>1 DEF MotorInv, CoreInv, WireInv
<1>5. Head(expectedResponses) = expectedResponses[1]
  OBVIOUS
<1> DEFINE kind == expectedResponses[1]
           T == Taken(kind, fromMotor)
<1>6. CASE ~AllCame(kind, fromMotor)
  <2>1. loop' = "motor" /\ UNCHANGED <<fromMotor, expectedResponses>>
    BY <1>1, <1>5, <1>6 DEF ReadAnswer
  <2>2. WireInv'
    BY <1>1, <1>2, <2>1 DEF MotorInv, CoreInv, WireInv
  <2>3. QED
    BY <1>1, <1>2, <1>3, <2>1, <2>2, WireOnly
<1>7. CASE AllCame(kind, fromMotor)
  <2>1. /\ fromMotor' = SubSeq(fromMotor, T + 1, Len(fromMotor))
        /\ expectedResponses' = Tail(expectedResponses)
        /\ loop' = "idle"
    BY <1>1, <1>5, <1>7 DEF ReadAnswer
  <2>2. fromMotor \o motorOut \in Seq(Characters)
    BY <1>4, ConcatProperties
  <2>3. PICK b : InStream(fromMotor \o motorOut, expectedResponses, b)
    BY <1>4, <2>2, StreamIs
  <2>4. T = b[1] + AnswerLength(kind) /\ b[1] + AnswerLength(kind) <= Len(fromMotor)
    BY <1>2, <1>4, <1>7, <2>3, TakenIs
  <2>5. T \in Nat /\ T <= Len(fromMotor)
    <3>1. PICK s : s = fromMotor \o motorOut
      OBVIOUS
    <3>2. InStream(s, expectedResponses, b)
      BY <2>3, <3>1
    <3>3. b[1] \in Nat /\ 1 \in 1 .. Len(expectedResponses)
      BY <1>2, <3>2, OldestFirst
    <3>4. AnswerLength(kind) \in {3, 11}
      BY <1>4, <3>3, LengthsAre
    <3>5. QED
      BY <2>4, <3>3, <3>4
  <2> HIDE DEF T, kind
  <2>6. PICK f : f = SubSeq(fromMotor, T + 1, Len(fromMotor))
    OBVIOUS
  <2>7. /\ f \in Seq(Characters)
        /\ SubSeq(fromMotor \o motorOut, T + 1, Len(fromMotor \o motorOut)) = f \o motorOut
    BY <1>4, <2>5, <2>6, SuffixOfConcat
  <2>8. Tail(expectedResponses) \in Seq(Expectations)
    BY <1>2, <1>4, HeadTailProperties
  <2>9. Stream(f \o motorOut, Tail(expectedResponses))
    <3>1. PICK s : s = fromMotor \o motorOut
      OBVIOUS
    <3>2. InStream(s, expectedResponses, b)
      BY <2>3, <3>1
    <3>3. PICK c : InStream(SubSeq(s, T + 1, Len(s)), Tail(expectedResponses), c)
      BY <1>2, <2>4, <3>2, AnswerDropped DEF kind
    <3>4. SubSeq(s, T + 1, Len(s)) = f \o motorOut
      BY <2>7, <3>1
    <3>5. f \o motorOut \in Seq(Characters)
      BY <1>4, <2>7, ConcatProperties
    <3>6. QED
      BY <2>8, <3>3, <3>4, <3>5, StreamIs
  <2>10. WireInv'
    BY <1>2, <1>4, <2>1, <2>6, <2>7, <2>8, <2>9 DEF WireInv
  <2>11. QED
    BY <1>1, <1>2, <1>3, <2>1, <2>10, WireOnly
<1>8. QED
  BY <1>6, <1>7

\* Characters move from the controller to the host in order.
LEMMA MotorSendsKeeps == MotorInv /\ MotorSends => MotorInv'
<1>1. SUFFICES ASSUME MotorInv, MotorSends PROVE MotorInv'
  OBVIOUS
<1>2. UNCHANGED <<loop, motors, expectedResponses, speed, silence, tripped, port, clientVars>>
  BY <1>1 DEF MotorSends
<1>3. PICK n \in 1 .. Len(motorOut) :
        /\ fromMotor' = fromMotor \o SubSeq(motorOut, 1, n)
        /\ motorOut' = SubSeq(motorOut, n + 1, Len(motorOut))
  BY <1>1 DEF MotorSends
<1>4. WireInv
  BY <1>1 DEF MotorInv, CoreInv
<1>5. /\ fromMotor' \in Seq(Characters) /\ motorOut' \in Seq(Characters)
      /\ fromMotor' \o motorOut' = fromMotor \o motorOut
  <2> DEFINE x == SubSeq(motorOut, 1, n)
             y == SubSeq(motorOut, n + 1, Len(motorOut))
  <2>1. fromMotor \in Seq(Characters) /\ motorOut \in Seq(Characters)
    BY <1>4 DEF WireInv
  <2>2. x \in Seq(Characters) /\ y \in Seq(Characters) /\ x \o y = motorOut
    BY <2>1, SplitIsWhole
  <2> HIDE DEF x, y
  <2>3. fromMotor \o x \in Seq(Characters)
    BY <2>1, <2>2, ConcatProperties
  <2>4. (fromMotor \o x) \o y = fromMotor \o motorOut
    <3>1. fromMotor \in Seq(Characters) /\ x \in Seq(Characters) /\ y \in Seq(Characters)
      BY <2>1, <2>2
    <3>2. (fromMotor \o x) \o y = fromMotor \o (x \o y)
      BY <3>1, ConcatAssociative
    <3>3. QED
      BY <2>2, <3>2
  <2>5. QED
    BY <1>3, <2>2, <2>3, <2>4 DEF x, y
<1>6. WireInv'
  BY <1>2, <1>4, <1>5 DEF WireInv
<1>7. QED
  BY <1>1, <1>2, <1>6, WireOnly DEF MotorInv, CoreInv

\* The controller's watchdog stops the motors.
LEMMA MotorTripsKeeps == MotorInv /\ MotorTrips => MotorInv'
<1>1. SUFFICES ASSUME MotorInv, MotorTrips PROVE MotorInv'
  OBVIOUS
<1>2. /\ speed' = [c \in Channel |-> 0] /\ tripped' = Channel
      /\ motorOut' = Append(motorOut, "W")
      /\ UNCHANGED <<loop, motors, expectedResponses, fromMotor, silence, port, inbox>>
  BY <1>1 DEF MotorTrips, clientVars
<1>3. WireInv'
  <2>1. /\ fromMotor \in Seq(Characters) /\ motorOut \in Seq(Characters) /\ "W" \in Characters
        /\ expectedResponses \in Seq(Expectations)
        /\ Stream(fromMotor \o motorOut, expectedResponses)
    BY <1>1 DEF MotorInv, CoreInv, WireInv, Characters
  <2>2. PICK s : s = fromMotor \o motorOut
    OBVIOUS
  <2>3. s \in Seq(Characters)
    BY <2>1, <2>2, ConcatProperties
  <2>4. fromMotor \o Append(motorOut, "W") = Append(s, "W")
    BY <2>1, <2>2
  <2>5. PICK b : InStream(s, expectedResponses, b)
    BY <2>1, <2>2, <2>3, StreamIs
  <2>6. InStream(Append(s, "W"), expectedResponses, b)
    BY <2>5, WatchdogAppended
  <2>7. Append(s, "W") \in Seq(Characters) /\ Append(motorOut, "W") \in Seq(Characters)
    BY <2>1, <2>3, AppendProperties
  <2>8. Stream(Append(s, "W"), expectedResponses)
    BY <2>1, <2>6, <2>7, StreamIs
  <2>9. QED
    BY <1>2, <2>1, <2>4, <2>7, <2>8 DEF WireInv
<1>4. DriveInv'
  <2>1. 0 \in -MAX_SPEED .. MAX_SPEED
    BY DEF MAX_SPEED
  <2>2. speed' \in [Channel -> -MAX_SPEED .. MAX_SPEED]
    BY <1>2, <2>1
  <2>3. \A c \in Channel : Obeyed(c)'
    BY <1>2 DEF Obeyed
  <2>4. QED
    BY <1>1, <1>2, <2>2, <2>3 DEF MotorInv, CoreInv, DriveInv
<1>5. QED
  BY <1>1, <1>2, <1>3, <1>4 DEF MotorInv, CoreInv

\* Time passes.
LEMMA TickKeeps == MotorInv /\ Tick => MotorInv'
<1>1. SUFFICES ASSUME MotorInv, Tick PROVE MotorInv'
  OBVIOUS
<1>2. silence' \in 0 .. SilenceLimit
  <2>1. silence \in 0 .. SilenceLimit /\ silence' = silence + 1
    BY <1>1 DEF MotorInv, CoreInv, Tick
  <2>2. silence < SilenceLimit
    <3>1. \/ silence < SilenceLimit - 1
          \/ silence < SilenceLimit
      BY <1>1 DEF Tick
    <3>2. QED
      BY <2>1, <3>1, ConstantTypes
  <2>3. QED
    BY <2>1, <2>2, ConstantTypes
<1>3. UNCHANGED <<loop, motors, expectedResponses, fromMotor, motorOut, speed, tripped, port, clientVars>>
  BY <1>1 DEF Tick
<1>4. WireInv'
  BY <1>1, <1>3 DEF MotorInv, CoreInv, WireInv
<1>5. QED
  BY <1>1, <1>2, <1>3, <1>4, WireOnly DEF MotorInv, CoreInv

\* The cable is lost: nothing is promised of the motors any more.
LEMMA UnplugKeeps == MotorInv /\ Unplug => MotorInv'
<1>1. SUFFICES ASSUME MotorInv, Unplug PROVE MotorInv'
  OBVIOUS
<1>2. /\ port' = "gone"
      /\ UNCHANGED <<loop, motors, expectedResponses, fromMotor, motorOut, speed, silence, tripped, inbox>>
  BY <1>1 DEF Unplug, motorVars, clientVars
<1>3. WireInv'
  BY <1>1, <1>2 DEF MotorInv, CoreInv, WireInv
<1>4. DriveInv'
  BY <1>1, <1>2 DEF MotorInv, CoreInv, DriveInv, Obeyed
<1>5. QED
  BY <1>1, <1>2, <1>3, <1>4 DEF MotorInv, CoreInv

\* A message of the client, which may set a motor key.
LEMMA HandleMessageKeeps == MotorInv /\ HandleMessage => MotorInv'
<1>1. SUFFICES ASSUME MotorInv, HandleMessage PROVE MotorInv'
  OBVIOUS
<1> DEFINE All == {Size} \cup Messages
<1>2. Len(inbox) \in Nat /\ 2 \in 1 .. Len(inbox) /\ inbox \in Seq(All)
  BY <1>1 DEF HandleMessage, MotorInv
<1>3. inbox[2] \in All
  <2> HIDE DEF All
  <2>1. QED
    BY <1>2, ElementOfSeq
<1>4. inbox' \in Seq(All) /\ port' = port
  <2> HIDE DEF All
  <2>1. port' = port /\ (inbox' = SubSeq(inbox, 3, Len(inbox)) \/ inbox' = <<>>)
    BY <1>1 DEF HandleMessage, Handled
  <2>2. <<>> \in Seq(All) /\ SubSeq(inbox, 3, Len(inbox)) \in Seq(All)
    BY <1>2
  <2>3. QED
    BY <2>1, <2>2
<1>5. CASE inbox[2].kind = "set"
  <2>1. PICK c \in Channel, v \in Texts : inbox[2] = [kind |-> "set", channel |-> c, value |-> v]
    <3>1. inbox[2] # Size /\ inbox[2] # [kind |-> "bad"] /\ inbox[2] # [kind |-> "get"]
      BY <1>5 DEF Size
    <3>2. QED
      BY <1>3, <3>1 DEF Messages
  <2>2. inbox[2].channel = c /\ inbox[2].value = v
    BY <2>1
  <2>3. SetSubstate(c, v)
    BY <1>1, <1>5, <2>2 DEF HandleMessage
  <2>4. CoreInv'
    BY <1>1, <1>4, <2>3, SetSubstateKeeps DEF MotorInv
  <2>5. QED
    BY <1>4, <2>4 DEF MotorInv
<1>6. CASE inbox[2].kind # "set"
  <2>1. loop' = "idle" /\ UNCHANGED <<motors, motorVars>>
    BY <1>1, <1>6 DEF HandleMessage
  <2>2. CoreInv'
    BY <1>1, <1>4, <2>1, CoreKept DEF MotorInv, Loops
  <2>3. QED
    BY <1>4, <2>2 DEF MotorInv
<1>7. QED
  BY <1>5, <1>6

\* The actions that leave the motors and the wire alone.
LEMMA OthersKeep ==
  ASSUME MotorInv,
         ReadFails \/ Accept \/ AwaitMessage \/ ClientEnds
           \/ Hotplug \/ HandshakeEnds \/ ClientSends \/ ClientCloses
  PROVE  MotorInv'
<1>1. UNCHANGED <<motors, motorVars, port>>
  BY DEF ReadFails, Accept, AwaitMessage, ClientEnds, Hotplug, HandshakeEnds, ClientSends, ClientCloses
<1>2. loop' \in Loops
  BY DEF ReadFails, Accept, AwaitMessage, ClientEnds, Hotplug, HandshakeEnds, ClientSends, ClientCloses,
         MotorInv, CoreInv, Loops
<1>3. inbox' \in Seq({Size} \cup Messages)
  <2> DEFINE All == {Size} \cup Messages
  <2>1. inbox \in Seq(All) /\ <<>> \in Seq(All) /\ Size \in All /\ \A m \in Messages : m \in All
    BY DEF MotorInv
  <2> HIDE DEF All
  <2>2. \A m \in All : Append(inbox, m) \in Seq(All)
    BY <2>1, AppendProperties
  <2>3. CASE ClientSends
    <3>1. inbox' = Append(inbox, Size) \/ \E m \in Messages : inbox' = Append(inbox, m)
      BY <2>3 DEF ClientSends
    <3>2. QED
      BY <2>1, <2>2, <3>1 DEF All
  <2>4. CASE ~ClientSends
    <3>1. inbox' = inbox \/ inbox' = <<>>
      BY <2>4 DEF ReadFails, Accept, AwaitMessage, ClientEnds, Hotplug, HandshakeEnds, ClientCloses, clientVars
    <3>2. QED
      BY <2>1, <3>1 DEF All
  <2>5. QED
    BY <2>3, <2>4
<1>4. CoreInv'
  BY <1>1, <1>2, CoreKept DEF MotorInv
<1>5. QED
  BY <1>3, <1>4 DEF MotorInv

\* Nothing happens.
LEMMA StutterKeeps == MotorInv /\ UNCHANGED vars => MotorInv'
<1>1. SUFFICES ASSUME MotorInv, UNCHANGED vars PROVE MotorInv'
  OBVIOUS
<1>2. UNCHANGED <<loop, motors, motorVars, port, inbox>>
  BY <1>1 DEF vars, clientVars
<1>3. CoreInv'
  BY <1>1, <1>2, CoreKept DEF MotorInv, CoreInv
<1>4. QED
  BY <1>1, <1>2, <1>3 DEF MotorInv

\* One step of any kind.
LEMMA NextKeeps == MotorInv /\ [Next]_vars => MotorInv'
BY IntervalKeeps, BatteryKeeps, UnaskedKeeps, ReadAnswerKeeps, HandleMessageKeeps, MotorSendsKeeps,
   MotorTripsKeeps, TickKeeps, UnplugKeeps, OthersKeep, StutterKeeps
   DEF Next, Motor, Client

-----------------------------------------------------------------------------
(***************************************************************************)
(* The invariant holds: whatever the clients, the controller and the cable *)
(* do, the answers on the wire match the requests that wait for them       *)
(* (Ax3500.cpp:52-220).                                                    *)
(***************************************************************************)
THEOREM MotorInvariantHolds == Spec => []MotorInv
BY InitInv, NextKeeps, PTL DEF Spec

\* Type correctness of the loop, the wire and the motors (Ax3500.h, MotorLoop).
THEOREM MotorTypeCorrect == Spec => []TypeOK
BY MotorInvariantHolds, MotorInvMeans, PTL

(***************************************************************************)
(* Each motor turns as its key says, if that is a speed, unless the        *)
(* controller's watchdog stopped it: through every sequence of settings,   *)
(* refused values, blocked reads and answers (Ax3500.cpp:86-122).          *)
(***************************************************************************)
THEOREM MotorsFollowState == Spec => []FollowsState
BY MotorInvariantHolds, MotorInvMeans, PTL

(***************************************************************************)
(* The controller is not given up while it answers what it was asked, with *)
(* any number of requests under way and a "W" in any place between the     *)
(* answers (Ax3500.cpp:143-220).                                           *)
(***************************************************************************)
THEOREM ControllerKept == Spec => []NotGivenUp
BY MotorInvariantHolds, MotorInvMeans, PTL
=============================================================================
