---------------------------- MODULE LinkProofs ----------------------------
(***************************************************************************)
(* Theorems about an ARD link, for every width of a byte from ten values   *)
(* up, all short texts, whatever junk and whatever the device was in the   *)
(* middle of (ArdLink); and about boards that come and go, for every set   *)
(* of ports and any number of times something is plugged in (HotPlug).     *)
(***************************************************************************)
EXTENDS ArdLink, HotPlug, SequenceTheorems, TLAPS

(***************************************************************************)
(* Datagrams on the line.                                                  *)
(***************************************************************************)

\* At position i of s begins a datagram that a device with an application sends: one for a
\* substate, or the answer to a handshake.
DatagramAt(s, i) ==
  /\ i \in 1 .. Len(s) /\ s[i] >= 2 /\ EndOf(s, i) <= Len(s)
  /\ s[EndOf(s, i)] = Complement(s[i])
  /\ \/ s[i + 1] \in 0 .. 2
     \/ s[i] = 4 /\ s[i + 1] = HANDSHAKE /\ s[i + 2] = AppType /\ s[i + 3] = Uid

(***************************************************************************)
(* The datagrams of s begin at the positions in C, and each is followed by *)
(* the next one; s may begin in the middle of a datagram.  Elsewhere no    *)
(* two bytes could be taken for the first two of an answer to a handshake. *)
(***************************************************************************)
Stream(s, C) ==
  /\ C \subseteq 1 .. Len(s)
  /\ \A c \in C : DatagramAt(s, c) /\ (EndOf(s, c) + 1 \in C \/ EndOf(s, c) = Len(s))
  /\ \A p \in 1 .. Len(s) :
       p \notin C /\ s[p] = 4 => p < Len(s) /\ p + 1 \notin C /\ s[p + 1] # HANDSHAKE

\* Position i, k bytes further on.
Shifted(g, i, k) == g = i + k
\* The datagram at position i of s is also in u, k bytes further on.
Copied(s, i, u, k) ==
  \A j \in i .. EndOf(s, i), h \in Int :
    Shifted(h, j, k) => h \in 1 .. Len(u) /\ u[h] = s[j]

\* The answers to handshakes among the datagrams at C.
Answers(s, C) == {c \in C : s[c + 1] = HANDSHAKE}

LEMMA BytesAre ==
  /\ W \in Nat /\ W >= 10 /\ HANDSHAKE \in Byte /\ HANDSHAKE \in Int /\ HANDSHAKE >= 9
  /\ \A n \in Byte : n \in Int /\ 0 <= n /\ n <= HANDSHAKE
  /\ \A n \in Int : 0 <= n /\ n <= 9 => n \in Byte
  /\ \A n \in Byte : Complement(n) \in Byte /\ Complement(n) = HANDSHAKE - n
BY WAssumption DEF Byte, HANDSHAKE, Complement

\* A datagram stays one when what is before it or behind it changes.
LEMMA DatagramMoves ==
  ASSUME NEW s \in Seq(Byte), NEW u \in Seq(Byte), NEW k \in Int, NEW i \in Int,
         DatagramAt(s, i), NEW g \in Int, Shifted(g, i, k),
         Copied(s, i, u, k)
  PROVE  DatagramAt(u, g) /\ EndOf(u, g) = EndOf(s, i) + k /\ u[g + 1] = s[i + 1]
<1>0. \A j \in 1 .. Len(s) : s[j] \in Byte
  BY ElementOfSeq
<1>1. /\ Len(s) \in Nat /\ Len(u) \in Nat
      /\ \A j \in 1 .. Len(s) : s[j] \in Int
  BY <1>0, BytesAre, LenProperties
<1>2. i \in 1 .. Len(s) /\ s[i] \in Int /\ s[i] >= 2 /\ EndOf(s, i) = i + s[i] /\ i + s[i] <= Len(s)
  BY <1>1 DEF DatagramAt, EndOf
<1>3. i \in i .. EndOf(s, i) /\ i + 1 \in i .. EndOf(s, i) /\ EndOf(s, i) \in i .. EndOf(s, i)
  BY <1>2
<1>4. s[i] = 4 => i + 2 \in i .. EndOf(s, i) /\ i + 3 \in i .. EndOf(s, i)
  BY <1>2
<1>5. g = i + k /\ g + 1 = (i + 1) + k /\ g + 2 = (i + 2) + k /\ g + 3 = (i + 3) + k
  BY DEF Shifted
<1>11. \A j \in i .. EndOf(s, i), h \in Int : h = j + k => h \in 1 .. Len(u) /\ u[h] = s[j]
  BY DEF Copied, Shifted
<1>6. g \in 1 .. Len(u) /\ u[g] = s[i] /\ EndOf(u, g) = EndOf(s, i) + k
  BY <1>2, <1>3, <1>5, <1>11 DEF EndOf
<1>7. EndOf(u, g) \in 1 .. Len(u) /\ u[EndOf(u, g)] = s[EndOf(s, i)]
  BY <1>2, <1>3, <1>5, <1>6, <1>11, SMTT(30)
<1>8. u[g + 1] = s[i + 1]
  <2>1. g + 1 \in Int
    OBVIOUS
  <2> QED BY <2>1, <1>3, <1>5, <1>11
<1>9. s[i] = 4 => u[g + 2] = s[i + 2] /\ u[g + 3] = s[i + 3]
  <2>1. g + 2 \in Int /\ g + 3 \in Int
    OBVIOUS
  <2> QED BY <2>1, <1>4, <1>5, <1>11
<1>10. DatagramAt(u, g)
  <2>1. /\ g \in 1 .. Len(u) /\ u[g] >= 2 /\ EndOf(u, g) <= Len(u)
        /\ u[EndOf(u, g)] = Complement(u[g])
    BY <1>1, <1>2, <1>6, <1>7 DEF DatagramAt
  <2>2. \/ u[g + 1] \in 0 .. 2
        \/ u[g] = 4 /\ u[g + 1] = HANDSHAKE /\ u[g + 2] = AppType /\ u[g + 3] = Uid
    BY <1>6, <1>8, <1>9 DEF DatagramAt
  <2> QED BY <2>1, <2>2 DEF DatagramAt
<1> QED BY <1>6, <1>8, <1>10

\* Nothing is a stream.
LEMMA EmptyStream == Stream(<<>>, {})
<1>1. Len(<<>>) = 0 /\ 1 .. 0 = {}
  BY EmptySeq
<1> QED BY <1>1 DEF Stream

\* What is sent after a stream and begins with a datagram continues it.
Further(D, n) == {n + d : d \in D}

Joined(u, s, t) ==
  /\ Len(u) = Len(s) + Len(t)
  /\ \A i \in 1 .. Len(s) + Len(t) : u[i] = IF i <= Len(s) THEN s[i] ELSE t[i - Len(s)]

LEMMA StreamJoins ==
  ASSUME NEW s \in Seq(Byte), NEW C, Stream(s, C),
         NEW t \in Seq(Byte), NEW D, Stream(t, D), 1 \in D,
         NEW u \in Seq(Byte), Joined(u, s, t)
  PROVE  /\ Stream(u, C \cup Further(D, Len(s)))
         /\ Answers(u, C \cup Further(D, Len(s))) =
              Answers(s, C) \cup Further(Answers(t, D), Len(s))
<1> DEFINE N == {Len(s) + d : d \in D}
           n == Len(s)
<1>1. /\ u \in Seq(Byte) /\ Len(u) = n + Len(t) /\ n \in Nat /\ Len(t) \in Nat
      /\ \A i \in 1 .. n + Len(t) : u[i] = IF i <= n THEN s[i] ELSE t[i - n]
  BY LenProperties DEF Joined
<1>2. \A i \in 1 .. n : u[i] = s[i]
  BY <1>1
<1>3. \A i \in 1 .. Len(t) : i + n \in 1 .. Len(u) /\ u[i + n] = t[i]
  <2> TAKE i \in 1 .. Len(t)
  <2>1. i + n \in 1 .. n + Len(t) /\ ~(i + n <= n) /\ (i + n) - n = i
    BY <1>1
  <2> QED BY <1>1, <2>1
<1>4. /\ C \subseteq 1 .. n /\ D \subseteq 1 .. Len(t)
      /\ \A c \in C : DatagramAt(s, c) /\ (EndOf(s, c) + 1 \in C \/ EndOf(s, c) = n)
      /\ \A d \in D : DatagramAt(t, d) /\ (EndOf(t, d) + 1 \in D \/ EndOf(t, d) = Len(t))
      /\ \A p \in 1 .. n :
           p \notin C /\ s[p] = 4 => p < n /\ p + 1 \notin C /\ s[p + 1] # HANDSHAKE
      /\ \A p \in 1 .. Len(t) :
           p \notin D /\ t[p] = 4 => p < Len(t) /\ p + 1 \notin D /\ t[p + 1] # HANDSHAKE
  BY DEF Stream
<1>5. /\ \A i \in 1 .. n : s[i] \in Int
      /\ \A i \in 1 .. Len(t) : t[i] \in Int
  BY BytesAre, ElementOfSeq
<1>6. \A p \in Int : (p <= n => p \notin N) /\ (p \in N <=> p - n \in D)
  <2> TAKE p \in Int
  <2>1. \A d \in D : d \in Int /\ d >= 1
    BY <1>1, <1>4
  <2>2. p <= n => p \notin N
    BY <1>1, <2>1
  <2>3. p \in N => p - n \in D
    <3> SUFFICES ASSUME NEW d \in D, p = n + d PROVE p - n \in D
      OBVIOUS
    <3>1. p - n = d
      BY <1>1, <2>1
    <3> QED BY <3>1
  <2>4. p - n \in D => p \in N
    <3>1. p = n + (p - n)
      BY <1>1
    <3> QED BY <3>1
  <2> QED BY <2>2, <2>3, <2>4
<1> HIDE DEF N, n
<1>12. n \in Int
  BY <1>1
<1>7. ASSUME NEW c \in C
      PROVE  /\ DatagramAt(u, c) /\ u[c + 1] = s[c + 1]
             /\ EndOf(u, c) + 1 \in C \cup N \/ EndOf(u, c) = Len(u)
  <2> PICK z \in Int : z = 0
    OBVIOUS
  <2>1. DatagramAt(s, c) /\ c \in 1 .. n /\ c \in Int /\ Shifted(c, c, z)
    BY <1>1, <1>4 DEF Shifted
  <2>2. EndOf(s, c) \in Int /\ EndOf(s, c) <= n
    BY <1>1, <1>5, <2>1 DEF DatagramAt, EndOf, n
  <2>3. Copied(s, c, u, z)
    BY <1>1, <1>2, <2>1, <2>2 DEF Copied, Shifted
  <2>4. DatagramAt(u, c) /\ EndOf(u, c) = EndOf(s, c) + z /\ u[c + 1] = s[c + 1]
    BY <1>12, <2>1, <2>3, DatagramMoves
  <2>5. DatagramAt(u, c) /\ EndOf(u, c) = EndOf(s, c) /\ u[c + 1] = s[c + 1]
    BY <2>2, <2>4
  <2>6. CASE EndOf(s, c) + 1 \in C
    BY <2>5, <2>6
  <2>7. CASE EndOf(s, c) = n
    <3>1. n + 1 \in Int /\ (n + 1) - n = 1
      BY <1>1
    <3>2. n + 1 \in N
      BY <1>6, <3>1
    <3> QED BY <2>5, <2>7, <3>2
  <2> QED BY <1>4, <2>5, <2>6, <2>7
<1>8. ASSUME NEW d \in D
      PROVE  /\ DatagramAt(u, n + d) /\ u[(n + d) + 1] = t[d + 1]
             /\ EndOf(u, n + d) + 1 \in C \cup N \/ EndOf(u, n + d) = Len(u)
  <2>1. /\ DatagramAt(t, d) /\ d \in 1 .. Len(t) /\ d \in Int /\ n \in Int
        /\ n + d \in Int
    BY <1>1, <1>4
  <2> PICK g \in Int : g = n + d
    BY <2>1
  <2>8. Shifted(g, d, n)
    BY <2>1 DEF Shifted
  <2>2. EndOf(t, d) \in Int /\ EndOf(t, d) <= Len(t)
    BY <1>1, <1>5, <2>1 DEF DatagramAt, EndOf
  <2>7. ASSUME NEW j \in d .. EndOf(t, d), NEW h \in Int, Shifted(h, j, n)
        PROVE  h \in 1 .. Len(u) /\ u[h] = t[j]
    <3>1. j \in 1 .. Len(t)
      BY <1>1, <2>1, <2>2
    <3>2. h = j + n
      BY <2>7 DEF Shifted
    <3> QED BY <1>3, <3>1, <3>2
  <2>3. Copied(t, d, u, n)
    BY <2>7 DEF Copied
  <2>9. DatagramAt(u, g) /\ EndOf(u, g) = EndOf(t, d) + n /\ u[g + 1] = t[d + 1]
    BY <1>12, <2>1, <2>3, <2>8, DatagramMoves
  <2>4. /\ DatagramAt(u, n + d) /\ EndOf(u, n + d) = EndOf(t, d) + n
        /\ u[(n + d) + 1] = t[d + 1]
    BY <2>9
  <2>5. CASE EndOf(t, d) + 1 \in D
    <3>1. (EndOf(t, d) + n) + 1 \in Int /\ ((EndOf(t, d) + n) + 1) - n = EndOf(t, d) + 1
      BY <1>1, <2>2
    <3>2. (EndOf(t, d) + n) + 1 \in N
      BY <1>6, <3>1, <2>5
    <3> QED BY <2>1, <2>4, <3>2
  <2>6. CASE EndOf(t, d) = Len(t)
    <3>1. EndOf(u, n + d) = Len(u)
      BY <1>1, <2>1, <2>4, <2>6
    <3> QED BY <2>4, <3>1
  <2> QED BY <1>4, <2>5, <2>6
<1>9. C \cup N \subseteq 1 .. Len(u)
  <2>1. \A d \in D : n + d \in 1 .. Len(u)
    BY <1>1, <1>4
  <2>2. C \subseteq 1 .. Len(u)
    BY <1>1, <1>4
  <2> QED BY <2>1, <2>2 DEF N, n
<1>10. ASSUME NEW p \in 1 .. Len(u), p \notin C \cup N, u[p] = 4
       PROVE  p < Len(u) /\ p + 1 \notin C \cup N /\ u[p + 1] # HANDSHAKE
  <2>1. CASE p <= n
    <3>1. p \in 1 .. n /\ s[p] = 4
      BY <1>1, <1>2, <1>10, <2>1
    <3>2. p < n /\ p + 1 \notin C /\ s[p + 1] # HANDSHAKE
      BY <1>4, <1>10, <3>1
    <3>3. p + 1 \in 1 .. n /\ p + 1 \in Int /\ p + 1 <= n
      BY <1>1, <3>1, <3>2
    <3>4. p + 1 \notin N /\ u[p + 1] = s[p + 1]
      BY <1>2, <1>6, <3>3
    <3>5. p < Len(u)
      BY <1>1, <3>2
    <3> QED BY <3>2, <3>4, <3>5
  <2>2. CASE p > n
    <3>0. \A q, a, b \in Int : 1 <= q /\ q <= a + b /\ q > a =>
            q - a \in 1 .. b /\ (q - a) + a = q
      OBVIOUS
    <3>1. p \in Int /\ p - n \in 1 .. Len(t) /\ (p - n) + n = p
      BY <1>1, <2>2, <3>0
    <3>2. u[p] = t[p - n]
      BY <1>3, <3>1
    <3>3. p - n \notin D
      BY <1>6, <1>10, <3>1
    <3>4. p - n < Len(t) /\ (p - n) + 1 \notin D /\ t[(p - n) + 1] # HANDSHAKE
      BY <1>4, <1>10, <3>1, <3>2, <3>3
    <3>5. (p - n) + 1 \in 1 .. Len(t) /\ ((p - n) + 1) + n = p + 1 /\ (p + 1) - n = (p - n) + 1
      BY <1>1, <3>1, <3>4
    <3>6. u[p + 1] = t[(p - n) + 1]
      BY <1>3, <3>5
    <3>7. p + 1 \in Int /\ p + 1 > n /\ p < Len(u)
      BY <1>1, <2>2, <3>1, <3>4
    <3>8. p + 1 \notin C
      BY <1>1, <1>4, <3>7
    <3>9. p + 1 \notin N
      BY <1>6, <3>4, <3>5, <3>7
    <3> QED BY <3>4, <3>6, <3>7, <3>8, <3>9
  <2> QED BY <1>1, <2>1, <2>2
<1>11. Stream(u, C \cup N)
  <2>1. ASSUME NEW c \in C \cup N
        PROVE  DatagramAt(u, c) /\ (EndOf(u, c) + 1 \in C \cup N \/ EndOf(u, c) = Len(u))
    <3>1. CASE c \in C
      BY <1>7, <3>1
    <3>2. CASE c \in N
      <4>1. PICK d \in D : c = n + d
        BY <3>2 DEF N, n
      <4> QED BY <1>8, <4>1
    <3> QED BY <3>1, <3>2
  <2> QED BY <1>9, <1>10, <2>1 DEF Stream
<1>13. C \cup N = C \cup Further(D, Len(s))
  BY DEF N, n, Further
<1>14. Answers(u, C \cup N) = Answers(s, C) \cup Further(Answers(t, D), n)
  <2>1. ASSUME NEW c \in C PROVE c \in Answers(u, C \cup N) <=> c \in Answers(s, C)
    BY <1>7, <2>1 DEF Answers
  <2>2. ASSUME NEW c \in C PROVE c \notin Further(Answers(t, D), n)
    <3>1. \A d \in D : d \in Int /\ d >= 1
      BY <1>1, <1>4
    <3>2. c \in Int /\ c <= n
      BY <1>1, <1>4
    <3> QED BY <1>12, <3>1, <3>2 DEF Further, Answers
  <2>3. ASSUME NEW d \in D PROVE n + d \in Answers(u, C \cup N) <=> d \in Answers(t, D)
    BY <1>8, <2>3 DEF Answers, N, n
  <2>4. ASSUME NEW d \in D
        PROVE  n + d \in Further(Answers(t, D), n) <=> d \in Answers(t, D)
    <3>1. \A e \in D : e \in Int
      BY <1>1, <1>4
    <3>2. \A e \in D : n + d = n + e => d = e
      BY <1>12, <2>4, <3>1
    <3> QED BY <3>2 DEF Further, Answers
  <2>5. ASSUME NEW e PROVE e \in Answers(u, C \cup N) => e \in C \/ \E d \in D : e = n + d
    BY DEF Answers, N, n
  <2>6. ASSUME NEW e
        PROVE  e \in Answers(s, C) \cup Further(Answers(t, D), n) => e \in C \/ \E d \in D : e = n + d
    BY DEF Answers, Further
  <2>7. \A d \in D : n + d \notin C
    <3>1. \A d \in D : d \in Int /\ d >= 1
      BY <1>1, <1>4
    <3>2. \A d \in D : n + d > n
      BY <1>12, <3>1
    <3> QED BY <1>1, <1>4, <3>2
  <2>8. ASSUME NEW e
        PROVE  e \in Answers(u, C \cup N) <=> e \in Answers(s, C) \cup Further(Answers(t, D), n)
    <3>1. CASE e \in C
      BY <2>1, <2>2, <3>1
    <3>2. CASE \E d \in D : e = n + d
      <4>1. PICK d \in D : e = n + d
        BY <3>2
      <4>2. n + d \notin Answers(s, C)
        BY <2>7 DEF Answers
      <4> QED BY <2>3, <2>4, <4>1, <4>2
    <3>3. CASE e \notin C /\ ~ \E d \in D : e = n + d
      BY <2>5, <2>6, <3>3
    <3> QED BY <3>1, <3>2, <3>3
  <2> QED BY <2>8
<1> QED
  BY <1>11, <1>13, <1>14 DEF n

\* The stream u: s, and t behind it.
Grown(u, s, C, t, D) ==
  /\ Stream(u, C \cup Further(D, Len(s)))
  /\ Answers(u, C \cup Further(D, Len(s))) = Answers(s, C) \cup Further(Answers(t, D), Len(s))

LEMMA StreamGrows ==
  ASSUME NEW s \in Seq(Byte), NEW C, Stream(s, C),
         NEW t \in Seq(Byte), NEW D, Stream(t, D), 1 \in D
  PROVE  s \o t \in Seq(Byte) /\ Grown(s \o t, s, C, t, D)
<1>1. /\ s \o t \in Seq(Byte) /\ Len(s \o t) = Len(s) + Len(t)
      /\ \A i \in 1 .. Len(s) + Len(t) :
           (s \o t)[i] = IF i <= Len(s) THEN s[i] ELSE t[i - Len(s)]
  BY ConcatProperties
<1>2. Joined(s \o t, s, t)
  BY <1>1 DEF Joined
<1>3. s \o t \in Seq(Byte)
  BY <1>1
<1>4. PICK u : u = s \o t
  OBVIOUS
<1>5. u \in Seq(Byte) /\ Joined(u, s, t)
  BY <1>2, <1>3, <1>4, Zenon
<1>6. Stream(u, C \cup Further(D, Len(s)))
  BY <1>5, StreamJoins
<1>7. Answers(u, C \cup Further(D, Len(s))) =
        Answers(s, C) \cup Further(Answers(t, D), Len(s))
  BY <1>5, StreamJoins
<1>8. Grown(u, s, C, t, D)
  BY <1>6, <1>7, Zenon DEF Grown
<1> QED
  BY <1>3, <1>4, <1>8, Zenon

\* What is left of a stream when its first bytes are taken.
Moved(C, k) == {c \in Int : c >= 1 /\ c + k \in C}

CutBy(s, t, k) == Len(s) = k + Len(t) /\ \A i \in 1 .. Len(t) : t[i] = s[i + k]

LEMMA StreamShrinks ==
  ASSUME NEW s \in Seq(Byte), NEW C, Stream(s, C), NEW t \in Seq(Byte), NEW k \in Nat,
         CutBy(s, t, k)
  PROVE  /\ Stream(t, Moved(C, k))
         /\ Answers(t, Moved(C, k)) = Moved(Answers(s, C), k)
<1>0. Len(s) = k + Len(t) /\ \A i \in 1 .. Len(t) : t[i] = s[i + k]
  BY DEF CutBy
<1>1. Len(s) \in Nat /\ Len(t) \in Nat /\ Len(s) = k + Len(t)
  BY <1>0
<1>2. /\ C \subseteq 1 .. Len(s)
      /\ \A c \in C : DatagramAt(s, c) /\ (EndOf(s, c) + 1 \in C \/ EndOf(s, c) = Len(s))
      /\ \A p \in 1 .. Len(s) :
           p \notin C /\ s[p] = 4 => p < Len(s) /\ p + 1 \notin C /\ s[p + 1] # HANDSHAKE
  BY DEF Stream
<1>3. \A i \in 1 .. Len(s) : s[i] \in Int
  BY BytesAre, ElementOfSeq
<1>4. ASSUME NEW c \in Moved(C, k)
      PROVE  /\ c + k \in C /\ c \in 1 .. Len(t) /\ t[c + 1] = s[(c + k) + 1]
             /\ DatagramAt(t, c)
             /\ EndOf(t, c) + 1 \in Moved(C, k) \/ EndOf(t, c) = Len(t)
  <2>1. c \in Int /\ c >= 1 /\ c + k \in C 
    BY DEF Moved
  <2> PICK m \in Int : m = -k
    OBVIOUS
  <2>9. Shifted(c, c + k, m)
    BY <2>1 DEF Shifted
  <2>2. c + k \in Int /\ DatagramAt(s, c + k) /\ c + k \in 1 .. Len(s)
    BY <1>2, <2>1
  <2>3. EndOf(s, c + k) \in Int /\ EndOf(s, c + k) <= Len(s) /\ EndOf(s, c + k) >= c + k
    BY <1>1, <1>3, <2>1, <2>2, SMTT(30) DEF DatagramAt, EndOf
  <2>8. ASSUME NEW j \in c + k .. EndOf(s, c + k), NEW h \in Int, Shifted(h, j, m)
        PROVE  h \in 1 .. Len(t) /\ t[h] = s[j]
    <3>0. \A a, b, e, l, lt, x, y \in Int :
            x \in a + b .. e /\ y = x + (-b) /\ a >= 1 /\ e <= l /\ l = b + lt =>
              y \in 1 .. lt /\ y + b = x
      OBVIOUS
    <3>1. j \in Int /\ h = j + (-k) /\ EndOf(s, c + k) <= k + Len(t)
      BY <1>1, <2>3, <2>8 DEF Shifted
    <3>2. h \in 1 .. Len(t) /\ h + k = j
      BY <1>1, <2>1, <2>3, <3>0, <3>1
    <3> QED BY <1>0, <3>2
  <2>4. Copied(s, c + k, t, m)
    BY <2>8 DEF Copied
  <2>5. /\ DatagramAt(t, c) /\ EndOf(t, c) = EndOf(s, c + k) + m
        /\ t[c + 1] = s[(c + k) + 1]
    BY <2>1, <2>2, <2>4, <2>9, DatagramMoves
  <2>6. CASE EndOf(s, c + k) + 1 \in C
    <3>0. \A a, b, x, y \in Int : a >= 1 /\ x >= a + b /\ y = x + (-b) =>
            y + 1 \in Int /\ y + 1 >= 1 /\ (y + 1) + b = x + 1
      OBVIOUS
    <3>2. EndOf(t, c) = EndOf(s, c + k) + (-k) /\ EndOf(t, c) \in Int
      BY <2>3, <2>5
    <3>1. EndOf(t, c) + 1 \in Int /\ EndOf(t, c) + 1 >= 1 /\ (EndOf(t, c) + 1) + k = EndOf(s, c + k) + 1
      BY <2>1, <2>3, <3>0, <3>2
    <3> QED BY <2>1, <2>2, <2>5, <2>6, <3>1, <1>1 DEF Moved, DatagramAt
  <2>7. CASE EndOf(s, c + k) = Len(s)
    <3>1. EndOf(t, c) = Len(t)
      BY <1>1, <2>3, <2>5, <2>7
    <3> QED BY <2>1, <2>5, <3>1 DEF DatagramAt
  <2> QED BY <1>2, <2>1, <2>6, <2>7
<1>5. ASSUME NEW p \in 1 .. Len(t), p \notin Moved(C, k), t[p] = 4
      PROVE  p < Len(t) /\ p + 1 \notin Moved(C, k) /\ t[p + 1] # HANDSHAKE
  <2>1. p \in Int /\ p >= 1 /\ p + k \in 1 .. Len(s) /\ s[p + k] = 4
    BY <1>0, <1>1, <1>5
  <2>2. p + k \notin C
    BY <1>5, <2>1 DEF Moved
  <2>3. p + k < Len(s) /\ (p + k) + 1 \notin C /\ s[(p + k) + 1] # HANDSHAKE
    BY <1>2, <2>1, <2>2
  <2>4. p < Len(t) /\ p + 1 \in 1 .. Len(t) /\ (p + 1) + k = (p + k) + 1
    BY <1>1, <2>1, <2>3
  <2>5. t[p + 1] # HANDSHAKE
    BY <1>0, <2>3, <2>4
  <2>6. p + 1 \notin Moved(C, k)
    BY <2>3, <2>4 DEF Moved
  <2> QED BY <2>4, <2>5, <2>6
<1>6. Stream(t, Moved(C, k))
  BY <1>4, <1>5 DEF Stream
<1>7. Answers(t, Moved(C, k)) = Moved(Answers(s, C), k)
  <2>1. ASSUME NEW c \in Moved(C, k)
        PROVE  c \in Answers(t, Moved(C, k)) <=> c \in Moved(Answers(s, C), k)
    <3>1. c \in Int /\ c >= 1 /\ c + k \in C /\ t[c + 1] = s[(c + k) + 1]
      BY <1>4 DEF Moved
    <3>2. c \in Answers(t, Moved(C, k)) <=> t[c + 1] = HANDSHAKE
      BY DEF Answers
    <3>3. c + k \in Answers(s, C) <=> s[(c + k) + 1] = HANDSHAKE
      BY <3>1 DEF Answers
    <3> QED BY <3>1, <3>2, <3>3 DEF Moved
  <2>2. ASSUME NEW c
        PROVE  c \in Answers(t, Moved(C, k)) \/ c \in Moved(Answers(s, C), k) => c \in Moved(C, k)
    BY DEF Answers, Moved
  <2> QED BY <2>1, <2>2
<1> QED BY <1>6, <1>7

(***************************************************************************)
(* What the device sends.                                                  *)
(***************************************************************************)

Formed(d, t, m) ==
  /\ d \in Seq(Byte) /\ Len(d) = Len(m) + 3
  /\ d[1] = (Len(m) + 2) % W /\ d[2] = t
  /\ \A i \in 1 .. Len(m) : d[i + 2] = m[i]
  /\ d[Len(m) + 3] = Complement((Len(m) + 2) % W)

LEMMA DatagramIs ==
  ASSUME NEW t \in Byte, NEW m \in Seq(Byte)
  PROVE  Formed(Datagram(t, m), t, m)
<1>1. PICK n : n = (Len(m) + 2) % W
  OBVIOUS
<1>2. n \in Byte /\ Complement(n) \in Byte
  <2>1. Len(m) + 2 \in Int /\ W \in Int /\ W > 0
    BY BytesAre, LenProperties
  <2>2. n \in 0 .. W - 1
    BY <1>1, <2>1
  <2> QED BY <2>2, BytesAre DEF Byte
<1>3. <<n, t>> \in Seq(Byte) /\ Len(<<n, t>>) = 2 /\ <<n, t>>[1] = n /\ <<n, t>>[2] = t
  BY <1>2
<1>4. PICK h : h = <<n, t>>
  OBVIOUS
<1>5. h \in Seq(Byte) /\ Len(h) = 2 /\ h[1] = n /\ h[2] = t
  BY <1>3, <1>4
<1>6. PICK e : e = <<Complement(n)>>
  OBVIOUS
<1>7. e \in Seq(Byte) /\ Len(e) = 1 /\ e[1] = Complement(n)
  BY <1>2, <1>6
<1>8. Datagram(t, m) = (h \o m) \o e
  BY <1>1, <1>4, <1>6, Zenon DEF Datagram
<1>9. PICK b : b = h \o m
  OBVIOUS
<1>10. /\ b \in Seq(Byte) /\ Len(b) = Len(h) + Len(m)
       /\ \A i \in 1 .. Len(h) + Len(m) : b[i] = IF i <= Len(h) THEN h[i] ELSE m[i - Len(h)]
  BY <1>5, <1>9, ConcatProperties
<1>11. /\ b \in Seq(Byte) /\ Len(b) = Len(m) + 2 /\ Len(m) \in Nat
       /\ b[1] = n /\ b[2] = t /\ \A i \in 1 .. Len(m) : b[i + 2] = m[i]
  <2>1. Len(m) \in Nat
    BY LenProperties
  <2>2. \A i \in 1 .. Len(m) : b[i + 2] = m[i]
    <3> TAKE i \in 1 .. Len(m)
    <3>1. i + 2 \in 1 .. Len(h) + Len(m) /\ ~(i + 2 <= Len(h)) /\ (i + 2) - Len(h) = i
      BY <1>5, <2>1
    <3> QED BY <1>10, <3>1
  <2> QED BY <1>5, <1>10, <2>1, <2>2
<1>12. PICK d : d = b \o e
  OBVIOUS
<1>13. /\ d \in Seq(Byte) /\ Len(d) = Len(b) + Len(e)
       /\ \A i \in 1 .. Len(b) + Len(e) : d[i] = IF i <= Len(b) THEN b[i] ELSE e[i - Len(b)]
  BY <1>7, <1>11, <1>12, ConcatProperties
<1>14. Datagram(t, m) = d
  BY <1>8, <1>9, <1>12
<1>15. \A i \in 1 .. Len(m) : d[i + 2] = m[i]
  <2> TAKE i \in 1 .. Len(m)
  <2>1. i + 2 \in 1 .. Len(b) + Len(e) /\ i + 2 <= Len(b)
    BY <1>7, <1>11
  <2> QED BY <1>11, <1>13, <2>1
<1>16. d[Len(m) + 3] = Complement(n)
  <2>1. Len(m) + 3 \in 1 .. Len(b) + Len(e) /\ ~(Len(m) + 3 <= Len(b)) /\ (Len(m) + 3) - Len(b) = 1
    BY <1>7, <1>11
  <2> QED BY <1>7, <1>13, <2>1
<1>17. d[1] = n /\ d[2] = t /\ Len(d) = Len(m) + 3
  BY <1>7, <1>11, <1>13
<1> QED
  BY <1>1, <1>13, <1>14, <1>15, <1>16, <1>17 DEF Formed

\* d is a sequence of datagrams, with answers to handshakes at the positions A.
Sent(d, A) ==
  /\ d \in Seq(Byte) /\ d # <<>>
  /\ \E D : 1 \in D /\ Stream(d, D) /\ Answers(d, D) = A

\* The message of a substate is text and short.
LEMMA MessagesAre ==
  ASSUME NEW m \in Messages
  PROVE  /\ m \in Seq(Byte) /\ Len(m) \in Nat /\ Len(m) >= 1 /\ Len(m) + 2 < HANDSHAKE - 4
         /\ \A i \in 1 .. Len(m) : m[i] \in Byte /\ m[i] # HANDSHAKE
         /\ (Len(m) + 2) % W = Len(m) + 2 /\ Len(m) + 2 \in Byte
<1>1. m \in Seq(Byte \ {HANDSHAKE}) /\ m # <<>> /\ Len(m) + 2 < Complement(4)
  BY MessageAssumption
<1>2. Len(m) \in Nat /\ \A i \in 1 .. Len(m) : m[i] \in Byte \ {HANDSHAKE}
  BY <1>1, ElementOfSeq, LenProperties
<1>3. Len(m) >= 1
  BY <1>1, <1>2, EmptySeq
<1>4. Len(m) + 2 < HANDSHAKE - 4
  BY <1>1, <1>2, BytesAre
<1>5. m \in Seq(Byte)
  BY <1>1
<1>6. Len(m) + 2 \in 0 .. W - 1
  BY <1>2, <1>4, BytesAre DEF HANDSHAKE
<1>7. \A a, b \in Int : 0 <= a /\ a <= b - 1 => a % b = a
  OBVIOUS
<1>8. (Len(m) + 2) % W = Len(m) + 2
  BY <1>2, <1>6, <1>7, BytesAre
<1> QED BY <1>2, <1>3, <1>4, <1>5, <1>6, <1>8 DEF Byte

LEMMA SubstateSent ==
  ASSUME NEW t \in 0 .. 2, NEW m \in Messages
  PROVE  Sent(Datagram(t, m), {})
<1>1. /\ m \in Seq(Byte) /\ Len(m) \in Nat /\ Len(m) >= 1 /\ Len(m) + 2 < HANDSHAKE - 4
      /\ \A i \in 1 .. Len(m) : m[i] # HANDSHAKE
      /\ (Len(m) + 2) % W = Len(m) + 2 /\ Len(m) + 2 \in Byte
  BY MessagesAre
<1>2. t \in Byte /\ t # HANDSHAKE /\ HANDSHAKE \in Int /\ t \in Int
  BY BytesAre
<1>3. PICK d : d = Datagram(t, m)
  OBVIOUS
<1>4. PICK n : n = Len(m)
  OBVIOUS
<1>5. /\ n \in Nat /\ n >= 1 /\ n + 2 < HANDSHAKE - 4
      /\ d \in Seq(Byte) /\ Len(d) = n + 3
      /\ d[1] = n + 2 /\ d[2] = t
      /\ \A i \in 1 .. n : d[i + 2] # HANDSHAKE
      /\ d[n + 3] = HANDSHAKE - (n + 2)
      /\ d[n + 3] = Complement(n + 2)
  <2>1. Formed(d, t, m)
    BY <1>1, <1>2, <1>3, DatagramIs
  <2>2. /\ n \in Nat /\ n >= 1 /\ n + 2 < HANDSHAKE - 4 /\ (n + 2) % W = n + 2 /\ n + 2 \in Byte
        /\ \A i \in 1 .. n : m[i] # HANDSHAKE
    BY <1>1, <1>4
  <2>3. /\ d \in Seq(Byte) /\ Len(d) = n + 3 /\ d[1] = n + 2 /\ d[2] = t
        /\ \A i \in 1 .. n : d[i + 2] = m[i]
        /\ d[n + 3] = Complement(n + 2)
    BY <1>4, <2>1, <2>2, Zenon DEF Formed
  <2>4. Complement(n + 2) = HANDSHAKE - (n + 2)
    BY <2>2, BytesAre
  <2> QED BY <2>2, <2>3, <2>4
<1>6. EndOf(d, 1) = n + 3
  BY <1>5 DEF EndOf
<1>7. DatagramAt(d, 1)
  <2>1. 1 \in 1 .. Len(d) /\ d[1] >= 2 /\ EndOf(d, 1) <= Len(d) /\ d[1 + 1] = t
    BY <1>5, <1>6
  <2>2. d[EndOf(d, 1)] = Complement(d[1])
    BY <1>5, <1>6
  <2> QED BY <2>1, <2>2 DEF DatagramAt
<1>8. ASSUME NEW p \in 1 .. Len(d), p \notin {1}, d[p] = 4
      PROVE  p < Len(d) /\ p + 1 \notin {1} /\ d[p + 1] # HANDSHAKE
  <2>1. CASE p = n + 3
    BY <1>2, <1>5, <1>8, <2>1
  <2>2. CASE p # n + 3
    <3>1. p \in 2 .. n + 2
      BY <1>5, <1>8, <2>2
    <3>2. CASE p = n + 2
      <4>1. d[p + 1] = HANDSHAKE - (n + 2)
        BY <1>5, <3>2
      <4>2. HANDSHAKE - (n + 2) # HANDSHAKE
        BY <1>2, <1>5
      <4> QED BY <1>5, <3>1, <3>2, <4>1, <4>2
    <3>3. CASE p # n + 2
      <4>1. p - 1 \in 1 .. n /\ (p - 1) + 2 = p + 1
        BY <1>5, <3>1, <3>3
      <4>2. d[p + 1] # HANDSHAKE
        BY <1>5, <4>1
      <4> QED BY <1>5, <3>1, <4>2
    <3> QED BY <3>2, <3>3
  <2> QED BY <2>1, <2>2
<1>9. Stream(d, {1})
  <2>1. {1} \subseteq 1 .. Len(d)
    BY <1>5
  <2>2. \A c \in {1} : DatagramAt(d, c) /\ EndOf(d, c) = Len(d)
    BY <1>5, <1>6, <1>7
  <2> QED BY <1>8, <2>1, <2>2 DEF Stream
<1>10. Answers(d, {1}) = {}
  BY <1>2, <1>5 DEF Answers
<1>11. d # <<>>
  BY <1>5, EmptySeq
<1>12. Sent(d, {})
  BY <1>5, <1>9, <1>10, <1>11 DEF Sent
<1> QED BY <1>3, <1>12

LEMMA AnswerIs ==
  /\ Answer \in Seq(Byte) /\ Len(Answer) = 5
  /\ Answer[1] = 4 /\ Answer[2] = HANDSHAKE /\ Answer[3] = AppType /\ Answer[4] = Uid
  /\ Answer[5] = HANDSHAKE - 4 /\ Answer[5] = Complement(4)
<1>1. AppType \in Byte /\ Uid \in Byte /\ HANDSHAKE \in Byte /\ 4 \in Byte
  BY ByteAssumption, BytesAre
<1>2. PICK m : m = <<AppType, Uid>>
  OBVIOUS
<1>3. m \in Seq(Byte) /\ Len(m) = 2 /\ m[1] = AppType /\ m[2] = Uid
  BY <1>1, <1>2
<1>4. Answer = Datagram(HANDSHAKE, m)
  BY <1>2 DEF Answer
<1>5. (2 + 2) % W = 4
  <2>1. \A w \in Int : w >= 10 => (2 + 2) % w = 4
    OBVIOUS
  <2> QED BY <2>1, BytesAre
<1>6. /\ Answer \in Seq(Byte) /\ Len(Answer) = Len(m) + 3
      /\ Answer[1] = (Len(m) + 2) % W /\ Answer[2] = HANDSHAKE
      /\ \A i \in 1 .. Len(m) : Answer[i + 2] = m[i]
      /\ Answer[Len(m) + 3] = Complement((Len(m) + 2) % W)
  <2>1. Formed(Answer, HANDSHAKE, m)
    BY <1>1, <1>3, <1>4, DatagramIs
  <2> QED BY <2>1, Zenon DEF Formed
<1>7. Answer[1 + 2] = m[1] /\ Answer[2 + 2] = m[2] /\ Answer[2 + 3] = Complement(4)
  BY <1>3, <1>5, <1>6
<1> QED BY <1>1, <1>3, <1>5, <1>6, <1>7, BytesAre

LEMMA AnswerSent ==
  /\ Sent(Answer, {1})
  /\ \A m \in Messages : Sent(Answer \o Datagram(2, m), {1})
<1>1. PICK a : a = Answer
  OBVIOUS
<1>2. /\ a \in Seq(Byte) /\ Len(a) = 5
      /\ a[1] = 4 /\ a[2] = HANDSHAKE /\ a[3] = AppType /\ a[4] = Uid
      /\ a[5] = HANDSHAKE - 4 /\ a[5] = Complement(4)
  BY <1>1, AnswerIs
<1>3. EndOf(a, 1) = 5
  BY <1>2 DEF EndOf
<1>4. DatagramAt(a, 1)
  BY <1>2, <1>3 DEF DatagramAt
<1>5. ASSUME NEW p \in 1 .. Len(a), p \notin {1}, a[p] = 4
      PROVE  p < Len(a) /\ p + 1 \notin {1} /\ a[p + 1] # HANDSHAKE
  <2>1. HANDSHAKE \in Int /\ HANDSHAKE >= 9 /\ (AppType # 4 \/ Uid # HANDSHAKE)
    BY BytesAre, ByteAssumption
  <2>2. p = 3 \/ p = 4
    BY <1>2, <1>5, <2>1
  <2>3. CASE p = 3
    BY <1>2, <1>5, <2>1, <2>3
  <2>4. CASE p = 4
    BY <1>2, <1>5, <2>1, <2>4
  <2> QED BY <2>2, <2>3, <2>4
<1>6. Stream(a, {1})
  <2>1. {1} \subseteq 1 .. Len(a)
    BY <1>2
  <2>2. \A c \in {1} : DatagramAt(a, c) /\ EndOf(a, c) = Len(a)
    BY <1>2, <1>3, <1>4
  <2> QED BY <1>5, <2>1, <2>2 DEF Stream
<1>7. Answers(a, {1}) = {1}
  BY <1>2 DEF Answers
<1>8. a # <<>>
  BY <1>2, EmptySeq, SMTT(30)
<1>9. ASSUME NEW m \in Messages PROVE Sent(a \o Datagram(2, m), {1})
  <2>1. PICK d : d = Datagram(2, m)
    OBVIOUS
  <2>2. Sent(d, {})
    BY <2>1, SubstateSent
  <2>3. PICK D : d \in Seq(Byte) /\ 1 \in D /\ Stream(d, D) /\ Answers(d, D) = {}
    BY <2>2 DEF Sent
  <2>11. Grown(a \o d, a, {1}, d, D)
    BY <1>2, <1>6, <2>3, StreamGrows
  <2>4. Stream(a \o d, {1} \cup Further(D, Len(a)))
    BY <2>11, Zenon DEF Grown
  <2>5. Answers(a \o d, {1} \cup Further(D, Len(a))) =
          Answers(a, {1}) \cup Further(Answers(d, D), Len(a))
    BY <2>11, Zenon DEF Grown
  <2>6. Further({}, Len(a)) = {}
    BY DEF Further
  <2>7. Answers(a \o d, {1} \cup Further(D, Len(a))) = {1}
    BY <1>7, <2>3, <2>5, <2>6
  <2>8. a \o d \in Seq(Byte) /\ a \o d # <<>>
    <3>3. a \in Seq(Byte) /\ d \in Seq(Byte)
      BY <1>2, <2>3
    <3>1. a \o d \in Seq(Byte) /\ Len(a \o d) = Len(a) + Len(d) /\ Len(d) \in Nat
      BY <3>3, ConcatProperties, LenProperties
    <3>2. Len(a \o d) # 0
      BY <1>2, <3>1
    <3> QED BY <3>1, <3>2, EmptySeq
  <2>9. 1 \in {1} \cup Further(D, Len(a))
    OBVIOUS
  <2>10. Sent(a \o d, {1})
    BY <2>4, <2>7, <2>8, <2>9, Zenon DEF Sent
  <2> QED BY <2>1, <2>10
<1> QED
  BY <1>1, <1>2, <1>6, <1>7, <1>8, <1>9 DEF Sent

(***************************************************************************)
(* The invariant.                                                          *)
(***************************************************************************)

HostOK ==
  /\ host \in {"baud", "flush", "wait", "up", "dropped", "failed"}
  /\ baud \in 1 .. 2 /\ attempt \in 1 .. 2 /\ appType \in Byte /\ uid \in Byte
  /\ host = "wait" => Len(hostOut) <= 3
  /\ host = "up" => AtDevicesSpeed
ParserOK ==
  /\ size \in Byte /\ left \in Byte /\ type \in Byte
  /\ left <= size /\ (left > 0 => size >= 2)
LinesOK == rx \in Seq(Byte) /\ hostOut \in Seq(Byte) /\ devOut \in Seq(Byte)
RestOK == devBaud \in 1 .. 2 /\ slow \subseteq {1} /\ excuses \subseteq {Late, Stray, Chatter}

\* What arrived at another speed cannot begin like an answer.
JunkOnly ==
  host \in {"flush", "wait"} /\ ~AtDevicesSpeed => \A i \in 1 .. Len(rx) : rx[i] # 4

\* What is under way to the server from now on, as far as it is readable.
Line ==
  IF AtDevicesSpeed /\ host \in {"flush", "wait", "up"} THEN rx \o devOut ELSE devOut

\* No further answer can be caused by what the server wrote.
Spent ==
  \/ hostOut = <<>>
  \/ Len(hostOut) = 2 /\ left = 0
  \/ Len(hostOut) = 1 /\ (left = 0 \/ (left = size /\ left >= 2))

\* An answer may be under way: the one to the question of this speed, or the rest of one
\* that the change of speed will garble.
MayAnswer ==
  \/ host = "wait" /\ AtDevicesSpeed /\ Spent
  \/ host = "wait" /\ ~AtDevicesSpeed /\ rx = <<>>
  \/ host \in {"baud", "flush"} /\ ~AtDevicesSpeed

Excused == excuses \cap {Late, Stray} # {}

(***************************************************************************)
(* What is under way is a stream of datagrams; only the one that the       *)
(* device is about to write, or an earlier one, can be an answer to a      *)
(* handshake.  A connected server is at the beginning of a datagram.       *)
(* Unless an answer was late or stray, at most one is under way, and only  *)
(* to a server that asked for it.                                          *)
(***************************************************************************)
Fits(s, C) ==
  /\ Stream(s, C)
  /\ \A c \in Answers(s, C) : c <= (Len(s) - Len(devOut)) + 1
  /\ host = "up" /\ Late \notin excuses => s = <<>> \/ 1 \in C
  /\ ~Excused => \A c, d \in Answers(s, C) : c = d
  /\ ~Excused => Answers(s, C) = {} \/ MayAnswer

LineInv == plugged /\ Opened => \E C : Fits(Line, C)
KnownInv == host = "up" /\ plugged /\ Late \notin excuses => appType = AppType /\ uid = Uid

LinkTypes == HostOK /\ ParserOK /\ LinesOK /\ RestOK
LinkInv == LinkTypes /\ JunkOnly /\ KnownInv /\ LineInv

-----------------------------------------------------------------------------
LEMMA BaudsAre == Len(Bauds) = 2 /\ DOMAIN Bauds = 1 .. 2
BY DEF Bauds

\* What NextBaud leads to: the other speed, or failure.
LEMMA NextBaudIs ==
  ASSUME baud \in 1 .. 2, attempt \in 1 .. 2, NextBaud
  PROVE  /\ host' \in {"baud", "failed"} /\ baud' \in 1 .. 2 /\ attempt' \in 1 .. 2
         /\ host' = "baud" => baud' = 3 - baud
         /\ baud = 2 => rx' = <<>>
<1>1. CASE baud = 1
  <2>1. baud < Len(Bauds)
    BY <1>1, BaudsAre
  <2> QED BY <1>1, <2>1 DEF NextBaud
<1>2. CASE baud = 2
  <2>1. ~(baud < Len(Bauds))
    BY <1>2, BaudsAre
  <2>2. Throw
    BY <2>1 DEF NextBaud
  <2> QED BY <1>2, <2>2 DEF Throw
<1> QED BY <1>1, <1>2

\* What the server's steps while it looks lead to.
LEMMA SendFlushIs ==
  ASSUME LinkTypes, SendFlush
  PROVE  /\ host = "baud" /\ rx' = <<>>
         /\ \/ host' = "flush" /\ hostOut' = Flush /\ baud' = baud /\ attempt' = attempt
            \/ /\ host' \in {"baud", "failed"} /\ hostOut' = hostOut
               /\ baud' \in 1 .. 2 /\ attempt' \in 1 .. 2
               /\ ~plugged \/ (baud \in slow /\ baud' = baud)
         /\ UNCHANGED <<appType, uid, size, left, type, devOut, plugged, manager, devBaud, slow, excuses>>
<1>1. /\ host = "baud" /\ rx' = <<>>
      /\ UNCHANGED <<appType, uid, size, left, type, devOut, plugged, manager, devBaud, slow, excuses>>
  BY DEF SendFlush, parserVars, constVars
<1>2. CASE ~plugged \/ baud \in slow
  <2>1. Throw /\ hostOut' = hostOut
    BY <1>2 DEF SendFlush
  <2>2. host' \in {"baud", "failed"} /\ baud' \in {1, baud} /\ attempt' \in {2, attempt}
    BY <2>1 DEF Throw
  <2>3. baud \in 1 .. 2 /\ attempt \in 1 .. 2 /\ slow \subseteq {1}
    BY DEF LinkTypes, HostOK, RestOK
  <2> QED BY <1>1, <1>2, <2>1, <2>2, <2>3
<1>3. CASE ~(~plugged \/ baud \in slow)
  <2>1. host' = "flush" /\ hostOut' = Flush /\ baud' = baud /\ attempt' = attempt
    BY <1>3 DEF SendFlush
  <2> QED BY <1>1, <2>1
<1> QED BY <1>2, <1>3

\* The handshake and the poll of the server.
Question == Datagram(HANDSHAKE, <<>>)
PollDatagram == Datagram(0, <<>>)

LEMMA AskIs ==
  ASSUME LinkTypes, Ask
  PROVE  /\ host = "flush" /\ rx' = <<>> /\ hostOut = <<>>
         /\ \/ /\ host' = "wait" /\ hostOut' = Question
               /\ baud' = baud /\ attempt' = attempt
            \/ /\ host' \in {"baud", "failed"} /\ hostOut' = hostOut
               /\ baud' \in 1 .. 2 /\ attempt' \in 1 .. 2 /\ ~plugged
         /\ UNCHANGED <<appType, uid, size, left, type, devOut, plugged, manager, devBaud, slow, excuses>>
<1>1. /\ host = "flush" /\ rx' = <<>> /\ hostOut = <<>>
      /\ UNCHANGED <<appType, uid, size, left, type, devOut, plugged, manager, devBaud, slow, excuses>>
  BY DEF Ask, parserVars, constVars
<1>2. CASE ~plugged
  <2>1. Throw /\ hostOut' = hostOut
    BY <1>2 DEF Ask
  <2>2. host' \in {"baud", "failed"} /\ baud' \in {1, baud} /\ attempt' \in {2, attempt}
    BY <2>1 DEF Throw
  <2>3. baud \in 1 .. 2 /\ attempt \in 1 .. 2
    BY DEF LinkTypes, HostOK
  <2> QED BY <1>1, <1>2, <2>1, <2>2, <2>3
<1>3. CASE plugged
  <2>1. host' = "wait" /\ hostOut' = Question /\ baud' = baud /\ attempt' = attempt
    BY <1>3, Zenon DEF Ask, Question
  <2> QED BY <1>1, <2>1
<1> QED BY <1>2, <1>3

LEMMA JudgeIs ==
  ASSUME LinkTypes, NEW h, NEW rest, Judge(h, rest)
  PROVE  \/ /\ h[1] = 4 /\ h[2] = HANDSHAKE /\ host' = "up" /\ appType' = h[3] /\ uid' = h[4]
            /\ rx' = rest /\ baud' = baud /\ attempt' = attempt
         \/ /\ host' \in {"baud", "failed"} /\ baud' \in 1 .. 2 /\ attempt' \in 1 .. 2
            /\ host' = "baud" => baud' = 3 - baud
            /\ rx' = rest \/ rx' = <<>>
            /\ appType' = appType /\ uid' = uid
<1>1. baud \in 1 .. 2 /\ attempt \in 1 .. 2
  BY DEF LinkTypes, HostOK
<1>2. CASE IsHandshake(h)
  <2>1. /\ host' = "up" /\ appType' = h[3] /\ uid' = h[4] /\ rx' = rest
        /\ baud' = baud /\ attempt' = attempt
    BY <1>2 DEF Judge
  <2>2. h[1] = 4 /\ h[2] = HANDSHAKE
    BY <1>2 DEF IsHandshake
  <2> QED BY <2>1, <2>2
<1>3. CASE ~IsHandshake(h)
  <2>1. NextBaud /\ appType' = appType /\ uid' = uid /\ (baud < Len(Bauds) => rx' = rest)
    BY <1>3 DEF Judge
  <2>2. /\ host' \in {"baud", "failed"} /\ baud' \in 1 .. 2 /\ attempt' \in 1 .. 2
        /\ host' = "baud" => baud' = 3 - baud
        /\ baud = 2 => rx' = <<>>
    BY <1>1, <2>1, NextBaudIs
  <2>3. baud = 1 => rx' = rest
    BY <2>1, BaudsAre
  <2>4. rx' = rest \/ rx' = <<>>
    BY <1>1, <2>2, <2>3
  <2> QED BY <2>1, <2>2, <2>4
<1> QED BY <1>2, <1>3

\* What the device makes of a byte: most change its parser only; the last one of a
\* datagram may make it send something.
Answering(A) ==
  /\ Sent(devOut', A) /\ left = 1 /\ left < size /\ left' = 0
  /\ A = {} \/ (A = {1} /\ ((host = "wait" /\ AtDevicesSpeed) \/ Stray \in excuses'))

LEMMA ProcessIs ==
  ASSUME LinkTypes, NEW t, Process(t)
  PROVE  /\ excuses \subseteq excuses' /\ excuses' \subseteq {Late, Stray, Chatter}
         /\ \/ devOut' = devOut
            \/ Sent(devOut', {})
            \/ Sent(devOut', {1}) /\ ((host = "wait" /\ AtDevicesSpeed) \/ Stray \in excuses')
<1>1. excuses \subseteq {Late, Stray, Chatter}
  BY DEF LinkTypes, RestOK
<1>2. CASE t = 0 /\ t # HANDSHAKE
  <2>1. PICK m \in Messages : devOut' = Datagram(0, m)
    BY <1>2 DEF Process
  <2>2. excuses' \in {excuses, excuses \cup {Chatter}}
    BY <1>2 DEF Process
  <2>3. Sent(Datagram(0, m), {})
    BY SubstateSent
  <2> QED BY <1>1, <2>1, <2>2, <2>3
<1>3. CASE t = HANDSHAKE
  <2>1. t # 0
    BY <1>3, BytesAre
  <2>2. PICK m \in Messages : devOut' \in {Answer, Answer \o Datagram(2, m)}
    BY <1>3, <2>1 DEF Process
  <2>3. excuses' = IF host = "wait" /\ AtDevicesSpeed THEN excuses ELSE excuses \cup {Stray}
    BY <1>3, <2>1 DEF Process
  <2>4. Sent(devOut', {1})
    BY <2>2, AnswerSent
  <2> QED BY <1>1, <2>3, <2>4
<1>4. CASE t \notin {0, HANDSHAKE}
  BY <1>1, <1>4 DEF Process
<1> QED BY <1>2, <1>3, <1>4

LEMMA ParseIs ==
  ASSUME LinkTypes, NEW b \in Byte, Parse(b)
  PROVE  /\ ParserOK' /\ excuses \subseteq excuses' /\ excuses' \subseteq {Late, Stray, Chatter}
         /\ left = 0 => left' = 0 \/ (left' = size' /\ left' >= 2)
         /\ \/ devOut' = devOut
            \/ Answering({})
            \/ Answering({1})
<1>1. /\ size \in Byte /\ left \in Byte /\ type \in Byte
      /\ left <= size /\ (left > 0 => size >= 2)
      /\ excuses \subseteq {Late, Stray, Chatter}
  BY DEF LinkTypes, RestOK, ParserOK
<1>2. size \in Int /\ left \in Int /\ left >= 0 /\ b \in Int /\ 0 \in Byte
  BY <1>1, BytesAre
<1>3. CASE left = 0 /\ b < 2
  <2>1. size' = size /\ left' = left /\ type' = type /\ devOut' = devOut /\ excuses' = excuses
    BY <1>2, <1>3 DEF Parse, parserVars
  <2> QED BY <1>1, <1>3, <2>1 DEF ParserOK
<1>4. CASE left = 0 /\ b >= 2
  <2>0. ~(b < 2)
    BY <1>2, <1>4
  <2>1. size' = b /\ left' = b /\ type' = 0 /\ devOut' = devOut /\ excuses' = excuses
    BY <1>2, <1>4, <2>0 DEF Parse
  <2> QED BY <1>1, <1>2, <1>4, <2>1 DEF ParserOK
<1>5. CASE left > 0
  <2>1. left # 0 /\ size >= 2
    BY <1>1, <1>2, <1>5
  <2>2. left - 1 \in Byte
    <3>1. left \in 0 .. W - 1 /\ W \in Int
      BY <1>1, BytesAre DEF Byte
    <3> QED BY <1>5, <3>1 DEF Byte
  <2>3. CASE left = size
    <3>1. type' = b /\ left' = left - 1 /\ size' = size /\ devOut' = devOut /\ excuses' = excuses
      BY <1>1, <1>2, <1>5, <2>1, <2>3 DEF Parse
    <3> QED BY <1>1, <1>2, <1>5, <2>1, <2>2, <3>1 DEF ParserOK
  <2>4. CASE left # size /\ left \in 2 .. size - 1
    <3>1. type' = type /\ left' = left - 1 /\ size' = size /\ devOut' = devOut /\ excuses' = excuses
      BY <1>1, <1>2, <1>5, <2>1, <2>4 DEF Parse
    <3> QED BY <1>1, <1>2, <1>5, <2>1, <2>2, <3>1 DEF ParserOK
  <2>5. CASE left # size /\ left \notin 2 .. size - 1
    <3>1. left = 1 /\ left < size /\ ~(left > 1)
      BY <1>1, <1>2, <1>5, <2>5
    <3>2. /\ left' = 0 /\ type' = 0 /\ size' = 0
          /\ IF b = Complement(size) THEN Process(type) ELSE UNCHANGED <<devOut, excuses>>
      BY <1>5, <2>1, <2>5, <3>1 DEF Parse
    <3>3. ParserOK'
      BY <1>2, <3>2 DEF ParserOK
    <3>4. CASE b = Complement(size)
      <4>1. Process(type)
        BY <3>2, <3>4
      <4>2. /\ excuses \subseteq excuses' /\ excuses' \subseteq {Late, Stray, Chatter}
            /\ \/ devOut' = devOut
               \/ Sent(devOut', {})
               \/ Sent(devOut', {1}) /\ ((host = "wait" /\ AtDevicesSpeed) \/ Stray \in excuses')
        BY <4>1, ProcessIs
      <4> QED BY <2>1, <3>1, <3>2, <3>3, <4>2 DEF Answering
    <3>5. CASE b # Complement(size)
      <4>1. devOut' = devOut /\ excuses' = excuses
        BY <3>2, <3>5
      <4> QED BY <1>1, <2>1, <3>3, <4>1
    <3> QED BY <3>4, <3>5
  <2> QED BY <2>3, <2>4, <2>5
<1> QED BY <1>2, <1>3, <1>4, <1>5

\* A byte that the device takes.
LEMMA DeviceReceivesIs ==
  ASSUME LinkTypes, DeviceReceives
  PROVE  /\ Opened /\ devOut = <<>> /\ hostOut # <<>> /\ hostOut' = Tail(hostOut)
         /\ UNCHANGED <<host, baud, attempt, appType, uid, rx, plugged, manager, devBaud, slow>>
         /\ ParserOK' /\ excuses \subseteq excuses' /\ excuses' \subseteq {Late, Stray, Chatter}
         /\ AtDevicesSpeed /\ left = 0 => left' = 0 \/ (left' = size' /\ left' >= 2)
         /\ \/ devOut' = devOut
            \/ Answering({})
            \/ Answering({1})
<1>1. /\ Opened /\ devOut = <<>> /\ hostOut # <<>> /\ hostOut' = Tail(hostOut)
      /\ UNCHANGED <<host, baud, attempt, appType, uid, rx, plugged, manager, devBaud, slow>>
  BY DEF DeviceReceives, hostVars, constVars
<1>2. CASE \E b \in Byte : Parse(b)
  <2>1. PICK b \in Byte : Parse(b)
    BY <1>2
  <2>2. /\ ParserOK' /\ excuses \subseteq excuses' /\ excuses' \subseteq {Late, Stray, Chatter}
        /\ left = 0 => left' = 0 \/ (left' = size' /\ left' >= 2)
        /\ \/ devOut' = devOut
           \/ Answering({})
           \/ Answering({1})
    BY <2>1, ParseIs
  <2> QED BY <1>1, <2>2, Zenon
<1>3. CASE ~AtDevicesSpeed /\ UNCHANGED <<parserVars, devOut, excuses>>
  <2>1. size' = size /\ left' = left /\ type' = type /\ devOut' = devOut /\ excuses' = excuses
    BY <1>3 DEF parserVars
  <2>2. ParserOK /\ excuses \subseteq {Late, Stray, Chatter}
    BY DEF LinkTypes, RestOK
  <2>3. ParserOK'
    BY <2>1, <2>2 DEF ParserOK
  <2> QED BY <1>1, <1>3, <2>1, <2>2, <2>3
<1>4. CASE AtDevicesSpeed /\ Parse(Head(hostOut))
  <2>1. Head(hostOut) \in Byte
    BY <1>1, HeadTailProperties DEF LinkTypes, LinesOK
  <2> QED BY <1>2, <1>4, <2>1
<1>5. CASE ~AtDevicesSpeed /\ \E b \in Junk : Parse(b)
  <2>1. Junk \subseteq Byte
    BY ByteAssumption
  <2> QED BY <1>2, <1>5, <2>1
<1> QED BY <1>3, <1>4, <1>5 DEF DeviceReceives

-----------------------------------------------------------------------------
(* What the steps do to the line.                                          *)

LEMMA LineTyped == LinkTypes => Line \in Seq(Byte)
<1> SUFFICES ASSUME LinkTypes PROVE Line \in Seq(Byte)
  OBVIOUS
<1>1. rx \in Seq(Byte) /\ devOut \in Seq(Byte)
  BY DEF LinkTypes, LinesOK
<1>2. rx \o devOut \in Seq(Byte)
  BY <1>1, ConcatProperties
<1> QED BY <1>1, <1>2 DEF Line

LEMMA FitsSuffices ==
  ASSUME NEW t, t = (Line)', NEW E, (Fits(t, E))'
  PROVE  LineInv'
<1>1. (Fits(Line, E))'
  BY Zenon DEF Fits
<1> QED BY <1>1, Zenon DEF LineInv

\* Bytes that are read, lost or discarded.
LEMMA LineShrinks ==
  ASSUME NEW s \in Seq(Byte), NEW C, Fits(s, C),
         NEW t \in Seq(Byte), NEW k \in Nat, CutBy(s, t, k),
         devOut \in Seq(Byte), devOut' \in Seq(Byte), Len(devOut') <= Len(devOut),
         excuses \subseteq excuses',
         host' = "up" /\ Late \notin excuses' => t = <<>> \/ 1 + k \in C,
         ~Excused' => Answers(s, C) = {} \/ MayAnswer' \/ Moved(Answers(s, C), k) = {}
  PROVE  (Fits(t, Moved(C, k)))'
<1>1. /\ Stream(s, C)
      /\ \A c \in Answers(s, C) : c <= (Len(s) - Len(devOut)) + 1
      /\ ~Excused => \A c, d \in Answers(s, C) : c = d
  BY DEF Fits
<1>2. Stream(t, Moved(C, k))
  BY <1>1, StreamShrinks
<1>3. Answers(t, Moved(C, k)) = Moved(Answers(s, C), k)
  BY <1>1, StreamShrinks
<1>4. PICK A : A = Answers(s, C)
  OBVIOUS
<1>5. /\ \A c \in A : c <= (Len(s) - Len(devOut)) + 1
      /\ ~Excused => \A c, d \in A : c = d
      /\ Answers(t, Moved(C, k)) = Moved(A, k)
      /\ ~Excused' => A = {} \/ MayAnswer' \/ Moved(A, k) = {}
  BY <1>1, <1>3, <1>4, Zenon
<1>6. Len(s) = k + Len(t) /\ Len(s) \in Int /\ Len(t) \in Int /\ Len(devOut) \in Int /\ Len(devOut') \in Int
  BY LenProperties DEF CutBy
<1>7. \A c \in Moved(A, k) : c <= (Len(t) - Len(devOut')) + 1
  <2> TAKE c \in Moved(A, k)
  <2>1. c \in Int /\ c + k \in A
    BY DEF Moved
  <2>2. c + k <= (Len(s) - Len(devOut)) + 1
    BY <1>5, <2>1
  <2>3. \A a, b, l, m, o, p \in Int : a + b <= (l - o) + 1 /\ l = b + m /\ p <= o => a <= (m - p) + 1
    OBVIOUS
  <2> QED BY <1>6, <2>1, <2>2, <2>3
<1>8. ~Excused' => \A c, d \in Moved(A, k) : c = d
  <2> SUFFICES ASSUME ~Excused', NEW c \in Moved(A, k), NEW d \in Moved(A, k) PROVE c = d
    OBVIOUS
  <2>1. ~Excused
    BY DEF Excused
  <2>2. c \in Int /\ d \in Int /\ c + k \in A /\ d + k \in A
    BY DEF Moved
  <2>3. c + k = d + k
    BY <1>5, <2>1, <2>2
  <2> QED BY <2>2, <2>3
<1>9. ~Excused' => Moved(A, k) = {} \/ MayAnswer'
  <2>1. Moved({}, k) = {}
    BY DEF Moved
  <2> QED BY <1>5, <2>1
<1>10. host' = "up" /\ Late \notin excuses' => t = <<>> \/ 1 \in Moved(C, k)
  BY DEF Moved
<1> QED
  BY <1>2, <1>5, <1>7, <1>8, <1>9, <1>10, Zenon DEF Fits

\* What the device sends.
LEMMA LineGrows ==
  ASSUME NEW s \in Seq(Byte), NEW C, Fits(s, C), NEW d, NEW A, Sent(d, A),
         devOut = <<>>, devOut' = d, excuses \subseteq excuses', host' = host,
         \/ A = {} /\ (~Excused' => (MayAnswer => MayAnswer'))
         \/ A = {1} /\ (~Excused' => ~MayAnswer /\ MayAnswer')
  PROVE  \E E : (Fits(s \o d, E))'
<1>1. PICK D : d \in Seq(Byte) /\ 1 \in D /\ Stream(d, D) /\ Answers(d, D) = A /\ d # <<>>
  BY DEF Sent
<1>2. /\ Stream(s, C)
      /\ \A c \in Answers(s, C) : c <= (Len(s) - Len(devOut)) + 1
      /\ host = "up" /\ Late \notin excuses => s = <<>> \/ 1 \in C
      /\ ~Excused => \A b, c \in Answers(s, C) : b = c
      /\ ~Excused => Answers(s, C) = {} \/ MayAnswer
  BY Zenon DEF Fits
<1>3. s \o d \in Seq(Byte) /\ Grown(s \o d, s, C, d, D)
  BY <1>1, <1>2, StreamGrows
<1>4. PICK B : B = Answers(s, C)
  OBVIOUS
<1>5. PICK n : n = Len(s)
  OBVIOUS
<1>6. PICK u : u = s \o d
  OBVIOUS
<1>7. PICK E : E = C \cup Further(D, n)
  OBVIOUS
<1>8. u \in Seq(Byte) /\ Stream(u, E) /\ Answers(u, E) = B \cup Further(A, n)
  <2>1. Grown(u, s, C, d, D) /\ u \in Seq(Byte)
    BY <1>3, <1>6, Zenon
  <2>2. Stream(u, C \cup Further(D, Len(s)))
    BY <2>1, Zenon DEF Grown
  <2>3. Answers(u, C \cup Further(D, Len(s))) = Answers(s, C) \cup Further(Answers(d, D), Len(s))
    BY <2>1, Zenon DEF Grown
  <2>4. Stream(u, E)
    BY <1>5, <1>7, <2>2, Zenon
  <2>5. Answers(u, E) = B \cup Further(A, n)
    BY <1>1, <1>4, <1>5, <1>7, <2>3
  <2> QED BY <2>1, <2>4, <2>5
<1>9. PICK F : F = B \cup Further(A, n)
  OBVIOUS
<1>10. Answers(u, E) = F
  BY <1>8, <1>9
<1>11. n \in Nat /\ Len(u) = n + Len(d) /\ Len(d) \in Nat
  <2>1. s \in Seq(Byte) /\ d \in Seq(Byte)
    BY <1>1
  <2>2. Len(s \o d) = Len(s) + Len(d) /\ Len(s) \in Nat /\ Len(d) \in Nat
    BY <2>1, ConcatProperties, LenProperties
  <2> QED BY <1>5, <1>6, <2>2
<1>12. B \subseteq 1 .. n
  BY <1>2, <1>4, <1>5 DEF Stream, Answers
<1>13. \A e \in F : e \in B \/ (e = n + 1 /\ A = {1})
  <2>1. A = {} \/ A = {1}
    OBVIOUS
  <2>2. Further({}, n) = {} /\ Further({1}, n) = {n + 1}
    BY DEF Further
  <2> QED BY <1>9, <2>1, <2>2
<1>14. \A e \in F : e <= (Len(u) - Len(d)) + 1
  <2> TAKE e \in F
  <2>0. e \in B \/ e = n + 1
    BY <1>13
  <2>1. e \in Int /\ e <= n + 1
    <3>1. \A b \in B : b \in Int /\ b <= n
      BY <1>11, <1>12
    <3> QED BY <1>11, <2>0, <3>1
  <2> QED BY <1>11, <2>1
<1>15. excuses \cap {Late, Stray} \subseteq excuses' \cap {Late, Stray} /\ (~Excused' => ~Excused)
  BY DEF Excused
<1>16. ~Excused' => (\A b, c \in F : b = c) /\ (F = {} \/ MayAnswer')
  <2> SUFFICES ASSUME ~Excused' PROVE (\A b, c \in F : b = c) /\ (F = {} \/ MayAnswer')
    OBVIOUS
  <2>1. (\A b, c \in B : b = c) /\ (B = {} \/ MayAnswer)
    BY <1>2, <1>4, <1>15, Zenon
  <2>2. CASE A = {}
    <3>1. F = B
      <4>1. Further({}, n) = {}
        BY DEF Further
      <4> QED BY <1>9, <2>2, <4>1
    <3>2. MayAnswer => MayAnswer'
      BY <2>2
    <3> QED BY <2>1, <3>1, <3>2
  <2>3. CASE A = {1}
    <3>1. ~MayAnswer /\ MayAnswer'
      BY <2>3
    <3>2. B = {}
      BY <2>1, <3>1
    <3> QED BY <1>13, <3>1, <3>2
  <2> QED BY <2>2, <2>3
<1>17. host' = "up" /\ Late \notin excuses' => u = <<>> \/ 1 \in E
  <2> SUFFICES ASSUME host = "up", Late \notin excuses PROVE 1 \in E
    BY <1>15
  <2>1. CASE s = <<>>
    <3>1. n = 0
      BY <1>5, <2>1, EmptySeq
    <3>2. 1 \in Further(D, n)
      BY <1>1, <3>1 DEF Further
    <3> QED BY <1>7, <3>2
  <2>2. CASE 1 \in C
    BY <1>7, <2>2
  <2> QED BY <1>2, <2>1, <2>2
<1>18. (Fits(u, E))'
  <2>1. /\ Stream(u, E)
        /\ \A c \in Answers(u, E) : c <= (Len(u) - Len(devOut')) + 1
        /\ ~Excused' => \A b, c \in Answers(u, E) : b = c
        /\ ~Excused' => Answers(u, E) = {} \/ MayAnswer'
    BY <1>8, <1>10, <1>14, <1>16
  <2> QED BY <1>17, <2>1, Zenon DEF Fits
<1>19. (Fits(s \o d, E))'
  BY <1>6, <1>18, Zenon DEF Fits
<1> QED BY <1>19

LEMMA CutNone ==
  ASSUME NEW s \in Seq(Byte) PROVE CutBy(s, s, 0)
<1>1. Len(s) \in Nat
  BY LenProperties
<1>2. Len(s) = 0 + Len(s)
  BY <1>1
<1>3. \A i \in 1 .. Len(s) : s[i] = s[i + 0]
  BY <1>1
<1> QED BY <1>2, <1>3, Zenon DEF CutBy

LEMMA CutPrefix ==
  ASSUME NEW a \in Seq(Byte), NEW b \in Seq(Byte) PROVE CutBy(a \o b, b, Len(a))
<1>1. PICK u : u = a \o b
  OBVIOUS
<1>2. /\ Len(u) = Len(a) + Len(b) /\ Len(a) \in Nat /\ Len(b) \in Nat
      /\ \A i \in 1 .. Len(a) + Len(b) : u[i] = IF i <= Len(a) THEN a[i] ELSE b[i - Len(a)]
  BY <1>1, ConcatProperties, LenProperties
<1>3. \A i \in 1 .. Len(b) : b[i] = u[i + Len(a)]
  <2> TAKE i \in 1 .. Len(b)
  <2>1. /\ i + Len(a) \in 1 .. Len(a) + Len(b) /\ ~(i + Len(a) <= Len(a))
        /\ (i + Len(a)) - Len(a) = i
    BY <1>2
  <2> QED BY <1>2, <2>1
<1>4. CutBy(u, b, Len(a))
  BY <1>2, <1>3 DEF CutBy
<1> QED BY <1>1, <1>4, Zenon

LEMMA CutTail ==
  ASSUME NEW s \in Seq(Byte), s # <<>>
  PROVE  CutBy(s, Tail(s), 1) /\ Tail(s) \in Seq(Byte) /\ Len(Tail(s)) = Len(s) - 1
<1>1. PICK r : r = Tail(s)
  OBVIOUS
<1>2. /\ r \in Seq(Byte) /\ Len(r) = Len(s) - 1 /\ Len(s) \in Nat
      /\ \A i \in 1 .. Len(r) : r[i] = s[i + 1]
  BY <1>1, HeadTailProperties, LenProperties
<1>3. CutBy(s, r, 1)
  BY <1>2 DEF CutBy
<1> QED BY <1>1, <1>2, <1>3

LEMMA CutSub ==
  ASSUME NEW a \in Seq(Byte), NEW k \in Nat, k <= Len(a)
  PROVE  /\ SubSeq(a, k + 1, Len(a)) \in Seq(Byte) /\ CutBy(a, SubSeq(a, k + 1, Len(a)), k)
<1>1. Len(a) \in Nat /\ k + 1 \in Int /\ \A i \in k + 1 .. Len(a) : a[i] \in Byte
  BY LenProperties, ElementOfSeq
<1>2. PICK r : r = SubSeq(a, k + 1, Len(a))
  OBVIOUS
<1>3. /\ r \in Seq(Byte)
      /\ Len(r) = IF k + 1 <= Len(a) THEN (Len(a) - (k + 1)) + 1 ELSE 0
      /\ \A i \in 1 .. (Len(a) - (k + 1)) + 1 : r[i] = a[((k + 1) + i) - 1]
  BY <1>1, <1>2, SubSeqProperties
<1>4. Len(r) = Len(a) - k /\ (Len(a) - (k + 1)) + 1 = Len(a) - k
  BY <1>1, <1>3
<1>5. \A i \in 1 .. Len(r) : r[i] = a[i + k]
  <2> TAKE i \in 1 .. Len(r)
  <2>1. i \in 1 .. (Len(a) - (k + 1)) + 1 /\ ((k + 1) + i) - 1 = i + k
    BY <1>1, <1>4
  <2> QED BY <1>3, <2>1
<1>6. CutBy(a, r, k)
  BY <1>1, <1>4, <1>5 DEF CutBy
<1> QED BY <1>2, <1>3, <1>6

LEMMA CutFirst ==
  ASSUME NEW a \in Seq(Byte), NEW b \in Seq(Byte), NEW r \in Seq(Byte), NEW k \in Nat,
         CutBy(a, r, k)
  PROVE  CutBy(a \o b, r \o b, k)
<1>1. PICK u : u = a \o b
  OBVIOUS
<1>2. PICK v : v = r \o b
  OBVIOUS
<1>3. /\ Len(u) = Len(a) + Len(b)
      /\ \A i \in 1 .. Len(a) + Len(b) : u[i] = IF i <= Len(a) THEN a[i] ELSE b[i - Len(a)]
  BY <1>1, ConcatProperties
<1>4. /\ Len(v) = Len(r) + Len(b)
      /\ \A i \in 1 .. Len(r) + Len(b) : v[i] = IF i <= Len(r) THEN r[i] ELSE b[i - Len(r)]
  BY <1>2, ConcatProperties
<1>5. Len(a) \in Nat /\ Len(b) \in Nat /\ Len(r) \in Nat /\ Len(a) = k + Len(r)
  BY LenProperties DEF CutBy
<1>6. \A i \in 1 .. Len(v) : v[i] = u[i + k]
  <2> TAKE i \in 1 .. Len(v)
  <2>1. i \in 1 .. Len(r) + Len(b) /\ i + k \in 1 .. Len(a) + Len(b)
    BY <1>4, <1>5
  <2>2. CASE i <= Len(r)
    <3>1. i \in 1 .. Len(r) /\ i + k <= Len(a)
      BY <1>5, <2>1, <2>2
    <3>2. r[i] = a[i + k]
      BY <3>1 DEF CutBy
    <3> QED BY <1>3, <1>4, <2>1, <2>2, <3>1, <3>2
  <2>3. CASE ~(i <= Len(r))
    <3>1. ~(i + k <= Len(a)) /\ (i + k) - Len(a) = i - Len(r)
      BY <1>5, <2>1, <2>3
    <3> QED BY <1>3, <1>4, <2>1, <2>3, <3>1
  <2> QED BY <2>2, <2>3
<1>7. Len(u) = k + Len(v)
  BY <1>3, <1>4, <1>5
<1>8. CutBy(u, v, k)
  BY <1>6, <1>7 DEF CutBy
<1> QED BY <1>1, <1>2, <1>8, Zenon

\* A byte that arrives goes from the one queue to the other.
LEMMA ByteArrives ==
  ASSUME NEW a \in Seq(Byte), NEW b \in Seq(Byte), b # <<>>
  PROVE  Append(a, Head(b)) \o Tail(b) = a \o b
<1>1. PICK h : h = Head(b)
  OBVIOUS
<1>2. PICK t : t = Tail(b)
  OBVIOUS
<1>3. PICK e : e = <<h>>
  OBVIOUS
<1>4. h \in Byte /\ t \in Seq(Byte) /\ Len(t) = Len(b) - 1 /\ Len(b) \in Nat \ {0}
      /\ \A i \in 1 .. Len(t) : t[i] = b[i + 1]
  BY <1>1, <1>2, HeadTailProperties, EmptySeq
<1>5. e \in Seq(Byte) /\ Len(e) = 1 /\ e[1] = h /\ h = b[1]
  BY <1>1, <1>3, <1>4
<1>6. b = e \o t
  <2>1. PICK x : x = e \o t
    OBVIOUS
  <2>2. /\ x \in Seq(Byte) /\ Len(x) = Len(e) + Len(t)
        /\ \A i \in 1 .. Len(e) + Len(t) : x[i] = IF i <= Len(e) THEN e[i] ELSE t[i - Len(e)]
    BY <1>4, <1>5, <2>1, ConcatProperties
  <2>3. Len(x) = Len(b)
    BY <1>4, <1>5, <2>2
  <2>4. \A i \in 1 .. Len(b) : b[i] = x[i]
    <3> TAKE i \in 1 .. Len(b)
    <3>1. CASE i = 1
      BY <1>4, <1>5, <2>2, <3>1
    <3>2. CASE i # 1
      <4>1. i - 1 \in 1 .. Len(t) /\ (i - 1) + 1 = i /\ ~(i <= 1) /\ i \in 1 .. 1 + Len(t)
        BY <1>4, <3>2
      <4>2. x[i] = t[i - 1]
        BY <1>5, <2>2, <4>1
      <4> QED BY <1>4, <4>1, <4>2
    <3> QED BY <3>1, <3>2
  <2>5. b = x
    BY <2>2, <2>3, <2>4, SeqEqual
  <2> QED BY <2>1, <2>5
<1>7. Append(a, h) = a \o e
  BY <1>3, <1>4, AppendIsConcat
<1>8. (a \o e) \o t = a \o (e \o t)
  <2>1. a \in Seq(Byte) /\ e \in Seq(Byte) /\ t \in Seq(Byte)
    BY <1>4, <1>5
  <2> QED BY <2>1, ConcatAssociative
<1> QED BY <1>1, <1>2, <1>6, <1>7, <1>8, Zenon

LEMMA LineShrunk ==
  ASSUME LinkTypes, LinkTypes', NEW C, Fits(Line, C), NEW k \in Nat, CutBy(Line, (Line)', k),
         Len(devOut') <= Len(devOut), excuses \subseteq excuses',
         host' = "up" /\ Late \notin excuses' => (Line)' = <<>> \/ 1 + k \in C,
         ~Excused' => Answers(Line, C) = {} \/ MayAnswer' \/ Moved(Answers(Line, C), k) = {}
  PROVE  LineInv'
<1>1. PICK s : s = Line
  OBVIOUS
<1>2. PICK t : t = (Line)'
  OBVIOUS
<1>3. s \in Seq(Byte)
  BY <1>1, LineTyped
<1>4. t \in Seq(Byte)
  <2>1. (Line)' \in Seq(Byte)
    <3>1. rx' \in Seq(Byte) /\ devOut' \in Seq(Byte)
      BY DEF LinkTypes, LinesOK
    <3>2. rx' \o devOut' \in Seq(Byte)
      BY <3>1, ConcatProperties
    <3> QED BY <3>1, <3>2 DEF Line
  <2> QED BY <1>2, <2>1
<1>5. devOut \in Seq(Byte) /\ devOut' \in Seq(Byte)
  BY DEF LinkTypes, LinesOK
<1>6. Fits(s, C) /\ CutBy(s, t, k)
  BY <1>1, <1>2, Zenon
<1>7. host' = "up" /\ Late \notin excuses' => t = <<>> \/ 1 + k \in C
  BY <1>2
<1>8. ~Excused' => Answers(s, C) = {} \/ MayAnswer' \/ Moved(Answers(s, C), k) = {}
  BY <1>1, Zenon
<1>9. (Fits(t, Moved(C, k)))'
  BY <1>3, <1>4, <1>5, <1>6, <1>7, <1>8, LineShrinks
<1> QED BY <1>2, <1>9, FitsSuffices

-----------------------------------------------------------------------------
(* The steps preserve the invariant.                                       *)

LEMMA InitInv == Init => LinkInv
<1> SUFFICES ASSUME Init PROVE LinkInv
  OBVIOUS
<1>1. /\ host = "baud" /\ baud = 1 /\ attempt = 1 /\ appType = 0 /\ uid = 0
      /\ rx = <<>> /\ hostOut = <<>> /\ devOut = <<>>
      /\ slow \in SUBSET {1} /\ excuses = {}
  BY DEF Init
<1>2. devBaud \in 1 .. 2
  BY BaudsAre DEF Init
<1>3. 0 \in Byte /\ HANDSHAKE \in Byte /\ 2 \in Byte /\ W \in Nat /\ W >= 10
  BY BytesAre
<1>4. HostOK
  BY <1>1, <1>3 DEF HostOK
<1>5. ParserOK
  <2>1. CASE size = 0 /\ left = 0 /\ type = 0
    BY <1>3, <2>1 DEF ParserOK
  <2>2. CASE size \in 2 .. W - 1 /\ left = size /\ type = 0
    BY <1>3, <2>2 DEF ParserOK, Byte
  <2>3. CASE size \in 2 .. W - 1 /\ left \in 1 .. size - 1 /\ type \in {0, 2, HANDSHAKE}
    <3>1. size \in Byte /\ left \in Byte /\ left <= size /\ size >= 2
      BY <1>3, <2>3 DEF Byte
    <3>2. type \in Byte
      BY <1>3, <2>3
    <3> QED BY <3>1, <3>2 DEF ParserOK
  <2> QED BY <2>1, <2>2, <2>3 DEF Init
<1>6. LinesOK
  BY <1>1, EmptySeq DEF LinesOK
<1>7. RestOK
  BY <1>1, <1>2 DEF RestOK
<1>8. JunkOnly /\ KnownInv
  BY <1>1 DEF JunkOnly, KnownInv
<1>9. LineInv
  <2>1. Line = <<>>
    BY <1>1 DEF Line
  <2>2. Answers(<<>>, {}) = {}
    BY DEF Answers
  <2>3. Fits(<<>>, {})
    BY <1>1, <2>2, EmptyStream DEF Fits
  <2> QED BY <2>1, <2>3 DEF LineInv
<1> QED BY <1>4, <1>5, <1>6, <1>7, <1>8, <1>9 DEF LinkInv, LinkTypes

\* A step that leaves the server where it is and the lines and the port alone.
LEMMA LineUnmoved ==
  ASSUME LinkInv, LinkTypes', Opened' => Opened, plugged' = plugged,
         (Line)' = Line, Len(devOut') <= Len(devOut), excuses \subseteq excuses',
         host' = "up" => host = "up",
         MayAnswer => MayAnswer'
  PROVE  LineInv'
<1> SUFFICES ASSUME plugged', Opened' PROVE LineInv'
  BY DEF LineInv
<1>1. plugged /\ Opened
  OBVIOUS
<1>2. PICK C : Fits(Line, C)
  BY <1>1 DEF LinkInv, LineInv
<1>3. Line \in Seq(Byte)
  BY LineTyped DEF LinkInv
<1>4. CutBy(Line, (Line)', 0)
  BY <1>3, CutNone
<1>5. ~Excused' => ~Excused
  BY DEF Excused
<1>6. host' = "up" /\ Late \notin excuses' => (Line)' = <<>> \/ 1 + 0 \in C
  BY <1>2 DEF Fits
<1>7. ~Excused' => Answers(Line, C) = {} \/ MayAnswer'
  BY <1>2, <1>5, Zenon DEF Fits
<1>9. 0 \in Nat /\ LinkTypes
  BY DEF LinkInv
<1> QED
  BY <1>2, <1>4, <1>6, <1>7, <1>9, LineShrunk, Zenon

LEMMA FlushTyped == Flush \in Seq(Byte)
<1>1. W - 1 \in Nat /\ 0 \in Byte
  BY BytesAre
<1>2. PICK n \in Nat : n = W - 1
  BY <1>1
<1>3. [i \in 1 .. n |-> 0] \in Seq(Byte)
  BY <1>1, IsASeq
<1> QED BY <1>2, <1>3 DEF Flush

LEMMA QuestionTyped ==
  Question \in Seq(Byte) /\ Len(Question) = 3 /\ PollDatagram \in Seq(Byte)
<1>1. PICK m : m = <<>>
  OBVIOUS
<1>2. m \in Seq(Byte) /\ Len(m) = 0 /\ HANDSHAKE \in Byte /\ 0 \in Byte
  BY <1>1, EmptySeq, BytesAre
<1>3. Formed(Datagram(HANDSHAKE, m), HANDSHAKE, m) /\ Formed(Datagram(0, m), 0, m)
  BY <1>2, DatagramIs
<1>4. /\ Datagram(HANDSHAKE, m) \in Seq(Byte) /\ Len(Datagram(HANDSHAKE, m)) = Len(m) + 3
      /\ Datagram(0, m) \in Seq(Byte)
  BY <1>3, Zenon DEF Formed
<1>5. Question = Datagram(HANDSHAKE, m) /\ PollDatagram = Datagram(0, m)
  BY <1>1, Zenon DEF Question, PollDatagram
<1> QED BY <1>2, <1>4, <1>5

\* What an action that neither reaches the parser nor the device's messages keeps.
LEMMA ParserKept ==
  ASSUME LinkTypes, size' = size, left' = left, type' = type
  PROVE  ParserOK'
BY DEF LinkTypes, ParserOK

LEMMA RestKept ==
  ASSUME LinkTypes, devBaud' = devBaud, slow' = slow, excuses' \subseteq {Late, Stray, Chatter}
  PROVE  RestOK'
BY DEF LinkTypes, RestOK

LEMMA SendFlushKeeps == LinkInv /\ SendFlush => LinkInv'
<1> SUFFICES ASSUME LinkInv, SendFlush PROVE LinkInv'
  OBVIOUS
<1>1. LinkTypes
  BY DEF LinkInv
<1>2. /\ host = "baud" /\ rx' = <<>>
      /\ \/ host' = "flush" /\ hostOut' = Flush /\ baud' = baud /\ attempt' = attempt
         \/ /\ host' \in {"baud", "failed"} /\ hostOut' = hostOut
            /\ baud' \in 1 .. 2 /\ attempt' \in 1 .. 2
            /\ ~plugged \/ (baud \in slow /\ baud' = baud)
      /\ UNCHANGED <<appType, uid, size, left, type, devOut, plugged, manager, devBaud, slow, excuses>>
  BY <1>1, SendFlushIs
<1>3. HostOK'
  BY <1>1, <1>2 DEF LinkTypes, HostOK
<1>4. LinesOK'
  <2>1. hostOut' \in Seq(Byte)
    BY <1>1, <1>2, FlushTyped DEF LinkTypes, LinesOK
  <2> QED BY <1>1, <1>2, <2>1, EmptySeq DEF LinkTypes, LinesOK
<1>5. ParserOK' /\ RestOK'
  <2>1. excuses' \subseteq {Late, Stray, Chatter}
    BY <1>1, <1>2 DEF LinkTypes, RestOK
  <2> QED BY <1>1, <1>2, <2>1, ParserKept, RestKept
<1>6. LinkTypes'
  BY <1>3, <1>4, <1>5 DEF LinkTypes
<1>7. JunkOnly' /\ KnownInv'
  <2>1. Len(rx') = 0
    BY <1>2, EmptySeq
  <2> QED BY <1>2, <2>1 DEF JunkOnly, KnownInv
<1>8. LineInv'
  <2> SUFFICES ASSUME plugged', Opened' PROVE LineInv'
    BY DEF LineInv
  <2>1. baud' = baud /\ host' \in {"baud", "flush"} /\ plugged
    BY <1>2 DEF Opened, Looking
  <2>2. Line = devOut
    BY <1>2 DEF Line
  <2>3. (Line)' = devOut
    <3>1. devOut \in Seq(Byte)
      BY <1>1 DEF LinkTypes, LinesOK
    <3>2. <<>> \o devOut = devOut
      BY <3>1, ConcatEmptySeq
    <3> QED BY <1>2, <3>2 DEF Line
  <2>4. MayAnswer => MayAnswer'
    BY <1>2, <2>1 DEF MayAnswer, AtDevicesSpeed
  <2>5. Opened
    BY <1>2 DEF Opened, Looking
  <2>6. Len(devOut') <= Len(devOut)
    BY <1>1, <1>2, LenProperties DEF LinkTypes, LinesOK
  <2> QED BY <1>2, <1>6, <2>1, <2>2, <2>3, <2>4, <2>5, <2>6, LineUnmoved
<1> QED BY <1>6, <1>7, <1>8 DEF LinkInv

LEMMA AskKeeps == LinkInv /\ Ask => LinkInv'
<1> SUFFICES ASSUME LinkInv, Ask PROVE LinkInv'
  OBVIOUS
<1>1. LinkTypes
  BY DEF LinkInv
<1>2. /\ host = "flush" /\ rx' = <<>> /\ hostOut = <<>>
      /\ \/ /\ host' = "wait" /\ hostOut' = Question
            /\ baud' = baud /\ attempt' = attempt
         \/ /\ host' \in {"baud", "failed"} /\ hostOut' = hostOut
            /\ baud' \in 1 .. 2 /\ attempt' \in 1 .. 2 /\ ~plugged
      /\ UNCHANGED <<appType, uid, size, left, type, devOut, plugged, manager, devBaud, slow, excuses>>
  BY <1>1, AskIs
<1>3. HostOK'
  <2>1. host' = "wait" => Len(hostOut') <= 3
    <3>1. host' = "wait" => hostOut' = Question
      BY <1>2
    <3> QED BY <3>1, QuestionTyped, SMTT(30)
  <2> QED BY <1>1, <1>2, <2>1 DEF LinkTypes, HostOK
<1>4. LinesOK'
  <2>1. hostOut' \in Seq(Byte)
    BY <1>1, <1>2, QuestionTyped DEF LinkTypes, LinesOK
  <2> QED BY <1>1, <1>2, <2>1, EmptySeq DEF LinkTypes, LinesOK
<1>5. ParserOK' /\ RestOK'
  <2>1. excuses' \subseteq {Late, Stray, Chatter}
    BY <1>1, <1>2 DEF LinkTypes, RestOK
  <2> QED BY <1>1, <1>2, <2>1, ParserKept, RestKept
<1>6. LinkTypes'
  BY <1>3, <1>4, <1>5 DEF LinkTypes
<1>7. JunkOnly' /\ KnownInv'
  <2>1. Len(rx') = 0
    BY <1>2, EmptySeq
  <2> QED BY <1>2, <2>1 DEF JunkOnly, KnownInv
<1>8. LineInv'
  <2> SUFFICES ASSUME plugged', Opened' PROVE LineInv'
    BY DEF LineInv
  <2>1. plugged /\ Opened /\ host' = "wait" /\ baud' = baud
    BY <1>2 DEF Opened, Looking
  <2>2. PICK C : Fits(Line, C)
    BY <2>1 DEF LinkInv, LineInv
  <2>3. rx \in Seq(Byte) /\ devOut \in Seq(Byte) /\ Len(devOut') <= Len(devOut) /\ Len(rx) \in Nat
    BY <1>1, <1>2, LenProperties DEF LinkTypes, LinesOK
  <2>4. (Line)' = devOut
    <3>1. <<>> \o devOut = devOut
      BY <2>3, ConcatEmptySeq
    <3> QED BY <1>2, <3>1 DEF Line
  <2>5. PICK k \in Nat : CutBy(Line, (Line)', k)
    <3>1. CASE AtDevicesSpeed
      <4>1. Line = rx \o devOut
        BY <1>2, <3>1 DEF Line
      <4> QED BY <2>3, <2>4, <4>1, CutPrefix
    <3>2. CASE ~AtDevicesSpeed
      <4>1. Line = devOut
        BY <3>2 DEF Line
      <4> QED BY <2>3, <2>4, <4>1, CutNone
    <3> QED BY <3>1, <3>2
  <2>6. MayAnswer => MayAnswer'
    BY <1>2, <2>1 DEF MayAnswer, AtDevicesSpeed
  <2>7. ~Excused' => Answers(Line, C) = {} \/ MayAnswer'
    <3>1. ~Excused' => ~Excused
      BY <1>2 DEF Excused
    <3> QED BY <2>2, <2>6, <3>1, Zenon DEF Fits
  <2>8. excuses \subseteq excuses' /\ host' # "up"
    BY <1>2, <2>1
  <2> QED BY <1>1, <1>6, <2>2, <2>3, <2>5, <2>7, <2>8, LineShrunk, Zenon
<1> QED BY <1>6, <1>7, <1>8 DEF LinkInv

LEMMA PollTimeoutKeeps == LinkInv /\ PollTimeout => LinkInv'
<1> SUFFICES ASSUME LinkInv, PollTimeout PROVE LinkInv'
  OBVIOUS
<1>1. LinkTypes /\ baud \in 1 .. 2 /\ attempt \in 1 .. 2 /\ devBaud \in 1 .. 2
  BY DEF LinkInv, LinkTypes, HostOK, RestOK
<1>2. /\ host = "wait" /\ hostOut = <<>> /\ rx = <<>> /\ NextBaud
      /\ excuses' = IF devOut # <<>> THEN excuses \cup {Late} ELSE excuses
      /\ UNCHANGED <<appType, uid, rx, hostOut, size, left, type, devOut, plugged, manager, devBaud, slow>>
  BY DEF PollTimeout, Waiting, parserVars, constVars
<1>3. /\ host' \in {"baud", "failed"} /\ baud' \in 1 .. 2 /\ attempt' \in 1 .. 2
      /\ host' = "baud" => baud' = 3 - baud
  BY <1>1, <1>2, NextBaudIs
<1>4. HostOK' /\ LinesOK'
  BY <1>1, <1>2, <1>3 DEF LinkTypes, HostOK, LinesOK
<1>5. excuses \subseteq excuses' /\ excuses' \subseteq {Late, Stray, Chatter}
  BY <1>1, <1>2 DEF LinkTypes, RestOK
<1>6. ParserOK' /\ RestOK'
  BY <1>1, <1>2, <1>5, ParserKept, RestKept
<1>7. LinkTypes'
  BY <1>4, <1>6 DEF LinkTypes
<1>8. JunkOnly' /\ KnownInv'
  BY <1>3 DEF JunkOnly, KnownInv
<1>9. LineInv'
  <2> SUFFICES ASSUME plugged', Opened' PROVE LineInv'
    BY DEF LineInv
  <2>1. plugged /\ Opened /\ host' = "baud" /\ baud' = 3 - baud
    BY <1>2, <1>3 DEF Opened, Looking
  <2>2. PICK C : Fits(Line, C)
    BY <2>1 DEF LinkInv, LineInv
  <2>3. rx \in Seq(Byte) /\ devOut \in Seq(Byte) /\ Len(devOut') <= Len(devOut)
    BY <1>1, <1>2, LenProperties DEF LinkTypes, LinesOK
  <2>4. Line = devOut /\ (Line)' = devOut
    <3>1. <<>> \o devOut = devOut
      BY <2>3, ConcatEmptySeq
    <3> QED BY <1>2, <2>1, <3>1 DEF Line
  <2>5. CutBy(Line, (Line)', 0) /\ 0 \in Nat
    BY <2>3, <2>4, CutNone
  <2>6. ~Excused' => Answers(Line, C) = {} \/ MayAnswer'
    <3> SUFFICES ASSUME ~Excused' PROVE Answers(Line, C) = {} \/ MayAnswer'
      OBVIOUS
    <3>1. devOut = <<>>
      BY <1>2 DEF Excused
    <3>2. C \subseteq 1 .. Len(Line)
      BY <2>2 DEF Fits, Stream
    <3>3. Len(Line) = 0
      BY <2>4, <3>1, EmptySeq
    <3>4. 1 .. Len(Line) = {}
      BY <3>3
    <3>5. C = {}
      BY <3>2, <3>4
    <3> QED BY <3>5 DEF Answers
  <2>7. host' # "up"
    BY <2>1
  <2> QED BY <1>1, <1>5, <1>7, <2>2, <2>3, <2>5, <2>6, <2>7, LineShrunk, Zenon
<1> QED BY <1>7, <1>8, <1>9 DEF LinkInv

\* A server that reads something else than a handshake goes on at the other speed.
LEMMA LookFails ==
  ASSUME LinkInv, LinkTypes', host = "wait", rx # <<>>, host' \in {"baud", "failed"},
         host' = "baud" => baud' = 3 - baud, devOut' = devOut, plugged' = plugged,
         devBaud' = devBaud, excuses \subseteq excuses'
  PROVE  LineInv'
<1> SUFFICES ASSUME plugged', Opened' PROVE LineInv'
  BY DEF LineInv
<1>1. plugged /\ Opened /\ host' = "baud" /\ baud' = 3 - baud
  BY DEF Opened, Looking
<1>2. PICK C : Fits(Line, C)
  BY <1>1 DEF LinkInv, LineInv
<1>3. rx \in Seq(Byte) /\ devOut \in Seq(Byte) /\ Len(devOut') <= Len(devOut) /\ Len(rx) \in Nat
  BY LenProperties DEF LinkInv, LinkTypes, LinesOK
<1>4. (Line)' = devOut
  BY <1>1 DEF Line
<1>5. PICK k \in Nat : CutBy(Line, (Line)', k)
  <2>1. CASE AtDevicesSpeed
    <3>1. Line = rx \o devOut
      BY <2>1 DEF Line
    <3> QED BY <1>3, <1>4, <3>1, CutPrefix
  <2>2. CASE ~AtDevicesSpeed
    <3>1. Line = devOut
      BY <2>2 DEF Line
    <3> QED BY <1>3, <1>4, <3>1, CutNone
  <2> QED BY <2>1, <2>2
<1>6. ~Excused' => Answers(Line, C) = {} \/ MayAnswer'
  <2> SUFFICES ASSUME ~Excused' PROVE Answers(Line, C) = {} \/ MayAnswer'
    OBVIOUS
  <2>1. ~Excused
    BY DEF Excused
  <2>2. Answers(Line, C) = {} \/ MayAnswer
    BY <1>2, <2>1, Zenon DEF Fits
  <2>3. CASE AtDevicesSpeed
    <3>1. baud \in 1 .. 2 /\ baud' # devBaud'
      BY <1>1, <2>3 DEF AtDevicesSpeed, LinkInv, LinkTypes, HostOK
    <3> QED BY <1>1, <3>1 DEF MayAnswer, AtDevicesSpeed
  <2>4. CASE ~AtDevicesSpeed
    <3>1. ~MayAnswer
      BY <2>4 DEF MayAnswer
    <3> QED BY <2>2, <3>1
  <2> QED BY <2>3, <2>4
<1>7. host' # "up" /\ LinkTypes
  BY <1>1 DEF LinkInv
<1> QED BY <1>2, <1>3, <1>5, <1>6, <1>7, LineShrunk, Zenon

\* The first bytes of an answer are those of the device's answer, and what follows it is
\* a datagram again.
LEMMA AnswerRead ==
  ASSUME NEW s \in Seq(Byte), NEW C, Stream(s, C), Len(s) >= 1, s[1] = 4,
         Len(s) >= 2 => s[2] = HANDSHAKE
  PROVE  /\ 1 \in C /\ 1 \in Answers(s, C) /\ Len(s) >= 5 /\ (6 \in C \/ Len(s) = 5)
         /\ s[3] = AppType /\ s[4] = Uid
<1>1. Len(s) \in Nat /\ HANDSHAKE \in Int /\ HANDSHAKE >= 9
  BY LenProperties, BytesAre
<1>2. 1 \in C
  <2> SUFFICES ASSUME 1 \notin C PROVE FALSE
    OBVIOUS
  <2>1. 1 \in 1 .. Len(s)
    BY <1>1
  <2>2. 1 < Len(s) /\ s[1 + 1] # HANDSHAKE
    BY <2>1 DEF Stream
  <2>3. Len(s) >= 2
    BY <1>1, <2>2
  <2> QED BY <2>2, <2>3
<1>3. DatagramAt(s, 1) /\ (EndOf(s, 1) + 1 \in C \/ EndOf(s, 1) = Len(s))
  BY <1>2 DEF Stream
<1>4. EndOf(s, 1) = 5
  BY DEF EndOf
<1>5. Len(s) >= 5
  BY <1>1, <1>3, <1>4 DEF DatagramAt
<1>6. s[2] = HANDSHAKE
  BY <1>1, <1>5
<1>7. s[3] = AppType /\ s[4] = Uid
  <2>1. ~(s[2] \in 0 .. 2)
    BY <1>1, <1>6
  <2> QED BY <1>3, <2>1 DEF DatagramAt
<1>8. 1 \in Answers(s, C)
  BY <1>2, <1>6 DEF Answers
<1>9. EndOf(s, 1) + 1 = 6
  BY <1>4
<1>10. 6 \in C \/ Len(s) = 5
  BY <1>3, <1>4, <1>9
<1> QED BY <1>2, <1>5, <1>7, <1>8, <1>10

\* At another speed nothing looks like an answer.
LEMMA AnswersAtSpeed ==
  ASSUME LinkInv, host = "wait", Len(rx) >= 1, rx[1] = 4
  PROVE  AtDevicesSpeed
<1>1. Len(rx) \in Nat
  BY LenProperties DEF LinkInv, LinkTypes, LinesOK
<1>2. 1 \in 1 .. Len(rx)
  BY <1>1
<1> QED BY <1>2 DEF LinkInv, JunkOnly

LEMMA ReadHandshakeKeeps == LinkInv /\ ReadHandshake => LinkInv'
<1> SUFFICES ASSUME LinkInv, ReadHandshake PROVE LinkInv'
  OBVIOUS
<1>1. LinkTypes /\ rx \in Seq(Byte) /\ devOut \in Seq(Byte) /\ Len(rx) \in Nat
  BY LenProperties DEF LinkInv, LinkTypes, LinesOK
<1>2. PICK h : h = SubSeq(rx, 1, 5)
  OBVIOUS
<1>3. PICK rest : rest = SubSeq(rx, 6, Len(rx))
  OBVIOUS
<1>4. /\ host = "wait" /\ hostOut = <<>> /\ Len(rx) >= 5 /\ Judge(h, rest)
      /\ UNCHANGED <<hostOut, size, left, type, devOut, plugged, manager, devBaud, slow, excuses>>
  <2>1. host = "wait" /\ hostOut = <<>> /\ Len(rx) >= 5
    BY DEF ReadHandshake, Waiting
  <2>2. Judge(h, rest)
    BY <1>2, <1>3, Zenon DEF ReadHandshake
  <2>3. UNCHANGED <<hostOut, size, left, type, devOut, plugged, manager, devBaud, slow, excuses>>
    BY DEF ReadHandshake, parserVars, constVars
  <2> QED BY <2>1, <2>2, <2>3
<1>5. /\ rest \in Seq(Byte) /\ CutBy(rx, rest, 5)
      /\ \A i \in 1 .. 5 : h[i] = rx[i] /\ rx[i] \in Byte
  <2>1. 5 \in Nat /\ 5 <= Len(rx) /\ 5 + 1 = 6
    BY <1>4
  <2>2. SubSeq(rx, 5 + 1, Len(rx)) \in Seq(Byte) /\ CutBy(rx, SubSeq(rx, 5 + 1, Len(rx)), 5)
    BY <1>1, <2>1, CutSub
  <2>3. \A i \in 1 .. 5 : rx[i] \in Byte
    BY <1>1, <1>4, ElementOfSeq
  <2>4. \A i \in 1 .. (5 - 1) + 1 : h[i] = rx[(1 + i) - 1]
    BY <1>2, <2>3, SubSeqProperties
  <2>5. \A i \in 1 .. 5 : h[i] = rx[i]
    BY <2>4
  <2> QED BY <1>3, <2>1, <2>2, <2>3, <2>5
<1>6. \/ /\ h[1] = 4 /\ h[2] = HANDSHAKE /\ host' = "up" /\ appType' = h[3] /\ uid' = h[4]
         /\ rx' = rest /\ baud' = baud /\ attempt' = attempt
      \/ /\ host' \in {"baud", "failed"} /\ baud' \in 1 .. 2 /\ attempt' \in 1 .. 2
         /\ host' = "baud" => baud' = 3 - baud
         /\ rx' = rest \/ rx' = <<>>
         /\ appType' = appType /\ uid' = uid
  BY <1>1, <1>4, JudgeIs
<1>7. AtDevicesSpeed' \/ host' # "up"
  <2>1. CASE h[1] = 4 /\ baud' = baud
    <3>1. rx[1] = 4
      BY <1>5, <2>1
    <3>2. AtDevicesSpeed
      BY <1>1, <1>4, <3>1, AnswersAtSpeed
    <3> QED BY <1>4, <2>1, <3>2 DEF AtDevicesSpeed
  <2> QED BY <1>6, <2>1
<1>8. HostOK'
  <2>1. appType' \in Byte /\ uid' \in Byte
    BY <1>1, <1>5, <1>6 DEF LinkTypes, HostOK
  <2>2. host' \in {"up", "baud", "failed"} /\ baud' \in 1 .. 2 /\ attempt' \in 1 .. 2
    BY <1>1, <1>6 DEF LinkTypes, HostOK
  <2> QED BY <1>7, <2>1, <2>2 DEF HostOK
<1>9. LinesOK'
  <2>1. rx' \in Seq(Byte)
    BY <1>5, <1>6, EmptySeq
  <2> QED BY <1>1, <1>4, <2>1 DEF LinkTypes, LinesOK
<1>10. ParserOK' /\ RestOK'
  <2>1. excuses' \subseteq {Late, Stray, Chatter}
    BY <1>1, <1>4 DEF LinkTypes, RestOK
  <2> QED BY <1>1, <1>4, <2>1, ParserKept, RestKept
<1>11. LinkTypes'
  BY <1>8, <1>9, <1>10 DEF LinkTypes
<1>12. JunkOnly'
  BY <1>6 DEF JunkOnly
<1>13. CASE host' # "up"
  <2>1. host' \in {"baud", "failed"} /\ (host' = "baud" => baud' = 3 - baud)
    BY <1>6, <1>13
  <2>2. rx # <<>> /\ excuses \subseteq excuses'
    BY <1>4, EmptySeq
  <2>3. LineInv'
    BY <1>4, <1>11, <2>1, <2>2, LookFails
  <2>4. KnownInv'
    BY <1>13 DEF KnownInv
  <2> QED BY <1>11, <1>12, <2>3, <2>4 DEF LinkInv
<1>14. CASE host' = "up"
  <2>1. /\ rx[1] = 4 /\ rx[2] = HANDSHAKE /\ appType' = rx[3] /\ uid' = rx[4]
        /\ rx' = rest /\ baud' = baud
    BY <1>5, <1>6, <1>14
  <2>2. AtDevicesSpeed
    BY <1>1, <1>4, <2>1, AnswersAtSpeed
  <2>3. Line = rx \o devOut /\ (Line)' = rest \o devOut
    BY <1>4, <1>14, <2>1, <2>2 DEF Line, AtDevicesSpeed
  <2>4. CASE plugged
    <3>1. PICK C : Fits(Line, C)
      BY <1>4, <2>4 DEF LinkInv, LineInv, Opened, Looking
    <3>2. PICK s : s = Line
      OBVIOUS
    <3>3. s \in Seq(Byte) /\ Stream(s, C)
      BY <1>1, <3>1, <3>2, LineTyped, Zenon DEF Fits
    <3>4. /\ Len(s) \in Nat /\ Len(s) >= 5
          /\ s[1] = rx[1] /\ s[2] = rx[2] /\ s[3] = rx[3] /\ s[4] = rx[4]
      <4>1. /\ Len(s) = Len(rx) + Len(devOut) /\ Len(devOut) \in Nat
            /\ \A i \in 1 .. Len(rx) + Len(devOut) :
                 s[i] = IF i <= Len(rx) THEN rx[i] ELSE devOut[i - Len(rx)]
        BY <1>1, <2>3, <3>2, ConcatProperties, LenProperties
      <4>2. \A i \in 1 .. 5 : s[i] = rx[i]
        BY <1>1, <1>4, <4>1
      <4> QED BY <1>1, <1>4, <4>1, <4>2
    <3>5. /\ 1 \in Answers(s, C) /\ (6 \in C \/ Len(s) = 5)
          /\ s[3] = AppType /\ s[4] = Uid
      BY <2>1, <3>3, <3>4, AnswerRead
    <3>6. KnownInv'
      BY <2>1, <3>4, <3>5 DEF KnownInv
    <3>7. CutBy(Line, (Line)', 5) /\ 5 \in Nat
      BY <1>1, <1>5, <2>3, CutFirst
    <3>8. (Line)' = <<>> \/ 1 + 5 \in C
      <4>1. CASE Len(s) = 5
        <5>1. Len(s) = 5 + Len((Line)')
          BY <3>2, <3>7 DEF CutBy
        <5>2. (Line)' \in Seq(Byte)
          BY <1>1, <1>5, <2>3, ConcatProperties
        <5>4. Len((Line)') \in Nat
          BY <5>2, LenProperties
        <5>3. Len((Line)') = 0
          BY <4>1, <5>1, <5>4, SMTT(30)
        <5> QED BY <5>2, <5>3, EmptySeq
      <4> QED BY <3>5, <4>1
    <3>9. ~Excused' => Moved(Answers(Line, C), 5) = {}
      <4> SUFFICES ASSUME ~Excused' PROVE Moved(Answers(Line, C), 5) = {}
        OBVIOUS
      <4>1. ~Excused
        BY <1>4 DEF Excused
      <4>2. \A c, d \in Answers(Line, C) : c = d
        BY <3>1, <4>1, Zenon DEF Fits
      <4>3. PICK A : A = Answers(Line, C)
        OBVIOUS
      <4>4. 1 \in A
        BY <3>2, <3>5, <4>3
      <4>5. \A c \in A : c = 1
        BY <4>2, <4>3, <4>4
      <4>6. Moved(A, 5) = {}
        BY <4>5 DEF Moved
      <4> QED BY <4>3, <4>6
    <3>10. Len(devOut') <= Len(devOut) /\ excuses \subseteq excuses'
      BY <1>1, <1>4, LenProperties
    <3>11. LineInv'
      BY <1>1, <1>11, <3>1, <3>7, <3>8, <3>9, <3>10, LineShrunk, Zenon
    <3> QED BY <1>11, <1>12, <3>6, <3>11 DEF LinkInv
  <2>5. CASE ~plugged
    <3>1. ~plugged'
      BY <1>4, <2>5
    <3>2. LineInv' /\ KnownInv'
      BY <3>1 DEF LineInv, KnownInv
    <3> QED BY <1>11, <1>12, <3>2 DEF LinkInv
  <2> QED BY <2>4, <2>5
<1> QED BY <1>13, <1>14

LEMMA ReadShortKeeps == LinkInv /\ ReadShort => LinkInv'
<1> SUFFICES ASSUME LinkInv, ReadShort PROVE LinkInv'
  OBVIOUS
<1>1. LinkTypes /\ rx \in Seq(Byte) /\ devOut \in Seq(Byte) /\ Len(rx) \in Nat
  BY LenProperties DEF LinkInv, LinkTypes, LinesOK
<1>2. PICK old \in Leftovers : Judge(rx \o SubSeq(old, Len(rx) + 1, 5), <<>>)
  BY DEF ReadShort
<1>3. PICK n : n = Len(rx)
  OBVIOUS
<1>4. PICK tail : tail = SubSeq(old, Len(rx) + 1, 5)
  OBVIOUS
<1>5. PICK h : h = rx \o tail
  OBVIOUS
<1>6. /\ host = "wait" /\ hostOut = <<>> /\ n \in 1 .. 4 /\ Judge(h, <<>>)
      /\ excuses' = IF devOut # <<>> THEN excuses \cup {Late} ELSE excuses
      /\ UNCHANGED <<hostOut, size, left, type, devOut, plugged, manager, devBaud, slow>>
  <2>1. host = "wait" /\ hostOut = <<>> /\ n \in 1 .. 4
    BY <1>3 DEF ReadShort, Waiting
  <2>2. Judge(h, <<>>)
    BY <1>2, <1>4, <1>5, Zenon
  <2>3. /\ excuses' = IF devOut # <<>> THEN excuses \cup {Late} ELSE excuses
        /\ UNCHANGED <<hostOut, size, left, type, devOut, plugged, manager, devBaud, slow>>
    BY DEF ReadShort, parserVars, constVars
  <2> QED BY <2>1, <2>2, <2>3
<1>7. old \in Seq(Byte) /\ Len(old) = 5
  BY LeftoverAssumption
<1>8. tail \in Seq(Byte) /\ Len(tail) = 5 - n
  <2>1. n \in Nat /\ n <= Len(old)
    BY <1>6, <1>7
  <2>2. SubSeq(old, n + 1, Len(old)) \in Seq(Byte) /\ CutBy(old, SubSeq(old, n + 1, Len(old)), n)
    BY <1>7, <2>1, CutSub
  <2>3. tail = SubSeq(old, n + 1, Len(old))
    BY <1>3, <1>4, <1>7
  <2>4. tail \in Seq(Byte) /\ Len(old) = n + Len(tail)
    BY <2>2, <2>3, Zenon DEF CutBy
  <2>5. Len(tail) \in Nat
    BY <2>4, LenProperties
  <2>6. 5 = n + Len(tail)
    BY <1>7, <2>4
  <2>7. Len(tail) = 5 - n
    BY <2>1, <2>5, <2>6
  <2> QED BY <2>4, <2>7
<1>9. /\ h \in Seq(Byte) /\ Len(h) = 5
      /\ \A i \in 1 .. n : h[i] = rx[i]
      /\ h[3] \in Byte /\ h[4] \in Byte
  <2>1. /\ h \in Seq(Byte) /\ Len(h) = Len(rx) + Len(tail)
        /\ \A i \in 1 .. Len(rx) + Len(tail) : h[i] = IF i <= Len(rx) THEN rx[i] ELSE tail[i - Len(rx)]
    BY <1>1, <1>5, <1>8, ConcatProperties
  <2>2. Len(h) = 5 /\ \A i \in 1 .. n : h[i] = rx[i]
    BY <1>3, <1>6, <1>8, <2>1
  <2>3. 3 \in 1 .. Len(h) /\ 4 \in 1 .. Len(h)
    BY <2>2
  <2>4. h[3] \in Byte /\ h[4] \in Byte
    BY <2>1, <2>3, ElementOfSeq
  <2> QED BY <2>1, <2>2, <2>4
<1>10. \/ /\ h[1] = 4 /\ h[2] = HANDSHAKE /\ host' = "up" /\ appType' = h[3] /\ uid' = h[4]
          /\ rx' = <<>> /\ baud' = baud /\ attempt' = attempt
       \/ /\ host' \in {"baud", "failed"} /\ baud' \in 1 .. 2 /\ attempt' \in 1 .. 2
          /\ host' = "baud" => baud' = 3 - baud
          /\ rx' = <<>>
          /\ appType' = appType /\ uid' = uid
  BY <1>1, <1>6, JudgeIs
<1>11. host' = "up" => h[1] = 4 /\ h[2] = HANDSHAKE /\ baud' = baud /\ AtDevicesSpeed
  <2>1. CASE h[1] = 4 /\ baud' = baud
    <3>1. rx[1] = 4 /\ Len(rx) >= 1
      BY <1>3, <1>6, <1>9, <2>1
    <3>2. AtDevicesSpeed
      BY <1>1, <1>6, <3>1, AnswersAtSpeed
    <3> QED BY <1>10, <2>1, <3>2
  <2> QED BY <1>10, <2>1
<1>12. HostOK'
  <2>1. appType' \in Byte /\ uid' \in Byte
    BY <1>1, <1>9, <1>10 DEF LinkTypes, HostOK
  <2>2. host' \in {"up", "baud", "failed"} /\ baud' \in 1 .. 2 /\ attempt' \in 1 .. 2
    BY <1>1, <1>10 DEF LinkTypes, HostOK
  <2>3. host' = "up" => AtDevicesSpeed'
    BY <1>6, <1>11 DEF AtDevicesSpeed
  <2> QED BY <2>1, <2>2, <2>3 DEF HostOK
<1>13. LinesOK'
  <2>1. rx' \in Seq(Byte)
    BY <1>10, EmptySeq
  <2> QED BY <1>1, <1>6, <2>1 DEF LinkTypes, LinesOK
<1>14. excuses \subseteq excuses' /\ excuses' \subseteq {Late, Stray, Chatter}
  BY <1>1, <1>6 DEF LinkTypes, RestOK
<1>15. LinkTypes'
  <2>1. ParserOK' /\ RestOK'
    BY <1>1, <1>6, <1>14, ParserKept, RestKept
  <2> QED BY <1>12, <1>13, <2>1 DEF LinkTypes
<1>16. JunkOnly'
  BY <1>10 DEF JunkOnly
<1>17. CASE host' # "up"
  <2>1. host' \in {"baud", "failed"} /\ (host' = "baud" => baud' = 3 - baud)
    BY <1>10, <1>17
  <2>2. rx # <<>>
    BY <1>3, <1>6, EmptySeq
  <2>3. LineInv'
    BY <1>6, <1>14, <1>15, <2>1, <2>2, LookFails
  <2>4. KnownInv'
    BY <1>17 DEF KnownInv
  <2> QED BY <1>15, <1>16, <2>3, <2>4 DEF LinkInv
<1>18. CASE host' = "up"
  <2>1. h[1] = 4 /\ h[2] = HANDSHAKE /\ baud' = baud /\ AtDevicesSpeed /\ rx' = <<>>
    BY <1>10, <1>11, <1>18
  <2>2. CASE plugged
    <3>1. PICK C : Fits(Line, C)
      BY <1>6, <2>2 DEF LinkInv, LineInv, Opened, Looking
    <3>2. Line = rx \o devOut
      BY <1>6, <2>1 DEF Line
    <3>3. Late \in excuses'
      <4> SUFFICES ASSUME devOut = <<>> PROVE FALSE
        BY <1>6
      <4>1. Line = rx
        BY <1>1, <3>2, ConcatEmptySeq
      <4>2. Stream(rx, C)
        BY <3>1, <4>1, Zenon DEF Fits
      <4>3. Len(rx) >= 1 /\ rx[1] = 4 /\ (Len(rx) >= 2 => rx[2] = HANDSHAKE)
        BY <1>1, <1>3, <1>6, <1>9, <2>1
      <4>4. Len(rx) >= 5
        BY <1>1, <4>2, <4>3, AnswerRead
      <4> QED BY <1>3, <1>6, <4>4
    <3>4. Excused'
      BY <3>3 DEF Excused
    <3>5. (Line)' = devOut
      <4>1. <<>> \o devOut = devOut
        BY <1>1, ConcatEmptySeq
      <4> QED BY <1>6, <1>18, <2>1, <4>1 DEF Line, AtDevicesSpeed
    <3>6. CutBy(Line, (Line)', Len(rx))
      BY <1>1, <3>2, <3>5, CutPrefix
    <3>7. Len(devOut') <= Len(devOut)
      BY <1>1, <1>6, LenProperties
    <3>8. LineInv'
      BY <1>1, <1>14, <1>15, <3>1, <3>3, <3>4, <3>6, <3>7, LineShrunk, Zenon
    <3>9. KnownInv'
      BY <3>3 DEF KnownInv
    <3> QED BY <1>15, <1>16, <3>8, <3>9 DEF LinkInv
  <2>3. CASE ~plugged
    <3>1. ~plugged'
      BY <1>6, <2>3
    <3>2. LineInv' /\ KnownInv'
      BY <3>1 DEF LineInv, KnownInv
    <3> QED BY <1>15, <1>16, <3>2 DEF LinkInv
  <2> QED BY <2>2, <2>3
<1> QED BY <1>17, <1>18

LEMMA KnownKept ==
  ASSUME LinkInv, host' = host, plugged' => plugged, excuses \subseteq excuses',
         appType' = appType, uid' = uid
  PROVE  KnownInv'
BY DEF LinkInv, KnownInv

LEMMA HostKept ==
  ASSUME LinkInv, host' = host, baud' = baud, attempt' = attempt, appType' = appType,
         uid' = uid, devBaud' = devBaud, host = "wait" => Len(hostOut') <= 3
  PROVE  HostOK'
BY DEF LinkInv, LinkTypes, HostOK, AtDevicesSpeed

LEMMA PollKeeps == LinkInv /\ Poll => LinkInv'
<1> SUFFICES ASSUME LinkInv, Poll PROVE LinkInv'
  OBVIOUS
<1>1. LinkTypes /\ rx \in Seq(Byte) /\ devOut \in Seq(Byte)
  BY DEF LinkInv, LinkTypes, LinesOK
<1>2. /\ host = "up" /\ hostOut' = PollDatagram
      /\ UNCHANGED <<host, baud, attempt, appType, uid, rx, size, left, type, devOut, plugged,
                     manager, devBaud, slow, excuses>>
  BY DEF Poll, PollDatagram, hostVars, parserVars, constVars
<1>3. HostOK'
  BY <1>2, HostKept
<1>4. LinesOK'
  BY <1>1, <1>2, QuestionTyped DEF LinesOK
<1>5. ParserOK' /\ RestOK'
  <2>1. excuses' \subseteq {Late, Stray, Chatter}
    BY <1>1, <1>2 DEF LinkTypes, RestOK
  <2> QED BY <1>1, <1>2, <2>1, ParserKept, RestKept
<1>6. LinkTypes'
  BY <1>3, <1>4, <1>5 DEF LinkTypes
<1>7. JunkOnly' /\ KnownInv'
  <2>1. KnownInv'
    BY <1>2, KnownKept
  <2> QED BY <1>2, <2>1 DEF JunkOnly
<1>8. LineInv'
  <2>1. (Line)' = Line
    BY <1>2 DEF Line, AtDevicesSpeed
  <2>2. Opened /\ ~MayAnswer
    BY <1>2 DEF Opened, MayAnswer
  <2>3. Len(devOut') <= Len(devOut)
    BY <1>1, <1>2, LenProperties
  <2> QED BY <1>2, <1>6, <2>1, <2>2, <2>3, LineUnmoved
<1> QED BY <1>6, <1>7, <1>8 DEF LinkInv

\* A connected server that took what stood in its buffer for no valid datagram, or lost
\* its port, is not connected any more.
LEMMA DroppedKeeps ==
  ASSUME LinkInv, host' = "dropped", rx' = <<>>,
         UNCHANGED <<baud, attempt, appType, uid, hostOut, size, left, type, devOut, plugged,
                     manager, devBaud, slow, excuses>>
  PROVE  LinkInv'
<1>1. LinkTypes
  BY DEF LinkInv
<1>2. HostOK' /\ LinesOK'
  BY <1>1, EmptySeq DEF LinkTypes, HostOK, LinesOK
<1>3. ParserOK' /\ RestOK'
  <2>1. excuses' \subseteq {Late, Stray, Chatter}
    BY <1>1 DEF LinkTypes, RestOK
  <2> QED BY <1>1, <2>1, ParserKept, RestKept
<1>4. JunkOnly' /\ KnownInv' /\ LineInv'
  BY DEF JunkOnly, KnownInv, LineInv, Opened, Looking
<1> QED BY <1>2, <1>3, <1>4 DEF LinkInv, LinkTypes

\* What stands at the beginning of the line of a connected server in step.
LEMMA NextDatagram ==
  ASSUME LinkInv, host = "up", plugged, Late \notin excuses, rx # <<>>,
         NEW C, Fits(Line, C)
  PROVE  /\ Line = rx \o devOut /\ Line \in Seq(Byte) /\ Line[1] = rx[1] /\ 1 \in C
         /\ DatagramAt(Line, 1) /\ EndOf(Line, 1) = 1 + rx[1]
         /\ EndOf(Line, 1) + 1 \in C \/ EndOf(Line, 1) = Len(Line)
<1>1. LinkTypes /\ rx \in Seq(Byte) /\ devOut \in Seq(Byte) /\ Len(rx) \in Nat /\ Len(rx) >= 1
  BY LenProperties, EmptySeq DEF LinkInv, LinkTypes, LinesOK
<1>2. Line = rx \o devOut /\ Line \in Seq(Byte)
  BY <1>1, LineTyped DEF Line, LinkTypes, HostOK
<1>3. /\ Len(Line) = Len(rx) + Len(devOut) /\ Len(devOut) \in Nat
      /\ \A i \in 1 .. Len(rx) + Len(devOut) :
           Line[i] = IF i <= Len(rx) THEN rx[i] ELSE devOut[i - Len(rx)]
  <2>1. PICK s : s = Line
    OBVIOUS
  <2>2. /\ Len(s) = Len(rx) + Len(devOut) /\ Len(devOut) \in Nat
        /\ \A i \in 1 .. Len(rx) + Len(devOut) :
             s[i] = IF i <= Len(rx) THEN rx[i] ELSE devOut[i - Len(rx)]
    BY <1>1, <1>2, <2>1, ConcatProperties, LenProperties
  <2> QED BY <2>1, <2>2
<1>4. Line[1] = rx[1]
  <2>1. 1 \in 1 .. Len(rx) + Len(devOut) /\ 1 <= Len(rx)
    BY <1>1, <1>3
  <2> QED BY <1>3, <2>1
<1>5. Line # <<>>
  <2>1. Len(Line) >= 1
    BY <1>1, <1>3
  <2> QED BY <2>1, EmptySeq
<1>6. 1 \in C /\ Stream(Line, C)
  BY <1>5, Zenon DEF Fits
<1>7. DatagramAt(Line, 1) /\ (EndOf(Line, 1) + 1 \in C \/ EndOf(Line, 1) = Len(Line))
  BY <1>6 DEF Stream
<1>8. EndOf(Line, 1) = 1 + rx[1]
  BY <1>4 DEF EndOf
<1> QED BY <1>2, <1>4, <1>6, <1>7, <1>8

LEMMA ReceiveKeeps == LinkInv /\ Receive => LinkInv'
<1> SUFFICES ASSUME LinkInv, Receive PROVE LinkInv'
  OBVIOUS
<1>1. /\ LinkTypes /\ rx \in Seq(Byte) /\ devOut \in Seq(Byte) /\ hostOut \in Seq(Byte)
      /\ Len(rx) \in Nat /\ Len(devOut) \in Nat
  BY LenProperties DEF LinkInv, LinkTypes, LinesOK
<1>2. /\ host = "up" /\ hostOut = <<>> /\ Complete
      /\ UNCHANGED <<baud, attempt, appType, uid, size, left, type, devOut, plugged, manager,
                     devBaud, slow, excuses>>
  BY DEF Receive, parserVars, constVars
<1>3. CASE ~(Valid /\ rx[2] \in 0 .. 2 /\ (rx[2] = 1 => plugged))
  <2>1. host' = "dropped" /\ rx' = <<>> /\ hostOut' = hostOut
    BY <1>3 DEF Receive
  <2> QED BY <1>2, <2>1, DroppedKeeps
<1>4. CASE Valid /\ rx[2] \in 0 .. 2 /\ (rx[2] = 1 => plugged)
  <2>1. /\ hostOut' = IF rx[2] = 1 THEN Datagram(1, SubSeq(rx, 3, rx[1]) \o Value) ELSE <<>>
        /\ rx' = SubSeq(rx, rx[1] + 2, Len(rx)) /\ host' = host
    BY <1>4 DEF Receive
  <2>2. rx # <<>> /\ Len(rx) >= 1 /\ rx[1] \in Byte /\ rx[1] \in Int
    <3>1. rx # <<>> /\ Len(rx) >= 1
      BY <1>1, <1>2, EmptySeq DEF Complete
    <3>2. rx[1] \in Byte
      BY <1>1, <3>1, ElementOfSeq
    <3> QED BY <3>1, <3>2, BytesAre
  <2>3. rx[1] >= 2 /\ Len(rx) > rx[1]
    <3>1. rx[1] >= 2
      BY <1>4 DEF Valid
    <3> QED BY <1>2, <2>2, <3>1 DEF Complete
  <2>4. PICK k \in Nat : k = rx[1] + 1
    BY <2>2, <2>3
  <2>5. rx' \in Seq(Byte) /\ CutBy(rx, rx', k)
    <3>1. k <= Len(rx) /\ k + 1 = rx[1] + 2
      BY <1>1, <2>2, <2>3, <2>4
    <3>2. SubSeq(rx, k + 1, Len(rx)) \in Seq(Byte) /\ CutBy(rx, SubSeq(rx, k + 1, Len(rx)), k)
      BY <1>1, <3>1, CutSub
    <3>3. rx' = SubSeq(rx, k + 1, Len(rx))
      BY <2>1, <3>1
    <3> QED BY <3>2, <3>3, Zenon
  <2>6. hostOut' \in Seq(Byte)
    <3>1. PICK m : m = SubSeq(rx, 3, rx[1])
      OBVIOUS
    <3>2. m \in Seq(Byte)
      <4>1. \A i \in 3 .. rx[1] : i \in 1 .. Len(rx)
        BY <1>1, <2>2, <2>3
      <4>2. \A i \in 3 .. rx[1] : rx[i] \in Byte
        BY <1>1, <4>1, ElementOfSeq
      <4> QED BY <2>2, <3>1, <4>2, SubSeqProperties
    <3>3. Value \in Seq(Byte)
      <4>1. Value \in Seq(Byte \ {HANDSHAKE})
        BY MessageAssumption
      <4> QED BY <4>1
    <3>4. PICK q : q = m \o Value
      OBVIOUS
    <3>5. q \in Seq(Byte) /\ 1 \in Byte
      BY <3>2, <3>3, <3>4, ConcatProperties, BytesAre
    <3>6. Formed(Datagram(1, q), 1, q)
      BY <3>5, DatagramIs
    <3>7. Datagram(1, q) \in Seq(Byte)
      BY <3>6 DEF Formed
    <3>8. hostOut' = IF rx[2] = 1 THEN Datagram(1, q) ELSE <<>>
      BY <2>1, <3>1, <3>4, Zenon
    <3> QED BY <3>7, <3>8, EmptySeq
  <2>7. HostOK'
    BY <1>2, <2>1, HostKept
  <2>8. LinesOK'
    BY <1>1, <1>2, <2>5, <2>6 DEF LinesOK
  <2>9. ParserOK' /\ RestOK'
    <3>1. excuses' \subseteq {Late, Stray, Chatter}
      BY <1>1, <1>2 DEF LinkTypes, RestOK
    <3> QED BY <1>1, <1>2, <3>1, ParserKept, RestKept
  <2>10. LinkTypes'
    BY <2>7, <2>8, <2>9 DEF LinkTypes
  <2>11. JunkOnly' /\ KnownInv'
    <3>1. KnownInv'
      BY <1>2, <2>1, KnownKept
    <3> QED BY <1>2, <2>1, <3>1 DEF JunkOnly
  <2>12. LineInv'
    <3> SUFFICES ASSUME plugged', Opened' PROVE LineInv'
      BY DEF LineInv
    <3>1. plugged /\ Opened
      BY <1>2 DEF Opened
    <3>2. PICK C : Fits(Line, C)
      BY <3>1 DEF LinkInv, LineInv
    <3>3. AtDevicesSpeed /\ AtDevicesSpeed'
      BY <1>1, <1>2, <2>10, <2>1 DEF LinkTypes, HostOK
    <3>4. Line = rx \o devOut /\ (Line)' = rx' \o devOut
      BY <1>2, <2>1, <3>3 DEF Line
    <3>5. CutBy(Line, (Line)', k)
      <4>1. PICK r : r = rx'
        OBVIOUS
      <4>2. CutBy(rx \o devOut, r \o devOut, k)
        BY <1>1, <2>5, <4>1, CutFirst
      <4> QED BY <3>4, <4>1, <4>2, Zenon
    <3>6. Late \notin excuses' => (Line)' = <<>> \/ 1 + k \in C
      <4> SUFFICES ASSUME Late \notin excuses PROVE (Line)' = <<>> \/ 1 + k \in C
        BY <1>2
      <4>1. /\ EndOf(Line, 1) = 1 + rx[1]
            /\ EndOf(Line, 1) + 1 \in C \/ EndOf(Line, 1) = Len(Line)
        BY <1>2, <2>2, <3>1, <3>2, NextDatagram
      <4>2. EndOf(Line, 1) + 1 = 1 + k /\ EndOf(Line, 1) = k
        BY <2>2, <2>4, <4>1
      <4>3. CASE EndOf(Line, 1) = Len(Line)
        <5>1. Len(Line) = k + Len((Line)')
          BY <3>5 DEF CutBy
        <5>2. (Line)' \in Seq(Byte)
          BY <1>1, <2>5, <3>4, ConcatProperties
        <5>3. Len((Line)') \in Nat
          BY <5>2, LenProperties
        <5>4. Len((Line)') = 0
          BY <2>4, <4>2, <4>3, <5>1, <5>3
        <5> QED BY <5>2, <5>4, EmptySeq
      <4> QED BY <4>1, <4>2, <4>3
    <3>7. ~Excused' => Answers(Line, C) = {}
      <4>1. ~Excused' => ~Excused
        BY <1>2 DEF Excused
      <4>2. ~MayAnswer
        BY <1>2 DEF MayAnswer
      <4> QED BY <3>2, <4>1, <4>2, Zenon DEF Fits
    <3>8. Len(devOut') <= Len(devOut) /\ excuses \subseteq excuses'
      BY <1>1, <1>2
    <3> QED BY <1>1, <2>4, <2>10, <3>2, <3>5, <3>6, <3>7, <3>8, LineShrunk, Zenon
  <2> QED BY <2>10, <2>11, <2>12 DEF LinkInv
<1> QED BY <1>3, <1>4

LEMMA ReceiveEndKeeps == LinkInv /\ ReceiveEnd => LinkInv'
<1> SUFFICES ASSUME LinkInv, ReceiveEnd PROVE LinkInv'
  OBVIOUS
<1>1. /\ host' = "dropped" /\ rx' = <<>>
      /\ UNCHANGED <<baud, attempt, appType, uid, hostOut, size, left, type, devOut, plugged,
                     manager, devBaud, slow, excuses>>
  BY DEF ReceiveEnd, parserVars, constVars
<1> QED BY <1>1, DroppedKeeps

\* A byte leaves the server's queue.
LEMMA ByteTaken ==
  ASSUME LinkInv, hostOut # <<>>, hostOut' = Tail(hostOut)
  PROVE  /\ hostOut' \in Seq(Byte) /\ Len(hostOut) \in Nat /\ Len(hostOut') = Len(hostOut) - 1
         /\ (left = 0 => left' = 0 \/ (left' = size' /\ left' >= 2)) => (Spent => Spent')
<1>1. hostOut \in Seq(Byte)
  BY DEF LinkInv, LinkTypes, LinesOK
<1>2. hostOut' \in Seq(Byte) /\ Len(hostOut) \in Nat /\ Len(hostOut') = Len(hostOut) - 1
  BY <1>1, CutTail, LenProperties
<1>3. Len(hostOut) = 1 => hostOut' = <<>>
  <2>1. Len(hostOut) = 1 => Len(hostOut') = 0
    BY <1>2
  <2> QED BY <1>2, <2>1, EmptySeq
<1>4. Len(hostOut) = 2 => Len(hostOut') = 1
  BY <1>2
<1>5. ASSUME left = 0 => left' = 0 \/ (left' = size' /\ left' >= 2), Spent PROVE Spent'
  BY <1>3, <1>4, <1>5, Zenon DEF Spent
<1> QED BY <1>2, <1>5

LEMMA DeviceMissesKeeps == LinkInv /\ DeviceMisses => LinkInv'
<1> SUFFICES ASSUME LinkInv, DeviceMisses PROVE LinkInv'
  OBVIOUS
<1>1. LinkTypes /\ rx \in Seq(Byte) /\ devOut \in Seq(Byte)
  BY DEF LinkInv, LinkTypes, LinesOK
<1>2. /\ Opened /\ hostOut # <<>> /\ hostOut' = Tail(hostOut)
      /\ UNCHANGED <<host, baud, attempt, appType, uid, rx, size, left, type, devOut, plugged,
                     manager, devBaud, slow, excuses>>
  BY DEF DeviceMisses, hostVars, parserVars, constVars
<1>3. /\ hostOut' \in Seq(Byte) /\ Len(hostOut) \in Nat /\ Len(hostOut') = Len(hostOut) - 1
      /\ Spent => Spent'
  BY <1>2, ByteTaken
<1>4. HostOK'
  <2>1. host = "wait" => Len(hostOut') <= 3
    BY <1>1, <1>3 DEF LinkTypes, HostOK
  <2> QED BY <1>2, <2>1, HostKept
<1>5. LinesOK'
  BY <1>1, <1>2, <1>3 DEF LinesOK
<1>6. ParserOK' /\ RestOK'
  <2>1. excuses' \subseteq {Late, Stray, Chatter}
    BY <1>1, <1>2 DEF LinkTypes, RestOK
  <2> QED BY <1>1, <1>2, <2>1, ParserKept, RestKept
<1>7. LinkTypes'
  BY <1>4, <1>5, <1>6 DEF LinkTypes
<1>8. JunkOnly' /\ KnownInv'
  <2>1. KnownInv'
    BY <1>2, KnownKept
  <2>2. JunkOnly'
    BY <1>2 DEF LinkInv, JunkOnly, AtDevicesSpeed
  <2> QED BY <2>1, <2>2
<1>9. LineInv'
  <2>1. (Line)' = Line
    BY <1>2 DEF Line, AtDevicesSpeed
  <2>2. MayAnswer => MayAnswer'
    BY <1>2, <1>3, Zenon DEF MayAnswer, AtDevicesSpeed
  <2>3. Len(devOut') <= Len(devOut)
    BY <1>1, <1>2, LenProperties
  <2> QED BY <1>2, <1>7, <2>1, <2>2, <2>3, LineUnmoved
<1> QED BY <1>7, <1>8, <1>9 DEF LinkInv

\* What the device begins to write comes behind what is on the line.
LEMMA LineAppended ==
  ASSUME rx \in Seq(Byte), LinesOK', devOut = <<>>,
         UNCHANGED <<host, baud, rx, devBaud>>
  PROVE  (Line)' = Line \o devOut'
<1>1. PICK d : d = devOut'
  OBVIOUS
<1>2. d \in Seq(Byte)
  BY <1>1 DEF LinesOK
<1>3. rx \o <<>> = rx /\ <<>> \o d = d
  BY <1>2, ConcatEmptySeq
<1>4. AtDevicesSpeed' <=> AtDevicesSpeed
  BY DEF AtDevicesSpeed
<1>5. CASE AtDevicesSpeed /\ host \in {"flush", "wait", "up"}
  <2>1. Line = rx /\ (Line)' = rx \o d
    BY <1>1, <1>3, <1>4, <1>5 DEF Line
  <2> QED BY <1>1, <2>1
<1>6. CASE ~(AtDevicesSpeed /\ host \in {"flush", "wait", "up"})
  <2>1. Line = <<>> /\ (Line)' = d
    BY <1>1, <1>4, <1>6 DEF Line
  <2> QED BY <1>1, <1>3, <2>1
<1> QED BY <1>5, <1>6

LEMMA DeviceReceivesKeeps == LinkInv /\ DeviceReceives => LinkInv'
<1> SUFFICES ASSUME LinkInv, DeviceReceives PROVE LinkInv'
  OBVIOUS
<1>1. LinkTypes /\ rx \in Seq(Byte) /\ devOut \in Seq(Byte)
  BY DEF LinkInv, LinkTypes, LinesOK
<1>2. /\ Opened /\ devOut = <<>> /\ hostOut # <<>> /\ hostOut' = Tail(hostOut)
      /\ UNCHANGED <<host, baud, attempt, appType, uid, rx, plugged, manager, devBaud, slow>>
      /\ ParserOK' /\ excuses \subseteq excuses' /\ excuses' \subseteq {Late, Stray, Chatter}
      /\ AtDevicesSpeed /\ left = 0 => left' = 0 \/ (left' = size' /\ left' >= 2)
      /\ devOut' = devOut \/ Answering({}) \/ Answering({1})
  BY <1>1, DeviceReceivesIs
<1>3. /\ hostOut' \in Seq(Byte) /\ Len(hostOut) \in Nat /\ Len(hostOut') = Len(hostOut) - 1
      /\ AtDevicesSpeed => (Spent => Spent')
  BY <1>2, ByteTaken
<1>4. HostOK'
  <2>1. host = "wait" => Len(hostOut') <= 3
    BY <1>1, <1>3 DEF LinkTypes, HostOK
  <2> QED BY <1>2, <2>1, HostKept
<1>5. LinesOK'
  <2>1. devOut' \in Seq(Byte)
    BY <1>1, <1>2, Zenon DEF Answering, Sent
  <2> QED BY <1>1, <1>2, <1>3, <2>1 DEF LinesOK
<1>6. LinkTypes'
  <2>1. RestOK'
    BY <1>1, <1>2, RestKept
  <2> QED BY <1>2, <1>4, <1>5, <2>1 DEF LinkTypes
<1>7. JunkOnly' /\ KnownInv'
  <2>1. KnownInv'
    BY <1>2, KnownKept
  <2>2. JunkOnly'
    BY <1>2 DEF LinkInv, JunkOnly, AtDevicesSpeed
  <2> QED BY <2>1, <2>2
<1>8. MayAnswer => MayAnswer'
  BY <1>2, <1>3, Zenon DEF MayAnswer, AtDevicesSpeed
<1>9. LineInv'
  <2>1. CASE devOut' = devOut
    <3>1. (Line)' = Line
      BY <1>2, <2>1 DEF Line, AtDevicesSpeed
    <3>2. Len(devOut') <= Len(devOut)
      BY <1>1, <2>1, LenProperties
    <3>3. (Opened' => Opened) /\ (host' = "up" => host = "up")
      BY <1>2
    <3> QED BY <1>2, <1>6, <1>8, <3>1, <3>2, <3>3, LineUnmoved
  <2>2. ASSUME NEW A, Answering(A) PROVE LineInv'
    <3> SUFFICES ASSUME plugged' PROVE LineInv'
      BY DEF LineInv
    <3>1. PICK C : Fits(Line, C)
      BY <1>2 DEF LinkInv, LineInv
    <3>2. /\ Sent(devOut', A) /\ left = 1 /\ left < size /\ left' = 0
          /\ A = {} \/ (A = {1} /\ ((host = "wait" /\ AtDevicesSpeed) \/ Stray \in excuses'))
      BY <2>2, Zenon DEF Answering
    <3>3. Line \in Seq(Byte)
      BY <1>1, LineTyped
    <3>4. (Line)' = Line \o devOut'
      BY <1>1, <1>2, <1>5, LineAppended
    <3>5. ASSUME ~Excused', A = {1} PROVE ~MayAnswer /\ MayAnswer'
      <4>1. host = "wait" /\ AtDevicesSpeed
        BY <3>2, <3>5 DEF Excused
      <4>2. left # 0 /\ left # size
        <5>1. size \in Int
          BY <1>1, BytesAre DEF LinkTypes, ParserOK
        <5> QED BY <3>2, <5>1
      <4>3. ~Spent
        <5>1. Spent => Len(hostOut) = 1 /\ left = size
          BY <1>2, <4>2, Zenon DEF Spent
        <5> QED BY <4>2, <5>1
      <4>4. Spent'
        <5>1. Len(hostOut) <= 3
          BY <1>1, <4>1 DEF LinkTypes, HostOK
        <5>2. Len(hostOut') = 0 \/ Len(hostOut') = 1 \/ Len(hostOut') = 2
          <6>1. Len(hostOut') \in Nat
            BY <1>3, LenProperties
          <6> QED BY <1>3, <5>1, <6>1
        <5>3. Len(hostOut') = 0 => hostOut' = <<>>
          BY <1>3, EmptySeq
        <5> QED BY <3>2, <5>2, <5>3, Zenon DEF Spent
      <4>5. ~MayAnswer
        BY <4>1, <4>3 DEF MayAnswer
      <4>6. MayAnswer'
        BY <1>2, <4>1, <4>4 DEF MayAnswer, AtDevicesSpeed
      <4> QED BY <4>5, <4>6
    <3>6. PICK s : s = Line
      OBVIOUS
    <3>7. PICK d : d = devOut'
      OBVIOUS
    <3>8. PICK u : u = s \o d
      OBVIOUS
    <3>9. Fits(s, C) /\ s \in Seq(Byte) /\ Sent(d, A) /\ u = (Line)'
      BY <3>1, <3>2, <3>3, <3>4, <3>6, <3>7, <3>8, Zenon
    <3>10. \/ A = {} /\ (~Excused' => (MayAnswer => MayAnswer'))
           \/ A = {1} /\ (~Excused' => ~MayAnswer /\ MayAnswer')
      BY <1>8, <3>2, <3>5, Zenon
    <3>11. \E E : (Fits(s \o d, E))'
      BY <1>2, <3>7, <3>9, <3>10, LineGrows
    <3>12. PICK E : (Fits(s \o d, E))'
      BY <3>11
    <3>13. (Fits(u, E))'
      BY <3>8, <3>12, Zenon
    <3> QED BY <3>9, <3>13, FitsSuffices
  <2> QED BY <1>2, <2>1, <2>2
<1> QED BY <1>6, <1>7, <1>9 DEF LinkInv

\* The tail of a message stays one, whether its first byte is read, garbled or lost.
LEMMA DeviceSendsKeeps == LinkInv /\ DeviceSends => LinkInv'
<1> SUFFICES ASSUME LinkInv, DeviceSends PROVE LinkInv'
  OBVIOUS
<1>1. LinkTypes /\ rx \in Seq(Byte) /\ hostOut \in Seq(Byte) /\ devOut \in Seq(Byte)
  BY DEF LinkInv, LinkTypes, LinesOK
<1>2. /\ Opened /\ devOut # <<>> /\ devOut' = Tail(devOut)
      /\ UNCHANGED <<host, baud, attempt, appType, uid, hostOut, size, left, type, plugged,
                     manager, devBaud, slow, excuses>>
  BY DEF DeviceSends, hostVars, parserVars, constVars
<1>3. \/ AtDevicesSpeed /\ rx' = Append(rx, Head(devOut))
      \/ ~AtDevicesSpeed /\ \E b \in Junk : rx' \in {rx, Append(rx, b)}
  BY DEF DeviceSends
<1>4. /\ devOut' \in Seq(Byte) /\ Len(devOut') = Len(devOut) - 1
      /\ CutBy(devOut, devOut', 1) /\ Len(devOut) \in Nat
  <2>1. PICK d : d = devOut
    OBVIOUS
  <2>2. CutBy(d, Tail(d), 1) /\ Tail(d) \in Seq(Byte) /\ Len(Tail(d)) = Len(d) - 1
    BY <1>1, <1>2, <2>1, CutTail
  <2> QED BY <1>1, <1>2, <2>1, <2>2, LenProperties
<1>5. \E b \in Byte : rx' \in {rx, Append(rx, b)} /\ (~AtDevicesSpeed => b # 4)
  <2>1. Head(devOut) \in Byte
    BY <1>1, <1>2, HeadTailProperties
  <2>2. \A b \in Junk : b \in Byte /\ b # 4
    BY ByteAssumption
  <2> QED BY <1>3, <2>1, <2>2
<1>6. PICK b \in Byte : rx' \in {rx, Append(rx, b)} /\ (~AtDevicesSpeed => b # 4)
  BY <1>5
<1>7. /\ Append(rx, b) \in Seq(Byte) /\ Len(Append(rx, b)) = Len(rx) + 1 /\ Len(rx) \in Nat
      /\ \A i \in 1 .. Len(rx) + 1 : Append(rx, b)[i] = IF i <= Len(rx) THEN rx[i] ELSE b
  BY <1>1, AppendProperties, LenProperties
<1>8. HostOK'
  <2>1. host = "wait" => Len(hostOut') <= 3
    BY <1>1, <1>2 DEF LinkTypes, HostOK
  <2> QED BY <1>2, <2>1, HostKept
<1>9. LinesOK'
  BY <1>1, <1>2, <1>4, <1>6, <1>7 DEF LinesOK
<1>10. ParserOK' /\ RestOK'
  <2>1. excuses' \subseteq {Late, Stray, Chatter}
    BY <1>1, <1>2 DEF LinkTypes, RestOK
  <2> QED BY <1>1, <1>2, <2>1, ParserKept, RestKept
<1>11. LinkTypes'
  BY <1>8, <1>9, <1>10 DEF LinkTypes
<1>12. KnownInv'
  BY <1>2, KnownKept
<1>13. JunkOnly'
  <2> SUFFICES ASSUME host \in {"flush", "wait"}, ~AtDevicesSpeed, NEW i \in 1 .. Len(rx')
               PROVE  rx'[i] # 4
    BY <1>2 DEF JunkOnly, AtDevicesSpeed
  <2>1. \A j \in 1 .. Len(rx) : rx[j] # 4
    BY DEF LinkInv, JunkOnly
  <2>2. CASE rx' = rx
    BY <2>1, <2>2
  <2>3. CASE rx' = Append(rx, b)
    <3>1. i \in 1 .. Len(rx) + 1
      BY <1>7, <2>3
    <3>2. CASE i <= Len(rx)
      <4>1. i \in 1 .. Len(rx) /\ rx'[i] = rx[i]
        BY <1>7, <2>3, <3>1, <3>2
      <4> QED BY <2>1, <4>1
    <3>3. CASE ~(i <= Len(rx))
      BY <1>6, <1>7, <2>3, <3>1, <3>3
    <3> QED BY <3>2, <3>3
  <2> QED BY <1>6, <2>2, <2>3
<1>14. LineInv'
  <2> SUFFICES ASSUME plugged' PROVE LineInv'
    BY DEF LineInv
  <2>1. Len(devOut') <= Len(devOut) /\ (host' = "up" => host = "up") /\ (Opened' => Opened)
    BY <1>2, <1>4
  <2>2. CASE AtDevicesSpeed /\ host \in {"flush", "wait", "up"}
    <3>1. (Line)' = Line
      <4>1. rx' = Append(rx, Head(devOut)) /\ AtDevicesSpeed'
        BY <1>2, <1>3, <2>2 DEF AtDevicesSpeed
      <4>2. PICK d : d = devOut
        OBVIOUS
      <4>3. PICK r : r = rx
        OBVIOUS
      <4>4. Append(r, Head(d)) \o Tail(d) = r \o d
        BY <1>1, <1>2, <4>2, <4>3, ByteArrives
      <4>5. (Line)' = rx' \o devOut' /\ Line = rx \o devOut
        BY <1>2, <2>2, <4>1 DEF Line
      <4> QED BY <1>2, <4>1, <4>2, <4>3, <4>4, <4>5, Zenon
    <3>2. MayAnswer => MayAnswer'
      BY <1>2, <2>2, Zenon DEF MayAnswer, AtDevicesSpeed, Spent
    <3> QED BY <1>2, <1>11, <2>1, <3>1, <3>2, LineUnmoved
  <2>3. CASE ~(AtDevicesSpeed /\ host \in {"flush", "wait", "up"})
    <3>1. Line = devOut /\ (Line)' = devOut'
      BY <1>2, <2>3 DEF Line, AtDevicesSpeed
    <3>2. PICK C : Fits(Line, C)
      BY <1>2 DEF LinkInv, LineInv
    <3>3. host' # "up"
      BY <1>1, <1>2, <2>3 DEF LinkTypes, HostOK
    <3>4. Moved(Answers(Line, C), 1) = {}
      <4>1. \A c \in Answers(Line, C) : c <= (Len(devOut) - Len(devOut)) + 1
        BY <3>1, <3>2, Zenon DEF Fits
      <4>2. \A c \in Int : c >= 1 /\ c + 1 \in Answers(Line, C) => FALSE
        BY <1>4, <4>1
      <4> QED BY <4>2 DEF Moved
    <3>5. CutBy(Line, (Line)', 1)
      BY <1>4, <3>1, Zenon
    <3> QED BY <1>1, <1>2, <1>11, <2>1, <3>2, <3>3, <3>4, <3>5, LineShrunk
  <2> QED BY <2>2, <2>3
<1> QED BY <1>11, <1>12, <1>13, <1>14 DEF LinkInv

LEMMA DeviceSpeaksKeeps == LinkInv /\ DeviceSpeaks => LinkInv'
<1> SUFFICES ASSUME LinkInv, DeviceSpeaks PROVE LinkInv'
  OBVIOUS
<1>1. LinkTypes /\ rx \in Seq(Byte) /\ hostOut \in Seq(Byte)
  BY DEF LinkInv, LinkTypes, LinesOK
<1>2. /\ Opened /\ devOut = <<>>
      /\ UNCHANGED <<host, baud, attempt, appType, uid, rx, hostOut, size, left, type, plugged,
                     manager, devBaud, slow>>
      /\ excuses' \in {excuses, excuses \cup {Chatter}}
  BY DEF DeviceSpeaks, hostVars, parserVars, constVars
<1>3. Sent(devOut', {})
  <2>1. PICK m \in Messages, t \in {0, 1} : devOut' = Datagram(t, m)
    BY DEF DeviceSpeaks
  <2>2. t \in 0 .. 2
    OBVIOUS
  <2>3. Sent(Datagram(t, m), {})
    BY <2>2, SubstateSent
  <2> QED BY <2>1, <2>3, Zenon
<1>4. excuses \subseteq excuses' /\ excuses' \subseteq {Late, Stray, Chatter}
  BY <1>1, <1>2 DEF LinkTypes, RestOK
<1>5. HostOK'
  <2>1. host = "wait" => Len(hostOut') <= 3
    BY <1>1, <1>2 DEF LinkTypes, HostOK
  <2> QED BY <1>2, <2>1, HostKept
<1>6. LinesOK'
  <2>1. devOut' \in Seq(Byte)
    BY <1>3, Zenon DEF Sent
  <2> QED BY <1>1, <1>2, <2>1 DEF LinesOK
<1>7. LinkTypes'
  <2>1. ParserOK' /\ RestOK'
    BY <1>1, <1>2, <1>4, ParserKept, RestKept
  <2> QED BY <1>5, <1>6, <2>1 DEF LinkTypes
<1>8. JunkOnly' /\ KnownInv'
  <2>1. KnownInv'
    BY <1>2, <1>4, KnownKept
  <2>2. JunkOnly'
    BY <1>2 DEF LinkInv, JunkOnly, AtDevicesSpeed
  <2> QED BY <2>1, <2>2
<1>9. LineInv'
  <2> SUFFICES ASSUME plugged' PROVE LineInv'
    BY DEF LineInv
  <2>1. PICK C : Fits(Line, C)
    BY <1>2 DEF LinkInv, LineInv
  <2>2. Line \in Seq(Byte)
    BY <1>1, LineTyped
  <2>3. PICK s : s = Line
    OBVIOUS
  <2>4. PICK d : d = devOut'
    OBVIOUS
  <2>5. PICK u : u = s \o d
    OBVIOUS
  <2>6. u = (Line)'
    <3>1. (Line)' = Line \o devOut'
      BY <1>1, <1>2, <1>6, LineAppended
    <3> QED BY <2>3, <2>4, <2>5, <3>1, Zenon
  <2>7. PICK A : A = {}
    OBVIOUS
  <2>8. Fits(s, C) /\ s \in Seq(Byte) /\ Sent(d, A)
    BY <1>3, <2>1, <2>2, <2>3, <2>4, <2>7, Zenon
  <2>9. MayAnswer => MayAnswer'
    BY <1>2, Zenon DEF MayAnswer, AtDevicesSpeed, Spent
  <2>10. \E E : (Fits(s \o d, E))'
    BY <1>2, <1>4, <2>4, <2>7, <2>8, <2>9, LineGrows
  <2>11. PICK E : (Fits(s \o d, E))'
    BY <2>10
  <2>12. (Fits(u, E))'
    BY <2>5, <2>11, Zenon
  <2> QED BY <2>6, <2>12, FitsSuffices
<1> QED BY <1>7, <1>8, <1>9 DEF LinkInv

LEMMA UnplugKeeps == LinkInv /\ Unplug => LinkInv'
<1> SUFFICES ASSUME LinkInv, Unplug PROVE LinkInv'
  OBVIOUS
<1>1. LinkTypes
  BY DEF LinkInv
<1>2. /\ plugged' = FALSE /\ hostOut' = <<>> /\ devOut' = <<>>
      /\ UNCHANGED <<host, baud, attempt, appType, uid, rx, size, left, type, manager, devBaud,
                     slow, excuses>>
  BY DEF Unplug, hostVars, parserVars, constVars
<1>3. HostOK'
  <2>1. Len(hostOut') <= 3
    BY <1>2, EmptySeq
  <2> QED BY <1>2, <2>1, HostKept
<1>4. LinesOK'
  BY <1>1, <1>2, EmptySeq DEF LinkTypes, LinesOK
<1>5. ParserOK' /\ RestOK'
  <2>1. excuses' \subseteq {Late, Stray, Chatter}
    BY <1>1, <1>2 DEF LinkTypes, RestOK
  <2> QED BY <1>1, <1>2, <2>1, ParserKept, RestKept
<1>6. JunkOnly' /\ KnownInv' /\ LineInv'
  BY <1>2 DEF LinkInv, JunkOnly, KnownInv, LineInv, AtDevicesSpeed
<1> QED BY <1>3, <1>4, <1>5, <1>6 DEF LinkInv, LinkTypes

LEMMA StutterKeeps == LinkInv /\ UNCHANGED vars => LinkInv'
<1> SUFFICES ASSUME LinkInv, UNCHANGED vars PROVE LinkInv'
  OBVIOUS
<1>1. UNCHANGED <<host, baud, attempt, appType, uid, rx, hostOut, size, left, type, devOut, plugged,
                  manager, devBaud, slow, excuses>>
  BY DEF vars, hostVars, parserVars, constVars
<1>2. LinkTypes' /\ JunkOnly' /\ KnownInv'
  BY <1>1 DEF LinkInv, LinkTypes, HostOK, ParserOK, LinesOK, RestOK, JunkOnly, KnownInv,
              AtDevicesSpeed
<1>3. LineInv'
  <2>1. (Line)' = Line /\ (MayAnswer => MayAnswer') /\ (Opened' => Opened)
    BY <1>1 DEF Line, MayAnswer, Spent, AtDevicesSpeed, Opened, Looking
  <2>2. Len(devOut') <= Len(devOut)
    BY <1>1, LenProperties DEF LinkInv, LinkTypes, LinesOK
  <2> QED BY <1>1, <1>2, <2>1, <2>2, LineUnmoved
<1> QED BY <1>2, <1>3 DEF LinkInv

LEMMA NextKeeps == LinkInv /\ [Next]_vars => LinkInv'
<1> SUFFICES ASSUME LinkInv, [Next]_vars PROVE LinkInv'
  OBVIOUS
<1>1. CASE Look
  BY <1>1, SendFlushKeeps, AskKeeps, PollTimeoutKeeps, ReadHandshakeKeeps, ReadShortKeeps DEF Look
<1>2. CASE Serve
  BY <1>2, PollKeeps, ReceiveKeeps, ReceiveEndKeeps DEF Serve
<1>3. CASE Device
  BY <1>3, DeviceReceivesKeeps, DeviceMissesKeeps, DeviceSendsKeeps DEF Device
<1>4. CASE DeviceSpeaks \/ Unplug
  BY <1>4, DeviceSpeaksKeeps, UnplugKeeps
<1>5. CASE UNCHANGED vars
  BY <1>5, StutterKeeps
<1> QED BY <1>1, <1>2, <1>3, <1>4, <1>5 DEF Next

(***************************************************************************)
(* What is under way to the server is a stream of datagrams, with at most  *)
(* one answer to a handshake in it as long as none was late or stray: the  *)
(* invariant behind the two theorems that follow (ArdPort.cpp:37-68,       *)
(* 74-90; datagram.c:13-58; statedevice_direct.c:48-70).                   *)
(***************************************************************************)
THEOREM LinkInvariantHolds == Spec => []LinkInv
<1>1. Init => LinkInv
  BY InitInv
<1>2. LinkInv /\ [Next]_vars => LinkInv'
  BY NextKeeps
<1> QED BY <1>1, <1>2, PTL DEF Spec

LEMMA TypesSuffice == LinkTypes => TypeOK
<1> SUFFICES ASSUME LinkTypes PROVE TypeOK
  OBVIOUS
<1>1. /\ host \in {"baud", "flush", "wait", "up", "dropped", "failed"}
      /\ baud \in DOMAIN Bauds /\ devBaud \in DOMAIN Bauds
      /\ attempt \in 1 .. 2
  BY BaudsAre DEF LinkTypes, HostOK, RestOK
<1>2. {appType, uid, size, left, type} \subseteq Byte /\ left <= size
  BY DEF LinkTypes, HostOK, ParserOK
<1>3. {rx, hostOut, devOut} \subseteq Seq(Byte)
  BY DEF LinkTypes, LinesOK
<1>4. excuses \subseteq {Late, Stray, Chatter}
  BY DEF LinkTypes, RestOK
<1> QED BY <1>1, <1>2, <1>3, <1>4, Zenon DEF TypeOK

\* A stream that begins with a datagram is a sequence of whole ones.
LEMMA StreamFramed ==
  ASSUME NEW s \in Seq(Byte), NEW C, Stream(s, C), s = <<>> \/ 1 \in C
  PROVE  Framed(s)
<1>1. /\ C \subseteq 1 .. Len(s)
      /\ \A c \in C : DatagramAt(s, c) /\ (EndOf(s, c) + 1 \in C \/ EndOf(s, c) = Len(s))
  BY DEF Stream
<1>2. C \in SUBSET Whole(s)
  <2> SUFFICES ASSUME NEW c \in C PROVE c \in Whole(s)
    OBVIOUS
  <2>1. DatagramAt(s, c) /\ c \in 1 .. Len(s)
    BY <1>1
  <2> QED BY <2>1, Zenon DEF Whole, DatagramAt
<1>3. \A c \in C : EndOf(s, c) + 1 \in C \cup {Len(s) + 1}
  BY <1>1
<1> QED BY <1>2, <1>3 DEF Framed

LEMMA InvariantInStep == LinkInv => InStep
<1> SUFFICES ASSUME LinkInv PROVE InStep
  OBVIOUS
<1>1. TypeOK
  BY TypesSuffice DEF LinkInv
<1>2. ASSUME host = "up", plugged, Late \notin excuses
      PROVE  appType = AppType /\ uid = Uid /\ Framed(rx \o devOut)
  <2>1. appType = AppType /\ uid = Uid
    BY <1>2 DEF LinkInv, KnownInv
  <2>2. PICK C : Fits(Line, C)
    BY <1>2 DEF LinkInv, LineInv, Opened
  <2>3. PICK s : s = Line
    OBVIOUS
  <2>4. s = rx \o devOut
    BY <1>2, <2>3 DEF Line, LinkInv, LinkTypes, HostOK
  <2>5. s \in Seq(Byte)
    BY <2>3, LineTyped DEF LinkInv
  <2>6. Stream(s, C) /\ (s = <<>> \/ 1 \in C)
    BY <1>2, <2>2, <2>3, Zenon DEF Fits
  <2>7. Framed(s)
    BY <2>5, <2>6, StreamFramed
  <2> QED BY <2>1, <2>4, <2>7, Zenon
<1> QED BY <1>1, <1>2, Zenon DEF InStep

(***************************************************************************)
(* Whatever the device was in the middle of when the port was opened, a    *)
(* server that has accepted a handshake in time has the device's type and  *)
(* UID, and reads a sequence of whole datagrams (ArdPort.cpp:37-68,        *)
(* 74-90).                                                                 *)
(***************************************************************************)
THEOREM LinkInStep == Spec => []InStep
<1>1. LinkInv => InStep
  BY InvariantInStep
<1> QED BY <1>1, LinkInvariantHolds, PTL

LEMMA StepStaysUp ==
  LinkInv /\ [Next]_vars =>
    (host = "up" /\ host' = "dropped" => ~plugged \/ excuses \cap {Late, Stray} # {})
<1> SUFFICES ASSUME LinkInv, [Next]_vars, host = "up", host' = "dropped", plugged, ~Excused
             PROVE  FALSE
  BY DEF Excused
<1>0. LinkTypes /\ rx \in Seq(Byte) /\ devOut \in Seq(Byte)
  BY DEF LinkInv, LinkTypes, LinesOK
<1>1. ~Look /\ ~Poll /\ ~ReceiveEnd
  <2>1. ~Look
    BY DEF Look, SendFlush, Ask, PollTimeout, ReadHandshake, ReadShort, Waiting
  <2> QED BY <2>1 DEF Poll, ReceiveEnd, hostVars
<1>2. ~Device /\ ~DeviceSpeaks /\ ~Unplug
  BY DEF Device, DeviceReceives, DeviceMisses, DeviceSends, DeviceSpeaks, Unplug, hostVars
<1>3. ~UNCHANGED vars
  BY DEF vars, hostVars
<1>4. Receive
  BY <1>1, <1>2, <1>3, Zenon DEF Next, Serve
<1>5. ~(Valid /\ rx[2] \in 0 .. 2 /\ (rx[2] = 1 => plugged))
  BY <1>4 DEF Receive
<1>6. Complete /\ rx # <<>>
  BY <1>4 DEF Receive, Complete
<1>7. PICK C : Fits(Line, C)
  BY DEF LinkInv, LineInv, Opened
<1>8. PICK s : s = Line
  OBVIOUS
<1>9. Late \notin excuses
  BY DEF Excused
<1>10. /\ s = rx \o devOut /\ s \in Seq(Byte) /\ s[1] = rx[1] /\ 1 \in C
       /\ DatagramAt(s, 1) /\ EndOf(s, 1) = 1 + rx[1]
  BY <1>6, <1>7, <1>8, <1>9, NextDatagram, Zenon
<1>11. s[2] # HANDSHAKE
  <2>1. ~MayAnswer
    BY DEF MayAnswer
  <2>2. Answers(s, C) = {}
    BY <1>7, <1>8, <2>1, Zenon DEF Fits
  <2>3. 1 \notin Answers(s, C) /\ 1 + 1 = 2
    BY <2>2
  <2> QED BY <1>10, <2>3 DEF Answers
<1>12. /\ rx[1] >= 2 /\ s[1 + rx[1]] = Complement(rx[1]) /\ s[2] \in 0 .. 2
  <2>1. /\ s[1] >= 2 /\ s[EndOf(s, 1)] = Complement(s[1])
        /\ s[1 + 1] \in 0 .. 2 \/ s[1 + 1] = HANDSHAKE
    BY <1>10, Zenon DEF DatagramAt
  <2>2. 1 + 1 = 2
    OBVIOUS
  <2> QED BY <1>10, <1>11, <2>1, <2>2
<1>13. rx[1] \in Int /\ Len(rx) \in Nat /\ Len(rx) >= 1
  <2>1. Len(rx) \in Nat /\ Len(rx) >= 1
    BY <1>0, <1>6, EmptySeq, LenProperties
  <2>2. rx[1] \in Byte
    BY <1>0, <2>1, ElementOfSeq
  <2> QED BY <2>1, <2>2, BytesAre
<1>14. Len(rx) > rx[1]
  BY <1>6, <1>12, <1>13 DEF Complete
<1>15. \A i \in 1 .. Len(rx) : s[i] = rx[i]
  <2>1. /\ Len(devOut) \in Nat
        /\ \A i \in 1 .. Len(rx) + Len(devOut) :
             s[i] = IF i <= Len(rx) THEN rx[i] ELSE devOut[i - Len(rx)]
    BY <1>0, <1>10, ConcatProperties, LenProperties
  <2> QED BY <1>13, <2>1
<1>16. s[2] = rx[2] /\ s[1 + rx[1]] = rx[1 + rx[1]]
  <2>1. 2 \in 1 .. Len(rx) /\ 1 + rx[1] \in 1 .. Len(rx)
    BY <1>12, <1>13, <1>14
  <2> QED BY <1>15, <2>1
<1>17. rx[rx[1] + 1] = rx[1 + rx[1]]
  BY <1>13
<1>18. Valid /\ rx[2] \in 0 .. 2
  BY <1>12, <1>16, <1>17 DEF Valid
<1> QED BY <1>5, <1>18

(***************************************************************************)
(* A connected device is dropped only when its port is lost, unless one of *)
(* its answers was late or stray: everything that arrives is a valid       *)
(* datagram that onActivity() handles (StateDevice.cpp:61-66,              *)
(* ArdPort.cpp:80-86).                                                     *)
(***************************************************************************)
THEOREM LinkStaysUp == Spec => StaysUp
<1>1. LinkInv /\ [Next]_vars =>
        [host = "up" /\ host' = "dropped" => ~plugged \/ excuses \cap {Late, Stray} # {}]_vars
  BY StepStaysUp
<1>2. Spec => [][Next]_vars
  BY PTL DEF Spec
<1> QED BY <1>1, <1>2, LinkInvariantHolds, PTL DEF StaysUp

-----------------------------------------------------------------------------
(* Boards that come and go.                                                *)

(***************************************************************************)
(* Queues of names.                                                        *)
(***************************************************************************)
AtMostOnce(s, p) == \A i, j \in 1 .. Len(s) : s[i] = p /\ s[j] = p => i = j

LEMMA SetOfIs ==
  ASSUME NEW S, NEW s \in Seq(S)
  PROVE  /\ \A e : e \in ToSet(s) <=> \E i \in 1 .. Len(s) : s[i] = e
         /\ ToSet(s) \subseteq S
<1>1. DOMAIN s = 1 .. Len(s) /\ \A i \in 1 .. Len(s) : s[i] \in S
  BY LenProperties, ElementOfSeq
<1> QED BY <1>1 DEF ToSet

LEMMA EmptyIs ==
  ToSet(<<>>) = {} /\ \A p : AtMostOnce(<<>>, p)
BY DEF ToSet, AtMostOnce

LEMMA AppendIs ==
  ASSUME NEW S, NEW s \in Seq(S), NEW e \in S
  PROVE  /\ Append(s, e) \in Seq(S)
         /\ \A p : p \in ToSet(Append(s, e)) <=> p \in ToSet(s) \/ p = e
         /\ \A p : AtMostOnce(s, p) /\ (p # e \/ p \notin ToSet(s)) => AtMostOnce(Append(s, e), p)
<1>1. /\ Append(s, e) \in Seq(S) /\ Len(Append(s, e)) = Len(s) + 1 /\ Len(s) \in Nat
      /\ \A i \in 1 .. Len(s) : Append(s, e)[i] = s[i]
      /\ Append(s, e)[Len(s) + 1] = e
  BY AppendProperties, LenProperties
<1>2. /\ \A p : p \in ToSet(s) <=> \E i \in 1 .. Len(s) : s[i] = p
      /\ \A p : p \in ToSet(Append(s, e)) <=> \E i \in 1 .. Len(s) + 1 : Append(s, e)[i] = p
  <2>1. \A p : p \in ToSet(s) <=> \E i \in 1 .. Len(s) : s[i] = p
    BY SetOfIs
  <2>2. \A p : p \in ToSet(Append(s, e)) <=> \E i \in 1 .. Len(Append(s, e)) : Append(s, e)[i] = p
    BY <1>1, SetOfIs
  <2> QED BY <1>1, <2>1, <2>2
<1>3. ASSUME NEW p PROVE p \in ToSet(Append(s, e)) <=> p \in ToSet(s) \/ p = e
  BY <1>1, <1>2
<1>4. ASSUME NEW p, AtMostOnce(s, p), p # e \/ p \notin ToSet(s)
      PROVE  AtMostOnce(Append(s, e), p)
  <2> SUFFICES ASSUME NEW i \in 1 .. Len(s) + 1, NEW j \in 1 .. Len(s) + 1,
                      Append(s, e)[i] = p, Append(s, e)[j] = p
               PROVE  i = j
    BY <1>1 DEF AtMostOnce
  <2>1. CASE i \in 1 .. Len(s) /\ j \in 1 .. Len(s)
    BY <1>1, <1>4, <2>1 DEF AtMostOnce
  <2>2. CASE i = Len(s) + 1 \/ j = Len(s) + 1
    <3>1. p = e
      BY <1>1, <2>2
    <3>2. i \notin 1 .. Len(s) /\ j \notin 1 .. Len(s)
      BY <1>1, <1>2, <1>4, <3>1
    <3> QED BY <1>1, <3>2
  <2> QED BY <1>1, <2>1, <2>2
<1> QED BY <1>1, <1>3, <1>4

LEMMA TailIs ==
  ASSUME NEW S, NEW s \in Seq(S), s # <<>>
  PROVE  /\ Tail(s) \in Seq(S) /\ Head(s) \in S /\ Head(s) \in ToSet(s)
         /\ ToSet(Tail(s)) \subseteq ToSet(s)
         /\ \A p : AtMostOnce(s, p) => AtMostOnce(Tail(s), p)
         /\ AtMostOnce(s, Head(s)) => Head(s) \notin ToSet(Tail(s))
<1>1. /\ Len(s) \in Nat /\ Len(s) >= 1
      /\ Head(s) = s[1] /\ Tail(s) \in Seq(S) /\ Len(Tail(s)) = Len(s) - 1
      /\ \A i \in 1 .. Len(s) - 1 : Tail(s)[i] = s[i + 1]
  <2>1. /\ Head(s) = s[1] /\ Tail(s) \in Seq(S) /\ Len(Tail(s)) = Len(s) - 1
        /\ \A i \in 1 .. Len(Tail(s)) : Tail(s)[i] = s[i + 1]
    BY HeadTailProperties
  <2>2. Len(s) \in Nat /\ Len(s) # 0
    BY LenProperties, EmptySeq
  <2> QED BY <2>1, <2>2
<1>2. /\ \A p : p \in ToSet(s) <=> \E i \in 1 .. Len(s) : s[i] = p
      /\ \A p : p \in ToSet(Tail(s)) <=> \E i \in 1 .. Len(s) - 1 : Tail(s)[i] = p
      /\ ToSet(s) \subseteq S
  <2>1. (\A p : p \in ToSet(s) <=> \E i \in 1 .. Len(s) : s[i] = p) /\ ToSet(s) \subseteq S
    BY SetOfIs
  <2>2. \A p : p \in ToSet(Tail(s)) <=> \E i \in 1 .. Len(Tail(s)) : Tail(s)[i] = p
    BY <1>1, SetOfIs
  <2> QED BY <1>1, <2>1, <2>2
<1>3. Head(s) \in ToSet(s) /\ Head(s) \in S
  BY <1>1, <1>2
<1>4. ASSUME NEW p \in ToSet(Tail(s)) PROVE p \in ToSet(s)
  <2>1. PICK i \in 1 .. Len(s) - 1 : Tail(s)[i] = p
    BY <1>2
  <2>2. i + 1 \in 1 .. Len(s) /\ s[i + 1] = p
    BY <1>1, <2>1
  <2> QED BY <1>2, <2>2
<1>5. ASSUME NEW p, AtMostOnce(s, p) PROVE AtMostOnce(Tail(s), p)
  <2> SUFFICES ASSUME NEW i \in 1 .. Len(s) - 1, NEW j \in 1 .. Len(s) - 1,
                      Tail(s)[i] = p, Tail(s)[j] = p
               PROVE  i = j
    BY <1>1 DEF AtMostOnce
  <2>1. i + 1 \in 1 .. Len(s) /\ j + 1 \in 1 .. Len(s) /\ s[i + 1] = p /\ s[j + 1] = p
    BY <1>1
  <2>2. i + 1 = j + 1
    BY <1>5, <2>1 DEF AtMostOnce
  <2> QED BY <1>1, <2>2
<1>6. ASSUME AtMostOnce(s, Head(s)), Head(s) \in ToSet(Tail(s)) PROVE FALSE
  <2>1. PICK i \in 1 .. Len(s) - 1 : Tail(s)[i] = Head(s)
    BY <1>2, <1>6
  <2>2. i + 1 \in 1 .. Len(s) /\ 1 \in 1 .. Len(s) /\ s[i + 1] = Head(s) /\ s[1] = Head(s)
    BY <1>1, <2>1
  <2>3. i + 1 = 1
    BY <1>6, <2>2 DEF AtMostOnce
  <2> QED BY <1>1, <2>3
<1> QED BY <1>1, <1>3, <1>4, <1>5, <1>6

(***************************************************************************)
(* The inductive invariant.                                                *)
(***************************************************************************)
\* Where nothing has been searched, handled or watched yet, or not any more.
StageInv ==
  /\ stage \in {"watch", "execute"} =>
       /\ entries = {} /\ m_failed = <<>> /\ trying = NoPort
       /\ \A p \in Port : objects[p] = 0
  /\ stage = "watch" => raced = {}
  /\ stage # "loop" => batch = <<>> /\ step # "sleep" /\ ToSet(events) \subseteq raced
  /\ stage \in {"loop", "ended"} => entries = {}

\* A port waits to be dealt with in one place at most, and only while nobody holds it.
Once(p) ==
  /\ objects[p] <= 1
  /\ p \in entries \/ p = trying \/ p \in ToSet(events) \cup ToSet(batch) => objects[p] = 0
  /\ p \in entries => p # trying
  /\ p = trying => p \notin ToSet(events) \cup ToSet(batch)
  /\ p \notin ToSet(events) \cap ToSet(batch)
  /\ AtMostOnce(events, p) /\ AtMostOnce(batch, p)
OnceInv == \A p \in Port \ raced : Once(p)

\* A board that failed, or is bound to, has a reason.
FailedInv ==
  stage # "loop" =>
    /\ ToSet(m_failed) \cap Boards \subseteq unlucky \cup raced
    /\ (entries \cap Boards) \ files \subseteq unlucky \cup raced

HotPlugInv == HotPlugTypeOK /\ StageInv /\ OnceInv /\ FailedInv

-----------------------------------------------------------------------------
LEMMA TypesAre ==
  ASSUME HotPlugTypeOK
  PROVE  /\ stage \in {"watch", "execute", "scan", "loop", "ended"}
         /\ files \subseteq Port /\ entries \subseteq Port /\ raced \subseteq Port
         /\ unlucky \subseteq Boards /\ Boards \subseteq Port
         /\ events \in Seq(Port) /\ batch \in Seq(Port) /\ m_failed \in Seq(Port)
         /\ trying \in Port \cup {NoPort} /\ motor \in Port \cup {NoPort} /\ NoPort \notin Port
         /\ step \in {"none", "first", "sleep", "second"}
         /\ step = "none" <=> trying = NoPort
         /\ objects \in [Port -> Nat] /\ plugs \in 0 .. MaxPlugs
BY PortAssumption DEF HotPlugTypeOK, Port

\* The types of the next state, from those of its parts.
LEMMA TypesNext ==
  ASSUME stage' \in {"watch", "execute", "scan", "loop", "ended"},
         files' \subseteq Port, entries' \subseteq Port, raced' \subseteq Port, unlucky' \subseteq Boards,
         events' \in Seq(Port), batch' \in Seq(Port), m_failed' \in Seq(Port),
         trying' \in Port \cup {NoPort}, motor' \in Port \cup {NoPort},
         step' \in {"none", "first", "sleep", "second"},
         step' = "none" <=> trying' = NoPort,
         objects' \in [Port -> Nat], plugs' \in 0 .. MaxPlugs
  PROVE  HotPlugTypeOK'
BY DEF HotPlugTypeOK

\* How a construction begins: it may fail at once.
LEMMA ConstructIs ==
  ASSUME HotPlugTypeOK, NEW p \in Port, NEW which \in {"first", "second"}, Construct(p, which)
  PROVE  /\ \/ trying' = p /\ step' = which /\ m_failed' = m_failed
            \/ trying' = p /\ step' = "sleep" /\ m_failed' = m_failed /\ stage = "loop"
            \/ /\ trying' = NoPort /\ step' = "none"
               /\ m_failed' = Append(m_failed, p) /\ p \notin files
         /\ m_failed' \in Seq(Port)
         /\ trying' \in {p, NoPort} /\ step' \in {"none", "first", "sleep", "second"}
         /\ step' = "none" <=> trying' = NoPort
         /\ step' = "sleep" => stage = "loop"
<1>1. \/ trying' = p /\ step' = which /\ m_failed' = m_failed
      \/ trying' = p /\ step' = "sleep" /\ m_failed' = m_failed /\ stage = "loop"
      \/ /\ trying' = NoPort /\ step' = "none"
         /\ m_failed' = Append(m_failed, p) /\ p \notin files
  BY DEF Construct, Fails
<1>2. p # NoPort /\ m_failed \in Seq(Port)
  BY TypesAre
<1>3. Append(m_failed, p) \in Seq(Port)
  BY <1>2, AppendIs
<1> QED BY <1>1, <1>2, <1>3

LEMMA InitHolds == HotPlugInit => HotPlugInv
<1> SUFFICES ASSUME HotPlugInit PROVE HotPlugInv
  OBVIOUS
<1>1. <<>> \in Seq(Port) /\ plugs \in 0 .. MaxPlugs
  BY EmptySeq, MaxPlugsAssumption DEF HotPlugInit
<1>2. HotPlugTypeOK
  BY <1>1 DEF HotPlugInit, HotPlugTypeOK
<1>3. StageInv
  BY EmptyIs DEF HotPlugInit, StageInv
<1>4. OnceInv
  BY EmptyIs, PortAssumption DEF HotPlugInit, OnceInv, Once, Port
<1>5. FailedInv
  BY EmptyIs DEF HotPlugInit, FailedInv
<1> QED BY <1>2, <1>3, <1>4, <1>5 DEF HotPlugInv

\* addDirectory() and the beginning of the search.
LEMMA StartHolds == HotPlugInv /\ (addDirectory \/ openDirectory) => HotPlugInv'
<1> SUFFICES ASSUME HotPlugInv, addDirectory \/ openDirectory PROVE HotPlugInv'
  OBVIOUS
<1>1. /\ UNCHANGED <<m_failed, motor, files, events, batch, trying, step, objects>>
      /\ UNCHANGED <<plugs, unlucky, raced>>
      /\ \/ stage = "watch" /\ stage' = "execute" /\ entries' = entries
         \/ stage = "execute" /\ stage' = "scan" /\ entries' = files
  BY DEF addDirectory, openDirectory, deviceVars, historyOfPlugs
<1>2. HotPlugTypeOK'
  BY <1>1, TypesAre DEF HotPlugInv, HotPlugTypeOK
<1>3. StageInv'
  BY <1>1 DEF HotPlugInv, StageInv
<1>4. OnceInv'
  <2> SUFFICES ASSUME NEW p \in Port \ raced PROVE Once(p)'
    BY <1>1 DEF OnceInv
  <2>1. /\ Once(p) /\ objects[p] = 0 /\ p # trying /\ batch = <<>>
        /\ p \notin ToSet(events)
    BY <1>1, TypesAre DEF HotPlugInv, OnceInv, StageInv
  <2> QED BY <1>1, <2>1, EmptyIs DEF Once, AtMostOnce
<1>5. FailedInv'
  BY <1>1, EmptyIs DEF HotPlugInv, FailedInv, StageInv
<1> QED BY <1>2, <1>3, <1>4, <1>5 DEF HotPlugInv

LEMMA FindsHolds ==
  ASSUME HotPlugInv, NEW p \in Port, SearchFinds(p)
  PROVE  HotPlugInv'
<1>1. /\ stage = "scan" /\ step = "none" /\ p \in entries /\ entries' = entries \ {p}
      /\ Construct(p, "first")
      /\ UNCHANGED <<stage, motor, files, events, batch, objects, plugs, unlucky, raced>>
  BY DEF SearchFinds, historyOfPlugs
<1>2. /\ \/ trying' = p /\ m_failed' = m_failed
         \/ trying' = NoPort /\ m_failed' = Append(m_failed, p) /\ p \notin files
      /\ m_failed' \in Seq(Port)
      /\ trying' \in {p, NoPort} /\ step' \in {"none", "first", "sleep", "second"}
      /\ step' = "none" <=> trying' = NoPort
      /\ step' # "sleep"
  BY <1>1, ConstructIs DEF HotPlugInv
<1>3. HotPlugTypeOK'
  BY <1>1, <1>2, TypesAre, TypesNext DEF HotPlugInv
<1>4. StageInv'
  BY <1>1, <1>2 DEF HotPlugInv, StageInv
<1>5. OnceInv'
  <2> SUFFICES ASSUME NEW q \in Port \ raced PROVE Once(q)'
    BY <1>1 DEF OnceInv
  <2>1. Once(q) /\ q # NoPort /\ q \notin ToSet(events) /\ batch = <<>>
    BY <1>1, TypesAre DEF HotPlugInv, OnceInv, StageInv
  <2> QED BY <1>1, <1>2, <2>1, EmptyIs DEF Once, AtMostOnce
<1>6. FailedInv'
  <2>1. \A q : q \in ToSet(m_failed') => q \in ToSet(m_failed) \/ (q = p /\ p \notin files)
    <3>1. m_failed \in Seq(Port)
      BY TypesAre DEF HotPlugInv
    <3>2. \A q : q \in ToSet(Append(m_failed, p)) <=> q \in ToSet(m_failed) \/ q = p
      BY <3>1, AppendIs
    <3> QED BY <1>2, <3>2
  <2> QED BY <1>1, <2>1 DEF HotPlugInv, FailedInv
<1> QED BY <1>3, <1>4, <1>5, <1>6 DEF HotPlugInv

LEMMA ChooseHolds == HotPlugInv /\ ChooseMotor => HotPlugInv'
<1> SUFFICES ASSUME HotPlugInv, ChooseMotor PROVE HotPlugInv'
  OBVIOUS
<1>1. /\ stage = "scan" /\ step = "none" /\ entries = {}
      /\ \/ stage' = "loop" /\ motor' = m_failed[1] /\ Len(m_failed) = 1
         \/ stage' = "ended" /\ motor' = motor
      /\ UNCHANGED <<entries, m_failed, files, events, batch, trying, step, objects>>
      /\ UNCHANGED <<plugs, unlucky, raced>>
  BY DEF ChooseMotor, deviceVars, historyOfPlugs
<1>2. motor' \in Port \cup {NoPort}
  BY <1>1, TypesAre, ElementOfSeq DEF HotPlugInv
<1>3. HotPlugTypeOK'
  BY <1>1, <1>2, TypesAre, TypesNext DEF HotPlugInv
<1>4. StageInv'
  BY <1>1 DEF HotPlugInv, StageInv
<1>5. OnceInv'
  BY <1>1 DEF HotPlugInv, OnceInv, Once, AtMostOnce
<1>6. FailedInv'
  BY <1>1 DEF HotPlugInv, FailedInv
<1> QED BY <1>3, <1>4, <1>5, <1>6 DEF HotPlugInv

\* The manager reads the events that wait.
LEMMA ReadHolds == HotPlugInv /\ onActivity => HotPlugInv'
<1> SUFFICES ASSUME HotPlugInv, onActivity PROVE HotPlugInv'
  OBVIOUS
<1>1. /\ stage = "loop" /\ batch = <<>> /\ batch' = events /\ events' = <<>>
      /\ UNCHANGED <<stage, entries, m_failed, motor, files, trying, step, objects>>
      /\ UNCHANGED <<plugs, unlucky, raced>>
  BY DEF onActivity, searchVars, deviceVars, historyOfPlugs
<1>2. HotPlugTypeOK'
  BY <1>1, TypesAre, TypesNext, EmptySeq DEF HotPlugInv
<1>3. StageInv' /\ FailedInv'
  BY <1>1 DEF HotPlugInv, StageInv, FailedInv
<1>4. OnceInv'
  <2> SUFFICES ASSUME NEW p \in Port \ raced PROVE Once(p)'
    BY <1>1 DEF OnceInv
  <2>1. Once(p)
    BY DEF HotPlugInv, OnceInv
  <2> QED BY <1>1, <2>1, EmptyIs DEF Once, AtMostOnce
<1> QED BY <1>2, <1>3, <1>4 DEF HotPlugInv

LEMMA HandleHolds == HotPlugInv /\ HandleEvent => HotPlugInv'
<1> SUFFICES ASSUME HotPlugInv, HandleEvent PROVE HotPlugInv'
  OBVIOUS
<1> DEFINE p == Head(batch)
<1>1. /\ stage = "loop" /\ step = "none" /\ batch # <<>> /\ batch' = Tail(batch)
      /\ Construct(p, "first")
      /\ UNCHANGED <<stage, entries, motor, files, events, objects, plugs, unlucky, raced>>
  BY DEF HandleEvent, historyOfPlugs
<1>2. batch \in Seq(Port)
  BY TypesAre DEF HotPlugInv
<1>3. /\ batch' \in Seq(Port) /\ p \in Port /\ p \in ToSet(batch)
      /\ ToSet(batch') \subseteq ToSet(batch)
      /\ \A q : AtMostOnce(batch, q) => AtMostOnce(batch', q)
      /\ AtMostOnce(batch, p) => p \notin ToSet(batch')
  BY <1>1, <1>2, TailIs
<1> HIDE DEF p
<1>4. /\ m_failed' \in Seq(Port)
      /\ trying' \in {p, NoPort} /\ step' \in {"none", "first", "sleep", "second"}
      /\ step' = "none" <=> trying' = NoPort
  BY <1>1, <1>3, ConstructIs DEF HotPlugInv
<1>5. HotPlugTypeOK'
  BY <1>1, <1>3, <1>4, TypesAre, TypesNext DEF HotPlugInv
<1>6. StageInv' /\ FailedInv'
  BY <1>1 DEF HotPlugInv, StageInv, FailedInv
<1>7. OnceInv'
  <2> SUFFICES ASSUME NEW q \in Port \ raced PROVE Once(q)'
    BY <1>1 DEF OnceInv
  <2>1. Once(q) /\ q # NoPort /\ entries = {}
    BY <1>1, TypesAre DEF HotPlugInv, OnceInv, StageInv
  <2>2. objects'[q] = objects[q] /\ entries' = {} /\ events' = events
    BY <1>1, <2>1
  <2>3. AtMostOnce(events', q) /\ AtMostOnce(batch', q)
    BY <1>1, <1>3, <2>1 DEF Once, AtMostOnce
  <2>4. q \in ToSet(batch') => q \in ToSet(batch)
    BY <1>3
  <2>5. CASE q = p
    BY <1>3, <1>4, <2>1, <2>2, <2>3, <2>4, <2>5 DEF Once
  <2>6. CASE q # p
    <3>1. q # trying'
      BY <1>4, <2>1, <2>6
    <3> QED BY <2>1, <2>2, <2>3, <2>4, <3>1 DEF Once
  <2> QED BY <2>5, <2>6
<1> QED BY <1>5, <1>6, <1>7 DEF HotPlugInv

LEMMA AgainHolds == HotPlugInv /\ TryAgain => HotPlugInv'
<1> SUFFICES ASSUME HotPlugInv, TryAgain PROVE HotPlugInv'
  OBVIOUS
<1>1. /\ stage = "loop" /\ step = "sleep" /\ Construct(trying, "second")
      /\ UNCHANGED <<stage, entries, motor, files, events, batch, objects, plugs, unlucky, raced>>
  BY DEF TryAgain, historyOfPlugs, HotPlugInv, StageInv
<1>2. trying \in Port
  BY <1>1, TypesAre DEF HotPlugInv
<1>3. /\ m_failed' \in Seq(Port)
      /\ trying' \in {trying, NoPort} /\ step' \in {"none", "first", "sleep", "second"}
      /\ step' = "none" <=> trying' = NoPort
  BY <1>1, <1>2, ConstructIs DEF HotPlugInv
<1>4. HotPlugTypeOK'
  BY <1>1, <1>2, <1>3, TypesAre, TypesNext DEF HotPlugInv
<1>5. StageInv' /\ FailedInv'
  BY <1>1 DEF HotPlugInv, StageInv, FailedInv
<1>6. OnceInv'
  <2> SUFFICES ASSUME NEW q \in Port \ raced PROVE Once(q)'
    BY <1>1 DEF OnceInv
  <2>1. Once(q) /\ q # NoPort
    BY TypesAre DEF HotPlugInv, OnceInv
  <2> QED BY <1>1, <1>3, <2>1 DEF Once, AtMostOnce
<1> QED BY <1>4, <1>5, <1>6 DEF HotPlugInv

LEMMA HangupHolds ==
  ASSUME HotPlugInv, NEW p \in Port, Hangup(p)
  PROVE  HotPlugInv'
<1>1. /\ stage = "loop" /\ objects' = [objects EXCEPT ![p] = 0]
      /\ UNCHANGED <<stage, entries, m_failed, motor, files, events, batch, trying, step>>
      /\ UNCHANGED <<plugs, unlucky, raced>>
  BY DEF Hangup, searchVars, historyOfPlugs
<1>2. objects' \in [Port -> Nat] /\ \A q \in Port : objects'[q] = 0 \/ objects'[q] = objects[q]
  BY <1>1, TypesAre DEF HotPlugInv
<1>3. HotPlugTypeOK'
  BY <1>1, <1>2, TypesAre, TypesNext DEF HotPlugInv
<1>4. StageInv' /\ FailedInv'
  BY <1>1 DEF HotPlugInv, StageInv, FailedInv
<1>5. OnceInv'
  <2> SUFFICES ASSUME NEW q \in Port \ raced PROVE Once(q)'
    BY <1>1 DEF OnceInv
  <2>1. Once(q)
    BY DEF HotPlugInv, OnceInv
  <2> QED BY <1>1, <1>2, <2>1 DEF Once, AtMostOnce
<1> QED BY <1>3, <1>4, <1>5 DEF HotPlugInv

LEMMA AnsweredHolds == HotPlugInv /\ Answered => HotPlugInv'
<1> SUFFICES ASSUME HotPlugInv, Answered PROVE HotPlugInv'
  OBVIOUS
<1>1. /\ step \in {"first", "second"} /\ trying \in files \cap Boards
      /\ objects' = [objects EXCEPT ![trying] = @ + 1]
      /\ trying' = NoPort /\ step' = "none"
      /\ UNCHANGED <<stage, entries, m_failed, motor, files, events, batch, plugs, unlucky, raced>>
  BY DEF Answered, Constructing, searchVars, historyOfPlugs
<1>2. trying \in Port
  BY <1>1, TypesAre DEF HotPlugInv
<1>3. /\ objects' \in [Port -> Nat] /\ objects'[trying] = objects[trying] + 1
      /\ \A q \in Port : q # trying => objects'[q] = objects[q]
  BY <1>1, <1>2, TypesAre DEF HotPlugInv
<1>4. HotPlugTypeOK'
  BY <1>1, <1>3, TypesAre, TypesNext DEF HotPlugInv
<1>5. StageInv' /\ FailedInv'
  BY <1>1, <1>2, TypesAre DEF HotPlugInv, StageInv, FailedInv
<1>6. OnceInv'
  <2> SUFFICES ASSUME NEW q \in Port \ raced PROVE Once(q)'
    BY <1>1 DEF OnceInv
  <2>1. Once(q) /\ q # NoPort
    BY TypesAre DEF HotPlugInv, OnceInv
  <2>2. CASE q = trying
    BY <1>1, <1>3, <2>1, <2>2 DEF Once, AtMostOnce
  <2>3. CASE q # trying
    BY <1>1, <1>3, <2>1, <2>3 DEF Once, AtMostOnce
  <2> QED BY <2>2, <2>3
<1> QED BY <1>4, <1>5, <1>6 DEF HotPlugInv

LEMMA NotAnsweredHolds == HotPlugInv /\ NotAnswered => HotPlugInv'
<1> SUFFICES ASSUME HotPlugInv, NotAnswered PROVE HotPlugInv'
  OBVIOUS
<1>1. /\ step \in {"first", "second"}
      /\ \/ trying' = trying /\ step' = "sleep" /\ m_failed' = m_failed /\ stage = "loop"
         \/ trying' = NoPort /\ step' = "none" /\ m_failed' = Append(m_failed, trying)
      /\ unlucky' = unlucky \cup ({trying} \cap Boards)
      /\ UNCHANGED <<stage, entries, motor, files, events, batch, objects, plugs, raced>>
  BY DEF NotAnswered, Constructing, Fails
<1>2. trying \in Port /\ m_failed \in Seq(Port)
  BY <1>1, TypesAre DEF HotPlugInv
<1>3. Append(m_failed, trying) \in Seq(Port)
      /\ \A q : q \in ToSet(Append(m_failed, trying)) <=> q \in ToSet(m_failed) \/ q = trying
  BY <1>2, AppendIs
<1>4. /\ m_failed' \in Seq(Port)
      /\ \A q : q \in ToSet(m_failed') => q \in ToSet(m_failed) \/ q = trying
  BY <1>1, <1>2, <1>3
<1>5. HotPlugTypeOK'
  BY <1>1, <1>2, <1>4, TypesAre, TypesNext DEF HotPlugInv
<1>6. StageInv'
  BY <1>1, <1>2, TypesAre DEF HotPlugInv, StageInv
<1>7. OnceInv'
  <2> SUFFICES ASSUME NEW q \in Port \ raced PROVE Once(q)'
    BY <1>1 DEF OnceInv
  <2>1. Once(q) /\ q # NoPort
    BY TypesAre DEF HotPlugInv, OnceInv
  <2> QED BY <1>1, <2>1 DEF Once, AtMostOnce
<1>8. FailedInv'
  BY <1>1, <1>4 DEF HotPlugInv, FailedInv
<1> QED BY <1>5, <1>6, <1>7, <1>8 DEF HotPlugInv

\* A plug during the search, or on top of an older event, makes the port one that raced.
LEMMA PlugHolds ==
  ASSUME HotPlugInv, NEW p \in Port, Plug(p)
  PROVE  HotPlugInv'
<1>1. /\ stage # "ended" /\ p \notin files /\ objects[p] = 0
      /\ plugs < MaxPlugs /\ plugs' = plugs + 1 /\ files' = files \cup {p}
      /\ events' = IF stage = "watch" THEN events ELSE Append(events, p)
      /\ entries' = entries \/ (stage = "scan" /\ entries' = entries \cup {p})
      /\ unlucky' = unlucky \ {p}
      /\ raced' = IF stage \in {"execute", "scan"} \/ ~Handled(p) THEN raced \cup {p} ELSE raced
      /\ UNCHANGED <<stage, m_failed, motor, batch, trying, step, objects>>
  <2>1. entries' \in IF stage = "scan" THEN {entries, entries \cup {p}} ELSE {entries}
    BY DEF Plug
  <2>2. entries' = entries \/ (stage = "scan" /\ entries' = entries \cup {p})
    BY <2>1
  <2>3. raced' = IF stage \in {"execute", "scan"} \/ ~Handled(p) THEN raced \cup {p} ELSE raced
    BY Zenon DEF Plug
  <2> QED BY <2>2, <2>3 DEF Plug, Closed, deviceVars
<1>2. /\ Append(events, p) \in Seq(Port)
      /\ \A q : q \in ToSet(Append(events, p)) <=> q \in ToSet(events) \/ q = p
      /\ \A q : AtMostOnce(events, q) /\ (q # p \/ q \notin ToSet(events))
                  => AtMostOnce(Append(events, p), q)
  <2>1. events \in Seq(Port)
    BY TypesAre DEF HotPlugInv
  <2> QED BY <2>1, AppendIs
<1>3. HotPlugTypeOK'
  <2>1. plugs' \in 0 .. MaxPlugs
    BY <1>1, TypesAre, MaxPlugsAssumption DEF HotPlugInv
  <2>2. events' \in Seq(Port)
    BY <1>1, <1>2, TypesAre DEF HotPlugInv
  <2> QED BY <1>1, <2>1, <2>2, TypesAre, TypesNext DEF HotPlugInv
<1>4. stage = "watch" => Handled(p)
  BY TypesAre, EmptyIs DEF HotPlugInv, StageInv, Handled
<1>5. StageInv'
  BY <1>1, <1>2, <1>4, TypesAre DEF HotPlugInv, StageInv
<1>6. OnceInv'
  <2> SUFFICES ASSUME NEW q \in Port \ raced' PROVE Once(q)'
    BY DEF OnceInv
  <2>1. q \notin raced /\ Once(q)
    BY <1>1 DEF HotPlugInv, OnceInv
  <2>2. CASE q # p
    BY <1>1, <1>2, <2>1, <2>2 DEF Once, AtMostOnce
  <2>3. CASE q = p
    <3>1. Handled(p) /\ stage \in {"watch", "loop"} /\ entries' = {}
      BY <1>1, <2>3, TypesAre DEF HotPlugInv, StageInv
    <3>2. p \notin ToSet(events) /\ p \notin ToSet(batch) /\ p # trying
      BY <3>1 DEF Handled
    <3> QED BY <1>1, <1>2, <2>1, <2>3, <3>1, <3>2 DEF Once, AtMostOnce
  <2> QED BY <2>2, <2>3
<1>7. FailedInv'
  <2> SUFFICES ASSUME stage # "loop"
               PROVE  /\ ToSet(m_failed) \cap Boards \subseteq unlucky' \cup raced'
                      /\ (entries' \cap Boards) \ files' \subseteq unlucky' \cup raced'
    BY <1>1 DEF FailedInv
  <2>1. CASE stage = "watch"
    BY <1>1, <2>1, EmptyIs DEF HotPlugInv, StageInv
  <2>2. CASE stage # "watch"
    <3>1. stage \in {"execute", "scan"}
      BY <1>1, <2>2, TypesAre DEF HotPlugInv
    <3>2. raced' = raced \cup {p}
      BY <1>1, <3>1
    <3> QED BY <1>1, <3>2 DEF HotPlugInv, FailedInv
  <2> QED BY <2>1, <2>2
<1> QED BY <1>3, <1>5, <1>6, <1>7 DEF HotPlugInv

LEMMA PullHolds ==
  ASSUME HotPlugInv, NEW p \in Port, Pull(p)
  PROVE  HotPlugInv'
<1>1. /\ files' = files \ {p} /\ entries' \in {entries, entries \ {p}}
      /\ unlucky' = unlucky \cup ({p} \cap Boards)
      /\ UNCHANGED <<stage, m_failed, motor, events, batch, trying, step, objects, plugs, raced>>
  BY DEF Pull, deviceVars
<1>2. HotPlugTypeOK'
  BY <1>1, TypesAre, TypesNext DEF HotPlugInv
<1>3. StageInv'
  BY <1>1 DEF HotPlugInv, StageInv
<1>4. OnceInv'
  <2> SUFFICES ASSUME NEW q \in Port \ raced PROVE Once(q)'
    BY <1>1 DEF OnceInv
  <2>1. Once(q)
    BY DEF HotPlugInv, OnceInv
  <2> QED BY <1>1, <2>1 DEF Once, AtMostOnce
<1>5. FailedInv'
  BY <1>1 DEF HotPlugInv, FailedInv
<1> QED BY <1>2, <1>3, <1>4, <1>5 DEF HotPlugInv

LEMMA NextHolds == HotPlugInv /\ [HotPlugNext]_plugVars => HotPlugInv'
<1> SUFFICES ASSUME HotPlugInv, [HotPlugNext]_plugVars PROVE HotPlugInv'
  OBVIOUS
<1>1. CASE StartSearch
  BY <1>1, StartHolds, FindsHolds, ChooseHolds DEF StartSearch, execute
<1>2. CASE Manage
  BY <1>2, ReadHolds, HandleHolds, AgainHolds DEF Manage
<1>3. CASE Constructed
  BY <1>3, AnsweredHolds, NotAnsweredHolds DEF Constructed
<1>4. CASE \E p \in Port : Hangup(p)
  BY <1>4, HangupHolds
<1>5. CASE \E p \in Port : Plug(p) \/ Pull(p)
  BY <1>5, PlugHolds, PullHolds
<1>6. CASE UNCHANGED plugVars
  <2>1. /\ UNCHANGED <<stage, entries, m_failed, motor, files, events, batch, trying, step, objects>>
        /\ UNCHANGED <<plugs, unlucky, raced>>
    BY <1>6 DEF plugVars, searchVars, deviceVars, historyOfPlugs
  <2>2. HotPlugTypeOK'
    BY <2>1 DEF HotPlugInv, HotPlugTypeOK
  <2>3. StageInv' /\ OnceInv' /\ FailedInv'
    BY <2>1 DEF HotPlugInv, StageInv, OnceInv, Once, AtMostOnce, FailedInv
  <2> QED BY <2>2, <2>3 DEF HotPlugInv
<1> QED BY <1>1, <1>2, <1>3, <1>4, <1>5, <1>6 DEF HotPlugNext, Program

-----------------------------------------------------------------------------
(***************************************************************************)
(* The invariant holds throughout the search and the loop, whatever is     *)
(* plugged in and pulled out (DeviceManager.cpp:45-67,                     *)
(* HotDeviceManager.cpp:38-90).                                            *)
(***************************************************************************)
THEOREM HotPlugInvariantHolds == HotPlugSpec => []HotPlugInv
<1>1. HotPlugInit => HotPlugInv
  BY InitHolds
<1>2. HotPlugInv /\ [HotPlugNext]_plugVars => HotPlugInv'
  BY NextHolds
<1> QED BY <1>1, <1>2, PTL DEF HotPlugSpec

(***************************************************************************)
(* Nobody watches a port twice, unless it was plugged in during the search *)
(* or before an older event of its name was handled (OneDevicePerPort:     *)
(* HotDeviceManager.cpp:48-90, DeviceManager.cpp:45-67).                   *)
(***************************************************************************)
THEOREM WatchedOnce == HotPlugSpec => []OneDevicePerPort
<1>1. HotPlugInv => OneDevicePerPort
  <2> SUFFICES ASSUME HotPlugInv PROVE OneDevicePerPort
    OBVIOUS
  <2>1. ASSUME NEW p \in Port, objects[p] > 1 PROVE p \in raced
    <3>1. objects[p] \in Nat
      BY TypesAre DEF HotPlugInv
    <3> QED BY <2>1, <3>1 DEF HotPlugInv, OnceInv, Once
  <2> QED BY <2>1 DEF HotPlugInv, OneDevicePerPort
<1> QED BY <1>1, HotPlugInvariantHolds, PTL

(***************************************************************************)
(* "Assume the failed device is an Ax3500" (main.cpp:136) takes the        *)
(* controller's port, unless a board was late, pulled out or plugged in    *)
(* during the search (ControllerIsTaken).                                  *)
(***************************************************************************)
THEOREM ControllerTaken == HotPlugSpec => ControllerIsTaken
<1>1. HotPlugInv /\ [HotPlugNext]_plugVars =>
        [motor' # motor => motor' = Controller \/ unlucky # {} \/ raced # {}]_plugVars
  <2> SUFFICES ASSUME HotPlugInv, HotPlugNext, motor' # motor
               PROVE  motor' = Controller \/ unlucky # {} \/ raced # {}
    OBVIOUS
  <2>1. ChooseMotor
    BY DEF HotPlugNext, Program, StartSearch, execute, Manage, Constructed, addDirectory, openDirectory,
       SearchFinds, onActivity, HandleEvent, TryAgain, Hangup, Answered, NotAnswered, Plug, Pull, searchVars
  <2>2. stage = "scan" /\ motor' = m_failed[1] /\ Len(m_failed) = 1
    BY <2>1 DEF ChooseMotor
  <2>3. m_failed \in Seq(Port)
    BY TypesAre DEF HotPlugInv
  <2>4. motor' \in ToSet(m_failed) /\ motor' \in Port
    <3>1. /\ \A e : e \in ToSet(m_failed) <=> \E i \in 1 .. Len(m_failed) : m_failed[i] = e
          /\ ToSet(m_failed) \subseteq Port
      BY <2>3, SetOfIs
    <3> QED BY <2>2, <3>1
  <2>5. CASE motor' \in Boards
    BY <2>2, <2>4, <2>5 DEF HotPlugInv, FailedInv
  <2> QED BY <2>4, <2>5 DEF Port
<1> QED BY <1>1, HotPlugInvariantHolds, PTL DEF HotPlugSpec, ControllerIsTaken
=============================================================================
