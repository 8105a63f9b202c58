-------------------------- MODULE EventLoopProofs ---------------------------
(***************************************************************************)
(* Theorems about EventLoop, for any set of sources and any bound on the   *)
(* queues, when the clients keep every rule of Rule.                       *)
(***************************************************************************)
EXTENDS EventLoop, VectorFacts

\* The queue of removals is empty from the end of the erase walk until the
\* slots run, the queue of additions from the drain until they do, and an
\* empty vector leaves nothing behind when the while condition fails.
PhaseInv ==
  /\ pc # "crashed"
  /\ running <=> pc # "idle"
  /\ pc \in {"drain", "interval", "idle"} => deleteQueue = <<>>
  /\ pc \in {"interval", "idle"} => addQueue = <<>>
  /\ pc \in {"poll", "slot"} /\ fdsources = <<>> => addQueue = <<>>
  /\ pc \in {"scan", "handler"} => ready \subseteq 1 .. Len(fdsources)
  /\ pc = "handler" => pos \in 1 .. Len(fdsources)

\* The inductive invariant: the queued indices must be known to denote the
\* accepted sources at EVERY stage, not only when they are used.
IInv ==
  /\ TypeOK
  /\ NoDuplicates
  /\ IndicesDenote
  /\ PhaseInv

-----------------------------------------------------------------------------
(***************************************************************************)
(* Lemmas about the operators of the model.                                *)
(***************************************************************************)

\* The vector alone is free of duplicates.
LEMMA VectorInjective ==
  ASSUME TypeOK, NoDuplicates
  PROVE  /\ \A i, j \in 1 .. Len(fdsources) :
              fdsources[i] = fdsources[j] => i = j
         /\ Watched = {fdsources[i] : i \in 1 .. Len(fdsources)}
<1> DEFINE c == fdsources \o addQueue
<1>1. /\ c \in Seq(Source) /\ Len(c) = Len(fdsources) + Len(addQueue)
      /\ \A i \in 1 .. (Len(fdsources) + Len(addQueue)) :
           c[i] = IF i <= Len(fdsources) THEN fdsources[i]
                  ELSE addQueue[i - Len(fdsources)]
  BY ConcatProperties DEF TypeOK
<1>2. IsInjective(c)
  BY DEF NoDuplicates
<1> HIDE DEF c
<1>3. \A i, j \in 1 .. (Len(fdsources) + Len(addQueue)) : c[i] = c[j] => i = j
  <2>1. c \in Seq(Source) /\ Len(c) = Len(fdsources) + Len(addQueue)
    BY <1>1
  <2>2. DOMAIN c = 1 .. (Len(fdsources) + Len(addQueue))
    BY <2>1, LenProperties
  <2> QED BY <1>2, <2>2, Zenon DEF IsInjective
<1>4. Len(fdsources) \in Nat /\ Len(addQueue) \in Nat
  BY DEF TypeOK
<1>5. DOMAIN fdsources = 1 .. Len(fdsources)
  BY DEF TypeOK
<1> QED BY <1>1, <1>3, <1>4, <1>5 DEF Watched, ToSet

\* indexFDSource finds a watched source, and has() tells whether there is one.
LEMMA IndexFound ==
  ASSUME TypeOK, NoDuplicates, NEW s \in Source
  PROVE  /\ has(s) <=> s \in Watched
         /\ s \in Watched => /\ indexFDSource(s) \in 1 .. Len(fdsources)
                             /\ fdsources[indexFDSource(s)] = s
<1>0. Len(fdsources) \in Nat /\ DOMAIN fdsources = 1 .. Len(fdsources)
  BY DEF TypeOK
<1>1. CASE s \notin Watched
  BY <1>0, <1>1 DEF has, indexFDSource
<1>2. CASE s \in Watched
  <2>1. PICK i \in 1 .. Len(fdsources) : fdsources[i] = s
    BY <1>2, VectorInjective
  <2>2. \A j \in 1 .. (i - 1) : fdsources[j] # s
    BY <1>0, <2>1, VectorInjective
  <2>3. indexFDSource(s) = CHOOSE k \in DOMAIN fdsources :
          fdsources[k] = s /\ \A j \in 1 .. (k - 1) : fdsources[j] # s
    BY <1>2 DEF indexFDSource
  <2>4. indexFDSource(s) \in DOMAIN fdsources /\ fdsources[indexFDSource(s)] = s
    BY <1>0, <2>1, <2>2, <2>3
  <2> QED BY <1>0, <1>2, <2>4 DEF has
<1> QED BY <1>1, <1>2

\* The walk always has a largest index to continue with.
LEMMA NextToEraseIsMaximal ==
  ASSUME TypeOK, IndicesDenote, deleteQueue # <<>>
  PROVE  /\ NextToErase \in 1 .. Len(deleteQueue)
         /\ \A j \in 1 .. Len(deleteQueue) :
              deleteQueue[j] <= deleteQueue[NextToErase]
<1>1. \A j \in DOMAIN deleteQueue : deleteQueue[j] <= Len(fdsources)
  BY DEF TypeOK, IndicesDenote, ToSet
<1>2. Len(fdsources) \in Nat
  BY DEF TypeOK
<1>3. \E k \in DOMAIN deleteQueue :
        \A j \in DOMAIN deleteQueue : deleteQueue[j] <= deleteQueue[k]
  <2>1. deleteQueue \in Seq(Nat)
    BY DEF TypeOK
  <2> QED BY <1>1, <1>2, <2>1, GreatestElement
<1>4. DOMAIN deleteQueue = 1 .. Len(deleteQueue)
  BY DEF TypeOK
<1> QED BY <1>3, <1>4 DEF NextToErase

-----------------------------------------------------------------------------
(***************************************************************************)
(* The inductive step, one lemma per kind of action.                       *)
(***************************************************************************)

\* Actions that only move run() from one stage to the next.
LEMMA ControlStep ==
  ASSUME IInv,
         \/ Run \/ Exit \/ Poll \/ Dispatch \/ HandlerReturnsTrue \/ ScanDone
         \/ EraseDone \/ IntervalNotDue \/ IntervalDue \/ SlotsReturn
         \/ UNCHANGED vars
  PROVE  IInv'
<1> USE DEF IInv
<1>1. UNCHANGED <<fdsources, deleteQueue, addQueue, asked>>
  BY DEF Run, Exit, Poll, Dispatch, HandlerReturnsTrue, ScanDone, EraseDone,
         IntervalNotDue, IntervalDue, SlotsReturn, vars
<1>2. NoDuplicates' /\ IndicesDenote'
  BY <1>1 DEF NoDuplicates, IndicesDenote
<1>3. TypeOK' /\ PhaseInv'
  <2> USE DEF TypeOK, PhaseInv
  <2>1. CASE Run
    BY <2>1 DEF Run
  <2>2. CASE Exit
    <3>1. deleteQueue = <<>>
      <4>1. Len(fdsources) = 0
        BY <2>2 DEF Exit
      <4>2. \A j \in 1 .. Len(deleteQueue) : deleteQueue[j] \in 1 .. Len(fdsources)
        BY DEF IndicesDenote, ToSet
      <4>3. Len(deleteQueue) = 0
        BY <4>1, <4>2
      <4> QED BY <4>3, EmptySeq
    <3> QED BY <2>2, <3>1 DEF Exit
  <2>3. CASE Poll
    BY <2>3 DEF Poll
  <2>4. CASE Dispatch
    BY <2>4 DEF Dispatch
  <2>5. CASE HandlerReturnsTrue \/ ScanDone \/ EraseDone
    BY <2>5 DEF HandlerReturnsTrue, ScanDone, EraseDone
  <2>6. CASE IntervalNotDue \/ IntervalDue \/ SlotsReturn
    BY <2>6 DEF IntervalNotDue, IntervalDue, SlotsReturn
  <2>7. CASE UNCHANGED vars
    BY <2>7 DEF vars
  <2> QED BY <2>1, <2>2, <2>3, <2>4, <2>5, <2>6, <2>7
<1> QED BY <1>2, <1>3

\* Queueing one more removal: the index must denote a source not yet asked.
LEMMA QueueRemoval ==
  ASSUME IInv, NEW i \in 1 .. Len(fdsources), fdsources[i] \notin asked,
         deleteQueue' = Append(deleteQueue, i),
         asked' = asked \cup {fdsources[i]},
         fdsources' = fdsources
  PROVE  IndicesDenote' /\ deleteQueue' \in Seq(Nat \ {0}) /\ asked' \in SUBSET Source
<1> USE DEF IInv
<1>1. deleteQueue \in Seq(Nat \ {0}) /\ i \in Nat \ {0} /\ fdsources[i] \in Source
  BY DEF TypeOK
<1>2. ToSet(deleteQueue') = ToSet(deleteQueue) \cup {i}
  <2> HIDE DEF IInv
  <2>1. ToSet(Append(deleteQueue, i)) = ToSet(deleteQueue) \cup {i}
    BY ONLY <1>1, ToSetAppend
  <2> QED BY <2>1
<1>3. i \notin ToSet(deleteQueue)
  BY DEF IndicesDenote
<1>4. IsInjective(deleteQueue')
  BY <1>1, <1>3, InjectiveAppend DEF IndicesDenote
<1>5. {fdsources'[k] : k \in ToSet(deleteQueue')} = asked'
  BY <1>2 DEF IndicesDenote
<1>6. \A k \in ToSet(deleteQueue') : k \in 1 .. Len(fdsources')
  BY <1>2 DEF IndicesDenote
<1>7. deleteQueue' \in Seq(Nat \ {0}) /\ asked' \in SUBSET Source
  BY <1>1 DEF TypeOK
<1> QED BY <1>4, <1>5, <1>6, <1>7 DEF IndicesDenote

LEMMA HandlerFalseStep ==
  ASSUME IInv, Keeps = Rule, HandlerReturnsFalse
  PROVE  IInv'
<1> USE DEF IInv
<1>1. /\ pos \in 1 .. Len(fdsources)
      /\ fdsources[pos] \notin asked
  BY DEF HandlerReturnsFalse, PhaseInv, MayRemove, Rule
<1>2. /\ IndicesDenote'
      /\ deleteQueue' \in Seq(Nat \ {0})
      /\ asked' \in SUBSET Source
  BY <1>1, QueueRemoval DEF HandlerReturnsFalse
<1>3. NoDuplicates'
  BY DEF HandlerReturnsFalse, NoDuplicates
<1>4. TypeOK' /\ PhaseInv'
  BY <1>2 DEF HandlerReturnsFalse, TypeOK, PhaseInv
<1> QED BY <1>2, <1>3, <1>4

LEMMA AddStep ==
  ASSUME IInv, Keeps = Rule, NEW s \in Source, add(s)
  PROVE  IInv'
<1> USE DEF IInv
<1>1. s \notin Watched /\ s \notin Pending
  <2>1. running => s \notin Pending
    BY DEF add, MayAdd, Rule
  <2>2. ~running => addQueue = <<>>
    BY DEF PhaseInv
  <2>3. addQueue = <<>> => Pending = {}
    BY DEF Pending, ToSet
  <2> QED BY <2>1, <2>2, <2>3, IndexFound DEF add
<1>2. s \notin ToSet(fdsources \o addQueue)
  BY <1>1, ToSetConcat DEF Watched, Pending, TypeOK
<1>3. IsInjective(Append(fdsources \o addQueue, s))
  BY <1>2, InjectiveAppend, ConcatProperties DEF NoDuplicates, TypeOK
<1>4. CASE running
  <2>1. addQueue' = Append(addQueue, s) /\ UNCHANGED fdsources
    BY <1>4 DEF add
  <2>2. NoDuplicates'
    <3>1. fdsources \o Append(addQueue, s) = Append(fdsources \o addQueue, s)
      BY AppendConcat DEF TypeOK
    <3> QED BY <1>3, <2>1, <3>1 DEF NoDuplicates
  <2>3. IndicesDenote'
    BY <2>1 DEF add, IndicesDenote
  <2>4. TypeOK'
    BY <2>1 DEF add, TypeOK
  <2>5. PhaseInv'
    BY <2>1, <1>4 DEF add, PhaseInv, ClientCode, MayAdd, Rule
  <2> QED BY <2>2, <2>3, <2>4, <2>5
<1>5. CASE ~running
  <2>1. /\ fdsources' = Append(fdsources, s) /\ UNCHANGED addQueue
        /\ addQueue = <<>> /\ deleteQueue = <<>> /\ pc = "idle"
    BY <1>5 DEF add, PhaseInv
  <2>2. NoDuplicates'
    <3>1. fdsources \o addQueue = fdsources
      BY <2>1, ConcatEmptySeq DEF TypeOK
    <3>2. fdsources' \in Seq(Source)
      BY <2>1 DEF TypeOK
    <3>3. fdsources' \o addQueue' = fdsources'
      BY <2>1, <3>2, ConcatEmptySeq
    <3> QED BY <1>3, <2>1, <3>1, <3>3 DEF NoDuplicates
  <2>3. IndicesDenote'
    <3>1. ToSet(deleteQueue) = {}
      BY <2>1 DEF ToSet
    <3>2. UNCHANGED <<deleteQueue, asked>>
      BY DEF add
    <3> QED BY <3>1, <3>2 DEF IndicesDenote
  <2>4. TypeOK'
    BY <2>1 DEF add, TypeOK
  <2>5. PhaseInv'
    BY <2>1, <1>5 DEF add, PhaseInv
  <2> QED BY <2>2, <2>3, <2>4, <2>5
<1> QED BY <1>4, <1>5

\* Erasing watched index i keeps the vectors free of duplicates.
LEMMA ErasePosition ==
  ASSUME IInv, NEW i \in 1 .. Len(fdsources),
         fdsources' = RemoveAt(fdsources, i), addQueue' = addQueue
  PROVE  NoDuplicates' /\ fdsources' \in Seq(Source)
<1> USE DEF IInv
<1>1. fdsources \in Seq(Source) /\ addQueue \in Seq(Source)
  BY DEF TypeOK
<1>2. fdsources' \o addQueue' = RemoveAt(fdsources \o addQueue, i)
  BY <1>1, RemoveAtConcat
<1>3. /\ fdsources \o addQueue \in Seq(Source)
      /\ i \in 1 .. Len(fdsources \o addQueue)
  BY <1>1, ConcatProperties
<1>4. IsInjective(RemoveAt(fdsources \o addQueue, i))
  BY <1>3, RemoveAtInjective DEF NoDuplicates
<1>5. fdsources' \in Seq(Source)
  BY <1>1, RemoveAtFacts
<1> QED BY <1>2, <1>4, <1>5 DEF NoDuplicates

\* Erasing an index of the vector takes its source, and only that, from the set.
LEMMA VectorErased ==
  ASSUME TypeOK, NoDuplicates, NEW i \in 1 .. Len(fdsources),
         fdsources' = RemoveAt(fdsources, i)
  PROVE  Watched' = Watched \ {fdsources[i]}
<1>1. fdsources \in Seq(Source) /\ Len(fdsources) \in Nat
  BY DEF TypeOK
<1>2. /\ fdsources' \in Seq(Source) /\ Len(fdsources') = Len(fdsources) - 1
      /\ \A x \in 1 .. (Len(fdsources) - 1) :
           fdsources'[x] = IF x < i THEN fdsources[x] ELSE fdsources[x + 1]
  BY <1>1, RemoveAtFacts
<1>3. DOMAIN fdsources' = 1 .. (Len(fdsources) - 1)
  BY <1>2
<1>4. ASSUME NEW x \in 1 .. Len(fdsources), x # i
      PROVE  fdsources[x] \in Watched'
  <2>1. CASE x < i
    <3>1. x \in 1 .. (Len(fdsources) - 1) /\ fdsources'[x] = fdsources[x]
      BY <1>1, <1>2, <2>1
    <3> QED BY <1>3, <3>1 DEF Watched, ToSet
  <2>2. CASE i < x
    <3>1. x - 1 \in 1 .. (Len(fdsources) - 1) /\ fdsources'[x - 1] = fdsources[x]
      BY <1>1, <1>2, <2>2
    <3> QED BY <1>3, <3>1 DEF Watched, ToSet
  <2> QED BY <1>1, <1>4, <2>1, <2>2
<1>5. ASSUME NEW s \in Watched'
      PROVE  s \in Watched /\ s # fdsources[i]
  <2>1. PICK x \in 1 .. (Len(fdsources) - 1) : s = fdsources'[x]
    BY <1>3, <1>5 DEF Watched, ToSet
  <2>2. PICK y \in 1 .. Len(fdsources) : y # i /\ s = fdsources[y]
    <3>1. CASE x < i
      BY <1>1, <1>2, <2>1, <3>1
    <3>2. CASE ~(x < i)
      BY <1>1, <1>2, <2>1, <3>2
    <3> QED BY <3>1, <3>2
  <2> QED BY <2>2, VectorInjective
<1> QED BY <1>4, <1>5, VectorInjective

LEMMA RemoveStep ==
  ASSUME IInv, Keeps = Rule, NEW s \in Source, remove(s)
  PROVE  IInv'
<1> USE DEF IInv
<1> DEFINE i == indexFDSource(s)
<1>1. i \in 1 .. Len(fdsources) /\ fdsources[i] = s /\ s \notin asked
  BY IndexFound DEF remove, MayRemove, Rule
<1> HIDE DEF i
<1>2. CASE running
  <2>1. /\ deleteQueue' = Append(deleteQueue, i)
        /\ asked' = asked \cup {s}
        /\ UNCHANGED fdsources
    BY <1>2 DEF remove, i
  <2>2. /\ IndicesDenote'
        /\ deleteQueue' \in Seq(Nat \ {0})
        /\ asked' \in SUBSET Source
    BY <1>1, <2>1, QueueRemoval
  <2>3. NoDuplicates'
    BY <2>1 DEF remove, NoDuplicates
  <2>4. TypeOK' /\ PhaseInv'
    BY <1>2, <2>1, <2>2 DEF remove, ClientCode, TypeOK, PhaseInv
  <2> QED BY <2>2, <2>3, <2>4
<1>3. CASE ~running
  <2>1. /\ fdsources' = RemoveAt(fdsources, i)
        /\ UNCHANGED <<deleteQueue, asked, addQueue>>
        /\ deleteQueue = <<>> /\ pc = "idle"
    BY <1>3 DEF remove, PhaseInv, i
  <2>2. NoDuplicates' /\ fdsources' \in Seq(Source)
    BY <1>1, <2>1, ErasePosition
  <2>3. IndicesDenote'
    <3>1. ToSet(deleteQueue) = {}
      BY <2>1 DEF ToSet
    <3> QED BY <2>1, <3>1 DEF IndicesDenote
  <2>4. TypeOK' /\ PhaseInv'
    BY <1>3, <2>1, <2>2 DEF remove, TypeOK, PhaseInv
  <2> QED BY <2>2, <2>3, <2>4
<1> QED BY <1>2, <1>3

\* One step of the erase walk: the largest index goes, so every index still
\* queued lies below it and keeps its source.
LEMMA EraseStep ==
  ASSUME IInv, Erase
  PROVE  /\ IInv'
         /\ \E s \in asked : Watched' = Watched \ {s} /\ asked' = asked \ {s}
<1> USE DEF IInv
<1> DEFINE k == NextToErase
           i == deleteQueue[k]
           n == Len(deleteQueue)
<1>1. /\ k \in 1 .. n
      /\ \A j \in 1 .. n : deleteQueue[j] <= i
  BY NextToEraseIsMaximal DEF Erase
<1>2. /\ deleteQueue \in Seq(Nat \ {0}) /\ DOMAIN deleteQueue = 1 .. n /\ n \in Nat
      /\ fdsources \in Seq(Source) /\ Len(fdsources) \in Nat
  BY DEF TypeOK
<1>3. /\ \A j \in 1 .. n : deleteQueue[j] \in 1 .. Len(fdsources)
      /\ \A j, m \in 1 .. n : deleteQueue[j] = deleteQueue[m] => j = m
      /\ asked = {fdsources[x] : x \in ToSet(deleteQueue)}
      /\ ToSet(deleteQueue) = {deleteQueue[j] : j \in 1 .. n}
  BY <1>2 DEF IndicesDenote, ToSet, IsInjective
<1>4. i \in 1 .. Len(fdsources) /\ i \in ToSet(deleteQueue)
  BY <1>1, <1>3
<1>5. /\ fdsources' = RemoveAt(fdsources, i)
      /\ deleteQueue' = RemoveAt(deleteQueue, k)
      /\ asked' = asked \ {fdsources[i]}
      /\ UNCHANGED <<addQueue, running, ready, pos, pc>>
  BY <1>4 DEF Erase
<1> HIDE DEF i, k, n
<1>6. /\ deleteQueue' \in Seq(Nat \ {0}) /\ Len(deleteQueue') = n - 1
      /\ \A j \in 1 .. (n - 1) :
           deleteQueue'[j] = IF j < k THEN deleteQueue[j] ELSE deleteQueue[j + 1]
      /\ IsInjective(deleteQueue')
  BY <1>1, <1>2, <1>5, RemoveAtFacts, RemoveAtInjective DEF IndicesDenote, n
<1>7. ToSet(deleteQueue') = ToSet(deleteQueue) \ {i}
  <2>1. ASSUME NEW x \in ToSet(deleteQueue')
        PROVE  x \in ToSet(deleteQueue) \ {i}
    <3>1. PICK j \in 1 .. (n - 1) : x = deleteQueue'[j]
      BY <1>2, <1>6 DEF ToSet
    <3>2. PICK m \in 1 .. n : m # k /\ x = deleteQueue[m]
      <4>1. CASE j < k
        BY <1>1, <1>2, <1>6, <3>1, <4>1
      <4>2. CASE ~(j < k)
        BY <1>1, <1>2, <1>6, <3>1, <4>2
      <4> QED BY <4>1, <4>2
    <3> QED BY <1>1, <1>3, <3>2 DEF i
  <2>2. ASSUME NEW x \in ToSet(deleteQueue), x # i
        PROVE  x \in ToSet(deleteQueue')
    <3>0. DOMAIN deleteQueue' = 1 .. (n - 1)
      BY <1>6
    <3>1. PICK j \in 1 .. n : x = deleteQueue[j]
      BY <1>3
    <3>2. j # k
      BY <2>2, <3>1 DEF i
    <3>3. CASE j < k
      <4>1. j \in 1 .. (n - 1) /\ deleteQueue'[j] = x
        BY <1>1, <1>2, <1>6, <3>1, <3>3
      <4> QED BY <3>0, <4>1 DEF ToSet
    <3>4. CASE k < j
      <4>1. j - 1 \in 1 .. (n - 1) /\ deleteQueue'[j - 1] = x
        BY <1>1, <1>2, <1>6, <3>1, <3>4
      <4> QED BY <3>0, <4>1 DEF ToSet
    <3> QED BY <1>1, <1>2, <3>2, <3>3, <3>4
  <2> QED BY <2>1, <2>2
<1>8. /\ Len(fdsources') = Len(fdsources) - 1
      /\ \A x \in 1 .. (Len(fdsources) - 1) :
           fdsources'[x] = IF x < i THEN fdsources[x] ELSE fdsources[x + 1]
  BY <1>2, <1>4, <1>5, RemoveAtFacts
<1>9. ASSUME NEW x \in ToSet(deleteQueue')
      PROVE  x \in 1 .. (Len(fdsources) - 1) /\ fdsources'[x] = fdsources[x]
  <2>1. x \in 1 .. Len(fdsources) /\ x <= i /\ x # i
    BY <1>1, <1>3, <1>7
  <2> QED BY <1>2, <1>4, <1>8, <2>1
<1>10. NoDuplicates' /\ fdsources' \in Seq(Source)
  BY <1>4, <1>5, ErasePosition
<1>11. {fdsources'[x] : x \in ToSet(deleteQueue')} = asked'
  <2>1. {fdsources'[x] : x \in ToSet(deleteQueue')}
          = {fdsources[x] : x \in ToSet(deleteQueue')}
    BY <1>9
  <2>2. \A x \in ToSet(deleteQueue) : fdsources[x] = fdsources[i] => x = i
    BY <1>3, <1>4, VectorInjective
  <2>3. {fdsources[x] : x \in ToSet(deleteQueue) \ {i}} = asked \ {fdsources[i]}
    BY <1>3, <1>4, <2>2
  <2> QED BY <1>5, <1>7, <2>1, <2>3
<1>12. IndicesDenote'
  BY <1>6, <1>8, <1>9, <1>11 DEF IndicesDenote
<1>13. TypeOK' /\ PhaseInv'
  BY <1>5, <1>6, <1>10 DEF TypeOK, PhaseInv, Erase
<1>14. Watched' = Watched \ {fdsources[i]}
  BY <1>4, <1>5, VectorErased
<1>15. fdsources[i] \in asked
  BY <1>3, <1>4
<1> QED BY <1>5, <1>10, <1>12, <1>13, <1>14, <1>15

LEMMA DrainStep ==
  ASSUME IInv, Drain
  PROVE  IInv'
<1> USE DEF IInv
<1>1. /\ fdsources' = fdsources \o addQueue /\ addQueue' = <<>>
      /\ UNCHANGED <<deleteQueue, asked, running>> /\ deleteQueue = <<>>
      /\ pc = "drain" /\ pc' = "interval"
  BY DEF Drain, PhaseInv
<1>2. fdsources' \in Seq(Source)
  BY <1>1, ConcatProperties DEF TypeOK
<1>3. NoDuplicates'
  <2>1. fdsources' \o addQueue' = fdsources'
    BY <1>1, <1>2, ConcatEmptySeq
  <2> QED BY <1>1, <2>1 DEF NoDuplicates
<1>4. IndicesDenote'
  <2>1. ToSet(deleteQueue) = {}
    BY <1>1 DEF ToSet
  <2> QED BY <1>1, <2>1 DEF IndicesDenote
<1>5. TypeOK' /\ PhaseInv'
  BY <1>1, <1>2 DEF Drain, TypeOK, PhaseInv
<1> QED BY <1>3, <1>4, <1>5

-----------------------------------------------------------------------------
(***************************************************************************)
(* Theorems.                                                               *)
(***************************************************************************)

\* The inductive invariant holds in every reachable state of a loop whose
\* clients keep the rules (EventLoop.cpp:39-160).
THEOREM InvariantHolds ==
  ASSUME Keeps = Rule
  PROVE  Safety => []IInv
<1>1. Init => IInv
  <2>1. ASSUME Init PROVE IInv
    <3>1. ToSet(deleteQueue) = {} /\ fdsources \o addQueue = <<>>
      BY <2>1 DEF Init, ToSet
    <3>2. NoDuplicates
      BY <3>1 DEF NoDuplicates, IsInjective
    <3>3. IndicesDenote
      BY <2>1, <3>1 DEF Init, IndicesDenote, IsInjective
    <3>4. TypeOK
      <4>1. /\ fdsources \in Seq(Source) /\ addQueue \in Seq(Source)
            /\ deleteQueue \in Seq(Nat \ {0})
        BY <2>1, EmptySeq DEF Init
      <4>2. /\ ready \in SUBSET Nat /\ pos \in Nat
            /\ asked \in SUBSET Source
        BY <2>1 DEF Init
      <4>3. running \in BOOLEAN
        BY <2>1 DEF Init
      <4> QED BY <2>1, <4>1, <4>2, <4>3 DEF Init, TypeOK
    <3>5. PhaseInv
      BY <2>1 DEF Init, PhaseInv
    <3> QED BY <3>2, <3>3, <3>4, <3>5 DEF IInv
  <2> QED BY <2>1
<1>2. IInv /\ [Next]_vars => IInv'
  <2> SUFFICES ASSUME IInv, [Next]_vars PROVE IInv'
    OBVIOUS
  <2>1. ASSUME NEW s \in Source, add(s) PROVE IInv'
    BY <2>1, AddStep
  <2>2. ASSUME NEW s \in Source, remove(s) PROVE IInv'
    BY <2>2, RemoveStep
  <2>3. CASE HandlerReturnsFalse
    BY <2>3, HandlerFalseStep
  <2>4. CASE Erase
    BY <2>4, EraseStep
  <2>5. CASE Drain
    BY <2>5, DrainStep
  <2>6. CASE \/ Run \/ Exit \/ Poll \/ Dispatch \/ HandlerReturnsTrue \/ ScanDone
             \/ EraseDone \/ IntervalNotDue \/ IntervalDue \/ SlotsReturn
             \/ UNCHANGED vars
    BY <2>6, ControlStep
  <2> QED BY <2>1, <2>2, <2>3, <2>4, <2>5, <2>6 DEF Next, Loop, HandlerReturns
<1> QED BY <1>1, <1>2, PTL DEF Safety

\* Type correctness (EventLoop.h:119-133).
THEOREM TypeCorrect == ASSUME Keeps = Rule PROVE Safety => []TypeOK
<1>1. IInv => TypeOK
  BY DEF IInv
<1> QED BY <1>1, InvariantHolds, PTL

\* No source is ever watched, or waiting to be watched, twice
\* (EventLoop.cpp:114-133).
THEOREM WatchedOnce == ASSUME Keeps = Rule PROVE Safety => []NoDuplicates
<1>1. IInv => NoDuplicates
  BY DEF IInv
<1> QED BY <1>1, InvariantHolds, PTL

\* At every stage the queued indices denote exactly the sources whose removal
\* was accepted (EventLoop.cpp:54-64, 142-160).
THEOREM IndicesAreExact == ASSUME Keeps = Rule PROVE Safety => []IndicesDenote
<1>1. IInv => IndicesDenote
  BY DEF IInv
<1> QED BY <1>1, InvariantHolds, PTL

\* Every accepted removal is done before a source is admitted or a slot is
\* called, and run() returns with empty queues (EventLoop.cpp:54-94).
THEOREM NothingIsLeftOver == ASSUME Keeps = Rule PROVE Safety => []NothingLeftOver
<1>1. IInv => NothingLeftOver
  <2> SUFFICES ASSUME IInv PROVE NothingLeftOver
    OBVIOUS
  <2>1. deleteQueue = <<>> => asked = {}
    BY DEF IInv, IndicesDenote, ToSet
  <2> QED BY <2>1 DEF IInv, PhaseInv, NothingLeftOver
<1> QED BY <1>1, InvariantHolds, PTL

\* While the loop runs, the erase walk is the only thing that takes a source
\* away, and it takes only sources whose removal was accepted
\* (EventLoop.cpp:56-63).
THEOREM OnlyAskedAreRemoved == ASSUME Keeps = Rule PROVE Safety => OnlyAskedLeave
<1>1. ASSUME IInv, [Next]_vars
      PROVE  [running => \A s \in Watched \ Watched' : s \in asked]_vars
  <2>1. CASE fdsources' = fdsources
    BY <2>1 DEF Watched
  <2>2. CASE Erase
    BY <1>1, <2>2, EraseStep
  <2>3. CASE Drain
    <3>1. Watched' = Watched \cup Pending
      BY <1>1, <2>3, ToSetConcat DEF Drain, Watched, Pending, IInv, TypeOK
    <3> QED BY <3>1
  <2>4. ASSUME NEW s \in Source, add(s) \/ remove(s), fdsources' # fdsources
        PROVE  ~running
    BY <2>4 DEF add, remove
  <2> QED BY <1>1, <2>1, <2>2, <2>3, <2>4
       DEF Next, Loop, HandlerReturns, Run, Exit, Poll, Dispatch,
           HandlerReturnsTrue, HandlerReturnsFalse, ScanDone, EraseDone,
           IntervalNotDue, IntervalDue, SlotsReturn, vars
<1> QED BY <1>1, InvariantHolds, PTL DEF Safety, OnlyAskedLeave

-----------------------------------------------------------------------------
(***************************************************************************)
(* The refinement, one lemma per action that is not a stutter.             *)
(***************************************************************************)
Leaving == {fdsources[i] : i \in ToSet(deleteQueue) \cap DOMAIN fdsources}

\* What waits in the queues, as sets of sources.
LEMMA QueuesAre ==
  IInv => /\ Leaving = asked /\ asked \subseteq Watched
          /\ addQueue = <<>> => Pending = {}
          /\ fdsources = <<>> => Watched = {} /\ asked = {}
<1> SUFFICES ASSUME IInv
             PROVE  /\ Leaving = asked /\ asked \subseteq Watched
                    /\ addQueue = <<>> => Pending = {}
                    /\ fdsources = <<>> => Watched = {} /\ asked = {}
  OBVIOUS
<1>1. DOMAIN fdsources = 1 .. Len(fdsources)
  BY DEF IInv, TypeOK
<1>2. ToSet(deleteQueue) \cap DOMAIN fdsources = ToSet(deleteQueue)
  BY <1>1 DEF IInv, IndicesDenote
<1>3. Leaving = asked
  BY <1>2 DEF Leaving, IInv, IndicesDenote
<1>4. asked \subseteq Watched
  BY <1>1 DEF IInv, IndicesDenote, Watched, ToSet
<1>5. /\ addQueue = <<>> => Pending = {}
      /\ fdsources = <<>> => Watched = {}
  BY DEF Pending, Watched, ToSet
<1> QED BY <1>3, <1>4, <1>5

LEMMA AddMaps ==
  ASSUME IInv, Leaving' = asked', Keeps = Rule, NEW s \in Source, add(s)
  PROVE  WS!AddNow(s) \/ WS!AskToJoin(s)
<1>1. /\ s \notin Watched /\ Leaving = asked /\ Leaving' = asked'
      /\ UNCHANGED <<asked, running>>
  BY IndexFound, QueuesAre DEF add, IInv
<1>2. CASE running
  <2>1. /\ addQueue' = Append(addQueue, s) /\ UNCHANGED fdsources
        /\ s \notin Pending
    BY <1>2 DEF add, MayAdd, Rule
  <2>2. Pending' = Pending \cup {s}
    <3>1. addQueue \in Seq(Source)
      BY DEF IInv, TypeOK
    <3>2. ToSet(Append(addQueue, s)) = ToSet(addQueue) \cup {s}
      BY ONLY <3>1, s \in Source, ToSetAppend
    <3> QED BY <2>1, <3>2 DEF Pending
  <2>3. UNCHANGED Watched
    BY <2>1 DEF Watched
  <2> QED BY <1>1, <1>2, <2>1, <2>2, <2>3 DEF WS!AskToJoin, Leaving
<1>3. CASE ~running
  <2>1. fdsources' = Append(fdsources, s) /\ UNCHANGED addQueue
    BY <1>3 DEF add
  <2>2. Watched' = Watched \cup {s}
    <3>1. fdsources \in Seq(Source)
      BY DEF IInv, TypeOK
    <3>2. ToSet(Append(fdsources, s)) = ToSet(fdsources) \cup {s}
      BY ONLY <3>1, s \in Source, ToSetAppend
    <3> QED BY <2>1, <3>2 DEF Watched
  <2>3. UNCHANGED Pending
    BY <2>1 DEF Pending
  <2> QED BY <1>1, <1>3, <2>2, <2>3 DEF WS!AddNow, Leaving
<1> QED BY <1>2, <1>3

LEMMA RemoveMaps ==
  ASSUME IInv, Leaving' = asked', Keeps = Rule, NEW s \in Source, remove(s)
  PROVE  WS!RemoveNow(s) \/ WS!AskToLeave(s)
<1> DEFINE i == indexFDSource(s)
<1>1. /\ s \in Watched /\ s \notin asked /\ i \in 1 .. Len(fdsources) /\ fdsources[i] = s
      /\ Leaving = asked /\ UNCHANGED <<addQueue, running>>
  BY IndexFound, QueuesAre DEF remove, MayRemove, Rule, IInv
<1>2. UNCHANGED Pending
  BY <1>1 DEF Pending
<1>3. CASE running
  <2>1. UNCHANGED fdsources /\ asked' = asked \cup {s}
    BY <1>3 DEF remove
  <2> QED BY <1>1, <1>2, <1>3, <2>1 DEF WS!AskToLeave, Leaving, Watched
<1>4. CASE ~running
  <2>1. fdsources' = RemoveAt(fdsources, i) /\ UNCHANGED asked
    BY <1>4 DEF remove
  <2> HIDE DEF i
  <2>2. Watched' = Watched \ {s}
    BY <1>1, <2>1, VectorErased DEF IInv
  <2> QED BY <1>1, <1>2, <1>4, <2>1, <2>2 DEF WS!RemoveNow, Leaving
<1> QED BY <1>3, <1>4

LEMMA RunMaps ==
  ASSUME IInv, IInv', Leaving' = asked', [Next]_vars,
         \A s \in Source : ~add(s) /\ ~remove(s), Keeps = Rule
  PROVE  [WS!Next]_(WS!vars)
<1>1. Leaving = asked /\ asked \subseteq Watched /\ Watched \subseteq Source
  <2>1. Watched \subseteq Source
    <3>1. \A i \in 1 .. Len(fdsources) : fdsources[i] \in Source
      BY ElementOfSeq DEF IInv, TypeOK
    <3> QED BY <3>1, VectorInjective DEF IInv
  <2> QED BY <2>1, QueuesAre
<1>2. CASE Run
  BY <1>1, <1>2 DEF Run, IInv, PhaseInv, WS!Start, WS!Next, Watched, Pending, Leaving
<1>3. CASE Exit
  <2>1. /\ Watched = {} /\ asked = {} /\ Pending = {} /\ running
        /\ running' = FALSE /\ UNCHANGED <<Watched, Pending, Leaving>>
    BY <1>3, QueuesAre DEF Exit, IInv, PhaseInv, Watched, Pending, Leaving
  <2> QED BY <1>1, <2>1 DEF WS!Stop, WS!Next, Leaving
<1>4. CASE HandlerReturnsFalse
  <2>1. PICK s \in Source :
          /\ s \in Watched /\ s \notin asked /\ asked' = asked \cup {s} /\ running
          /\ UNCHANGED <<Watched, Pending, running>>
    <3>1. pos \in 1 .. Len(fdsources) /\ running
      BY <1>4 DEF HandlerReturnsFalse, IInv, PhaseInv
    <3>2. fdsources[pos] \in Watched /\ fdsources[pos] \in Source
      BY <1>1, <3>1, VectorInjective DEF IInv
    <3> QED BY <1>4, <3>1, <3>2 DEF HandlerReturnsFalse, MayRemove, Rule, Watched, Pending
  <2>2. WS!AskToLeave(s)
    BY <1>1, <2>1 DEF WS!AskToLeave, Leaving
  <2> QED BY <1>1, <2>1, <2>2 DEF WS!Next
<1>5. CASE Erase
  <2>1. PICK s \in asked : Watched' = Watched \ {s} /\ asked' = asked \ {s}
    BY <1>5, EraseStep
  <2>2. UNCHANGED <<Pending, running>>
    BY <1>5 DEF Erase, Pending
  <2>3. WS!Leave(s)
    BY <1>1, <2>1, <2>2 DEF WS!Leave, Leaving
  <2> QED BY <1>1, <2>3 DEF WS!Next
<1>6. CASE Drain
  <2>1. Watched' = Watched \cup Pending
    BY <1>6, ToSetConcat DEF Drain, Watched, Pending, IInv, TypeOK
  <2>2. Pending' = {} /\ asked = {} /\ asked' = {} /\ UNCHANGED running
    <3>1. addQueue' = <<>> /\ deleteQueue = <<>> /\ UNCHANGED <<asked, running>>
      BY <1>6 DEF Drain, IInv, PhaseInv
    <3>2. asked = {} /\ Pending' = {}
      BY <3>1 DEF IInv, IndicesDenote, ToSet, Pending
    <3> QED BY <3>1, <3>2
  <2>3. CASE Pending = {}
    BY <1>1, <2>1, <2>2, <2>3 DEF WS!vars, Leaving
  <2>4. CASE Pending # {}
    BY <1>1, <2>1, <2>2, <2>4 DEF WS!JoinAll, WS!Next, Leaving
  <2> QED BY <2>3, <2>4
<1>7. CASE \/ Poll \/ Dispatch \/ HandlerReturnsTrue \/ ScanDone \/ EraseDone
           \/ IntervalNotDue \/ IntervalDue \/ SlotsReturn \/ UNCHANGED vars
  <2>1. UNCHANGED <<fdsources, deleteQueue, addQueue, running>>
    BY <1>7 DEF Poll, Dispatch, HandlerReturnsTrue, ScanDone, EraseDone, IntervalNotDue,
                IntervalDue, SlotsReturn, vars
  <2> QED BY <2>1 DEF WS!vars, Watched, Pending
<1> QED BY <1>2, <1>3, <1>4, <1>5, <1>6, <1>7 DEF Next, Loop, HandlerReturns

(***************************************************************************)
(* The loop, its vectors, queues and indices keep what the abstract set    *)
(* promises: whatever add() and remove() accept becomes true, removals     *)
(* before additions, and run() ends with nothing watched and nothing       *)
(* outstanding (ImplementsWatchSet without fairness: EventLoop.h:45-134,   *)
(* EventLoop.cpp:39-160).                                                  *)
(***************************************************************************)
THEOREM KeepsTheSet == ASSUME Keeps = Rule PROVE Safety => WS!Safety
<1>1. Init => WS!Init
  BY DEF Init, WS!Init, Watched, Pending, ToSet
<1>2. IInv /\ IInv' /\ [Next]_vars => [WS!Next]_(WS!vars)
  <2> SUFFICES ASSUME IInv, IInv', [Next]_vars PROVE [WS!Next]_(WS!vars)
    OBVIOUS
  <2>1. Leaving' = asked'
    <3>1. (IInv => Leaving = asked)'
      BY QueuesAre, PTL
    <3> QED BY <3>1
  <2>2. CASE \A s \in Source : ~add(s) /\ ~remove(s)
    BY <2>1, <2>2, RunMaps
  <2>3. ASSUME NEW s \in Source, add(s) \/ remove(s)
        PROVE  WS!AddNow(s) \/ WS!AskToJoin(s) \/ WS!RemoveNow(s) \/ WS!AskToLeave(s)
    BY <2>1, <2>3, AddMaps, RemoveMaps
  <2> QED BY <2>2, <2>3 DEF WS!Next
<1> QED BY <1>1, <1>2, InvariantHolds, PTL DEF Safety, WS!Safety
=============================================================================
