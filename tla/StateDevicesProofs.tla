------------------------- MODULE StateDevicesProofs -------------------------
(***************************************************************************)
(* Theorems about the State and its listeners, for every set of devices,   *)
(* sockets, keys and values, and signals of any length.                    *)
(***************************************************************************)
EXTENDS StateDevices, VectorFacts

\* A set of numbers with 0 that goes on from each to the next has all of them.
LEMMA AllTheWay ==
  ASSUME NEW N \in Nat, NEW T, 0 \in T, \A n \in 0 .. N : n < N /\ n \in T => n + 1 \in T
  PROVE  \A n \in 0 .. N : n \in T
<1> DEFINE R == OpToRel(<, Nat)
           M == (0 .. N) \ T
<1>1. SUFFICES ASSUME M # {} PROVE FALSE
  OBVIOUS
<1>2. PICK x \in M : \A y \in M : <<y, x>> \notin R
  <2>1. IsWellFoundedOn(R, Nat)
    BY NatLessThanWellFounded
  <2>2. M \subseteq Nat
    OBVIOUS
  <2> QED BY <1>1, <2>1, <2>2, WFMin
<1>3. x \in 0 .. N /\ x \notin T
  BY <1>2
<1>4. x # 0 /\ x - 1 \in 0 .. N /\ x - 1 < N /\ (x - 1) + 1 = x
  BY <1>3
<1>5. x - 1 \notin M
  <2>1. x - 1 \in Nat /\ x \in Nat /\ x - 1 < x
    BY <1>3, <1>4
  <2> QED BY <1>2, <2>1 DEF OpToRel
<1>6. x - 1 \in T
  BY <1>4, <1>5
<1> QED BY <1>3, <1>4, <1>6

\* One step of the recursion, and a function that has taken the first n.
Step(s, gone, g, n) ==
  IF n = 0 THEN <<>>
  ELSE IF s[n] \in gone THEN g[n - 1] ELSE Append(g[n - 1], s[n])
Steps(s, gone, g, n) == g = [i \in 0 .. n |-> Step(s, gone, g, i)]

LEMMA StepsExist ==
  ASSUME NEW s, NEW gone, NEW N \in Nat
  PROVE  \E g : Steps(s, gone, g, N)
<1> DEFINE T == {n \in 0 .. N : \E g : Steps(s, gone, g, n)}
<1>1. 0 \in T
  <2> DEFINE g == [i \in 0 .. 0 |-> <<>>]
  <2>1. \A i \in 0 .. 0 : Step(s, gone, g, i) = <<>>
    BY DEF Step
  <2>2. g = [i \in 0 .. 0 |-> Step(s, gone, g, i)]
    BY <2>1
  <2>3. Steps(s, gone, g, 0)
    BY <2>2 DEF Steps
  <2> HIDE DEF g
  <2> QED BY <2>3
<1>2. ASSUME NEW n \in 0 .. N, n < N, n \in T PROVE n + 1 \in T
  <2>1. PICK g : Steps(s, gone, g, n)
    BY <1>2
  <2>2. g = [i \in 0 .. n |-> Step(s, gone, g, i)]
    BY <2>1 DEF Steps
  <2>3. \A i \in 0 .. n : g[i] = Step(s, gone, g, i)
    BY <2>2
  <2> DEFINE h == [i \in 0 .. n + 1 |-> IF i <= n THEN g[i] ELSE Step(s, gone, g, n + 1)]
  <2>4. /\ \A i \in 0 .. n : h[i] = g[i]
        /\ h[n + 1] = Step(s, gone, g, n + 1)
    OBVIOUS
  <2>5. ASSUME NEW i \in 0 .. n + 1 PROVE h[i] = Step(s, gone, h, i)
    <3> HIDE DEF h
    <3>1. h[i] = Step(s, gone, g, i)
      BY <2>3, <2>4
    <3>2. i = 0 \/ (i - 1 \in 0 .. n /\ h[i - 1] = g[i - 1])
      BY <2>4
    <3>3. Step(s, gone, g, i) = Step(s, gone, h, i)
      BY <3>2 DEF Step
    <3> QED BY <3>1, <3>3
  <2>6. h = [i \in 0 .. n + 1 |-> h[i]]
    OBVIOUS
  <2> HIDE DEF h
  <2>7. [i \in 0 .. n + 1 |-> h[i]] = [i \in 0 .. n + 1 |-> Step(s, gone, h, i)]
    BY <2>5
  <2>8. Steps(s, gone, h, n + 1)
    BY <2>6, <2>7 DEF Steps
  <2>9. n + 1 \in 0 .. N
    BY <1>2
  <2> QED BY <2>8, <2>9
<1>3. \A n \in 0 .. N : n \in T
  <2> HIDE DEF T
  <2> QED BY <1>1, <1>2, AllTheWay
<1>4. N \in T
  BY <1>3
<1> QED BY <1>4

\* What is left of a signal is what is not gone.
LEMMA WithoutIs ==
  ASSUME NEW S, NEW s \in Seq(S), NEW gone
  PROVE  /\ Without(s, gone) \in Seq(S)
         /\ ToSet(Without(s, gone)) = ToSet(s) \ gone
<1>1. Len(s) \in Nat /\ DOMAIN s = 1 .. Len(s) /\ \A i \in 1 .. Len(s) : s[i] \in S
  BY LenProperties, ElementOfSeq
<1>2. PICK f : Steps(s, gone, f, Len(s)) /\ Without(s, gone) = f[Len(s)]
  <2>1. PICK f : f = CHOOSE g : Steps(s, gone, g, Len(s))
    OBVIOUS
  <2>2. Steps(s, gone, f, Len(s))
    BY <1>1, <2>1, StepsExist
  <2>3. Without(s, gone) = f[Len(s)]
    BY <2>1 DEF Without, Steps, Step
  <2> QED BY <2>2, <2>3
<1>3. f = [i \in 0 .. Len(s) |-> Step(s, gone, f, i)]
  BY <1>2 DEF Steps
<1>4. \A n \in 0 .. Len(s) : f[n] = Step(s, gone, f, n)
  BY <1>3
<1>5. /\ f[0] = <<>>
      /\ \A n \in 1 .. Len(s) : f[n] = IF s[n] \in gone THEN f[n - 1] ELSE Append(f[n - 1], s[n])
  <2>1. 0 \in 0 .. Len(s)
    BY <1>1
  <2> QED BY <1>1, <1>4, <2>1 DEF Step
<1> DEFINE Taken(n) == {s[i] : i \in 1 .. n} \ gone
           U == {n \in 0 .. Len(s) : f[n] \in Seq(S) /\ ToSet(f[n]) = Taken(n)}
<1>6. 0 \in U
  <2>1. ToSet(<<>>) = {} /\ <<>> \in Seq(S)
    BY EmptySeq DEF ToSet
  <2>2. Taken(0) = {}
    OBVIOUS
  <2>3. 0 \in 0 .. Len(s)
    BY <1>1
  <2> HIDE DEF Taken
  <2> QED BY <1>5, <2>1, <2>2, <2>3
<1>7. ASSUME NEW n \in 0 .. Len(s), n < Len(s), n \in U PROVE n + 1 \in U
  <2>1. n + 1 \in 1 .. Len(s) /\ n + 1 \in 0 .. Len(s) /\ (n + 1) - 1 = n
    BY <1>1, <1>7
  <2>2. f[n + 1] = IF s[n + 1] \in gone THEN f[n] ELSE Append(f[n], s[n + 1])
    BY <1>5, <2>1
  <2>3. Taken(n + 1) = IF s[n + 1] \in gone THEN Taken(n) ELSE Taken(n) \cup {s[n + 1]}
    <3>1. 1 .. n + 1 = (1 .. n) \cup {n + 1}
      OBVIOUS
    <3> QED BY <3>1
  <2>4. f[n] \in Seq(S) /\ ToSet(f[n]) = Taken(n) /\ s[n + 1] \in S
    BY <1>1, <1>7, <2>1
  <2> HIDE DEF Taken
  <2>5. f[n + 1] \in Seq(S) /\ ToSet(f[n + 1]) = Taken(n + 1)
    <3>1. CASE s[n + 1] \in gone
      BY <2>2, <2>3, <2>4, <3>1
    <3>2. CASE s[n + 1] \notin gone
      <4>1. Append(f[n], s[n + 1]) \in Seq(S)
        BY <2>4, AppendProperties
      <4>2. ToSet(Append(f[n], s[n + 1])) = ToSet(f[n]) \cup {s[n + 1]}
        BY <2>4, ToSetAppend
      <4> QED BY <2>2, <2>3, <2>4, <3>2, <4>1, <4>2
    <3> QED BY <3>1, <3>2
  <2> QED BY <2>1, <2>5
<1>8. Len(s) \in U
  <2>1. \A n \in 0 .. Len(s) : n \in U
    <3> HIDE DEF U
    <3> QED BY <1>1, <1>6, <1>7, AllTheWay
  <2>2. Len(s) \in 0 .. Len(s)
    BY <1>1
  <2> HIDE DEF U
  <2> QED BY <2>1, <2>2
<1>9. Taken(Len(s)) = ToSet(s) \ gone
  BY <1>1 DEF ToSet
<1> QED BY <1>2, <1>8, <1>9

-----------------------------------------------------------------------------
(***************************************************************************)
(* The inductive invariant.                                                *)
(***************************************************************************)
\* A set() in progress: by a source that is watched, with slots of its key's signal.
CallInv ==
  /\ setter = None => todo = <<>>
  /\ setter # None => setter \in watched
  /\ ToSet(todo) \subseteq ToSet(slots[key])

LiveInv == \A k \in Key : ToSet(slots[k]) \subseteq watched

\* A device was told the latest value or will be, before set() returns; what is watched and
\* not registered was told nothing.
BeingTold(d, k) == setter # None /\ key = k /\ d \in ToSet(todo)
ToldInv ==
  /\ \A k \in Key \ cutShort : \A d \in ToSet(slots[k]) \ broken :
       BeingTold(d, k) \/ heard[d][k] \in {Unset, data[k]}
  /\ \A k \in Key : \A d \in (watched \cap Device) \ ToSet(slots[k]) : heard[d][k] = Unset

IInv == TypeOK /\ CallInv /\ LiveInv /\ ToldInv

LEMMA TypesAre ==
  ASSUME TypeOK
  PROVE  /\ None \notin Source /\ Device \subseteq Source /\ Unset \notin Value
         /\ key \in Key /\ todo \in Seq(Device) /\ ToSet(todo) \subseteq Device
         /\ \A k \in Key : slots[k] \in Seq(Device) /\ ToSet(slots[k]) \subseteq Device
<1>1. key \in Key /\ todo \in Seq(Device) /\ \A k \in Key : slots[k] \in Seq(Device)
  BY DEF TypeOK
<1>2. \A q \in Seq(Device) : ToSet(q) \subseteq Device
  <2> SUFFICES ASSUME NEW q \in Seq(Device), NEW i \in DOMAIN q PROVE q[i] \in Device
    BY DEF ToSet
  <2> QED BY LenProperties, ElementOfSeq
<1> QED BY <1>1, <1>2, NoneAssumption, UnsetAssumption DEF Source

\* What is left of a queue of slots after the first one was called.
LEMMA TodoIs ==
  ASSUME TypeOK, todo # <<>>
  PROVE  /\ Head(todo) \in Device /\ Tail(todo) \in Seq(Device)
         /\ ToSet(todo) = {Head(todo)} \cup ToSet(Tail(todo))
<1>1. todo \in Seq(Device)
  BY DEF TypeOK
<1>2. /\ Head(todo) \in Device /\ Tail(todo) \in Seq(Device)
      /\ todo = <<Head(todo)>> \o Tail(todo)
  BY <1>1, HeadTailProperties
<1>3. <<Head(todo)>> \in Seq(Device) /\ ToSet(<<Head(todo)>>) = {Head(todo)}
  BY <1>2 DEF ToSet
<1>4. PICK q \in Seq(Device) : ToSet(q) = {Head(todo)} /\ todo = q \o Tail(todo)
  BY ONLY <1>2, <1>3, Zenon
<1>5. ToSet(q \o Tail(todo)) = ToSet(q) \cup ToSet(Tail(todo))
  <2>1. ASSUME NEW r \in Seq(Device), NEW t \in Seq(Device)
        PROVE  ToSet(r \o t) = ToSet(r) \cup ToSet(t)
    BY ToSetConcat
  <2> QED BY <1>2, <2>1
<1> QED BY <1>2, <1>4, <1>5

LEMMA NothingIs == ToSet(<<>>) = {}
BY DEF ToSet

LEMMA InitHolds == Init => IInv
<1> SUFFICES ASSUME Init PROVE IInv
  OBVIOUS
<1>1. /\ data = [k \in Key |-> Unset] /\ slots = [k \in Key |-> <<>>]
      /\ signalOnTouch \in SUBSET Key /\ watched = Source /\ leaving = {} /\ broken = {}
      /\ setter = None /\ key \in Key /\ todo = <<>> /\ cutShort = {}
      /\ heard = [d \in Device |-> [k \in Key |-> Unset]]
  BY DEF Init
<1>2. TypeOK
  <2>1. <<>> \in Seq(Device)
    BY EmptySeq
  <2> QED BY <1>1, <2>1 DEF TypeOK
<1>3. CallInv /\ LiveInv /\ ToldInv
  BY <1>1, NothingIs DEF CallInv, LiveInv, ToldInv
<1> QED BY <1>2, <1>3 DEF IInv

LEMMA SetHolds ==
  ASSUME IInv, NEW s \in Source, NEW k \in Key, NEW v \in Value, set(s, k, v)
  PROVE  IInv'
<1>1. /\ setter = None /\ s \in watched
      /\ data' = [data EXCEPT ![k] = v]
      /\ UNCHANGED <<slots, signalOnTouch, watched, leaving, broken, heard>>
  BY DEF set, Handles, sourceVars
<1>2. \/ setter' = s /\ key' = k /\ todo' = slots[k] /\ cutShort' = cutShort \ {k}
      \/ data[k] = v /\ UNCHANGED <<setter, key, todo, cutShort>>
  BY DEF set, Signals, callVars
<1>3. data' \in [Key -> Value \cup {Unset}] /\ \A q \in Key : q # k => data'[q] = data[q]
  BY <1>1 DEF IInv, TypeOK
<1>4. s # None /\ todo = <<>>
  BY <1>1, TypesAre DEF IInv, CallInv
<1>5. TypeOK'
  BY <1>1, <1>2, <1>3, TypesAre DEF IInv, TypeOK
<1>6. CallInv' /\ LiveInv'
  BY <1>1, <1>2, <1>4, NothingIs DEF IInv, CallInv, LiveInv
<1>7. ToldInv'
  <2>1. \A q \in Key : \A d \in (watched \cap Device) \ ToSet(slots[q]) : heard[d][q] = Unset
    BY DEF IInv, ToldInv
  <2>2. ASSUME NEW q \in Key \ cutShort', NEW d \in ToSet(slots[q]) \ broken
        PROVE  BeingTold(d, q)' \/ heard[d][q] \in {Unset, data'[q]}
    <3>1. ~BeingTold(d, q)
      BY <1>1 DEF BeingTold
    <3>2. q \notin cutShort => heard[d][q] \in {Unset, data[q]}
      BY <2>2, <3>1 DEF IInv, ToldInv
    <3>3. CASE setter' = s /\ key' = k /\ todo' = slots[k] /\ cutShort' = cutShort \ {k}
      <4>1. CASE q = k
        BY <1>4, <3>3, <4>1 DEF BeingTold
      <4>2. CASE q # k
        BY <1>3, <3>2, <3>3, <4>2
      <4> QED BY <4>1, <4>2
    <3>4. CASE data[k] = v /\ UNCHANGED <<setter, key, todo, cutShort>>
      <4>1. data'[q] = data[q]
        BY <1>1, <3>4 DEF IInv, TypeOK
      <4> QED BY <3>2, <3>4, <4>1
    <3> QED BY <1>2, <3>3, <3>4
  <2> QED BY <1>1, <2>1, <2>2 DEF ToldInv
<1> QED BY <1>5, <1>6, <1>7 DEF IInv

LEMMA RegisterHolds ==
  ASSUME IInv, NEW d \in Device, NEW k \in Key, registerSlot(d, k)
  PROVE  IInv'
<1>1. /\ setter = None /\ d \in watched
      /\ slots' = [slots EXCEPT ![k] = Append(@, d)]
      /\ UNCHANGED <<data, signalOnTouch, watched, leaving, broken, setter, key, todo, heard, cutShort>>
  BY DEF registerSlot, Handles, sourceVars, callVars, historyVars
<1>2. /\ Append(slots[k], d) \in Seq(Device)
      /\ ToSet(Append(slots[k], d)) = ToSet(slots[k]) \cup {d}
  <2>1. slots[k] \in Seq(Device)
    BY TypesAre DEF IInv
  <2> QED BY <2>1, AppendProperties, ToSetAppend
<1>3. /\ slots' \in [Key -> Seq(Device)]
      /\ slots'[k] = Append(slots[k], d)
      /\ \A q \in Key : q # k => slots'[q] = slots[q]
  BY <1>1, <1>2 DEF IInv, TypeOK
<1>4. TypeOK'
  BY <1>1, <1>3 DEF IInv, TypeOK
<1>5. CallInv'
  BY <1>1, NothingIs DEF IInv, CallInv
<1>6. LiveInv'
  BY <1>1, <1>2, <1>3 DEF IInv, LiveInv
<1>7. ToldInv'
  <2>1. ASSUME NEW q \in Key \ cutShort, NEW e \in ToSet(slots'[q]) \ broken
        PROVE  heard[e][q] \in {Unset, data[q]}
    <3>1. CASE e \in ToSet(slots[q])
      BY <1>1, <2>1, <3>1 DEF IInv, ToldInv, BeingTold
    <3>2. CASE e \notin ToSet(slots[q])
      <4>1. e = d
        BY <1>2, <1>3, <2>1, <3>2
      <4> QED BY <1>1, <2>1, <3>2, <4>1 DEF IInv, ToldInv
    <3> QED BY <3>1, <3>2
  <2>2. \A q \in Key : \A e \in (watched \cap Device) \ ToSet(slots'[q]) : heard[e][q] = Unset
    BY <1>2, <1>3 DEF IInv, ToldInv
  <2> QED BY <1>1, <2>1, <2>2 DEF ToldInv
<1> QED BY <1>4, <1>5, <1>6, <1>7 DEF IInv

\* Steps that only say who leaves, or break a line.
LEMMA LeaveHolds ==
  ASSUME IInv, NEW s \in Source, Refuse(s) \/ (s \in Device /\ (Hangup(s) \/ Unplug(s)))
  PROVE  IInv'
<1>1. /\ UNCHANGED <<data, slots, signalOnTouch, watched, setter, key, todo, heard, cutShort>>
      /\ leaving' \subseteq watched /\ broken \subseteq broken' /\ broken' \subseteq Device
  BY DEF Refuse, Hangup, Unplug, Handles, callVars, historyVars, IInv, TypeOK
<1>2. TypeOK'
  BY <1>1 DEF IInv, TypeOK
<1>3. CallInv' /\ LiveInv' /\ ToldInv'
  BY <1>1 DEF IInv, CallInv, LiveInv, ToldInv, BeingTold
<1> QED BY <1>2, <1>3 DEF IInv

LEMMA SendHolds == IInv /\ sendSubstate => IInv'
<1> SUFFICES ASSUME IInv, sendSubstate PROVE IInv'
  OBVIOUS
<1> DEFINE d == Head(todo)
<1>1. /\ setter # None /\ todo # <<>>
      /\ heard' = [heard EXCEPT ![d][key] = data[key]]
      /\ todo' = Tail(todo)
      /\ UNCHANGED <<data, slots, signalOnTouch, watched, leaving, broken, setter, key, cutShort>>
  BY DEF sendSubstate, sourceVars
<1>2. /\ d \in Device /\ todo' \in Seq(Device)
      /\ ToSet(todo) = {d} \cup ToSet(todo')
  BY <1>1, TodoIs DEF IInv
<1>3. key \in Key /\ data[key] \in Value \cup {Unset}
  BY DEF IInv, TypeOK
<1> HIDE DEF d
<1>4. /\ heard' \in [Device -> [Key -> Value \cup {Unset}]]
      /\ heard'[d][key] = data[key]
      /\ \A e \in Device, k \in Key : e # d \/ k # key => heard'[e][k] = heard[e][k]
  BY <1>1, <1>2, <1>3 DEF IInv, TypeOK
<1>5. TypeOK'
  BY <1>1, <1>2, <1>4 DEF IInv, TypeOK
<1>6. CallInv' /\ LiveInv'
  BY <1>1, <1>2 DEF IInv, CallInv, LiveInv
<1>7. ToldInv'
  <2>1. ASSUME NEW k \in Key \ cutShort, NEW e \in ToSet(slots[k]) \ broken
        PROVE  BeingTold(e, k)' \/ heard'[e][k] \in {Unset, data[k]}
    <3>1. e \in Device
      BY <2>1, TypesAre DEF IInv
    <3>2. CASE e = d /\ k = key
      BY <1>4, <3>2
    <3>3. CASE e # d \/ k # key
      <4>1. BeingTold(e, k) => BeingTold(e, k)'
        BY <1>1, <1>2, <3>3 DEF BeingTold
      <4>2. BeingTold(e, k) \/ heard[e][k] \in {Unset, data[k]}
        BY <2>1 DEF IInv, ToldInv
      <4> QED BY <1>4, <3>1, <3>3, <4>1, <4>2
    <3> QED BY <3>2, <3>3
  <2>2. ASSUME NEW k \in Key, NEW e \in (watched \cap Device) \ ToSet(slots[k])
        PROVE  heard'[e][k] = Unset
    <3>1. e # d \/ k # key
      BY <1>2, <2>2 DEF IInv, CallInv
    <3> QED BY <1>4, <2>2, <3>1 DEF IInv, ToldInv
  <2> QED BY <1>1, <2>1, <2>2 DEF ToldInv
<1> QED BY <1>5, <1>6, <1>7 DEF IInv

LEMMA ThrowHolds == IInv /\ sendThrows => IInv'
<1> SUFFICES ASSUME IInv, sendThrows PROVE IInv'
  OBVIOUS
<1>1. /\ setter # None /\ leaving' = leaving \cup {setter}
      /\ setter' = None /\ todo' = <<>> /\ cutShort' = cutShort \cup {key}
      /\ UNCHANGED <<data, slots, signalOnTouch, watched, broken, key, heard>>
  BY DEF sendThrows
<1>2. TypeOK'
  <2>1. <<>> \in Seq(Device) /\ key \in Key /\ setter \in watched
    BY <1>1, EmptySeq DEF IInv, TypeOK, CallInv
  <2> QED BY <1>1, <2>1 DEF IInv, TypeOK
<1>3. CallInv' /\ LiveInv'
  BY <1>1, NothingIs DEF IInv, CallInv, LiveInv
<1>4. ToldInv'
  BY <1>1 DEF IInv, ToldInv, BeingTold
<1> QED BY <1>2, <1>3, <1>4 DEF IInv

LEMMA ReturnHolds == IInv /\ setReturns => IInv'
<1> SUFFICES ASSUME IInv, setReturns PROVE IInv'
  OBVIOUS
<1>1. /\ todo = <<>> /\ setter' = None
      /\ UNCHANGED <<data, slots, signalOnTouch, watched, leaving, broken, key, todo, heard, cutShort>>
  BY DEF setReturns, sourceVars, historyVars
<1>2. TypeOK'
  BY <1>1 DEF IInv, TypeOK
<1>3. CallInv' /\ LiveInv'
  BY <1>1, NothingIs DEF IInv, CallInv, LiveInv
<1>4. ToldInv'
  BY <1>1, NothingIs DEF IInv, ToldInv, BeingTold
<1> QED BY <1>2, <1>3, <1>4 DEF IInv

\* Who leaves takes the slots along.
LEMMA EraseHolds == IInv /\ Erase => IInv'
<1> SUFFICES ASSUME IInv, Erase PROVE IInv'
  OBVIOUS
<1>1. /\ setter = None /\ watched' = watched \ leaving /\ leaving' = {}
      /\ slots' = [k \in Key |-> Without(slots[k], leaving)]
      /\ UNCHANGED <<data, signalOnTouch, broken, setter, key, todo, heard, cutShort>>
  BY DEF Erase, callVars, historyVars
<1>2. \A k \in Key : slots'[k] \in Seq(Device) /\ ToSet(slots'[k]) = ToSet(slots[k]) \ leaving
  <2> SUFFICES ASSUME NEW k \in Key
               PROVE  slots'[k] \in Seq(Device) /\ ToSet(slots'[k]) = ToSet(slots[k]) \ leaving
    OBVIOUS
  <2>1. slots[k] \in Seq(Device)
    BY TypesAre DEF IInv
  <2>2. slots'[k] = Without(slots[k], leaving)
    BY <1>1
  <2> QED BY <2>1, <2>2, WithoutIs
<1>3. TypeOK'
  <2>1. slots' \in [Key -> Seq(Device)]
    BY <1>1, <1>2
  <2> QED BY <1>1, <2>1 DEF IInv, TypeOK
<1>4. CallInv' /\ LiveInv'
  BY <1>1, <1>2, NothingIs DEF IInv, CallInv, LiveInv
<1>5. ToldInv'
  BY <1>1, <1>2, SMTT(30) DEF IInv, ToldInv, BeingTold
<1> QED BY <1>3, <1>4, <1>5 DEF IInv

\* A new object has registered nowhere and was told nothing.
LEMMA ConnectHolds ==
  ASSUME IInv, NEW s \in Source, Connect(s)
  PROVE  IInv'
<1>1. /\ setter = None /\ s \notin watched /\ watched' = watched \cup {s} /\ broken' = broken \ {s}
      /\ heard' = [d \in Device |-> IF d = s THEN [k \in Key |-> Unset] ELSE heard[d]]
      /\ UNCHANGED <<data, slots, signalOnTouch, leaving, setter, key, todo, cutShort>>
  BY DEF Connect, callVars
<1>2. /\ heard' \in [Device -> [Key -> Value \cup {Unset}]]
      /\ \A d \in Device, k \in Key : heard'[d][k] = IF d = s THEN Unset ELSE heard[d][k]
  BY <1>1 DEF IInv, TypeOK
<1>3. TypeOK'
  BY <1>1, <1>2 DEF IInv, TypeOK
<1>4. CallInv' /\ LiveInv'
  BY <1>1 DEF IInv, CallInv, LiveInv
<1>5. ToldInv'
  <2>1. ASSUME NEW k \in Key \ cutShort, NEW d \in ToSet(slots[k]) \ broken'
        PROVE  heard'[d][k] \in {Unset, data[k]}
    <3>1. d \in Device /\ d # s
      BY <1>1, <2>1, TypesAre DEF IInv, LiveInv
    <3> QED BY <1>1, <1>2, <2>1, <3>1 DEF IInv, ToldInv, BeingTold
  <2>2. ASSUME NEW k \in Key, NEW d \in (watched' \cap Device) \ ToSet(slots[k])
        PROVE  heard'[d][k] = Unset
    BY <1>1, <1>2, <2>2 DEF IInv, ToldInv
  <2> QED BY <1>1, <2>1, <2>2 DEF ToldInv
<1> QED BY <1>3, <1>4, <1>5 DEF IInv

LEMMA NextHolds == IInv /\ [Next]_vars => IInv'
<1> SUFFICES ASSUME IInv, [Next]_vars PROVE IInv'
  OBVIOUS
<1>1. CASE \E s \in Source, k \in Key, v \in Value : set(s, k, v)
  BY <1>1, SetHolds
<1>2. CASE \E d \in Device, k \in Key : registerSlot(d, k)
  BY <1>2, RegisterHolds
<1>3. CASE \E s \in Source : Refuse(s) \/ Connect(s)
  BY <1>3, LeaveHolds, ConnectHolds
<1>4. CASE \E d \in Device : Hangup(d) \/ Unplug(d)
  BY <1>4, LeaveHolds DEF Source
<1>5. CASE InSet
  BY <1>5, SendHolds, ThrowHolds, ReturnHolds DEF InSet
<1>6. CASE Erase
  BY <1>6, EraseHolds
<1>7. CASE UNCHANGED vars
  <2>1. UNCHANGED <<data, slots, signalOnTouch, watched, leaving, broken, setter, key, todo, heard, cutShort>>
    BY <1>7 DEF vars, sourceVars, callVars, historyVars
  <2> QED BY <2>1 DEF IInv, TypeOK, CallInv, LiveInv, ToldInv, BeingTold
<1> QED BY <1>1, <1>2, <1>3, <1>4, <1>5, <1>6, <1>7 DEF Next

-----------------------------------------------------------------------------
(***************************************************************************)
(* The invariant holds whatever is set, registered, thrown, unplugged and  *)
(* destroyed (State.cpp:33-50, StateDevice.cpp:32-90).                     *)
(***************************************************************************)
THEOREM Inductive == Safety => []IInv
<1>1. Init => IInv
  BY InitHolds
<1>2. IInv /\ [Next]_vars => IInv'
  BY NextHolds
<1> QED BY <1>1, <1>2, PTL DEF Safety

(***************************************************************************)
(* The state's and the listeners' variables keep their types.              *)
(***************************************************************************)
THEOREM TypeCorrect == Safety => []TypeOK
<1>1. IInv => TypeOK
  BY DEF IInv
<1> QED BY <1>1, Inductive, PTL

(***************************************************************************)
(* No signal ever calls a slot of a destroyed device, although handlers go *)
(* on after their device failed (SlotsAreLive: State.h:187-202,            *)
(* EventLoop.cpp:56-63).                                                   *)
(***************************************************************************)
THEOREM SlotsStayLive == Safety => []SlotsAreLive
<1>1. IInv => SlotsAreLive
  <2> SUFFICES ASSUME IInv PROVE SlotsAreLive
    OBVIOUS
  <2>1. ToSet(todo) \subseteq watched
    BY TypesAre DEF IInv, CallInv, LiveInv
  <2> QED BY <2>1 DEF IInv, LiveInv, SlotsAreLive
<1> QED BY <1>1, Inductive, PTL

(***************************************************************************)
(* Between two sets, every registered device that works knows the latest   *)
(* value or has been told nothing yet, unless an exception cut the signal  *)
(* short (UpdatedUnlessCutShort: globals.h:130-133, State.cpp:42-50).      *)
(***************************************************************************)
THEOREM ListenersUpdated == Safety => []UpdatedUnlessCutShort
<1>1. IInv => UpdatedUnlessCutShort
  BY DEF IInv, ToldInv, BeingTold, UpdatedUnlessCutShort
<1> QED BY <1>1, Inductive, PTL
=============================================================================
