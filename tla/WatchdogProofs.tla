--------------------------- MODULE WatchdogProofs ---------------------------
(***************************************************************************)
(* Theorems about the library's two watchdogs: the polled one and the      *)
(* interval slots it lives on, for every resolution of the clock, every    *)
(* timeout and every bound; and Watchdog2 with its Timer.                  *)
(***************************************************************************)
EXTENDS Watchdog, Watchdog2, TLAPS

(***************************************************************************)
(* Arithmetic.  Elapsed is ElapsedMs with the clock as a parameter.        *)
(***************************************************************************)
Elapsed(p, age) ==
  LET nsec == (p - age) % Second
      sec  == (age + nsec - p) \div Second
  IN  sec * MsPerSec + CDiv(p - nsec, NsPerMs)

LEMMA ElapsedIs == \A age : ElapsedMs(age) = Elapsed(phase, age)
BY DEF ElapsedMs, Elapsed

\* What the two divisions come to determines the result.
LEMMA ElapsedAs ==
  ASSUME NEW p, NEW age, NEW n, NEW j,
         (p - age) % Second = n, (age + n - p) \div Second = j
  PROVE  Elapsed(p, age) = j * MsPerSec + CDiv(p - n, NsPerMs)
BY DEF Elapsed

LEMMA SecondIsPositive == Second \in Nat \ {0} /\ Second = NsPerMs * MsPerSec
BY ClockAssumption DEF Second

\* Quotient and remainder are determined by what they add up to.
LEMMA Divided ==
  ASSUME NEW a \in Int, NEW b \in Nat \ {0}
  PROVE  /\ a \div b \in Int /\ a % b \in 0 .. (b - 1)
         /\ a = b * (a \div b) + (a % b)
OBVIOUS

LEMMA DividedIs ==
  ASSUME NEW b \in Nat \ {0}, NEW q \in Int, NEW r \in 0 .. (b - 1), NEW a \in Int, a = b * q + r
  PROVE  a \div b = q /\ a % b = r
OBVIOUS

\* Truncation loses less than a divisor, either way, and is monotone.
LEMMA Truncated ==
  ASSUME NEW a \in Int, NEW b \in Nat \ {0}
  PROVE  /\ CDiv(a, b) \in Int
         /\ CDiv(a, b) * b < a + b /\ a < CDiv(a, b) * b + b
<1>1. CASE a >= 0
  BY <1>1, Divided DEF CDiv
<1>2. CASE ~(a >= 0)
  <2>1. /\ -a \in Int /\ (-a) \div b \in Int
        /\ b * ((-a) \div b) <= -a /\ -a < b * ((-a) \div b) + b
    BY Divided
  <2>2. CDiv(a, b) = -((-a) \div b)
    BY <1>2 DEF CDiv
  <2> HIDE DEF CDiv
  <2> QED BY <2>1, <2>2
<1> QED BY <1>1, <1>2

LEMMA TruncationGrows ==
  ASSUME NEW a \in Int, NEW b \in Nat \ {0}
  PROVE  CDiv(a + 1, b) >= CDiv(a, b)
<1>1. CASE a >= 0
  <2>1. CDiv(a, b) = a \div b /\ CDiv(a + 1, b) = (a + 1) \div b
    BY <1>1 DEF CDiv
  <2>2. (a + 1) \div b >= a \div b
    BY <1>1
  <2> QED BY <2>1, <2>2
<1>2. CASE a = -1
  <2>1. CDiv(0, b) = 0
    BY DEF CDiv
  <2>2. CDiv(-1, b) = -(1 \div b) /\ 1 \div b \in Nat
    BY DEF CDiv
  <2> QED BY <1>2, <2>1, <2>2
<1>3. CASE a < -1
  <2>1. CDiv(a, b) = -((-a) \div b) /\ CDiv(a + 1, b) = -((-(a + 1)) \div b)
    BY <1>3 DEF CDiv
  <2>2. /\ (-a) \div b >= (-(a + 1)) \div b
        /\ (-a) \div b \in Int /\ (-(a + 1)) \div b \in Int
    BY <1>3
  <2> QED BY <2>1, <2>2
<1> QED BY <1>1, <1>2, <1>3

\* The milliseconds computed are less than one off, either way.
LEMMA ElapsedBounds ==
  ASSUME NEW p \in 0 .. (Second - 1), NEW age \in Nat
  PROVE  /\ Elapsed(p, age) \in Int
         /\ (Elapsed(p, age) - 1) * NsPerMs < age
         /\ age < (Elapsed(p, age) + 1) * NsPerMs
<1> DEFINE nsec == (p - age) % Second
           k == (p - age) \div Second
           sec == (age + nsec - p) \div Second
           d == p - nsec
           q == CDiv(d, NsPerMs)
<1>1. p \in Int /\ p - age \in Int
  BY SecondIsPositive
<1>2. /\ nsec \in 0 .. (Second - 1) /\ k \in Int
      /\ p - age = Second * k + nsec
  BY <1>1, SecondIsPositive, Divided
<1>3. sec = -k
  <2> HIDE DEF nsec, k
  <2>1. age + nsec - p = Second * (-k) + 0 /\ -k \in Int /\ age + nsec - p \in Int
    BY <1>1, <1>2, SecondIsPositive
  <2> QED BY <2>1, SecondIsPositive, DividedIs
<1>4. d \in Int
  BY <1>1, <1>2, SecondIsPositive
<1>5. q \in Int /\ q * NsPerMs < d + NsPerMs /\ d < q * NsPerMs + NsPerMs
  <2> HIDE DEF d
  <2> QED BY <1>4, ClockAssumption, Truncated
<1>6. Elapsed(p, age) = sec * MsPerSec + q
  BY DEF Elapsed
<1>7. sec * Second = age - d /\ sec \in Int
  <2> HIDE DEF nsec, k, sec
  <2> QED BY <1>1, <1>2, <1>3, SecondIsPositive
<1> HIDE DEF nsec, k, sec, d, q
<1>8. Elapsed(p, age) * NsPerMs = age - d + q * NsPerMs /\ Elapsed(p, age) \in Int
  <2>1. (sec * MsPerSec + q) * NsPerMs = sec * (NsPerMs * MsPerSec) + q * NsPerMs
    BY <1>5, <1>7, ClockAssumption
  <2>2. sec * MsPerSec + q \in Int
    BY <1>5, <1>7, ClockAssumption
  <2> QED BY <2>1, <2>2, <1>6, <1>7, SecondIsPositive
<1>9. /\ (Elapsed(p, age) - 1) * NsPerMs = Elapsed(p, age) * NsPerMs - NsPerMs
      /\ (Elapsed(p, age) + 1) * NsPerMs = Elapsed(p, age) * NsPerMs + NsPerMs
  BY <1>8, ClockAssumption
<1> QED BY <1>4, <1>5, <1>8, <1>9, ClockAssumption

\* A tick later the same timespec is not found to be younger.
LEMMA ElapsedGrows ==
  ASSUME NEW p \in 0 .. (Second - 1), NEW age \in Nat
  PROVE  Elapsed((p + 1) % Second, age + 1) >= Elapsed(p, age)
<1> DEFINE nsec == (p - age) % Second
           k == (p - age) \div Second
<1>1. p \in Int /\ p - age \in Int
  BY SecondIsPositive
<1>2. /\ nsec \in 0 .. (Second - 1) /\ k \in Int
      /\ p - age = Second * k + nsec
  BY <1>1, SecondIsPositive, Divided
<1> HIDE DEF nsec, k
<1>3. Elapsed(p, age) = (-k) * MsPerSec + CDiv(p - nsec, NsPerMs)
  <2>1. age + nsec - p = Second * (-k) + 0 /\ -k \in Int /\ age + nsec - p \in Int
    BY <1>1, <1>2, SecondIsPositive
  <2>2. (age + nsec - p) \div Second = -k
    BY <2>1, SecondIsPositive, DividedIs
  <2> QED BY <2>2 DEF Elapsed, nsec
<1>4. CASE p + 1 < Second
  <2>1. (p + 1) % Second = p + 1
    BY <1>4, SecondIsPositive
  <2>2. (p + 1) - (age + 1) = p - age
    BY <1>1
  <2>3. (age + 1) + nsec - (p + 1) = age + nsec - p
    BY <1>1, <1>2
  <2>4. Elapsed(p + 1, age + 1) = (-k) * MsPerSec + CDiv((p + 1) - nsec, NsPerMs)
    <3>1. age + nsec - p = Second * (-k) + 0 /\ -k \in Int /\ age + nsec - p \in Int
      BY <1>1, <1>2, SecondIsPositive
    <3>2. (age + nsec - p) \div Second = -k
      BY <3>1, SecondIsPositive, DividedIs
    <3>3. PICK p1 \in Int, age1 \in Int : p1 = p + 1 /\ age1 = age + 1
      BY <1>1
    <3>4. (p1 - age1) % Second = nsec
      BY <2>2, <3>3 DEF nsec
    <3>5. (age1 + nsec - p1) \div Second = -k
      BY <3>2, <2>3, <3>3
    <3>6. Elapsed(p1, age1) = (-k) * MsPerSec + CDiv(p1 - nsec, NsPerMs)
      BY ONLY <3>4, <3>5, ElapsedAs
    <3> QED BY <3>3, <3>6
  <2>5. CDiv((p + 1) - nsec, NsPerMs) >= CDiv(p - nsec, NsPerMs)
    <3>1. p - nsec \in Int
      BY <1>1, <1>2, SecondIsPositive
    <3>2. (p + 1) - nsec = (p - nsec) + 1
      BY <1>1, <1>2, SecondIsPositive
    <3> QED BY <3>1, <3>2, TruncationGrows, ClockAssumption
  <2>6. /\ CDiv((p + 1) - nsec, NsPerMs) \in Int
        /\ CDiv(p - nsec, NsPerMs) \in Int
        /\ (-k) * MsPerSec \in Int
    BY <1>1, <1>2, SecondIsPositive, Truncated, ClockAssumption
  <2> QED BY ONLY <1>3, <2>1, <2>4, <2>5, <2>6
<1>5. CASE ~(p + 1 < Second)
  <2>1. p + 1 = Second /\ (p + 1) % Second = 0
    BY <1>5, SecondIsPositive
  <2>2. Elapsed(0, age + 1) = (-k + 1) * MsPerSec + CDiv(-nsec, NsPerMs)
    <3>1. (0 - (age + 1)) % Second = nsec
      <4>1. PICK j \in Int : j = k - 1
        BY <1>2
      <4>2. Second * j = Second * k - Second
        BY <1>2, <4>1, SecondIsPositive
      <4>3. PICK a \in Int : a = 0 - (age + 1)
        OBVIOUS
      <4>4. a = Second * j + nsec
        BY <1>1, <1>2, <2>1, <4>2, <4>3, SecondIsPositive
      <4>5. a % Second = nsec
        BY <4>4, <1>2, SecondIsPositive, DividedIs
      <4> QED BY <4>3, <4>5
    <3>2. ((age + 1) + nsec - 0) \div Second = -k + 1
      <4>1. PICK j \in Int : j = -k + 1
        BY <1>2
      <4>2. Second * j = Second - Second * k
        BY <1>2, <4>1, SecondIsPositive
      <4>3. PICK a \in Int : a = (age + 1) + nsec - 0
        BY <1>2, SecondIsPositive
      <4>4. a = Second * j + 0
        <5>1. PICK m \in Int : m = Second * k
          BY <1>2, SecondIsPositive
        <5>2. p - age = m + nsec /\ p + 1 = Second /\ nsec \in Int /\ p \in Int /\ age \in Int
          BY <1>1, <1>2, <2>1, <5>1, SecondIsPositive
        <5>3. a = Second - m
          BY ONLY <4>3, <5>1, <5>2
        <5> QED BY <4>2, <5>1, <5>3, SecondIsPositive
      <4>5. a \div Second = j
        BY <4>4, SecondIsPositive, DividedIs
      <4> QED BY <4>1, <4>3, <4>5
    <3>3. 0 - nsec = -nsec
      BY <1>2, SecondIsPositive
    <3> QED BY <3>1, <3>2, <3>3 DEF Elapsed
  <2> DEFINE q == CDiv(p - nsec, NsPerMs)
             r == CDiv(-nsec, NsPerMs)
  <2>3. q \in Int /\ r \in Int /\ k \in Int /\ p - nsec \in Nat /\ nsec \in Nat
    BY <1>1, <1>2, <2>1, SecondIsPositive, Truncated, ClockAssumption
  <2>4. q * NsPerMs <= p - nsec
    BY <2>3, Divided, ClockAssumption DEF CDiv
  <2>5. -nsec <= r * NsPerMs
    <3>1. CASE nsec = 0
      BY <3>1, <2>3, ClockAssumption DEF CDiv
    <3>2. CASE nsec > 0
      <4>1. r = -(nsec \div NsPerMs)
        <5>1. ~(-nsec >= 0) /\ -(-nsec) = nsec
          BY <3>2, <2>3
        <5> QED BY <5>1 DEF CDiv
      <4>2. NsPerMs * (nsec \div NsPerMs) <= nsec /\ nsec \div NsPerMs \in Int
        BY <2>3, Divided, ClockAssumption
      <4> HIDE DEF r
      <4> QED BY <4>1, <4>2, <2>3, ClockAssumption
    <3> QED BY <3>1, <3>2, <2>3
  <2> HIDE DEF q, r
  <2>6. q - r < MsPerSec
    <3>1. (q - r) * NsPerMs < NsPerMs * MsPerSec
      <4>1. (q - r) * NsPerMs = q * NsPerMs - r * NsPerMs
        BY <2>3, ClockAssumption
      <4>2. q * NsPerMs \in Int /\ r * NsPerMs \in Int
        BY <2>3, ClockAssumption
      <4> QED BY <4>1, <4>2, <2>1, <2>3, <2>4, <2>5, <1>1, SecondIsPositive
    <3> QED BY <3>1, <2>3, ClockAssumption
  <2>7. (-k + 1) * MsPerSec = (-k) * MsPerSec + MsPerSec /\ (-k) * MsPerSec \in Int
    BY <2>3, ClockAssumption
  <2>8. Elapsed(p, age) = (-k) * MsPerSec + q /\ Elapsed(0, age + 1) = (-k + 1) * MsPerSec + r
    BY <1>3, <2>2 DEF q, r
  <2> QED BY <2>1, <2>3, <2>6, <2>7, <2>8, ClockAssumption
<1> QED BY <1>4, <1>5
(***************************************************************************)
(* The inductive invariant.                                                *)
(***************************************************************************)

\* What poll() still waits never takes the interval past its time.
OnTimeInv ==
  sinceInterval # MaxAge =>
    sinceInterval + wait < (timeout + 1) * NsPerMs + busy

\* check() runs while the slots are called.
CheckInv == check # "before" => pc = "slots"

\* A silence that has been reported is still one, and is remembered.
ReportedInv ==
  reported => /\ Expired
              /\ hasTimedout \/ check = "onTimeout"

\* A check-in that hasTimedout has not noticed yet is recent: it came after
\* the last signal, but for that signal's own work.
NoticedInv ==
  /\ check = "before" /\ hasTimedout => sinceInterval # MaxAge
  /\ check = "before" /\ hasTimedout /\ ~reported =>
       sinceCheckIn <= MaxBusy + sinceInterval
  /\ (check = "onTimeout" \/ (check = "after" /\ hasTimedout)) /\ ~reported =>
       sinceCheckIn <= busy

IInv ==
  /\ TypeOK
  /\ OnTimeInv
  /\ CheckInv
  /\ ReportedInv
  /\ (IntervalIsShort => NoticedInv)


\* The milliseconds found bound the ages the code decides on.
LEMMA AgeBounds ==
  ASSUME phase \in 0 .. (Second - 1), NEW age \in Nat
  PROVE  /\ ElapsedMs(age) \in Int
         /\ (ElapsedMs(age) - 1) * NsPerMs < age
         /\ age < (ElapsedMs(age) + 1) * NsPerMs
BY ElapsedIs, ElapsedBounds

\* What is found to be at least, or less than, so many milliseconds old.
LEMMA AgeAtLeast ==
  ASSUME phase \in 0 .. (Second - 1), NEW age \in Nat, NEW ms \in Int, ElapsedMs(age) >= ms
  PROVE  age > (ms - 1) * NsPerMs
<1> DEFINE e == ElapsedMs(age)
<1>1. e \in Int /\ (e - 1) * NsPerMs < age
  BY AgeBounds
<1> HIDE DEF e
<1>2. e >= ms
  BY DEF e
<1>3. (ms - 1) * NsPerMs <= (e - 1) * NsPerMs
  <2>1. PICK a \in Int, b \in Nat : a = ms - 1 /\ e - 1 = a + b
    <3>1. e - ms \in Nat /\ ms - 1 \in Int /\ e - 1 = (ms - 1) + (e - ms)
      BY <1>1, <1>2
    <3> QED BY <3>1
  <2>2. (a + b) * NsPerMs = a * NsPerMs + b * NsPerMs /\ b * NsPerMs \in Nat /\ a * NsPerMs \in Int
    BY ClockAssumption
  <2> QED BY <2>1, <2>2
<1>4. (ms - 1) * NsPerMs \in Int /\ (e - 1) * NsPerMs \in Int
  BY <1>1, ClockAssumption
<1> QED BY <1>1, <1>3, <1>4

LEMMA AgeBelow ==
  ASSUME phase \in 0 .. (Second - 1), NEW age \in Nat, NEW ms \in Int, ElapsedMs(age) < ms
  PROVE  age < ms * NsPerMs
<1> DEFINE e == ElapsedMs(age)
<1>1. e \in Int /\ age < (e + 1) * NsPerMs
  BY AgeBounds
<1> HIDE DEF e
<1>2. e < ms
  BY DEF e
<1>3. (e + 1) * NsPerMs <= ms * NsPerMs
  <2>1. PICK a \in Int, b \in Nat : a = e + 1 /\ ms = a + b
    <3>1. ms - (e + 1) \in Nat /\ e + 1 \in Int /\ ms = (e + 1) + (ms - (e + 1))
      BY <1>1, <1>2
    <3> QED BY <3>1
  <2>2. (a + b) * NsPerMs = a * NsPerMs + b * NsPerMs /\ b * NsPerMs \in Nat /\ a * NsPerMs \in Int
    BY ClockAssumption
  <2> QED BY <2>1, <2>2
<1>4. ms * NsPerMs \in Int /\ (e + 1) * NsPerMs \in Int
  BY <1>1, ClockAssumption
<1> QED BY <1>1, <1>3, <1>4

\* A clock that ticks leaves what has expired expired.
LEMMA StaysExpired ==
  ASSUME phase \in 0 .. (Second - 1), sinceCheckIn \in 0 .. MaxAge, Expired, Time
  PROVE  Expired'
<1>1. phase' = (phase + 1) % Second /\ sinceCheckIn' = Older(sinceCheckIn)
  BY DEF Time, Tick
<1>2. phase' \in 0 .. (Second - 1)
  BY <1>1, SecondIsPositive
<1>3. MaxAge \in Nat /\ watchTimeout \in Nat
  BY AgeAssumption, WatchAssumption
<1>4. sinceCheckIn \in Nat /\ ElapsedMs(sinceCheckIn) = Elapsed(phase, sinceCheckIn)
  BY <1>3, ElapsedIs
<1>5. ElapsedMs(sinceCheckIn)' = Elapsed(phase', sinceCheckIn')
  BY DEF ElapsedMs, Elapsed
<1>6. CASE sinceCheckIn < MaxAge
  <2>1. sinceCheckIn' = sinceCheckIn + 1
    BY <1>1, <1>6 DEF Older
  <2>2. Elapsed(phase', sinceCheckIn') >= Elapsed(phase, sinceCheckIn)
    BY <1>1, <1>4, <2>1, ElapsedGrows
  <2>3. Elapsed(phase, sinceCheckIn) \in Int /\ Elapsed(phase', sinceCheckIn') \in Int
    BY <1>2, <1>4, <2>1, ElapsedBounds
  <2> QED BY <1>3, <1>4, <1>5, <2>2, <2>3 DEF Expired
<1>7. CASE ~(sinceCheckIn < MaxAge)
  <2>1. sinceCheckIn' = MaxAge
    BY <1>1, <1>3, <1>7 DEF Older
  <2> DEFINE e == Elapsed(phase', MaxAge)
  <2>2. e \in Int /\ MaxAge < (e + 1) * NsPerMs
    BY <1>2, <1>3, ElapsedBounds
  <2> HIDE DEF e
  <2>3. MaxAge > (watchTimeout + 1) * NsPerMs
    BY WatchAssumption
  <2>4. e >= watchTimeout
    <3>1. SUFFICES ASSUME e < watchTimeout PROVE FALSE
      BY <1>3, <2>2
    <3>2. PICK a \in Int, b \in Nat : a = e + 1 /\ watchTimeout + 1 = a + b
      <4>1. watchTimeout - e \in Nat /\ e + 1 \in Int /\ watchTimeout + 1 = (e + 1) + (watchTimeout - e)
        BY <1>3, <2>2, <3>1
      <4> QED BY <4>1
    <3>3. (a + b) * NsPerMs = a * NsPerMs + b * NsPerMs /\ b * NsPerMs \in Nat /\ a * NsPerMs \in Int
      BY ClockAssumption
    <3> QED BY <1>3, <2>2, <2>3, <3>2, <3>3
  <2> QED BY <1>5, <2>1, <2>4 DEF Expired, e
<1> QED BY <1>6, <1>7

(***************************************************************************)
(* The invariant is inductive.                                             *)
(***************************************************************************)
LEMMA Sizes ==
  /\ MaxAge \in Nat /\ MaxBusy \in Nat /\ timeout \in Nat \ {0} /\ watchTimeout \in Nat \ {0}
  /\ timeout * NsPerMs \in Nat
  /\ (timeout + 1) * NsPerMs = timeout * NsPerMs + NsPerMs
  /\ NsPerMs \in Nat \ {0}
  /\ MaxAge > timeout * NsPerMs + NsPerMs + MaxBusy
BY ClockAssumption, LoopAssumption, AgeAssumption, WatchAssumption

LEMMA InitHolds == Init => IInv
<1> SUFFICES ASSUME Init PROVE IInv
  OBVIOUS
<1>1. LoopTypeOK
  BY Sizes DEF Init, LoopInit, LoopTypeOK
<1>2. sinceCheckIn \in 0 .. MaxAge
  BY Sizes DEF Init
<1>3. resetsEnabled \in BOOLEAN /\ hasTimedout \in BOOLEAN /\ reported \in BOOLEAN
  BY Zenon DEF Init
<1>4. TypeOK
  BY <1>1, <1>2, <1>3 DEF Init, TypeOK
<1> QED BY <1>4 DEF Init, LoopInit, IInv, OnTimeInv, CheckInv, ReportedInv, NoticedInv

\* A poll() that starts with what is left of the interval ends on time.
LEMMA NotDueOnTime ==
  ASSUME TypeOK, IntervalNotDue
  PROVE  LoopTypeOK' /\ OnTimeInv'
<1> DEFINE e == ElapsedMs(sinceInterval)
<1>1. phase \in 0 .. (Second - 1) /\ sinceInterval \in 0 .. MaxAge
  BY DEF TypeOK, LoopTypeOK
<1>2. e \in Int /\ (e - 1) * NsPerMs < sinceInterval /\ sinceInterval < (e + 1) * NsPerMs
  BY <1>1, Sizes, AgeBounds
<1>3. e < timeout
  BY DEF IntervalNotDue
<1>4. /\ phase' = phase /\ sinceInterval' = sinceInterval
      /\ wait' = (timeout - e) * NsPerMs /\ busy' = 0 /\ pc' = "poll"
  BY DEF IntervalNotDue, StartPoll
<1> HIDE DEF e
<1>5. e >= 0
  <2>1. SUFFICES ASSUME e < 0 PROVE FALSE
    BY <1>2
  <2>2. PICK n \in Nat : e + 1 = -n
    <3>1. -(e + 1) \in Nat /\ e + 1 = -(-(e + 1))
      BY <1>2, <2>1
    <3> QED BY <3>1
  <2>3. (-n) * NsPerMs <= 0
    BY Sizes
  <2> QED BY <1>1, <1>2, <2>2, <2>3, Sizes
<1>6. PICK x \in Nat : x = e * NsPerMs
  BY <1>2, <1>5, Sizes
<1>7. (e + 1) * NsPerMs = x + NsPerMs
  BY <1>2, <1>6, Sizes
<1>8. wait' = timeout * NsPerMs - x
  BY <1>2, <1>4, <1>6, Sizes
<1>9. timeout * NsPerMs - x \in Nat
  <2>1. timeout - e \in Nat
    BY <1>2, <1>3, Sizes
  <2>2. (timeout - e) * NsPerMs \in Nat
    BY <2>1, Sizes
  <2> QED BY <1>4, <1>8, <2>2
<1>10. wait' \in 0 .. (timeout * NsPerMs)
  BY <1>6, <1>8, <1>9, Sizes
<1>11. LoopTypeOK'
  BY <1>1, <1>4, <1>10, Sizes DEF LoopTypeOK
<1>12. sinceInterval' + wait' < (timeout + 1) * NsPerMs + busy'
  BY <1>1, <1>2, <1>4, <1>6, <1>7, <1>8, Sizes
<1> QED BY <1>11, <1>12 DEF OnTimeInv

LEMMA TimeOnTime ==
  ASSUME TypeOK, OnTimeInv, Time
  PROVE  LoopTypeOK' /\ OnTimeInv'
<1>1. phase' \in 0 .. (Second - 1)
  BY SecondIsPositive DEF Time, Tick, TypeOK, LoopTypeOK
<1>2. sinceInterval \in 0 .. MaxAge /\ sinceInterval' = Older(sinceInterval) /\ pc' = pc
  BY DEF Time, Tick, TypeOK, LoopTypeOK
<1>3. /\ sinceInterval' \in 0 .. MaxAge
      /\ sinceInterval' # MaxAge => sinceInterval # MaxAge /\ sinceInterval' = sinceInterval + 1
  BY <1>2, Sizes DEF Older
<1>4. /\ wait \in 0 .. (timeout * NsPerMs) /\ busy \in 0 .. MaxBusy
      /\ \/ wait > 0 /\ wait' = wait - 1 /\ busy' = busy
         \/ busy < MaxBusy /\ busy' = busy + 1 /\ wait' = wait
  BY DEF Time, Tick, TypeOK, LoopTypeOK
<1>5. wait' \in 0 .. (timeout * NsPerMs) /\ busy' \in 0 .. MaxBusy
  BY <1>4, Sizes
<1>6. LoopTypeOK'
  BY <1>1, <1>2, <1>3, <1>5 DEF TypeOK, LoopTypeOK
<1>7. ASSUME sinceInterval' # MaxAge
      PROVE  sinceInterval' + wait' < (timeout + 1) * NsPerMs + busy'
  <2>1. sinceInterval + wait < (timeout + 1) * NsPerMs + busy
    BY <1>3, <1>7 DEF OnTimeInv
  <2>2. (timeout + 1) * NsPerMs \in Int
    BY Sizes
  <2> QED BY <1>2, <1>3, <1>4, <1>7, <2>1, <2>2, Sizes
<1> QED BY <1>6, <1>7 DEF OnTimeInv

\* The clock never gets as far as MaxAge once the slots have been called.
LEMMA NotSaturated ==
  ASSUME TypeOK, OnTimeInv, Time, sinceInterval # MaxAge
  PROVE  sinceInterval' = sinceInterval + 1 /\ sinceInterval' # MaxAge
<1>1. /\ sinceInterval \in 0 .. MaxAge /\ wait \in 0 .. (timeout * NsPerMs)
      /\ busy \in 0 .. MaxBusy
  BY DEF TypeOK, LoopTypeOK
<1>2. sinceInterval' = sinceInterval + 1
  BY <1>1, Sizes DEF Time, Tick, Older
<1>3. sinceInterval + wait < (timeout + 1) * NsPerMs + busy
  BY DEF OnTimeInv
<1> QED BY <1>1, <1>2, <1>3, Sizes

\* CheckAgain finds only silences that were reported.
LEMMA AgainIsReported ==
  ASSUME IInv, IntervalIsShort, CheckAgain
  PROVE  reported
<1>1. SUFFICES ASSUME ~reported PROVE FALSE
  OBVIOUS
<1>2. check = "before" /\ hasTimedout /\ Expired
  BY DEF CheckAgain
<1>3. sinceInterval # MaxAge /\ sinceCheckIn <= MaxBusy + sinceInterval
  BY <1>1, <1>2 DEF IInv, NoticedInv
<1>4. sinceInterval + wait < (timeout + 1) * NsPerMs + busy
  BY <1>3 DEF IInv, OnTimeInv
<1>5. /\ sinceInterval \in Nat /\ wait \in Nat /\ busy \in 0 .. MaxBusy
      /\ sinceCheckIn \in Nat /\ phase \in 0 .. (Second - 1)
  BY Sizes DEF IInv, TypeOK, LoopTypeOK
<1>6. sinceCheckIn > (watchTimeout - 1) * NsPerMs
  BY <1>2, <1>5, Sizes, AgeAtLeast DEF Expired
<1>7. (timeout + 1) * NsPerMs + 2 * MaxBusy <= (watchTimeout - 1) * NsPerMs
  BY DEF IntervalIsShort
<1>8. (timeout + 1) * NsPerMs \in Int /\ (watchTimeout - 1) * NsPerMs \in Int
  BY Sizes
<1> QED BY <1>3, <1>4, <1>5, <1>6, <1>7, <1>8, Sizes

LEMMA NextHolds == IInv /\ [Next]_vars => IInv'
<1> SUFFICES ASSUME IInv, [Next]_vars PROVE IInv'
  OBVIOUS
<1>1. CASE Time
  <2>1. LoopTypeOK' /\ OnTimeInv'
    BY <1>1, TimeOnTime DEF IInv
  <2>2. sinceCheckIn \in 0 .. MaxAge /\ sinceCheckIn' = Older(sinceCheckIn)
    BY <1>1 DEF IInv, TypeOK, Time
  <2>3. sinceCheckIn' \in 0 .. MaxAge /\ sinceCheckIn' <= sinceCheckIn + 1
    BY <2>2, Sizes DEF Older
  <2>4. UNCHANGED <<hasTimedout, resetsEnabled, check, reported, pc>>
    BY <1>1 DEF Time, Tick
  <2>5. TypeOK'
    BY <2>1, <2>3, <2>4 DEF IInv, TypeOK
  <2>6. CheckInv'
    BY <2>4 DEF IInv, CheckInv
  <2>7. ReportedInv'
    <3>1. phase \in 0 .. (Second - 1)
      BY DEF IInv, TypeOK, LoopTypeOK
    <3>2. Expired => Expired'
      BY <1>1, <2>2, <3>1, StaysExpired
    <3> QED BY <2>4, <3>2 DEF IInv, ReportedInv
  <2>8. ASSUME NoticedInv PROVE NoticedInv'
    <3>1. check = "before" /\ hasTimedout =>
            sinceInterval' = sinceInterval + 1 /\ sinceInterval' # MaxAge
      BY <1>1, <2>8, NotSaturated DEF IInv, NoticedInv
    <3>2. sinceInterval \in Nat /\ busy \in Nat
      BY Sizes DEF IInv, TypeOK, LoopTypeOK
    <3>3. check # "before" => busy' = busy + 1
      BY <1>1 DEF IInv, CheckInv, Time, Tick
    <3> QED BY <2>2, <2>3, <2>4, <2>8, <3>1, <3>2, <3>3, Sizes DEF NoticedInv
  <2> QED BY <2>1, <2>5, <2>6, <2>7, <2>8 DEF IInv, IntervalIsShort
<1>2. CASE Touch
  <2>1. UNCHANGED <<phase, sinceInterval, wait, busy, pc, hasTimedout, resetsEnabled, check>>
    BY <1>2 DEF Touch, loopVars
  <2>2. \/ sinceCheckIn' = 0 /\ reported' = FALSE
        \/ sinceCheckIn' = sinceCheckIn /\ reported' = reported
    BY <1>2 DEF Touch, reset
  <2>3. TypeOK'
    <3>1. LoopTypeOK'
      BY <2>1 DEF IInv, TypeOK, LoopTypeOK
    <3>2. sinceCheckIn' \in 0 .. MaxAge
      BY <2>2, Sizes DEF IInv, TypeOK
    <3>3. reported' \in BOOLEAN
      BY <2>2, Zenon DEF IInv, TypeOK
    <3> QED BY <2>1, <3>1, <3>2, <3>3 DEF IInv, TypeOK
  <2>4. OnTimeInv' /\ CheckInv'
    BY <2>1 DEF IInv, OnTimeInv, CheckInv
  <2>5. ReportedInv'
    BY <2>1, <2>2 DEF IInv, ReportedInv, Expired, ElapsedMs
  <2>6. ASSUME NoticedInv PROVE NoticedInv'
    <3>1. busy \in Nat /\ sinceInterval \in Nat
      BY Sizes DEF IInv, TypeOK, LoopTypeOK
    <3> QED BY <2>1, <2>2, <2>6, <3>1, Sizes DEF NoticedInv
  <2> QED BY <2>3, <2>4, <2>5, <2>6 DEF IInv, IntervalIsShort
<1>3. CASE \E b \in BOOLEAN : enableResets(b)
  <2>1. /\ UNCHANGED <<phase, sinceInterval, wait, busy, pc>>
        /\ UNCHANGED <<sinceCheckIn, hasTimedout, check, reported>>
        /\ resetsEnabled' \in BOOLEAN
    BY <1>3 DEF enableResets, loopVars
  <2> QED BY <2>1 DEF IInv, TypeOK, LoopTypeOK, OnTimeInv, CheckInv, ReportedInv, Expired,
               ElapsedMs, NoticedInv, IntervalIsShort
<1>4. CASE LoopStep /\ (PollReturns \/ IntervalDue)
  <2>1. /\ UNCHANGED <<phase, sinceInterval, wait, busy>>
        /\ UNCHANGED <<sinceCheckIn, hasTimedout, resetsEnabled, reported>>
        /\ check' = "before" /\ pc # "slots" /\ pc' \in {"handlers", "slots"}
    BY <1>4 DEF LoopStep, PollReturns, IntervalDue
  <2>2. check = "before"
    BY <2>1 DEF IInv, CheckInv
  <2> QED BY <2>1, <2>2 DEF IInv, TypeOK, LoopTypeOK, OnTimeInv, CheckInv, ReportedInv, Expired,
               ElapsedMs, NoticedInv, IntervalIsShort
<1>5. CASE LoopStep /\ IntervalNotDue
  <2>1. LoopTypeOK' /\ OnTimeInv'
    BY <1>5, NotDueOnTime DEF IInv
  <2>2. /\ UNCHANGED <<phase, sinceInterval>>
        /\ UNCHANGED <<sinceCheckIn, hasTimedout, resetsEnabled, reported>>
        /\ check' = "before" /\ pc # "slots"
    BY <1>5 DEF LoopStep, IntervalNotDue
  <2>3. check = "before"
    BY <2>2 DEF IInv, CheckInv
  <2> QED BY <2>1, <2>2, <2>3 DEF IInv, TypeOK, CheckInv, ReportedInv, Expired, ElapsedMs,
               NoticedInv, IntervalIsShort
<1>6. CASE LoopStep /\ SlotsReturn /\ check = "after"
  <2>1. /\ phase' = phase /\ sinceInterval' = 0 /\ wait' = timeout * NsPerMs /\ busy' = 0
        /\ UNCHANGED <<sinceCheckIn, hasTimedout, resetsEnabled, reported>>
        /\ check' = "before" /\ pc' = "poll"
    BY <1>6 DEF LoopStep, SlotsReturn, StartPoll
  <2>2. TypeOK'
    BY <2>1, Sizes DEF IInv, TypeOK, LoopTypeOK
  <2>3. OnTimeInv'
    BY <2>1, Sizes DEF OnTimeInv
  <2>4. CheckInv' /\ ReportedInv'
    BY <1>6, <2>1 DEF IInv, CheckInv, ReportedInv, Expired, ElapsedMs
  <2>5. ASSUME NoticedInv PROVE NoticedInv'
    <3>1. hasTimedout /\ ~reported => sinceCheckIn <= busy
      BY <1>6, <2>5 DEF NoticedInv
    <3>2. busy \in 0 .. MaxBusy /\ sinceCheckIn \in Nat
      BY Sizes DEF IInv, TypeOK, LoopTypeOK
    <3> QED BY <1>6, <2>1, <3>1, <3>2, Sizes DEF NoticedInv
  <2> QED BY <2>2, <2>3, <2>4, <2>5 DEF IInv, IntervalIsShort
<1>7. CASE Check
  <2>1. /\ UNCHANGED <<phase, sinceInterval, wait, busy, pc>>
        /\ UNCHANGED <<sinceCheckIn, resetsEnabled>>
    BY <1>7 DEF Check, CheckQuiet, CheckAgain, onTimeout, onTimeoutReturns, loopVars
  <2>2. pc = "slots" /\ check' \in {"onTimeout", "after"}
    BY <1>7 DEF IInv, CheckInv, Check, CheckQuiet, CheckAgain, onTimeout, onTimeoutReturns
  <2>3. hasTimedout' \in BOOLEAN /\ reported' \in BOOLEAN
    BY <1>7 DEF IInv, TypeOK, Check, CheckQuiet, CheckAgain, onTimeout, onTimeoutReturns
  <2>4. TypeOK' /\ OnTimeInv' /\ CheckInv'
    BY <2>1, <2>2, <2>3 DEF IInv, TypeOK, LoopTypeOK, OnTimeInv, CheckInv
  <2>5. Expired' = Expired
    BY <2>1 DEF Expired, ElapsedMs
  <2>6. ReportedInv'
    BY <1>7, <2>5, Zenon DEF IInv, ReportedInv, Check, CheckQuiet, CheckAgain, onTimeout,
       onTimeoutReturns
  <2>7. ASSUME IntervalIsShort PROVE NoticedInv'
    <3>1. NoticedInv
      BY <2>7 DEF IInv
    <3>2. CheckAgain => reported
      BY <2>7, AgainIsReported
    <3> QED BY <1>7, <2>1, <3>1, <3>2 DEF NoticedInv, Check, CheckQuiet, CheckAgain, onTimeout,
              onTimeoutReturns
  <2> QED BY <2>4, <2>6, <2>7 DEF IInv, IntervalIsShort
<1>8. CASE UNCHANGED vars
  <2>1. /\ UNCHANGED <<phase, sinceInterval, wait, busy, pc>>
        /\ UNCHANGED <<sinceCheckIn, hasTimedout, resetsEnabled, check, reported>>
    BY <1>8 DEF vars, loopVars, watchVars
  <2> QED BY <2>1 DEF IInv, TypeOK, LoopTypeOK, OnTimeInv, CheckInv, ReportedInv, Expired,
               ElapsedMs, NoticedInv, IntervalIsShort
<1>9. LoopStep => \/ LoopStep /\ (PollReturns \/ IntervalDue)
                  \/ LoopStep /\ IntervalNotDue
                  \/ LoopStep /\ SlotsReturn /\ check = "after"
  BY DEF LoopStep
<1> QED BY <1>1, <1>2, <1>3, <1>4, <1>5, <1>6, <1>7, <1>8, <1>9 DEF Next

(***************************************************************************)
(* Theorems.                                                               *)
(***************************************************************************)

\* Every reachable state satisfies the invariant.
THEOREM Inductive == Safety => []IInv
BY InitHolds, NextHolds, PTL DEF Safety

\* The polled watchdog's and its clock's variables keep their types; in
\* particular poll() is never asked to wait for less than nothing or for longer
\* than the loop's timeout.
THEOREM TypeCorrect == Safety => []TypeOK
<1>1. IInv => TypeOK
  BY DEF IInv
<1> QED BY <1>1, Inductive, PTL

\* Interval slots are called on time, for every timeout, clock and load
\* (EventLoop.cpp:75-91).
THEOREM SlotsOnTime == Safety => IntervalOnTime
<1>1. ASSUME IInv, IntervalDue, sinceInterval # MaxAge
      PROVE  /\ sinceInterval > (timeout - 1) * NsPerMs
             /\ sinceInterval < (timeout + 1) * NsPerMs + MaxBusy
  <2>1. /\ sinceInterval \in Nat /\ wait \in Nat /\ busy \in 0 .. MaxBusy
        /\ phase \in 0 .. (Second - 1)
    BY <1>1, Sizes DEF IInv, TypeOK, LoopTypeOK
  <2>2. sinceInterval > (timeout - 1) * NsPerMs
    BY <1>1, <2>1, Sizes, AgeAtLeast DEF IntervalDue
  <2>3. sinceInterval + wait < (timeout + 1) * NsPerMs + busy
    BY <1>1 DEF IInv, OnTimeInv
  <2>4. (timeout + 1) * NsPerMs \in Int
    BY Sizes
  <2>5. sinceInterval < (timeout + 1) * NsPerMs + MaxBusy
    BY <2>1, <2>3, <2>4, Sizes
  <2> QED BY <2>2, <2>5
<1>2. IInv => [IntervalDue /\ sinceInterval # MaxAge =>
                 /\ sinceInterval > (timeout - 1) * NsPerMs
                 /\ sinceInterval < (timeout + 1) * NsPerMs + MaxBusy]_loopVars
  BY <1>1
<1> QED BY <1>2, Inductive, PTL DEF IntervalOnTime

\* onTimeout() is called once for a silence and never a millisecond early
\* (Watchdog.h:63-65, 76-79).
THEOREM ReportedOnce == Safety => OncePerSilence
<1>1. ASSUME IInv, onTimeout
      PROVE  ~reported /\ sinceCheckIn > (watchTimeout - 1) * NsPerMs
  <2>1. ~reported
    BY <1>1 DEF IInv, ReportedInv, onTimeout
  <2>2. sinceCheckIn \in Nat /\ phase \in 0 .. (Second - 1) /\ watchTimeout \in Int
    BY <1>1, Sizes DEF IInv, TypeOK, LoopTypeOK
  <2>3. sinceCheckIn > (watchTimeout - 1) * NsPerMs
    BY <1>1, <2>2, AgeAtLeast DEF onTimeout, Expired
  <2> QED BY <2>1, <2>3
<1>2. IInv => [onTimeout => ~reported /\ sinceCheckIn > (watchTimeout - 1) * NsPerMs]_vars
  BY <1>1
<1> QED BY <1>2, Inductive, PTL DEF OncePerSilence

\* With an interval well below the watchdog's timeout every silence that check()
\* finds has been reported (Watchdog.h:76-79, Watchdog.cpp:55-61).
THEOREM EverySilenceReported == Safety => SilenceIsReported
<1>1. IInv => [IntervalIsShort /\ CheckAgain => reported]_vars
  BY AgainIsReported
<1> QED BY <1>1, Inductive, PTL DEF SilenceIsReported

-----------------------------------------------------------------------------
(***************************************************************************)
(* Watchdog2 and the Timer it is, for every MaxPending.                    *)
(***************************************************************************)
USE DEF timerVars, tripVars, watchdog2Vars

(***************************************************************************)
(* The watchdog.  While no expiration overtook the service of another, the *)
(* one expiration in flight is where the loop's position says it is, and   *)
(* it belongs to a check-in that no trip has answered.                     *)
(***************************************************************************)
OneInFlight ==
  \/ loop = "elsewhere" /\ ~unserved /\ threads = 0 /\ pipe = 0
  \/ loop = "elsewhere" /\ unserved /\ threads + pipe = 1
  \/ loop = "drain" /\ unserved /\ threads = 0 /\ pipe = 1
  \/ loop = "timeout" /\ unserved /\ threads = 0 /\ pipe = 0
  \/ loop = "trip" /\ ~unserved /\ threads = 0 /\ pipe = 0

Watchdog2Inv ==
  /\ Watchdog2TypeOK
  /\ NoneDropped
  /\ TrippedStaysStopped
  /\ loop = "trip" => ~owed /\ m_ignoreSubstateReset
  /\ ~overrun => OneInFlight /\ (unserved => owed)

LEMMA Watchdog2Step ==
  ASSUME Watchdog2Inv, [Watchdog2Next]_watchdog2Vars
  PROVE  Watchdog2Inv'
<1> USE MaxPendingAssumption
    DEF Watchdog2Inv, Watchdog2TypeOK, TimerTypeOK, NoneDropped, TrippedStaysStopped, OneInFlight
<1>1. CASE Expiration
  BY <1>1 DEF Expiration, Expire
<1>2. CASE Thread
  BY <1>2 DEF Thread, timerThread
<1>3. CASE onActivity /\ UNCHANGED tripVars
  BY <1>3 DEF onActivity
<1>4. CASE Read /\ UNCHANGED tripVars
  <2>1. CASE pipe > 1
    BY <1>4, <2>1 DEF Read
  <2>2. CASE ~(pipe > 1)
    BY <1>4, <2>2 DEF Read
  <2> QED BY <2>1, <2>2
<1>5. CASE Watchdog2_onTimeout
  BY <1>5 DEF Watchdog2_onTimeout
<1>6. CASE onTripReturns
  BY <1>6 DEF onTripReturns
<1>7. CASE CheckIn
  BY <1>7 DEF CheckIn, Watchdog2_reset, start
<1>8. CASE TripTouches
  BY <1>8 DEF TripTouches, Watchdog2_reset
<1>9. CASE UNCHANGED watchdog2Vars
  BY <1>9
<1> QED
  BY <1>1, <1>2, <1>3, <1>4, <1>5, <1>6, <1>7, <1>8, <1>9 DEF Watchdog2Next, Service

\* The inductive invariant holds.
THEOREM Watchdog2InvariantHolds == Watchdog2Safety => []Watchdog2Inv
<1>1. Watchdog2Init => Watchdog2Inv
  <2> SUFFICES ASSUME Watchdog2Init PROVE Watchdog2Inv
    OBVIOUS
  <2>1. /\ armed \in BOOLEAN /\ unserved \in BOOLEAN /\ overrun \in BOOLEAN
        /\ m_ignoreSubstateReset \in BOOLEAN /\ owed \in BOOLEAN
    BY Zenon DEF Watchdog2Init, TimerInit
  <2> QED BY <2>1, MaxPendingAssumption
       DEF Watchdog2Init, TimerInit, Watchdog2Inv, Watchdog2TypeOK, TimerTypeOK, NoneDropped,
           TrippedStaysStopped, OneInFlight
<1>2. Watchdog2Inv /\ [Watchdog2Next]_watchdog2Vars => Watchdog2Inv'
  BY Watchdog2Step
<1> QED BY <1>1, <1>2, PTL DEF Watchdog2Safety

\* Type correctness of the watchdog and its timer.
THEOREM Watchdog2TypeCorrect == Watchdog2Safety => []Watchdog2TypeOK
<1>1. Watchdog2Inv => Watchdog2TypeOK
  BY DEF Watchdog2Inv
<1> QED BY <1>1, Watchdog2InvariantHolds, PTL

(***************************************************************************)
(* An expiration that has not been answered is in a thread, in the pipe or *)
(* in the loop's hands (Timer.cpp:26-29, 85-91).                           *)
(***************************************************************************)
THEOREM ExpirationsAreKept == Watchdog2Safety => []NoneDropped
<1>1. Watchdog2Inv => NoneDropped
  BY DEF Watchdog2Inv
<1> QED BY <1>1, Watchdog2InvariantHolds, PTL

(***************************************************************************)
(* However many expirations are in flight and whatever onTrip() touches, a *)
(* watchdog that tripped is stopped until somebody checks in.              *)
(***************************************************************************)
THEOREM StaysStopped == Watchdog2Safety => []TrippedStaysStopped
<1>1. Watchdog2Inv => TrippedStaysStopped
  BY DEF Watchdog2Inv
<1> QED BY <1>1, Watchdog2InvariantHolds, PTL

(***************************************************************************)
(* Watchdog2.h:38-39, as far as the code keeps it: there is no second trip *)
(* without a check-in, unless the timer expired before the previous        *)
(* expiration had been served.                                             *)
(***************************************************************************)
THEOREM OneTrip == Watchdog2Safety => OneTripUnlessOverrun
<1>1. Watchdog2Inv /\ [Watchdog2Next]_watchdog2Vars =>
        [Watchdog2_onTimeout => owed \/ overrun]_watchdog2Vars
  BY DEF Watchdog2Inv, OneInFlight, Watchdog2_onTimeout
<1> QED BY <1>1, Watchdog2InvariantHolds, PTL DEF Watchdog2Safety, OneTripUnlessOverrun
=============================================================================
