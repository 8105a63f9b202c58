-------------------------------- MODULE Gps --------------------------------
(***************************************************************************)
(* A position on its way: the GPS board slices it out of a sentence of the *)
(* receiver (avr/gps), the host turns the two slices back into a place     *)
(* (AutoPilot.cpp, nemaSpaceToDegrees).  A sentence is a sequence of       *)
(* tokens: commas, a NUL, the two coordinates of a place and other text.   *)
(***************************************************************************)
EXTENDS Naturals, Sequences, FiniteSets

CONSTANTS Places, NoFix

Comma == <<"comma", NoFix>>
Space == <<"space", NoFix>>
Nul == <<"nul", NoFix>>
Text == <<"text", NoFix>>
Lat(p) == <<"lat", p>>
Long(p) == <<"long", p>>
IsCoordinate(token) == token[2] # NoFix

\* gps_getstring(): the sentence and a NUL over whatever an earlier one left in the buffer.
gps_getstring(sentence, old) ==
  sentence \o <<Nul>> \o SubSeq(old, Len(sentence) + 2, Len(old))

\* Where the scan for the k-th comma stops: it passes over NULs, as "continue" in
\* onPoll() only continues the scan.  0 when it leaves the buffer.
CommaAt(buf, k) ==
  LET at == {i \in 1 .. Len(buf) :
               buf[i] = Comma /\ Cardinality({j \in 1 .. i : buf[j] = Comma}) = k}
  IN  IF at = {} THEN 0 ELSE CHOOSE i \in at : TRUE

\* The value between commas a and b, the comma between them turned into a space.
Field(buf, a, b) ==
  LET from == CommaAt(buf, a)
      to == CommaAt(buf, b)
  IN  [i \in 1 .. to - from - 1 |-> IF buf[from + i] = Comma THEN Space ELSE buf[from + i]]

\* onPoll(): the two substates that the autopilot reads, from the fields of $GPGGA.
Latitude(buf) == Field(buf, 2, 4)
Longitude(buf) == Field(buf, 4, 6)
InBuffer(buf) == CommaAt(buf, 11) # 0

\* nemaSpaceToDegrees(): the number around the last dot, an exception (NoFix) without one.
nemaSpaceToDegrees(value) ==
  LET dots == {i \in DOMAIN value : IsCoordinate(value[i])}
      last == {i \in dots : \A j \in dots : j <= i}
  IN  IF last = {} THEN NoFix ELSE value[CHOOSE i \in last : TRUE][2]

\* getLat() and getLong(): the place of a sentence; mixed coordinates are a place of
\* their own, which is near nothing (Elsewhere).
CONSTANT Elsewhere
Position(buf) ==
  LET lat == nemaSpaceToDegrees(Latitude(buf))
      long == nemaSpaceToDegrees(Longitude(buf))
  IN  IF NoFix \in {lat, long} THEN NoFix
      ELSE IF lat = long THEN lat ELSE Elsewhere
=============================================================================
