----------------------------- MODULE MCTrinidad -----------------------------
(* Trinidad for TLC: a cone and a plain waypoint, a place near neither.    *)
EXTENDS Trinidad

CONSTANTS p1, p2, away, noFix, malformed, noFrame

\* Straight ahead of a robot heading north is 90 degrees from east.
MCBearing == [p \in {p1, p2, away} |-> [q \in {p1, p2} |-> 90]]
MCAvoidAngle == [s \in Sonars |-> IF s = 5 THEN 54 ELSE 18]

MCFiles ==
  {[lines |-> <<[place |-> p1, hasCone |-> TRUE], [place |-> p2, hasCone |-> FALSE]>>, newline |-> b] :
      b \in BOOLEAN}
  \cup {[lines |-> <<malformed>>, newline |-> TRUE]}

Sentence(lat, long) ==
  <<Text, Comma, Text, Comma, lat, Comma, Text, Comma, long, Comma, Text, Comma, Text, Comma, Text,
    Comma, Text, Comma, Text, Comma, Text, Comma, Text>>
MCSentences == {Sentence(Lat(p), Long(p)) : p \in {p1, p2}} \cup {Sentence(Text, Text)}
MCFrames ==
  {noFrame} \cup {[x |-> x, y |-> 0, width |-> 10, frame |-> 100] : x \in {0, 80}}
=============================================================================
