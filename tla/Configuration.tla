--------------------------- MODULE Configuration ---------------------------
(***************************************************************************)
(* Reading the waypoint file (Parameters.cpp).  A file is a sequence of    *)
(* lines and whether the last one ends with a newline; Malformed stands    *)
(* for a line from which three values cannot be extracted.                 *)
(***************************************************************************)
EXTENDS Naturals, Sequences, FiniteSets

CONSTANT Malformed

\* The lines in front of the first malformed one.
WellFormed(lines) ==
  {k \in 1 .. Len(lines) : \A i \in 1 .. k : lines[i] # Malformed}

(***************************************************************************)
(* loadConfiguration(): every round of the loop pushes a waypoint, whether *)
(* or not the extraction succeeded, and the last one pushed is removed     *)
(* afterwards.  That is the waypoint of the failed extraction, unless the  *)
(* last line ends at the end of the file: the stream is not good() any     *)
(* more, there is no failed round, and a real waypoint is removed.         *)
(***************************************************************************)
loadConfiguration(file) ==
  LET good == Cardinality(WellFormed(file.lines))
      endsInValue == good = Len(file.lines) /\ good > 0 /\ ~file.newline
  IN  SubSeq(file.lines, 1, IF endsInValue THEN good - 1 ELSE good)
=============================================================================
