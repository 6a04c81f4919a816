--------------------------- MODULE MCRecordTimeline ---------------------------
(* Instances of RecordTimeline for TLC. *)
EXTENDS RecordTimeline

CONSTANTS w1, w2

\* The world, and two countries a result may be attributed to.
MCCells == {"world", "a", "b"}

\* The world record is 5, country a has none, country b has 4.
MCBaseline == [c \in MCCells |-> CASE c = "world" -> 5 [] c = "a" -> 9 [] c = "b" -> 4]

\* Better and worse results at two times in country a, one in country b, and
\* an incomplete or retracted one.
MCContents ==
  { [value |-> 3, at |-> 1, fit |-> TRUE,  cells |-> {"world", "a"}],
    [value |-> 4, at |-> 1, fit |-> TRUE,  cells |-> {"world", "a"}],
    [value |-> 4, at |-> 2, fit |-> TRUE,  cells |-> {"world", "b"}],
    [value |-> 3, at |-> 2, fit |-> FALSE, cells |-> {"world", "a"}] }
=============================================================================
