------------------------- MODULE MCRecordPublication -------------------------
(* The instance of RecordPublication for TLC: the first two contents are of   *)
(* one round, the third of another round of the same day.                     *)
EXTENDS RecordPublication, TLC

CONSTANTS w1, w2

WorkerSymmetry == Permutations(Workers)

\* The world, and two countries a result may be attributed to.
MCCells == {"world", "a", "b"}
MCRank  == [c \in MCCells |-> IF c = "world" THEN 1 ELSE 3]

\* The world record is 5, country a has none, country b has 4.
MCBaseline == [c \in MCCells |-> CASE c = "world" -> 5 [] c = "a" -> 9 [] c = "b" -> 4]

\* Better and worse results in one round in country a, a good one in country b
\* later on the day, and an incomplete or retracted one.
MCContents ==
  { [value |-> 3, at |-> 1, fit |-> TRUE,  cells |-> {"world", "a"}],
    [value |-> 4, at |-> 1, fit |-> TRUE,  cells |-> {"world", "a"}],
    [value |-> 3, at |-> 2, fit |-> TRUE,  cells |-> {"world", "b"}],
    [value |-> 3, at |-> 2, fit |-> FALSE, cells |-> {"world", "a"}] }

MCRoundAt == [t \in Times |-> t]
MCDayAt   == [t \in Times |-> 1]

\* The second result is vouched for in its country only.
MCVouched == (Results \X MCCells) \ {<<2, "world">>}
=============================================================================
