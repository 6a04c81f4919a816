-------------------------- MODULE MCCubingChinaFeed --------------------------
(* The instance of CubingChinaFeed for TLC: two competitions and one place; the *)
(* rounds are means of three, with and without a cutoff after one attempt.      *)
EXTENDS CubingChinaFeed

CONSTANTS c1, c2, r1, r2, a, b

MCRoundOf       == [x \in Results |-> IF x = a THEN r1 ELSE r2]
MCCompetitionOf == [r \in Rounds |-> c1]

MCRow(attempts, best, average, singleTag) ==
  [attempts |-> attempts, best |-> best, average |-> average, singleTag |-> singleTag,
   averageTag |-> ""]

MCEntries == [x \in Results |->
  IF x = a THEN {MCRow(<<500, 0, 0>>, 500, 0, "NR"), MCRow(<<500, 600, 700>>, 500, 600, "CR")}
  ELSE {MCRow(<<600, 600, 600>>, 600, 600, "")}]
MCRows == UNION {MCEntries[x] : x \in Results}

Uncut == CubingChinaFinalizationRule("m", 0, FALSE)
Cut   == CubingChinaFinalizationRule("m", 4, FALSE)
MCFormats == {Uncut, Cut}

\* a has one attempt and is registered, b is neither.
MCStart == {[shown |-> [x \in Results |-> IF x = a THEN MCRow(<<500, 0, 0>>, 500, 0, "NR") ELSE None],
             roster |-> {a}, offered |-> {r1, r2}, format |-> [r \in Rounds |-> Uncut]]}

\* At most one competition is not ready.
MCOutcomes == {o \in [Competitions -> Findings] :
  (o[c1] = "ready" /\ o[c2] \in {"ready", "expired"}) \/ o[c2] = "ready"}
=============================================================================
