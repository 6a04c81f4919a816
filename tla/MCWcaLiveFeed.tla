---------------------------- MODULE MCWcaLiveFeed ----------------------------
(* The instance of WcaLiveFeed for TLC: a mean of three with a cutoff after   *)
(* one attempt.                                                               *)
EXTENDS WcaLiveFeed

CONSTANTS r1, r2, a, b

MCRoundOf == [x \in Results |-> r1]

Row(attempts, best, average, singleTag, at) ==
  [attempts |-> attempts, best |-> best, average |-> average, singleTag |-> singleTag,
   averageTag |-> "", enteredAt |-> at]
Entry(attempts, best, average, singleTag) ==
  [attempts |-> attempts, best |-> best, average |-> average, singleTag |-> singleTag,
   averageTag |-> ""]

MCEntries == [x \in Results |->
  IF x = a
  THEN {Entry(<<5>>, 5, 0, "NR"), Entry(<<5, 6, 7>>, 5, 6, "NR")}
  ELSE {Entry(<<6, 6, 6>>, 6, 6, ""), Entry(<<6, 6, 6>>, 6, 6, "NR")}]

MCRows ==
  {Row(e.attempts, e.best, e.average, e.singleTag, at) :
     e \in UNION {MCEntries[x] : x \in Results}, at \in 0..(MaxChanges + 1)}

Uncut == [expected |-> 3, cutoffAttempts |-> 0, cutoff |-> 0]
Cut   == [expected |-> 3, cutoffAttempts |-> 1, cutoff |-> 4]
MCFormats == {Uncut, Cut}

\* a has nothing yet, b has finished and holds the record; no cutoff at first.
MCStart == {[shown  |-> [x \in Results |-> IF x = a THEN None ELSE Row(<<6, 6, 6>>, 6, 6, "NR", 1)],
             format |-> [r \in Rounds |-> Uncut]]}

\* The two processes share nothing but the provider, and no property relates what
\* they write: they are looked at one at a time.
MCDeployments == {{"subscription"}, {"polling"}}
=============================================================================
