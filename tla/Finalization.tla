----------------------------- MODULE Finalization -----------------------------
(***************************************************************************)
(* When a round result is final: no further attempt can legitimately be    *)
(* entered.  Attempts are encoded as in the code: positive if complete,    *)
(* 0 if not entered, negative for DNF and DNS.                             *)
(*                                                                         *)
(* A rule is a RoundFinalizationRule; an unknown number of attempts and    *)
(* an absent cutoff, None in the code, are 0 here: both versions of every  *)
(* test treat them alike.  No event changes a comparison (comparison_key), *)
(* so events are left out; what 333fm changes is the unit of a CubingChina *)
(* cutoff.                                                                 *)
(***************************************************************************)
EXTENDS Integers, Sequences

IsComplete(value) == value > 0

AttemptIsEntered(value) == value # 0

\* The attempt at position i, padded with attempts that are not entered.
AttemptAt(attempts, i) == IF i <= Len(attempts) THEN attempts[i] ELSE 0

\* result_values.is_better: incomplete results never beat complete ones.
IsBetter(candidate, incumbent) ==
  /\ IsComplete(candidate)
  /\ IsComplete(incumbent) => candidate < incumbent

AllExpectedAttemptsAreEntered(attempts, expected) ==
  /\ expected > 0
  /\ \A i \in 1..expected : AttemptIsEntered(AttemptAt(attempts, i))

HasCutoff(rule) ==
  /\ 0 < rule.cutoffAttempts /\ rule.cutoffAttempts < rule.expected
  /\ rule.cutoff > 0

\* The cutoff attempts are all there and none of them meets the cutoff.  It is
\* final only while nothing has been entered beyond them.
FailedCutoff(attempts, rule) ==
  /\ HasCutoff(rule)
  /\ \A i \in 1..rule.cutoffAttempts :
       LET value == AttemptAt(attempts, i) IN
       AttemptIsEntered(value) /\ ~IsBetter(value, rule.cutoff)
  /\ \A i \in (rule.cutoffAttempts + 1)..rule.expected :
       ~AttemptIsEntered(AttemptAt(attempts, i))

RoundResultIsFinalized(attempts, rule) ==
  /\ rule.expected > 0
  /\ \/ AllExpectedAttemptsAreEntered(attempts, rule.expected)
     \/ FailedCutoff(attempts, rule)

-----------------------------------------------------------------------------
(* CubingChina names a format and a cutoff in seconds (in moves for 333fm).   *)

\* The formats of the WCA: "a" is an average of five, "m" a mean of three, a digit a
\* best of so many; an empty format is read as "a", and any other is unknown.
CubingChinaExpectedAttempts(format) ==
  IF format \in {"a", "", "5"} THEN 5
  ELSE IF format \in {"m", "3"} THEN 3
  ELSE IF format = "2" THEN 2
  ELSE IF format = "1" THEN 1
  ELSE 0

CubingChinaFinalizationRule(format, cutoff, moves) ==
  [expected       |-> CubingChinaExpectedAttempts(format),
   cutoffAttempts |-> IF cutoff <= 0 THEN 0 ELSE IF format \in {"a", ""} THEN 2 ELSE 1,
   cutoff         |-> IF cutoff <= 0 THEN 0 ELSE IF moves THEN cutoff ELSE 100 * cutoff]
=============================================================================
