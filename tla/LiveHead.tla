------------------------------- MODULE LiveHead -------------------------------
(***************************************************************************)
(* What classification promises of one canonical result: the live records  *)
(* move from one revision of it to a later one, always to the latest, and  *)
(* a revision is announced only while it is the latest and the live        *)
(* records account for it.  ClassificationQueue implements this.           *)
(***************************************************************************)
EXTENDS Naturals

CONSTANT Results

VARIABLES
  latest,     \* latest[r]: the last revision of r that was snapshotted
  live,       \* live[r]: the revision the live records account for
  announced   \* the revisions <<r, n>> that became notification events

headVars == <<latest, live, announced>>

Init ==
  /\ latest = [r \in Results |-> 0]
  /\ live = [r \in Results |-> 0]
  /\ announced = {}

Supersede(r) ==
  /\ latest' = [latest EXCEPT ![r] = @ + 1]
  /\ UNCHANGED <<live, announced>>

CatchUp(r) ==
  /\ live' = [live EXCEPT ![r] = latest[r]]
  /\ UNCHANGED <<latest, announced>>

Announce(r) ==
  /\ live[r] = latest[r]
  /\ announced' = announced \cup {<<r, latest[r]>>}
  /\ UNCHANGED <<latest, live>>

Next == \E r \in Results : Supersede(r) \/ CatchUp(r) \/ Announce(r)

Spec == Init /\ [][Next]_headVars
===============================================================================
