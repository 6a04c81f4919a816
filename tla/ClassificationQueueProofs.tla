---------------------- MODULE ClassificationQueueProofs ----------------------
(* Theorems about ClassificationQueue, for any sets of results and workers *)
(* and any bounds.                                                         *)
EXTENDS ClassificationQueue, TLAPS

(***************************************************************************)
(* The inductive invariant.                                                *)
(***************************************************************************)

\* A worker has a work exactly while it is busy with it, and the work was
\* claimed by someone.
JobInv ==
  \A w \in Workers :
    /\ phase[w] # "idle" => job[w] \in Works /\ status[job[w]] \notin {"absent", "pending"}
    /\ phase[w] = "idle" => job[w] = None

\* A revision has a work row exactly when the head has reached it.
HeadInv == \A k \in Works : status[k] # "absent" <=> k[2] <= head[k[1]]

\* Only rows being processed are claimed.
ClaimInv == \A k \in Works : claimedBy[k] # None => status[k] = "processing"

LiveInv == \A r \in Results : live[r] <= head[r]

\* A worker that found its revision current has seen it in the live records.
CurrentInv ==
  \A w \in Workers :
    /\ phase[w] = "publishing" => live[job[w][1]] >= job[w][2]
    /\ current[w] =>
         /\ phase[w] \in {"publishing", "settling"}
         /\ job[w][1] \in Absorbed \/ live[job[w][1]] >= job[w][2]

IInv ==
  /\ TypeOK
  /\ JobInv
  /\ HeadInv
  /\ ClaimInv
  /\ HandledInOrder
  /\ LiveInv
  /\ CurrentInv
  /\ CompletedIsLive

LEMMA BoundsTyped ==
  MaxRevision \in Nat /\ MaxInterruptions \in Nat /\ MaxOverruns \in Nat /\ 0 \in 0 .. MaxRevision
  BY QueueBoundsAssumption DEF QueueBoundsAssumption

\* What a work is made of.
LEMMA WorkParts ==
  /\ \A k \in Works : k[1] \in Results /\ k[2] \in 1 .. MaxRevision /\ k = <<k[1], k[2]>>
  /\ \A r \in Results, n \in 1 .. MaxRevision :
       <<r, n>> \in Works /\ <<r, n>>[1] = r /\ <<r, n>>[2] = n
  BY DEF Works

LEMMA InitIInv == Init => IInv
<1> SUFFICES ASSUME Init
             PROVE  IInv
  OBVIOUS
<1>1. TypeOK
  BY BoundsTyped DEF Init, TypeOK, Status, Phases
<1>2. JobInv /\ ClaimInv /\ LiveInv /\ CurrentInv
  BY DEF Init, JobInv, ClaimInv, LiveInv, CurrentInv
<1>3. HeadInv
  BY WorkParts DEF Init, HeadInv
<1>4. HandledInOrder /\ CompletedIsLive
  BY DEF Init, HandledInOrder, CompletedIsLive
<1>5. QED
  BY <1>1, <1>2, <1>3, <1>4 DEF IInv

LEMMA InstallIInv ==
  ASSUME IInv, InstallBaseline
  PROVE  IInv'
  BY DEF IInv, TypeOK, JobInv, HeadInv, ClaimInv, HandledInOrder, LiveInv, CurrentInv,
         CompletedIsLive, InstallBaseline, rowVars, workerVars, bounds

\* The new row is the first beyond the head, so nothing after it was claimed.
LEMMA SnapshotIInv ==
  ASSUME IInv, NEW r \in Results, SnapshotAndEnqueue(r)
  PROVE  IInv'
<1> DEFINE k0 == <<r, head[r] + 1>>
<1>1. head[r] \in Nat /\ head[r] + 1 \in 1 .. MaxRevision
  BY BoundsTyped DEF SnapshotAndEnqueue, IInv, TypeOK
<1>2. k0 \in Works /\ k0[1] = r /\ k0[2] = head[r] + 1
  BY <1>1, WorkParts
<1>3. status[k0] = "absent"
  BY <1>1, <1>2 DEF IInv, HeadInv
<1>4. /\ head' = [head EXCEPT ![r] = head[r] + 1]
      /\ status' = [status EXCEPT ![k0] = "pending"]
      /\ UNCHANGED <<baseline, claimedBy, expired, projection, live, events, workerVars, bounds>>
      /\ \E valid \in BOOLEAN : fit' = [fit EXCEPT ![k0] = valid]
  BY DEF SnapshotAndEnqueue
<1> HIDE DEF k0
<1>5. TypeOK'
  BY <1>1, <1>2, <1>4 DEF IInv, TypeOK, Status, Unsettled, workerVars, bounds
<1>6. JobInv'
  BY <1>2, <1>3, <1>4 DEF IInv, TypeOK, JobInv, workerVars
<1>7. HeadInv'
  <2> SUFFICES ASSUME NEW k \in Works
               PROVE  status'[k] # "absent" <=> k[2] <= head'[k[1]]
    BY DEF HeadInv
  <2>1. /\ k[1] \in Results /\ k[2] \in Nat /\ head[k[1]] \in Nat
        /\ status[k] # "absent" <=> k[2] <= head[k[1]]
    BY WorkParts DEF IInv, TypeOK, HeadInv
  <2>2. CASE k = k0
    BY <1>1, <1>2, <1>4, <2>1, <2>2 DEF IInv, TypeOK
  <2>3. CASE k # k0
    <3>1. k[1] # r \/ k[2] # head[r] + 1
      BY <2>3, WorkParts DEF k0
    <3>2. QED
      BY <1>1, <1>2, <1>4, <2>1, <2>3, <3>1 DEF IInv, TypeOK
  <2>4. QED
    BY <2>2, <2>3
<1>8. ClaimInv'
  BY <1>2, <1>3, <1>4 DEF IInv, TypeOK, ClaimInv
<1>9. HandledInOrder'
  <2> SUFFICES ASSUME NEW j \in Works, NEW k \in Works, Earlier(j, k),
                      status'[k] \notin {"absent", "pending"}
               PROVE  status'[j] \in Settled
    BY DEF HandledInOrder, Earlier
  <2>1. status[k] \notin {"absent", "pending"} /\ status[j] \in Settled
    BY <1>2, <1>4 DEF IInv, TypeOK, HandledInOrder
  <2>2. j # k0
    BY <1>3, <2>1 DEF Settled
  <2>3. QED
    BY <1>2, <1>4, <2>1, <2>2 DEF IInv, TypeOK
<1>10. LiveInv' /\ CurrentInv'
  BY <1>1, <1>4 DEF IInv, TypeOK, LiveInv, CurrentInv, workerVars
<1>11. CompletedIsLive'
  BY <1>2, <1>4 DEF IInv, TypeOK, CompletedIsLive
<1>12. QED
  BY <1>5, <1>6, <1>7, <1>8, <1>9, <1>10, <1>11 DEF IInv

LEMMA ClaimIInv ==
  ASSUME IInv, NEW w \in Workers, ClaimNextWork(w)
  PROVE  IInv'
<1>1. PICK k0 \in Works :
        /\ Claimable(k0)
        /\ InOrder(k0)
        /\ status' = [status EXCEPT ![k0] = "processing"]
        /\ claimedBy' = [claimedBy EXCEPT ![k0] = w]
        /\ expired' = [expired EXCEPT ![k0] = FALSE]
        /\ job' = [job EXCEPT ![w] = k0]
  BY DEF ClaimNextWork
<1>2. /\ phase[w] = "idle"
      /\ phase' = [phase EXCEPT ![w] = "claimed"]
      /\ UNCHANGED <<baseline, head, fit, projection, live, events, seenHead, current, bounds>>
  BY DEF ClaimNextWork
<1>3. status[k0] \in Unsettled
  BY <1>1 DEF Claimable, Unsettled
<1>4. TypeOK'
  BY <1>1, <1>2 DEF IInv, TypeOK, Status, Unsettled, Phases, bounds
<1>5. JobInv'
  BY <1>1, <1>2 DEF IInv, TypeOK, JobInv
<1>6. HeadInv'
  BY <1>1, <1>2, <1>3 DEF IInv, TypeOK, HeadInv, Unsettled
<1>7. ClaimInv'
  BY <1>1, <1>2 DEF IInv, TypeOK, ClaimInv
<1>8. HandledInOrder'
  <2> SUFFICES ASSUME NEW j \in Works, NEW k \in Works, Earlier(j, k),
                      status'[k] \notin {"absent", "pending"}
               PROVE  status'[j] \in Settled
    BY DEF HandledInOrder, Earlier
  <2>1. CASE k = k0
    <3>1. j[2] <= head[j[1]]
      <4>1. k0[2] <= head[k0[1]]
        BY <1>3 DEF IInv, HeadInv, Unsettled
      <4>2. QED
        BY <2>1, <4>1, WorkParts DEF Earlier, IInv, TypeOK
    <3>2. status[j] # "absent" /\ status[j] \notin Unsettled
      BY <1>1, <2>1, <3>1 DEF InOrder, IInv, HeadInv
    <3>3. status[j] \in Settled /\ j # k0
      BY <1>3, <3>2 DEF IInv, TypeOK, Status
    <3>4. QED
      BY <1>1, <3>3 DEF IInv, TypeOK
  <2>2. CASE k # k0
    <3>1. status[j] \in Settled /\ j # k0
      BY <1>1, <1>3, <2>2 DEF IInv, TypeOK, HandledInOrder, Unsettled, Settled
    <3>2. QED
      BY <1>1, <3>1 DEF IInv, TypeOK
  <2>3. QED
    BY <2>1, <2>2
<1>9. LiveInv'
  BY <1>2 DEF IInv, LiveInv
<1>10. CurrentInv'
  BY <1>1, <1>2 DEF IInv, TypeOK, CurrentInv
<1>11. CompletedIsLive'
  BY <1>1, <1>2 DEF IInv, TypeOK, CompletedIsLive
<1>12. QED
  BY <1>4, <1>5, <1>6, <1>7, <1>8, <1>9, <1>10, <1>11 DEF IInv

\* The steps between the claim and the settling transaction leave the rows.
LEMMA ProcessIInv ==
  ASSUME IInv, NEW w \in Workers,
         \/ LoadWork(w)
         \/ Materialize(w)
         \/ ClassifyHistorical(w)
         \/ ClassifyLive(w)
         \/ Publish(w)
  PROVE  IInv'
<1>1. phase[w] # "idle" /\ job[w] \in Works
  BY DEF IInv, JobInv, LoadWork, Materialize, ClassifyHistorical, ClassifyLive, Publish
<1>2. /\ UNCHANGED <<head, status, claimedBy, job>>
      /\ phase' = [phase EXCEPT ![w] = phase'[w]]
      /\ phase'[w] \in Phases \ {"idle"}
  BY DEF LoadWork, Materialize, ClassifyHistorical, ClassifyLive, Publish, rowVars, Phases,
         IInv, TypeOK
<1>3. JobInv' /\ HeadInv' /\ ClaimInv' /\ HandledInOrder'
  BY <1>1, <1>2 DEF IInv, TypeOK, JobInv, HeadInv, ClaimInv, HandledInOrder
<1>4. job[w][1] \in Results /\ job[w][2] \in 0 .. MaxRevision
  BY <1>1, WorkParts
<1>5. TypeOK' /\ LiveInv' /\ CurrentInv' /\ CompletedIsLive'
  <2> USE <1>1, <1>2, <1>4 DEF IInv, TypeOK, Phases, rowVars, bounds
  <2>1. CASE LoadWork(w)
    BY <2>1 DEF LoadWork, LiveInv, CurrentInv, CompletedIsLive
  <2>2. CASE Materialize(w)
    BY <2>2 DEF Materialize, LiveInv, CurrentInv, CompletedIsLive
  <2>3. CASE ClassifyHistorical(w)
    BY <2>3 DEF ClassifyHistorical, Superseded, LiveInv, CurrentInv, CompletedIsLive
  <2>4. CASE ClassifyLive(w)
    <3>1. CASE head[job[w][1]] = job[w][2]
      <4>1. /\ live' = [live EXCEPT ![job[w][1]] = job[w][2]]
            /\ current' = [current EXCEPT ![w] = TRUE]
            /\ phase' = [phase EXCEPT ![w] =
                           IF fit[job[w]] THEN "publishing" ELSE "settling"]
            /\ UNCHANGED <<baseline, fit, rowVars, projection, events, seenHead, bounds>>
        BY <2>4, <3>1 DEF ClassifyLive
      <4>2. /\ \A r \in Results : live'[r] \in 0 .. MaxRevision /\ live'[r] >= live[r]
            /\ live'[job[w][1]] = job[w][2]
            /\ live' \in [Results -> 0 .. MaxRevision]
        BY <3>1, <4>1 DEF LiveInv
      <4>3. TypeOK' /\ LiveInv'
        BY <3>1, <4>1, <4>2 DEF LiveInv
      <4>4. CurrentInv'
        <5> SUFFICES ASSUME NEW v \in Workers
                     PROVE  /\ phase'[v] = "publishing" => live'[job'[v][1]] >= job'[v][2]
                            /\ current'[v] =>
                                 /\ phase'[v] \in {"publishing", "settling"}
                                 /\ \/ job'[v][1] \in Absorbed
                                    \/ live'[job'[v][1]] >= job'[v][2]
          BY DEF CurrentInv
        <5>1. CASE v = w
          BY <4>1, <4>2, <5>1
        <5>2. CASE v # w
          <6>1. phase'[v] = phase[v] /\ current'[v] = current[v] /\ job'[v] = job[v]
            BY <4>1, <5>2
          <6>2. CASE phase[v] = "idle"
            BY <6>1, <6>2 DEF CurrentInv
          <6>3. CASE phase[v] # "idle"
            <7>1. /\ job[v][1] \in Results /\ job[v][2] \in 0 .. MaxRevision
                  /\ live[job[v][1]] \in 0 .. MaxRevision
              BY <6>3, WorkParts DEF JobInv
            <7>2. live'[job[v][1]] >= live[job[v][1]] /\ live'[job[v][1]] \in 0 .. MaxRevision
              BY <4>2, <7>1
            <7>3. QED
              BY <6>1, <7>1, <7>2, BoundsTyped DEF CurrentInv
          <6>4. QED
            BY <6>2, <6>3
        <5>3. QED
          BY <5>1, <5>2
      <4>5. CompletedIsLive'
        <5> SUFFICES ASSUME NEW k \in Works, status'[k] = "completed", k[1] \notin Absorbed
                     PROVE  live'[k[1]] >= k[2]
          BY DEF CompletedIsLive
        <5>1. k[1] \in Results /\ k[2] \in 0 .. MaxRevision /\ live[k[1]] >= k[2]
          BY WorkParts DEF CompletedIsLive
        <5>2. live'[k[1]] >= live[k[1]] /\ live'[k[1]] \in 0 .. MaxRevision
          BY <4>2, <5>1
        <5>3. QED
          BY <5>1, <5>2, BoundsTyped
      <4>6. QED
        BY <4>3, <4>4, <4>5
    <3>2. CASE head[job[w][1]] # job[w][2]
      <4>1. /\ current' = [current EXCEPT ![w] = FALSE]
            /\ phase' = [phase EXCEPT ![w] = "settling"]
            /\ UNCHANGED <<live, baseline, fit, rowVars, projection, events, seenHead, bounds>>
        BY <2>4, <3>2 DEF ClassifyLive
      <4>2. QED
        BY <4>1 DEF LiveInv, CurrentInv, CompletedIsLive
    <3>3. QED
      BY <3>1, <3>2
  <2>5. CASE Publish(w)
    BY <2>5 DEF Publish, LiveInv, CurrentInv, CompletedIsLive
  <2>6. QED
    BY <2>1, <2>2, <2>3, <2>4, <2>5
<1>6. QED
  BY <1>3, <1>5 DEF IInv

\* Leaving a work: the row is untouched, or its holder settles or fails it.
LEMMA LeaveIInv ==
  ASSUME IInv, NEW w \in Workers, Settle(w) \/ Fail(w) \/ Crash(w)
  PROVE  IInv'
<1>1. phase[w] # "idle" /\ job[w] \in Works
  BY DEF IInv, JobInv, Settle, Fail, Crash
<1> DEFINE k0 == job[w]
<1>2. /\ Return(w)
      /\ UNCHANGED <<baseline, head, fit, projection, live, events>>
      /\ interruptions' \in Nat /\ overruns' \in Nat
  BY DEF Settle, Fail, Crash, bounds, IInv, TypeOK
<1>3. \/ UNCHANGED rowVars
      \/ /\ claimedBy[k0] = w
         /\ \/ status' = [status EXCEPT ![k0] = "failed"]
            \/ /\ status' = [status EXCEPT ![k0] = IF current[w] THEN "completed" ELSE "stale"]
               /\ phase[w] = "settling"
         /\ claimedBy' = [claimedBy EXCEPT ![k0] = None]
         /\ expired' = [expired EXCEPT ![k0] = FALSE]
  BY DEF Settle, Fail, Crash
<1> HIDE DEF k0
<1>4. k0 \in Works /\ k0 = job[w]
  BY <1>1 DEF k0
<1>5. LiveInv' /\ CurrentInv'
  BY <1>2 DEF Return, IInv, TypeOK, LiveInv, CurrentInv
<1>6. CASE UNCHANGED rowVars
  <2>1. TypeOK'
    BY <1>2, <1>6, BoundsTyped DEF rowVars, Return, IInv, TypeOK, Phases
  <2>2. JobInv' /\ HeadInv' /\ ClaimInv' /\ HandledInOrder' /\ CompletedIsLive'
    BY <1>2, <1>6 DEF rowVars, Return, IInv, TypeOK, JobInv, HeadInv, ClaimInv,
                      HandledInOrder, CompletedIsLive
  <2>3. QED
    BY <1>5, <2>1, <2>2 DEF IInv
<1>7. CASE /\ claimedBy[k0] = w
           /\ \/ status' = [status EXCEPT ![k0] = "failed"]
              \/ /\ status' = [status EXCEPT ![k0] =
                                 IF current[w] THEN "completed" ELSE "stale"]
                 /\ phase[w] = "settling"
           /\ claimedBy' = [claimedBy EXCEPT ![k0] = None]
           /\ expired' = [expired EXCEPT ![k0] = FALSE]
  <2>1. status[k0] = "processing"
    BY <1>4, <1>7, QueueNoneAssumption DEF IInv, ClaimInv
  <2>2. /\ status' = [status EXCEPT ![k0] = status'[k0]]
        /\ status'[k0] \in {"failed", "completed", "stale"}
        /\ status'[k0] = "completed" => current[w]
    BY <1>4, <1>7 DEF IInv, TypeOK
  <2>3. TypeOK'
    BY <1>2, <1>4, <1>7, <2>2, BoundsTyped
    DEF Return, IInv, TypeOK, Phases, Status, Unsettled, Settled
  <2>4. JobInv'
    BY <1>2, <1>4, <2>2 DEF Return, IInv, TypeOK, JobInv
  <2>5. HeadInv' /\ ClaimInv'
    BY <1>2, <1>4, <1>7, <2>1, <2>2 DEF IInv, TypeOK, HeadInv, ClaimInv
  <2>6. HandledInOrder'
    <3> SUFFICES ASSUME NEW j \in Works, NEW k \in Works, Earlier(j, k),
                        status'[k] \notin {"absent", "pending"}
                 PROVE  status'[j] \in Settled
      BY DEF HandledInOrder, Earlier
    <3>1. status[k] \notin {"absent", "pending"}
      BY <1>4, <2>1, <2>2 DEF IInv, TypeOK
    <3>2. status[j] \in Settled /\ j # k0
      BY <2>1, <3>1 DEF IInv, HandledInOrder, Settled
    <3>3. QED
      BY <1>4, <2>2, <3>2 DEF IInv, TypeOK
  <2>7. CompletedIsLive'
    <3> SUFFICES ASSUME NEW k \in Works, status'[k] = "completed", k[1] \notin Absorbed
                 PROVE  live[k[1]] >= k[2]
      BY <1>2 DEF CompletedIsLive
    <3>1. CASE k = k0
      BY <1>4, <2>2, <3>1 DEF IInv, CurrentInv
    <3>2. CASE k # k0
      BY <1>4, <2>2, <3>2 DEF IInv, TypeOK, CompletedIsLive
    <3>3. QED
      BY <3>1, <3>2
  <2>8. QED
    BY <1>5, <2>3, <2>4, <2>5, <2>6, <2>7 DEF IInv
<1>8. QED
  BY <1>3, <1>6, <1>7

LEMMA ExpiryIInv ==
  ASSUME IInv, NEW k \in Works, LeaseExpires(k)
  PROVE  IInv'
<1>1. /\ expired' = [expired EXCEPT ![k] = TRUE]
      /\ overruns' \in Nat
      /\ UNCHANGED <<baseline, head, fit, status, claimedBy, projection, live, events,
                     workerVars, interruptions>>
  BY DEF LeaseExpires, IInv, TypeOK
<1>2. QED
  BY <1>1 DEF IInv, TypeOK, JobInv, HeadInv, ClaimInv, HandledInOrder, LiveInv, CurrentInv,
              CompletedIsLive, workerVars

LEMMA NextIInv == IInv /\ [Next]_vars => IInv'
<1> SUFFICES ASSUME IInv, [Next]_vars
             PROVE  IInv'
  OBVIOUS
<1>1. CASE UNCHANGED vars
  BY <1>1 DEF vars, rowVars, workerVars, bounds, IInv, TypeOK, JobInv, HeadInv, ClaimInv,
              HandledInOrder, LiveInv, CurrentInv, CompletedIsLive
<1>2. CASE Next
  BY <1>2, InstallIInv, SnapshotIInv, ClaimIInv, ProcessIInv, LeaveIInv, ExpiryIInv
  DEF Next, ProcessClaimedWork
<1>3. QED
  BY <1>1, <1>2

THEOREM SpecIInv == Spec => []IInv
  BY InitIInv, NextIInv, PTL DEF Spec

\* Every reachable state is well typed.
THEOREM SpecQueueTypeOK == Spec => []TypeOK
<1>1. IInv => TypeOK
  BY DEF IInv
<1>2. QED
  BY <1>1, SpecIInv, PTL

\* Revisions of one result are claimed and settled in order, with any number
\* of workers, failures, crashes and overrun leases.
THEOREM SpecHandledInOrder == Spec => []HandledInOrder
<1>1. IInv => HandledInOrder
  BY DEF IInv
<1>2. QED
  BY <1>1, SpecIInv, PTL

\* The live records account for every completed revision.
THEOREM SpecCompletedIsLive == Spec => []CompletedIsLive
<1>1. IInv => CompletedIsLive
  BY DEF IInv
<1>2. QED
  BY <1>1, SpecIInv, PTL

(***************************************************************************)
(* What was settled stays settled.                                         *)
(***************************************************************************)

LEMMA NextKeepsSettled ==
  ASSUME IInv, Next, NEW k \in Works, status[k] \in Settled
  PROVE  status'[k] = status[k]
<1>1. ASSUME NEW r \in Results, SnapshotAndEnqueue(r)
      PROVE  status'[k] = status[k]
  <2> DEFINE k0 == <<r, head[r] + 1>>
  <2>1. head[r] + 1 \in 1 .. MaxRevision /\ head[r] \in Nat
    BY <1>1, BoundsTyped DEF SnapshotAndEnqueue, IInv, TypeOK
  <2>2. k0 \in Works /\ k0[1] = r /\ k0[2] = head[r] + 1
    BY <2>1, WorkParts
  <2>3. status[k0] = "absent"
    BY <2>1, <2>2 DEF IInv, HeadInv
  <2>4. status' = [status EXCEPT ![k0] = "pending"]
    BY <1>1 DEF SnapshotAndEnqueue
  <2> HIDE DEF k0
  <2>5. QED
    BY <2>2, <2>3, <2>4 DEF IInv, TypeOK, Settled
<1>2. ASSUME NEW w \in Workers, ClaimNextWork(w)
      PROVE  status'[k] = status[k]
  <2>1. PICK k0 \in Works : Claimable(k0) /\ status' = [status EXCEPT ![k0] = "processing"]
    BY <1>2 DEF ClaimNextWork
  <2>2. QED
    BY <2>1 DEF Claimable, Settled, IInv, TypeOK
<1>3. ASSUME NEW w \in Workers, Settle(w) \/ Fail(w)
      PROVE  status'[k] = status[k]
  <2>1. job[w] \in Works
    BY <1>3 DEF Settle, Fail, IInv, JobInv
  <2>2. \/ UNCHANGED status
        \/ \E s \in {"failed", "completed", "stale"} :
             claimedBy[job[w]] = w /\ status' = [status EXCEPT ![job[w]] = s]
    BY <1>3 DEF Settle, Fail, rowVars
  <2>3. claimedBy[job[w]] = w => status[job[w]] = "processing"
    BY <2>1, QueueNoneAssumption DEF QueueNoneAssumption, IInv, ClaimInv
  <2>4. QED
    BY <2>1, <2>2, <2>3 DEF Settled, IInv, TypeOK
<1>4. ASSUME UNCHANGED status
      PROVE  status'[k] = status[k]
  BY <1>4
<1>5. ASSUME \/ InstallBaseline
             \/ \E w \in Workers : \/ LoadWork(w) \/ Materialize(w) \/ ClassifyHistorical(w)
                                   \/ ClassifyLive(w) \/ Publish(w) \/ Crash(w)
             \/ \E j \in Works : LeaseExpires(j)
      PROVE  UNCHANGED status
  BY <1>5 DEF InstallBaseline, LoadWork, Materialize, ClassifyHistorical, ClassifyLive, Publish,
              Crash, LeaseExpires, rowVars
<1>6. QED
  BY <1>1, <1>2, <1>3, <1>4, <1>5 DEF Next, ProcessClaimedWork

\* No late worker, failure or takeover reopens what was settled.
THEOREM SpecSettledForGood == Spec => SettledForGood
<1>1. IInv /\ [Next]_vars =>
        [\A k \in Works : status[k] \in Settled => status'[k] = status[k]]_vars
  BY NextKeepsSettled
<1>2. QED
  BY <1>1, SpecIInv, PTL DEF Spec, SettledForGood

(***************************************************************************)
(* The queue implements LiveHead.                                          *)
(***************************************************************************)

LEMMA NextImplementsLiveHead ==
  ASSUME IInv, Next
  PROVE  [HeadOf!Next]_(HeadOf!headVars)
<1>1. ASSUME NEW r \in Results, SnapshotAndEnqueue(r)
      PROVE  HeadOf!Supersede(r)
  BY <1>1 DEF SnapshotAndEnqueue, HeadOf!Supersede
<1>2. ASSUME NEW w \in Workers, ClassifyLive(w)
      PROVE  \/ \E r \in Results : HeadOf!CatchUp(r)
             \/ UNCHANGED <<head, live, events>>
  <2>1. job[w] \in Works
    BY <1>2 DEF ClassifyLive, IInv, JobInv
  <2>2. job[w][1] \in Results
    BY <2>1, WorkParts
  <2>3. QED
    BY <1>2, <2>2 DEF ClassifyLive, HeadOf!CatchUp
<1>3. ASSUME NEW w \in Workers, Publish(w)
      PROVE  \/ \E r \in Results : HeadOf!Announce(r)
             \/ UNCHANGED <<head, live, events>>
  <2>1. job[w] \in Works /\ live[job[w][1]] >= job[w][2]
    BY <1>3 DEF Publish, IInv, JobInv, CurrentInv
  <2>2. PICK r \in Results, n \in 1 .. MaxRevision :
          job[w] = <<r, n>> /\ job[w][1] = r /\ job[w][2] = n
    BY <2>1, WorkParts
  <2>3. live[r] >= n /\ live[r] <= head[r] /\ live[r] \in Nat /\ head[r] \in Nat
    BY <2>1, <2>2, BoundsTyped DEF IInv, LiveInv, TypeOK
  <2>4. CASE head[r] = n /\ events' = events \cup {job[w]}
    <3>1. live[r] = head[r]
      BY <2>2, <2>3, <2>4
    <3>2. HeadOf!Announce(r)
      BY <1>3, <2>2, <2>4, <3>1 DEF Publish, HeadOf!Announce
    <3>3. QED
      BY <3>2
  <2>5. CASE UNCHANGED events
    BY <1>3, <2>5 DEF Publish
  <2>6. QED
    BY <1>3, <2>2, <2>4, <2>5 DEF Publish
<1>4. ASSUME \/ InstallBaseline
             \/ \E w \in Workers : \/ ClaimNextWork(w) \/ LoadWork(w) \/ Materialize(w)
                                   \/ ClassifyHistorical(w) \/ Settle(w) \/ Fail(w) \/ Crash(w)
             \/ \E j \in Works : LeaseExpires(j)
      PROVE  UNCHANGED <<head, live, events>>
  BY <1>4 DEF InstallBaseline, ClaimNextWork, LoadWork, Materialize, ClassifyHistorical, Settle,
              Fail, Crash, LeaseExpires
<1>5. QED
  BY <1>1, <1>2, <1>3, <1>4
  DEF Next, ProcessClaimedWork, HeadOf!Next, HeadOf!headVars

\* Live records only ever move to the head's revision, and an event is only
\* created for the head's revision once the live records account for it.
THEOREM SpecImplementsLiveHead == Spec => ImplementsLiveHead
<1>1. Init => HeadOf!Init
  BY DEF Init, HeadOf!Init
<1>2. IInv /\ [Next]_vars => [HeadOf!Next]_(HeadOf!headVars)
  BY NextImplementsLiveHead DEF vars, HeadOf!headVars
<1>3. QED
  BY <1>1, <1>2, SpecIInv, PTL DEF Spec, ImplementsLiveHead, HeadOf!Spec

(***************************************************************************)
(* Superseded projections, while no lease ran out under a living worker.   *)
(***************************************************************************)

\* No revision before k has a valid projection.
Cleared(k) == \A j \in Works : Earlier(j, k) => projection[j] # "valid"

\* A busy worker holds the lease of its work.
HeldInv ==
  \A w \in Workers : phase[w] # "idle" => claimedBy[job[w]] = w /\ ~expired[job[w]]

\* Older projections are invalid once a revision is materialized, and stay so.
ClearedInv ==
  /\ \A w \in Workers :
       phase[w] \in {"materialized", "publishing", "settling"} => Cleared(job[w])
  /\ \A k \in Works : status[k] = "completed" => Cleared(k)

OverrunInv == overruns = 0 => HeldInv /\ ClearedInv

LEMMA InitOverrunInv == Init => OverrunInv
  BY DEF Init, OverrunInv, HeldInv, ClearedInv, Cleared

\* Steps that touch neither projections nor the rows and phases they rest on.
LEMMA QuietOverrunInv ==
  ASSUME IInv, OverrunInv, overruns' = overruns,
         UNCHANGED <<projection, claimedBy, expired, phase, job>>,
         \A k \in Works : status'[k] = "completed" => status[k] = "completed"
  PROVE  OverrunInv'
<1> SUFFICES ASSUME overruns = 0
             PROVE  HeldInv' /\ ClearedInv'
  BY DEF OverrunInv
<1>1. HeldInv /\ ClearedInv
  BY DEF OverrunInv
<1>2. \A k : Cleared(k) => (\A j \in Works : Earlier(j, k) => projection'[j] # "valid")
  BY DEF Cleared
<1>3. HeldInv'
  BY <1>1 DEF HeldInv
<1>4. ClearedInv'
  BY <1>1, <1>2 DEF ClearedInv, Cleared, Earlier
<1>5. QED
  BY <1>3, <1>4

\* A claim is taken from nobody: whoever was busy with the work would hold it.
LEMMA ClaimOverrunInv ==
  ASSUME IInv, OverrunInv, NEW w \in Workers, ClaimNextWork(w)
  PROVE  OverrunInv'
<1>1. PICK k0 \in Works :
        /\ Claimable(k0)
        /\ status' = [status EXCEPT ![k0] = "processing"]
        /\ claimedBy' = [claimedBy EXCEPT ![k0] = w]
        /\ expired' = [expired EXCEPT ![k0] = FALSE]
        /\ job' = [job EXCEPT ![w] = k0]
  BY DEF ClaimNextWork
<1>2. /\ phase[w] = "idle"
      /\ phase' = [phase EXCEPT ![w] = "claimed"]
      /\ projection' = projection /\ overruns' = overruns
  BY DEF ClaimNextWork, bounds
<1> SUFFICES ASSUME overruns = 0
             PROVE  HeldInv' /\ ClearedInv'
  BY <1>2 DEF OverrunInv
<1>3. HeldInv /\ ClearedInv
  BY DEF OverrunInv
<1>4. \A v \in Workers : phase[v] # "idle" => job[v] # k0 /\ job[v] \in Works
  <2> SUFFICES ASSUME NEW v \in Workers, phase[v] # "idle", job[v] = k0
               PROVE  FALSE
    BY DEF IInv, JobInv
  <2>1. claimedBy[k0] = v /\ ~expired[k0]
    BY <1>3 DEF HeldInv
  <2>2. status[k0] = "processing"
    BY <2>1, QueueNoneAssumption DEF QueueNoneAssumption, IInv, ClaimInv
  <2>3. QED
    BY <1>1, <2>1, <2>2 DEF Claimable
<1>5. HeldInv'
  <2> SUFFICES ASSUME NEW v \in Workers, phase'[v] # "idle"
               PROVE  claimedBy'[job'[v]] = v /\ ~expired'[job'[v]]
    BY DEF HeldInv
  <2>1. CASE v = w
    BY <1>1, <2>1 DEF IInv, TypeOK
  <2>2. CASE v # w
    <3>1. phase[v] # "idle" /\ job'[v] = job[v]
      BY <1>1, <1>2, <2>2 DEF IInv, TypeOK
    <3>2. QED
      BY <1>1, <1>3, <1>4, <3>1 DEF IInv, TypeOK, HeldInv
  <2>3. QED
    BY <2>1, <2>2
<1>6. ClearedInv'
  <2>1. \A k : Cleared(k) => (\A j \in Works : Earlier(j, k) => projection'[j] # "valid")
    BY <1>2 DEF Cleared
  <2>2. ASSUME NEW v \in Workers, phase'[v] \in {"materialized", "publishing", "settling"}
        PROVE  Cleared(job[v]) /\ job'[v] = job[v]
    BY <1>1, <1>2, <1>3, <2>2 DEF IInv, TypeOK, ClearedInv
  <2>3. ASSUME NEW k \in Works, status'[k] = "completed"
        PROVE  Cleared(k)
    BY <1>1, <1>3, <2>3 DEF IInv, TypeOK, ClearedInv
  <2>4. QED
    BY <2>1, <2>2, <2>3 DEF ClearedInv, Cleared, Earlier
<1>7. QED
  BY <1>5, <1>6

\* Revisions whose later revision is done or under way have no worker.
LEMMA MaterializeOverrunInv ==
  ASSUME IInv, OverrunInv, NEW w \in Workers, Materialize(w)
  PROVE  OverrunInv'
<1> DEFINE k0 == job[w]
<1>1. /\ phase[w] = "loaded"
      /\ phase' = [phase EXCEPT ![w] = "materialized"]
      /\ UNCHANGED <<status, claimedBy, expired, job, overruns>>
  BY DEF Materialize, rowVars, bounds
<1>2. k0 \in Works
  BY <1>1 DEF IInv, JobInv
<1>3. \A p \in Works :
        /\ projection'[p] = "valid" /\ p # k0 => projection[p] = "valid" /\ ~Earlier(p, k0)
  BY DEF Materialize
<1> SUFFICES ASSUME overruns = 0
             PROVE  HeldInv' /\ ClearedInv'
  BY <1>1 DEF OverrunInv
<1>4. HeldInv /\ ClearedInv
  BY DEF OverrunInv
<1>5. claimedBy[k0] = w
  BY <1>1, <1>4 DEF HeldInv
<1>6. status[k0] = "processing"
  BY <1>2, <1>5, QueueNoneAssumption DEF QueueNoneAssumption, IInv, ClaimInv
<1>7. HeldInv'
  BY <1>1, <1>4 DEF IInv, TypeOK, HeldInv
<1>8. \A k \in Works : status[k] \notin {"absent", "pending"} => ~Earlier(k0, k)
  BY <1>2, <1>6 DEF IInv, HandledInOrder, Settled
<1>9. \A k \in Works : status[k] \notin {"absent", "pending"} /\ Cleared(k) =>
        (\A j \in Works : Earlier(j, k) => projection'[j] # "valid")
  BY <1>3, <1>8 DEF Cleared
<1>10. \A j \in Works : Earlier(j, k0) => projection'[j] # "valid"
  BY <1>3, WorkParts DEF Earlier
<1>11. ASSUME NEW v \in Workers, phase'[v] \in {"materialized", "publishing", "settling"}
       PROVE  \A j \in Works : Earlier(j, job[v]) => projection'[j] # "valid"
  <2>1. CASE v = w
    BY <1>10, <2>1
  <2>2. CASE v # w
    <3>1. phase[v] \in {"materialized", "publishing", "settling"}
      BY <1>1, <1>11, <2>2 DEF IInv, TypeOK
    <3>2. job[v] \in Works /\ status[job[v]] \notin {"absent", "pending"} /\ Cleared(job[v])
      BY <1>4, <3>1 DEF IInv, JobInv, ClearedInv
    <3>3. QED
      BY <1>9, <3>2
  <2>3. QED
    BY <2>1, <2>2
<1>12. ASSUME NEW k \in Works, status[k] = "completed"
       PROVE  \A j \in Works : Earlier(j, k) => projection'[j] # "valid"
  BY <1>4, <1>9, <1>12 DEF ClearedInv
<1>13. ClearedInv'
  BY <1>1, <1>11, <1>12 DEF ClearedInv, Cleared, Earlier
<1>14. QED
  BY <1>7, <1>13

\* The other steps between claim and settling only move the worker's phase.
LEMMA ProcessOverrunInv ==
  ASSUME IInv, OverrunInv, NEW w \in Workers,
         LoadWork(w) \/ ClassifyHistorical(w) \/ ClassifyLive(w) \/ Publish(w)
  PROVE  OverrunInv'
<1>1. /\ UNCHANGED <<status, claimedBy, expired, job, projection, overruns>>
      /\ phase[w] # "idle"
      /\ phase' = [phase EXCEPT ![w] = phase'[w]]
      /\ phase'[w] \in {"materialized", "publishing", "settling"} =>
           phase[w] \in {"materialized", "publishing"}
  BY DEF LoadWork, ClassifyHistorical, ClassifyLive, Publish, rowVars, bounds, IInv, TypeOK
<1> SUFFICES ASSUME overruns = 0
             PROVE  HeldInv' /\ ClearedInv'
  BY <1>1 DEF OverrunInv
<1>2. HeldInv /\ ClearedInv
  BY DEF OverrunInv
<1>3. HeldInv'
  BY <1>1, <1>2 DEF IInv, TypeOK, HeldInv
<1>4. \A v \in Workers : phase'[v] \in {"materialized", "publishing", "settling"} =>
        Cleared(job[v])
  BY <1>1, <1>2 DEF IInv, TypeOK, ClearedInv
<1>5. \A k \in Works : status[k] = "completed" => Cleared(k)
  BY <1>2 DEF ClearedInv
<1>6. ClearedInv'
  BY <1>1, <1>4, <1>5 DEF ClearedInv, Cleared, Earlier
<1>7. QED
  BY <1>3, <1>6

\* The only busy worker of a work leaves it.
LEMMA LeaveOverrunInv ==
  ASSUME IInv, OverrunInv, NEW w \in Workers, Settle(w) \/ Fail(w) \/ Crash(w)
  PROVE  OverrunInv'
<1> DEFINE k0 == job[w]
<1>1. phase[w] # "idle" /\ k0 \in Works
  BY DEF IInv, JobInv, Settle, Fail, Crash
<1>2. /\ phase' = [phase EXCEPT ![w] = "idle"]
      /\ job' = [job EXCEPT ![w] = None]
      /\ projection' = projection /\ overruns' = overruns
  BY DEF Settle, Fail, Crash, Return, bounds
<1> SUFFICES ASSUME overruns = 0
             PROVE  HeldInv' /\ ClearedInv'
  BY <1>2 DEF OverrunInv
<1>3. HeldInv /\ ClearedInv
  BY DEF OverrunInv
<1>4. /\ \A k \in Works : k # k0 => claimedBy'[k] = claimedBy[k] /\ expired'[k] = expired[k]
                                    /\ status'[k] = status[k]
      /\ status'[k0] = "completed" => phase[w] = "settling" \/ status[k0] = "completed"
  BY <1>1 DEF Settle, Fail, Crash, rowVars, IInv, TypeOK
<1>5. ASSUME NEW v \in Workers, phase'[v] # "idle"
      PROVE  /\ v # w /\ phase'[v] = phase[v] /\ job'[v] = job[v]
             /\ job[v] \in Works /\ job[v] # k0
  <2>1. v # w /\ phase'[v] = phase[v] /\ job'[v] = job[v]
    BY <1>2, <1>5 DEF IInv, TypeOK
  <2>2. job[v] \in Works
    BY <1>5, <2>1 DEF IInv, JobInv
  <2>3. job[v] # k0
    BY <1>1, <1>3, <1>5, <2>1 DEF HeldInv
  <2>4. QED
    BY <2>1, <2>2, <2>3
<1>6. HeldInv'
  BY <1>3, <1>4, <1>5 DEF HeldInv
<1>7. \A v \in Workers : phase'[v] \in {"materialized", "publishing", "settling"} =>
        Cleared(job[v]) /\ job'[v] = job[v]
  BY <1>3, <1>5 DEF ClearedInv
<1>8. \A k \in Works : status'[k] = "completed" => Cleared(k)
  BY <1>3, <1>4 DEF ClearedInv
<1>9. ClearedInv'
  BY <1>2, <1>7, <1>8 DEF ClearedInv, Cleared, Earlier
<1>10. QED
  BY <1>6, <1>9

\* A lease that runs out is nobody's, or it is an overrun.
LEMMA ExpiryOverrunInv ==
  ASSUME IInv, OverrunInv, NEW k0 \in Works, LeaseExpires(k0)
  PROVE  OverrunInv'
<1>1. /\ expired' = [expired EXCEPT ![k0] = TRUE]
      /\ UNCHANGED <<status, claimedBy, projection, phase, job>>
      /\ IF InHand(k0) THEN overruns' = overruns + 1 ELSE overruns' = overruns
  BY DEF LeaseExpires, workerVars
<1> SUFFICES ASSUME overruns' = 0
             PROVE  HeldInv' /\ ClearedInv'
  BY DEF OverrunInv
<1>2. overruns = 0 /\ ~InHand(k0)
  BY <1>1 DEF IInv, TypeOK
<1>3. HeldInv /\ ClearedInv
  BY <1>2 DEF OverrunInv
<1>4. \A v \in Workers : phase[v] # "idle" => job[v] # k0 /\ job[v] \in Works
  BY <1>2, <1>3 DEF InHand, HeldInv, IInv, JobInv
<1>5. HeldInv'
  BY <1>1, <1>3, <1>4 DEF HeldInv, IInv, TypeOK
<1>6. ClearedInv'
  BY <1>1, <1>3 DEF ClearedInv, Cleared, Earlier
<1>7. QED
  BY <1>5, <1>6

LEMMA NextOverrunInv == IInv /\ OverrunInv /\ [Next]_vars => OverrunInv'
<1> SUFFICES ASSUME IInv, OverrunInv, [Next]_vars
             PROVE  OverrunInv'
  OBVIOUS
<1>1. CASE InstallBaseline
  BY <1>1, QuietOverrunInv DEF InstallBaseline, rowVars, workerVars, bounds
<1>2. ASSUME NEW r \in Results, SnapshotAndEnqueue(r)
      PROVE  OverrunInv'
  <2>1. \A k \in Works : status'[k] = "completed" => status[k] = "completed"
    BY <1>2 DEF SnapshotAndEnqueue, IInv, TypeOK
  <2>2. QED
    BY <1>2, <2>1, QuietOverrunInv DEF SnapshotAndEnqueue, workerVars, bounds
<1>3. CASE UNCHANGED vars
  BY <1>3, QuietOverrunInv DEF vars, rowVars, workerVars, bounds
<1>4. QED
  BY <1>1, <1>2, <1>3, ClaimOverrunInv, MaterializeOverrunInv, ProcessOverrunInv,
     LeaveOverrunInv, ExpiryOverrunInv DEF Next, ProcessClaimedWork

\* As long as every lease outlived its worker, no revision before a completed
\* one keeps a valid projection, whatever failed or crashed meanwhile.
THEOREM SpecInvalidUnlessOverrun == Spec => []InvalidUnlessOverrun
<1>1. OverrunInv => InvalidUnlessOverrun
  BY DEF OverrunInv, ClearedInv, Cleared, InvalidUnlessOverrun, SupersededProjectionsInvalid
<1>2. QED
  BY <1>1, InitOverrunInv, NextOverrunInv, SpecIInv, PTL DEF Spec
=============================================================================
