------------------------- MODULE ImportSource_proofs -------------------------
(***************************************************************************)
(* Proofs about ImportSource for any number of attempts, posts, retries    *)
(* and faults: the state is well typed, review only reads sources recorded *)
(* clean, a cancel holds against whatever was not asked for before it, and *)
(* until an attempt is timed out the source of a job past its scan is left *)
(* alone, or recorded failed after a lost report.                          *)
(***************************************************************************)
EXTENDS ImportSource, TLAPS

-----------------------------------------------------------------------------
(* Type correctness, first of what the actions are made of. *)

LEMMA Bounds == /\ MaxTries \in Nat \ {0} /\ MaxUploads \in Nat
                /\ MaxLost \in Nat /\ MaxTimeouts \in Nat
BY BoundAssumption

\* A workflow that awaits no attempt has a try left, and a closed one is at rest.
Runs == {w \in Workflow : /\ w.phase = "closed" => w = Closed
                          /\ w # Closed /\ w.cur = None => w.tries < MaxTries}

\* Past the head an attempt holds a version, and so does a source being scanned.
Held ==
    /\ job.status = "scanning" => source.version # 0
    /\ \A a \in Attempts :
          \/ att[a].phase = "verify" /\ att[a].pc \in {"hash", "record"}
          \/ att[a].phase = "scan" /\ att[a].pc # "begin"
          => att[a].seen # 0

IInv == TypeOK /\ wf \in Runs /\ Held

LEMMA FreshType == Closed \in Runs /\ \A phase \in Phases : Open(phase) \in Runs
BY Bounds DEF Runs, Open, Closed, Workflow, Phases

LEMMA AfterFailureType == ASSUME NEW phase PROVE AfterFailure(phase) \in Runs
BY FreshType DEF AfterFailure, Phases

LEMMA OutcomeType ==
    ASSUME NEW w \in Runs, w # Closed, NEW result
    PROVE  Outcome(w, result) \in Runs
<1>1. [w EXCEPT !.cur = None] \in Workflow
    BY DEF Runs, Workflow
<1>2. w.tries < MaxTries => [w EXCEPT !.cur = None] \in Runs
    BY <1>1 DEF Runs, Workflow, Closed
<1> QED BY <1>2, FreshType, AfterFailureType DEF Outcome, Phases

LEMMA ReportType ==
    ASSUME IInv, NEW a \in Attempts, NEW result, Report(a, result)
    PROVE  wf' \in Runs
<1>1. CASE ~Live(a)
    BY <1>1 DEF IInv, Report
<1>2. CASE Live(a)
  <2>1. wf # Closed
      BY <1>2, NoneAssumption DEF Live, Closed
  <2> QED BY <1>2, <2>1, OutcomeType DEF IInv, Report
<1> QED BY <1>1, <1>2

LEMMA EndType ==
    ASSUME IInv, NEW a \in Attempts, NEW result, End(a, result)
    PROVE  wf' \in Runs /\ wf' \in Workflow /\ att' \in [Attempts -> Attempt]
BY ReportType DEF IInv, TypeOK, Runs, End, Idle, Attempt

LEMMA GoType ==
    ASSUME IInv, NEW a \in Attempts, NEW pc, Go(a, pc),
           pc \in {"begin", "head", "hash", "reject", "record", "read", "refuse", "clean",
                   "infected", "remove", "return", "raise"}
    PROVE  wf' \in Runs /\ wf' \in Workflow /\ att' \in [Attempts -> Attempt]
BY DEF IInv, TypeOK, Go, Attempt, Runs

LEMMA MoveType ==
    ASSUME TypeOK, NEW status \in Status, NEW state, Move(status, state),
           [source EXCEPT !.state = state] \in Source
    PROVE  job' \in Job /\ source' \in Source
BY DEF TypeOK, Move, Job

LEMMA FailType ==
    ASSUME TypeOK, NEW scan, Fail(scan),
           scan \in {"not_started", "pending", "clean", "infected", "failed"}
    PROVE  job' \in Job /\ source' \in Source
BY DEF TypeOK, Fail, rows, Job, Source, Status, Busy, UnderReview, Applied

\* Review, apply and compensation turn the job, and nothing else.
ReviewStep ==
    \/ CreateMapping \/ StartValidation \/ Validate \/ FailValidation
    \/ StartApply \/ FinishApply \/ FailApply
    \/ StartCompensation \/ FinishCompensation \/ FailCompensation

\* What ImportReview, ImportApply and this module's job know of each other: a job
\* cancelled or failed is moved on only by what was asked for before.
LEMMA ReviewTurns ==
    ASSUME TypeOK, ReviewStep
    PROVE  /\ UNCHANGED <<source, store, temporal, att, bounds>>
           /\ job' \in Job
           /\ job'.asked = 0 => job.asked = 0
           /\ \/ job.asked >= 1
              \/ job.status \in {"ready_for_mapping", "ready_for_review", "validating",
                                "completed"}
           /\ job'.status \in {"ready_for_mapping", "failed"} \cup UnderReview \cup Applied
           /\ job.status \in {"cancelled", "failed"} =>
                 \/ job.status = "failed" /\ job'.status = "failed"
                 \/ job.asked >= 2 /\ job'.status \in {"completed", "compensated"}
           /\ job'.status \in UnderReview =>
                 \/ job.status \in UnderReview
                 \/ source.state = "clean" /\ source.scan = "clean"
<1> USE DEF TypeOK, Job, Asked, Status, Busy, UnderReview, Applied
<1>1. ASSUME NEW status \in Status, NEW asked \in Asked, Turns(status, asked)
      PROVE  /\ UNCHANGED <<source, store, temporal, att, bounds>>
             /\ job' \in Job /\ job'.status = status /\ job'.asked = asked
    BY <1>1 DEF Turns
<1>2. CASE StartValidation
  <2> DEFINE asked == IF job.asked = 0 THEN 1 ELSE job.asked
  <2>1. asked \in Asked /\ asked # 0
      OBVIOUS
  <2>2. /\ Turns("validating", asked) /\ job.status = "ready_for_mapping"
        /\ source.state = "clean" /\ source.scan = "clean"
      BY <1>2 DEF StartValidation
  <2> HIDE DEF asked
  <2> QED BY <1>1, <2>1, <2>2
<1>3. CASE CreateMapping \/ Validate
  <2>1. CASE job.status = "ready_for_review" /\ Turns("ready_for_mapping", job.asked)
      BY <1>1, <2>1
  <2>2. CASE job.status = "validating" /\ Turns("ready_for_review", job.asked)
      BY <1>1, <2>2
  <2> QED BY <1>3, <2>1, <2>2 DEF CreateMapping, Validate
<1>4. CASE FailValidation \/ FinishApply \/ FailApply \/ FinishCompensation \/ FailCompensation
  <2>1. CASE job.asked >= 1 /\ job.status # "cancelled" /\ Turns("failed", job.asked)
      BY <1>1, <2>1
  <2>2. CASE job.asked >= 2 /\ Turns("completed", job.asked)
      BY <1>1, <2>2
  <2>3. CASE job.asked >= 2 /\ Turns("compensated", job.asked)
      BY <1>1, <2>3
  <2>4. job.asked = 3 => job.asked >= 2
      OBVIOUS
  <2>5. job.asked >= 2 => job.asked >= 1
      OBVIOUS
  <2> QED BY <1>4, <2>1, <2>2, <2>3, <2>4, <2>5
          DEF FailValidation, FinishApply, FailApply, FinishCompensation, FailCompensation
<1>5. CASE StartApply \/ StartCompensation
  <2>1. \/ job.status = "ready_for_review" /\ Turns("applying", 2)
        \/ job.status = "completed" /\ Turns("compensating", 3)
      BY <1>5 DEF StartApply, StartCompensation
  <2> QED BY <1>1, <2>1
<1> QED BY <1>2, <1>3, <1>4, <1>5 DEF ReviewStep

LEMMA ActivityTypeOK ==
    ASSUME IInv, NEW a \in Attempts, Activity(a)
    PROVE  TypeOK' /\ wf' \in Runs
<1> USE DEF IInv, TypeOK, bounds, store, rows, temporal, Status, Busy, UnderReview, Applied
<1>1. CASE MoveToVerifying(a)
    BY <1>1, EndType, GoType, MoveType DEF MoveToVerifying, Source
<1>2. CASE HeadSource(a)
  <2> PICK v \in Uploads \cup {0} :
          att' = [att EXCEPT ![a].pc = IF v = 0 THEN "reject" ELSE "hash", ![a].seen = v]
      BY <1>2 DEF HeadSource
  <2>1. att' \in [Attempts -> Attempt]
      BY DEF Attempt
  <2> QED BY <1>2, <2>1 DEF HeadSource
<1>3. CASE HashSource(a)
    BY <1>3, GoType DEF HashSource
<1>4. CASE RejectSource(a)
    BY <1>4, GoType, FailType DEF RejectSource, Source
<1>5. CASE RecordVerified(a)
  <2>1. End(a, "stop") \/ Go(a, "return")
      BY <1>5 DEF RecordVerified
  <2>2. wf' \in Runs /\ wf' \in Workflow /\ att' \in [Attempts -> Attempt]
      BY <2>1, EndType, GoType
  <2> QED BY <1>5, <2>2 DEF RecordVerified, Job, Source, Attempt
<1>6. CASE StartScan(a)
  <2>1. CASE End(a, "ok") \/ End(a, "fatal")
      BY <1>6, <2>1, EndType DEF StartScan
  <2>2. CASE att' = [att EXCEPT ![a].pc = "read", ![a].seen = source.version] /\ UNCHANGED wf
      BY <1>6, <2>2 DEF StartScan, Attempt, Source
  <2> QED BY <1>6, <2>1, <2>2 DEF StartScan
<1>7. CASE ScanSource(a)
  <2> PICK v \in Uploads \cup {0} :
          /\ IsNewest(v)
          /\ (v # 0 /\ Go(a, verdict[stored[v]])) \/ Go(a, "refuse")
      BY <1>7 DEF ScanSource
  <2>1. CASE Go(a, "refuse")
      BY <1>7, <2>1, GoType DEF ScanSource
  <2>2. CASE v # 0 /\ Go(a, verdict[stored[v]])
    <3>1. v \in Uploads /\ stored[v] # "absent"
        BY <2>2 DEF IsNewest, Staged
    <3>2. verdict[stored[v]] \in {"clean", "infected"}
        BY <3>1
    <3> QED BY <1>7, <2>2, <3>2, GoType DEF ScanSource
  <2> QED BY <2>1, <2>2
<1>8. CASE FailScan(a)
  <2>1. Go(a, "return") \/ Go(a, "raise")
      BY <1>8 DEF FailScan
  <2> QED BY <1>8, <2>1, GoType, FailType DEF FailScan
<1>9. CASE RecordClean(a)
    BY <1>9, GoType DEF RecordClean, Job, Source
<1>10. CASE QuarantineSource(a)
  <2>1. quarantine' \in Uploads \cup {0}
      BY <1>10 DEF QuarantineSource, Isolate, Attempt
  <2>2. End(a, "fatal") \/ Go(a, "record")
      BY <1>10 DEF QuarantineSource, Isolate
  <2>3. wf' \in Runs /\ wf' \in Workflow /\ att' \in [Attempts -> Attempt]
      BY <2>2, EndType, GoType
  <2> QED BY <1>10, <2>1, <2>3 DEF QuarantineSource
<1>11. CASE RecordInfected(a)
    BY <1>11, GoType DEF RecordInfected, Job, Source
<1>12. CASE RemoveInfected(a)
  <2>1. att[a].seen \in Uploads
      BY <1>12 DEF RemoveInfected, At, Held, Attempt
  <2> QED BY <1>12, <2>1, GoType DEF RemoveInfected
<1>13. CASE Answer(a)
    BY <1>13, EndType DEF Answer
<1> QED BY <1>1, <1>2, <1>3, <1>4, <1>5, <1>6, <1>7, <1>8, <1>9, <1>10, <1>11, <1>12, <1>13
        DEF Activity

LEMMA InitIInv == Init => IInv
<1> SUFFICES ASSUME Init PROVE IInv
    OBVIOUS
<1>1. job \in Job /\ source \in Source
    BY DEF Init, Job, Asked, Source, Status, Busy, UnderReview, Applied
<1>2. wf \in Workflow /\ att \in [Attempts -> Attempt]
    BY Bounds DEF Init, Closed, Workflow, Idle, Attempt
<1>3. stored \in [Uploads -> Bytes \cup {"absent"}] /\ verdict \in [Bytes -> {"clean", "infected"}]
    BY DEF Init
<1>4. launch \in BOOLEAN /\ cancelling \in BOOLEAN
    BY DEF Init
<1>5. TypeOK
    BY <1>1, <1>2, <1>3, <1>4, Bounds DEF Init, TypeOK
<1> QED BY <1>5, FreshType DEF Init, IInv, Held, Idle

LEMMA StepTypeOK == IInv /\ [Next]_vars => TypeOK' /\ wf' \in Runs
<1> SUFFICES ASSUME IInv, [Next]_vars PROVE TypeOK' /\ wf' \in Runs
    OBVIOUS
<1> USE DEF IInv, TypeOK, bounds, store, rows, temporal, Status, Busy, UnderReview, Applied
<1>1. CASE Upload
    BY <1>1 DEF Upload
<1>2. CASE Create
    BY <1>2, MoveType DEF Create, Source
<1>3. CASE Expire
    BY <1>3, MoveType DEF Expire, Source
<1>4. CASE Complete
    BY <1>4 DEF Complete, Job, Source
<1>5. CASE ReplayComplete
    BY <1>5 DEF ReplayComplete
<1>6. CASE Cancel
    BY <1>6, MoveType DEF Cancel, Source, Job
<1>7. CASE ReviewStep
    BY <1>7, ReviewTurns DEF Runs
<1>10. CASE Launch
  <2>1. /\ launch' = FALSE /\ wf' \in {wf, Open("verify")}
        /\ UNCHANGED <<rows, store, cancelling, att, bounds>>
      BY <1>10 DEF Launch
  <2>2. Open("verify") \in Runs
      BY FreshType DEF Phases
  <2> QED BY <2>1, <2>2 DEF Runs
<1>11. CASE LoseLaunch
  <2>1. /\ lost < MaxLost /\ lost' = lost + 1 /\ launch' = FALSE
        /\ UNCHANGED <<rows, store, cancelling, wf, att, timeouts>>
      BY <1>11 DEF LoseLaunch
  <2>2. lost' \in 0 .. MaxLost
      BY <2>1, Bounds
  <2> QED BY <2>1, <2>2
<1>12. CASE DeliverCancel
  <2>1. /\ cancelling' = FALSE /\ wf' = AfterFailure(wf.phase)
        /\ UNCHANGED <<rows, store, launch, att, bounds>>
      BY <1>12 DEF DeliverCancel
  <2> QED BY <2>1, AfterFailureType DEF Runs
<1>13. CASE LoseCancel
  <2>1. /\ lost < MaxLost /\ lost' = lost + 1 /\ cancelling' = FALSE
        /\ UNCHANGED <<rows, store, launch, wf, att, timeouts>>
      BY <1>13 DEF LoseCancel
  <2>2. lost' \in 0 .. MaxLost
      BY <2>1, Bounds
  <2> QED BY <2>1, <2>2
<1>14. CASE Schedule
  <2> PICK a \in Attempts :
          /\ att' = [att EXCEPT ![a].phase = wf.phase]
          /\ wf' = [wf EXCEPT !.cur = a, !.tries = @ + 1]
      BY <1>14 DEF Schedule
  <2> wf # Closed /\ wf.cur = None
      BY <1>14 DEF Schedule
  <2> wf.tries < MaxTries
      BY DEF Runs
  <2> wf.phase \in Phases
      BY Bounds DEF Runs, Workflow, Closed
  <2>1. wf' = [phase |-> wf.phase, tries |-> wf.tries + 1, cur |-> a]
      BY DEF Workflow
  <2>4. wf.tries + 1 \in 0 .. MaxTries
      BY Bounds DEF Workflow
  <2>5. wf' \in Workflow /\ wf'.cur = a /\ wf'.phase # "closed"
      BY <2>1, <2>4 DEF Workflow, Phases
  <2>2. wf' \in Runs
      BY <2>5, NoneAssumption DEF Runs
  <2>3. att' \in [Attempts -> Attempt]
      BY DEF Attempt
  <2> QED BY <1>14, <2>2, <2>3, <2>5 DEF Schedule
<1>15. ASSUME NEW a \in Attempts, Activity(a) PROVE TypeOK' /\ wf' \in Runs
    BY <1>15, ActivityTypeOK
<1>16. ASSUME NEW a \in Attempts, AttemptLost(a) PROVE TypeOK' /\ wf' \in Runs
    BY <1>16, EndType, Bounds DEF AttemptLost
<1>17. ASSUME NEW a \in Attempts, Timeout(a) PROVE TypeOK' /\ wf' \in Runs
    BY <1>17, ReportType, Bounds DEF Timeout, Runs
<1>18. ASSUME NEW a \in Attempts, ZombieEnds(a) PROVE TypeOK' /\ wf' \in Runs
    BY <1>18 DEF ZombieEnds, Idle, Attempt
<1>19. CASE UNCHANGED vars
    BY <1>19 DEF vars
<1> QED BY <1>1, <1>2, <1>3, <1>4, <1>5, <1>6, <1>7, <1>10, <1>11, <1>12, <1>13,
           <1>14, <1>15, <1>16, <1>17, <1>18, <1>19 DEF Next, ReviewStep

\* Only RecordVerified sets a job scanning, and it names the version it saw.
LEMMA StepHeld == IInv /\ [Next]_vars => Held'
<1> SUFFICES ASSUME IInv, [Next]_vars PROVE Held'
    OBVIOUS
<1> USE DEF IInv, TypeOK, Held, Job, Source, Attempt, rows, bounds, store, temporal
<1>1. CASE Create \/ Expire \/ Cancel
    BY <1>1 DEF Create, Expire, Cancel, Move
<1>2. CASE Complete
    BY <1>2 DEF Complete
<1>3. CASE ReviewStep
    BY <1>3, ReviewTurns DEF UnderReview, Applied
<1>4. CASE Upload \/ ReplayComplete \/ Launch \/ LoseLaunch \/ DeliverCancel \/ LoseCancel
    BY <1>4 DEF Upload, ReplayComplete, Launch, LoseLaunch, DeliverCancel, LoseCancel
<1>5. CASE Schedule
    BY <1>5 DEF Schedule, Idle
<1>6. ASSUME NEW a \in Attempts, Activity(a) PROVE Held'
  <2>1. CASE MoveToVerifying(a)
      BY <2>1 DEF MoveToVerifying, At, Move, End, Go, Idle
  <2>2. CASE HeadSource(a)
      BY <2>2 DEF HeadSource, At
  <2>3. CASE HashSource(a)
      BY <2>3 DEF HashSource, At, Go
  <2>4. CASE RejectSource(a) \/ FailScan(a)
      BY <2>4 DEF RejectSource, FailScan, At, Fail, Go
  <2>5. CASE RecordVerified(a)
      BY <2>5 DEF RecordVerified, At, End, Go, Idle, Scanning
  <2>6. CASE StartScan(a)
      BY <2>6 DEF StartScan, At, End, Idle, Scanning
  <2>7. CASE ScanSource(a)
      BY <2>7 DEF ScanSource, At, Go
  <2>8. CASE RecordClean(a)
      BY <2>8 DEF RecordClean, At, Go
  <2>9. CASE QuarantineSource(a)
      BY <2>9 DEF QuarantineSource, Isolate, At, Go, End, Idle
  <2>10. CASE RecordInfected(a)
      BY <2>10 DEF RecordInfected, At, Go
  <2>11. CASE RemoveInfected(a)
      BY <2>11 DEF RemoveInfected, At, Go
  <2>12. CASE Answer(a)
      BY <2>12 DEF Answer, End, Idle
  <2> QED BY <1>6, <2>1, <2>2, <2>3, <2>4, <2>5, <2>6, <2>7, <2>8, <2>9, <2>10, <2>11, <2>12
          DEF Activity
<1>7. ASSUME NEW a \in Attempts, AttemptLost(a) \/ Timeout(a) \/ ZombieEnds(a) PROVE Held'
    BY <1>7, NoneAssumption DEF AttemptLost, Timeout, ZombieEnds, End, Idle
<1>8. CASE UNCHANGED vars
    BY <1>8 DEF vars
<1> QED BY <1>1, <1>2, <1>3, <1>4, <1>5, <1>6, <1>7, <1>8 DEF Next, ReviewStep

LEMMA StepIInv == IInv /\ [Next]_vars => IInv'
BY StepTypeOK, StepHeld DEF IInv

LEMMA Invariance == Spec => []IInv
BY InitIInv, StepIInv, PTL DEF Spec

\* import_source_activity.py, business_imports.py: whatever calls, attempts and faults
\* follow one another, the two rows, the store and the workflow keep their types.
THEOREM TypeCorrect == Spec => []TypeOK
<1>1. IInv => TypeOK
    BY DEF IInv
<1> QED BY <1>1, Invariance, PTL

-----------------------------------------------------------------------------
(* What a step does to the two rows.  Every action is one of these: a move  *)
(* named by the status the job had, or nothing.                            *)

\* The ways in which an activity writes, whoever runs it and however late.
Writes ==
    \/ UNCHANGED rows
    \/ job.status \in Busy /\ Move("verifying", "verifying")
    \/ \E scan : Fail(scan)
    \/ /\ ~Cancelled /\ job' = [job EXCEPT !.status = "scanning"]
    \/ /\ ~Cancelled /\ job' = [job EXCEPT !.status = "ready_for_mapping"]
    \/ /\ job' = [job EXCEPT !.status = "failed"]
       /\ source' = [source EXCEPT !.state = "quarantined", !.scan = "infected"]

LEMMA ActivityWrites ==
    ASSUME NEW a \in Attempts, Activity(a)
    PROVE  Writes
<1> USE DEF Writes, rows, store, bounds, temporal
<1>1. CASE MoveToVerifying(a)
    BY <1>1 DEF MoveToVerifying, Unverified, Busy
<1>2. CASE RejectSource(a) \/ FailScan(a)
    BY <1>2 DEF RejectSource, FailScan
<1>3. CASE RecordVerified(a)
    BY <1>3 DEF RecordVerified
<1>4. CASE RecordClean(a)
    BY <1>4 DEF RecordClean
<1>5. CASE RecordInfected(a)
    BY <1>5 DEF RecordInfected
<1>6. CASE HeadSource(a) \/ HashSource(a) \/ StartScan(a) \/ ScanSource(a)
              \/ QuarantineSource(a) \/ RemoveInfected(a) \/ Answer(a)
    BY <1>6 DEF HeadSource, HashSource, StartScan, ScanSource, QuarantineSource, RemoveInfected,
                Answer
<1> QED BY <1>1, <1>2, <1>3, <1>4, <1>5, <1>6 DEF Activity

LEMMA WritesKeepReview ==
    ASSUME TypeOK, ReviewedIsClean, Writes
    PROVE  ReviewedIsClean'
<1> USE DEF TypeOK, ReviewedIsClean, UnderReview, Job
<1>1. CASE UNCHANGED rows
    BY <1>1 DEF rows
<1>2. CASE \E scan : Fail(scan)
    BY <1>2 DEF Fail, rows
<1>3. CASE job' = [job EXCEPT !.status = "failed"]
    BY <1>3
<1>4. CASE job' = [job EXCEPT !.status = "scanning"]
              \/ job' = [job EXCEPT !.status = "ready_for_mapping"]
    BY <1>4
<1>5. CASE Move("verifying", "verifying")
    BY <1>5 DEF Move
<1> QED BY <1>1, <1>2, <1>3, <1>4, <1>5 DEF Writes

LEMMA StepReviewedIsClean ==
    TypeOK /\ ReviewedIsClean /\ [Next]_vars => ReviewedIsClean'
<1> SUFFICES ASSUME TypeOK, ReviewedIsClean, [Next]_vars PROVE ReviewedIsClean'
    OBVIOUS
<1> USE DEF TypeOK, ReviewedIsClean, UnderReview, Job, rows
<1>1. CASE Create \/ Expire \/ Cancel
    BY <1>1 DEF Create, Expire, Cancel, Move
<1>2. CASE Complete
    BY <1>2 DEF Complete
<1>3. CASE ReviewStep
    BY <1>3, ReviewTurns
<1>4. ASSUME NEW a \in Attempts, Activity(a) PROVE ReviewedIsClean'
    BY <1>4, ActivityWrites, WritesKeepReview
<1>5. CASE UNCHANGED rows
    BY <1>5
<1>6. CASE \/ Upload \/ ReplayComplete \/ Launch \/ LoseLaunch \/ DeliverCancel \/ LoseCancel
          \/ Schedule \/ \E a \in Attempts : AttemptLost(a) \/ Timeout(a) \/ ZombieEnds(a)
    BY <1>6 DEF Upload, ReplayComplete, Launch, LoseLaunch, DeliverCancel, LoseCancel,
                Schedule, AttemptLost, Timeout, ZombieEnds
<1> QED BY <1>1, <1>2, <1>3, <1>4, <1>5, <1>6 DEF Next, ReviewStep, vars

\* import_source_activity.py:192-283, business_imports.py:529-532.  However many attempts
\* outlive their timeouts, a job under review has a source recorded clean.
THEOREM ReviewReadsCleanSource == Spec => []ReviewedIsClean
<1>1. Init => ReviewedIsClean
    BY DEF Init, ReviewedIsClean, UnderReview
<1> QED BY <1>1, TypeCorrect, StepReviewedIsClean, PTL DEF Spec

-----------------------------------------------------------------------------
(* Isolation.  The hash may vouch for another version than the one recorded. *)
(* But then that other one is newer, and as long as nothing was quarantined *)
(* nothing was removed either, so the one recorded is not copied.           *)

Vouched(v) ==
    \/ quarantine # 0
    \/ stored[v] = "intact"
    \/ \E w \in Uploads : v < w /\ stored[w] # "absent"

Isolated ==
    /\ quarantine # 0 => stored[quarantine] = "intact"
    /\ removed # {} \/ source.state = "quarantined" => quarantine # 0
    /\ source.version # 0 => Vouched(source.version)
    /\ \A a \in Attempts :
          /\ att[a].phase = "scan" /\ att[a].pc \in {"record", "remove"} => quarantine # 0
          /\ att[a].phase = "verify" /\ att[a].pc = "hash" => stored[att[a].seen] # "absent"
          /\ \/ att[a].phase = "verify" /\ att[a].pc = "record"
             \/ att[a].phase = "scan" /\ att[a].pc # "begin"
             => Vouched(att[a].seen)

LEMMA NewestIsLast ==
    ASSUME TypeOK, NEW v \in Uploads \cup {0}, IsNewest(v), removed = {}
    PROVE  \A w \in Uploads : stored[w] # "absent" => v # 0 /\ w <= v
BY Bounds DEF IsNewest, Staged, Uploads

LEMMA UploadIsolated ==
    ASSUME IInv, Isolated, Upload
    PROVE  Isolated'
<1> USE DEF IInv, TypeOK, Uploads
<1> PICK v \in Uploads, bytes \in Bytes :
        stored[v] = "absent" /\ stored' = [stored EXCEPT ![v] = bytes]
    BY DEF Upload
<1>1. UNCHANGED <<rows, removed, quarantine, att>>
    BY DEF Upload
<1>2. \A w \in Uploads : /\ stored[w] # "absent" => stored'[w] = stored[w]
                         /\ stored[w] = "intact" => stored'[w] = "intact"
    BY DEF Bytes
<1>3. ASSUME NEW w \in Uploads \cup {0}, w # 0, Vouched(w) PROVE Vouched(w)'
    BY <1>1, <1>2, <1>3 DEF Vouched
<1>4. quarantine' # 0 => stored'[quarantine'] = "intact"
    BY <1>1, <1>2 DEF Isolated
<1>5. source'.version # 0 => Vouched(source.version)'
    BY <1>1, <1>3 DEF Isolated, Source, rows
<1>6. ASSUME NEW a \in Attempts
      PROVE  /\ att[a].phase = "verify" /\ att[a].pc = "hash"
                   => stored'[att[a].seen] # "absent"
             /\ \/ att[a].phase = "verify" /\ att[a].pc = "record"
                \/ att[a].phase = "scan" /\ att[a].pc # "begin"
                => Vouched(att[a].seen)'
  <2>1. att[a].seen \in Uploads \cup {0}
      BY DEF Attempt
  <2> QED BY <2>1, <1>1, <1>2, <1>3 DEF Isolated, Held
<1>7. source' = source
    BY <1>1 DEF rows
<1>8. att' = att /\ quarantine' = quarantine /\ removed' = removed
    BY <1>1
<1> QED BY <1>4, <1>5, <1>6, <1>7, <1>8 DEF Isolated, Vouched

LEMMA ActivityIsolated ==
    ASSUME IInv, Isolated, NEW a \in Attempts, Activity(a)
    PROVE  Isolated'
<1> USE DEF IInv, TypeOK, Attempt, Source, rows, bounds, store, temporal, Isolated, Vouched
<1>1. CASE MoveToVerifying(a)
    BY <1>1 DEF MoveToVerifying, At, Move, End, Go, Idle
<1>2. CASE HeadSource(a)
  <2> PICK v \in Uploads \cup {0} :
          /\ IsNewest(v)
          /\ att' = [att EXCEPT ![a].pc = IF v = 0 THEN "reject" ELSE "hash", ![a].seen = v]
      BY <1>2 DEF HeadSource
  <2>1. v # 0 => stored[v] # "absent"
      BY DEF IsNewest, Staged
  <2>2. att[a].phase = "verify" /\ UNCHANGED <<source, stored, removed, quarantine>>
      BY <1>2 DEF HeadSource, At
  <2> QED BY <2>1, <2>2
<1>3. CASE HashSource(a)
  <2> PICK v \in Uploads \cup {0} :
          /\ IsNewest(v)
          /\ Go(a, IF v # 0 /\ stored[v] = "intact" THEN "record" ELSE "reject")
      BY <1>3 DEF HashSource
  <2>1. /\ att[a].phase = "verify" /\ att[a].pc = "hash"
        /\ UNCHANGED <<source, stored, removed, quarantine>>
      BY <1>3 DEF HashSource, At
  <2>2. att[a].seen \in Uploads /\ stored[att[a].seen] # "absent"
      BY <2>1 DEF Held
  <2>3. v # 0 /\ stored[v] = "intact" => Vouched(att[a].seen)
    <3>1. CASE removed = {}
        BY <2>2, <3>1, NewestIsLast DEF Uploads
    <3> QED BY <3>1
  <2> QED BY <2>1, <2>2, <2>3 DEF Go
<1>4. CASE RejectSource(a) \/ FailScan(a)
  <2>1. /\ source'.version = source.version
        /\ source'.state = "quarantined" => source.state = "quarantined"
      BY <1>4 DEF RejectSource, FailScan, Fail
  <2>2. UNCHANGED <<stored, removed, quarantine>>
      BY <1>4 DEF RejectSource, FailScan
  <2>3. \/ At(a, "verify", "reject") /\ Go(a, "raise")
        \/ At(a, "scan", "refuse") /\ Go(a, "raise")
        \/ At(a, "fail_scan", "begin") /\ Go(a, "return")
      BY <1>4 DEF RejectSource, FailScan
  <2> QED BY <2>1, <2>2, <2>3 DEF At, Go
<1>5. CASE RecordVerified(a)
  <2>1. CASE End(a, "stop") /\ UNCHANGED rows
      BY <1>5, <2>1 DEF RecordVerified, End, Idle
  <2>2. CASE Go(a, "return")
    <3>1. source'.version \in {source.version, att[a].seen}
          /\ (source'.state = "quarantined" => source.state = "quarantined")
        BY <1>5, <2>2 DEF RecordVerified
    <3> QED BY <1>5, <2>2, <3>1 DEF RecordVerified, At, Go
  <2> QED BY <1>5, <2>1, <2>2 DEF RecordVerified
<1>6. CASE StartScan(a)
  <2>1. CASE \E result : End(a, result)
      BY <1>6, <2>1 DEF StartScan, End, Idle
  <2>2. CASE /\ Scanning
             /\ att' = [att EXCEPT ![a].pc = "read", ![a].seen = source.version]
      BY <1>6, <2>2 DEF StartScan, At, Scanning, Held
  <2> QED BY <1>6, <2>1, <2>2 DEF StartScan
<1>7. CASE ScanSource(a)
    BY <1>7 DEF ScanSource, At, Go, IsNewest, Staged
<1>8. CASE RecordClean(a)
  <2>1. /\ source'.version = source.version
        /\ source'.state = "quarantined" => source.state = "quarantined"
      BY <1>8 DEF RecordClean
  <2>2. At(a, "scan", "clean") /\ Go(a, "return") /\ UNCHANGED <<stored, removed, quarantine>>
      BY <1>8 DEF RecordClean
  <2> QED BY <2>1, <2>2 DEF At, Go
<1>9. CASE QuarantineSource(a)
  <2>1. /\ att[a].phase = "scan" /\ att[a].pc = "infected"
        /\ UNCHANGED <<source, stored, removed>>
      BY <1>9 DEF QuarantineSource, At
  <2>2. CASE End(a, "fatal") /\ UNCHANGED quarantine
      BY <2>1, <2>2 DEF End, Idle
  <2>4. CASE quarantine # 0 /\ Go(a, "record") /\ UNCHANGED quarantine
      BY <2>1, <2>4 DEF Go
  <2>3. CASE quarantine = 0 /\ IsNewest(att[a].seen) /\ quarantine' = att[a].seen
             /\ Go(a, "record")
    <3>1. att[a].seen \in Uploads /\ removed = {}
        BY <2>1, <2>3 DEF Held
    <3>2. stored[att[a].seen] = "intact"
        BY <2>1, <2>3, <3>1, NewestIsLast DEF Uploads
    <3> QED BY <2>1, <2>3, <3>1, <3>2 DEF Go, Uploads
  <2> QED BY <1>9, <2>2, <2>3, <2>4 DEF QuarantineSource, Isolate
<1>10. CASE RecordInfected(a)
    BY <1>10 DEF RecordInfected, At, Go
<1>11. CASE RemoveInfected(a)
    BY <1>11 DEF RemoveInfected, At, Go
<1>12. CASE Answer(a)
    BY <1>12 DEF Answer, End, Idle
<1> QED BY <1>1, <1>2, <1>3, <1>4, <1>5, <1>6, <1>7, <1>8, <1>9, <1>10, <1>11, <1>12
        DEF Activity

LEMMA StepIsolated == IInv /\ Isolated /\ [Next]_vars => Isolated'
<1> SUFFICES ASSUME IInv, Isolated, [Next]_vars PROVE Isolated'
    OBVIOUS
<1>1. CASE Upload
    BY <1>1, UploadIsolated
<1>2. ASSUME NEW a \in Attempts, Activity(a) PROVE Isolated'
    BY <1>2, ActivityIsolated
<1> USE DEF IInv, TypeOK, Source, Attempt, rows, store, bounds, temporal, Isolated, Vouched
<1>3. CASE Create \/ Expire \/ Cancel
    BY <1>3 DEF Create, Expire, Cancel, Move
<1>4. CASE Complete
    BY <1>4 DEF Complete
<1>5. CASE ReviewStep
    BY <1>5, ReviewTurns
<1>6. CASE ReplayComplete \/ Launch \/ LoseLaunch \/ DeliverCancel \/ LoseCancel
    BY <1>6 DEF ReplayComplete, Launch, LoseLaunch, DeliverCancel, LoseCancel
<1>7. CASE Schedule
    BY <1>7 DEF Schedule, Idle
<1>8. ASSUME NEW a \in Attempts, AttemptLost(a) \/ Timeout(a) \/ ZombieEnds(a)
      PROVE  Isolated'
    BY <1>8, NoneAssumption DEF AttemptLost, Timeout, ZombieEnds, End, Idle
<1>9. CASE UNCHANGED vars
    BY <1>9 DEF vars
<1> QED BY <1>1, <1>2, <1>3, <1>4, <1>5, <1>6, <1>7, <1>8, <1>9 DEF Next, ReviewStep

\* import_source_activity.py:111-145.  A source recorded quarantined has its copy in
\* quarantine, and so has a removed file that was what the client declared.
THEOREM InfectedGoesToQuarantine == Spec => []InfectedIsIsolated
<1>1. Init => Isolated
    BY DEF Init, Isolated, Idle
<1>2. IInv /\ Isolated => InfectedIsIsolated
    BY DEF IInv, Isolated, InfectedIsIsolated
<1> QED BY <1>1, <1>2, Invariance, StepIsolated, PTL DEF Spec

-----------------------------------------------------------------------------
(* Cancelling.  A cancelled job has a cancelled source, and only an apply or *)
(* a compensation asked for before leaves the source cancelled alone.        *)

AsOne ==
    /\ job.status = "cancelled" => source.state = "cancelled"
    /\ source.state = "cancelled" /\ job.asked = 0 => job.status = "cancelled"
    /\ job.status \in {"none", "uploading"} => source.state = "uploading"

LEMMA InitAsOne == Init => AsOne
BY DEF Init, AsOne

LEMMA StepAsOne == TypeOK /\ AsOne /\ [Next]_vars => AsOne'
<1> SUFFICES ASSUME TypeOK, AsOne, [Next]_vars PROVE AsOne'
    OBVIOUS
<1> USE DEF TypeOK, AsOne, Job, Source, rows
<1>1. CASE Create \/ Expire \/ Cancel
    BY <1>1 DEF Create, Expire, Cancel, Move
<1>2. CASE Complete
    BY <1>2 DEF Complete
<1>3. CASE ReviewStep
    BY <1>3, ReviewTurns DEF UnderReview, Applied, Asked
<1>4. ASSUME NEW a \in Attempts, Activity(a)
      PROVE  AsOne'
  <2>1. CASE MoveToVerifying(a)
      BY <2>1 DEF MoveToVerifying, Unverified, Move
  <2>2. CASE RejectSource(a) \/ FailScan(a)
      BY <2>2 DEF RejectSource, FailScan, Fail, Cancelled
  <2>3. CASE RecordVerified(a)
      BY <2>3 DEF RecordVerified, Cancelled
  <2>4. CASE RecordClean(a) \/ RecordInfected(a)
      BY <2>4 DEF RecordClean, RecordInfected, Cancelled
  <2>5. CASE HeadSource(a) \/ HashSource(a) \/ StartScan(a) \/ ScanSource(a)
                \/ QuarantineSource(a) \/ RemoveInfected(a) \/ Answer(a)
      BY <2>5 DEF HeadSource, HashSource, StartScan, ScanSource, QuarantineSource,
                  RemoveInfected, Answer
  <2> QED BY <1>4, <2>1, <2>2, <2>3, <2>4, <2>5 DEF Activity
<1>5. CASE UNCHANGED rows
    BY <1>5
<1>6. CASE \/ Upload \/ ReplayComplete \/ Launch \/ LoseLaunch \/ DeliverCancel \/ LoseCancel
          \/ Schedule \/ \E a \in Attempts : AttemptLost(a) \/ Timeout(a) \/ ZombieEnds(a)
    BY <1>6 DEF Upload, ReplayComplete, Launch, LoseLaunch, DeliverCancel, LoseCancel,
                Schedule, AttemptLost, Timeout, ZombieEnds
<1> QED BY <1>1, <1>2, <1>3, <1>4, <1>5, <1>6 DEF Next, ReviewStep, vars

LEMMA AsOneAlways == Spec => []AsOne
BY InitAsOne, StepAsOne, TypeCorrect, PTL DEF Spec

HoldsCancel ==
    /\ job.status = "cancelled" =>
        \/ job'.status = "cancelled"
        \/ job'.status = "failed" /\ source'.state = "quarantined"
        \/ job.asked >= 2 /\ job'.status \in {"completed", "compensated"}
    /\ source.state = "cancelled" => source'.state \in {"cancelled", "quarantined"}

LEMMA StepHoldsCancel == TypeOK /\ AsOne /\ [Next]_vars => HoldsCancel
<1> SUFFICES ASSUME TypeOK, AsOne, [Next]_vars PROVE HoldsCancel
    OBVIOUS
<1> USE DEF TypeOK, HoldsCancel, Busy, Job, Source, rows
<1>1. CASE Create \/ Expire \/ Cancel
    BY <1>1 DEF Create, Expire, Cancel, Move, AsOne
<1>2. CASE Complete
    BY <1>2 DEF Complete, AsOne
<1>3. CASE ReviewStep
    BY <1>3, ReviewTurns
<1>4. ASSUME NEW a \in Attempts, Activity(a) PROVE HoldsCancel
  <2>1. CASE MoveToVerifying(a)
      BY <2>1 DEF MoveToVerifying, Unverified, Move
  <2>2. CASE RejectSource(a) \/ FailScan(a)
      BY <2>2 DEF RejectSource, FailScan, Fail, Cancelled
  <2>3. CASE RecordVerified(a)
      BY <2>3 DEF RecordVerified, Cancelled
  <2>4. CASE RecordClean(a) \/ RecordInfected(a)
      BY <2>4 DEF RecordClean, RecordInfected, Cancelled
  <2>5. CASE HeadSource(a) \/ HashSource(a) \/ StartScan(a) \/ ScanSource(a)
                \/ QuarantineSource(a) \/ RemoveInfected(a) \/ Answer(a)
      BY <2>5 DEF HeadSource, HashSource, StartScan, ScanSource, QuarantineSource,
                  RemoveInfected, Answer
  <2> QED BY <1>4, <2>1, <2>2, <2>3, <2>4, <2>5 DEF Activity
<1>5. CASE UNCHANGED rows
    BY <1>5
<1>6. CASE \/ Upload \/ ReplayComplete \/ Launch \/ LoseLaunch \/ DeliverCancel \/ LoseCancel
          \/ Schedule \/ \E a \in Attempts : AttemptLost(a) \/ Timeout(a) \/ ZombieEnds(a)
    BY <1>6 DEF Upload, ReplayComplete, Launch, LoseLaunch, DeliverCancel, LoseCancel,
                Schedule, AttemptLost, Timeout, ZombieEnds
<1> QED BY <1>1, <1>2, <1>3, <1>4, <1>5, <1>6 DEF Next, ReviewStep, vars

\* import_source_activity.py:59, 164, 180, 197, 269.  No attempt, however late, and no
\* API call moves a cancelled job, but for the one that records an infected file and
\* the end of an apply or a compensation asked for before; and none moves its source
\* but to quarantine.
THEOREM CancelIsFinal == Spec => CancelHolds
<1>1. TypeOK /\ AsOne /\ [Next]_vars => [HoldsCancel]_vars
    BY StepHoldsCancel
<1>2. CancelHolds <=> [][HoldsCancel]_vars
    BY DEF CancelHolds, HoldsCancel
<1> QED BY <1>1, <1>2, TypeCorrect, AsOneAlways, PTL DEF Spec

-----------------------------------------------------------------------------
(* Leaving the rest alone.  Until an attempt is timed out, the only zombies *)
(* are those a cancel has abandoned, and they find the source cancelled, or *)
(* the job failed before its review; every other attempt is the one the     *)
(* workflow awaits.  While it is at work the job is still in the state it   *)
(* works on.  Only a report that was lost leaves the workflow waiting for a *)
(* job that has gone on.                                                    *)

Over   == source.state = "cancelled" \/ (job.asked = 0 /\ job.status = "failed")
InScan == job.asked = 0 /\ job.status = "scanning"
Past   == job.status \in {"ready_for_mapping", "failed", "cancelled"} \cup UnderReview \cup Applied

\* What the scan, retried or given up, may find.
Found == \/ Over \/ InScan
         \/ Past /\ lost # 0

\* An attempt past the check it makes when it begins, and not yet done.
Working(a) ==
    att[a].phase \in {"verify", "scan"} /\ att[a].pc \notin {"begin", "return", "raise"}

InOrder == Past \/ job.asked = 0

OnlyAwaited ==
    /\ cancelling => Over
    /\ wf.cur # None => wf.cur \in Attempts /\ att[wf.cur].phase = wf.phase
    /\ \A a \in Attempts : att[a] # Idle /\ ~Live(a) => Over
    /\ \A a, b \in Attempts : Working(a) /\ Working(b) => a = b

\* What the job may be when an attempt turns to it.
Expects(a) ==
    /\ Working(a) =>
          /\ job.asked = 0
          /\ att[a].phase = "verify" => job.status \in {"verifying", "scanning", "cancelled"}
          /\ att[a].phase = "scan" /\ att[a].pc = "remove" => job.status = "failed"
          /\ att[a].phase = "scan" /\ att[a].pc # "remove" =>
                job.status \in {"scanning", "cancelled"}
    /\ att[a].pc = "raise" => Over
    /\ att[a].phase = "verify" /\ att[a].pc = "return" => Over \/ InScan
    /\ att[a].phase = "scan" /\ att[a].pc = "return" => Past
    /\ att[a].phase = "fail_scan" =>
          /\ att[a].pc \in {"begin", "return"}
          /\ att[a].pc = "begin" => Found

InPhase ==
    /\ wf.phase = "scan" =>
          \/ Found
          \/ Past /\ wf.cur # None /\ att[wf.cur].pc = "return"
    /\ wf.phase = "fail_scan" => Found
    /\ \A a \in Attempts : Expects(a)

Calm == InOrder /\ OnlyAwaited /\ InPhase

LEMMA InitCalm == Init => Calm
<1> SUFFICES ASSUME Init PROVE Calm
    OBVIOUS
<1>1. ~Over /\ InOrder
    BY DEF Init, Over, InOrder
<1>2. \A a \in Attempts : att[a] = Idle /\ ~Working(a)
    BY NoneAssumption DEF Init, Idle, Working, Phases
<1>3. OnlyAwaited
    BY <1>1, <1>2 DEF Init, OnlyAwaited, Closed
<1>4. InPhase
    BY <1>2, NoneAssumption DEF Init, InPhase, Expects, Closed, Idle, Phases
<1> QED BY <1>1, <1>3, <1>4 DEF Calm

\* The rows know cancelled from not, and what is over is past the scan.
LEMMA OverIsPast ==
    ASSUME IInv, AsOne, Calm
    PROVE  /\ Cancelled <=> source.state = "cancelled"
           /\ Over => Past
           /\ Over /\ ~Cancelled => job.asked = 0 /\ job.status = "failed"
BY DEF AsOne, Calm, InOrder, Cancelled, Over, Past

\* The one attempt awaited, while the job is not over, is the only one there is.
LEMMA Alone ==
    ASSUME IInv, Calm, NEW a \in Attempts, att[a] # Idle, ~Over
    PROVE  /\ wf.cur = a /\ att[a].phase = wf.phase
           /\ \A b \in Attempts : b # a => att[b] = Idle
BY NoneAssumption DEF Calm, OnlyAwaited, Live

\* What an attempt expects of a job does not change while the job does not.
LEMMA ExpectsKept ==
    ASSUME NEW a \in Attempts, Expects(a), UNCHANGED <<att[a], source>>,
           job' = job, lost # 0 => lost' # 0
    PROVE  Expects(a)' /\ (Working(a)' <=> Working(a))
BY DEF Expects, Working, Found, Over, InScan, Past

\* An attempt ends, having written before: it writes nothing now.
LEMMA CalmEnd ==
    ASSUME IInv, Calm, NEW a \in Attempts, NEW result, End(a, result), att[a] # Idle,
           UNCHANGED <<rows, cancelling>>, lost # 0 => lost' # 0,
           Live(a) /\ wf'.phase \in {"scan", "fail_scan"} => Found'
    PROVE  Calm'
<1>1. /\ att'[a] = Idle /\ Idle' = Idle /\ UNCHANGED <<job, source>>
      /\ \A b \in Attempts : b # a => att'[b] = att[b]
    BY DEF IInv, TypeOK, End, Idle, rows
<1>2. wf' = wf \/ Live(a)
    BY DEF End, Report
<1>3. Live(a) => wf'.cur = None
    BY NoneAssumption DEF End, Report, Live, Outcome, AfterFailure, Open, Closed, IInv, TypeOK,
       Workflow
<1>4. (Over => Over') /\ (Found => Found') /\ InOrder' /\ (Past => Past')
    BY <1>1 DEF Over, Found, InScan, Past, Calm, InOrder
<1>5. ~Working(a)' /\ Expects(a)'
  <2>1. att'[a] = Idle'
      BY <1>1
  <2> QED BY <2>1, NoneAssumption DEF Working, Expects, Idle, Phases
<1>6. ASSUME NEW b \in Attempts, b # a
      PROVE  Expects(b)' /\ (Working(b)' <=> Working(b))
    BY <1>1, <1>6, ExpectsKept DEF Calm, InPhase
<1>7. ASSUME NEW b \in Attempts, att'[b] # Idle, ~Live(b)' PROVE Over'
  <2>1. b # a /\ att[b] # Idle
      BY <1>1, <1>7
  <2>2. ~Live(b)
      BY <1>2, <1>7, <2>1 DEF Live
  <2> QED BY <1>4, <2>1, <2>2 DEF Calm, OnlyAwaited
<1>8. wf'.cur # None => wf' = wf /\ wf.cur # a
    BY <1>2, <1>3 DEF Live
<1>9. OnlyAwaited'
    BY <1>1, <1>4, <1>5, <1>6, <1>7, <1>8 DEF Calm, OnlyAwaited
<1>10. InPhase'
  <2>1. CASE Live(a)
      BY <1>5, <1>6, <2>1 DEF InPhase
  <2>2. CASE wf' = wf /\ ~Live(a)
    <3>1. wf.cur # None => att'[wf.cur] = att[wf.cur]
        BY <1>1, <2>2 DEF Live, Calm, OnlyAwaited
    <3> QED BY <1>4, <1>5, <1>6, <2>2, <3>1 DEF Calm, InPhase
  <2> QED BY <1>2, <2>1, <2>2
<1> QED BY <1>4, <1>9, <1>10 DEF Calm

\* An attempt goes on: it finds and leaves the job as it expects.
LEMMA CalmGo ==
    ASSUME IInv, Calm, NEW a \in Attempts, att[a] # Idle,
           \A b \in Attempts : b # a => att'[b] = att[b],
           att'[a].phase = att[a].phase, UNCHANGED <<wf, cancelling, lost>>,
           Over => Over', Past => Past', InOrder', Expects(a)',
           Over => Working(a) \/ job' = job,
           Working(a)' => Working(a) \/ ~Over,
           ~Over /\ wf.phase = "scan" => Found' \/ (Past' /\ att'[a].pc = "return"),
           ~Over /\ wf.phase = "fail_scan" => Found'
    PROVE  Calm'
<1>1. Idle' = Idle
    BY DEF Idle
<1>2. ASSUME NEW b \in Attempts, b # a
      PROVE  Expects(b)' /\ (Working(b)' => Working(b) /\ ~Working(a)')
  <2>1. CASE ~Over
    <3>1. att'[b] = Idle'
        BY <1>1, <1>2, <2>1, Alone
    <3> QED BY <3>1, NoneAssumption DEF Expects, Working, Idle, Phases
  <2>2. CASE Over
    <3>1. Working(b)' <=> Working(b)
        BY <1>2 DEF Working
    <3>2. Expects(b) /\ ~(Working(a) /\ Working(b))
        BY <1>2 DEF Calm, OnlyAwaited, InPhase
    <3>3. Over' /\ Found'
        BY <2>2 DEF Found
    <3>4. Working(b) => job' = job
        BY <2>2, <3>2
    <3>5. Expects(b)'
        BY <1>2, <3>1, <3>2, <3>3, <3>4 DEF Expects
    <3> QED BY <2>2, <3>1, <3>2, <3>5
  <2> QED BY <2>1, <2>2
<1>3. wf.cur # None => wf.cur \in Attempts /\ att'[wf.cur].phase = wf.phase
    BY DEF Calm, OnlyAwaited
<1>4. OnlyAwaited'
  <2>1. \A b \in Attempts : att'[b] # Idle => att[b] # Idle
      OBVIOUS
  <2> QED BY <1>1, <1>2, <1>3, <2>1 DEF Calm, OnlyAwaited, Live
<1>5. InPhase'
  <2>1. CASE Over
      BY <1>2, <2>1 DEF InPhase, Found
  <2>2. CASE ~Over
    <3>1. wf.cur = a /\ a # None
        BY <2>2, Alone, NoneAssumption
    <3> QED BY <1>2, <2>2, <3>1 DEF InPhase
  <2> QED BY <2>1, <2>2
<1> QED BY <1>4, <1>5 DEF Calm

LEMMA GoFacts ==
    ASSUME IInv, NEW a \in Attempts, NEW pc, Go(a, pc)
    PROVE  /\ att'[a].phase = att[a].phase /\ att'[a].pc = pc /\ UNCHANGED wf
           /\ \A b \in Attempts : b # a => att'[b] = att[b]
BY DEF IInv, TypeOK, Attempt, Go

\* Verification: at work on a job it has found uploaded, verifying or scanning.
LEMMA CalmVerify ==
    ASSUME IInv, AsOne, Calm, NEW a \in Attempts,
           \/ MoveToVerifying(a) \/ HeadSource(a) \/ HashSource(a)
           \/ RejectSource(a) \/ RecordVerified(a)
    PROVE  Calm'
<1> USE DEF rows, temporal, bounds
<1>0. /\ job \in Job /\ att \in [Attempts -> Attempt]
      /\ att[a].phase = "verify" /\ att[a] # Idle /\ UNCHANGED <<cancelling, lost>>
  <2>1. att[a].phase = "verify" /\ UNCHANGED <<cancelling, lost>>
      BY DEF MoveToVerifying, HeadSource, HashSource, RejectSource, RecordVerified, At
  <2> QED BY <2>1, NoneAssumption DEF IInv, TypeOK, Idle, Phases
<1>1. ~Over => wf.phase = "verify"
    BY <1>0, Alone
<1>2. Working(a) => /\ job.asked = 0 /\ job.status \in {"verifying", "scanning", "cancelled"}
    BY <1>0 DEF Calm, InPhase, Expects
<1>3. att[a].pc \notin {"begin", "return", "raise"} => Working(a)
    BY <1>0 DEF Working
<1>4. InOrder
    BY DEF Calm
\* It ends, and has not moved the job.
<1>5. ASSUME NEW result \in {"stop", "fatal"}, End(a, result), UNCHANGED rows
      PROVE  Calm'
  <2>1. Live(a) => wf' = Closed
    <3>1. Live(a) => wf' = Outcome(wf, result) /\ wf.phase = "verify"
        BY <1>0, <1>5, NoneAssumption DEF End, Report, Live, Calm, OnlyAwaited
    <3> QED BY <3>1 DEF Outcome, AfterFailure
  <2> QED BY <1>0, <1>5, <2>1, CalmEnd DEF Closed
\* It goes on.
<1>6. ASSUME NEW pc, pc # "begin", att'[a].phase = "verify", att'[a].pc = pc,
             \A b \in Attempts : b # a => att'[b] = att[b], UNCHANGED wf,
             Working(a) \/ ~Over, Over => Over', Past => Past',
             job'.asked = 0,
             pc = "raise" => Over', pc = "return" => Over' \/ InScan',
             pc \notin {"raise", "return"} =>
                 job'.status \in {"verifying", "scanning", "cancelled"},
             Over => Working(a) \/ job' = job
      PROVE  Calm'
  <2>1. InOrder' /\ Expects(a)'
      BY <1>6 DEF InOrder, Expects, Working
  <2> QED BY <1>0, <1>1, <1>6, <2>1, CalmGo
<1>7. CASE MoveToVerifying(a)
  <2>1. CASE \E result \in {"stop", "fatal"} : End(a, result) /\ UNCHANGED rows
      BY <1>5, <2>1
  <2>2. CASE job.status \in {"verifying", "scanning"} /\ ~Cancelled
             /\ Go(a, "head") /\ UNCHANGED rows
    <3>1. job.asked = 0 /\ ~Over
        BY <1>4, <2>2 DEF InOrder, Past, UnderReview, Applied, Over, Cancelled
    <3> QED BY <1>0, <1>6, <2>2, <3>1, GoFacts DEF Past, UnderReview, Applied
  <2>3. CASE Unverified /\ Go(a, "head") /\ Move("verifying", "verifying")
    <3>1. job.asked = 0 /\ ~Over /\ ~Past
        BY <1>4, <2>3 DEF Unverified, InOrder, Past, UnderReview, Applied, Over
    <3>2. job'.asked = 0 /\ job'.status = "verifying"
        BY <1>0, <2>3, <3>1 DEF Move, Job
    <3> QED BY <1>0, <1>6, <2>3, <3>1, <3>2, GoFacts
  <2>4. CASE job.status \in {"verifying", "scanning"} /\ Cancelled
             /\ Go(a, "head") /\ UNCHANGED rows
    <3>1. job.asked = 0
        BY <1>4, <2>4 DEF InOrder, Past, UnderReview, Applied
    <3>2. FALSE
        BY <2>4, <3>1 DEF Cancelled, AsOne
    <3> QED BY <3>2
  <2> QED BY <1>7, <2>1, <2>2, <2>3, <2>4 DEF MoveToVerifying
<1>8. CASE HeadSource(a) \/ HashSource(a)
  <2>1. UNCHANGED <<job, source, wf>> /\ Working(a)
      BY <1>3, <1>8 DEF HeadSource, HashSource, At, Go
  <2>2. /\ att'[a].phase = "verify" /\ att'[a].pc \in {"hash", "record", "reject"}
        /\ \A b \in Attempts : b # a => att'[b] = att[b]
    <3>1. CASE HeadSource(a)
        BY <1>0, <3>1 DEF HeadSource, Attempt
    <3>2. CASE HashSource(a)
      <4>1. PICK pc \in {"record", "reject"} : Go(a, pc)
          BY <3>2 DEF HashSource
      <4> QED BY <1>0, <4>1, GoFacts
    <3> QED BY <1>8, <3>1, <3>2
  <2> QED BY <1>2, <1>6, <2>1, <2>2 DEF Over, Past
<1>9. CASE RejectSource(a)
  <2>1. Working(a) /\ Go(a, "raise") /\ Fail(source.scan)
      BY <1>3, <1>9 DEF RejectSource, At
  <2>2. Over' /\ Past' /\ job'.asked = 0
      BY <1>0, <1>2, <2>1, OverIsPast DEF Fail, Over, Past, Job
  <2> QED BY <1>0, <1>6, <2>1, <2>2, GoFacts
<1>10. CASE RecordVerified(a)
  <2>1. Working(a)
      BY <1>3, <1>10 DEF RecordVerified, At
  <2>2. CASE Cancelled
      BY <1>5, <1>10, <2>2, <2>1, <1>2 DEF RecordVerified, AsOne, Cancelled, Scanning
  <2>3. CASE ~Cancelled
    <3>1. Go(a, "return") /\ InScan' /\ job'.asked = 0
        BY <1>0, <1>2, <1>10, <2>1, <2>3 DEF RecordVerified, InScan, Scanning, Job
    <3>2. ~Over /\ ~Past
        BY <1>2, <2>1, <2>3 DEF Over, Past, Cancelled, UnderReview, Applied
    <3> QED BY <1>0, <1>6, <2>1, <3>1, <3>2, GoFacts
  <2> QED BY <2>2, <2>3
<1> QED BY <1>7, <1>8, <1>9, <1>10

\* The scan: at work on a job being scanned.
LEMMA CalmScan ==
    ASSUME IInv, AsOne, Calm, NEW a \in Attempts, att[a].phase = "scan",
           \/ StartScan(a) \/ ScanSource(a) \/ FailScan(a) \/ RecordClean(a)
           \/ QuarantineSource(a) \/ RecordInfected(a) \/ RemoveInfected(a)
    PROVE  Calm'
<1> USE DEF rows, temporal, bounds, store
<1>0. /\ job \in Job /\ att \in [Attempts -> Attempt] /\ att[a] # Idle
      /\ UNCHANGED <<cancelling, lost>>
  <2>1. UNCHANGED <<cancelling, lost>>
      BY DEF StartScan, ScanSource, FailScan, RecordClean, QuarantineSource,
             RecordInfected, RemoveInfected
  <2> QED BY <2>1, NoneAssumption DEF IInv, TypeOK, Idle, Phases
<1>1. ~Over => wf.phase = "scan" /\ wf.cur = a
    BY <1>0, Alone
<1>2. Working(a) => /\ job.asked = 0
                    /\ att[a].pc = "remove" => job.status = "failed"
                    /\ att[a].pc # "remove" => job.status \in {"scanning", "cancelled"}
    BY DEF Calm, InPhase, Expects
<1>3. att[a].pc \notin {"begin", "return", "raise"} => Working(a)
    BY DEF Working
<1>4. InOrder
    BY DEF Calm
<1>5. Working(a) => Over \/ InScan
    BY <1>2 DEF Over, InScan, AsOne
\* It ends, and has not moved the job.
<1>6. ASSUME NEW result \in {"ok", "fatal"}, End(a, result), UNCHANGED rows,
             result = "fatal" => Found
      PROVE  Calm'
  <2>1. Found => Found'
      BY <1>0, <1>6 DEF Found, Over, InScan, Past
  <2>2. Live(a) /\ wf'.phase \in {"scan", "fail_scan"} => Found'
    <3>1. Live(a) => wf' = Outcome(wf, result) /\ wf.phase = "scan"
        BY <1>6, NoneAssumption DEF End, Report, Live, Calm, OnlyAwaited
    <3> QED BY <1>6, <2>1, <3>1 DEF Outcome, Closed
  <2> QED BY <1>0, <1>6, <2>2, CalmEnd
\* It goes on.
<1>7. ASSUME NEW pc, pc # "begin", UNCHANGED wf,
             \/ Go(a, pc)
             \/ att' = [att EXCEPT ![a].pc = pc, ![a].seen = source.version],
             Working(a) \/ ~Over, Over => Over', Past => Past', InOrder',
             pc = "raise" => Over', pc = "return" => Past',
             pc \notin {"raise", "return"} =>
                 /\ job'.asked = 0
                 /\ Over' \/ InScan'
                 /\ pc = "remove" => job'.status = "failed"
                 /\ pc # "remove" => job'.status \in {"scanning", "cancelled"}
      PROVE  Calm'
  <2>1. /\ att'[a].phase = "scan" /\ att'[a].pc = pc
        /\ \A b \in Attempts : b # a => att'[b] = att[b]
    <3>1. CASE Go(a, pc)
        BY <3>1, GoFacts
    <3>2. CASE att' = [att EXCEPT ![a].pc = pc, ![a].seen = source.version]
        BY <1>0, <3>2 DEF Attempt
    <3> QED BY <1>7, <3>1, <3>2
  <2>2. Expects(a)'
      BY <1>7, <2>1 DEF Expects, Working
  <2>3. \/ Found'
        \/ Past' /\ att'[a].pc = "return"
      BY <1>7, <2>1 DEF Found
  <2> QED BY <1>0, <1>1, <1>7, <2>1, <2>2, <2>3, CalmGo
<1>8. CASE StartScan(a)
  <2>1. UNCHANGED rows
      BY <1>8 DEF StartScan
  <2>2. CASE End(a, "ok")
      BY <1>6, <2>1, <2>2
  <2>3. CASE ~ScanIsOver /\ End(a, "fatal")
    <3>1. ~Over
        BY <2>3 DEF ScanIsOver, Over, Cancelled
    <3>2. att[a].pc = "begin"
        BY <1>8 DEF StartScan, At
    <3>3. Found
        BY <1>1, <3>1, <3>2 DEF Calm, InPhase
    <3> QED BY <1>6, <2>1, <2>3, <3>3
  <2>4. CASE /\ ~ScanIsOver /\ Scanning /\ UNCHANGED wf
             /\ att' = [att EXCEPT ![a].pc = "read", ![a].seen = source.version]
    <3>1. ~Over /\ ~Past /\ InScan
        BY <1>4, <2>4
        DEF ScanIsOver, Scanning, Over, Past, InOrder, InScan, Cancelled, UnderReview, Applied
    <3>2. InScan' /\ InOrder'
        BY <2>1, <3>1 DEF InScan, InOrder
    <3>3. PICK pc \in {"read"} : att' = [att EXCEPT ![a].pc = pc, ![a].seen = source.version]
        BY <2>4
    <3>4. job'.asked = 0 /\ job'.status = "scanning"
        BY <3>2 DEF InScan
    <3> QED BY <1>7, <2>4, <3>1, <3>2, <3>3, <3>4
  <2> QED BY <1>8, <2>2, <2>3, <2>4 DEF StartScan
<1>9. CASE ScanSource(a)
  <2>1. PICK v \in Uploads \cup {0} :
          \/ v # 0 /\ IsNewest(v) /\ Go(a, verdict[stored[v]])
          \/ Go(a, "refuse")
      BY <1>9 DEF ScanSource
  <2>2. v # 0 /\ IsNewest(v) => verdict[stored[v]] \in {"clean", "infected"}
      BY DEF IsNewest, Staged, IInv, TypeOK
  <2>3. PICK pc \in {"clean", "infected", "refuse"} : Go(a, pc)
      BY <2>1, <2>2
  <2>4. Working(a) /\ att[a].pc = "read" /\ UNCHANGED rows
      BY <1>3, <1>9 DEF ScanSource, At
  <2>5. Past = Past' /\ Over = Over' /\ InScan = InScan' /\ InOrder'
      BY <1>4, <2>4 DEF Past, Over, InScan, InOrder
  <2> QED BY <1>2, <1>5, <1>7, <2>3, <2>4, <2>5, GoFacts
<1>10. CASE FailScan(a)
  <2>1. Working(a) /\ att[a].pc = "refuse" /\ Go(a, "raise") /\ Fail("failed")
      BY <1>3, <1>10 DEF FailScan, At
  <2>2. Over' /\ Past' /\ InOrder'
      BY <1>0, <1>2, <2>1, OverIsPast DEF Fail, Over, Past, InOrder, Job
  <2> QED BY <1>7, <2>1, <2>2, GoFacts
<1>11. CASE RecordClean(a)
  <2>1. Working(a) /\ att[a].pc = "clean" /\ Go(a, "return")
      BY <1>3, <1>11 DEF RecordClean, At
  <2>2. Past' /\ InOrder'
      BY <1>0, <1>2, <1>11, <2>1, OverIsPast DEF RecordClean, Over, Past, InOrder, Job
  <2>3. Over => Over'
      BY <1>2, <1>11, <2>1, OverIsPast DEF RecordClean, Over
  <2> QED BY <1>7, <2>1, <2>2, <2>3, GoFacts
<1>12. CASE QuarantineSource(a)
  <2>1. Working(a) /\ att[a].pc = "infected" /\ UNCHANGED rows
      BY <1>3, <1>12 DEF QuarantineSource, At
  <2>2. Past = Past' /\ Over = Over' /\ InScan = InScan' /\ InOrder'
      BY <1>4, <2>1 DEF Past, Over, InScan, InOrder
  <2>3. CASE End(a, "fatal")
      BY <1>5, <1>6, <2>1, <2>3 DEF Found
  <2>4. CASE Go(a, "record")
      BY <1>2, <1>5, <1>7, <2>1, <2>2, <2>4, GoFacts
  <2> QED BY <1>12, <2>3, <2>4 DEF QuarantineSource, Isolate
<1>13. CASE RecordInfected(a)
  <2>1. Working(a) /\ Go(a, "remove")
      BY <1>3, <1>13 DEF RecordInfected, At
  <2>2. att[a].pc = "record"
      BY <1>13 DEF RecordInfected, At
  <2>3. job'.status = "failed" /\ job'.asked = 0
      BY <1>0, <1>2, <1>13, <2>1, <2>2 DEF RecordInfected, Job
  <2>4. Over' /\ Past' /\ InOrder'
      BY <2>3 DEF Over, Past, InOrder
  <2> QED BY <1>7, <2>1, <2>3, <2>4, GoFacts
<1>14. CASE RemoveInfected(a)
  <2>1. Working(a) /\ att[a].pc = "remove" /\ Go(a, "return") /\ UNCHANGED rows
      BY <1>3, <1>14 DEF RemoveInfected, At
  <2>2. Past /\ Past' /\ InOrder' /\ Over = Over'
      BY <1>2, <1>4, <2>1 DEF Past, Over, InOrder
  <2> QED BY <1>7, <2>1, <2>2, GoFacts
<1> QED BY <1>8, <1>9, <1>10, <1>11, <1>12, <1>13, <1>14

\* The record of a scan given up: it may find the job gone on.
LEMMA CalmFailScan ==
    ASSUME IInv, AsOne, Calm, NEW a \in Attempts, At(a, "fail_scan", "begin"), FailScan(a)
    PROVE  Calm'
<1>0. /\ job \in Job /\ att[a] # Idle /\ UNCHANGED <<cancelling, lost>>
  <2>1. UNCHANGED <<cancelling, lost>>
      BY DEF FailScan, bounds
  <2> QED BY <2>1, NoneAssumption DEF At, IInv, TypeOK, Idle, Phases
<1>1. Go(a, "return") /\ Fail("failed")
    BY DEF FailScan, At
<1>2. Found
    BY DEF At, Calm, InPhase, Expects
<1>3. CASE Cancelled
  <2>1. UNCHANGED <<job, source>>
      BY <1>1, <1>3 DEF Fail, rows
  <2>2. Past = Past' /\ Over = Over' /\ Found' /\ InOrder'
      BY <1>0, <1>2, <2>1 DEF Past, Over, Found, InScan, InOrder, Calm
  <2>3. Expects(a)' /\ ~Working(a)'
      BY <1>1, GoFacts DEF At, Expects, Working
  <2> QED BY <1>0, <1>1, <2>1, <2>2, <2>3, CalmGo, GoFacts
<1>4. CASE ~Cancelled
  <2>1. job'.status = "failed" /\ job'.asked = job.asked
      BY <1>0, <1>1, <1>4 DEF Fail, Job
  <2>2. Over => job' = job
    <3>1. Over => job.status = "failed"
        BY <1>4, OverIsPast
    <3> QED BY <1>0, <1>1, <1>4, <3>1 DEF Fail, Job
  <2>3. Past' /\ InOrder'
      BY <2>1 DEF Past, InOrder
  <2>4. Over \/ InScan => Over'
      BY <1>4, <2>1, OverIsPast DEF Over, InScan
  <2>5. Found'
      BY <1>0, <1>2, <2>3, <2>4 DEF Found
  <2>6. Expects(a)' /\ ~Working(a)'
      BY <1>1, GoFacts DEF At, Expects, Working
  <2> QED BY <1>0, <1>1, <2>2, <2>3, <2>4, <2>5, <2>6, CalmGo, GoFacts
<1> QED BY <1>3, <1>4

\* A report: the workflow goes on to a scan from a verified source, and to recording
\* its failure from a scan that has recorded it.
LEMMA CalmAnswer ==
    ASSUME IInv, Calm, NEW a \in Attempts, Answer(a)
    PROVE  Calm'
<1>1. PICK result \in {"ok", "fatal"} :
          /\ End(a, result)
          /\ att[a].pc = IF result = "ok" THEN "return" ELSE "raise"
    BY DEF Answer
<1>2. UNCHANGED <<rows, cancelling, lost>> /\ att[a] # Idle
    BY <1>1 DEF Answer, bounds, Idle
<1>3. Expects(a)
    BY DEF Calm, InPhase
<1>4. Live(a) /\ wf'.phase \in {"scan", "fail_scan"} => Found
  <2>1. SUFFICES ASSUME Live(a), wf'.phase \in {"scan", "fail_scan"}
                 PROVE  Found
      OBVIOUS
  <2>2. wf' = Outcome(wf, result) /\ att[a].phase = wf.phase
      BY <1>1, <2>1, NoneAssumption DEF End, Report, Live, Calm, OnlyAwaited
  <2>3. \/ result = "ok" /\ wf.phase = "verify"
        \/ result = "fatal"
      BY <2>1, <2>2 DEF Outcome, Closed
  <2> QED BY <1>1, <1>3, <2>2, <2>3 DEF Expects, Found
<1>5. Found => Found'
    BY <1>2 DEF Found, Over, InScan, Past, rows
<1> QED BY <1>1, <1>2, <1>4, <1>5, CalmEnd

LEMMA CalmActivity ==
    ASSUME IInv, AsOne, Calm, NEW a \in Attempts, Activity(a)
    PROVE  Calm'
<1>1. CASE StartScan(a) \/ ScanSource(a) \/ RecordClean(a) \/ QuarantineSource(a)
           \/ RecordInfected(a) \/ RemoveInfected(a)
  <2>1. att[a].phase = "scan"
      BY <1>1 DEF StartScan, ScanSource, RecordClean, QuarantineSource, RecordInfected,
                  RemoveInfected, At
  <2> QED BY <1>1, <2>1, CalmScan
<1>2. CASE FailScan(a)
  <2>1. att[a].phase = "scan" \/ At(a, "fail_scan", "begin")
      BY <1>2 DEF FailScan, At
  <2> QED BY <1>2, <2>1, CalmScan, CalmFailScan
<1> QED BY <1>1, <1>2, CalmVerify, CalmAnswer DEF Activity

\* Review, apply and compensation find no attempt at work, and keep what is over over.
LEMMA CalmReview ==
    ASSUME IInv, AsOne, Calm, ReviewStep
    PROVE  Calm'
<1>0. /\ UNCHANGED <<source, wf, att, cancelling, lost>> /\ Idle' = Idle
      /\ job \in Job /\ job' \in Job
    BY ReviewTurns DEF IInv, TypeOK, temporal, bounds, Idle
<1>1. Past /\ Past' /\ InOrder'
    BY ReviewTurns DEF IInv, Calm, InOrder, Past, Job, Asked, UnderReview, Applied
<1>2. Over => Over'
  <2>1. CASE source.state = "cancelled"
      BY <1>0, <2>1 DEF Over
  <2>2. CASE job.asked = 0 /\ job.status = "failed"
      BY <2>2, ReviewTurns DEF IInv
  <2> QED BY <2>1, <2>2 DEF Over
<1>3. ~InScan
    BY <1>1 DEF InScan, Past, UnderReview, Applied
<1>4. Found => Found'
    BY <1>0, <1>1, <1>2, <1>3 DEF Found
<1>5. ASSUME NEW a \in Attempts
      PROVE  ~Working(a) /\ ~Working(a)' /\ Expects(a)'
  <2>1. Expects(a)
      BY DEF Calm, InPhase
  <2>2. ~Working(a)
    <3>1. SUFFICES ASSUME Working(a) PROVE FALSE
        OBVIOUS
    <3>2. job.asked = 0 /\ job.status \in {"verifying", "scanning", "cancelled", "failed"}
        BY <2>1, <3>1 DEF Expects, Working
    <3> QED BY <3>2, ReviewTurns DEF IInv
  <2>3. ~Working(a)'
      BY <1>0, <2>2 DEF Working
  <2> QED BY <1>0, <1>1, <1>2, <1>3, <1>4, <2>1, <2>2, <2>3 DEF Expects
<1>6. OnlyAwaited'
    BY <1>0, <1>2, <1>5 DEF Calm, OnlyAwaited, Live
<1>7. InPhase'
    BY <1>0, <1>1, <1>4, <1>5 DEF Calm, InPhase
<1> QED BY <1>1, <1>6, <1>7 DEF Calm

\* The API moves a job that nobody works on yet, or cancels it.
LEMMA CalmApi ==
    ASSUME IInv, AsOne, Calm, Create \/ Expire \/ Complete \/ Cancel
    PROVE  Calm'
<1>0. /\ job \in Job /\ UNCHANGED <<wf, att, lost>> /\ Idle' = Idle
    BY DEF IInv, TypeOK, Create, Expire, Complete, Cancel, temporal, bounds, Idle
<1>1. CASE Cancel
  <2>1. Over' /\ Past' /\ InOrder' /\ Found'
      BY <1>0, <1>1 DEF Cancel, Move, Over, Past, InOrder, Found, Job, IInv, TypeOK, Source
  <2>2. job'.status = "cancelled" /\ job'.asked = job.asked
      BY <1>0, <1>1 DEF Cancel, Move, Job
  <2>3. job.status # "failed"
      BY <1>1 DEF Cancel, Cancellable, Busy, UnderReview
  <2>4. ASSUME NEW a \in Attempts
        PROVE  Expects(a)' /\ (Working(a)' <=> Working(a))
    <3>1. Working(a)' <=> Working(a)
        BY <1>0 DEF Working
    <3>2. Expects(a)
        BY DEF Calm, InPhase
    <3> QED BY <1>0, <2>1, <2>2, <2>3, <3>1, <3>2 DEF Expects
  <2>5. OnlyAwaited'
      BY <1>0, <2>1, <2>4 DEF Calm, OnlyAwaited, Live
  <2> QED BY <2>1, <2>4, <2>5 DEF Calm, InPhase
<1>2. CASE Create \/ Expire \/ Complete
  <2>1. /\ job.status \in {"none", "uploading"} /\ UNCHANGED cancelling
        /\ job'.status \in {"uploading", "expired", "uploaded"} /\ job'.asked = job.asked
        /\ source'.state \in {"uploading", "expired", "uploaded"}
    <3>1. CASE Create \/ Expire
        BY <1>0, <3>1 DEF Create, Expire, Move, Job, IInv, TypeOK, Source, temporal
    <3>2. CASE Complete
        BY <1>0, <3>2 DEF Complete, Job, IInv, TypeOK, Source
    <3> QED BY <1>2, <3>1, <3>2
  <2>2. ~Over /\ ~InScan /\ ~Past /\ ~Found
      BY <2>1 DEF Over, InScan, Past, Found, AsOne, UnderReview, Applied
  <2>3. InOrder'
      BY <2>1, <2>2 DEF Calm, InOrder
  <2>4. ASSUME NEW a \in Attempts
        PROVE  Expects(a)' /\ ~Working(a) /\ ~Working(a)'
    <3>1. Expects(a)
        BY DEF Calm, InPhase
    <3>2. ~Working(a)
        BY <2>1, <3>1 DEF Expects, Working
    <3>3. ~Working(a)'
        BY <1>0, <3>2 DEF Working
    <3> QED BY <1>0, <2>2, <3>1, <3>2, <3>3 DEF Expects
  <2>5. OnlyAwaited'
      BY <1>0, <2>1, <2>2, <2>4 DEF Calm, OnlyAwaited, Live
  <2>6. InPhase'
      BY <1>0, <2>2, <2>4 DEF Calm, InPhase
  <2> QED BY <2>3, <2>5, <2>6 DEF Calm
<1> QED BY <1>1, <1>2

\* Temporal: attempts are scheduled, lost, abandoned by a cancel; none is timed out.
LEMMA CalmTemporal ==
    ASSUME IInv, AsOne, Calm, timeouts' = 0,
           \/ Launch \/ LoseLaunch \/ DeliverCancel \/ LoseCancel \/ Schedule
           \/ \E a \in Attempts : AttemptLost(a) \/ Timeout(a) \/ ZombieEnds(a)
    PROVE  Calm'
<1>0. /\ att \in [Attempts -> Attempt] /\ wf \in Workflow /\ Idle' = Idle
      /\ timeouts \in Nat /\ lost \in Nat
    BY Bounds DEF IInv, TypeOK, Idle
<1>1. UNCHANGED <<job, source>> /\ (lost # 0 => lost' # 0)
  <2>1. UNCHANGED rows /\ (lost' = lost \/ lost' = lost + 1)
      BY DEF Launch, LoseLaunch, DeliverCancel, LoseCancel, Schedule, AttemptLost, Timeout,
             ZombieEnds, bounds
  <2> QED BY <1>0, <2>1 DEF rows
<1>2. (Over <=> Over') /\ (Past <=> Past') /\ (InScan <=> InScan') /\ (Found => Found') /\ InOrder'
    BY <1>1 DEF Over, Past, InScan, Found, Calm, InOrder
<1>3. ASSUME NEW a \in Attempts, att'[a] = att[a]
      PROVE  Expects(a)' /\ (Working(a)' <=> Working(a))
    BY <1>1, <1>3, ExpectsKept DEF Calm, InPhase
<1>4. CASE Launch
  <2>1. UNCHANGED <<att, cancelling>> /\ wf' = IF wf = Closed THEN Open("verify") ELSE wf
      BY <1>4 DEF Launch
  <2>2. OnlyAwaited'
      BY <1>0, <1>2, <1>3, <2>1, NoneAssumption DEF Calm, OnlyAwaited, Live, Open, Closed
  <2>3. InPhase'
      BY <1>2, <1>3, <2>1 DEF Calm, InPhase, Open
  <2> QED BY <1>2, <2>2, <2>3 DEF Calm
<1>5. CASE LoseLaunch \/ LoseCancel
  <2>1. UNCHANGED <<att, wf>> /\ (cancelling' => cancelling)
      BY <1>5 DEF LoseLaunch, LoseCancel
  <2>2. OnlyAwaited'
      BY <1>0, <1>2, <1>3, <2>1 DEF Calm, OnlyAwaited, Live
  <2>3. InPhase'
      BY <1>2, <1>3, <2>1 DEF Calm, InPhase
  <2> QED BY <1>2, <2>2, <2>3 DEF Calm
<1>6. CASE DeliverCancel
  <2>1. UNCHANGED att /\ Over /\ ~cancelling' /\ wf'.cur = None /\ wf'.phase # "scan"
      BY <1>6 DEF DeliverCancel, Calm, OnlyAwaited, AfterFailure, Open, Closed
  <2>2. OnlyAwaited'
      BY <1>0, <1>2, <1>3, <2>1 DEF Calm, OnlyAwaited, Live
  <2>3. InPhase'
      BY <1>2, <1>3, <2>1 DEF InPhase, Found
  <2> QED BY <1>2, <2>2, <2>3 DEF Calm
<1>7. CASE Schedule
  <2>1. PICK a \in Attempts :
          /\ att[a] = Idle
          /\ att' = [att EXCEPT ![a].phase = wf.phase]
          /\ wf' = [wf EXCEPT !.cur = a, !.tries = @ + 1]
      BY <1>7 DEF Schedule
  <2>2. wf.cur = None /\ wf # Closed /\ UNCHANGED cancelling
      BY <1>7 DEF Schedule
  <2>3. wf'.cur = a /\ wf'.phase = wf.phase
      BY <1>0, <2>1 DEF Workflow
  <2>4. /\ att'[a].phase = wf.phase /\ att'[a].pc = "begin"
        /\ \A b \in Attempts : b # a => att'[b] = att[b]
      BY <1>0, <2>1 DEF Attempt, Idle
  <2>5. (wf.phase = "scan" => Found) /\ (wf.phase = "fail_scan" => Found)
      BY <2>2 DEF Calm, InPhase
  <2>6. Expects(a)' /\ ~Working(a)'
      BY <1>2, <2>4, <2>5 DEF Expects, Working
  <2>7. OnlyAwaited'
      BY <1>0, <1>2, <1>3, <2>2, <2>3, <2>4, <2>6, NoneAssumption
      DEF Calm, OnlyAwaited, Live
  <2>8. InPhase'
      BY <1>2, <1>3, <2>3, <2>4, <2>5, <2>6 DEF InPhase
  <2> QED BY <1>2, <2>7, <2>8 DEF Calm
<1>8. ASSUME NEW a \in Attempts, AttemptLost(a)
      PROVE  Calm'
  <2>1. UNCHANGED <<rows, cancelling>> /\ wf.cur = a /\ att[a].phase = wf.phase /\ lost' # 0
      BY <1>0, <1>8, NoneAssumption DEF AttemptLost, Live, Calm, OnlyAwaited, rows
  <2>2. wf.phase \in Phases
      BY <2>1, NoneAssumption DEF IInv, TypeOK, Runs, Workflow, Closed
  <2>3. att[a] # Idle
      BY <2>1, <2>2, NoneAssumption DEF Idle
  <2>4. PICK result \in {"retry", "fatal"} : End(a, result)
      BY <1>8 DEF AttemptLost
  <2>5. wf'.phase \in {"scan", "fail_scan"} => wf.phase \in {"scan", "fail_scan"}
      BY <2>1, <2>4 DEF End, Report, Live, Outcome, AfterFailure, Open, Closed, IInv, TypeOK,
         Workflow
  <2>6. wf.phase \in {"scan", "fail_scan"} => Found'
      BY <1>2, <2>1 DEF Calm, InPhase, Found
  <2> QED BY <2>1, <2>3, <2>4, <2>5, <2>6, CalmEnd
<1>9. ASSUME NEW a \in Attempts, Timeout(a)
      PROVE  FALSE
    BY <1>0, <1>9 DEF Timeout
<1>10. ASSUME NEW a \in Attempts, ZombieEnds(a)
      PROVE  Calm'
  <2>1. /\ ~Live(a) /\ att'[a] = Idle' /\ \A b \in Attempts : b # a => att'[b] = att[b]
        /\ UNCHANGED <<wf, cancelling>>
      BY <1>0, <1>10 DEF ZombieEnds, temporal
  <2>2. ~Working(a)' /\ Expects(a)'
      BY <2>1, NoneAssumption DEF Working, Expects, Idle, Phases
  <2>3. wf.cur # None => att'[wf.cur] = att[wf.cur]
      BY <2>1 DEF Calm, OnlyAwaited, Live
  <2>4. OnlyAwaited'
      BY <1>0, <1>2, <1>3, <2>1, <2>2 DEF Calm, OnlyAwaited, Live
  <2>5. InPhase'
      BY <1>2, <1>3, <2>1, <2>2, <2>3 DEF Calm, InPhase
  <2> QED BY <1>2, <2>4, <2>5 DEF Calm
<1> QED BY <1>4, <1>5, <1>6, <1>7, <1>8, <1>9, <1>10

LEMMA StepCalm ==
    ASSUME IInv, AsOne, Calm, [Next]_vars, timeouts' = 0
    PROVE  Calm'
<1>1. CASE Upload \/ ReplayComplete \/ UNCHANGED vars
  <2>1. UNCHANGED <<job, source, wf, att, cancelling, lost>> /\ Idle' = Idle
      BY <1>1 DEF Upload, ReplayComplete, vars, rows, temporal, bounds, Idle
  <2> QED BY <2>1
          DEF Calm, InOrder, OnlyAwaited, InPhase, Expects, Working, Found, Over, InScan, Past,
              Live
<1>2. ASSUME NEW a \in Attempts, Activity(a)
      PROVE  Calm'
    BY <1>2, CalmActivity
<1> QED BY <1>1, <1>2, CalmApi, CalmReview, CalmTemporal DEF Next, ReviewStep

LeavesTheRest ==
    /\ job.status \in {"ready_for_mapping"} \cup UnderReview \cup Applied
       /\ source' # source =>
          \/ job'.status = "cancelled"
          \/ lost # 0 /\ job'.status = "failed" /\ source'.state = "failed"
    /\ job.status \in {"failed", "expired"} =>
          \/ job'.status = job.status
          \/ job.asked >= 2 /\ job'.status \in {"completed", "compensated"}

LEMMA StepLeavesTheRest ==
    ASSUME IInv, AsOne, Calm, [Next]_vars
    PROVE  LeavesTheRest
<1> USE DEF rows, UnderReview, Applied, LeavesTheRest
<1>0. job \in Job /\ source \in Source
    BY DEF IInv, TypeOK
<1>1. CASE Create \/ Expire \/ Complete \/ Cancel
    BY <1>0, <1>1 DEF Create, Expire, Complete, Cancel, Move, Job, Cancellable, Busy
<1>2. CASE ReviewStep
  <2>1. job.status # "expired"
    <3>1. CASE job.asked = 0
        BY <3>1, <1>2, ReviewTurns DEF IInv
    <3>2. CASE Past
        BY <3>2 DEF Past
    <3> QED BY <3>1, <3>2 DEF Calm, InOrder
  <2> QED BY <1>2, <2>1, ReviewTurns DEF IInv
<1>3. ASSUME NEW a \in Attempts, Activity(a)
      PROVE  LeavesTheRest
  <2>1. Expects(a)
      BY DEF Calm, InPhase
  <2>2. CASE MoveToVerifying(a)
      BY <2>2 DEF MoveToVerifying, Unverified
  <2>3. CASE RejectSource(a) \/ RecordVerified(a) \/ RecordClean(a) \/ RecordInfected(a)
             \/ At(a, "scan", "refuse")
    <3>1. job.status \in {"verifying", "scanning", "cancelled"}
        BY <2>1, <2>3
        DEF RejectSource, RecordVerified, RecordClean, RecordInfected, At, Expects, Working
    <3> QED BY <3>1
  <2>4. CASE FailScan(a) /\ At(a, "fail_scan", "begin")
    <3>1. Found /\ Fail("failed")
        BY <2>1, <2>4 DEF FailScan, At, Expects
    <3>2. CASE Cancelled
        BY <3>1, <3>2 DEF Fail
    <3>3. CASE ~Cancelled
      <4>1. job'.status = "failed" /\ source'.state = "failed"
          BY <1>0, <3>1, <3>3 DEF Fail, Job, Source
      <4>2. \/ job.status \in {"failed", "scanning"}
            \/ Past /\ lost # 0
          BY <3>1, <3>3, OverIsPast DEF Found, InScan
      <4>3. job.status # "expired"
          BY <4>2 DEF Past
      <4> QED BY <4>1, <4>2, <4>3
    <3> QED BY <3>2, <3>3
  <2>5. CASE HeadSource(a) \/ HashSource(a) \/ StartScan(a) \/ ScanSource(a)
                \/ QuarantineSource(a) \/ RemoveInfected(a) \/ Answer(a)
      BY <2>5 DEF HeadSource, HashSource, StartScan, ScanSource, QuarantineSource,
                  RemoveInfected, Answer
  <2> QED BY <1>3, <2>2, <2>3, <2>4, <2>5 DEF Activity, FailScan
<1>4. CASE \/ Upload \/ ReplayComplete \/ Launch \/ LoseLaunch \/ DeliverCancel \/ LoseCancel
          \/ Schedule \/ \E a \in Attempts : AttemptLost(a) \/ Timeout(a) \/ ZombieEnds(a)
    BY <1>4 DEF Upload, ReplayComplete, Launch, LoseLaunch, DeliverCancel, LoseCancel,
                Schedule, AttemptLost, Timeout, ZombieEnds
<1> QED BY <1>1, <1>2, <1>3, <1>4 DEF Next, ReviewStep, vars

LEMMA TimeoutsGrow == TypeOK /\ [Next]_vars => timeouts' = timeouts \/ timeouts' = timeouts + 1
<1> SUFFICES ASSUME TypeOK, [Next]_vars PROVE timeouts' = timeouts \/ timeouts' = timeouts + 1
    OBVIOUS
<1>1. ASSUME NEW a \in Attempts, Activity(a)
      PROVE  UNCHANGED timeouts
    BY <1>1
    DEF Activity, MoveToVerifying, HeadSource, HashSource, RejectSource, RecordVerified,
        StartScan, ScanSource, FailScan, RecordClean, QuarantineSource, RecordInfected,
        RemoveInfected, Answer, bounds
<1>2. ASSUME NEW a \in Attempts, AttemptLost(a) \/ ZombieEnds(a)
      PROVE  UNCHANGED timeouts
    BY <1>2 DEF AttemptLost, ZombieEnds, bounds
<1>3. CASE Upload \/ Create \/ Expire \/ Complete \/ ReplayComplete \/ Cancel
    BY <1>3 DEF Upload, Create, Expire, Complete, ReplayComplete, Cancel, bounds
<1>4. CASE ReviewStep
    BY <1>4, ReviewTurns DEF bounds
<1>5. CASE Launch \/ LoseLaunch \/ DeliverCancel \/ LoseCancel \/ Schedule
    BY <1>5 DEF Launch, LoseLaunch, DeliverCancel, LoseCancel, Schedule, bounds
<1> QED BY <1>1, <1>2, <1>3, <1>4, <1>5 DEF Next, ReviewStep, Timeout, vars, bounds

\* import_source_activity.py:161-189, business_imports.py:429-432.  Until an attempt is
\* timed out, no replay, retry, abandoned attempt or late call touches the source of a
\* job past its scan, but for the retry after a lost call or worker that records a
\* failure; and only what was asked for before moves a failed or expired job.
THEOREM LateCallsAreHarmless == Spec => RestIsLeftAlone
<1> DEFINE Inv == AsOne /\ (timeouts = 0 => Calm)
<1>1. Init => Inv
    BY InitAsOne, InitCalm
<1>2. ASSUME IInv, Inv, [Next]_vars
      PROVE  Inv'
  <2>1. timeouts' = 0 => timeouts = 0
      BY <1>2, TimeoutsGrow, Bounds DEF IInv, TypeOK
  <2>2. AsOne'
      BY <1>2, StepAsOne DEF IInv
  <2> QED BY <1>2, <2>1, <2>2, StepCalm
<1>3. IInv /\ Inv /\ [Next]_vars => [timeouts = 0 => LeavesTheRest]_vars
    BY StepLeavesTheRest
<1>4. RestIsLeftAlone <=> [][timeouts = 0 => LeavesTheRest]_vars
    BY DEF RestIsLeftAlone, LeavesTheRest
<1> QED
  <2> HIDE DEF Inv
  <2> QED BY <1>1, <1>2, <1>3, <1>4, Invariance, PTL DEF Spec
=============================================================================
