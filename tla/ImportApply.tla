---------------------------- MODULE ImportApply ----------------------------
(***************************************************************************)
(* The apply / compensate saga of a business-truth import, from the moment *)
(* a reviewed change set may be applied (ImportReview is the part before). *)
(*                                                                         *)
(* Three programs share the job, its operations and the version ledger:    *)
(*   - the API (import_change_sets.py, business_imports.py): a transaction *)
(*     on the job row, and after its commit a call to Temporal;            *)
(*   - the Temporal workflows (workflows/import_apply.py): at most         *)
(*     MaxTries attempts of the work activity, then of the fail activity;  *)
(*   - the activities (import_apply_activity.py): one transaction for each *)
(*     operation, under a FOR UPDATE lock of the operation row.            *)
(* An attempt the server gave up on (heartbeat timeout, cancellation) may  *)
(* still be running: it is a zombie until its process notices.             *)
(*                                                                         *)
(* Staging keeps one row for each identity (import_validation.py:216-234), *)
(* so row r is also the business object it creates or extends.             *)
(***************************************************************************)
EXTENDS Naturals

CONSTANTS
    N,            \* rows of the import
    Base,         \* version at which the updated objects were reviewed
    PlanKinds,    \* operations a plan may hold
    Attempts,     \* slots for activity attempts that run at the same time
    None,
    MaxTries,     \* RetryPolicy.maximum_attempts
    MaxEdits,     \* bound on the owner's own versions
    MaxLost,      \* bound on crashes (workers, and the API before a Temporal call)
    MaxTimeouts,  \* bound on attempts the server times out while they run
    LateReplay,   \* may a start_apply replay be served after compensation began?
    LateCancel    \* is the job cancelled while its apply workflow is at work?

ASSUME SizeAssumption == N \in Nat /\ Base \in Nat \ {0} /\ MaxTries \in Nat \ {0}
ASSUME BoundAssumption == /\ {MaxEdits, MaxLost, MaxTimeouts} \subseteq Nat
                          /\ {LateReplay, LateCancel} \subseteq BOOLEAN
ASSUME PlanAssumption == PlanKinds \subseteq {"create", "new_version", "skip", "conflict"}
ASSUME NoneAssumption == None \notin Attempts \cup {"apply", "compensate"}

VARIABLES
    job,        \* import_jobs: status and the two idempotency keys
    plan,       \* import_change_set_operations.operation, fixed at review
    op,         \* import_change_set_operations: status, result and snapshot
    current,    \* business_objects.current_version
    versions,   \* business_object_versions
    launch,     \* the API has committed and not yet called start_workflow
    cancelling, \* the API has committed a cancel and not yet called cancel
    wf,         \* the two workflows: run, tries used, attempt awaited
    att,        \* running activity attempts
    edits, lost, timeouts

ledger  == <<current, versions>>
temporal == <<launch, cancelling, wf>>
bounds  == <<edits, lost, timeouts>>
vars == <<job, plan, op, ledger, temporal, att, bounds>>

Rows  == 1 .. N
Kinds == {"apply", "compensate"}

\* The idempotency key of a version: the owner's, _operation_key, or that key
\* with "-compensate" (import_apply_activity.py:214, 440).
Key == [by : {"seed"}, row : Rows, n : 1 .. Base]
        \cup [by : {"owner"}, row : Rows, n : 1 .. MaxEdits]
        \cup [by : Kinds, row : Rows, n : {0}]

ImportKey(kind, r) == [by |-> kind, row |-> r, n |-> 0]

\* What a version says: the text first written under some key, archived or not.
Body == [text : Key, archived : BOOLEAN]

ASSUME NoBodyAssumption == None \notin Body

VersionRow == [object : Rows, version : Nat \ {0}, key : Key, body : Body]

JobStatus == {"ready_for_review", "applying", "completed", "partially_completed",
              "failed", "cancelled", "compensating", "compensated"}
Job == [status : JobStatus, applyKey : BOOLEAN, compensationKey : BOOLEAN]

Operation == [status : {"planned", "skipped", "failed", "applied", "compensated"},
              result : Nat,                    \* result_version, 0: none
              snapshot : Body \cup {None}]     \* compensation_snapshot

Workflow == [run : {"closed", "work", "fail"}, tries : 0 .. MaxTries,
             cur : Attempts \cup {None}]

Attempt == [kind : Kinds \cup {None}, phase : {"work", "fail"},
            pc : {"begin", "next", "write"},
            todo : SUBSET Rows, row : Rows \cup {0}]

Idle       == [kind |-> None, phase |-> "work", pc |-> "begin", todo |-> {}, row |-> 0]
Closed     == [run |-> "closed", tries |-> 0, cur |-> None]
Run(phase) == [run |-> phase, tries |-> 0, cur |-> None]

Expected(r) == IF plan[r] = "new_version" THEN Base ELSE 0

\* The versions reviewed objects had before the import.
SeedVersion(r, n) ==
    LET key == [by |-> "seed", row |-> r, n |-> n]
    IN  [object |-> r, version |-> n, key |-> key, body |-> [text |-> key, archived |-> FALSE]]

Init ==
    /\ job = [status |-> "ready_for_review", applyKey |-> FALSE, compensationKey |-> FALSE]
    /\ plan \in [Rows -> PlanKinds]
    /\ op = [r \in Rows |->
                [status |-> CASE plan[r] = "skip" -> "skipped"
                              [] plan[r] = "conflict" -> "failed"
                              [] OTHER -> "planned",
                 result |-> 0, snapshot |-> None]]
    /\ current = [r \in Rows |-> Expected(r)]
    /\ versions = {SeedVersion(r, n) :
                        r \in {q \in Rows : plan[q] = "new_version"}, n \in 1 .. Base}
    /\ launch = [k \in Kinds |-> FALSE]
    /\ cancelling = FALSE
    /\ wf = [k \in Kinds |-> Closed]
    /\ att = [a \in Attempts |-> Idle]
    /\ edits = 0 /\ lost = 0 /\ timeouts = 0

-----------------------------------------------------------------------------
(* The ledger, as create_object and create_version leave it (BusinessTruth). *)

WriteVersion(r, key, body) ==
    /\ current' = [current EXCEPT ![r] = @ + 1]
    /\ versions' = versions \cup
            {[object |-> r, version |-> current[r] + 1, key |-> key, body |-> body]}

BodyAt(r, n) == (CHOOSE v \in versions : v.object = r /\ v.version = n).body

\* The owner writes a version of the object, or creates it, in the meantime.
OwnerEdit(r) ==
    LET key == [by |-> "owner", row |-> r, n |-> edits + 1]
    IN  /\ edits < MaxEdits
        /\ edits' = edits + 1
        /\ WriteVersion(r, key, [text |-> key, archived |-> FALSE])
        /\ UNCHANGED <<job, plan, op, temporal, att, lost, timeouts>>

-----------------------------------------------------------------------------
(* The API.  Each transaction locks the job row; launch is what follows it. *)

StartApply ==
    /\ job.status = "ready_for_review" /\ ~job.applyKey
    /\ \A r \in Rows : plan[r] # "conflict"
    /\ \A r \in Rows : plan[r] = "new_version" => current[r] = Expected(r)
    /\ job' = [job EXCEPT !.status = "applying", !.applyKey = TRUE]
    /\ launch' = [launch EXCEPT !["apply"] = TRUE]
    /\ UNCHANGED <<plan, op, ledger, cancelling, wf, att, bounds>>

StartCompensation ==
    /\ ~job.compensationKey
    /\ job.status \in {"completed", "partially_completed"}
    /\ wf["apply"].run # "closed" \/ launch["apply"] => LateReplay
    /\ job' = [job EXCEPT !.status = "compensating", !.compensationKey = TRUE]
    /\ launch' = [launch EXCEPT !["compensate"] = TRUE]
    /\ UNCHANGED <<plan, op, ledger, cancelling, wf, att, bounds>>

\* The same Idempotency-Key again: whatever the status is by now, the workflow
\* is launched again and nothing else changes.
Replay(k) ==
    /\ IF k = "apply" THEN job.applyKey ELSE job.compensationKey
    /\ k = "apply" /\ job.compensationKey => LateReplay
    /\ ~launch[k]
    /\ launch' = [launch EXCEPT ![k] = TRUE]
    /\ UNCHANGED <<job, plan, op, ledger, cancelling, wf, att, bounds>>

\* A second start of a running workflow is swallowed; a closed one runs anew.
Launch(k) ==
    /\ launch[k]
    /\ launch' = [launch EXCEPT ![k] = FALSE]
    /\ wf' = IF wf[k].run = "closed" THEN [wf EXCEPT ![k] = Run("work")] ELSE wf
    /\ UNCHANGED <<job, plan, op, ledger, cancelling, att, bounds>>

\* The API dies, or Temporal is unreachable, between the commit and the call.
LoseLaunch(k) ==
    /\ launch[k] /\ lost < MaxLost
    /\ launch' = [launch EXCEPT ![k] = FALSE]
    /\ lost' = lost + 1
    /\ UNCHANGED <<job, plan, op, ledger, cancelling, wf, att, edits, timeouts>>

\* cancel, and its replay on a cancelled job.
Cancel ==
    /\ job.status \in {"ready_for_review", "applying", "cancelled"}
    /\ job.applyKey => LateCancel
    /\ job' = [job EXCEPT !.status = "cancelled"]
    /\ cancelling' = job.applyKey
    /\ UNCHANGED <<plan, op, ledger, launch, wf, att, bounds>>

\* A cancelled workflow abandons the attempt it awaits, which surfaces as an
\* ActivityError: out of the work phase it runs the fail activity, out of the
\* fail phase it closes.
DeliverCancel ==
    /\ cancelling
    /\ cancelling' = FALSE
    /\ wf' = [wf EXCEPT !["apply"] = IF @.run = "work" THEN Run("fail") ELSE Closed]
    /\ UNCHANGED <<job, plan, op, ledger, launch, att, bounds>>

LoseCancel ==
    /\ cancelling /\ lost < MaxLost
    /\ cancelling' = FALSE
    /\ lost' = lost + 1
    /\ UNCHANGED <<job, plan, op, ledger, launch, wf, att, edits, timeouts>>

-----------------------------------------------------------------------------
(* Temporal: scheduling, retries, lost and abandoned attempts. *)

Live(a) == \E k \in Kinds : wf[k].cur = a

Schedule(k) ==
    /\ wf[k].run # "closed" /\ wf[k].cur = None
    /\ \E a \in Attempts :
        /\ att[a] = Idle /\ ~Live(a)
        /\ att' = [att EXCEPT ![a] = [Idle EXCEPT !.kind = k, !.phase = wf[k].run]]
        /\ wf' = [wf EXCEPT ![k].cur = a, ![k].tries = @ + 1]
    /\ UNCHANGED <<job, plan, op, ledger, launch, cancelling, bounds>>

\* Mutant of Escalate: the workflow does not catch ActivityError.
Uncaught(w) == Closed

\* After the work activity's last failure the fail activity runs; after the fail
\* activity's, the workflow fails.
Escalate(w) == IF w.run = "work" THEN Run("fail") ELSE Closed

\* Mutant of Outcome: the retry policy has no maximum_attempts.
RetryForever(w, result) ==
    CASE result = "ok" -> Closed
      [] result = "retry" -> [w EXCEPT !.cur = None]
      [] OTHER -> Escalate(w)

\* What the workflow does with the outcome of the attempt it awaits; nobody
\* listens to a zombie.
Outcome(w, result) ==
    CASE result = "ok" -> Closed
      [] result = "retry" /\ w.tries < MaxTries -> [w EXCEPT !.cur = None]
      [] OTHER -> Escalate(w)

Report(a, result) ==
    wf' = [k \in Kinds |-> IF wf[k].cur = a THEN Outcome(wf[k], result) ELSE wf[k]]

End(a, result) ==
    /\ att' = [att EXCEPT ![a] = Idle]
    /\ Report(a, result)

\* The worker running a live attempt dies; an open transaction rolls back.
AttemptLost(a) ==
    /\ Live(a) /\ lost < MaxLost
    /\ End(a, "retry")
    /\ lost' = lost + 1
    /\ UNCHANGED <<job, plan, op, ledger, launch, cancelling, edits, timeouts>>

\* The server misses heartbeats and gives up on an attempt that still runs.
Timeout(a) ==
    /\ Live(a) /\ timeouts < MaxTimeouts
    /\ Report(a, "retry")
    /\ timeouts' = timeouts + 1
    /\ UNCHANGED <<job, plan, op, ledger, launch, cancelling, att, edits, lost>>

\* A zombie learns that nobody waits for it, or its connection is cut.
ZombieEnds(a) ==
    /\ att[a] # Idle /\ ~Live(a)
    /\ att' = [att EXCEPT ![a] = Idle]
    /\ UNCHANGED <<job, plan, op, ledger, temporal, bounds>>

-----------------------------------------------------------------------------
(* The activities. *)

Doing(a, k, phase, pc) == 
    att[a].kind = k /\ att[a].phase = phase /\ att[a].pc = pc

\* Nobody holds the FOR UPDATE lock of operation r.
Unlocked(r) == \A b \in Attempts : ~(att[b].pc = "write" /\ att[b].row = r)

\* The row an attempt turns to: by sequence, or from the last when compensating.
Turn(a, k, r) ==
    /\ r \in att[a].todo
    /\ \A q \in att[a].todo : IF k = "apply" THEN r <= q ELSE q <= r

Listed(a, status) ==
    att' = [att EXCEPT ![a].pc = "next", ![a].todo = {r \in Rows : op[r].status = status}]

Done(a, r) == att' = [att EXCEPT ![a].pc = "next", ![a].todo = @ \ {r}, ![a].row = 0]

ListPlanned(a) ==
    /\ Doing(a, "apply", "work", "begin")
    /\ Listed(a, "planned")
    /\ UNCHANGED <<job, plan, op, ledger, temporal, bounds>>

\* _apply_operation up to its checks: the operation row is locked from here on,
\* the job's status is read without a lock.
CheckRow(a) == \E r \in Rows :
    /\ Doing(a, "apply", "work", "next") /\ Turn(a, "apply", r)
    /\ Unlocked(r)
    /\ \/ /\ op[r].status = "applied"
          /\ Done(a, r) /\ UNCHANGED wf
       \/ /\ op[r].status = "planned" /\ job.status = "applying"
          /\ att' = [att EXCEPT ![a].pc = "write", ![a].row = r] /\ UNCHANGED wf
       \/ /\ op[r].status # "applied"
          /\ op[r].status # "planned" \/ job.status # "applying"
          /\ End(a, "fatal")
    /\ UNCHANGED <<job, plan, op, ledger, launch, cancelling, bounds>>

\* Mutant of Unmoved: expected_version is not compared.
SlugFree(r) == plan[r] = "create" => current[r] = 0

\* The slug is still free, or the object still at the version reviewed.
Unmoved(r) == current[r] = Expected(r)

\* Mutant of Applied: the version replaced is recorded as the result.
AppliedAtExpected(r) ==
    [status |-> "applied", result |-> Expected(r),
     snapshot |-> IF plan[r] = "create" THEN None ELSE BodyAt(r, Expected(r))]

Applied(r) ==
    [status |-> "applied", result |-> Expected(r) + 1,
     snapshot |-> IF plan[r] = "create" THEN None ELSE BodyAt(r, Expected(r))]

\* Mutant of Rejected: the row is passed over instead.
PassOver(a, r) == Done(a, r) /\ UNCHANGED wf

\* A taken slug is a conflict Temporal retries, a version that moved on is not.
Rejected(a, r) ==
    End(a, IF att[a].kind = "apply" /\ plan[r] = "create" THEN "retry" ELSE "fatal")

\* ... and its write.
WriteRow(a) == LET r == att[a].row IN
    /\ Doing(a, "apply", "work", "write")
    /\ \/ /\ Unmoved(r)
          /\ WriteVersion(r, ImportKey("apply", r),
                          [text |-> ImportKey("apply", r), archived |-> FALSE])
          /\ op' = [op EXCEPT ![r] = Applied(r)]
          /\ Done(a, r) /\ UNCHANGED wf
       \/ ~Unmoved(r) /\ Rejected(a, r) /\ UNCHANGED <<op, ledger>>
    /\ UNCHANGED <<job, plan, launch, cancelling, bounds>>

FinishApply(a) ==
    /\ Doing(a, "apply", "work", "next") /\ att[a].todo = {}
    /\ job' = [job EXCEPT !.status =
                IF \E r \in Rows : op[r].status = "failed"
                THEN "partially_completed" ELSE "completed"]
    /\ End(a, "ok")
    /\ UNCHANGED <<plan, op, ledger, launch, cancelling, bounds>>

\* Mutant of FailureOf: rows already applied are not looked for.
FailedOutright(status) ==
    IF status \in {"completed", "partially_completed", "cancelled"} THEN status ELSE "failed"

FailureOf(status) ==
    IF status \in {"completed", "partially_completed", "cancelled"} THEN status
    ELSE IF \E r \in Rows : op[r].status = "applied" THEN "partially_completed" ELSE "failed"

FailApply(a) ==
    /\ Doing(a, "apply", "fail", "begin")
    /\ job' = [job EXCEPT !.status = FailureOf(@)]
    /\ End(a, "ok")
    /\ UNCHANGED <<plan, op, ledger, launch, cancelling, bounds>>

ListApplied(a) ==
    /\ Doing(a, "compensate", "work", "begin")
    /\ Listed(a, "applied")
    /\ UNCHANGED <<job, plan, op, ledger, temporal, bounds>>

\* Mutant of Newest: only a missing version stops compensation.
Exists(r) == op[r].result <= current[r]

\* The version the import wrote is still the object's newest.
Newest(r) == current[r] = op[r].result

\* _compensate_operation: a compensating version, unless the owner has written
\* a newer one.
CompensateRow(a) == \E r \in Rows :
    /\ Doing(a, "compensate", "work", "next") /\ Turn(a, "compensate", r)
    /\ Unlocked(r)
    /\ \/ /\ op[r].status = "compensated"
          /\ Done(a, r) /\ UNCHANGED <<op, ledger, wf>>
       \/ /\ op[r].status # "compensated" /\ Newest(r)
          /\ WriteVersion(r, ImportKey("compensate", r),
                IF op[r].snapshot # None THEN op[r].snapshot
                ELSE [text |-> BodyAt(r, op[r].result).text, archived |-> TRUE])
          /\ op' = [op EXCEPT ![r].status = "compensated"]
          /\ Done(a, r) /\ UNCHANGED wf
       \/ /\ op[r].status # "compensated" /\ ~Newest(r)
          /\ Rejected(a, r) /\ UNCHANGED <<op, ledger>>
    /\ UNCHANGED <<job, plan, launch, cancelling, bounds>>

FinishCompensation(a) ==
    /\ Doing(a, "compensate", "work", "next") /\ att[a].todo = {}
    /\ job' = [job EXCEPT !.status = "compensated"]
    /\ End(a, "ok")
    /\ UNCHANGED <<plan, op, ledger, launch, cancelling, bounds>>

FailCompensation(a) ==
    /\ Doing(a, "compensate", "fail", "begin")
    /\ job' = [job EXCEPT !.status = IF @ = "compensated" THEN @ ELSE "partially_completed"]
    /\ End(a, "ok")
    /\ UNCHANGED <<plan, op, ledger, launch, cancelling, bounds>>

-----------------------------------------------------------------------------
Activity(a) ==
    \/ ListPlanned(a) \/ CheckRow(a) \/ WriteRow(a) \/ FinishApply(a) \/ FailApply(a)
    \/ ListApplied(a) \/ CompensateRow(a) \/ FinishCompensation(a) \/ FailCompensation(a)

Next ==
    \/ StartApply \/ StartCompensation \/ Cancel \/ DeliverCancel \/ LoseCancel
    \/ \E k \in Kinds : Replay(k) \/ Launch(k) \/ LoseLaunch(k) \/ Schedule(k)
    \/ \E a \in Attempts : Activity(a) \/ AttemptLost(a) \/ Timeout(a) \/ ZombieEnds(a)
    \/ \E r \in Rows : OwnerEdit(r)

Spec == Init /\ [][Next]_vars

\* A client told 503, or polling a job that stays busy, repeats its request.
ClientRetry(k) ==
    /\ job.status = IF k = "apply" THEN "applying" ELSE "compensating"
    /\ wf[k].run = "closed"
    /\ Replay(k)

\* The API makes the Temporal call it owes, Temporal keeps scheduling, workers
\* keep running, and a client with a stuck job retries.
FairSpec ==
    /\ Spec
    /\ \A k \in Kinds : WF_vars(Launch(k)) /\ WF_vars(Schedule(k)) /\ WF_vars(ClientRetry(k))
    /\ \A a \in Attempts : WF_vars(Activity(a))

-----------------------------------------------------------------------------
TypeOK ==
    /\ job \in Job
    /\ plan \in [Rows -> PlanKinds]
    /\ op \in [Rows -> Operation]
    /\ current \in [Rows -> Nat] /\ versions \subseteq VersionRow
    /\ launch \in [Kinds -> BOOLEAN] /\ cancelling \in BOOLEAN
    /\ wf \in [Kinds -> Workflow] /\ att \in [Attempts -> Attempt]
    /\ edits \in 0 .. MaxEdits /\ lost \in 0 .. MaxLost /\ timeouts \in 0 .. MaxTimeouts

\* import_apply_activity.py:162-317, 365-453.  However attempts are lost, retried,
\* timed out or cancelled, the operation rows and the canonical ledger tell one
\* story: an applied operation has bought exactly the version it names, a
\* compensated one also its compensating version, any other nothing.
Bought(k, r) == {v \in versions : v.key = ImportKey(k, r)}
OpLedgerAgreement ==
    \A r \in Rows :
        /\ IF op[r].status \in {"applied", "compensated"}
           THEN \E v \in versions : /\ Bought("apply", r) = {v}
                                    /\ v.object = r /\ v.version = op[r].result
           ELSE Bought("apply", r) = {}
        /\ IF op[r].status = "compensated"
           THEN \E v \in versions : Bought("compensate", r) = {v} /\ v.object = r
           ELSE Bought("compensate", r) = {}

\* import_apply_activity.py:256-264.  No lost update: an import version always
\* directly follows the version the reviewer saw, whoever edits meanwhile.
AppliedOnReviewedBase ==
    \A r \in Rows : \A v \in Bought("apply", r) :
        plan[r] \in {"create", "new_version"} /\ v.version = Expected(r) + 1

\* import_apply_activity.py:395-442.  A compensating version directly follows the
\* import's version, so it buries no owner edit, and says again what the reviewed
\* version said, or archives what the import created.
CompensationRestores ==
    \A r \in Rows : \A v \in Bought("compensate", r) :
        /\ v.version = Expected(r) + 2
        /\ v.body = IF plan[r] = "create"
                    THEN [text |-> ImportKey("apply", r), archived |-> TRUE]
                    ELSE BodyAt(r, Expected(r))

Ledger == INSTANCE VersionLedger WITH Objects <- Rows, Keys <- Key, Bodies <- Body

\* The saga and the owner together only ever append to the ledger, one version
\* and one fresh idempotency key at a time.
LedgerSteps == [][Ledger!Next]_(Ledger!ledgerVars)

FailedMeansNothingApplied ==
    job.status = "failed" => \A r \in Rows : Bought("apply", r) = {}
CompletedMeansAllApplied ==
    job.status = "completed" =>
        \A r \in Rows : op[r].status = IF plan[r] = "skip" THEN "skipped" ELSE "applied"
CompensatedMeansNoneApplied ==
    job.status = "compensated" => \A r \in Rows : op[r].status # "applied"

\* import_apply_activity.py:53-64, 72-97, 320-362.  What the job reports is true of its
\* rows: failed, and nothing was changed; completed, and every row is in; compensated,
\* and no row is left in.
ReportsAreTrue ==
    FailedMeansNothingApplied /\ CompletedMeansAllApplied /\ CompensatedMeansNoneApplied

\* Once apply or compensation is accepted the job reaches a state a person can
\* act on, whatever fails boundedly often on the way.
ApplyEnds        == job.status = "applying" ~> job.status # "applying"
CompensationEnds == job.status = "compensating" ~> job.status # "compensating"

\* import_apply_activity.py:192, 351.  Cancel does not stop an attempt past its last
\* check of the status.  But a job leaves cancelled only as completed, and only when
\* every row of its plan is in: what a cancel leaves behind is never passed off as
\* done, or as failed.
CancelYieldsToDone ==
    [][job.status = "cancelled" /\ job'.status # "cancelled" =>
          /\ job'.status = "completed"
          /\ \A r \in Rows : op'[r].status = IF plan[r] = "skip" THEN "skipped" ELSE "applied"]_vars

\* docs/en/workspace-onboarding-import-baseline.md:92 lists cancelled and
\* compensated among the terminal states.
TerminalIsTerminal ==
    [][job.status \in {"cancelled", "compensated"} => job'.status = job.status]_vars
=============================================================================
