--------------------------- MODULE ImportReview ---------------------------
(***************************************************************************)
(* A business-truth import from a clean source to an accepted apply:       *)
(* mapping, validation, dry-run change set, approval decision, start_apply *)
(* (business_imports.py, import_validation_activity.py,                    *)
(* import_change_sets.py).  ImportApply is what happens next.              *)
(*                                                                         *)
(* API calls are transactions on the locked job row, except that decide    *)
(* reads the selection before it locks the set.  Validation is a Temporal  *)
(* workflow for each mapping; its attempts read a canonical snapshot in    *)
(* one transaction and store what they found in another.  The owner edits  *)
(* canonical objects and the policy is retired at any moment.              *)
(* Replays that change nothing are left out; row r is also the object the  *)
(* row resolves to.                                                        *)
(***************************************************************************)
EXTENDS Naturals, Sequences

CONSTANTS
    N,            \* rows of the import
    RowKinds,     \* what validation may find a row to be
    Attempts,     \* slots for validation attempts that run at the same time
    None,
    MaxMappings, MaxSets,   \* bounds on mapping and change-set versions
    MaxEdits, MaxTimeouts   \* bounds on owner edits and on abandoned attempts

ASSUME BoundAssumption ==
    {N, MaxMappings, MaxSets, MaxEdits, MaxTimeouts} \subseteq Nat
ASSUME KindAssumption == RowKinds \subseteq {"draft", "active", "invalid", "conflict"}

VARIABLES
    job,        \* import_jobs: status, selected mapping and set, apply key
    staged,     \* import_rows, None before the first validation
    sets,       \* import_change_sets with their operations, by version
    policy,     \* is the reviewed policy version active?
    current,    \* business_objects.current_version
    asked,      \* mappings whose validation was requested
    open,       \* mappings whose validation workflow has not closed
    failing,    \* ... and has given up validating
    val,        \* validation attempts
    deciding,   \* the set version a decide call has read, 0: none
    edits, timeouts

jobVars == <<job, staged, sets>>
valVars == <<asked, open, failing, val>>
vars == <<jobVars, policy, current, valVars, deciding, edits, timeouts>>

Rows == 1 .. N

\* A staged row: what it is, and the version its identity resolved to (0: new).
StagedRow == [kind : RowKinds, target : Nat]
Staging == [mapping : 1 .. MaxMappings, rows : [Rows -> StagedRow]]
ASSUME StagingAssumption == None \notin Staging

Operation == [kind : {"create", "new_version", "skip", "conflict"},
              expected : Nat, active : BOOLEAN]

\* gone: the operations were deleted with the rows they reference.
ChangeSet == [mapping : 1 .. MaxMappings,
              status : {"ready_for_review", "approved", "rejected", "superseded"},
              approval : {"not_required", "pending", "approved", "rejected"},
              plan : [Rows -> Operation], gone : BOOLEAN]

JobStatus == {"ready_for_mapping", "validating", "ready_for_review",
              "applying", "failed", "cancelled"}
Job == [status : JobStatus, mapping : 0 .. MaxMappings, selected : 0 .. MaxSets,
        applyKey : BOOLEAN]

\* Idle is "idle", "load" a begun attempt, "parsed" one that holds a snapshot.
Attempt == [pc : {"idle", "load", "parsed"}, mapping : 0 .. MaxMappings,
            rows : [Rows -> Nat] \cup {None}, live : BOOLEAN]
Idle == [pc |-> "idle", mapping |-> 0, rows |-> None, live |-> FALSE]

Init ==
    /\ job = [status |-> "ready_for_mapping", mapping |-> 0, selected |-> 0,
              applyKey |-> FALSE]
    /\ staged = None /\ sets = << >>
    /\ policy = TRUE
    /\ current \in [Rows -> {0, 1}]
    /\ asked = {} /\ open = {} /\ failing = {}
    /\ val = [a \in Attempts |-> Idle]
    /\ deciding = 0
    /\ edits = 0 /\ timeouts = 0

-----------------------------------------------------------------------------
(* The world outside the job. *)

OwnerEdit(r) ==
    /\ edits < MaxEdits
    /\ edits' = edits + 1
    /\ current' = [current EXCEPT ![r] = @ + 1]
    /\ UNCHANGED <<jobVars, policy, valVars, deciding, timeouts>>

RetirePolicy ==
    /\ policy
    /\ policy' = FALSE
    /\ UNCHANGED <<jobVars, current, valVars, deciding, edits, timeouts>>

-----------------------------------------------------------------------------
(* Mapping and validation. *)

CreateMapping ==
    /\ job.status \in {"ready_for_mapping", "ready_for_review"}
    /\ job.mapping < MaxMappings
    /\ job' = [job EXCEPT !.status = "ready_for_mapping", !.mapping = @ + 1]
    /\ UNCHANGED <<staged, sets, policy, current, valVars, deciding, edits, timeouts>>

StartValidation ==
    /\ job.mapping # 0 /\ job.status = "ready_for_mapping"
    /\ job' = [job EXCEPT !.status = "validating"]
    /\ asked' = asked \cup {job.mapping}
    /\ UNCHANGED <<staged, sets, policy, current, open, failing, val, deciding, edits, timeouts>>

\* The call to Temporal that follows the commit of start_validation or of its
\* replay, which is accepted while validating and in ready_for_review.
LaunchValidation(m) ==
    /\ m \in asked \ open
    /\ job.mapping = m /\ job.status \in {"validating", "ready_for_review"}
    /\ open' = open \cup {m}
    /\ UNCHANGED <<jobVars, policy, current, asked, failing, val, deciding, edits, timeouts>>

\* Temporal runs one attempt of an open workflow at a time, as far as it knows.
BeginAttempt(a, m) ==
    /\ m \in open \ failing /\ val[a] = Idle
    /\ \A b \in Attempts : val[b].live => val[b].mapping # m
    /\ val' = [val EXCEPT ![a] = [pc |-> "load", mapping |-> m, rows |-> None, live |-> TRUE]]
    /\ UNCHANGED <<jobVars, policy, current, asked, open, failing, deciding, edits, timeouts>>

\* A failed attempt is retried, or it was the third one or its error not retryable.
RetryOrGiveUp(m) == failing' = failing \/ failing' = failing \cup {m}

\* The worker dies, the attempt raises, or a zombie notices.
AttemptEnds(a) ==
    /\ val[a] # Idle
    /\ val' = [val EXCEPT ![a] = Idle]
    /\ IF val[a].live THEN RetryOrGiveUp(val[a].mapping) ELSE UNCHANGED failing
    /\ UNCHANGED <<jobVars, policy, current, asked, open, deciding, edits, timeouts>>

\* The server gives up on an attempt that still runs.
Timeout(a) ==
    /\ val[a].live /\ timeouts < MaxTimeouts
    /\ val' = [val EXCEPT ![a].live = FALSE]
    /\ RetryOrGiveUp(val[a].mapping)
    /\ timeouts' = timeouts + 1
    /\ UNCHANGED <<jobVars, policy, current, asked, open, deciding, edits>>

\* The attempt's activity returns: the workflow closes if it was waiting for it.
Return(a) ==
    /\ val' = [val EXCEPT ![a] = Idle]
    /\ open' = IF val[a].live THEN open \ {val[a].mapping} ELSE open

\* _load_execution lets the attempt on, or has it return at once, or raises
\* (AttemptEnds); then _canonical_snapshot reads the canonical objects.
LoadAndSnapshot(a) ==
    /\ val[a].pc = "load" /\ job.mapping = val[a].mapping
    /\ \/ /\ job.status \in {"cancelled", "ready_for_review"}
          /\ Return(a)
       \/ /\ job.status = "validating"
          /\ val' = [val EXCEPT ![a].pc = "parsed", ![a].rows = current]
          /\ UNCHANGED open
    /\ UNCHANGED <<jobVars, policy, current, asked, failing, deciding, edits, timeouts>>

\* The rows of this attempt replace the staged ones.  Deleting the old rows
\* deletes, by foreign key, the operations of every set planned from them.
Stage(a) ==
    /\ \E kinds \in [Rows -> RowKinds] :
          staged' = [mapping |-> val[a].mapping,
                     rows |-> [r \in Rows |-> [kind |-> kinds[r], target |-> val[a].rows[r]]]]
    /\ sets' = [s \in 1 .. Len(sets) |-> [sets[s] EXCEPT !.gone = TRUE]]
    /\ job' = [job EXCEPT !.status = "ready_for_review"]

\* Mutant of PersistResult: the selected mapping is not looked at again.
PersistAnyMapping(a) ==
    /\ val[a].pc = "parsed" /\ job.status = "validating"
    /\ Stage(a)
    /\ Return(a)
    /\ UNCHANGED <<policy, current, asked, failing, deciding, edits, timeouts>>

\* _persist_result; in any other state it raises (AttemptEnds).
PersistResult(a) ==
    /\ val[a].pc = "parsed"
    /\ \/ /\ job.status \in {"cancelled", "ready_for_review"}
          /\ UNCHANGED jobVars
       \/ /\ job.status = "validating" /\ job.mapping = val[a].mapping
          /\ Stage(a)
    /\ Return(a)
    /\ UNCHANGED <<policy, current, asked, failing, deciding, edits, timeouts>>

\* Mutant of Fail: a cancelled job is not spared.
FailAny == job' = [job EXCEPT !.status = "failed"]

\* _record_source_failure.
Fail == job' = IF job.status = "cancelled" THEN job ELSE [job EXCEPT !.status = "failed"]

\* The attempt finds the source changed, or its schema not the mapping's.
SourceFailure(a) ==
    /\ val[a].pc \in {"load", "parsed"}
    /\ val[a].pc = "load" => job.status = "validating" /\ job.mapping = val[a].mapping
    /\ Fail
    /\ Return(a)
    /\ UNCHANGED <<staged, sets, policy, current, asked, failing, deciding, edits, timeouts>>

\* Having given up, the workflow runs fail_import_validation and closes.
FailValidation(m) ==
    /\ m \in failing
    /\ Fail
    /\ open' = open \ {m} /\ failing' = failing \ {m}
    /\ UNCHANGED <<staged, sets, policy, current, asked, val, deciding, edits, timeouts>>

-----------------------------------------------------------------------------
(* Change set, decision, apply. *)

\* _plan_row: a target that moved on since the snapshot is a conflict.
PlannedOperation(row, now) ==
    LET active == row.kind = "active"
        Op(kind, expected) == [kind |-> kind, expected |-> expected,
                               active |-> active /\ kind \in {"create", "new_version"}]
    IN  CASE row.kind = "invalid"  -> Op("skip", 0)
          [] row.kind = "conflict" -> Op("conflict", 0)
          [] OTHER -> IF row.target = 0 THEN Op("create", 0)
                      ELSE IF row.target = now THEN Op("new_version", now)
                      ELSE Op("conflict", 0)

Active(set) == \E r \in Rows : set.plan[r].active

\* Mutant of Superseded: the wrong column.
SupersededApproval(set) == [set EXCEPT !.approval = "superseded"]

Superseded(set) ==
    IF set.status \in {"ready_for_review", "approved"}
    THEN [set EXCEPT !.status = "superseded"] ELSE set

\* The staged rows, planned against the canonical objects as they are now, become
\* the selected change set; active versions need a policy and an approval.
PlanChangeSet ==
    LET plan == [r \in Rows |-> PlannedOperation(staged.rows[r], current[r])]
        active == \E r \in Rows : plan[r].active
    IN  /\ staged # None /\ Len(sets) < MaxSets
        /\ active => policy
        /\ sets' = Append([s \in 1 .. Len(sets) |-> Superseded(sets[s])],
                [mapping |-> job.mapping, status |-> "ready_for_review", plan |-> plan,
                 approval |-> IF active THEN "pending" ELSE "not_required", gone |-> FALSE])
        /\ job' = [job EXCEPT !.selected = Len(sets) + 1]
        /\ UNCHANGED <<staged, policy, current, valVars, deciding, edits, timeouts>>

\* Mutant of CreateChangeSet: planned from any status.
PlanFromAnyStatus == PlanChangeSet

CreateChangeSet == job.status = "ready_for_review" /\ PlanChangeSet

\* decide: the selected set is looked up without a lock ...
DecideRead ==
    /\ deciding = 0 /\ job.selected # 0
    /\ deciding' = job.selected
    /\ UNCHANGED <<jobVars, policy, current, valVars, edits, timeouts>>

\* Mutant of DecideCommit: a decided set is decided again.
DecideAgain ==
    /\ deciding # 0 /\ policy
    /\ \E decision \in {"approved", "rejected"} :
          sets' = [sets EXCEPT ![deciding].approval = decision, ![deciding].status = decision]
    /\ deciding' = 0
    /\ UNCHANGED <<job, staged, policy, current, valVars, edits, timeouts>>

\* ... then it is locked, and decided if it is still pending and the policy active.
DecideCommit ==
    /\ deciding # 0
    /\ IF sets[deciding].approval = "pending" /\ policy
       THEN \E decision \in {"approved", "rejected"} :
               sets' = [sets EXCEPT ![deciding].approval = decision,
                                    ![deciding].status = decision]
       ELSE UNCHANGED sets
    /\ deciding' = 0
    /\ UNCHANGED <<job, staged, policy, current, valVars, edits, timeouts>>

\* What start_apply asks of the selected set.  The conflict count and the approval
\* are columns of the set; the expected versions are read from its operations.
MayApply(set) ==
    /\ \A r \in Rows : set.plan[r].kind # "conflict"
    /\ set.approval \in {"not_required", "approved"}
    /\ set.approval = "approved" => policy
    /\ ~set.gone => \A r \in Rows :
            set.plan[r].kind = "new_version" => current[r] = set.plan[r].expected

StartApply ==
    /\ job.status = "ready_for_review" /\ ~job.applyKey
    /\ job.selected # 0 /\ MayApply(sets[job.selected])
    /\ job' = [job EXCEPT !.status = "applying", !.applyKey = TRUE]
    /\ UNCHANGED <<staged, sets, policy, current, valVars, deciding, edits, timeouts>>

Cancel ==
    /\ job.status \in {"ready_for_mapping", "validating", "ready_for_review", "applying"}
    /\ job' = [job EXCEPT !.status = "cancelled"]
    /\ UNCHANGED <<staged, sets, policy, current, valVars, deciding, edits, timeouts>>

-----------------------------------------------------------------------------
Next ==
    \/ CreateMapping \/ StartValidation \/ CreateChangeSet
    \/ DecideRead \/ DecideCommit \/ StartApply \/ Cancel \/ RetirePolicy
    \/ \E m \in 1 .. MaxMappings : LaunchValidation(m) \/ FailValidation(m)
    \/ \E a \in Attempts :
          \/ \E m \in 1 .. MaxMappings : BeginAttempt(a, m)
          \/ LoadAndSnapshot(a) \/ PersistResult(a) \/ SourceFailure(a)
          \/ Timeout(a) \/ AttemptEnds(a)
    \/ \E r \in Rows : OwnerEdit(r)

Spec == Init /\ [][Next]_vars

-----------------------------------------------------------------------------
TypeOK ==
    /\ job \in Job
    /\ staged \in Staging \cup {None}
    /\ sets \in Seq(ChangeSet) /\ Len(sets) <= MaxSets
    /\ policy \in BOOLEAN /\ current \in [Rows -> Nat]
    /\ asked \subseteq 1 .. MaxMappings /\ failing \subseteq open /\ open \subseteq asked
    /\ val \in [Attempts -> Attempt]
    /\ deciding \in 0 .. MaxSets
    /\ edits \in 0 .. MaxEdits /\ timeouts \in 0 .. MaxTimeouts

\* import_change_sets.py:299-323, 351-354.  Once apply is accepted the set it applies
\* is selected and, if it writes active versions, stays approved: no decide call that
\* read earlier can change it under the workflow.
AppliedSetApproved ==
    job.applyKey =>
        /\ job.selected \in 1 .. Len(sets)
        /\ Active(sets[job.selected]) => sets[job.selected].approval = "approved"

\* import_validation_activity.py:198-203, 274; business_imports.py:643-671.  A job
\* cancelled before apply stays so: no late validation attempt, failure record or
\* API call brings it back or starts writing canonical truth.
CancelHolds ==
    [][job.status = "cancelled" =>
          job'.status = "cancelled" /\ job'.applyKey = job.applyKey]_vars

\* import_validation_activity.py:202.  Rows under review were staged with the
\* mapping under review, although attempts for older mappings may still finish.
StagedUnderMapping ==
    job.status = "ready_for_review" => staged # None /\ staged.mapping = job.mapping

\* import_change_sets.py:151-368.  What the review promises to the saga: the newest
\* plan is the one applied and stays so, and no two calls decide one plan twice or
\* apply two.
Gate == INSTANCE ReviewGate WITH
            MaxPlans <- MaxSets, chosen <- job.selected, taken <- job.applyKey,
            decision <- [s \in 1 .. MaxSets |->
                            IF s <= Len(sets) THEN sets[s].approval ELSE "absent"]
ImplementsGate == Gate!Spec

\* docs/en/workspace-onboarding-import-baseline.md:110: the immutable plan is what
\* was approved and is what apply works from, under the mapping it was made with.
AppliedPlanIsReviewed ==
    job.applyKey => /\ ~sets[job.selected].gone
                    /\ sets[job.selected].mapping = job.mapping
=============================================================================
