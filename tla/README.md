# Formal models of Grovello

This directory holds TLA+ models of the parts of Grovello in which several
programs share durable state, the TLC configurations that check them, and TLAPS
proofs of their main properties. Paths below are relative to
`services/api/src/grovello/` unless they say otherwise.

## 1. The system

Grovello is a FastAPI service over PostgreSQL, with Temporal workers for work
that outlives a request. An HTTP call is one database transaction. A call that
starts long work commits, then calls Temporal, in that order and without a
transaction over both. A workflow is a few activities with bounded retries. An
activity is one or more transactions of its own, and an attempt that Temporal
has given up on may still be running them.

| Component | Source | State | Operations | What is hard |
|---|---|---|---|---|
| Business truth store | `business_truth.py` | `business_objects`, `business_object_versions` | create_object, create_version, reads | unlocked look-ups, concurrent writers, a repeated Idempotency-Key, commit after the response |
| Import source | `import_source_activity.py`, `business_imports.py` | `import_jobs`, `import_sources`, objects in storage | create, complete, verify, scan, quarantine | crash between database and storage, zombie attempts |
| Import review | `business_imports.py`, `import_validation_activity.py`, `import_change_sets.py` | job status, mappings, staged rows, change sets | create_mapping, start_validation, validate, create change set, decide, start_apply, cancel | old validations, re-planning, owner edits, retired policy |
| Import apply | `import_apply_activity.py`, `import_change_sets.py`, `services/workers/.../workflows/import_apply.py` | job status, operation rows, version ledger | apply, fail, compensate, cancel, replay | row-by-row commits, crashes, zombies, lost launches, late cancel and replay |
| Asset upload | `asset_uploads.py`, `asset_verification_activity.py`, `asset_scan_activity.py` | `asset_upload_sessions`, staging objects | create, complete, verify, scan, cancel | as for the import source |
| Asset finalization | `asset_finalization.py`, `asset_finalization_activity.py` | sessions, blobs, versions, storage | promote, commit, clean up, compensate | copy, commit and delete are three steps |
| Row validation | `import_validation.py`, `import_change_sets.py` | staged rows, issues, plan | parse_source, validate_rows, _plan_row | identity by three signals, duplicates, owner edits after the snapshot |
| Onboarding | `workspace_onboarding.py`, `business_truth.py` | `workspace_onboardings` | create, activate, get_profile | objects read without locks, statement by statement |
| Knowledge | `knowledge.py` | ingestions, generations, chunks | create_ingestion, create_pipeline_chunk | concurrent chunks, replays |
| Others | web app, access, storage adapters, growth loop, catalog | none of their own, or static | | |

The components meet in the database. Import apply writes canonical truth with
the same `SqlAlchemyBusinessTruthStore` the owner's edits go through; review
and apply hand the job row to each other; the API and the workflows only share
rows, workflow ids and idempotency keys. `PROJECT.json` lists each component
with its status, and the hazards of the code at their lines.

What makes the components correct:

- **Truth store:** an object's history is dense and append-only; a key buys at
  most one version; repeated calls are told the same.
- **Rows:** a row's verdict follows from all the signals it carries; no plan writes an identity
  twice, or over an edit made since the rows were validated.
- **Review:** what apply accepts was reviewed and approved; rows under review
  belong to the mapping under review; a cancelled job is not revived.
- **Apply:** operation rows and ledger agree; no owner edit is lost or buried;
  the job's status tells the truth; the job leaves its busy states.
- **Assets and sources:** only verified, clean bytes are promoted; a bound
  object is never deleted; an infected one is isolated before it is recorded or deleted.
- **Onboarding and knowledge:** a key is answered once; what is pinned or shown was true at
  one moment; an activation is final; a generation's count, places and chunks agree.

## 2. Modules

| Module | Role |
|---|---|
| `VersionLedger` | abstract specification: append one version with a fresh key |
| `BusinessTruth` | the two store operations as interleaved transactions; implements `VersionLedger` |
| `ReviewGate` | abstract specification: plans follow one another, each is decided once, one is taken |
| `ImportReview` | from a clean source to an accepted apply; implements `ReviewGate` |
| `ImportApply` | the apply and compensation saga; its steps are `VersionLedger` steps |
| `ImportSource` | the source file of an import, from the grant to the review that reads it |
| `RowValidation` | what one validation attempt makes of a file, and the plan made of that |
| `AssetSession` | one upload session: verification, scan, finalization, and the object store |
| `Canonical` | the catalog that `Knowledge` and `Onboarding` share, and the owner's edits of it |
| `Knowledge` | ingestions, generations and their chunks |
| `Onboarding` | the setup of a workspace, its activation, and the profile |
| `Workspace` | `Knowledge` and `Onboarding` composed over one `Canonical` |
| `BusinessTruth_proofs`, `ImportReview_proofs`, `ImportApply_proofs`, `ImportSource_proofs`, `RowValidation_proofs`, `AssetSession_proofs`, `Workspace_proofs` | TLAPS theorems |
| `MC*` | finite instances for TLC |

### BusinessTruth

A request walks `lookup_key -> lookup_slug | lock -> flush -> commit`, one action
for each statement that reads or locks shared rows. The look-ups are plain reads
at READ COMMITTED. `Holds` is the `FOR UPDATE` lock from `LockObject` to the end of
the transaction. `Flush` is the INSERT meeting the unique constraints (`Clash`):
it waits for an uncommitted conflicting row and fails on a committed one.
`Commit` is the exit of `workspace_session`, where the rows become visible. `Crash` rolls
back at any point. An object is its `(object_type, slug)` pair; a version number
of 0 means there is no row. Payload and citation rules are the free choice
`Reject`.

The `answer` is set at `Flush`, when the store returns its record. Whether the
response leaves before the commit does not change it; `AnswersAgree` speaks of
requests that committed.

### ImportReview

API calls are atomic transactions on the locked job row, with one exception:
`decide` reads `selected_change_set_id` without a lock and locks the set later
(`DecideRead`, `DecideCommit`). A validation attempt is `BeginAttempt`,
`LoadAndSnapshot`, then `PersistResult` or `SourceFailure`; `Timeout` makes it a zombie.
Between load and persist the code opens several transactions, but the job is
only looked at in the first and the last, and the canonical objects only in the
snapshot. Parsing is abstracted to the kind of each row; `gone` records that the
operations of a set were deleted by the foreign-key cascade when its rows were
replaced. `start_apply` re-checks expected versions in the action that accepts
(the code locks the job but not the objects; an edit that falls between check
and commit is the same, to what follows, as one just after the commit, and
`ImportApply` lets the owner edit there).

`ReviewGate` is what the saga may count on, without jobs, mappings, rows or validations: a plan is proposed
only while none is taken, becomes the chosen one, is decided at most once (even when it is not the
chosen one any more), and is taken if it needs no decision or was approved. `ImplementsGate` maps a plan's decision to the
`approval` column of its set. Which rows a plan was made from is outside the gate, and that is
where `AppliedPlanIsReviewed` fails.

Left out: replays that change nothing, and the source workflow: the job starts
in `ready_for_mapping` with a clean source, which is where `ImportSource` leaves it.

### ImportApply

It starts at a job ready for review with a plan. Three kinds of process share the state:

- **API:** `StartApply`, `StartCompensation`, `Replay`, `Cancel` commit; `Launch` and
  `DeliverCancel` are the Temporal calls that follow; `LoseLaunch` and `LoseCancel` are a
  process that dies in between.
- **Workflows:** `wf[k]` is the open run of the apply or compensation workflow: its
  phase (the work activity, or the fail activity of the except clause), the tries used, the
  attempt awaited. `Outcome` and `Escalate` are the retry policy and the except clause.
  Cancelling a workflow surfaces as an `ActivityError`, so the fail activity runs.
- **Attempts:** `ListPlanned`, `CheckRow` (lock and checks), `WriteRow` (version,
  operation row and commit), `FinishApply`, and likewise for compensation.
  `CompensateRow` is one action: everything it reads that others change is locked.
  `AttemptLost` is a dead worker; `Timeout` leaves a zombie behind that runs on
  until `ZombieEnds`.

`Rejected` distinguishes the errors: a taken slug raises a plain exception, which
Temporal retries; an object that moved on raises a non-retryable one.

Staging keeps one row for each identity, so row `r` also names its object. The body
of a version is the key under which the text was first written plus an
archived flag: enough to tell what compensation restores. A policy check of
`start_compensation` is left open (it may pass). `LateReplay` and `LateCancel` are scenario flags: with `FALSE`, an
apply request is not replayed once compensation has begun (nor does compensation begin while the apply workflow is
open), and a job is not cancelled once apply was accepted.

### AssetSession

One session row, the rows a commit binds (`bound`: the copy that the blob names), and a
versioned object store beside the database: `staging` holds what the client posted,
`removed` the versions deleted again; `copies` and `dropped` are the same for the promoted
object, `quarantine` the isolated copy. A version is `intact` or `damaged`: it
has the declared hash or not (the grant fixes size and type). A read without a
version finds the newest one left (`IsNewest`), which is how the code hashes, scans and copies.

- **API:** `Complete`, `Expire`, `Cancel`, `RequestFinalize` and the replays, each one
  transaction on the locked row; `Launch` and `DeliverCancel` are the Temporal calls after
  it, `LoseLaunch` and `LoseCancel` a process that dies in between. `Upload` is the client's post,
  which the grant allows in any state and more than once.
- **Workflows:** `wf["verify"]` walks verify, scan, fail_scan; `wf["finalize"]` walks
  promote, commit, cleanup, or fail, compensate, mark. `AfterSuccess` and `AfterFailure` are
  the two `run` methods, `Outcome` their retry policy.
- **Attempts:** one action for each transaction or store call, as `pc` shows. A report lost on
  its way to the server is `Timeout` followed by the attempt finishing as a zombie.

`compensate_asset_promotion` deletes while it holds the row lock; `Unlocked` keeps every other
transaction out until `CompensateMark` or the attempt's end. Atomic though several
calls in the code: head, copy, head of `copy_object`, and head, read of the verified version and
copy in the quarantine branch. A slug or a constraint somebody else got to first is a free
choice of `Commit`; the number the asset version gets is `BusinessTruth`'s matter. Expiry by
the clock is a free choice too, and the scanner answers the same for the same content.

Two flags bound the scenario. `EarlyRequest`: may finalization be asked for while something
of the verification workflow is still about? `TornCompensation`: may a
compensation end between its delete and its mark? The code allows both; with either, a
bound file can be lost (`removes_only_unbound`, and section 8). With both `FALSE` it is safe.

### ImportSource

The same shape as `AssetSession`, for the two rows `job` and `source` that every handler locks and
writes together (`Move`). The API is `Create`, `Expire`, `Complete`, `ReplayComplete`, `Cancel`; the
workflow is verify, scan, fail_scan, where only the scan has an except clause. An attempt holds the version its
`HeadSource` saw (`seen`); the hash and the scan are of whatever version is the newest by then.
A write that ends the activity and its report to the server are two steps (`Answer`): a worker may die in between, and
the retry then finds the job gone on.

What follows a clean source is `ImportReview` and `ImportApply` reduced to `job.status` and the source, from
`CreateMapping` to `FailCompensation`. `job.asked` counts how far a validation, an apply and a compensation
were asked for; the activities of each may write at any time afterwards, with just the guard the code has. So
`FinishApply` takes a cancelled or failed job to completed, and its source stays cancelled. Atomic though several calls: copy and head within `copy_object`. A store or scanner error
that the activity does not record is `AttemptLost`; one that it records is the choice of
`ScanSource` or `HeadSource`. An attempt of a cancelled workflow goes on as a zombie.

### RowValidation

The data side of `ImportReview`'s free choices. A whole-source `defect` refuses a file before a row is
looked at; `ValidateRow` takes any row, one after the other, to its verdict and remembers the identities
claimed (`seen`), as the loop of `validate_rows` does; `PlanRow` compares current versions with the
snapshot. `Row` keeps of a record what decides: the three identity signals, and whether its parts are in
form (`sound`), its payload complete, what it refers to and cites. Two types stand for the rest: one with a stable
identifier and none of the structured rules, one the other way round.

`SignalsAgree` is written as a set relation, not as the code's branches. It also says what the code does not
look at: beside an explicit id the stable identifier is not asked, and two new rows with one SKU and two
slugs are both valid.

### Canonical, Knowledge, Onboarding, Workspace

Every call is one transaction at READ COMMITTED; an action is one statement that reads or locks what others
write, as in `BusinessTruth`. `versions` is the catalog, `past` the catalogs there have been, `req` the local
state of the calls, all of them under way from the start. Flushes wait for an uncommitted row with the same unique key and abort on a
committed one; the inserted row shows at the commit. `Abort` is a call that dies or is rolled back.

In `Knowledge` an ingestion stands for the row, its source snapshot and its generation, inserted together; a
chunk for its object, version and link, inserted together. `spent` holds the keys of versions that are no
chunks: one table and one unique key serve both. `LockGeneration` is the `FOR UPDATE` on the generation, kept until the commit.

In `Onboarding`, `JudgeActivation` is what `activate` decides from the locked row, `ReadActive` the unlocked
join it then makes, `BlockActivation` and `CommitActivation` the two ends. `get_profile` lists the objects
and then calls `get_object` for each; `VersionToShow` is what that returns. The session's identity map keeps
the rows listed first, so a second select of a row that has moved on still answers with the version listed; only for that reason
is the profile consistent. `Workspace` starts with nothing, or with a draft setup and a pending ingestion, so
that two calls are enough for a race on either.

## 3. Runs

| Run | Instance | Shows |
|---|---|---|
| `business_truth` | 3 requests, 2 objects, 2 keys, 1 body | `Dense`, `KeyBuysOne`, `AnswersAgree`, refinement of `VersionLedger`, `EveryCallEnds` |
| `import_apply_zombies` | 2 rows, 2 attempt slots, 3 tries, one each of owner edit, crash or lost call, timeout; late cancel and replay | `OpLedgerAgreement`, `AppliedOnReviewedBase`, `CompensationRestores`, `CancelYieldsToDone` |
| `import_apply_reports` | 2 rows with skips and conflicts, 2 tries, 4 crashes, one owner edit, no zombies, no late calls | `ReportsAreTrue`, `ApplyEnds`, `CompensationEnds` |
| `asset_session` | 2 posts, 2 copies, 2 attempt slots, 2 tries, one crash or lost call, one timeout, both flags `FALSE` | `BoundObjectKept`, `FinalizedIsBound`, `BoundIsIntact`, `NothingLost`, `CleanupIsDone`, `CancelHolds` |
| `asset_session_ends` | 2 posts, 1 attempt slot, 1 try, two crashes or lost calls, one timeout, `EarlyRequest` | `VerificationEnds`, `FinalizationEnds` |
| `import_source` | 2 posts, 2 attempt slots, 2 tries, one crash or lost call, one timeout | `InfectedIsIsolated`, `ReviewedIsClean`, `CancelHolds`, `RestIsLeftAlone`, `SourceComesToRest` |
| `row_validation` | files of up to 2 rows of any content, every catalog of 2 objects, 2 slugs, 1 SKU, one edit | `VerdictIsExact`, `PlanWritesOnce` |
| `workspace` | any 2 calls, 2 keys, 2 objects (brand, evidence), 2 edits, ordinals to 2 | `ChunksCounted`, `AnswersAgree`, `SeenAtOneMoment`, `ActivationHolds` |
| `import_review` | 1 row of any kind, 2 mappings, 2 sets, 2 attempt slots, one edit, one timeout | `AppliedSetApproved`, `StagedUnderMapping`, `CancelHolds`, refinement of `ReviewGate` |

The bounds are named constants and appear only in guards of the environment's
actions. Three requests are the smallest number in which two race and a third
repeats; two attempt slots hold a zombie and its successor; two rows make a half-applied
import; two mappings and two sets make an old and a new one; four crashes exhaust
both activities of a workflow with two tries each, so that only a client's repeated
request can revive the job. Two posts make a good file and a bad one; one try drives every
except clause of the asset workflows at the first error. An instance with three posts and two
timeouts (7 million states, too long for a regular run) agrees. There
`BoundIsIntact` would fail without its exception for a session with a quarantine copy: once a
scan has deleted a version, an older one is the newest again, and a file of the wrong
content can be promoted. For `row_validation` a duplicate, a
conflict between two rows and an edit between validation and plan need two rows and one edit. For
`workspace` every property is about two calls, or a call and an owner; two edits
let an object change twice while a call runs. Deadlock is not checked: requests finish, and a job at rest in its last state has nothing left to do. Symmetry is used on model values that no
definition orders or names, and only in runs without liveness.

Three runs end in a counterexample. Each states what the documentation says and
the code does not do:

| Run | What happens |
|---|---|
| `terminal_is_terminal` | Cancel arrives after the last row was checked; `_finish_apply` sets `completed` whatever the status is. An apply request repeated after compensation ends the same way |
| `applied_plan_is_reviewed` | New mapping and validation delete the operations of the selected, approved set; `start_apply` accepts it and applies nothing |
| `removes_only_unbound` | The retry of a scan whose clean result is recorded fails a session that is finalized by now; a repeated finalize request then compensates, and deletes the bound file |

The first is why `import_apply_reports` sets both flags to `FALSE`: with
them, a status does not mean what it says.

## 4. Fairness

`BusinessTruth`: a begun call keeps taking its next step (`Progress`): the API awaits
each statement and PostgreSQL grants a free lock. No fairness is given to `Begin`,
`Crash` or `Reject`.

`ImportApply`: the API makes the Temporal call it owes unless it dies (`Launch`),
Temporal schedules attempts (`Schedule`), running attempts go on (`Activity`), and a
client whose job hangs in a busy state with no workflow open repeats its request
(`ClientRetry`). The last is the 503 contract of the route: nothing in the service
itself restarts a lost launch, so without it `ApplyEnds` does not hold. Crashes are bounded, as
a limit on faults, and get no fairness.

`AssetSession`: the same four, for both workflows. `ClientRetry` is a client that was told 503 or polls
a busy session: `verify_asset_upload` has no except clause, so nothing else revives a
session left `verifying`.

`ImportSource`: again the same four. `verify_import_source` has no except clause either, so a client that
repeats its completion is what brings a job out of `uploaded`, `verifying` or `scanning`.

`ImportReview`, `RowValidation` and `Workspace` state no liveness.

## 5. Proofs

Theorems hold for every value of the constants allowed by the named
assumptions; the bounds on faults are arbitrary naturals.

| Theorem | States |
|---|---|
| `BusinessTruth_proofs!TypeCorrect` | `TypeOK` |
| `BusinessTruth_proofs!HistoryDense` | `Dense` |
| `BusinessTruth_proofs!KeyBuysOneVersion` | `KeyBuysOne` |
| `BusinessTruth_proofs!SameKeySameAnswer` | `AnswersAgree` |
| `BusinessTruth_proofs!Refinement` | `ImplementsLedger` |
| `ImportApply_proofs!TypeCorrect` | `TypeOK` |
| `ImportApply_proofs!OperationsMatchLedger` | `OpLedgerAgreement` |
| `ImportApply_proofs!NoLostOwnerEdit` | `AppliedOnReviewedBase` |
| `ImportApply_proofs!CompensationIsExact` | `CompensationRestores` |
| `ImportApply_proofs!AppendOnly` | `LedgerSteps` |
| `ImportApply_proofs!ReportsTellTheTruth` | `ReportsAreTrue` until the first timeout, both flags `FALSE` |
| `ImportApply_proofs!ReportsWithoutTimeouts` | `ReportsAreTrue`, both flags `FALSE` and `MaxTimeouts = 0` |
| `ImportApply_proofs!NeverCompletedEarly` | `NothingLeftPlanned`: no job is completed with a row still planned |
| `ImportApply_proofs!CancelledUnlessDone` | `CancelYieldsToDone`: what is left of `TerminalIsTerminal` |
| `ImportReview_proofs!TypeCorrect` | `TypeOK` |
| `ImportReview_proofs!ReviewShowsItsMapping` | `StagedUnderMapping` |
| `ImportReview_proofs!AppliedWasApproved` | `AppliedSetApproved` |
| `ImportReview_proofs!SelectionIsFinal` | `SelectionFrozen`, which the gate implies |
| `ImportReview_proofs!CancelIsFinal` | `CancelHolds` |
| `ImportReview_proofs!AppliedPlanFollowsRows` | `WholePlanIsReviewed`: what is left of `AppliedPlanIsReviewed` |
| `ImportReview_proofs!Refinement` | `ImplementsGate` |
| `ImportSource_proofs!TypeCorrect` | `TypeOK` |
| `ImportSource_proofs!ReviewReadsCleanSource` | `ReviewedIsClean` |
| `ImportSource_proofs!InfectedGoesToQuarantine` | `InfectedIsIsolated` |
| `ImportSource_proofs!CancelIsFinal` | `CancelHolds` |
| `ImportSource_proofs!LateCallsAreHarmless` | `RestIsLeftAlone` |
| `RowValidation_proofs!TypeCorrect` | `TypeOK` |
| `RowValidation_proofs!VerdictsAreExact` | `VerdictIsExact` |
| `RowValidation_proofs!PlanIsSingle` | `PlanWritesOnce` |
| `AssetSession_proofs!TypeCorrect` | `TypeOK` |
| `AssetSession_proofs!BoundStays` | `BoundObjectKept`, both flags `FALSE` |
| `AssetSession_proofs!FinalizedMeansBound` | `FinalizedIsBound`, `EarlyRequest` `FALSE` |
| `AssetSession_proofs!BoundIsAsDeclared` | `BoundIsIntact` |
| `AssetSession_proofs!DeletionsLoseNothing` | `NothingLost` |
| `AssetSession_proofs!CleanupIsTrue` | `CleanupIsDone` |
| `AssetSession_proofs!CancelIsFinal` | `CancelHolds`, `EarlyRequest` `FALSE` |
| `AssetSession_proofs!OnlyUnboundIsRemoved` | `RemovesOnlyUnbound`, both flags `FALSE` |
| `Workspace_proofs!CountsAreExact` | `ChunksCounted` |
| `Workspace_proofs!RetriesAgree` | `AnswersAgree` |
| `Workspace_proofs!PinnedAtOneMoment` | `SeenAtOneMoment` |
| `Workspace_proofs!ActivationIsFinal` | `ActivationHolds` |

**BusinessTruth.** The properties speak of committed rows. They are inductive
only with what transactions in flight know: the number a locked row was read
with is still current (`LockedBase`), a lock has one holder (`LockMutex`), and a flushed row clashes
neither with a committed nor with another flushed one (`PendingFresh`,
`PendingApart`). `CommitIInv` then turns a pending row into a committed one, and
`StepRefines` shows it is the ledger's `Append`, every other step a stutter.

**ImportApply.** `Hands` says what an attempt may rely on: past its checks it holds
the lock of a row that is still planned, alone, and a compensating attempt's list
holds only rows that were applied. `Books` says what ledger and operation rows
owe each other: a key stays unspent until its operation says so, the reviewed
version stays, the snapshot is that version's body, and the two versions an
import may write are exactly `ApplyVersion` and `CompensatingVersion`. No assumption is made about which attempts
are zombies; the row lock and the status check under it suffice.

The job's status is another matter, and `Orderly` says why it can be trusted while no attempt has
been timed out: the attempt that runs is the one its workflow awaits (`Awaited`); review, apply and compensation
follow one another (`InTurn`); a row is written while the job is still applying (`Writing`); and the list an attempt read
at its start still holds every row it has to deal with (`Lists`). `Told` is `ReportsAreTrue` with what a failed job
needs. Each hypothesis is needed. After a timeout a zombie writes behind the
report. A late cancel does without one: the cancelled attempt sets `completed`, compensation is accepted and runs, and the fail activity
of the first workflow then sets `failed` over it (TLC finds this with `LateCancel` alone). What is left without any
hypothesis is `NeverCompletedEarly`: an attempt that is to finish has every row that is still planned in its list (`Handled`).

`CancelledUnlessDone` says how far `TerminalIsTerminal`, which the code refutes, reaches. Nothing runs that was not asked
for (`AskedFirst`), a job that may be compensated is past any cancel (`PastCancel`), and apply was accepted for a plan
without conflicts (`PlanKept`). So only an apply attempt that finishes can move a cancelled job, and by `Handled` all its rows
are in. No flag and no bound on timeouts is assumed. A compensated job has no such promise: a late replay reports it completed again.

**ImportReview.** Each property needs the one before it. `Attempting` says what an attempt that has loaded
the job may rely on, `Selecting` what a selected set and a decision in flight know of each other, `Applying`
that a job under apply has an approved set. No bound on edits, mappings or attempts enters the argument. `StepRefines` needs no more than
that invariant: a new plan is made only under review, so before apply was accepted; the set that a decide call has read exists and is
decided only while pending (`DecisionIsDecided`); staging takes operations from sets, never their approvals (`StageKeepsApprovals`).

`AppliedPlanFollowsRows` says how far the refuted promise reaches. `AllWhole`: a set that still has its operations was
made with the mapping of the staged rows, of those rows, and expects the versions they resolved to. A
validation may leave a set without operations, so that apply does nothing; it never leaves operations of other rows.

**ImportSource.** `Held` says that past its head an attempt holds a version, and so does a source being
scanned. The hash may vouch for a newer version than the one recorded. `Isolated` says why the file
isolated is still the one declared: the recorded version is intact, or a newer one has been
posted (`Vouched`); in the second case the branch that copies exactly the recorded version, and
only if it is the newest, refuses. `Writes` lists the ways an activity writes the two rows: that is enough for
`ReviewedIsClean` and `CancelHolds`, whoever runs it and however late. `ReviewTurns` does the same for the review, the apply and
the compensation, whose late writes both properties name as exceptions.

`RestIsLeftAlone` is about steps before the first timeout. `Calm` says who may still be at work then: an attempt nobody awaits
only where the job is cancelled or failed (`OnlyAwaited`), never two past their first check, and the awaited one finds the
job in a state of its own phase (`InPhase`). A cancel always reaches job and source together (`AsOne`), so every write that a
late attempt could make is refused, with one exception that the property names: after a lost call or a dead worker the
scan's retry may find its job under review (`Found`), and has it failed (section 8).

**RowValidation.** The catalog has one object for a type and slug (`Unique`), whatever the owner adds. So the branches of
`_resolve_identity` come to `SignalsAgree` (`ResolveIsExact`), and the key that a row claims stands for its
slug and no other (`KeysApart`). `Remembered` says that `seen` holds the keys of the acceptable rows so far, which makes the
next row's verdict exact. A plan writes valid rows only (`Planned`), and these differ in slug.

**AssetSession.** There are three layers. `Base` is about control: an awaited attempt is in the phase of its
workflow, and what a workflow was told (`Told`) or an attempt was given (`Holds`) exists. `LInv` adds what lasts whatever the flags are,
with any number of attempts of both workflows at work on one session. `Vouched` is `ImportSource`'s argument about
posts between head, hash and copy. `Stored` and `Saved` say that the declared bytes are kept: the only version
removed without a copy in quarantine is the payload, after it was bound. `Copied` says that every copy is of
the payload, `Bound` that whoever reports a file bound or cleaned up is right. `BoundIsAsDeclared`,
`DeletionsLoseNothing` and `CleanupIsTrue` follow, with no hypothesis.

`SInv` is what `EarlyRequest` `FALSE` adds. `Settled` divides the life of a session in two: before finalization is asked for
nothing of it exists, afterwards the verifier is at rest for good. So an attempt of one workflow never meets
the other, and each action is proved with `EarlyStep` or with `LateStep`. `Locks` says that a compensation deletes
under the lock of a session that is not finalized; `Marked`, the one place where `TornCompensation` enters, that the lock ends
in `failed`. Without the hypotheses TLC refutes the rest: with `EarlyRequest` `BoundObjectKept`, `FinalizedIsBound` and `CancelHolds`, with
`TornCompensation` `BoundObjectKept` only. `OnlyUnboundIsRemoved` is the sentence that `removes_only_unbound` refutes
with `EarlyRequest`.

**Workspace.** The invariant joins what calls in flight know (`Ingesting`, `Chunking`, `Creating`, `Activates`,
`Showing`, each about one call) to what is committed (`Counted`, `Unique`, `Sources`, `OwnersInv`), and keeps the
calls apart: `Apart` and `Alone` say that two flushed rows never share a key or a place, which is where the
lock on the generation and on the setup comes in. That `versions` is always in `past` gives
`SeenAtOneMoment` for an activation at once; for a profile the versions listed first are the ones shown.

Only model-checked: liveness (`EveryCallEnds`, `ApplyEnds`, `CompensationEnds`, `VerificationEnds`, `FinalizationEnds`,
`SourceComesToRest`), which needs fairness and ENABLED. Every other property of a passing run is a theorem.

## 6. Plan

Done: every module of section 2 with its runs, and the proofs of section 5. What is left:

1. Abstract specifications of the upload session and of the import source, as `ReviewGate` is one of the review: received, vouched
   for, then bound, isolated or given up.
2. Two creates racing on one upload session's key, which `AssetSession` starts after.

To keep the list of runs short, new modules should join runs rather than add to
them, and findings that later turn out to share a cause should share a run.

## 7. Not modelled

The web application (a proxy and user interface), access control and row-level
security (static tables and database policies), configuration, schemas, seed data
and migrations, the catalog and downloads (reads), the growth loop and agents (one
straight-line workflow over stubs), the in-memory store used in tests, audit and
outbox rows (written in the same transaction as what they report), and wall-clock
expiry. Retrieval receipts and the later states of a knowledge generation are tables
that no code writes yet. The text of a file (encodings, delimiters, limits of size) and the
redaction of a preview are left out of `RowValidation`. So is a corner of CSV files: a column headed
`__grovello_shape_error__` makes its cell an issue code, and one that begins with `identity_` turns the row
into a conflict (`import_validation.py:178-179, 211`).

## 8. Known gaps

What the code allows and no passing run claims the contrary of. Each was met while modelling.

- **A compensation that dies half-way** (`asset_finalization_activity.py`, `compensate_asset_promotion`). It
  deletes the promoted version with the row locked, and marks the session after that. If it dies in between, the session
  stays `finalizing`; a repeated request then runs a second saga, and an attempt of the first that
  still holds the deleted version may commit it. `TornCompensation` is this case; no run sets it.
- **A validation requested twice** (`import_validation_activity.py:274`). A repeated request in
  `ready_for_review` starts a second workflow; its attempt is refused, and the except clause fails a job that may be applying by now.
- **A late scan of an import source** (`import_source_activity.py:199`). An attempt that outlived its timeout throws
  a job under review back to `ready_for_mapping`, or fails it. `RestIsLeftAlone` therefore stops at the first timeout.
- **A scan whose report is lost** (`import_source_activity.py:186`). A worker that dies after `_record_clean` committed
  has its attempt retried; if the job is being validated by then, the retry raises, and `fail_import_source_scan` sets job
  and source to failed, though `docs/en/workspace-onboarding-import-baseline.md:92` has retries resume from persisted
  state. `RestIsLeftAlone` excepts this step. The cause is that of `removes_only_unbound`: a retry that does not know its own result.
- **An infected import source is not always deleted** (`import_source_activity.py:131`). If the worker dies after the
  verdict is recorded and before the delete, the retry finds the job failed and returns.
- **A failed scan may hide a quarantine**: if the delete keeps failing, or a cancel arrives, `fail_import_source_scan`
  overwrites the quarantined verdict with a failed one; the copy in quarantine stays.
- **Identity beside an explicit id** (`import_validation.py:616-640`, `docs/en/workspace-onboarding-import-baseline.md:234`).
  A row with a `canonicalId` is not asked for its stable identifier, and two new rows with one SKU and two slugs
  are both valid.
- **A decision names no plan** (`import_change_sets.py:298`): it approves whatever set is selected when it
  is read.
- **Chunk replay** compares the place of a chunk and its key, not the text.
- **An ingestion may name an older version** of an active object, as long as that version was active.
- **Onboarding** cannot be reopened, and activation does not check references or evidence, though
  `docs/en/workspace-onboarding-import-baseline.md:207-212` describes both. Nothing writes profile warnings.
- **`get_profile` is consistent only through the session's identity map**: it reads the catalog in several
  statements at READ COMMITTED.
