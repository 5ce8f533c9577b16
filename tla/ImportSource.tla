---------------------------- MODULE ImportSource ----------------------------
(***************************************************************************)
(* The source file of one import job, from the presigned grant to a clean, *)
(* refused or quarantined file, and the review that then reads it.         *)
(*                                                                         *)
(* The API (business_imports.py) and the activities of the verification    *)
(* workflow (import_source_activity.py) write two rows, the job and its    *)
(* source, always together and with both locked; the store is a versioned  *)
(* bucket as in AssetSession.  Temporal and its zombies are as there.      *)
(*                                                                         *)
(* What follows a clean source is ImportReview and ImportApply, here only  *)
(* as far as their calls and activities move job.status and read the file; *)
(* their own workflows are left to nondeterminism, so an activity of a     *)
(* validation, an apply or a compensation may write at any time after it   *)
(* was asked for.                                                          *)
(***************************************************************************)
EXTENDS Naturals

CONSTANTS
    Attempts,     \* slots for activity attempts that run at the same time
    None,
    MaxTries,     \* RetryPolicy.maximum_attempts
    MaxUploads,   \* bound on the client's posts to the source key
    MaxLost,      \* bound on crashes, store errors and lost Temporal calls
    MaxTimeouts   \* bound on attempts the server times out while they run

Phases == {"verify", "scan", "fail_scan"}

ASSUME BoundAssumption == /\ MaxTries \in Nat \ {0}
                          /\ {MaxUploads, MaxLost, MaxTimeouts} \subseteq Nat
ASSUME NoneAssumption == None \notin Attempts \cup Phases

VARIABLES
    job,          \* import_jobs: status, whether completion was requested, what else was
    source,       \* import_sources: state, scan status and provider version
    stored,       \* the versions of the source object, by number
    removed,      \* those deleted
    quarantine,   \* the quarantine object: what it is a copy of
    verdict,      \* what the scanner says of the bytes posted so far
    launch,       \* the API has committed and not yet called start_workflow
    cancelling,   \* the API has committed a cancel and not yet called cancel
    wf,           \* the verification workflow
    att,          \* running activity attempts
    lost, timeouts

rows     == <<job, source>>
store    == <<stored, removed, quarantine, verdict>>
temporal == <<launch, cancelling, wf>>
bounds   == <<lost, timeouts>>
vars == <<rows, store, temporal, att, bounds>>

Uploads == 1 .. MaxUploads
Bytes   == {"intact", "damaged"}    \* they have the declared hash, or not

\* "completed" stands for partially_completed too.
Busy        == {"uploaded", "verifying", "scanning"}
UnderReview == {"validating", "ready_for_review", "applying"}
Applied     == {"completed", "compensating", "compensated"}
Status == Busy \cup UnderReview \cup Applied \cup
          {"none", "uploading", "ready_for_mapping", "failed", "expired", "cancelled"}

\* How many of a validation, an apply and a compensation have been asked for, in
\* that order: an apply and a compensation once, by their idempotency keys.
Asked == 0 .. 3

Job    == [status : Status, completed : BOOLEAN, asked : Asked]
Source == [state : Busy \cup {"uploading", "clean", "failed", "expired", "cancelled",
                              "quarantined"},
           scan : {"not_started", "pending", "clean", "infected", "failed"},
           version : Uploads \cup {0}]    \* provider_version_id

Workflow == [phase : Phases \cup {"closed"}, tries : 0 .. MaxTries, cur : Attempts \cup {None}]
Attempt  == [phase : Phases \cup {None},
             pc : {"begin", "head", "hash", "reject", "record", "read", "refuse", "clean",
                   "infected", "remove", "return", "raise"},
             seen : Uploads \cup {0}]     \* the object version the attempt holds

Closed == [phase |-> "closed", tries |-> 0, cur |-> None]
Idle   == [phase |-> None, pc |-> "begin", seen |-> 0]

Init ==
    /\ job = [status |-> "none", completed |-> FALSE, asked |-> 0]
    /\ source = [state |-> "uploading", scan |-> "not_started", version |-> 0]
    /\ stored = [v \in Uploads |-> "absent"] /\ removed = {} /\ quarantine = 0
    /\ verdict = [bytes \in Bytes |-> "clean"]
    /\ launch = FALSE /\ cancelling = FALSE /\ wf = Closed
    /\ att = [a \in Attempts |-> Idle]
    /\ lost = 0 /\ timeouts = 0

\* Every handler that moves the job moves its source with it.
Move(status, state) ==
    /\ job' = [job EXCEPT !.status = status]
    /\ source' = [source EXCEPT !.state = state]

-----------------------------------------------------------------------------
(* The client and the object store. *)

Staged == {v \in Uploads : stored[v] # "absent"} \ removed

\* What a read without a version finds; 0 is NoSuchKey.
IsNewest(v) == IF Staged = {} THEN v = 0 ELSE v \in Staged /\ \A w \in Staged : w <= v

\* The grant outlives the first post and the state it was given in.  Whether the
\* scanner finds the bytes infected is settled when they are first posted.
Upload == \E v \in Uploads, bytes \in Bytes, says \in {"clean", "infected"} :
    /\ job.status # "none"
    /\ stored[v] = "absent" /\ \A w \in Uploads : w < v => stored[w] # "absent"
    /\ stored' = [stored EXCEPT ![v] = bytes]
    /\ (\E w \in Uploads : stored[w] = bytes) => says = verdict[bytes]
    /\ verdict' = [verdict EXCEPT ![bytes] = says]
    /\ UNCHANGED <<rows, removed, quarantine, temporal, att, bounds>>

-----------------------------------------------------------------------------
(* The API. *)

Create ==
    /\ job.status = "none"
    /\ Move("uploading", "uploading")
    /\ UNCHANGED <<store, temporal, att, bounds>>

Expire ==
    /\ job.status = "uploading"
    /\ Move("expired", "expired")
    /\ UNCHANGED <<store, temporal, att, bounds>>

Complete ==
    /\ job.status = "uploading"
    /\ job' = [job EXCEPT !.status = "uploaded", !.completed = TRUE]
    /\ source' = [source EXCEPT !.state = "uploaded"]
    /\ launch' = TRUE
    /\ UNCHANGED <<store, cancelling, wf, att, bounds>>

\* Mutant of Completable: a replay is accepted only before the worker has begun.
NotBegun(status) == status = "uploaded"

Completable(status) == status \in Busy \cup {"ready_for_mapping"}

\* The same Idempotency-Key again launches the workflow again.
ReplayComplete ==
    /\ Completable(job.status) /\ ~launch
    /\ launch' = TRUE
    /\ UNCHANGED <<rows, store, cancelling, wf, att, bounds>>

Cancellable == Busy \cup UnderReview \cup {"uploading", "ready_for_mapping", "cancelled"}

\* A repeated cancel changes no row and calls Temporal again.
Cancel ==
    /\ job.status \in Cancellable
    /\ Move("cancelled", "cancelled")
    /\ cancelling' = job.completed
    /\ UNCHANGED <<store, launch, wf, att, bounds>>

-----------------------------------------------------------------------------
(* The review, the apply and the compensation, once the source is clean.   *)
(* None of them writes the source, and most do not look at it either.      *)

Turns(status, asked) ==
    /\ job' = [job EXCEPT !.status = status, !.asked = asked]
    /\ UNCHANGED <<source, store, temporal, att, bounds>>

\* A new mapping sends a reviewed job back.
CreateMapping == job.status = "ready_for_review" /\ Turns("ready_for_mapping", job.asked)

StartValidation ==
    /\ job.status = "ready_for_mapping"
    /\ source.state = "clean" /\ source.scan = "clean"
    /\ Turns("validating", IF job.asked = 0 THEN 1 ELSE job.asked)

\* _persist_result; which file was read, and when, is ImportReview's.
Validate == job.status = "validating" /\ Turns("ready_for_review", job.asked)

\* _record_source_failure spares a cancelled job, and nothing else.
FailValidation == job.asked >= 1 /\ job.status # "cancelled" /\ Turns("failed", job.asked)

StartApply == job.status = "ready_for_review" /\ job.asked < 2 /\ Turns("applying", 2)

\* _finish_apply does not look at the status it overwrites.
FinishApply == job.asked >= 2 /\ Turns("completed", job.asked)

FailApply ==
    /\ job.asked >= 2 /\ job.status \notin {"completed", "cancelled"}
    /\ \E status \in {"failed", "completed"} : Turns(status, job.asked)

StartCompensation == job.status = "completed" /\ job.asked < 3 /\ Turns("compensating", 3)

FinishCompensation == job.asked = 3 /\ Turns("compensated", job.asked)

FailCompensation ==
    job.asked = 3 /\ job.status # "compensated" /\ Turns("completed", job.asked)

-----------------------------------------------------------------------------
(* Temporal, as the launcher, the workflow and its policies use it. *)

Open(phase) == [phase |-> phase, tries |-> 0, cur |-> None]

\* A second start of a running workflow is swallowed; a closed one runs anew.
Launch ==
    /\ launch
    /\ launch' = FALSE
    /\ wf' = IF wf = Closed THEN Open("verify") ELSE wf
    /\ UNCHANGED <<rows, store, cancelling, att, bounds>>

LoseLaunch ==
    /\ launch /\ lost < MaxLost
    /\ launch' = FALSE
    /\ lost' = lost + 1
    /\ UNCHANGED <<rows, store, cancelling, wf, att, timeouts>>

\* Only the scan has an except clause.
AfterFailure(phase) == IF phase = "scan" THEN Open("fail_scan") ELSE Closed

\* Mutant of Outcome: the retry policy has no maximum_attempts.
RetryForever(w, result) ==
    CASE result = "ok" -> IF w.phase = "verify" THEN Open("scan") ELSE Closed
      [] result = "stop" -> Closed
      [] result = "retry" -> [w EXCEPT !.cur = None]
      [] OTHER -> AfterFailure(w.phase)

Outcome(w, result) ==
    CASE result = "ok" -> IF w.phase = "verify" THEN Open("scan") ELSE Closed
      [] result = "stop" -> Closed
      [] result = "retry" /\ w.tries < MaxTries -> [w EXCEPT !.cur = None]
      [] OTHER -> AfterFailure(w.phase)

\* Cancelling surfaces as an ActivityError of the attempt awaited.
DeliverCancel ==
    /\ cancelling
    /\ cancelling' = FALSE
    /\ wf' = AfterFailure(wf.phase)
    /\ UNCHANGED <<rows, store, launch, att, bounds>>

LoseCancel ==
    /\ cancelling /\ lost < MaxLost
    /\ cancelling' = FALSE
    /\ lost' = lost + 1
    /\ UNCHANGED <<rows, store, launch, wf, att, timeouts>>

Live(a) == wf.cur = a

\* Slots are alike: the same idle one is always taken first.
FreeSlot == CHOOSE a \in Attempts : att[a] = Idle

Schedule ==
    /\ wf # Closed /\ wf.cur = None
    /\ \E a \in Attempts :
        /\ att[a] = Idle /\ a = FreeSlot
        /\ att' = [att EXCEPT ![a].phase = wf.phase]
        /\ wf' = [wf EXCEPT !.cur = a, !.tries = @ + 1]
    /\ UNCHANGED <<rows, store, launch, cancelling, bounds>>

\* Nobody listens to a zombie.
Report(a, result) == wf' = IF Live(a) THEN Outcome(wf, result) ELSE wf

End(a, result) == att' = [att EXCEPT ![a] = Idle] /\ Report(a, result)

Go(a, pc) == att' = [att EXCEPT ![a].pc = pc] /\ UNCHANGED wf

\* The worker dies, or a store, the scanner or the database answers with an error,
\* retryable or final, that the activity does not record.  After the commit only the
\* worker's death is left, and that is retried.
AttemptLost(a) ==
    /\ Live(a) /\ lost < MaxLost
    /\ \/ End(a, "retry")
       \/ att[a].pc \notin {"return", "raise"} /\ End(a, "fatal")
    /\ lost' = lost + 1
    /\ UNCHANGED <<rows, store, launch, cancelling, timeouts>>

Timeout(a) ==
    /\ Live(a) /\ timeouts < MaxTimeouts
    /\ Report(a, "retry")
    /\ timeouts' = timeouts + 1
    /\ UNCHANGED <<rows, store, launch, cancelling, att, lost>>

ZombieEnds(a) ==
    /\ att[a] # Idle /\ ~Live(a)
    /\ att' = [att EXCEPT ![a] = Idle]
    /\ UNCHANGED <<rows, store, temporal, bounds>>

-----------------------------------------------------------------------------
(* verify_import_source *)

At(a, phase, pc) == att[a].phase = phase /\ att[a].pc = pc

Cancelled == job.status = "cancelled" \/ source.state = "cancelled"

\* What an activity has committed is committed before it is reported.
Answer(a) ==
    /\ \/ att[a].pc = "return" /\ End(a, "ok")
       \/ att[a].pc = "raise" /\ End(a, "fatal")
    /\ UNCHANGED <<rows, store, launch, cancelling, bounds>>

\* Mutant of MoveToVerifying: whatever is not cancelled is verified again.
VerifyAgain(a) ==
    /\ At(a, "verify", "begin")
    /\ \/ Cancelled /\ End(a, "stop") /\ UNCHANGED rows
       \/ ~Cancelled /\ Go(a, "head") /\ Move("verifying", "verifying")
    /\ UNCHANGED <<store, launch, cancelling, bounds>>

Unverified == job.status = "uploaded" /\ source.state = "uploaded"

MoveToVerifying(a) ==
    /\ At(a, "verify", "begin")
    /\ \/ Cancelled /\ End(a, "stop") /\ UNCHANGED rows
       \/ job.status \in {"verifying", "scanning"} /\ Go(a, "head") /\ UNCHANGED rows
       \/ Unverified /\ Go(a, "head") /\ Move("verifying", "verifying")
       \/ /\ ~Cancelled /\ ~Unverified /\ job.status \notin {"verifying", "scanning"}
          /\ End(a, "fatal") /\ UNCHANGED rows
    /\ UNCHANGED <<store, launch, cancelling, bounds>>

HeadSource(a) == \E v \in Uploads \cup {0} :
    /\ At(a, "verify", "head") /\ IsNewest(v)
    /\ att' = [att EXCEPT ![a].pc = IF v = 0 THEN "reject" ELSE "hash", ![a].seen = v]
    /\ UNCHANGED <<rows, store, temporal, bounds>>

\* The hash is of whatever version is the newest by now.
HashSource(a) == \E v \in Uploads \cup {0} :
    /\ At(a, "verify", "hash") /\ IsNewest(v)
    /\ Go(a, IF v # 0 /\ stored[v] = "intact" THEN "record" ELSE "reject")
    /\ UNCHANGED <<rows, store, launch, cancelling, bounds>>

\* Mutant of Fail: a cancelled job is not spared.
FailAny(scan) ==
    /\ job' = [job EXCEPT !.status = "failed"]
    /\ source' = [source EXCEPT !.state = "failed", !.scan = scan]

\* Mutant of Fail: a job under review is spared, its source is not.
FailSource(scan) ==
    IF Cancelled THEN UNCHANGED rows
    ELSE /\ job' = IF job.status \in UnderReview THEN job ELSE [job EXCEPT !.status = "failed"]
         /\ source' = [source EXCEPT !.state = "failed", !.scan = scan]

\* _fail: a cancelled job is spared, and nothing else.
Fail(scan) ==
    IF Cancelled THEN UNCHANGED rows
    ELSE /\ job' = [job EXCEPT !.status = "failed"]
         /\ source' = [source EXCEPT !.state = "failed", !.scan = scan]

RejectSource(a) ==
    /\ At(a, "verify", "reject")
    /\ Fail(source.scan)
    /\ Go(a, "raise")
    /\ UNCHANGED <<store, launch, cancelling, bounds>>

Scanning == job.status = "scanning" /\ source.state = "scanning"

RecordVerified(a) ==
    /\ At(a, "verify", "record")
    /\ \/ Cancelled /\ End(a, "stop") /\ UNCHANGED rows
       \/ Scanning /\ Go(a, "return") /\ UNCHANGED rows
       \/ /\ ~Cancelled /\ ~Scanning /\ Go(a, "return")
          /\ job' = [job EXCEPT !.status = "scanning"]
          /\ source' = [state |-> "scanning", scan |-> "pending", version |-> att[a].seen]
    /\ UNCHANGED <<store, launch, cancelling, bounds>>

-----------------------------------------------------------------------------
(* scan_import_source, fail_import_source_scan *)

\* A recorded result ends the attempt; so an infected source whose deletion did
\* not happen is not looked at again.
ScanIsOver ==
    \/ Cancelled
    \/ job.status = "ready_for_mapping" /\ source.state = "clean"
    \/ job.status = "failed" \/ source.state \in {"failed", "quarantined"}

StartScan(a) ==
    /\ At(a, "scan", "begin")
    /\ \/ ScanIsOver /\ End(a, "ok")
       \/ ~ScanIsOver /\ ~Scanning /\ End(a, "fatal")
       \/ /\ ~ScanIsOver /\ Scanning /\ UNCHANGED wf
          /\ att' = [att EXCEPT ![a].pc = "read", ![a].seen = source.version]
    /\ UNCHANGED <<rows, store, launch, cancelling, bounds>>

\* The stream is of the newest version; scanner or store may also refuse for good.
ScanSource(a) == \E v \in Uploads \cup {0} :
    /\ At(a, "scan", "read") /\ IsNewest(v)
    /\ \/ v # 0 /\ Go(a, verdict[stored[v]])
       \/ Go(a, "refuse")
    /\ UNCHANGED <<rows, store, launch, cancelling, bounds>>

FailScan(a) ==
    /\ \/ At(a, "scan", "refuse") /\ Go(a, "raise")
       \/ At(a, "fail_scan", "begin") /\ Go(a, "return")
    /\ Fail("failed")
    /\ UNCHANGED <<store, launch, cancelling, bounds>>

RecordClean(a) ==
    /\ At(a, "scan", "clean")
    /\ IF Cancelled THEN UNCHANGED rows
       ELSE /\ job' = [job EXCEPT !.status = "ready_for_mapping"]
            /\ source' = [source EXCEPT !.state = "clean", !.scan = "clean"]
    /\ Go(a, "return")
    /\ UNCHANGED <<store, launch, cancelling, bounds>>

\* Mutant of Isolate: the result is recorded first and the copy left for later.
RecordFirst(a) == Go(a, "record") /\ UNCHANGED quarantine

\* The copy is there already, or is made of the version the attempt holds, if that
\* is still the newest.
Isolate(a) ==
    \/ quarantine # 0 /\ Go(a, "record") /\ UNCHANGED quarantine
    \/ quarantine = 0 /\ IsNewest(att[a].seen) /\ quarantine' = att[a].seen /\ Go(a, "record")
    \/ quarantine = 0 /\ ~IsNewest(att[a].seen) /\ End(a, "fatal") /\ UNCHANGED quarantine

QuarantineSource(a) ==
    /\ At(a, "scan", "infected")
    /\ Isolate(a)
    /\ UNCHANGED <<rows, stored, removed, verdict, launch, cancelling, bounds>>

\* _record_infected does not look at the state it overwrites.
RecordInfected(a) ==
    /\ At(a, "scan", "record")
    /\ job' = [job EXCEPT !.status = "failed"]
    /\ source' = [source EXCEPT !.state = "quarantined", !.scan = "infected"]
    /\ Go(a, "remove")
    /\ UNCHANGED <<store, launch, cancelling, bounds>>

RemoveInfected(a) ==
    /\ At(a, "scan", "remove")
    /\ removed' = removed \cup {att[a].seen}
    /\ Go(a, "return")
    /\ UNCHANGED <<rows, stored, quarantine, verdict, launch, cancelling, bounds>>

-----------------------------------------------------------------------------
Activity(a) ==
    \/ MoveToVerifying(a) \/ HeadSource(a) \/ HashSource(a) \/ RejectSource(a)
    \/ RecordVerified(a) \/ StartScan(a) \/ ScanSource(a) \/ FailScan(a)
    \/ RecordClean(a) \/ QuarantineSource(a) \/ RecordInfected(a) \/ RemoveInfected(a)
    \/ Answer(a)

Next ==
    \/ Upload \/ Create \/ Expire \/ Complete \/ ReplayComplete \/ Cancel
    \/ CreateMapping \/ StartValidation \/ Validate \/ FailValidation
    \/ StartApply \/ FinishApply \/ FailApply
    \/ StartCompensation \/ FinishCompensation \/ FailCompensation
    \/ Launch \/ LoseLaunch \/ DeliverCancel \/ LoseCancel \/ Schedule
    \/ \E a \in Attempts : Activity(a) \/ AttemptLost(a) \/ Timeout(a) \/ ZombieEnds(a)

Spec == Init /\ [][Next]_vars

\* A client told 503, or polling a job that stays busy, repeats its completion.
ClientRetry == wf = Closed /\ job.status \in Busy /\ ReplayComplete

FairSpec ==
    /\ Spec
    /\ WF_vars(Launch) /\ WF_vars(Schedule) /\ WF_vars(ClientRetry)
    /\ \A a \in Attempts : WF_vars(Activity(a))

-----------------------------------------------------------------------------
TypeOK ==
    /\ job \in Job /\ source \in Source
    /\ stored \in [Uploads -> Bytes \cup {"absent"}] /\ removed \subseteq Uploads
    /\ quarantine \in Uploads \cup {0}
    /\ verdict \in [Bytes -> {"clean", "infected"}]
    /\ launch \in BOOLEAN /\ cancelling \in BOOLEAN
    /\ wf \in Workflow /\ att \in [Attempts -> Attempt]
    /\ lost \in 0 .. MaxLost /\ timeouts \in 0 .. MaxTimeouts

\* import_source_activity.py:111-145.  What a source is recorded quarantined for is
\* in the quarantine object, and deleting from staging never loses the declared bytes.
InfectedIsIsolated ==
    /\ source.state = "quarantined" => quarantine # 0
    /\ \A v \in removed : stored[v] = "intact" =>
          quarantine # 0 /\ stored[quarantine] = "intact"

\* import_source_activity.py:192-283, business_imports.py:529-532.  However late
\* an attempt writes, a job under review has a source recorded clean.  It ends with
\* the review: _finish_apply also completes a job that was cancelled meanwhile.
ReviewedIsClean ==
    job.status \in UnderReview => source.state = "clean" /\ source.scan = "clean"

\* import_source_activity.py:59, 164, 180, 197, 269.  A cancel holds against every
\* attempt still running; an infected file may still be put aside.  Only an apply
\* or a compensation already asked for takes the job out of cancelled, and leaves
\* the source in it.
CancelHolds ==
    [][/\ job.status = "cancelled" =>
            \/ job'.status = "cancelled"
            \/ job'.status = "failed" /\ source'.state = "quarantined"
            \/ job.asked >= 2 /\ job'.status \in {"completed", "compensated"}
       /\ source.state = "cancelled" => source'.state \in {"cancelled", "quarantined"}]_vars

\* import_source_activity.py:161-189, business_imports.py:429-432.  As long as no
\* attempt outlives its timeout, replays, retries and late calls leave the source of
\* a job past the scan alone, but for one case: a worker or a call was lost, say
\* between a scan's commit and its report, and the retry, finding the job gone on,
\* has it recorded as a failure.  A failed or expired job stays so, unless an apply
\* or a compensation already asked for ends.
RestIsLeftAlone ==
    [][timeouts = 0 =>
         /\ job.status \in {"ready_for_mapping"} \cup UnderReview \cup Applied
            /\ source' # source =>
               \/ job'.status = "cancelled"
               \/ lost # 0 /\ job'.status = "failed" /\ source'.state = "failed"
         /\ job.status \in {"failed", "expired"} =>
               \/ job'.status = job.status
               \/ job.asked >= 2 /\ job'.status \in {"completed", "compensated"}]_vars

\* Every accepted completion comes to a state its client can act on.
SourceComesToRest == job.status \in Busy ~> job.status \notin Busy
=============================================================================
