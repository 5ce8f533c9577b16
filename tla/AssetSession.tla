---------------------------- MODULE AssetSession ----------------------------
(***************************************************************************)
(* One asset upload session, from the presigned grant to a bound file.     *)
(*                                                                         *)
(* The client posts bytes straight to the object store; the API            *)
(* (asset_uploads.py, asset_finalization.py) moves the session row and     *)
(* starts two Temporal workflows; their activities hash, scan, quarantine, *)
(* copy, bind, delete and compensate.  Row and store share no transaction. *)
(*                                                                         *)
(* The bucket is versioned (infra/object-storage/init-object-storage.sh):  *)
(* a post or a copy adds a version, a delete removes the exact version it  *)
(* names.  A version keeps its bytes.                                      *)
(*                                                                         *)
(* An attempt the server gave up on may still run: it is a zombie until    *)
(* its process notices, as in ImportApply.                                 *)
(***************************************************************************)
EXTENDS Naturals

CONSTANTS
    Attempts,     \* slots for activity attempts that run at the same time
    None,
    MaxTries,     \* RetryPolicy.maximum_attempts
    MaxUploads,   \* bound on the client's posts to the staging key
    MaxCopies,    \* bound on copies made to the destination key
    MaxLost,      \* bound on crashes, retryable errors and lost Temporal calls
    MaxTimeouts,  \* bound on attempts the server times out while they run
    EarlyRequest, \* may finalization be asked for before verification came to rest?
    TornCompensation \* may a compensation end between its delete and its mark?

Phases == {"verify", "scan", "fail_scan",
           "promote", "commit", "compensate", "fail", "cleanup", "mark"}

ASSUME BoundAssumption == /\ MaxTries \in Nat \ {0}
                          /\ {MaxUploads, MaxCopies, MaxLost, MaxTimeouts} \subseteq Nat
                          /\ {EarlyRequest, TornCompensation} \subseteq BOOLEAN
ASSUME NoneAssumption == None \notin Attempts \cup Phases

VARIABLES
    session,      \* asset_upload_sessions: the fields below
    bound,        \* asset_blobs, with its version and binding: the copy it names
    staging,      \* the versions of the staging object, by number
    removed,      \* those deleted
    copies,       \* the versions of the destination object: what each is a copy of
    dropped,      \* those deleted
    quarantine,   \* the quarantine object: what it is a copy of
    verdict,      \* what the scanner says of the bytes
    launch,       \* the API has committed and not yet called start_workflow
    cancelling,   \* the API has committed a cancel and not yet called cancel
    wf,           \* the two workflows
    att,          \* running activity attempts
    lost, timeouts

store    == <<staging, removed, copies, dropped, quarantine, verdict>>
temporal == <<launch, cancelling, wf>>
bounds   == <<lost, timeouts>>
vars == <<session, bound, store, temporal, att, bounds>>

Uploads == 1 .. MaxUploads
Copies  == 1 .. MaxCopies
Flows   == {"verify", "finalize"}

State == {"initiated", "uploaded", "verifying", "scanning", "ready_to_finalize",
          "finalizing", "finalized", "failed", "expired", "cancelled", "quarantined"}

Session == [state : State,
            completed : BOOLEAN,           \* completion key and workflow_id are set
            verified : Uploads \cup {0},   \* verified_provider_version_id
            scan : {"not_started", "pending", "clean", "infected", "failed"},
            payload : Uploads \cup {0},    \* the version finalization_payload names
            cleanup : {"not_started", "pending", "complete", "failed"}]

\* Bytes that have the declared hash, or not.
Bytes == {"intact", "damaged"}

Workflow == [phase : Phases \cup {"closed"}, tries : 0 .. MaxTries,
             cur : Attempts \cup {None},
             given : Copies \cup {0}]      \* the PromotedAsset handed on

Attempt == [phase : Phases \cup {None},
            pc : {"begin", "head", "hash", "reject", "record", "read", "refuse", "clean",
                  "infected", "remove", "copy", "deleted"},
            seen : Nat]                    \* an object version read or passed in

Closed == [phase |-> "closed", tries |-> 0, cur |-> None, given |-> 0]
Idle   == [phase |-> None, pc |-> "begin", seen |-> 0]

Init ==
    /\ session = [state |-> "initiated", completed |-> FALSE, verified |-> 0,
                  scan |-> "not_started", payload |-> 0, cleanup |-> "not_started"]
    /\ bound = 0
    /\ staging = [v \in Uploads |-> "absent"] /\ removed = {}
    /\ copies = [c \in Copies |-> 0] /\ dropped = {}
    /\ quarantine = 0
    /\ verdict \in [Bytes -> {"clean", "infected"}]
    /\ launch = [w \in Flows |-> FALSE]
    /\ cancelling = FALSE
    /\ wf = [w \in Flows |-> Closed]
    /\ att = [a \in Attempts |-> Idle]
    /\ lost = 0 /\ timeouts = 0

-----------------------------------------------------------------------------
(* The object store. *)

Staged   == {v \in Uploads : staging[v] # "absent"} \ removed
Promoted == {c \in Copies : copies[c] # 0} \ dropped

\* What a read of the key without a version finds; 0 is NoSuchKey.
IsNewest(v, S) == IF S = {} THEN v = 0 ELSE v \in S /\ \A w \in S : w <= v

\* The client posts the file with its grant, which outlives the first post.
Upload == \E v \in Uploads, bytes \in Bytes :
    /\ staging[v] = "absent" /\ \A w \in Uploads : w < v => staging[w] # "absent"
    /\ staging' = [staging EXCEPT ![v] = bytes]
    /\ UNCHANGED <<session, bound, removed, copies, dropped, quarantine, verdict,
                   temporal, att, bounds>>

-----------------------------------------------------------------------------
(* The API.  Each transaction locks the session row; launch follows it. *)

\* The compensating activity holds the row lock while it calls the store.
Unlocked == \A a \in Attempts : att[a].pc # "deleted"

\* No trace is left of a verification workflow.
VerifierAtRest ==
    /\ wf["verify"] = Closed /\ ~launch["verify"]
    /\ \A a \in Attempts : att[a].phase \notin {"verify", "scan", "fail_scan"}

Expire ==
    /\ session.state = "initiated" /\ Unlocked
    /\ session' = [session EXCEPT !.state = "expired"]
    /\ UNCHANGED <<bound, store, temporal, att, bounds>>

Complete ==
    /\ session.state = "initiated" /\ Unlocked
    /\ session' = [session EXCEPT !.state = "uploaded", !.completed = TRUE]
    /\ launch' = [launch EXCEPT !["verify"] = TRUE]
    /\ UNCHANGED <<bound, store, cancelling, wf, att, bounds>>

\* Mutant of Completable: a replay is accepted only before the worker has begun.
NotBegun(state) == state = "uploaded"

Completable(state) ==
    state \in {"uploaded", "verifying", "scanning", "ready_to_finalize", "quarantined"}

\* The same Idempotency-Key again launches the workflow again.
ReplayComplete ==
    /\ Completable(session.state) /\ Unlocked /\ ~launch["verify"]
    /\ launch' = [launch EXCEPT !["verify"] = TRUE]
    /\ UNCHANGED <<session, bound, store, cancelling, wf, att, bounds>>

Cancel ==
    /\ session.state \in {"initiated", "uploaded", "verifying", "scanning", "cancelled"}
    /\ Unlocked
    /\ session' = [session EXCEPT !.state = "cancelled"]
    /\ cancelling' = session.completed
    /\ UNCHANGED <<bound, store, launch, wf, att, bounds>>

RequestFinalize ==
    /\ session.payload = 0 /\ Unlocked
    /\ session.state = "ready_to_finalize" /\ session.scan = "clean"
    /\ VerifierAtRest \/ EarlyRequest
    /\ session' = [session EXCEPT !.state = "finalizing", !.payload = session.verified,
                                  !.cleanup = "pending"]
    /\ launch' = [launch EXCEPT !["finalize"] = TRUE]
    /\ UNCHANGED <<bound, store, cancelling, wf, att, bounds>>

\* The same key and request again, whatever the state is by now.
ReplayFinalize ==
    /\ session.payload # 0 /\ Unlocked /\ ~launch["finalize"]
    /\ launch' = [launch EXCEPT !["finalize"] = TRUE]
    /\ UNCHANGED <<session, bound, store, cancelling, wf, att, bounds>>

-----------------------------------------------------------------------------
(* Temporal, as the launchers, the workflows and their policies use it. *)

Open(phase, given) == [phase |-> phase, tries |-> 0, cur |-> None, given |-> given]

\* A second start of a running workflow is swallowed; a closed one runs anew.
Launch(w) ==
    /\ launch[w]
    /\ launch' = [launch EXCEPT ![w] = FALSE]
    /\ wf' = IF wf[w] # Closed THEN wf
             ELSE [wf EXCEPT ![w] = Open(IF w = "verify" THEN "verify" ELSE "promote", 0)]
    /\ UNCHANGED <<session, bound, store, cancelling, att, bounds>>

LoseLaunch(w) ==
    /\ launch[w] /\ lost < MaxLost
    /\ launch' = [launch EXCEPT ![w] = FALSE]
    /\ lost' = lost + 1
    /\ UNCHANGED <<session, bound, store, cancelling, wf, att, timeouts>>

AfterSuccess(w, given) ==
    CASE w.phase = "verify"  -> Open("scan", 0)
      [] w.phase = "promote" -> Open("commit", given)
      [] w.phase = "commit"  -> Open("cleanup", 0)
      [] OTHER -> Closed

\* Mutant of AfterFailure: the commit has no except clause.
Uncaught(w) ==
    CASE w.phase = "scan"    -> Open("fail_scan", 0)
      [] w.phase = "promote" -> Open("fail", 0)
      [] w.phase = "cleanup" -> Open("mark", 0)
      [] OTHER -> Closed

\* The except clauses; in the other phases an ActivityError ends the workflow.
AfterFailure(w) ==
    CASE w.phase = "scan"    -> Open("fail_scan", 0)
      [] w.phase = "promote" -> Open("fail", 0)
      [] w.phase = "commit"  -> Open("compensate", w.given)
      [] w.phase = "cleanup" -> Open("mark", 0)
      [] OTHER -> Closed

\* Mutant of Outcome: the retry policy has no maximum_attempts.
RetryForever(w, result, given) ==
    CASE result = "ok"    -> AfterSuccess(w, given)
      [] result = "stop"  -> Closed
      [] result = "retry" -> [w EXCEPT !.cur = None]
      [] OTHER -> AfterFailure(w)

Outcome(w, result, given) ==
    CASE result = "ok"   -> AfterSuccess(w, given)
      [] result = "stop" -> Closed
      [] result = "retry" /\ w.tries < MaxTries -> [w EXCEPT !.cur = None]
      [] OTHER -> AfterFailure(w)

\* Cancelling surfaces as an ActivityError of the attempt awaited.
DeliverCancel ==
    /\ cancelling
    /\ cancelling' = FALSE
    /\ wf' = [wf EXCEPT !["verify"] = AfterFailure(@)]
    /\ UNCHANGED <<session, bound, store, launch, att, bounds>>

LoseCancel ==
    /\ cancelling /\ lost < MaxLost
    /\ cancelling' = FALSE
    /\ lost' = lost + 1
    /\ UNCHANGED <<session, bound, store, launch, wf, att, timeouts>>

Live(a) == \E w \in Flows : wf[w].cur = a

Schedule(w) ==
    /\ wf[w] # Closed /\ wf[w].cur = None
    /\ \E a \in Attempts :
        /\ att[a] = Idle /\ ~Live(a)
        /\ att' = [att EXCEPT ![a] = [Idle EXCEPT !.phase = wf[w].phase, !.seen = wf[w].given]]
        /\ wf' = [wf EXCEPT ![w].cur = a, ![w].tries = @ + 1]
    /\ UNCHANGED <<session, bound, store, launch, cancelling, bounds>>

\* Nobody listens to a zombie.
Report(a, result, given) ==
    wf' = [w \in Flows |-> IF wf[w].cur = a THEN Outcome(wf[w], result, given) ELSE wf[w]]

EndWith(a, result, given) ==
    /\ att' = [att EXCEPT ![a] = Idle]
    /\ Report(a, result, given)

End(a, result) == EndWith(a, result, 0)

Go(a, pc) == att' = [att EXCEPT ![a].pc = pc] /\ UNCHANGED wf

\* The worker dies, or store, scanner or database answer with a retryable error.
AttemptLost(a) ==
    /\ Live(a) /\ lost < MaxLost
    /\ att[a].pc = "deleted" => TornCompensation
    /\ End(a, "retry")
    /\ lost' = lost + 1
    /\ UNCHANGED <<session, bound, store, launch, cancelling, timeouts>>

Timeout(a) ==
    /\ Live(a) /\ timeouts < MaxTimeouts
    /\ Report(a, "retry", 0)
    /\ timeouts' = timeouts + 1
    /\ UNCHANGED <<session, bound, store, launch, cancelling, att, lost>>

ZombieEnds(a) ==
    /\ att[a] # Idle /\ ~Live(a)
    /\ att[a].pc = "deleted" => TornCompensation
    /\ att' = [att EXCEPT ![a] = Idle]
    /\ UNCHANGED <<session, bound, store, temporal, bounds>>

-----------------------------------------------------------------------------
(* verify_asset_upload *)

At(a, phase, pc) == att[a].phase = phase /\ att[a].pc = pc

MoveToVerifying(a) ==
    /\ At(a, "verify", "begin") /\ Unlocked
    /\ \/ session.state = "cancelled" /\ End(a, "stop") /\ UNCHANGED session
       \/ session.state \in {"verifying", "scanning"} /\ Go(a, "head") /\ UNCHANGED session
       \/ /\ session.state = "uploaded" /\ Go(a, "head")
          /\ session' = [session EXCEPT !.state = "verifying"]
       \/ /\ session.state \notin {"cancelled", "verifying", "scanning", "uploaded"}
          /\ End(a, "fatal") /\ UNCHANGED session
    /\ UNCHANGED <<bound, store, launch, cancelling, bounds>>

HeadStaging(a) == \E v \in Uploads \cup {0} :
    /\ At(a, "verify", "head") /\ IsNewest(v, Staged)
    /\ att' = [att EXCEPT ![a].pc = IF v = 0 THEN "reject" ELSE "hash", ![a].seen = v]
    /\ UNCHANGED <<session, bound, store, temporal, bounds>>

\* The hash is of whatever version is the newest by now.
HashStaging(a) == \E v \in Uploads \cup {0} :
    /\ At(a, "verify", "hash") /\ IsNewest(v, Staged)
    /\ Go(a, IF v # 0 /\ staging[v] = "intact" THEN "record" ELSE "reject")
    /\ UNCHANGED <<session, bound, store, launch, cancelling, bounds>>

\* Mutant of Rejected: the cancelled session is not spared.
RejectedAlways(s) == [s EXCEPT !.state = "failed"]

Rejected(s) == IF s.state = "cancelled" THEN s ELSE [s EXCEPT !.state = "failed"]

RejectUpload(a) ==
    /\ At(a, "verify", "reject") /\ Unlocked
    /\ session' = Rejected(session)
    /\ End(a, "fatal")
    /\ UNCHANGED <<bound, store, launch, cancelling, bounds>>

RecordVerified(a) ==
    /\ At(a, "verify", "record") /\ Unlocked
    /\ \/ session.state = "cancelled" /\ End(a, "stop") /\ UNCHANGED session
       \/ session.state = "scanning" /\ End(a, "ok") /\ UNCHANGED session
       \/ /\ session.state \notin {"cancelled", "scanning"} /\ End(a, "ok")
          /\ session' = [session EXCEPT !.state = "scanning", !.scan = "pending",
                                        !.verified = att[a].seen]
    /\ UNCHANGED <<bound, store, launch, cancelling, bounds>>

-----------------------------------------------------------------------------
(* scan_asset_upload, fail_asset_scan *)

StartScan(a) ==
    /\ At(a, "scan", "begin") /\ Unlocked
    /\ \/ session.state = "scanning" /\ Go(a, "read")
       \/ session.state = "quarantined" /\ Go(a, "remove")
       \/ session.state \in {"cancelled", "ready_to_finalize", "failed"} /\ End(a, "ok")
       \/ /\ session.state \in {"initiated", "uploaded", "verifying", "finalizing",
                                "finalized", "expired"}
          /\ End(a, "fatal")
    /\ UNCHANGED <<session, bound, store, launch, cancelling, bounds>>

\* The stream is of the newest version; the scanner may also refuse it for good.
ScanStaging(a) == \E v \in Uploads \cup {0} :
    /\ At(a, "scan", "read") /\ IsNewest(v, Staged)
    /\ \/ v # 0 /\ Go(a, verdict[staging[v]])
       \/ Go(a, "refuse")
    /\ UNCHANGED <<session, bound, store, launch, cancelling, bounds>>

FailedScan(s) ==
    IF s.state \in {"cancelled", "ready_to_finalize", "quarantined"} THEN s
    ELSE [s EXCEPT !.state = "failed", !.scan = "failed"]

FailScan(a) ==
    /\ Unlocked
    /\ \/ At(a, "scan", "refuse") /\ End(a, "fatal")
       \/ At(a, "fail_scan", "begin") /\ End(a, "ok")
    /\ session' = FailedScan(session)
    /\ UNCHANGED <<bound, store, launch, cancelling, bounds>>

RecordClean(a) ==
    /\ At(a, "scan", "clean") /\ Unlocked
    /\ session' = IF session.state \in {"cancelled", "ready_to_finalize"} THEN session
                  ELSE [session EXCEPT !.state = "ready_to_finalize", !.scan = "clean"]
    /\ End(a, "ok")
    /\ UNCHANGED <<bound, store, launch, cancelling, bounds>>

\* Mutant of Isolate: the state is recorded first and the copy left for later.
RecordFirst(a) == Go(a, "record") /\ UNCHANGED quarantine

\* The quarantine copy is there already, or is made of the verified version if
\* that is still the newest.
Isolate(a) ==
    \/ quarantine # 0 /\ Go(a, "record") /\ UNCHANGED quarantine
    \/ /\ quarantine = 0 /\ IsNewest(session.verified, Staged)
       /\ quarantine' = session.verified
       /\ Go(a, "record")
    \/ /\ quarantine = 0 /\ ~IsNewest(session.verified, Staged)
       /\ End(a, "fatal") /\ UNCHANGED quarantine

QuarantineUpload(a) ==
    /\ At(a, "scan", "infected")
    /\ Isolate(a)
    /\ UNCHANGED <<session, bound, staging, removed, copies, dropped, verdict,
                   launch, cancelling, bounds>>

RecordInfected(a) ==
    /\ At(a, "scan", "record") /\ Unlocked
    /\ session' = [session EXCEPT !.state = "quarantined", !.scan = "infected"]
    /\ Go(a, "remove")
    /\ UNCHANGED <<bound, store, launch, cancelling, bounds>>

RemoveInfected(a) ==
    /\ At(a, "scan", "remove")
    /\ removed' = removed \cup {session.verified}
    /\ End(a, "ok")
    /\ UNCHANGED <<session, bound, staging, copies, dropped, quarantine, verdict,
                   launch, cancelling, bounds>>

-----------------------------------------------------------------------------
(* The finalization activities. *)

HeadDestination(a) == \E c \in Copies \cup {0} :
    /\ At(a, "promote", "begin") /\ IsNewest(c, Promoted)
    /\ IF c # 0 THEN EndWith(a, "ok", c) ELSE Go(a, "copy")
    /\ UNCHANGED <<session, bound, store, launch, cancelling, bounds>>

\* Mutant of Exact: the copy does not pin the version that was verified.
AnyVersion(v) == v # 0

Exact(v) == v = session.payload

\* copy_object: head the source, copy that version, head the destination.
CopyVerified(a) == \E v \in Uploads \cup {0} :
    /\ At(a, "promote", "copy") /\ IsNewest(v, Staged)
    /\ \/ Exact(v) /\ \E c \in Copies :
            /\ copies[c] = 0 /\ \A d \in Copies : d < c => copies[d] # 0
            /\ copies' = [copies EXCEPT ![c] = v]
            /\ EndWith(a, "ok", c)
       \/ ~Exact(v) /\ End(a, "fatal") /\ UNCHANGED copies
    /\ UNCHANGED <<session, bound, staging, removed, dropped, quarantine, verdict,
                   launch, cancelling, bounds>>

\* Mutant of Eligible: only the scan is looked at.
ScannedClean(s) == s.scan = "clean"

Eligible(s) == s.state = "finalizing" /\ s.scan = "clean"

\* One transaction: canonical asset, version, blob, binding, session.  The last
\* disjunct is a slug or a constraint somebody else got to first.
Commit(a) ==
    /\ At(a, "commit", "begin") /\ Unlocked
    /\ \/ session.state = "finalized" /\ End(a, "ok") /\ UNCHANGED <<session, bound>>
       \/ /\ session.state # "finalized" /\ Eligible(session)
          /\ bound' = att[a].seen
          /\ session' = [session EXCEPT !.state = "finalized", !.cleanup = "pending"]
          /\ End(a, "ok")
       \/ session.state # "finalized" /\ End(a, "fatal") /\ UNCHANGED <<session, bound>>
    /\ UNCHANGED <<store, launch, cancelling, bounds>>

\* Mutant of StagedFile: whatever is staged now is deleted.
NewestStaged(v) == IsNewest(v, Staged)

StagedFile(v) == v = session.payload

DeleteStaged(a) == \E v \in Uploads :
    /\ At(a, "cleanup", "begin") /\ StagedFile(v)
    /\ removed' = removed \cup {v}
    /\ Go(a, "record")
    /\ UNCHANGED <<session, bound, staging, copies, dropped, quarantine, verdict,
                   launch, cancelling, bounds>>

RecordCleanup(a) ==
    /\ At(a, "cleanup", "record") /\ Unlocked
    /\ \/ /\ session.state = "finalized" /\ End(a, "ok")
          /\ session' = [session EXCEPT !.cleanup = "complete"]
       \/ session.state # "finalized" /\ End(a, "fatal") /\ UNCHANGED session
    /\ UNCHANGED <<bound, store, launch, cancelling, bounds>>

MarkCleanupFailed(a) ==
    /\ At(a, "mark", "begin") /\ Unlocked
    /\ \/ /\ session.state = "finalized" /\ End(a, "ok")
          /\ session' = [session EXCEPT !.cleanup = "failed"]
       \/ session.state # "finalized" /\ End(a, "fatal") /\ UNCHANGED session
    /\ UNCHANGED <<bound, store, launch, cancelling, bounds>>

\* Mutant of Spared: the failure paths do not look for a commit that did happen.
NeverSpared(s) == FALSE

Spared(s) == s.state = "finalized"

FinalizationFailed(s) == [s EXCEPT !.state = "failed", !.cleanup = "not_started"]

FailFinalization(a) ==
    /\ At(a, "fail", "begin") /\ Unlocked
    /\ session' = IF Spared(session) THEN session ELSE FinalizationFailed(session)
    /\ End(a, "ok")
    /\ UNCHANGED <<bound, store, launch, cancelling, bounds>>

\* compensate_asset_promotion deletes the copy with the row locked ...
CompensateDelete(a) ==
    /\ At(a, "compensate", "begin") /\ Unlocked
    /\ \/ Spared(session) /\ End(a, "ok") /\ UNCHANGED dropped
       \/ ~Spared(session) /\ dropped' = dropped \cup {att[a].seen} /\ Go(a, "deleted")
    /\ UNCHANGED <<session, bound, staging, removed, copies, quarantine, verdict,
                   launch, cancelling, bounds>>

\* ... and then marks the session; a crash in between keeps only the deletion.
CompensateMark(a) ==
    /\ At(a, "compensate", "deleted")
    /\ session' = FinalizationFailed(session)
    /\ End(a, "ok")
    /\ UNCHANGED <<bound, store, launch, cancelling, bounds>>

-----------------------------------------------------------------------------
Verification(a) ==
    \/ MoveToVerifying(a) \/ HeadStaging(a) \/ HashStaging(a)
    \/ RejectUpload(a) \/ RecordVerified(a)

Scanning(a) ==
    \/ StartScan(a) \/ ScanStaging(a) \/ FailScan(a) \/ RecordClean(a)
    \/ QuarantineUpload(a) \/ RecordInfected(a) \/ RemoveInfected(a)

Finalization(a) ==
    \/ HeadDestination(a) \/ CopyVerified(a) \/ Commit(a)
    \/ DeleteStaged(a) \/ RecordCleanup(a) \/ MarkCleanupFailed(a)
    \/ FailFinalization(a) \/ CompensateDelete(a) \/ CompensateMark(a)

Activity(a) == Verification(a) \/ Scanning(a) \/ Finalization(a)

Next ==
    \/ Upload \/ Expire \/ Complete \/ ReplayComplete \/ Cancel
    \/ RequestFinalize \/ ReplayFinalize \/ DeliverCancel \/ LoseCancel
    \/ \E w \in Flows : Launch(w) \/ LoseLaunch(w) \/ Schedule(w)
    \/ \E a \in Attempts : Activity(a) \/ AttemptLost(a) \/ Timeout(a) \/ ZombieEnds(a)

Spec == Init /\ [][Next]_vars

\* A client told 503, or polling a session that stays busy, repeats its request.
ClientRetry(w) ==
    /\ wf[w] = Closed
    /\ IF w = "verify"
       THEN session.state \in {"uploaded", "verifying", "scanning"} /\ ReplayComplete
       ELSE session.state = "finalizing" /\ ReplayFinalize

FairSpec ==
    /\ Spec
    /\ \A w \in Flows : WF_vars(Launch(w)) /\ WF_vars(Schedule(w)) /\ WF_vars(ClientRetry(w))
    /\ \A a \in Attempts : WF_vars(Activity(a))

-----------------------------------------------------------------------------
TypeOK ==
    /\ session \in Session
    /\ bound \in Copies \cup {0}
    /\ staging \in [Uploads -> Bytes \cup {"absent"}] /\ removed \subseteq Uploads
    /\ copies \in [Copies -> Uploads \cup {0}] /\ dropped \subseteq Copies
    /\ quarantine \in Uploads \cup {0}
    /\ verdict \in [Bytes -> {"clean", "infected"}]
    /\ launch \in [Flows -> BOOLEAN] /\ cancelling \in BOOLEAN
    /\ wf \in [Flows -> Workflow] /\ att \in [Attempts -> Attempt]
    /\ lost \in 0 .. MaxLost /\ timeouts \in 0 .. MaxTimeouts

\* asset_finalization_activity.py:264-291.  However attempts are lost, retried,
\* timed out or replayed, the file an asset version is bound to is in the store.
BoundObjectKept == bound # 0 => bound \in Promoted

\* asset_finalization_activity.py:86-106, 278-308.  The session says finalized
\* exactly when the blob and version rows exist: no later step takes it back.
FinalizedIsBound == session.state = "finalized" <=> bound # 0

\* asset_verification_activity.py:27-62, s3_object_storage.py:213-241.  Unless a
\* scan removed something, the bound file has the declared hash, though the hash was
\* taken of the newest version and the version recorded was read before it.
BoundIsIntact == bound # 0 /\ quarantine = 0 => staging[copies[bound]] = "intact"

\* asset_scan_activity.py:31-87, asset_finalization_activity.py:228-243.  Deleting
\* from staging never loses the declared bytes: they are bound or in quarantine.
NothingLost ==
    \A v \in removed : staging[v] = "intact" =>
        \/ quarantine # 0 /\ staging[quarantine] = "intact"
        \/ bound # 0 /\ staging[copies[bound]] = "intact"

\* asset_finalization_activity.py:244-252.  A clean-up reported complete is done:
\* the version that was promoted is no longer staged.
CleanupIsDone == session.cleanup = "complete" => session.payload \in removed

\* asset_verification_activity.py:51, 121, asset_scan_activity.py:129, 174.  An
\* attempt still running at a cancel does not revive the session; only an
\* infected file may still be moved to quarantine.
CancelHolds ==
    [][session.state = "cancelled" => session'.state \in {"cancelled", "quarantined"}]_vars

\* Every accepted completion and finalization comes to a state its client can act on.
VerificationEnds ==
    session.state \in {"uploaded", "verifying", "scanning"} ~>
        session.state \notin {"uploaded", "verifying", "scanning"}
FinalizationEnds == session.state = "finalizing" ~> session.state # "finalizing"

\* docs/en/getting-started.md:109-110: "A database-commit failure removes only the
\* promoted version after confirming that it was not bound."
RemovesOnlyUnbound == [][bound # 0 /\ bound \notin dropped => bound \notin dropped']_vars
=============================================================================
