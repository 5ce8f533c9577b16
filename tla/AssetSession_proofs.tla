------------------------- MODULE AssetSession_proofs -------------------------
(***************************************************************************)
(* Proofs about AssetSession for any number of attempts, posts, copies,    *)
(* retries and faults.  Whatever the flags are the state is well typed,    *)
(* what is bound is what the client declared, and nothing declared is      *)
(* lost.  With EarlyRequest FALSE a cancel holds and the rows agree; with  *)
(* both flags FALSE a bound file stays in the store.                       *)
(***************************************************************************)
EXTENDS AssetSession, TLAPS

-----------------------------------------------------------------------------
(* What a workflow may be, and what its attempts hold. *)

LEMMA Bounds == /\ MaxTries \in Nat \ {0} /\ MaxUploads \in Nat /\ MaxCopies \in Nat
                /\ MaxLost \in Nat /\ MaxTimeouts \in Nat
BY BoundAssumption

Of(w) == IF w = "verify" THEN {"verify", "scan", "fail_scan"}
         ELSE {"promote", "commit", "compensate", "fail", "cleanup", "mark"}

\* A workflow that awaits no attempt has a try left, and a closed one is at rest.
Runs(w) == {f \in Workflow : /\ f.phase \in Of(w) \cup {"closed"}
                             /\ f.phase = "closed" => f = Closed
                             /\ f # Closed /\ f.cur = None => f.tries < MaxTries}

Awaited == \A w \in Flows : wf[w].cur # None => att[wf[w].cur].phase = wf[w].phase

Chosen(c) == c \in Copies /\ copies[c] # 0

\* What a workflow has been told, and what the session's state says, is so ...
Claims(s) == s.state \in {"scanning", "ready_to_finalize"} => s.verified # 0

Told ==
    /\ Claims(session)
    /\ wf["verify"].phase = "scan" => session.verified # 0
    /\ launch["finalize"] \/ wf["finalize"] # Closed => session.payload # 0
    /\ wf["finalize"].phase \in {"commit", "compensate"} => Chosen(wf["finalize"].given)

\* ... and so is what an attempt has been given or has seen.
Holds(a) ==
    /\ At(a, "verify", "hash") \/ At(a, "verify", "record") => att[a].seen \in Uploads
    /\ att[a].phase = "scan" => session.verified # 0
    /\ att[a].phase \in {"commit", "compensate"} => Chosen(att[a].seen)
    /\ att[a].phase \in Of("finalize") => session.payload # 0

Base == /\ TypeOK
        /\ \A w \in Flows : wf[w] \in Runs(w)
        /\ Awaited /\ Told
        /\ \A a \in Attempts : Holds(a)

LEMMA FreshRuns ==
    /\ \A w \in Flows : Closed \in Runs(w)
    /\ \A w \in Flows : \A phase \in Of(w), given \in Copies \cup {0} :
          Open(phase, given) \in Runs(w)
<1> SUFFICES ASSUME NEW w \in Flows
             PROVE  /\ Closed \in Runs(w)
                    /\ \A phase \in Of(w), given \in Copies \cup {0} : Open(phase, given) \in Runs(w)
    OBVIOUS
<1>1. Closed \in Runs(w)
    BY Bounds DEF Runs, Closed, Workflow
<1>2. ASSUME NEW phase \in Of(w), NEW given \in Copies \cup {0}
      PROVE  Open(phase, given) \in Runs(w)
    BY Bounds DEF Runs, Closed, Workflow, Open, Of, Phases
<1> QED BY <1>1, <1>2

LEMMA FailureRuns ==
    ASSUME NEW w \in Flows, NEW f \in Runs(w)
    PROVE  AfterFailure(f) \in Runs(w)
BY FreshRuns DEF AfterFailure, Runs, Workflow, Of

LEMMA SuccessRuns ==
    ASSUME NEW w \in Flows, NEW f \in Runs(w), NEW given \in Copies \cup {0}
    PROVE  AfterSuccess(f, given) \in Runs(w)
BY FreshRuns DEF AfterSuccess, Runs, Workflow, Of

LEMMA OutcomeRuns ==
    ASSUME NEW w \in Flows, NEW f \in Runs(w), f # Closed, NEW result,
           NEW given \in Copies \cup {0}
    PROVE  Outcome(f, result, given) \in Runs(w)
<1>1. [f EXCEPT !.cur = None] \in Workflow
    BY DEF Runs, Workflow
<1>2. f.tries < MaxTries => [f EXCEPT !.cur = None] \in Runs(w)
    BY <1>1 DEF Runs, Workflow, Closed
<1> QED BY <1>2, FreshRuns, FailureRuns, SuccessRuns DEF Outcome

\* How a report moves the workflow that awaits it.
Advances(a, result, given) ==
    /\ \A w \in Flows : wf'[w] = wf[w] \/ wf'[w].cur = None
    /\ \A w \in Flows : wf'[w].cur # a
    /\ \A w \in Flows : wf[w] = Closed => wf'[w] = Closed
    /\ wf'["verify"].phase = "scan" =>
          \/ wf["verify"].phase = "scan"
          \/ att[a].phase = "verify" /\ result = "ok"
    /\ wf'["finalize"].phase \in {"commit", "compensate"} =>
          \/ /\ wf["finalize"].phase \in {"commit", "compensate"}
             /\ wf'["finalize"].given = wf["finalize"].given
          \/ att[a].phase = "promote" /\ result = "ok" /\ wf'["finalize"].given = given
    /\ wf'["finalize"].phase \in {"cleanup", "mark"} =>
          \/ wf["finalize"].phase \in {"cleanup", "mark"}
          \/ att[a].phase = "commit" /\ result = "ok"

\* The same of one workflow f that becomes g.
Moves(f, g, result, given) ==
    /\ g.cur = None
    /\ g.phase = "scan" =>
          f.phase = "scan" \/ (f.phase = "verify" /\ result = "ok")
    /\ g.phase \in {"commit", "compensate"} =>
          \/ (f.phase \in {"commit", "compensate"} /\ g.given = f.given)
          \/ (f.phase = "promote" /\ result = "ok" /\ g.given = given)
    /\ g.phase \in {"cleanup", "mark"} =>
          f.phase \in {"cleanup", "mark"} \/ (f.phase = "commit" /\ result = "ok")

LEMMA OutcomeMoves ==
    ASSUME NEW f \in Workflow, NEW result, NEW given
    PROVE  Moves(f, Outcome(f, result, given), result, given)
<1>1. CASE result = "ok"
    BY <1>1 DEF Moves, Outcome, AfterSuccess, Open, Closed
<1>2. CASE result = "stop"
    BY <1>2 DEF Moves, Outcome, Closed
<1>3. CASE result = "retry" /\ f.tries < MaxTries
  <2> DEFINE h == [f EXCEPT !.cur = None]
  <2>1. Outcome(f, result, given) = h
      BY <1>3 DEF Outcome
  <2>2. h.cur = None /\ h.phase = f.phase /\ h.given = f.given
      BY DEF Workflow
  <2> HIDE DEF h
  <2> QED BY <2>1, <2>2 DEF Moves
<1>4. CASE /\ result # "ok" /\ result # "stop" /\ ~(result = "retry" /\ f.tries < MaxTries)
  <2> DEFINE h == AfterFailure(f)
  <2>1. Outcome(f, result, given) = h
      BY <1>4 DEF Outcome
  <2>2. h.cur = None /\ h.phase \in {"fail_scan", "fail", "compensate", "mark", "closed"}
      BY DEF AfterFailure, Open, Closed
  <2>3. h.phase = "compensate" => f.phase = "commit" /\ h.given = f.given
      BY DEF AfterFailure, Open, Closed
  <2>4. h.phase = "mark" => f.phase = "cleanup"
      BY DEF AfterFailure, Open, Closed
  <2> HIDE DEF h
  <2> QED BY <2>1, <2>2, <2>3, <2>4 DEF Moves
<1> QED BY <1>1, <1>2, <1>3, <1>4

LEMMA ReportAdvances ==
    ASSUME Base, NEW a \in Attempts, NEW result, NEW given \in Copies \cup {0},
           Report(a, result, given)
    PROVE  /\ \A w \in Flows : wf'[w] \in Runs(w)
           /\ wf' \in [Flows -> Workflow]
           /\ Advances(a, result, given)
<1> a # None
    BY NoneAssumption
<1>1. ASSUME NEW w \in Flows
      PROVE  \/ wf[w].cur # a /\ wf'[w] = wf[w]
             \/ /\ wf[w].cur = a /\ wf[w] # Closed /\ att[a].phase = wf[w].phase
                /\ wf'[w] \in Runs(w)
                /\ Moves(wf[w], wf'[w], result, given)
  <2>1. CASE wf[w].cur # a
      BY <2>1 DEF Report
  <2>2. CASE wf[w].cur = a
    <3>1. wf'[w] = Outcome(wf[w], result, given)
        BY <2>2 DEF Report
    <3>2. wf[w] # Closed /\ att[a].phase = wf[w].phase
        BY <2>2 DEF Closed, Base, Awaited
    <3>3. wf[w] \in Runs(w) /\ wf[w] \in Workflow
        BY DEF Base, Runs
    <3> QED BY <2>2, <3>1, <3>2, <3>3, OutcomeRuns, OutcomeMoves
  <2> QED BY <2>1, <2>2
<1>2. \A w \in Flows : wf'[w] \in Runs(w)
    BY <1>1 DEF Base
<1>3. wf' \in [Flows -> Workflow]
  <2>1. wf' = [w \in Flows |-> IF wf[w].cur = a THEN Outcome(wf[w], result, given) ELSE wf[w]]
      BY DEF Report
  <2>2. DOMAIN wf' = Flows /\ wf' = [w \in Flows |-> wf'[w]]
      BY <2>1
  <2>3. \A w \in Flows : wf'[w] \in Workflow
      BY <1>2 DEF Runs
  <2> QED BY <2>2, <2>3
<1>4. Advances(a, result, given)
  <2>1. "verify" \in Flows /\ "finalize" \in Flows
      BY DEF Flows
  <2>2. \A w \in Flows : Moves(wf[w], wf'[w], result, given) => wf'[w].cur = None
      BY DEF Moves
  <2> QED BY <1>1, <2>1, <2>2 DEF Advances, Moves
<1> QED BY <1>2, <1>3, <1>4

\* What an ending, a going-on and a report without an end leave in order.
Kept == /\ \A w \in Flows : wf'[w] \in Runs(w)
        /\ wf' \in [Flows -> Workflow] /\ att' \in [Attempts -> Attempt]
        /\ Awaited'

LEMMA EndKept ==
    ASSUME Base, NEW a \in Attempts, NEW result, NEW given \in Copies \cup {0},
           EndWith(a, result, given)
    PROVE  Kept /\ Advances(a, result, given) /\ att' = [att EXCEPT ![a] = Idle]
<1>1. Report(a, result, given) /\ att' = [att EXCEPT ![a] = Idle]
    BY DEF EndWith
<1>2. att' \in [Attempts -> Attempt]
    BY <1>1 DEF Base, TypeOK, Idle, Attempt
<1>3. Awaited'
  <2> SUFFICES ASSUME NEW w \in Flows, wf'[w].cur # None
               PROVE  att'[wf'[w].cur].phase = wf'[w].phase
      BY DEF Awaited
  <2>1. wf'[w] = wf[w] /\ wf'[w].cur # a
      BY <1>1, ReportAdvances DEF Advances
  <2>2. wf[w].cur \in Attempts
      BY <2>1 DEF Base, TypeOK, Workflow
  <2> QED BY <1>1, <2>1, <2>2 DEF Base, TypeOK, Awaited
<1> QED BY <1>1, <1>2, <1>3, ReportAdvances DEF Kept

LEMMA GoKept ==
    ASSUME Base, NEW a \in Attempts,
           NEW pc \in {"begin", "head", "hash", "reject", "record", "read", "refuse", "clean",
                       "infected", "remove", "copy", "deleted"},
           Go(a, pc)
    PROVE  Kept /\ wf' = wf /\ att' = [att EXCEPT ![a].pc = pc]
<1>1. wf' = wf /\ att' = [att EXCEPT ![a].pc = pc]
    BY DEF Go
<1>2. att' \in [Attempts -> Attempt]
    BY <1>1 DEF Base, TypeOK, Attempt
<1>3. \A b \in Attempts : att'[b].phase = att[b].phase
    BY <1>1 DEF Base, TypeOK, Attempt
<1>4. Awaited'
    BY <1>1, <1>3 DEF Base, TypeOK, Awaited, Workflow
<1> QED BY <1>1, <1>2, <1>4 DEF Kept, Base, TypeOK

\* Nothing an attempt or a workflow relies on is taken away.
Grows == /\ session.verified # 0 => session'.verified # 0
         /\ session.payload # 0 => session'.payload # 0
         /\ \A c : Chosen(c) => Chosen(c)'

LEMMA HoldsOn ==
    ASSUME Base, Grows, NEW b \in Attempts, att'[b] = att[b] \/ att'[b] = Idle
    PROVE  Holds(b)'
BY NoneAssumption DEF Base, Grows, Chosen, Holds, At, Idle, Of, Phases

LEMMA EndHolds ==
    ASSUME Base, Grows, NEW a \in Attempts, att' = [att EXCEPT ![a] = Idle]
    PROVE  \A b \in Attempts : Holds(b)'
BY HoldsOn DEF Base, TypeOK

LEMMA GoHolds ==
    ASSUME Base, Grows, NEW a \in Attempts, NEW pc, att' = [att EXCEPT ![a].pc = pc],
           att[a].phase = "verify" => pc \in {"head", "reject"}
                                      \/ (pc = "record" /\ att[a].pc = "hash")
    PROVE  \A b \in Attempts : Holds(b)'
<1>1. ASSUME NEW b \in Attempts, b # a PROVE Holds(b)'
    BY <1>1, HoldsOn DEF Base, TypeOK
<1>2. att'[a].phase = att[a].phase /\ att'[a].pc = pc /\ att'[a].seen = att[a].seen
    BY DEF Base, TypeOK, Attempt
<1>3. Holds(a)'
    BY <1>2 DEF Base, Grows, Holds, At
<1> QED BY <1>1, <1>3

\* A step in which the workflows stay, or one of them is reported to without news.
LEMMA StaysTold ==
    ASSUME Base, Grows, Claims(session'), launch'["finalize"] = launch["finalize"],
           NEW a \in Attempts, NEW result, NEW given,
           wf' = wf \/ (Advances(a, result, given) /\ result # "ok")
    PROVE  Told'
BY DEF Base, Grows, Told, Claims, Advances, Flows

LEMMA TypedStep ==
    ASSUME Base, Kept, UNCHANGED <<verdict, staging>>,
           session' \in Session, bound' \in Copies \cup {0}, removed' \subseteq Uploads,
           copies' \in [Copies -> Uploads \cup {0}], dropped' \subseteq Copies,
           quarantine' \in Uploads \cup {0}, launch' \in [Flows -> BOOLEAN],
           cancelling' \in BOOLEAN, lost' \in 0 .. MaxLost, timeouts' \in 0 .. MaxTimeouts
    PROVE  TypeOK'
BY DEF Base, TypeOK, Kept

-----------------------------------------------------------------------------
(* Each action keeps the state typed and what is relied on in order. *)

LEMMA VerificationBase ==
    ASSUME Base, NEW a \in Attempts, Verification(a)
    PROVE  Base'
<1> USE DEF Base, TypeOK, bounds, store
<1> Claims(session)
    BY DEF Told
<1> 0 \in Copies \cup {0}
    OBVIOUS
<1>1. CASE MoveToVerifying(a)
  <2>1. /\ UNCHANGED <<bound, store, launch, cancelling, bounds>>
        /\ session' \in Session /\ session'.verified = session.verified
        /\ session'.payload = session.payload /\ Claims(session')
        /\ \/ End(a, "stop") \/ End(a, "fatal")
           \/ Go(a, "head")
      BY <1>1 DEF MoveToVerifying, Session, State, Told, Claims
  <2>2. Grows
      BY <2>1 DEF Grows, Chosen
  <2>3. ASSUME NEW result \in {"stop", "fatal"}, End(a, result) PROVE Base'
    <3>1. Kept /\ Advances(a, result, 0) /\ att' = [att EXCEPT ![a] = Idle]
        BY <2>3, EndKept DEF End
    <3> QED BY <2>1, <2>2, <3>1, EndHolds, StaysTold, TypedStep DEF Kept
  <2>4. CASE Go(a, "head")
    <3>1. Kept /\ wf' = wf /\ att' = [att EXCEPT ![a].pc = "head"]
        BY <2>4, GoKept
    <3> QED BY <2>1, <2>2, <3>1, GoHolds, StaysTold, TypedStep DEF Kept
  <2> QED BY <2>1, <2>3, <2>4
<1>2. CASE HeadStaging(a)
  <2> PICK v \in Uploads \cup {0} :
          att' = [att EXCEPT ![a].pc = IF v = 0 THEN "reject" ELSE "hash", ![a].seen = v]
      BY <1>2 DEF HeadStaging
  <2>1. UNCHANGED <<session, bound, store, temporal, bounds>> /\ att[a].phase = "verify"
      BY <1>2 DEF HeadStaging, At
  <2>2. Grows
      BY <2>1 DEF Grows, Chosen
  <2>3. /\ att'[a].phase = att[a].phase /\ att'[a].seen = v
        /\ att'[a].pc = (IF v = 0 THEN "reject" ELSE "hash")
        /\ att' \in [Attempts -> Attempt]
        /\ \A b \in Attempts : att'[b].phase = att[b].phase
        /\ \A b \in Attempts : b # a => att'[b] = att[b]
    <3> DEFINE new == [att[a] EXCEPT !.pc = IF v = 0 THEN "reject" ELSE "hash", !.seen = v]
    <3>1. att' = [att EXCEPT ![a] = new]
        OBVIOUS
    <3>3. v \in Nat /\ att[a] \in Attempt
        BY Bounds DEF Uploads
    <3>4. (IF v = 0 THEN "reject" ELSE "hash") \in {"reject", "hash"}
        OBVIOUS
    <3>2. /\ new \in Attempt /\ new.phase = att[a].phase /\ new.seen = v
          /\ new.pc = (IF v = 0 THEN "reject" ELSE "hash")
        BY <3>3, <3>4 DEF Attempt
    <3> HIDE DEF new
    <3> QED BY <3>1, <3>2
  <2>4. Awaited'
      BY <2>1, <2>3 DEF Awaited, Workflow, temporal
  <2>5. \A b \in Attempts : Holds(b)'
    <3>1. ASSUME NEW b \in Attempts, b # a PROVE Holds(b)'
        BY <2>2, <2>3, <3>1, HoldsOn
    <3>2. Holds(a)'
        BY <2>1, <2>3 DEF Holds, At, Of
    <3> QED BY <3>1, <3>2
  <2> QED BY <2>1, <2>3, <2>4, <2>5 DEF Told, Claims, Chosen, temporal
<1>3. CASE HashStaging(a)
  <2>1. /\ UNCHANGED <<session, bound, store, launch, cancelling, bounds>>
        /\ att[a].phase = "verify" /\ att[a].pc = "hash"
        /\ Go(a, "record") \/ Go(a, "reject")
      BY <1>3 DEF HashStaging, At
  <2>2. Grows
      BY <2>1 DEF Grows, Chosen
  <2>3. ASSUME NEW pc \in {"record", "reject"}, Go(a, pc) PROVE Base'
    <3>1. Kept /\ wf' = wf /\ att' = [att EXCEPT ![a].pc = pc]
        BY <2>3, GoKept
    <3> QED BY <2>1, <2>2, <3>1, GoHolds, StaysTold, TypedStep DEF Kept
  <2> QED BY <2>1, <2>3
<1>4. CASE RejectUpload(a)
  <2>1. /\ UNCHANGED <<bound, store, launch, cancelling, bounds>> /\ End(a, "fatal")
        /\ session' \in Session /\ session'.verified = session.verified
        /\ session'.payload = session.payload /\ Claims(session')
      BY <1>4 DEF RejectUpload, Rejected, Session, State, Told, Claims
  <2>2. Grows
      BY <2>1 DEF Grows, Chosen
  <2>3. Kept /\ Advances(a, "fatal", 0) /\ att' = [att EXCEPT ![a] = Idle]
      BY <2>1, EndKept DEF End
  <2>4. Told'
      BY <2>1, <2>2, <2>3, StaysTold
  <2>5. \A b \in Attempts : Holds(b)'
      BY <2>2, <2>3, EndHolds
  <2> QED BY <2>1, <2>3, <2>4, <2>5, TypedStep DEF Kept
<1>5. CASE RecordVerified(a)
  <2>1. att[a].seen \in Uploads /\ att[a].seen # 0
      BY <1>5 DEF RecordVerified, Holds, At, Uploads
  <2>2. /\ UNCHANGED <<bound, store, launch, cancelling, bounds>>
        /\ session' \in Session
        /\ session'.verified # session.verified => session'.verified # 0
        /\ session'.payload = session.payload /\ Claims(session')
        /\ \/ End(a, "stop")
           \/ End(a, "ok") /\ session'.verified # 0
      BY <1>5, <2>1 DEF RecordVerified, Session, State, Told, Claims
  <2>3. Grows
      BY <2>2 DEF Grows, Chosen
  <2>4. att[a].phase = "verify"
      BY <1>5 DEF RecordVerified, At
  <2>5. ASSUME NEW result \in {"stop", "ok"}, End(a, result),
               result = "ok" => session'.verified # 0
        PROVE  Base'
    <3>1. Kept /\ Advances(a, result, 0) /\ att' = [att EXCEPT ![a] = Idle]
        BY <2>5, EndKept DEF End
    <3>2. Told'
        BY <2>2, <2>3, <2>4, <2>5, <3>1 DEF Advances, Told, Claims, Grows, Chosen, Flows
    <3> QED BY <2>2, <2>3, <3>1, <3>2, EndHolds, TypedStep DEF Kept
  <2> QED BY <2>2, <2>5
<1> QED BY <1>1, <1>2, <1>3, <1>4, <1>5 DEF Verification

LEMMA ScanningBase ==
    ASSUME Base, NEW a \in Attempts, Scanning(a)
    PROVE  Base'
<1> USE DEF Base, TypeOK, bounds, store
<1> Claims(session)
    BY DEF Told
<1> DEFINE Results == {"ok", "fatal"}
           Pcs == {"read", "remove", "refuse", "clean", "infected", "record"}
<1>1. att[a].phase \in {"scan", "fail_scan"}
    BY DEF Scanning, StartScan, ScanStaging, FailScan, RecordClean, QuarantineUpload,
           RecordInfected, RemoveInfected, At
<1>2. att[a].phase = "scan" => session.verified \in Uploads
    BY DEF Holds, Session
<1>3. ASSUME UNCHANGED <<bound, staging, copies, dropped, verdict, launch, cancelling, bounds>>,
             session' \in Session, session'.verified = session.verified,
             session'.payload = session.payload, Claims(session'),
             removed' \subseteq Uploads, quarantine' \in Uploads \cup {0},
             \/ \E result \in Results : End(a, result)
             \/ \E pc \in Pcs : Go(a, pc)
      PROVE  Base'
  <2>1. Grows
      BY <1>3 DEF Grows, Chosen
  <2>2. ASSUME NEW result \in Results, End(a, result) PROVE Base'
    <3>1. Kept /\ Advances(a, result, 0) /\ att' = [att EXCEPT ![a] = Idle]
        BY <2>2, EndKept DEF End
    <3>2. Told'
        BY <1>1, <1>3, <2>1, <3>1 DEF Advances, Told, Claims, Grows, Flows
    <3> QED BY <1>3, <2>1, <3>1, <3>2, EndHolds, TypedStep DEF Kept
  <2>3. ASSUME NEW pc \in Pcs, Go(a, pc) PROVE Base'
    <3>1. Kept /\ wf' = wf /\ att' = [att EXCEPT ![a].pc = pc]
        BY <2>3, GoKept
    <3> QED BY <1>1, <1>3, <2>1, <3>1, GoHolds, StaysTold, TypedStep DEF Kept
  <2> QED BY <1>3, <2>2, <2>3
<1> HIDE DEF Results, Pcs
<1>4. "ok" \in Results /\ "fatal" \in Results /\ "read" \in Pcs /\ "remove" \in Pcs
      /\ "refuse" \in Pcs /\ "clean" \in Pcs /\ "infected" \in Pcs /\ "record" \in Pcs
    BY DEF Results, Pcs
<1>5. CASE StartScan(a)
    BY <1>3, <1>4, <1>5 DEF StartScan
<1>6. CASE ScanStaging(a)
  <2> PICK v \in Uploads \cup {0} :
          /\ IsNewest(v, Staged)
          /\ (v # 0 /\ Go(a, verdict[staging[v]])) \/ Go(a, "refuse")
      BY <1>6 DEF ScanStaging
  <2>1. v # 0 => verdict[staging[v]] \in Pcs
      BY <1>4 DEF IsNewest, Staged
  <2> QED BY <1>3, <1>4, <1>6, <2>1 DEF ScanStaging
<1>7. CASE FailScan(a)
  <2>1. session' \in Session /\ session'.verified = session.verified
        /\ session'.payload = session.payload /\ Claims(session')
      BY <1>7 DEF FailScan, FailedScan, Session, State, Told, Claims
  <2> QED BY <1>3, <1>4, <1>7, <2>1 DEF FailScan
<1>8. CASE RecordClean(a)
  <2>1. session' \in Session /\ session'.verified = session.verified
        /\ session'.payload = session.payload /\ Claims(session')
    <3>1. session.verified # 0
        BY <1>2, <1>8 DEF RecordClean, At, Uploads
    <3>2. CASE session' = session
        BY <3>2
    <3>3. CASE session' = [session EXCEPT !.state = "ready_to_finalize", !.scan = "clean"]
        BY <3>1, <3>3 DEF Session, State, Claims
    <3> QED BY <1>8, <3>2, <3>3 DEF RecordClean
  <2> QED BY <1>3, <1>4, <1>8, <2>1 DEF RecordClean
<1>9. CASE QuarantineUpload(a)
  <2>1. quarantine' \in Uploads \cup {0} /\ (Go(a, "record") \/ End(a, "fatal"))
      BY <1>9 DEF QuarantineUpload, Isolate, Session
  <2> QED BY <1>3, <1>4, <1>9, <2>1 DEF QuarantineUpload
<1>10. CASE RecordInfected(a)
  <2>1. session' \in Session /\ session'.verified = session.verified
        /\ session'.payload = session.payload /\ Claims(session')
      BY <1>10 DEF RecordInfected, Session, State, Told, Claims
  <2> QED BY <1>3, <1>4, <1>10, <2>1 DEF RecordInfected
<1>11. CASE RemoveInfected(a)
  <2>1. removed' \subseteq Uploads
      BY <1>2, <1>11 DEF RemoveInfected, At
  <2> QED BY <1>3, <1>4, <1>11, <2>1 DEF RemoveInfected
<1> QED BY <1>5, <1>6, <1>7, <1>8, <1>9, <1>10, <1>11 DEF Scanning

LEMMA FinalizationBase ==
    ASSUME Base, NEW a \in Attempts, Finalization(a)
    PROVE  Base'
<1> USE DEF Base, TypeOK, bounds, store
<1> Claims(session)
    BY DEF Told
<1> DEFINE Results == {"ok", "fatal"}
           Pcs == {"copy", "record", "deleted"}
<1>1. att[a].phase \in Of("finalize")
    BY DEF Finalization, HeadDestination, CopyVerified, Commit, DeleteStaged, RecordCleanup,
           MarkCleanupFailed, FailFinalization, CompensateDelete, CompensateMark, At, Of
<1>2. ASSUME UNCHANGED <<staging, quarantine, verdict, launch, cancelling, bounds>>,
             session' \in Session, session'.verified = session.verified,
             session'.payload = session.payload, Claims(session'),
             bound' \in Copies \cup {0}, removed' \subseteq Uploads,
             copies' \in [Copies -> Uploads \cup {0}], dropped' \subseteq Copies,
             \A c : Chosen(c) => Chosen(c)',
             \/ \E result \in Results, given \in Copies \cup {0} :
                   /\ EndWith(a, result, given)
                   /\ att[a].phase = "promote" /\ result = "ok" => Chosen(given)'
             \/ \E pc \in Pcs : Go(a, pc)
      PROVE  Base'
  <2>1. Grows
      BY <1>2 DEF Grows
  <2>2. ASSUME NEW result \in Results, NEW given \in Copies \cup {0},
               EndWith(a, result, given),
               att[a].phase = "promote" /\ result = "ok" => Chosen(given)'
        PROVE  Base'
    <3>1. Kept /\ Advances(a, result, given) /\ att' = [att EXCEPT ![a] = Idle]
        BY <2>2, EndKept
    <3>2. Told'
        BY <1>1, <1>2, <2>1, <2>2, <3>1 DEF Advances, Told, Claims, Grows, Of, Flows
    <3> QED BY <1>2, <2>1, <3>1, <3>2, EndHolds, TypedStep DEF Kept
  <2>3. ASSUME NEW pc \in Pcs, Go(a, pc) PROVE Base'
    <3>1. Kept /\ wf' = wf /\ att' = [att EXCEPT ![a].pc = pc]
        BY <2>3, GoKept
    <3>2. att[a].phase # "verify"
        BY <1>1 DEF Of
    <3>3. Told'
        BY <1>2, <2>1, <3>1 DEF Told, Claims, Grows
    <3> QED BY <1>2, <2>1, <3>1, <3>2, <3>3, GoHolds, TypedStep DEF Kept
  <2> QED BY <1>2, <2>2, <2>3
<1>3. ASSUME UNCHANGED <<staging, quarantine, verdict, launch, cancelling, bounds>>,
             session' \in Session, session'.verified = session.verified,
             session'.payload = session.payload, Claims(session'),
             bound' \in Copies \cup {0}, removed' \subseteq Uploads,
             copies' = copies, dropped' \subseteq Copies, att[a].phase # "promote",
             \/ End(a, "ok") \/ End(a, "fatal")
             \/ Go(a, "record") \/ Go(a, "deleted")
      PROVE  Base'
  <2>1. \A c : Chosen(c) => Chosen(c)'
      BY <1>3 DEF Chosen
  <2> QED BY <1>2, <1>3, <2>1 DEF End
<1> HIDE DEF Results, Pcs
<1>4. CASE HeadDestination(a)
  <2> PICK c \in Copies \cup {0} :
          IsNewest(c, Promoted) /\ IF c # 0 THEN EndWith(a, "ok", c) ELSE Go(a, "copy")
      BY <1>4 DEF HeadDestination
  <2>1. UNCHANGED <<session, bound, store, launch, cancelling, bounds>>
      BY <1>4 DEF HeadDestination
  <2>2. \A d : Chosen(d) => Chosen(d)'
      BY <2>1 DEF Chosen
  <2>3. c # 0 => Chosen(c)'
      BY <2>1 DEF IsNewest, Promoted, Chosen
  <2>4. "ok" \in Results /\ "copy" \in Pcs
      BY DEF Results, Pcs
  <2> QED BY <1>2, <2>1, <2>2, <2>3, <2>4
<1>5. CASE CopyVerified(a)
  <2> PICK v \in Uploads \cup {0} :
          \/ Exact(v) /\ \E c \in Copies :
                /\ copies[c] = 0 /\ copies' = [copies EXCEPT ![c] = v]
                /\ EndWith(a, "ok", c)
          \/ ~Exact(v) /\ End(a, "fatal") /\ UNCHANGED copies
      BY <1>5 DEF CopyVerified
  <2>1. /\ UNCHANGED <<session, bound, staging, removed, dropped, quarantine, verdict,
                       launch, cancelling, bounds>>
        /\ "ok" \in Results /\ "fatal" \in Results
      BY <1>5 DEF CopyVerified, Results
  <2>2. session.payload # 0
      BY <1>1 DEF Holds
  <2>3. CASE ~Exact(v) /\ End(a, "fatal") /\ UNCHANGED copies
    <3>1. \A c : Chosen(c) => Chosen(c)'
        BY <2>3 DEF Chosen
    <3> QED BY <1>2, <2>1, <2>3, <3>1 DEF End, Told, Claims
  <2>4. ASSUME NEW c \in Copies, Exact(v), copies[c] = 0, copies' = [copies EXCEPT ![c] = v],
               EndWith(a, "ok", c)
        PROVE  Base'
    <3>1. v # 0 /\ Chosen(c)' /\ copies' \in [Copies -> Uploads \cup {0}]
        BY <2>2, <2>4 DEF Exact, Chosen
    <3>2. \A d : Chosen(d) => Chosen(d)'
        BY <2>4 DEF Chosen
    <3> QED BY <1>2, <2>1, <2>4, <3>1, <3>2 DEF Told, Claims
  <2> QED BY <2>3, <2>4
<1>6. CASE Commit(a)
  <2>1. bound' \in Copies \cup {0} /\ att[a].phase # "promote"
      BY <1>6 DEF Commit, At, Holds, Chosen
  <2>2. session' \in Session /\ session'.verified = session.verified
        /\ session'.payload = session.payload /\ Claims(session')
      BY <1>6 DEF Commit, Session, State, Told, Claims
  <2> QED BY <1>3, <1>6, <2>1, <2>2 DEF Commit
<1>7. CASE DeleteStaged(a)
    BY <1>3, <1>7 DEF DeleteStaged, At
<1>8. CASE RecordCleanup(a)
  <2>1. session' \in Session /\ session'.verified = session.verified
        /\ session'.payload = session.payload /\ Claims(session')
      BY <1>8 DEF RecordCleanup, Session, State, Told, Claims
  <2> QED BY <1>3, <1>8, <2>1 DEF RecordCleanup, At
<1>9. CASE MarkCleanupFailed(a)
  <2>1. session' \in Session /\ session'.verified = session.verified
        /\ session'.payload = session.payload /\ Claims(session')
      BY <1>9 DEF MarkCleanupFailed, Session, State, Told, Claims
  <2> QED BY <1>3, <1>9, <2>1 DEF MarkCleanupFailed, At
<1>10. CASE FailFinalization(a)
  <2>1. session' \in Session /\ session'.verified = session.verified
        /\ session'.payload = session.payload /\ Claims(session')
      BY <1>10 DEF FailFinalization, FinalizationFailed, Session, State, Told, Claims
  <2> QED BY <1>3, <1>10, <2>1 DEF FailFinalization, At
<1>11. CASE CompensateDelete(a)
  <2>1. dropped' \subseteq Copies
      BY <1>11 DEF CompensateDelete, At, Holds, Chosen
  <2> QED BY <1>3, <1>11, <2>1 DEF CompensateDelete, At
<1>12. CASE CompensateMark(a)
  <2>1. session' \in Session /\ session'.verified = session.verified
        /\ session'.payload = session.payload /\ Claims(session')
      BY <1>12 DEF CompensateMark, FinalizationFailed, Session, State, Told, Claims
  <2> QED BY <1>3, <1>12, <2>1 DEF CompensateMark, At
<1> QED BY <1>4, <1>5, <1>6, <1>7, <1>8, <1>9, <1>10, <1>11, <1>12 DEF Finalization

\* A step of the API or of Temporal, which leaves the attempts' business alone.
LEMMA OutsideBase ==
    ASSUME Base, Kept, Grows, UNCHANGED <<bound, removed, copies, dropped, quarantine, verdict>>,
           session' \in Session, staging' \in [Uploads -> Bytes \cup {"absent"}],
           launch' \in [Flows -> BOOLEAN], cancelling' \in BOOLEAN,
           lost' \in 0 .. MaxLost, timeouts' \in 0 .. MaxTimeouts,
           Told', \A a \in Attempts : Holds(a)'
    PROVE  Base'
BY DEF Base, TypeOK, Kept

LEMMA RowBase ==
    ASSUME Base, UNCHANGED <<bound, store, wf, att, bounds>>,
           session' \in Session, session'.verified = session.verified, Claims(session'),
           session.payload # 0 => session'.payload # 0,
           launch' \in [Flows -> BOOLEAN], cancelling' \in BOOLEAN,
           launch'["finalize"] => launch["finalize"] \/ session'.payload # 0
    PROVE  Base'
<1>1. Grows
    BY DEF Grows, Chosen, store
<1>2. Kept
    BY DEF Base, TypeOK, Kept, Awaited
<1>3. Told'
    BY <1>1 DEF Base, Told, Grows, Claims
<1>4. \A a \in Attempts : Holds(a)'
    BY <1>1, HoldsOn
<1> QED BY <1>1, <1>2, <1>3, <1>4, OutsideBase DEF Base, TypeOK, bounds, store

LEMMA ApiBase ==
    ASSUME Base,
           \/ Expire \/ Complete \/ ReplayComplete \/ Cancel \/ RequestFinalize
           \/ ReplayFinalize \/ LoseCancel
    PROVE  Base'
<1> USE DEF Base, TypeOK, bounds, temporal, Flows
<1> Claims(session)
    BY DEF Told
<1>1. CASE Expire
    BY <1>1, RowBase DEF Expire, Session, State, Claims
<1>2. CASE Complete
    BY <1>2, RowBase DEF Complete, Session, State, Claims
<1>3. CASE ReplayComplete
    BY <1>3, RowBase DEF ReplayComplete
<1>4. CASE Cancel
    BY <1>4, RowBase DEF Cancel, Session, State, Claims
<1>5. CASE RequestFinalize
  <2>1. /\ UNCHANGED <<bound, store, cancelling, wf, att, bounds>>
        /\ session' \in Session /\ session'.verified = session.verified /\ Claims(session')
        /\ session'.payload # 0 /\ launch' \in [Flows -> BOOLEAN]
      BY <1>5 DEF RequestFinalize, Session, State, Claims
  <2> QED BY <2>1, RowBase
<1>6. CASE ReplayFinalize
    BY <1>6, RowBase DEF ReplayFinalize
<1>7. CASE LoseCancel
  <2>1. /\ lost < MaxLost /\ lost' = lost + 1 /\ cancelling' = FALSE
        /\ UNCHANGED <<session, bound, store, launch, wf, att, timeouts>>
      BY <1>7 DEF LoseCancel
  <2>2. lost' \in 0 .. MaxLost
      BY <2>1, Bounds
  <2>3. Grows /\ Kept
      BY <2>1 DEF Grows, Kept, Awaited, Chosen, store
  <2>4. Told' /\ \A a \in Attempts : Holds(a)'
      BY <2>1, <2>3, HoldsOn DEF Told, Claims, Chosen, store
  <2> QED BY <2>1, <2>2, <2>3, <2>4, OutsideBase DEF store
<1> QED BY <1>1, <1>2, <1>3, <1>4, <1>5, <1>6, <1>7

LEMMA UploadBase == ASSUME Base, Upload PROVE Base'
<1> USE DEF Base, TypeOK, bounds, temporal
<1> PICK v \in Uploads, bytes \in Bytes : staging' = [staging EXCEPT ![v] = bytes]
    BY DEF Upload
<1>1. /\ UNCHANGED <<session, bound, removed, copies, dropped, quarantine, verdict>>
      /\ UNCHANGED <<temporal, att, bounds>>
    BY DEF Upload
<1>2. Grows /\ Kept
    BY <1>1 DEF Grows, Kept, Awaited, Chosen
<1>3. Told' /\ \A a \in Attempts : Holds(a)'
    BY <1>1, <1>2, HoldsOn DEF Told, Claims, Chosen
<1> QED BY <1>1, <1>2, <1>3, OutsideBase

\* A step of Temporal that changes one workflow, to one that awaits nobody.
LEMMA FlowBase ==
    ASSUME Base, NEW w \in Flows, NEW f \in Runs(w), wf' = [wf EXCEPT ![w] = f], f.cur = None,
           UNCHANGED <<session, bound, store, att, bounds>>,
           launch' \in [Flows -> BOOLEAN], cancelling' \in BOOLEAN,
           launch'["finalize"] => launch["finalize"],
           f.phase \notin {"commit", "compensate"},
           w = "verify" /\ f.phase = "scan" => session.verified # 0,
           w = "finalize" /\ f # Closed => session.payload # 0
    PROVE  Base'
<1> USE DEF Base, TypeOK, bounds, temporal, Flows
<1>1. /\ wf'[w] = f /\ \A u \in Flows : u # w => wf'[u] = wf[u]
      /\ wf' \in [Flows -> Workflow]
    BY DEF Runs
<1>2. Grows
    BY DEF Grows, Chosen, store
<1>3. Awaited'
  <2> SUFFICES ASSUME NEW u \in Flows, wf'[u].cur # None
               PROVE  att'[wf'[u].cur].phase = wf'[u].phase
      BY DEF Awaited
  <2> QED BY <1>1 DEF Awaited
<1>4. Kept
    BY <1>1, <1>3 DEF Kept
<1>5. Told'
    BY <1>1, <1>2 DEF Told, Claims, Grows
<1>6. \A a \in Attempts : Holds(a)'
    BY <1>2, HoldsOn
<1> QED BY <1>2, <1>4, <1>5, <1>6, OutsideBase DEF store

LEMMA TemporalBase ==
    ASSUME Base,
           \/ DeliverCancel
           \/ \E w \in Flows : Launch(w) \/ LoseLaunch(w) \/ Schedule(w)
    PROVE  Base'
<1> USE DEF Base, TypeOK, bounds, temporal
<1>1. CASE DeliverCancel
  <2> DEFINE f == AfterFailure(wf["verify"])
  <2>1. /\ wf' = [wf EXCEPT !["verify"] = f] /\ cancelling' = FALSE
        /\ UNCHANGED <<session, bound, store, launch, att, bounds>>
      BY <1>1 DEF DeliverCancel
  <2>2. f \in Runs("verify") /\ "verify" \in Flows
      BY FailureRuns DEF Flows
  <2>3. f.cur = None /\ f.phase \notin {"scan", "commit", "compensate"}
      BY <2>2 DEF AfterFailure, Open, Closed, Runs, Of
  <2> HIDE DEF f
  <2> QED BY <2>1, <2>2, <2>3, FlowBase
<1>2. ASSUME NEW w \in Flows, Launch(w) PROVE Base'
  <2>1. /\ launch[w] /\ launch' = [launch EXCEPT ![w] = FALSE]
        /\ UNCHANGED <<session, bound, store, cancelling, att, bounds>>
      BY <1>2 DEF Launch
  <2>2. launch' \in [Flows -> BOOLEAN] /\ (launch'["finalize"] => launch["finalize"])
      BY <2>1 DEF Flows
  <2>3. CASE wf[w] # Closed
    <3>1. wf' = wf
        BY <1>2, <2>3 DEF Launch
    <3> QED BY <2>1, <2>2, <3>1, RowBase DEF Told
  <2>4. CASE wf[w] = Closed
    <3> DEFINE f == Open(IF w = "verify" THEN "verify" ELSE "promote", 0)
    <3>1. wf' = [wf EXCEPT ![w] = f]
        BY <1>2, <2>4 DEF Launch
    <3>2. f \in Runs(w)
      <4>1. (IF w = "verify" THEN "verify" ELSE "promote") \in Of(w)
          BY DEF Of
      <4> QED BY <4>1, FreshRuns
    <3>3. f.cur = None /\ f.phase \notin {"scan", "commit", "compensate"}
        BY DEF Open
    <3>4. w = "finalize" => session.payload # 0
        BY <2>1 DEF Told
    <3> HIDE DEF f
    <3> QED BY <2>1, <2>2, <3>1, <3>2, <3>3, <3>4, FlowBase
  <2> QED BY <2>3, <2>4
<1>3. ASSUME NEW w \in Flows, LoseLaunch(w) PROVE Base'
  <2>1. /\ lost < MaxLost /\ lost' = lost + 1 /\ launch' = [launch EXCEPT ![w] = FALSE]
        /\ UNCHANGED <<session, bound, store, cancelling, wf, att, timeouts>>
      BY <1>3 DEF LoseLaunch
  <2>2. lost' \in 0 .. MaxLost
      BY <2>1, Bounds
  <2>3. Grows /\ Kept
      BY <2>1 DEF Grows, Kept, Awaited, Chosen, store
  <2>4. launch' \in [Flows -> BOOLEAN] /\ (launch'["finalize"] => launch["finalize"])
      BY <2>1 DEF Flows
  <2>5. Told' /\ \A a \in Attempts : Holds(a)'
      BY <2>1, <2>3, <2>4, HoldsOn DEF Told, Claims, Chosen, store
  <2> QED BY <2>1, <2>2, <2>3, <2>4, <2>5, OutsideBase DEF store
<1>4. ASSUME NEW w \in Flows, Schedule(w) PROVE Base'
  <2>0. PICK a \in Attempts :
          /\ att[a] = Idle /\ ~Live(a)
          /\ att' = [att EXCEPT ![a] = [Idle EXCEPT !.phase = wf[w].phase, !.seen = wf[w].given]]
          /\ wf' = [wf EXCEPT ![w].cur = a, ![w].tries = @ + 1]
      BY <1>4 DEF Schedule
  <2>1. /\ wf[w] # Closed /\ wf[w].cur = None
        /\ UNCHANGED <<session, bound, store, launch, cancelling, bounds>>
      BY <1>4 DEF Schedule
  <2> DEFINE f == [wf[w] EXCEPT !.cur = a, !.tries = @ + 1]
             n == [Idle EXCEPT !.phase = wf[w].phase, !.seen = wf[w].given]
  <2>2. wf[w].tries \in 0 .. MaxTries /\ wf[w].tries < MaxTries /\ wf[w] \in Workflow
      BY <2>1 DEF Runs, Workflow
  <2>3. wf[w].tries + 1 \in 0 .. MaxTries
      BY <2>2, Bounds
  <2>4. wf[w].phase \in Of(w) /\ wf[w].phase # "closed" /\ wf[w].phase \in Phases
      BY <2>1 DEF Runs, Of, Phases
  <2>5. /\ f \in Workflow /\ f.phase = wf[w].phase /\ f.cur = a /\ f.given = wf[w].given
      BY <2>2, <2>3 DEF Workflow
  <2>6. f \in Runs(w) /\ f # Closed
      BY <2>4, <2>5, NoneAssumption DEF Runs, Closed
  <2>7. wf[w].given \in Nat
      BY Bounds DEF Workflow, Copies
  <2>8. n \in Attempt /\ n.phase = wf[w].phase /\ n.pc = "begin" /\ n.seen = wf[w].given
      BY <2>4, <2>7 DEF Idle, Attempt
  <2>9. wf' = [wf EXCEPT ![w] = f] /\ att' = [att EXCEPT ![a] = n]
      BY <2>0
  <2> HIDE DEF f, n
  <2>10. Kept
    <3>1. wf' \in [Flows -> Workflow] /\ att' \in [Attempts -> Attempt]
        BY <2>5, <2>8, <2>9
    <3>2. \A u \in Flows : wf'[u] \in Runs(u)
        BY <2>6, <2>9
    <3>3. Awaited'
      <4> SUFFICES ASSUME NEW u \in Flows, wf'[u].cur # None
                   PROVE  att'[wf'[u].cur].phase = wf'[u].phase
          BY DEF Awaited
      <4>1. CASE u = w
          BY <2>5, <2>8, <2>9, <4>1
      <4>2. CASE u # w
        <5>1. wf'[u] = wf[u] /\ wf[u].cur # a /\ wf[u].cur \in Attempts
            BY <2>0, <2>9, <4>2 DEF Live, Workflow
        <5> QED BY <2>9, <5>1 DEF Awaited
      <4> QED BY <4>1, <4>2
    <3> QED BY <3>1, <3>2, <3>3 DEF Kept
  <2>11. Grows
      BY <2>1 DEF Grows, Chosen, store
  <2>12. Told'
      BY <2>1, <2>5, <2>6, <2>9, <2>11 DEF Told, Claims, Chosen, Grows, Flows
  <2>13. \A b \in Attempts : Holds(b)'
    <3>1. ASSUME NEW b \in Attempts, b # a PROVE Holds(b)'
        BY <2>9, <2>11, <3>1, HoldsOn
    <3>2. Holds(a)'
      <4>1. wf[w].phase = "scan" => session.verified # 0
          BY <2>4 DEF Told, Of, Flows
      <4>2. wf[w].phase \in {"commit", "compensate"} => Chosen(wf[w].given)
          BY <2>4 DEF Told, Of, Flows
      <4>3. wf[w].phase \in Of("finalize") => session.payload # 0
          BY <2>1, <2>4 DEF Told, Of, Flows
      <4>4. att'[a] = n
          BY <2>9
      <4> QED BY <2>1, <2>8, <2>11, <4>1, <4>2, <4>3, <4>4 DEF Holds, At, Grows
    <3> QED BY <3>1, <3>2
  <2> QED BY <2>1, <2>10, <2>11, <2>12, <2>13, OutsideBase DEF store
<1> QED BY <1>1, <1>2, <1>3, <1>4

LEMMA FaultBase ==
    ASSUME Base, NEW a \in Attempts, AttemptLost(a) \/ Timeout(a) \/ ZombieEnds(a)
    PROVE  Base'
<1> USE DEF Base, TypeOK, bounds, temporal
<1> 0 \in Copies \cup {0}
    OBVIOUS
<1>1. CASE AttemptLost(a)
  <2>1. /\ lost < MaxLost /\ lost' = lost + 1 /\ EndWith(a, "retry", 0)
        /\ UNCHANGED <<session, bound, store, launch, cancelling, timeouts>>
      BY <1>1 DEF AttemptLost, End
  <2>2. lost' \in 0 .. MaxLost
      BY <2>1, Bounds
  <2>3. Grows
      BY <2>1 DEF Grows, Chosen, store
  <2>4. Kept /\ Advances(a, "retry", 0) /\ att' = [att EXCEPT ![a] = Idle]
      BY <2>1, EndKept
  <2>5. Told'
      BY <2>1, <2>3, <2>4, StaysTold DEF Told
  <2>6. \A b \in Attempts : Holds(b)'
      BY <2>3, <2>4, EndHolds
  <2> QED BY <2>1, <2>2, <2>3, <2>4, <2>5, <2>6, OutsideBase DEF store
<1>2. CASE Timeout(a)
  <2>1. /\ timeouts < MaxTimeouts /\ timeouts' = timeouts + 1 /\ Report(a, "retry", 0)
        /\ UNCHANGED <<session, bound, store, launch, cancelling, att, lost>>
      BY <1>2 DEF Timeout
  <2>2. timeouts' \in 0 .. MaxTimeouts
      BY <2>1, Bounds
  <2>3. Grows
      BY <2>1 DEF Grows, Chosen, store
  <2>4. /\ \A w \in Flows : wf'[w] \in Runs(w)
        /\ wf' \in [Flows -> Workflow] /\ Advances(a, "retry", 0)
      BY <2>1, ReportAdvances
  <2>5. Kept
      BY <2>1, <2>4 DEF Kept, Awaited, Advances
  <2>6. Told'
      BY <2>1, <2>3, <2>4, StaysTold DEF Told
  <2>7. \A b \in Attempts : Holds(b)'
      BY <2>1, <2>3, HoldsOn
  <2> QED BY <2>1, <2>2, <2>3, <2>5, <2>6, <2>7, OutsideBase DEF store
<1>3. CASE ZombieEnds(a)
  <2>1. /\ ~Live(a) /\ att' = [att EXCEPT ![a] = Idle]
        /\ UNCHANGED <<session, bound, store, temporal, bounds>>
      BY <1>3 DEF ZombieEnds
  <2>2. Grows
      BY <2>1 DEF Grows, Chosen, store
  <2>3. att' \in [Attempts -> Attempt]
      BY <2>1 DEF Idle, Attempt
  <2>4. Awaited'
    <3> SUFFICES ASSUME NEW w \in Flows, wf'[w].cur # None
                 PROVE  att'[wf'[w].cur].phase = wf'[w].phase
        BY DEF Awaited
    <3>1. wf'[w] = wf[w] /\ wf[w].cur # a /\ wf[w].cur \in Attempts
        BY <2>1 DEF Live, Workflow
    <3> QED BY <2>1, <3>1 DEF Awaited
  <2>5. Kept
      BY <2>1, <2>3, <2>4 DEF Kept
  <2>6. Told'
      BY <2>1, <2>2 DEF Told, Claims, Chosen, store
  <2>7. \A b \in Attempts : Holds(b)'
      BY <2>1, <2>2, EndHolds
  <2> QED BY <2>1, <2>2, <2>5, <2>6, <2>7, OutsideBase DEF store
<1> QED BY <1>1, <1>2, <1>3

LEMMA InitBase == Init => Base
<1> SUFFICES ASSUME Init PROVE Base
    OBVIOUS
<1>1. session \in Session
    BY DEF Init, Session, State
<1>2. Closed \in Workflow /\ Idle \in Attempt
    BY Bounds DEF Closed, Workflow, Idle, Attempt
<1>3. TypeOK
  <2>1. wf \in [Flows -> Workflow] /\ att \in [Attempts -> Attempt]
      BY <1>2 DEF Init
  <2>2. /\ bound \in Copies \cup {0} /\ removed \subseteq Uploads /\ dropped \subseteq Copies
        /\ staging \in [Uploads -> Bytes \cup {"absent"}]
        /\ copies \in [Copies -> Uploads \cup {0}] /\ quarantine \in Uploads \cup {0}
      BY DEF Init
  <2>3. verdict \in [Bytes -> {"clean", "infected"}]
      BY DEF Init
  <2>4. launch \in [Flows -> BOOLEAN] /\ cancelling \in BOOLEAN
      BY DEF Init
  <2>5. lost \in 0 .. MaxLost /\ timeouts \in 0 .. MaxTimeouts
      BY Bounds DEF Init
  <2> QED BY <1>1, <2>1, <2>2, <2>3, <2>4, <2>5 DEF TypeOK
<1>4. Awaited /\ Told
    BY DEF Init, Awaited, Told, Claims, Closed, Flows
<1>5. \A a \in Attempts : Holds(a)
    BY NoneAssumption DEF Init, Holds, At, Idle, Of, Phases
<1> QED BY <1>3, <1>4, <1>5, FreshRuns DEF Init, Base

LEMMA StepBase == Base /\ [Next]_vars => Base'
<1> SUFFICES ASSUME Base, [Next]_vars PROVE Base'
    OBVIOUS
<1>1. CASE UNCHANGED vars
  <2>1. UNCHANGED <<session, bound, store, temporal, att, bounds>>
      BY <1>1 DEF vars
  <2>2. UNCHANGED <<bound, store, wf, att, bounds>> /\ session' = session
        /\ launch' = launch /\ cancelling' = cancelling
      BY <2>1 DEF temporal
  <2> QED BY <2>2, RowBase DEF Base, TypeOK, Told
<1>2. ASSUME NEW a \in Attempts, Activity(a) PROVE Base'
    BY <1>2, VerificationBase, ScanningBase, FinalizationBase DEF Activity
<1> QED BY <1>1, <1>2, ApiBase, UploadBase, TemporalBase, FaultBase DEF Next

LEMMA BaseHolds == Spec => []Base
BY InitBase, StepBase, PTL DEF Spec

\* asset_uploads.py, asset_verification_activity.py, asset_scan_activity.py,
\* asset_finalization.py, asset_finalization_activity.py: whatever calls, attempts and
\* faults follow one another, rows, stores and workflows keep their types, whether or not
\* finalization is asked for early or a compensation is torn.
THEOREM TypeCorrect == Spec => []TypeOK
<1>1. Base => TypeOK
    BY DEF Base
<1> QED BY <1>1, BaseHolds, PTL
-----------------------------------------------------------------------------
(* What lasts whatever the flags are: the bytes.  Many attempts of both     *)
(* workflows may be at work, late or twice, on one session.                 *)

\* The hash vouches for a version, unless a newer one was posted since: then the
\* version is not the newest, and what is not the newest is not copied.
Vouched(v) ==
    \/ quarantine # 0
    \/ staging[v] = "intact"
    \/ \E u \in Uploads : v < u /\ staging[u] # "absent"

\* The declared bytes are kept.
Saved ==
    \/ staging[quarantine] = "intact"
    \/ bound # 0 /\ staging[copies[bound]] = "intact"

\* What the store holds of what was declared, before and after it is promoted.
Stored ==
    /\ quarantine # 0 => Saved
    /\ session.state = "quarantined" => quarantine # 0
    /\ session.verified # 0 => Vouched(session.verified)
    /\ session.payload # 0 => Vouched(session.payload)
    /\ quarantine = 0 => removed \subseteq {session.payload}
    /\ quarantine = 0 /\ removed # {} => bound # 0

Copied == \A c \in Copies : copies[c] # 0 =>
    /\ copies[c] = session.payload
    /\ quarantine = 0 => staging[session.payload] = "intact"

\* Who says that a file is bound, or that its clean-up is done.
Bound ==
    /\ CleanupIsDone
    /\ bound # 0 => copies[bound] # 0
    /\ session.state = "finalized" => bound # 0
    /\ wf["finalize"].phase \in {"cleanup", "mark"} => bound # 0

\* What an attempt may rely on.
Safely(a) ==
    /\ att[a].phase \in {"cleanup", "mark"} => bound # 0
    /\ At(a, "cleanup", "record") => session.payload \in removed
    /\ At(a, "scan", "record") \/ At(a, "scan", "remove") => quarantine # 0
    /\ At(a, "verify", "hash") => staging[att[a].seen] # "absent"
    /\ At(a, "verify", "record") => Vouched(att[a].seen)

LInv == /\ Base /\ Stored /\ Copied /\ Bound
        /\ \A a \in Attempts : Safely(a)

LEMMA NothingYet ==
    ASSUME LInv, session.payload = 0
    PROVE  /\ bound = 0 /\ \A c \in Copies : copies[c] = 0
           /\ quarantine = 0 => removed = {}
           /\ session.payload \notin removed /\ session.cleanup # "complete"
<1>1. removed \subseteq Uploads /\ 0 \notin Uploads
    BY DEF LInv, Base, TypeOK, Uploads
<1>2. \A c \in Copies : copies[c] = 0
    BY DEF LInv, Copied
<1>3. bound = 0
    BY <1>2 DEF LInv, Base, TypeOK, Bound
<1> QED BY <1>1, <1>2, <1>3 DEF LInv, Bound, CleanupIsDone, Stored

\* A version that has been removed and is not in quarantine is the one that is bound.
LEMMA GoneIsBound ==
    ASSUME LInv, quarantine = 0, NEW v \in removed
    PROVE  /\ v = session.payload /\ bound # 0
           /\ copies[bound] = v /\ staging[v] = "intact"
<1>1. v = session.payload /\ bound # 0
    BY DEF LInv, Stored
<1>2. bound \in Copies /\ copies[bound] # 0
    BY <1>1 DEF LInv, Base, TypeOK, Bound
<1> QED BY <1>1, <1>2 DEF LInv, Copied

LEMMA NewestIsLast ==
    ASSUME TypeOK, NEW v \in Uploads \cup {0}, IsNewest(v, Staged),
           NEW u \in Uploads, staging[u] # "absent", u \notin removed
    PROVE  v # 0 /\ u <= v
BY Bounds DEF IsNewest, Staged, Uploads

LEMMA IdleSafely == ASSUME NEW a \in Attempts, att'[a] = Idle PROVE Safely(a)'
BY NoneAssumption DEF Safely, At, Idle, Phases

\* What the others rely on is not taken away.
Spares == /\ staging' = staging /\ removed \subseteq removed'
          /\ quarantine # 0 => quarantine' # 0
          /\ bound # 0 => bound' # 0
          /\ session'.payload = session.payload

LEMMA OthersSafely ==
    ASSUME LInv, Spares, NEW a \in Attempts, Safely(a)',
           \A b \in Attempts : b # a => att'[b] = att[b]
    PROVE  \A b \in Attempts : Safely(b)'
<1> SUFFICES ASSUME NEW b \in Attempts, b # a PROVE Safely(b)'
    OBVIOUS
<1>1. att'[b] = att[b] /\ Safely(b)
    BY DEF LInv
<1> QED BY <1>1 DEF Spares, Safely, At, Vouched

\* What an attempt may write into the session while the bytes stay where they are.
Honest ==
    /\ UNCHANGED <<bound, staging, removed, copies, quarantine>>
    /\ session'.payload = session.payload
    /\ session'.verified # session.verified => Vouched(session'.verified)
    /\ session'.state = "quarantined" => quarantine # 0
    /\ session'.state = "finalized" => bound # 0
    /\ session'.cleanup = "complete" => session.payload \in removed

LEMMA SameIsHonest ==
    ASSUME LInv, session' = session, UNCHANGED <<bound, staging, removed, copies, quarantine>>
    PROVE  Honest
BY DEF LInv, Honest, Stored, Bound, CleanupIsDone

LEMMA HonestLasts ==
    ASSUME LInv, Base', Honest, NEW a \in Attempts, Safely(a)',
           \A b \in Attempts : b # a => att'[b] = att[b],
           wf'["finalize"].phase \in {"cleanup", "mark"} => bound # 0
    PROVE  LInv'
<1>1. \A b \in Attempts : Safely(b)'
    BY OthersSafely DEF Spares, Honest
<1>2. Stored'
    BY DEF LInv, Honest, Stored, Saved, Vouched
<1>3. Copied'
    BY DEF LInv, Honest, Copied
<1>4. Bound'
    BY DEF LInv, Honest, Bound, CleanupIsDone
<1> QED BY <1>1, <1>2, <1>3, <1>4 DEF LInv

\* The two ways on of an attempt that has written honestly.
LEMMA HonestEnd ==
    ASSUME LInv, Base', Honest, NEW a \in Attempts, NEW result,
           NEW given \in Copies \cup {0}, EndWith(a, result, given),
           att[a].phase = "commit" /\ result = "ok" => bound # 0
    PROVE  LInv'
<1>1. Advances(a, result, given) /\ att' = [att EXCEPT ![a] = Idle]
    BY EndKept DEF LInv
<1>2. att'[a] = Idle /\ \A b \in Attempts : b # a => att'[b] = att[b]
    BY <1>1 DEF LInv, Base, TypeOK
<1>3. wf'["finalize"].phase \in {"cleanup", "mark"} => bound # 0
    BY <1>1 DEF Advances, LInv, Bound
<1> QED BY <1>2, <1>3, IdleSafely, HonestLasts

LEMMA HonestGo ==
    ASSUME LInv, Base', Honest, NEW a \in Attempts, NEW pc, Go(a, pc),
           att[a].phase = "verify" /\ pc = "hash" => staging[att[a].seen] # "absent",
           att[a].phase = "verify" /\ pc = "record" => Vouched(att[a].seen),
           att[a].phase = "scan" /\ pc \in {"record", "remove"} => quarantine # 0,
           att[a].phase = "cleanup" /\ pc = "record" => session.payload \in removed
    PROVE  LInv'
<1>1. /\ wf' = wf /\ att'[a].phase = att[a].phase /\ att'[a].pc = pc
      /\ att'[a].seen = att[a].seen /\ \A b \in Attempts : b # a => att'[b] = att[b]
    BY DEF Go, LInv, Base, TypeOK, Attempt
<1>2. att[a].phase \in {"cleanup", "mark"} => bound # 0
    BY DEF LInv, Safely
<1>3. Safely(a)'
    BY <1>1, <1>2 DEF Safely, At, Honest, Vouched
<1>4. wf'["finalize"].phase \in {"cleanup", "mark"} => bound # 0
    BY <1>1 DEF LInv, Bound
<1> QED BY <1>1, <1>3, <1>4, HonestLasts

LEMMA VerificationLasts ==
    ASSUME LInv, Base', NEW a \in Attempts, Verification(a)
    PROVE  LInv'
<1> USE DEF store, bounds, temporal
<1> 0 \in Copies \cup {0}
    OBVIOUS
<1>0. /\ session \in Session /\ staging \in [Uploads -> Bytes \cup {"absent"}]
      /\ att \in [Attempts -> Attempt]
      /\ session.state = "quarantined" => quarantine # 0
      /\ session.state = "finalized" => bound # 0
      /\ session.cleanup = "complete" => session.payload \in removed
    BY DEF LInv, Base, TypeOK, Stored, Bound, CleanupIsDone
<1>1. CASE MoveToVerifying(a)
  <2>1. Honest
      BY <1>0, <1>1 DEF MoveToVerifying, Honest, Session
  <2>2. att[a].phase = "verify"
      BY <1>1 DEF MoveToVerifying, At
  <2>3. ASSUME NEW result, End(a, result) PROVE LInv'
      BY <2>1, <2>2, <2>3, HonestEnd DEF End
  <2>4. ASSUME Go(a, "head") PROVE LInv'
      BY <2>1, <2>4, HonestGo
  <2> QED BY <1>1, <2>3, <2>4 DEF MoveToVerifying
<1>2. CASE HeadStaging(a)
  <2>0. PICK v \in Uploads \cup {0} :
          /\ IsNewest(v, Staged)
          /\ att' = [att EXCEPT ![a].pc = IF v = 0 THEN "reject" ELSE "hash", ![a].seen = v]
      BY <1>2 DEF HeadStaging
  <2>1. att[a].phase = "verify" /\ UNCHANGED <<session, bound, store, temporal, bounds>>
      BY <1>2 DEF HeadStaging, At
  <2>2. /\ att'[a].phase = "verify" /\ att'[a].seen = v
        /\ att'[a].pc = (IF v = 0 THEN "reject" ELSE "hash")
        /\ \A b \in Attempts : b # a => att'[b] = att[b]
      BY <1>0, <2>0, <2>1 DEF Attempt
  <2>3. v # 0 => staging[v] # "absent"
      BY <2>0 DEF IsNewest, Staged
  <2>4. Safely(a)'
      BY <2>1, <2>2, <2>3 DEF Safely, At
  <2>5. wf'["finalize"].phase \in {"cleanup", "mark"} => bound # 0
      BY <2>1 DEF LInv, Bound
  <2> QED BY <2>1, <2>2, <2>4, <2>5, SameIsHonest, HonestLasts
<1>3. CASE HashStaging(a)
  <2>0. PICK v \in Uploads \cup {0} :
          /\ IsNewest(v, Staged)
          /\ Go(a, IF v # 0 /\ staging[v] = "intact" THEN "record" ELSE "reject")
      BY <1>3 DEF HashStaging
  <2>1. Honest
      BY <1>3, SameIsHonest DEF HashStaging
  <2>2. att[a].phase = "verify" /\ att[a].seen \in Uploads /\ staging[att[a].seen] # "absent"
      BY <1>3 DEF HashStaging, LInv, Base, Holds, Safely, At
  <2>3. v # 0 /\ staging[v] = "intact" => Vouched(att[a].seen)
    <3> SUFFICES ASSUME v # 0, staging[v] = "intact", quarantine = 0
                 PROVE  Vouched(att[a].seen)
        BY DEF Vouched
    <3>1. CASE att[a].seen \in removed
        BY <3>1, GoneIsBound DEF Vouched
    <3>2. CASE att[a].seen \notin removed
      <4>1. att[a].seen <= v
          BY <2>0, <2>2, <3>2, NewestIsLast DEF LInv, Base
      <4>2. att[a].seen = v \/ att[a].seen < v
          BY <2>2, <4>1 DEF Uploads
      <4> QED BY <4>2 DEF Vouched, Uploads
    <3> QED BY <3>1, <3>2
  <2>4. CASE v # 0 /\ staging[v] = "intact"
      BY <2>0, <2>1, <2>2, <2>3, <2>4, HonestGo
  <2>5. CASE ~(v # 0 /\ staging[v] = "intact")
      BY <2>0, <2>1, <2>2, <2>5, HonestGo
  <2> QED BY <2>4, <2>5
<1>4. CASE RejectUpload(a)
  <2>1. Honest /\ att[a].phase = "verify" /\ End(a, "fatal")
      BY <1>0, <1>4 DEF RejectUpload, Rejected, At, Honest, Session
  <2> QED BY <2>1, HonestEnd DEF End
<1>5. CASE RecordVerified(a)
  <2>1. Vouched(att[a].seen) /\ att[a].phase = "verify"
      BY <1>5 DEF RecordVerified, LInv, Safely, At
  <2>2. Honest
      BY <1>0, <1>5, <2>1 DEF RecordVerified, Honest, Session
  <2>3. ASSUME NEW result, End(a, result) PROVE LInv'
      BY <2>1, <2>2, <2>3, HonestEnd DEF End
  <2> QED BY <1>5, <2>3 DEF RecordVerified
<1> QED BY <1>1, <1>2, <1>3, <1>4, <1>5 DEF Verification

LEMMA ScanningLasts ==
    ASSUME LInv, Base', NEW a \in Attempts, Scanning(a)
    PROVE  LInv'
<1> USE DEF store, bounds, temporal
<1> 0 \in Copies \cup {0}
    OBVIOUS
<1>0. /\ session \in Session /\ staging \in [Uploads -> Bytes \cup {"absent"}]
      /\ att \in [Attempts -> Attempt] /\ verdict \in [Bytes -> {"clean", "infected"}]
      /\ session.state = "quarantined" => quarantine # 0
      /\ session.state = "finalized" => bound # 0
      /\ session.cleanup = "complete" => session.payload \in removed
    BY DEF LInv, Base, TypeOK, Stored, Bound, CleanupIsDone
<1>1. att[a].phase \in {"scan", "fail_scan"}
    BY DEF Scanning, StartScan, ScanStaging, FailScan, RecordClean, QuarantineUpload,
           RecordInfected, RemoveInfected, At
<1>2. ASSUME Honest, NEW result, End(a, result) PROVE LInv'
    BY <1>1, <1>2, HonestEnd DEF End
<1>3. ASSUME Honest, NEW pc, Go(a, pc), pc \in {"record", "remove"} => quarantine # 0
      PROVE  LInv'
    BY <1>1, <1>3, HonestGo
<1>4. CASE StartScan(a)
  <2>1. Honest
      BY <1>4, SameIsHonest DEF StartScan
  <2>2. session.state = "quarantined" /\ Go(a, "remove") => LInv'
      BY <1>0, <1>3, <2>1
  <2>3. Go(a, "read") => LInv'
      BY <1>3, <2>1
  <2> QED BY <1>2, <1>4, <2>1, <2>2, <2>3 DEF StartScan
<1>5. CASE ScanStaging(a)
  <2>0. PICK v \in Uploads \cup {0} :
          /\ IsNewest(v, Staged)
          /\ (v # 0 /\ Go(a, verdict[staging[v]])) \/ Go(a, "refuse")
      BY <1>5 DEF ScanStaging
  <2>1. Honest
      BY <1>5, SameIsHonest DEF ScanStaging
  <2>2. v # 0 => verdict[staging[v]] \in {"clean", "infected"}
      BY <1>0, <2>0 DEF IsNewest, Staged
  <2> QED BY <1>3, <2>0, <2>1, <2>2
<1>6. CASE FailScan(a)
  <2>1. Honest
      BY <1>0, <1>6 DEF FailScan, FailedScan, Honest, Session
  <2> QED BY <1>2, <1>6, <2>1 DEF FailScan
<1>7. CASE RecordClean(a)
  <2>1. Honest
      BY <1>0, <1>7 DEF RecordClean, Honest, Session
  <2> QED BY <1>2, <1>7, <2>1 DEF RecordClean
<1>8. CASE QuarantineUpload(a)
  <2>1. /\ att[a].phase = "scan" /\ Isolate(a)
        /\ UNCHANGED <<session, bound, staging, removed, copies>>
      BY <1>8 DEF QuarantineUpload, At
  <2>2. session.verified # 0 /\ session.verified \in Uploads
      BY <1>0, <2>1 DEF LInv, Base, Holds, Session
  <2>3. CASE quarantine' = quarantine
    <3>1. Honest
        BY <2>1, <2>3, SameIsHonest
    <3>2. CASE End(a, "fatal")
        BY <1>2, <3>1, <3>2
    <3>3. CASE quarantine # 0 /\ Go(a, "record")
        BY <1>3, <3>1, <3>3
    <3> QED BY <2>1, <2>2, <2>3, <3>2, <3>3 DEF Isolate
  <2>4. CASE quarantine' # quarantine
    <3>1. /\ quarantine = 0 /\ IsNewest(session.verified, Staged)
          /\ quarantine' = session.verified /\ Go(a, "record")
        BY <2>1, <2>4 DEF Isolate
    <3>2. \/ staging[session.verified] = "intact"
          \/ \E u \in Uploads : session.verified < u /\ u \in removed
      <4>1. Vouched(session.verified)
          BY <2>2 DEF LInv, Stored
      <4>2. ASSUME NEW u \in Uploads, session.verified < u, staging[u] # "absent",
                   u \notin removed
            PROVE  FALSE
        <5>1. u <= session.verified
            BY <2>2, <3>1, <4>2, NewestIsLast DEF LInv, Base
        <5> QED BY <2>2, <4>2, <5>1 DEF Uploads
      <4> QED BY <3>1, <4>1, <4>2 DEF Vouched
    <3>3. staging[quarantine'] = "intact" \/ (bound # 0 /\ staging[copies[bound]] = "intact")
        BY <3>1, <3>2, GoneIsBound
    <3>4. Saved'
        BY <2>1, <3>3 DEF Saved
    <3>5. Stored'
        BY <2>1, <2>2, <3>1, <3>4 DEF LInv, Stored, Vouched
    <3>6. Copied'
        BY <2>1, <3>1, <2>2 DEF LInv, Copied
    <3>7. /\ wf' = wf /\ att'[a].phase = "scan"
          /\ \A b \in Attempts : b # a => att'[b] = att[b]
        BY <1>0, <2>1, <3>1 DEF Go, Attempt
    <3>8. Bound'
        BY <2>1, <3>7 DEF LInv, Bound, CleanupIsDone
    <3>9. Safely(a)'
        BY <2>2, <3>1, <3>7 DEF Safely, At
    <3> QED BY <2>1, <2>2, <3>1, <3>5, <3>6, <3>7, <3>8, <3>9, OthersSafely DEF LInv, Spares
  <2> QED BY <2>3, <2>4
<1>9. CASE RecordInfected(a)
  <2>1. quarantine # 0
      BY <1>9 DEF RecordInfected, LInv, Safely
  <2>2. Honest
      BY <1>0, <1>9, <2>1 DEF RecordInfected, Honest, Session
  <2> QED BY <1>3, <1>9, <2>1, <2>2 DEF RecordInfected
<1>10. CASE RemoveInfected(a)
  <2>1. quarantine # 0
      BY <1>10 DEF RemoveInfected, LInv, Safely
  <2>2. /\ UNCHANGED <<session, bound, staging, copies, quarantine>>
        /\ removed \subseteq removed' /\ EndWith(a, "ok", 0) /\ att[a].phase = "scan"
      BY <1>10 DEF RemoveInfected, End, At
  <2>3. Advances(a, "ok", 0) /\ att' = [att EXCEPT ![a] = Idle]
      BY <2>2, EndKept DEF LInv
  <2>4. att'[a] = Idle /\ \A b \in Attempts : b # a => att'[b] = att[b]
      BY <1>0, <2>3
  <2>5. Stored' /\ Copied'
      BY <2>1, <2>2 DEF LInv, Stored, Saved, Copied, Vouched
  <2>6. Bound'
      BY <2>2, <2>3 DEF LInv, Bound, CleanupIsDone, Advances
  <2> QED BY <2>2, <2>4, <2>5, <2>6, IdleSafely, OthersSafely DEF LInv, Spares
<1> QED BY <1>4, <1>5, <1>6, <1>7, <1>8, <1>9, <1>10 DEF Scanning

LEMMA FinalizationLasts ==
    ASSUME LInv, Base', NEW a \in Attempts, Finalization(a)
    PROVE  LInv'
<1> USE DEF store, bounds, temporal
<1> 0 \in Copies \cup {0}
    OBVIOUS
<1>0. /\ session \in Session /\ staging \in [Uploads -> Bytes \cup {"absent"}]
      /\ att \in [Attempts -> Attempt] /\ copies \in [Copies -> Uploads \cup {0}]
      /\ session.state = "quarantined" => quarantine # 0
      /\ session.state = "finalized" => bound # 0
      /\ session.cleanup = "complete" => session.payload \in removed
    BY DEF LInv, Base, TypeOK, Stored, Bound, CleanupIsDone
<1>1. att[a].phase \in Of("finalize") /\ att[a].phase \notin {"verify", "scan"}
    BY DEF Finalization, HeadDestination, CopyVerified, Commit, DeleteStaged, RecordCleanup,
           MarkCleanupFailed, FailFinalization, CompensateDelete, CompensateMark, At, Of
<1>2. session.payload \in Uploads /\ session.payload # 0
    BY <1>0, <1>1 DEF LInv, Base, Holds, Session
<1>3. ASSUME Honest, NEW result, NEW given \in Copies \cup {0}, EndWith(a, result, given),
             att[a].phase # "commit" \/ result # "ok"
      PROVE  LInv'
    BY <1>3, HonestEnd
<1>4. CASE HeadDestination(a)
  <2>0. PICK c \in Copies \cup {0} :
          IF c # 0 THEN EndWith(a, "ok", c) ELSE Go(a, "copy")
      BY <1>4 DEF HeadDestination
  <2>1. Honest /\ att[a].phase = "promote"
      BY <1>4, SameIsHonest DEF HeadDestination, At
  <2> QED BY <1>3, <2>0, <2>1, HonestGo
<1>5. CASE CopyVerified(a)
  <2>0. PICK v \in Uploads \cup {0} :
          /\ IsNewest(v, Staged)
          /\ \/ Exact(v) /\ \E c \in Copies :
                  /\ copies[c] = 0 /\ copies' = [copies EXCEPT ![c] = v]
                  /\ EndWith(a, "ok", c)
             \/ ~Exact(v) /\ End(a, "fatal") /\ UNCHANGED copies
      BY <1>5 DEF CopyVerified
  <2>1. /\ att[a].phase = "promote"
        /\ UNCHANGED <<session, bound, staging, removed, dropped, quarantine>>
      BY <1>5 DEF CopyVerified, At
  <2>2. CASE End(a, "fatal") /\ UNCHANGED copies
      BY <1>3, <2>1, <2>2, SameIsHonest DEF End
  <2>3. ASSUME NEW c \in Copies, Exact(v), copies[c] = 0, copies' = [copies EXCEPT ![c] = v],
               EndWith(a, "ok", c)
        PROVE  LInv'
    <3>1. v = session.payload /\ v \in Uploads
        BY <1>2, <2>3 DEF Exact
    <3>2. quarantine = 0 => staging[v] = "intact"
      <4> SUFFICES ASSUME quarantine = 0 PROVE staging[v] = "intact"
          OBVIOUS
      <4>1. removed = {}
          BY <1>2, <2>0, <3>1 DEF LInv, Stored, IsNewest, Staged
      <4>2. \A u \in Uploads : staging[u] # "absent" => u <= v
          BY <2>0, <4>1, NewestIsLast DEF LInv, Base
      <4>3. Vouched(v)
          BY <1>2, <3>1 DEF LInv, Stored
      <4> QED BY <3>1, <4>2, <4>3 DEF Vouched, Uploads
    <3>3. Copied'
        BY <1>0, <2>1, <2>3, <3>1, <3>2 DEF LInv, Copied
    <3>4. \A d \in Copies : copies[d] # 0 => copies'[d] = copies[d]
        BY <1>0, <2>3
    <3>5. bound # 0 => bound \in Copies /\ copies[bound] # 0
        BY DEF LInv, Base, TypeOK, Bound
    <3>6. Stored'
        BY <2>1, <3>4, <3>5 DEF LInv, Stored, Saved, Vouched
    <3>7. Advances(a, "ok", c) /\ att' = [att EXCEPT ![a] = Idle]
        BY <2>3, EndKept DEF LInv
    <3>8. att'[a] = Idle /\ \A b \in Attempts : b # a => att'[b] = att[b]
        BY <1>0, <3>7
    <3>9. Bound'
        BY <2>1, <3>4, <3>5, <3>7 DEF LInv, Bound, CleanupIsDone, Advances
    <3> QED BY <2>1, <3>3, <3>6, <3>8, <3>9, IdleSafely, OthersSafely DEF LInv, Spares
  <2> QED BY <2>0, <2>2, <2>3
<1>6. CASE Commit(a)
  <2>1. att[a].phase = "commit" /\ UNCHANGED store
      BY <1>6 DEF Commit, At
  <2>2. ASSUME NEW result \in {"ok", "fatal"}, End(a, result), UNCHANGED <<session, bound>>,
               result = "ok" => session.state = "finalized"
        PROVE  LInv'
    <3>1. Honest
        BY <2>1, <2>2, SameIsHonest
    <3> QED BY <1>0, <2>2, <3>1, HonestEnd DEF End
  <2>3. CASE /\ Eligible(session) /\ bound' = att[a].seen /\ End(a, "ok")
             /\ session' = [session EXCEPT !.state = "finalized", !.cleanup = "pending"]
    <3>1. bound' \in Copies /\ copies[bound'] # 0 /\ bound' # 0
        BY <2>1, <2>3 DEF LInv, Base, Holds, Chosen, Copies
    <3>2. /\ session'.state = "finalized" /\ session'.cleanup = "pending"
          /\ session'.payload = session.payload /\ session'.verified = session.verified
        BY <1>0, <2>3 DEF Session
    <3>3. bound # 0 => copies[bound'] = copies[bound]
        BY <3>1 DEF LInv, Base, TypeOK, Copied, Bound
    <3>4. Stored' /\ Copied' /\ Bound'
        BY <2>1, <3>1, <3>2, <3>3 DEF LInv, Stored, Saved, Vouched, Copied, Bound, CleanupIsDone
    <3>5. att' = [att EXCEPT ![a] = Idle]
        BY <2>3 DEF End, EndWith
    <3>6. att'[a] = Idle /\ \A b \in Attempts : b # a => att'[b] = att[b]
        BY <1>0, <3>5
    <3> QED BY <2>1, <3>1, <3>2, <3>4, <3>6, IdleSafely, OthersSafely DEF LInv, Spares
  <2> QED BY <1>6, <2>2, <2>3 DEF Commit
<1>7. CASE DeleteStaged(a)
  <2>1. /\ att[a].phase = "cleanup" /\ Go(a, "record")
        /\ removed' = removed \cup {session.payload}
        /\ UNCHANGED <<session, bound, staging, copies, quarantine>>
      BY <1>7 DEF DeleteStaged, At, StagedFile
  <2>2. /\ wf' = wf /\ att'[a].phase = "cleanup" /\ att'[a].pc = "record"
        /\ \A b \in Attempts : b # a => att'[b] = att[b]
      BY <1>0, <2>1 DEF Go, Attempt
  <2>3. bound # 0
      BY <2>1 DEF LInv, Safely
  <2>4. Stored' /\ Copied' /\ Bound'
      BY <2>1, <2>2, <2>3 DEF LInv, Stored, Saved, Vouched, Copied, Bound, CleanupIsDone
  <2>5. Safely(a)'
      BY <2>1, <2>2, <2>3 DEF Safely, At
  <2> QED BY <2>1, <2>2, <2>4, <2>5, OthersSafely DEF LInv, Spares
<1>8. CASE RecordCleanup(a)
  <2>1. session.payload \in removed /\ att[a].phase = "cleanup"
      BY <1>8 DEF RecordCleanup, LInv, Safely, At
  <2>2. Honest
      BY <1>0, <1>8, <2>1 DEF RecordCleanup, Honest, Session
  <2> QED BY <1>3, <1>8, <2>1, <2>2 DEF RecordCleanup, End
<1>9. CASE MarkCleanupFailed(a)
  <2>1. Honest /\ att[a].phase = "mark"
      BY <1>0, <1>9 DEF MarkCleanupFailed, At, Honest, Session
  <2> QED BY <1>3, <1>9, <2>1 DEF MarkCleanupFailed, End
<1>10. CASE FailFinalization(a)
  <2>1. Honest /\ att[a].phase = "fail"
      BY <1>0, <1>10 DEF FailFinalization, FinalizationFailed, At, Honest, Session
  <2> QED BY <1>3, <1>10, <2>1 DEF FailFinalization, End
<1>11. CASE CompensateDelete(a)
  <2>1. Honest /\ att[a].phase = "compensate"
      BY <1>11, SameIsHonest DEF CompensateDelete, At
  <2>2. End(a, "ok") => LInv'
      BY <1>3, <2>1 DEF End
  <2>3. Go(a, "deleted") => LInv'
      BY <2>1, HonestGo
  <2> QED BY <1>11, <2>2, <2>3 DEF CompensateDelete
<1>12. CASE CompensateMark(a)
  <2>1. Honest /\ att[a].phase = "compensate"
      BY <1>0, <1>12 DEF CompensateMark, FinalizationFailed, At, Honest, Session
  <2> QED BY <1>3, <1>12, <2>1 DEF CompensateMark, End
<1> QED BY <1>4, <1>5, <1>6, <1>7, <1>8, <1>9, <1>10, <1>11, <1>12 DEF Finalization

LEMMA UploadLasts ==
    ASSUME LInv, Base', Upload
    PROVE  LInv'
<1> USE DEF Base, TypeOK, temporal
<1> PICK v \in Uploads, bytes \in Bytes :
        staging[v] = "absent" /\ staging' = [staging EXCEPT ![v] = bytes]
    BY DEF Upload
<1>1. /\ session' = session /\ bound' = bound /\ removed' = removed /\ copies' = copies
      /\ quarantine' = quarantine /\ wf' = wf /\ att' = att
    BY DEF Upload
<1>2. \A u \in Uploads : /\ staging[u] # "absent" => staging'[u] = staging[u]
                         /\ staging[u] = "intact" => staging'[u] = "intact"
    BY DEF LInv, Bytes
<1>3. ASSUME NEW u \in Uploads, Vouched(u) PROVE Vouched(u)'
    BY <1>1, <1>2, <1>3 DEF Vouched
<1>4. bound # 0 => copies[bound] \in Uploads
    BY DEF LInv, Bound
<1>5. Stored'
  <2>1. quarantine # 0 => Saved'
      BY <1>1, <1>2, <1>4 DEF LInv, Stored, Saved
  <2>2. /\ session.verified # 0 => session.verified \in Uploads
        /\ session.payload # 0 => session.payload \in Uploads
      BY DEF LInv, Session
  <2> QED BY <1>1, <1>3, <2>1, <2>2 DEF LInv, Stored
<1>6. Copied'
    BY <1>1, <1>2 DEF LInv, Copied
<1>7. Bound'
    BY <1>1 DEF LInv, Bound, CleanupIsDone
<1>8. ASSUME NEW a \in Attempts PROVE Safely(a)'
  <2>1. At(a, "verify", "hash") \/ At(a, "verify", "record") => att[a].seen \in Uploads
      BY DEF LInv, Holds
  <2>2. At(a, "verify", "record") => Vouched(att[a].seen)'
      BY <1>1, <1>3, <2>1 DEF LInv, Safely, At
  <2> QED BY <1>1, <1>2, <2>1, <2>2 DEF LInv, Safely, At
<1> QED BY <1>5, <1>6, <1>7, <1>8 DEF LInv

\* A transaction of the API leaves store and attempts alone.
LEMMA ApiLasts ==
    ASSUME LInv, Base',
           \/ Expire \/ Complete \/ ReplayComplete \/ Cancel \/ RequestFinalize
           \/ ReplayFinalize \/ LoseCancel
    PROVE  LInv'
<1> USE DEF temporal, bounds, store
<1>0. session \in Session
    BY DEF LInv, Base, TypeOK
<1>1. UNCHANGED <<bound, staging, removed, copies, quarantine, wf, att>>
    BY DEF Expire, Complete, ReplayComplete, Cancel, RequestFinalize, ReplayFinalize, LoseCancel
<1>2. /\ session'.verified = session.verified
      /\ session'.state \in {"quarantined", "finalized"} => session'.state = session.state
      /\ \/ session'.payload = session.payload /\ session'.cleanup = session.cleanup
         \/ /\ session.payload = 0 /\ session'.cleanup = "pending"
            /\ session'.payload = session.verified
    BY <1>0 DEF Expire, Complete, ReplayComplete, Cancel, RequestFinalize, ReplayFinalize,
                LoseCancel, Session
<1>3. Stored'
    BY <1>1, <1>2, NothingYet DEF LInv, Stored, Saved, Vouched
<1>4. Copied'
    BY <1>1, <1>2, NothingYet DEF LInv, Copied
<1>5. Bound'
    BY <1>1, <1>2 DEF LInv, Bound, CleanupIsDone
<1>6. ASSUME NEW a \in Attempts PROVE Safely(a)'
    BY <1>1, <1>2, NothingYet DEF LInv, Safely, At, Vouched
<1> QED BY <1>3, <1>4, <1>5, <1>6 DEF LInv

\* A step of Temporal, or the end of an attempt, which leaves row and store alone.
LEMMA QuietLasts ==
    ASSUME LInv, Base', UNCHANGED <<session, bound, store>>,
           \A a \in Attempts : \/ att'[a] = att[a] \/ att'[a] = Idle
                               \/ /\ att'[a].pc = "begin"
                                  /\ \E w \in Flows : /\ wf[w] # Closed
                                                      /\ att'[a].phase = wf[w].phase,
           wf'["finalize"].phase \in {"cleanup", "mark"} =>
               wf["finalize"].phase \in {"cleanup", "mark"}
    PROVE  LInv'
<1> USE DEF store
<1>1. ASSUME NEW w \in Flows, wf[w] # Closed
      PROVE  wf[w].phase \in {"cleanup", "mark"} => bound # 0
  <2>1. wf[w].phase \in Of(w)
      BY <1>1 DEF LInv, Base, Runs
  <2> QED BY <2>1 DEF LInv, Bound, Of, Flows
<1>2. Stored' /\ Copied' /\ Bound'
    BY DEF LInv, Stored, Saved, Copied, Vouched, Bound, CleanupIsDone
<1>3. ASSUME NEW a \in Attempts PROVE Safely(a)'
  <2>1. CASE att'[a] = att[a]
      BY <2>1 DEF LInv, Safely, At, Vouched
  <2>2. CASE /\ att'[a].pc = "begin"
             /\ \E w \in Flows : wf[w] # Closed /\ att'[a].phase = wf[w].phase
      BY <1>1, <2>2 DEF Safely, At
  <2> QED BY <2>1, <2>2, IdleSafely
<1> QED BY <1>2, <1>3 DEF LInv

LEMMA TemporalLasts ==
    ASSUME LInv, Base',
           \/ DeliverCancel
           \/ \E w \in Flows : Launch(w) \/ LoseLaunch(w) \/ Schedule(w)
           \/ \E a \in Attempts : AttemptLost(a) \/ Timeout(a) \/ ZombieEnds(a)
    PROVE  LInv'
<1> USE DEF Base, TypeOK, temporal
<1> 0 \in Copies \cup {0}
    OBVIOUS
<1>1. CASE DeliverCancel
  <2>1. /\ wf' = [wf EXCEPT !["verify"] = AfterFailure(wf["verify"])]
        /\ UNCHANGED <<session, bound, store, att>>
      BY <1>1 DEF DeliverCancel
  <2>2. wf'["finalize"] = wf["finalize"]
      BY <2>1 DEF LInv, Flows
  <2> QED BY <2>1, <2>2, QuietLasts
<1>2. ASSUME NEW w \in Flows, Launch(w) \/ LoseLaunch(w) PROVE LInv'
  <2>1. /\ UNCHANGED <<session, bound, store, att>>
        /\ \/ wf' = wf
           \/ wf' = [wf EXCEPT ![w] = Open(IF w = "verify" THEN "verify" ELSE "promote", 0)]
      BY <1>2 DEF Launch, LoseLaunch
  <2>2. wf'["finalize"].phase \in {"cleanup", "mark"} =>
            wf["finalize"].phase \in {"cleanup", "mark"}
      BY <2>1 DEF LInv, Flows, Open
  <2> QED BY <2>1, <2>2, QuietLasts
<1>3. ASSUME NEW w \in Flows, Schedule(w) PROVE LInv'
  <2>0. PICK a \in Attempts :
          /\ att' = [att EXCEPT ![a] = [Idle EXCEPT !.phase = wf[w].phase, !.seen = wf[w].given]]
          /\ wf' = [wf EXCEPT ![w].cur = a, ![w].tries = @ + 1]
      BY <1>3 DEF Schedule
  <2>1. wf[w] # Closed /\ UNCHANGED <<session, bound, store>>
      BY <1>3 DEF Schedule
  <2>2. /\ att'[a].pc = "begin" /\ att'[a].phase = wf[w].phase
        /\ \A b \in Attempts : b # a => att'[b] = att[b]
      BY <2>0 DEF LInv, Idle
  <2>3. wf'["finalize"].phase = wf["finalize"].phase
      BY <2>0 DEF LInv, Workflow, Flows
  <2> QED BY <2>1, <2>2, <2>3, QuietLasts
<1>4. ASSUME NEW a \in Attempts, AttemptLost(a) PROVE LInv'
  <2>1. EndWith(a, "retry", 0) /\ UNCHANGED <<session, bound, store>>
      BY <1>4 DEF AttemptLost, End
  <2>2. Advances(a, "retry", 0) /\ att' = [att EXCEPT ![a] = Idle]
      BY <2>1, EndKept DEF LInv
  <2>3. att'[a] = Idle /\ \A b \in Attempts : b # a => att'[b] = att[b]
      BY <2>2 DEF LInv
  <2> QED BY <2>1, <2>2, <2>3, QuietLasts DEF Advances
<1>5. ASSUME NEW a \in Attempts, Timeout(a) PROVE LInv'
  <2>1. Report(a, "retry", 0) /\ UNCHANGED <<session, bound, store, att>>
      BY <1>5 DEF Timeout
  <2>2. Advances(a, "retry", 0)
      BY <2>1, ReportAdvances DEF LInv
  <2> QED BY <2>1, <2>2, QuietLasts DEF Advances
<1>6. ASSUME NEW a \in Attempts, ZombieEnds(a) PROVE LInv'
  <2>1. att' = [att EXCEPT ![a] = Idle] /\ UNCHANGED <<session, bound, store, wf>>
      BY <1>6 DEF ZombieEnds
  <2>2. att'[a] = Idle /\ \A b \in Attempts : b # a => att'[b] = att[b]
      BY <2>1 DEF LInv
  <2> QED BY <2>1, <2>2, QuietLasts
<1> QED BY <1>1, <1>2, <1>3, <1>4, <1>5, <1>6

LEMMA InitLasts == Init => LInv
<1> SUFFICES ASSUME Init PROVE LInv
    OBVIOUS
<1>1. Stored /\ Copied
    BY DEF Init, Stored, Copied
<1>2. Bound
    BY DEF Init, Bound, CleanupIsDone, Closed, Flows
<1>3. \A a \in Attempts : Safely(a)
    BY NoneAssumption DEF Init, Safely, At, Idle, Phases
<1> QED BY <1>1, <1>2, <1>3, InitBase DEF LInv

LEMMA StepLasts == LInv /\ [Next]_vars => LInv'
<1> SUFFICES ASSUME LInv, [Next]_vars PROVE LInv'
    OBVIOUS
<1>1. Base'
    BY StepBase DEF LInv
<1>2. ASSUME NEW a \in Attempts, Activity(a) PROVE LInv'
    BY <1>1, <1>2, VerificationLasts, ScanningLasts, FinalizationLasts DEF Activity
<1>3. CASE UNCHANGED vars
  <2>1. UNCHANGED <<session, bound, store, att>> /\ wf' = wf
      BY <1>3 DEF vars, temporal
  <2> QED BY <1>1, <2>1, QuietLasts
<1> QED BY <1>1, <1>2, <1>3, ApiLasts, UploadLasts, TemporalLasts DEF Next

LEMMA LastingHolds == Spec => []LInv
BY InitLasts, StepLasts, PTL DEF Spec

\* asset_verification_activity.py:27-62, s3_object_storage.py:213-241.  Any number of posts
\* may arrive between head, hash and copy, and any number of attempts may record a version
\* late: what is bound is what was declared, unless a scan removed a version.
THEOREM BoundIsAsDeclared == Spec => []BoundIsIntact
<1>1. LInv => BoundIsIntact
    BY DEF LInv, Base, TypeOK, Bound, Copied, BoundIsIntact
<1> QED BY <1>1, LastingHolds, PTL

\* asset_scan_activity.py:31-87, asset_finalization_activity.py:228-243.  A staged version
\* with the declared bytes is removed only after those bytes are bound or in quarantine,
\* also when a scan and a finalization are at work on one session.
THEOREM DeletionsLoseNothing == Spec => []NothingLost
<1>1. LInv => NothingLost
  <2> SUFFICES ASSUME LInv, NEW v \in removed
               PROVE  \/ quarantine # 0 /\ staging[quarantine] = "intact"
                      \/ bound # 0 /\ staging[copies[bound]] = "intact"
      BY DEF NothingLost
  <2>1. CASE quarantine # 0
      BY <2>1 DEF LInv, Stored, Saved
  <2>2. CASE quarantine = 0
      BY <2>2, GoneIsBound
  <2> QED BY <2>1, <2>2
<1> QED BY <1>1, LastingHolds, PTL

\* asset_finalization_activity.py:244-252.  A clean-up reported complete has deleted the
\* promoted version, whichever attempt reports it.
THEOREM CleanupIsTrue == Spec => []CleanupIsDone
<1>1. LInv => CleanupIsDone
    BY DEF LInv, Bound
<1> QED BY <1>1, LastingHolds, PTL
-----------------------------------------------------------------------------
(* What needs EarlyRequest to be FALSE: finalization waits for the verifier *)
(* to rest, and then has the session to itself.                             *)

\* Once asked for, finalization is alone with the session; before, it deletes nothing.
Settled ==
    /\ session.payload # 0 =>
          VerifierAtRest /\ session.state \in {"finalizing", "finalized", "failed"}
    /\ session.payload = 0 => dropped = {}

\* A compensation that has deleted goes on to mark, unless it may be torn.
Marked == TornCompensation \/ (dropped # {} => session.state = "failed" \/ ~Unlocked)

\* The row stays locked, so not finalized, while a compensation deletes.
Locks(a) == att[a].pc = "deleted" => att[a].phase = "compensate" /\ session.state # "finalized"

SInv == /\ LInv /\ Settled /\ Marked /\ FinalizedIsBound
        /\ \A a \in Attempts : Locks(a)

\* While something of the verification workflow runs, nothing is asked for.
LEMMA VerifierIsEarly ==
    ASSUME SInv, \/ \E a \in Attempts : att[a].phase \in Of("verify")
                 \/ wf["verify"] # Closed \/ launch["verify"]
    PROVE  session.payload = 0
BY DEF SInv, Settled, VerifierAtRest, Of

LEMMA FinalizerIsLate ==
    ASSUME SInv, NEW a \in Attempts, att[a].phase \in Of("finalize")
    PROVE  session.payload # 0
BY DEF SInv, LInv, Base, Holds

LEMMA EarlyStep ==
    ASSUME SInv, LInv', session.payload = 0, session'.payload = 0, dropped' = dropped,
           \A a \in Attempts : att'[a].pc = "deleted" => att[a].pc = "deleted"
    PROVE  SInv'
<1>1. \A a \in Attempts : att[a].pc # "deleted"
    BY FinalizerIsLate DEF SInv, Locks, Of
<1>2. session'.state # "finalized" /\ bound' = 0
  <2>1. \A c \in Copies : copies'[c] = 0
      BY DEF LInv, Copied
  <2>2. bound' = 0
      BY <2>1 DEF LInv, Base, TypeOK, Bound
  <2> QED BY <2>2 DEF LInv, Bound
<1> QED BY <1>1, <1>2 DEF SInv, Settled, Marked, FinalizedIsBound, Locks

LEMMA LateStep ==
    ASSUME SInv, LInv', NEW a \in Attempts, session.payload # 0, session'.payload # 0,
           wf'["verify"] = Closed, launch' = launch,
           \A b \in Attempts : b # a => att'[b] = att[b],
           att'[a] = Idle \/ att'[a].phase = att[a].phase,
           session'.state \in {"finalizing", "finalized", "failed"},
           session'.state = "finalized" => session.state = "finalized" \/ Unlocked,
           Marked', FinalizedIsBound', Locks(a)'
    PROVE  SInv'
<1>1. VerifierAtRest'
    BY NoneAssumption DEF SInv, Settled, VerifierAtRest, Idle, Phases
<1>2. \A b \in Attempts : Locks(b)'
    BY DEF SInv, Locks, Unlocked
<1> QED BY <1>1, <1>2 DEF SInv, Settled

LEMMA VerifierSafe ==
    ASSUME SInv, LInv', NEW a \in Attempts, Verification(a) \/ Scanning(a)
    PROVE  SInv'
<1> USE DEF store, bounds, temporal
<1>1. att[a].phase \in Of("verify")
    BY DEF Verification, MoveToVerifying, HeadStaging, HashStaging, RejectUpload,
           RecordVerified, Scanning, StartScan, ScanStaging, FailScan, RecordClean,
           QuarantineUpload, RecordInfected, RemoveInfected, At, Of
<1>2. session.payload = 0
    BY <1>1, VerifierIsEarly
<1>3. /\ session \in Session /\ att \in [Attempts -> Attempt]
      /\ verdict \in [Bytes -> {"clean", "infected"}]
      /\ staging \in [Uploads -> Bytes \cup {"absent"}]
    BY DEF SInv, LInv, Base, TypeOK
<1>4. ASSUME NEW result, End(a, result) PROVE \A b \in Attempts : att'[b].pc # "deleted"
                                                  \/ att'[b].pc = att[b].pc
    BY <1>3, <1>4 DEF End, EndWith, Idle
<1>5. ASSUME NEW pc, Go(a, pc), pc # "deleted"
      PROVE  \A b \in Attempts : att'[b].pc # "deleted" \/ att'[b].pc = att[b].pc
    BY <1>3, <1>5 DEF Go, Attempt
<1>6. CASE Verification(a)
  <2>1. session'.payload = session.payload /\ dropped' = dropped
      BY <1>3, <1>6 DEF Verification, MoveToVerifying, HeadStaging, HashStaging,
                        RejectUpload, Rejected, RecordVerified, Session
  <2>2. CASE HeadStaging(a)
    <3>1. PICK v \in Uploads \cup {0} :
              att' = [att EXCEPT ![a].pc = IF v = 0 THEN "reject" ELSE "hash", ![a].seen = v]
        BY <2>2 DEF HeadStaging
    <3>2. \A b \in Attempts : att'[b].pc # "deleted" \/ att'[b].pc = att[b].pc
        BY <1>3, <3>1 DEF Attempt
    <3> QED BY <1>2, <2>1, <3>2, EarlyStep
  <2>3. CASE ~HeadStaging(a)
    <3>1. \A b \in Attempts : att'[b].pc # "deleted" \/ att'[b].pc = att[b].pc
        BY <1>4, <1>5, <1>6, <2>3 DEF Verification, MoveToVerifying, HashStaging,
                                      RejectUpload, RecordVerified
    <3> QED BY <1>2, <2>1, <3>1, EarlyStep
  <2> QED BY <2>2, <2>3
<1>7. CASE Scanning(a)
  <2>1. session'.payload = session.payload /\ dropped' = dropped
      BY <1>3, <1>7 DEF Scanning, StartScan, ScanStaging, FailScan, FailedScan, RecordClean,
                        QuarantineUpload, RecordInfected, RemoveInfected, Session
  <2>2. CASE ScanStaging(a)
    <3>1. PICK v \in Uploads \cup {0} :
              /\ IsNewest(v, Staged)
              /\ (v # 0 /\ Go(a, verdict[staging[v]])) \/ Go(a, "refuse")
        BY <2>2 DEF ScanStaging
    <3>2. v # 0 => verdict[staging[v]] # "deleted"
        BY <1>3, <3>1 DEF IsNewest, Staged
    <3>3. \A b \in Attempts : att'[b].pc # "deleted" \/ att'[b].pc = att[b].pc
        BY <1>5, <3>1, <3>2
    <3> QED BY <1>2, <2>1, <3>3, EarlyStep
  <2>3. CASE ~ScanStaging(a)
    <3>1. \A b \in Attempts : att'[b].pc # "deleted" \/ att'[b].pc = att[b].pc
        BY <1>4, <1>5, <1>7, <2>3 DEF Scanning, StartScan, FailScan, RecordClean,
                                      QuarantineUpload, Isolate, RecordInfected, RemoveInfected
    <3> QED BY <1>2, <2>1, <3>1, EarlyStep
  <2> QED BY <2>2, <2>3
<1> QED BY <1>6, <1>7

LEMMA FinalizerSafe ==
    ASSUME SInv, LInv', NEW a \in Attempts, Finalization(a)
    PROVE  SInv'
<1> USE DEF store, bounds, temporal
<1> 0 \in Copies \cup {0}
    OBVIOUS
<1>0. session \in Session /\ att \in [Attempts -> Attempt]
    BY DEF SInv, LInv, Base, TypeOK
<1>1. /\ att[a].phase \in Of("finalize")
      /\ launch' = launch
      /\ session'.payload = session.payload
    BY <1>0 DEF Finalization, HeadDestination, CopyVerified, Commit, DeleteStaged, RecordCleanup,
           MarkCleanupFailed, FailFinalization, FinalizationFailed, CompensateDelete,
           CompensateMark, At, Of, Session
<1>2. /\ session.payload # 0 /\ wf["verify"] = Closed
      /\ session.state \in {"finalizing", "finalized", "failed"}
    BY <1>1, FinalizerIsLate DEF SInv, Settled, VerifierAtRest
  \* How an attempt goes on, with its part of the state.
<1> DEFINE Goes == /\ wf'["verify"] = Closed
                   /\ \A b \in Attempts : b # a => att'[b] = att[b]
                   /\ att'[a] = Idle \/ att'[a].phase = att[a].phase
<1>3. ASSUME NEW result, NEW given \in Copies \cup {0}, EndWith(a, result, given)
      PROVE  Goes /\ att'[a] = Idle
  <2>1. Advances(a, result, given) /\ att' = [att EXCEPT ![a] = Idle]
      BY <1>3, EndKept DEF SInv, LInv
  <2>2. wf'["verify"] = Closed
      BY <1>2, <2>1 DEF Advances, Flows
  <2> QED BY <1>0, <2>1, <2>2
<1>4. ASSUME NEW pc, Go(a, pc) PROVE Goes /\ att'[a].pc = pc /\ att'[a].phase = att[a].phase
    BY <1>0, <1>2, <1>4 DEF Go, Attempt
<1> HIDE DEF Goes
  \* A step that leaves the session in its state.
<1>5. ASSUME Goes, session'.state = session.state, UNCHANGED <<bound, dropped>>,
             att[a].pc # "deleted", att'[a].pc # "deleted"
      PROVE  SInv'
  <2>1. Locks(a)' /\ FinalizedIsBound'
      BY <1>5 DEF SInv, Locks, FinalizedIsBound
  <2>2. ~Unlocked => ~Unlocked'
      BY <1>5 DEF Unlocked, Goes
  <2>3. Marked'
      BY <1>5, <2>2 DEF SInv, Marked
  <2> QED BY <1>1, <1>2, <1>5, <2>1, <2>3, LateStep DEF Goes
  \* A step that fails a session which is not finalized.
<1>6. ASSUME Goes, session.state # "finalized", session'.state = "failed",
             bound' = bound, att'[a].pc # "deleted"
      PROVE  SInv'
  <2>1. Locks(a)' /\ FinalizedIsBound' /\ Marked'
      BY <1>6 DEF SInv, Locks, FinalizedIsBound, Marked
  <2> QED BY <1>1, <1>2, <1>6, <2>1, LateStep DEF Goes
<1>7. Idle.pc # "deleted"
    BY DEF Idle
<1>8. CASE HeadDestination(a)
  <2>1. /\ att[a].pc # "deleted" /\ UNCHANGED <<session, bound, dropped>>
        /\ \E c \in Copies \cup {0} : IF c # 0 THEN EndWith(a, "ok", c) ELSE Go(a, "copy")
      BY <1>8 DEF HeadDestination, At
  <2> QED BY <1>3, <1>4, <1>5, <1>7, <2>1
<1>9. CASE CopyVerified(a)
  <2>1. /\ att[a].pc # "deleted" /\ UNCHANGED <<session, bound, dropped>>
        /\ End(a, "fatal") \/ \E c \in Copies : EndWith(a, "ok", c)
      BY <1>9 DEF CopyVerified, At
  <2> QED BY <1>3, <1>5, <1>7, <2>1 DEF End
<1>10. CASE Commit(a)
  <2>1. att[a].pc # "deleted" /\ Unlocked /\ UNCHANGED dropped
      BY <1>10 DEF Commit, At
  <2>2. ASSUME NEW result, End(a, result), UNCHANGED <<session, bound>> PROVE SInv'
      BY <1>3, <1>5, <1>7, <2>1, <2>2 DEF End
  <2>3. CASE /\ Eligible(session) /\ End(a, "ok")
             /\ session' = [session EXCEPT !.state = "finalized", !.cleanup = "pending"]
    <3>1. Goes /\ att'[a] = Idle
        BY <1>3, <2>3 DEF End
    <3>2. session'.state = "finalized" /\ session.state = "finalizing"
        BY <1>0, <2>3 DEF Session, Eligible
    <3>3. Locks(a)' /\ FinalizedIsBound'
        BY <1>7, <3>1, <3>2 DEF LInv, Bound, Locks, FinalizedIsBound
    <3>4. Marked'
        BY <2>1, <3>2 DEF SInv, Marked
    <3> QED BY <1>1, <1>2, <2>1, <3>1, <3>2, <3>3, <3>4, LateStep DEF Goes
  <2> QED BY <1>10, <2>2, <2>3 DEF Commit
<1>11. CASE DeleteStaged(a)
  <2>1. att[a].pc # "deleted" /\ UNCHANGED <<session, bound, dropped>> /\ Go(a, "record")
      BY <1>11 DEF DeleteStaged, At
  <2> QED BY <1>4, <1>5, <2>1
<1>12. CASE RecordCleanup(a) \/ MarkCleanupFailed(a)
  <2>1. /\ att[a].pc # "deleted" /\ UNCHANGED <<bound, dropped>>
        /\ session'.state = session.state /\ \E result : End(a, result)
      BY <1>0, <1>12 DEF RecordCleanup, MarkCleanupFailed, At, Session
  <2> QED BY <1>3, <1>5, <1>7, <2>1 DEF End
<1>13. CASE FailFinalization(a)
  <2>1. att[a].pc # "deleted" /\ UNCHANGED <<bound, dropped>> /\ End(a, "ok")
      BY <1>13 DEF FailFinalization, At
  <2>2. \/ session' = session
        \/ session.state # "finalized" /\ session'.state = "failed"
      BY <1>0, <1>13 DEF FailFinalization, Spared, FinalizationFailed, Session
  <2> QED BY <1>3, <1>5, <1>6, <1>7, <2>1, <2>2 DEF End
<1>14. CASE CompensateDelete(a)
  <2>1. /\ att[a].phase = "compensate" /\ att[a].pc # "deleted"
        /\ UNCHANGED <<session, bound>>
      BY <1>14 DEF CompensateDelete, At
  <2>2. CASE End(a, "ok") /\ UNCHANGED dropped
      BY <1>3, <1>5, <1>7, <2>1, <2>2 DEF End
  <2>3. CASE ~Spared(session) /\ Go(a, "deleted")
    <3>1. Goes /\ att'[a].pc = "deleted" /\ att'[a].phase = att[a].phase
        BY <1>4, <2>3
    <3>2. Locks(a)' /\ FinalizedIsBound' /\ Marked'
        BY <2>1, <2>3, <3>1 DEF SInv, Spared, Locks, FinalizedIsBound, Marked, Unlocked
    <3> QED BY <1>1, <1>2, <2>1, <3>1, <3>2, LateStep DEF Goes
  <2> QED BY <1>14, <2>2, <2>3 DEF CompensateDelete
<1>15. CASE CompensateMark(a)
  <2>1. /\ session.state # "finalized" /\ session'.state = "failed"
        /\ bound' = bound /\ End(a, "ok")
      BY <1>0, <1>15 DEF CompensateMark, At, SInv, Locks, FinalizationFailed, Session
  <2> QED BY <1>3, <1>6, <1>7, <2>1 DEF End
<1> QED BY <1>8, <1>9, <1>10, <1>11, <1>12, <1>13, <1>14, <1>15 DEF Finalization

\* A step of Temporal, a post, or the end of an attempt: rows and promoted files stay.
LEMMA QuietSafe ==
    ASSUME SInv, LInv', UNCHANGED <<session, bound, dropped>>,
           \A a \in Attempts : \/ att'[a] = att[a]
                               \/ att'[a] = Idle /\ (att[a].pc = "deleted" => TornCompensation)
                               \/ /\ att[a] = Idle /\ att'[a].pc = "begin"
                                  /\ \E w \in Flows : /\ wf[w] # Closed
                                                      /\ att'[a].phase = wf[w].phase,
           session.payload # 0 => wf'["verify"] = Closed /\ ~launch'["verify"]
    PROVE  SInv'
<1>1. \A a \in Attempts : session.payload # 0 => att'[a].phase \notin Of("verify")
  <2> SUFFICES ASSUME NEW a \in Attempts, session.payload # 0
               PROVE  att'[a].phase \notin Of("verify")
      OBVIOUS
  <2>1. att[a].phase \notin Of("verify")
      BY VerifierIsEarly
  <2>2. Idle.phase \notin Of("verify")
      BY NoneAssumption DEF Idle, Of, Phases
  <2>3. \A w \in Flows : wf[w] # Closed => wf[w].phase \notin Of("verify")
    <3> SUFFICES ASSUME NEW w \in Flows, wf[w] # Closed PROVE wf[w].phase \notin Of("verify")
        OBVIOUS
    <3>1. w = "finalize"
        BY VerifierIsEarly DEF Flows
    <3>2. wf[w].phase \in Of("finalize")
        BY <3>1 DEF SInv, LInv, Base, Runs
    <3> QED BY <3>2 DEF Of
  <2> QED BY <2>1, <2>2, <2>3
<1>2. Settled'
  <2>1. session.payload # 0 => VerifierAtRest'
      BY <1>1 DEF VerifierAtRest, Of
  <2> QED BY <2>1 DEF SInv, Settled
<1>3. Idle.pc = "begin"
    BY DEF Idle
<1>4. ~TornCompensation => (~Unlocked => ~Unlocked')
  <2> SUFFICES ASSUME ~TornCompensation, NEW a \in Attempts, att[a].pc = "deleted"
               PROVE  att'[a].pc = "deleted"
      BY DEF Unlocked
  <2> QED BY <1>3
<1>5. Marked' /\ FinalizedIsBound'
    BY <1>4 DEF SInv, Marked, FinalizedIsBound
<1>6. \A a \in Attempts : Locks(a)'
    BY <1>3 DEF SInv, Locks
<1> QED BY <1>2, <1>5, <1>6 DEF SInv

LEMMA ApiSafe ==
    ASSUME ~EarlyRequest, SInv, LInv',
           \/ Upload \/ Expire \/ Complete \/ ReplayComplete \/ Cancel \/ RequestFinalize
           \/ ReplayFinalize \/ LoseCancel
    PROVE  SInv'
<1> USE DEF temporal, bounds, store, Flows
<1>0. session \in Session /\ launch \in [Flows -> BOOLEAN]
    BY DEF SInv, LInv, Base, TypeOK
<1>1. session.payload # 0 => /\ wf["verify"] = Closed /\ ~launch["verify"]
                             /\ session.state \in {"finalizing", "finalized", "failed"}
    BY DEF SInv, Settled, VerifierAtRest
<1>2. CASE Expire \/ Complete \/ Cancel \/ ReplayComplete
  <2>1. session.payload = 0 /\ session'.payload = 0 /\ dropped' = dropped /\ att' = att
      BY <1>0, <1>1, <1>2
         DEF Expire, Complete, Cancel, ReplayComplete, Completable, Session
  <2> QED BY <2>1, EarlyStep
<1>3. CASE Upload \/ LoseCancel \/ ReplayFinalize
  <2>1. UNCHANGED <<session, bound, dropped, att, wf>> /\ launch'["verify"] = launch["verify"]
      BY <1>0, <1>3 DEF Upload, LoseCancel, ReplayFinalize
  <2> QED BY <1>1, <2>1, QuietSafe
<1>4. CASE RequestFinalize
  <2>1. /\ session.payload = 0 /\ VerifierAtRest
        /\ UNCHANGED <<bound, dropped, wf, att>> /\ launch'["verify"] = launch["verify"]
      BY <1>0, <1>4 DEF RequestFinalize
  <2>2. session'.state = "finalizing"
      BY <1>0, <1>4 DEF RequestFinalize, Session
  <2>3. bound = 0 /\ dropped = {} /\ Settled'
      BY <2>1, <2>2, NothingYet DEF SInv, Settled, VerifierAtRest
  <2>4. \A a \in Attempts : Locks(a)'
      BY <2>1, <2>2 DEF SInv, Locks
  <2> QED BY <2>1, <2>2, <2>3, <2>4 DEF SInv, Marked, FinalizedIsBound
<1> QED BY <1>2, <1>3, <1>4

LEMMA TemporalSafe ==
    ASSUME SInv, LInv',
           \/ DeliverCancel
           \/ \E w \in Flows : Launch(w) \/ LoseLaunch(w) \/ Schedule(w)
           \/ \E a \in Attempts : AttemptLost(a) \/ Timeout(a) \/ ZombieEnds(a)
    PROVE  SInv'
<1> USE DEF Base, TypeOK, temporal, LInv, store
<1> 0 \in Copies \cup {0} /\ "verify" \in Flows
    BY DEF Flows
<1>1. session.payload # 0 => wf["verify"] = Closed /\ ~launch["verify"]
    BY DEF SInv, Settled, VerifierAtRest
<1>2. CASE DeliverCancel
  <2>1. /\ wf' = [wf EXCEPT !["verify"] = AfterFailure(wf["verify"])]
        /\ UNCHANGED <<session, bound, dropped, launch, att>>
      BY <1>2 DEF DeliverCancel
  <2>2. wf["verify"] = Closed => AfterFailure(wf["verify"]) = Closed
      BY DEF AfterFailure, Closed
  <2>3. wf'["verify"] = AfterFailure(wf["verify"])
      BY <2>1 DEF SInv
  <2> QED BY <1>1, <2>1, <2>2, <2>3, QuietSafe
<1>3. ASSUME NEW w \in Flows, Launch(w) \/ LoseLaunch(w) PROVE SInv'
  <2>1. /\ UNCHANGED <<session, bound, dropped, att>> /\ launch[w]
        /\ launch' = [launch EXCEPT ![w] = FALSE]
        /\ \/ wf' = wf
           \/ wf' = [wf EXCEPT ![w] = Open(IF w = "verify" THEN "verify" ELSE "promote", 0)]
      BY <1>3 DEF Launch, LoseLaunch
  <2>2. session.payload # 0 => w # "verify"
      BY <1>1, <2>1
  <2>3. session.payload # 0 => wf'["verify"] = Closed /\ ~launch'["verify"]
      BY <1>1, <2>1, <2>2 DEF SInv
  <2> QED BY <2>1, <2>3, QuietSafe
<1>4. ASSUME NEW w \in Flows, Schedule(w) PROVE SInv'
  <2>0. PICK a \in Attempts :
          /\ att[a] = Idle
          /\ att' = [att EXCEPT ![a] = [Idle EXCEPT !.phase = wf[w].phase, !.seen = wf[w].given]]
          /\ wf' = [wf EXCEPT ![w].cur = a, ![w].tries = @ + 1]
      BY <1>4 DEF Schedule
  <2>1. wf[w] # Closed /\ UNCHANGED <<session, bound, dropped, launch>>
      BY <1>4 DEF Schedule
  <2>2. /\ att'[a].pc = "begin" /\ att'[a].phase = wf[w].phase
        /\ \A b \in Attempts : b # a => att'[b] = att[b]
      BY <2>0 DEF SInv, Idle
  <2>3. session.payload # 0 => wf'["verify"] = Closed /\ ~launch'["verify"]
      BY <1>1, <2>0, <2>1 DEF SInv
  <2> QED BY <2>0, <2>1, <2>2, <2>3, QuietSafe
<1>5. ASSUME NEW a \in Attempts, AttemptLost(a) PROVE SInv'
  <2>1. /\ EndWith(a, "retry", 0) /\ (att[a].pc = "deleted" => TornCompensation)
        /\ UNCHANGED <<session, bound, dropped, launch>>
      BY <1>5 DEF AttemptLost, End
  <2>2. Advances(a, "retry", 0) /\ att' = [att EXCEPT ![a] = Idle]
      BY <2>1, EndKept DEF SInv
  <2>3. att'[a] = Idle /\ \A b \in Attempts : b # a => att'[b] = att[b]
      BY <2>2 DEF SInv
  <2> QED BY <1>1, <2>1, <2>2, <2>3, QuietSafe DEF Advances
<1>6. ASSUME NEW a \in Attempts, Timeout(a) PROVE SInv'
  <2>1. Report(a, "retry", 0) /\ UNCHANGED <<session, bound, dropped, launch, att>>
      BY <1>6 DEF Timeout
  <2>2. Advances(a, "retry", 0)
      BY <2>1, ReportAdvances DEF SInv
  <2> QED BY <1>1, <2>1, <2>2, QuietSafe DEF Advances
<1>7. ASSUME NEW a \in Attempts, ZombieEnds(a) PROVE SInv'
  <2>1. /\ att' = [att EXCEPT ![a] = Idle] /\ (att[a].pc = "deleted" => TornCompensation)
        /\ UNCHANGED <<session, bound, dropped, launch, wf>>
      BY <1>7 DEF ZombieEnds
  <2>2. att'[a] = Idle /\ \A b \in Attempts : b # a => att'[b] = att[b]
      BY <2>1 DEF SInv
  <2> QED BY <1>1, <2>1, <2>2, QuietSafe
<1> QED BY <1>2, <1>3, <1>4, <1>5, <1>6, <1>7

LEMMA InitSafe == Init => SInv
<1> SUFFICES ASSUME Init PROVE SInv
    OBVIOUS
<1>1. Settled /\ Marked /\ FinalizedIsBound
    BY DEF Init, Settled, Marked, FinalizedIsBound
<1>2. \A a \in Attempts : Locks(a)
    BY DEF Init, Locks, Idle
<1> QED BY <1>1, <1>2, InitLasts DEF SInv

LEMMA StepSafe == ASSUME ~EarlyRequest PROVE SInv /\ [Next]_vars => SInv'
<1> SUFFICES ASSUME SInv, [Next]_vars PROVE SInv'
    OBVIOUS
<1>1. LInv'
    BY StepLasts DEF SInv
<1>2. ASSUME NEW a \in Attempts, Activity(a) PROVE SInv'
    BY <1>1, <1>2, VerifierSafe, FinalizerSafe DEF Activity
<1>3. CASE UNCHANGED vars
  <2>1. UNCHANGED <<session, bound, dropped, att>> /\ wf' = wf /\ launch' = launch
      BY <1>3 DEF vars, temporal, store
  <2>2. session.payload # 0 => wf["verify"] = Closed /\ ~launch["verify"]
      BY DEF SInv, Settled, VerifierAtRest
  <2> QED BY <1>1, <2>1, <2>2, QuietSafe
<1> QED BY <1>1, <1>2, <1>3, ApiSafe, TemporalSafe DEF Next

LEMMA SafeHolds == ASSUME ~EarlyRequest PROVE Spec => []SInv
<1>1. SInv /\ [Next]_vars => SInv'
    BY StepSafe
<1> QED BY <1>1, InitSafe, PTL DEF Spec

\* asset_finalization_activity.py:86-106, 278-308.  Session, blob and version rows agree:
\* finalized exactly when bound, even if a compensation dies between delete and mark.
THEOREM FinalizedMeansBound == ASSUME ~EarlyRequest PROVE Spec => []FinalizedIsBound
<1>1. SInv => FinalizedIsBound
    BY DEF SInv
<1> QED BY <1>1, SafeHolds, PTL

\* asset_finalization_activity.py:264-291.  However attempts are lost, retried, timed out
\* or replayed, compensation deletes no file that an asset version is bound to.
THEOREM BoundStays ==
    ASSUME ~EarlyRequest, ~TornCompensation
    PROVE  Spec => []BoundObjectKept
<1>1. SInv => BoundObjectKept
  <2> SUFFICES ASSUME SInv, bound # 0 PROVE bound \in Promoted
      BY DEF BoundObjectKept
  <2>1. bound \in Copies /\ copies[bound] # 0
      BY DEF SInv, LInv, Base, TypeOK, Bound
  <2>2. session.state = "finalized"
      BY DEF SInv, FinalizedIsBound
  <2>3. Unlocked
      BY <2>2 DEF SInv, Locks, Unlocked
  <2>4. dropped = {}
      BY <2>2, <2>3 DEF SInv, Marked
  <2> QED BY <2>1, <2>4 DEF Promoted
<1> QED BY <1>1, SafeHolds, PTL
-----------------------------------------------------------------------------
(* Two states the session does not leave. *)

Stays == /\ session.state = "cancelled" => session'.state \in {"cancelled", "quarantined"}
         /\ session.state = "finalized" => session'.state = "finalized"

LEMMA VerifierStays ==
    ASSUME SInv, NEW a \in Attempts, Verification(a) \/ Scanning(a)
    PROVE  Stays
<1> USE DEF Session
<1>0. session \in Session
    BY DEF SInv, LInv, Base, TypeOK
<1>1. att[a].phase \in Of("verify")
    BY DEF Verification, MoveToVerifying, HeadStaging, HashStaging, RejectUpload,
           RecordVerified, Scanning, StartScan, ScanStaging, FailScan, RecordClean,
           QuarantineUpload, RecordInfected, RemoveInfected, At, Of
<1>2. session.state # "finalized"
    BY <1>1, VerifierIsEarly, NothingYet DEF SInv, FinalizedIsBound
<1>3. CASE Verification(a)
    BY <1>0, <1>2, <1>3 DEF Stays, Verification, MoveToVerifying, HeadStaging, HashStaging,
                            RejectUpload, Rejected, RecordVerified
<1>4. CASE Scanning(a)
    BY <1>0, <1>2, <1>4 DEF Stays, Scanning, StartScan, ScanStaging, FailScan, FailedScan,
                            RecordClean, QuarantineUpload, RecordInfected, RemoveInfected
<1> QED BY <1>3, <1>4

LEMMA FinalizerStays ==
    ASSUME SInv, NEW a \in Attempts, Finalization(a)
    PROVE  Stays
<1> USE DEF Session
<1>0. session \in Session
    BY DEF SInv, LInv, Base, TypeOK
<1>1. att[a].phase \in Of("finalize")
    BY DEF Finalization, HeadDestination, CopyVerified, Commit, DeleteStaged, RecordCleanup,
           MarkCleanupFailed, FailFinalization, CompensateDelete, CompensateMark, At, Of
<1>2. session.state # "cancelled"
    BY <1>1, FinalizerIsLate DEF SInv, Settled
<1>3. CASE CompensateMark(a)
  <2>1. session.state # "finalized"
      BY <1>3 DEF CompensateMark, At, SInv, Locks
  <2> QED BY <1>2, <2>1 DEF Stays
<1>4. CASE ~CompensateMark(a)
    BY <1>0, <1>2, <1>4 DEF Stays, Finalization, HeadDestination, CopyVerified, Commit,
                            DeleteStaged, RecordCleanup, MarkCleanupFailed, FailFinalization,
                            Spared, CompensateDelete
<1> QED BY <1>3, <1>4

LEMMA StepStays == SInv /\ [Next]_vars => Stays
<1> SUFFICES ASSUME SInv, [Next]_vars PROVE Stays
    OBVIOUS
<1>1. ASSUME NEW a \in Attempts, Activity(a) PROVE Stays
    BY <1>1, VerifierStays, FinalizerStays DEF Activity
<1>2. CASE Expire \/ Complete \/ Cancel \/ RequestFinalize
    BY <1>2 DEF Stays, Expire, Complete, Cancel, RequestFinalize,
                 SInv, LInv, Base, TypeOK, Session
<1>3. CASE session' = session
    BY <1>3 DEF Stays
<1>4. CASE Upload \/ ReplayComplete \/ ReplayFinalize \/ DeliverCancel \/ LoseCancel
    BY <1>3, <1>4 DEF Upload, ReplayComplete, ReplayFinalize, DeliverCancel, LoseCancel
<1>5. ASSUME NEW w \in Flows, Launch(w) \/ LoseLaunch(w) \/ Schedule(w) PROVE Stays
    BY <1>3, <1>5 DEF Launch, LoseLaunch, Schedule
<1>6. ASSUME NEW a \in Attempts, AttemptLost(a) \/ Timeout(a) \/ ZombieEnds(a) PROVE Stays
    BY <1>3, <1>6 DEF AttemptLost, Timeout, ZombieEnds
<1>7. CASE UNCHANGED vars
    BY <1>3, <1>7 DEF vars
<1> QED BY <1>1, <1>2, <1>4, <1>5, <1>6, <1>7 DEF Next

\* asset_verification_activity.py:51, 121, asset_scan_activity.py:129, 174.  No attempt, of
\* either workflow and however late, revives a cancelled session.
THEOREM CancelIsFinal == ASSUME ~EarlyRequest PROVE Spec => CancelHolds
<1>1. SInv /\ [Next]_vars =>
          [session.state = "cancelled" => session'.state \in {"cancelled", "quarantined"}]_vars
    BY StepStays DEF Stays
<1> QED BY <1>1, SafeHolds, PTL DEF Spec, CancelHolds

LEMMA StepKeepsBound == ASSUME ~EarlyRequest, ~TornCompensation PROVE
    SInv /\ [Next]_vars => [bound # 0 /\ bound \notin dropped => bound \notin dropped']_vars
<1> SUFFICES ASSUME SInv, [Next]_vars, bound # 0 PROVE bound \notin dropped'
    OBVIOUS
<1>1. SInv'
    BY StepSafe
<1>2. session'.state = "finalized"
    BY StepStays DEF SInv, FinalizedIsBound, Stays
<1>3. Unlocked'
    BY <1>1, <1>2 DEF SInv, Locks, Unlocked
<1> QED BY <1>1, <1>2, <1>3 DEF SInv, Marked

\* docs/en/getting-started.md:109-110.  What the document says of a commit failure is true
\* of the code but for the two cases that the flags admit.
THEOREM OnlyUnboundIsRemoved ==
    ASSUME ~EarlyRequest, ~TornCompensation
    PROVE  Spec => RemovesOnlyUnbound
BY StepKeepsBound, SafeHolds, PTL DEF Spec, RemovesOnlyUnbound
=============================================================================
