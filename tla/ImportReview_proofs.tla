------------------------- MODULE ImportReview_proofs -------------------------
(***************************************************************************)
(* Proofs about ImportReview for any rows, mappings, sets and attempts:    *)
(* the state is well typed, rows under review belong to the mapping under  *)
(* review, an accepted apply keeps an approved set, what is left of its    *)
(* plan follows those rows, a cancel holds, and the review implements      *)
(* ReviewGate.                                                             *)
(***************************************************************************)
EXTENDS ImportReview, TLAPS

-----------------------------------------------------------------------------
(* The inductive invariant. *)

\* An attempt past its start has a mapping, one past its snapshot the snapshot; an
\* attempt that is awaited is the only one of a workflow that is open and still tries.
Attempting ==
    /\ \A a \in Attempts :
          /\ val[a].pc # "idle" => val[a].mapping \in 1 .. MaxMappings
          /\ val[a].pc = "parsed" => val[a].rows \in [Rows -> Nat]
          /\ val[a].live => val[a].mapping \in open \ failing
    /\ \A a, b \in Attempts :
          a # b /\ val[a].live /\ val[b].live => val[a].mapping # val[b].mapping

\* What is selected or being decided exists; a set that writes active versions asks
\* for approval.
Selecting ==
    /\ job.selected \in 0 .. Len(sets) /\ deciding \in 0 .. Len(sets)
    /\ \A s \in 1 .. Len(sets) : Active(sets[s]) => sets[s].approval # "not_required"

\* Once apply was accepted the job is never under review again.
Applying ==
    job.applyKey =>
        /\ job.status \in {"applying", "failed", "cancelled"}
        /\ job.selected # 0
        /\ Active(sets[job.selected]) => sets[job.selected].approval = "approved"

IInv == TypeOK /\ Attempting /\ Selecting /\ Applying /\ StagedUnderMapping

LEMMA Bounds == /\ N \in Nat /\ MaxMappings \in Nat /\ MaxSets \in Nat
                /\ MaxEdits \in Nat /\ MaxTimeouts \in Nat
BY BoundAssumption

LEMMA InitIInv == Init => IInv
<1> SUFFICES ASSUME Init PROVE IInv
    OBVIOUS
<1>1. job \in Job
    BY Bounds DEF Init, Job, JobStatus
<1>2. Idle \in Attempt
    BY Bounds DEF Idle, Attempt
<1>3. TypeOK
    BY <1>1, <1>2, Bounds DEF Init, TypeOK
<1>4. Attempting
    BY DEF Init, Attempting, Idle
<1>5. Selecting /\ Applying /\ StagedUnderMapping
    BY DEF Init, Selecting, Applying, StagedUnderMapping
<1> QED BY <1>3, <1>4, <1>5 DEF IInv

-----------------------------------------------------------------------------
(* Steps of the validation workflows leave the change sets alone, except for  *)
(* the operations that staging takes from them.                               *)

\* What a step owes to the attempts when it touches no job row.
LEMMA ValidationFrame ==
    ASSUME IInv, UNCHANGED <<jobVars, deciding>>, policy' \in BOOLEAN,
           current' \in [Rows -> Nat], edits' \in 0 .. MaxEdits,
           timeouts' \in 0 .. MaxTimeouts, asked' \subseteq 1 .. MaxMappings,
           open' \subseteq asked', failing' \subseteq open',
           val' \in [Attempts -> Attempt], Attempting'
    PROVE  IInv'
<1>1. job' = job /\ staged' = staged /\ sets' = sets /\ deciding' = deciding
    BY DEF jobVars
<1>2. TypeOK'
    BY <1>1 DEF IInv, TypeOK
<1>3. Selecting' /\ Applying' /\ StagedUnderMapping'
    BY <1>1 DEF IInv, Selecting, Applying, StagedUnderMapping, Active
<1> QED BY <1>2, <1>3 DEF IInv

\* An attempt that ends or changes its place without becoming another's rival.
LEMMA AttemptFrame ==
    ASSUME IInv, NEW a \in Attempts, NEW v \in Attempt, val' = [val EXCEPT ![a] = v],
           v.pc # "idle" => v.mapping \in 1 .. MaxMappings,
           v.pc = "parsed" => v.rows \in [Rows -> Nat],
           v.live => val[a].live /\ v.mapping = val[a].mapping,
           \/ open' = open /\ failing' = failing
           \/ /\ val[a].live /\ ~v.live
              /\ \/ open' = open \ {val[a].mapping} /\ failing' = failing
                 \/ open' = open /\ failing' = failing \cup {val[a].mapping}
    PROVE  /\ val' \in [Attempts -> Attempt] /\ Attempting'
           /\ open' \subseteq open /\ failing' \subseteq open'
<1>1. Attempting /\ val \in [Attempts -> Attempt] /\ failing \subseteq open
    BY DEF IInv, TypeOK
<1>2. val' \in [Attempts -> Attempt] /\ val'[a] = v
      /\ \A b \in Attempts \ {a} : val'[b] = val[b]
    BY <1>1
<1>3. \A b \in Attempts \ {a} :
          val[a].live /\ val[b].live => val[a].mapping # val[b].mapping
    BY <1>1 DEF Attempting
<1>4. val[a].live => val[a].mapping \in open \ failing
    BY <1>1 DEF Attempting
<1>5. open' \subseteq open /\ failing' \subseteq open'
    BY <1>1, <1>4
<1>6. ASSUME NEW b \in Attempts
      PROVE  /\ val'[b].pc # "idle" => val'[b].mapping \in 1 .. MaxMappings
             /\ val'[b].pc = "parsed" => val'[b].rows \in [Rows -> Nat]
             /\ val'[b].live => val'[b].mapping \in open' \ failing'
  <2>1. CASE b = a
      BY <1>2, <1>4, <2>1
  <2>2. CASE b # a
      BY <1>1, <1>2, <1>3, <2>2 DEF Attempting
  <2> QED BY <2>1, <2>2
<1>7. ASSUME NEW b \in Attempts, NEW c \in Attempts, b # c, val'[b].live, val'[c].live
      PROVE  val'[b].mapping # val'[c].mapping
    BY <1>1, <1>2, <1>7 DEF Attempting
<1> QED BY <1>2, <1>5, <1>6, <1>7 DEF Attempting

LEMMA IdleType == Idle \in Attempt /\ Idle.pc = "idle" /\ Idle.live = FALSE
BY Bounds DEF Idle, Attempt

LEMMA ReturnFrame ==
    ASSUME IInv, NEW a \in Attempts, Return(a), failing' = failing
    PROVE  /\ val' \in [Attempts -> Attempt] /\ Attempting'
           /\ open' \subseteq open /\ failing' \subseteq open'
<1>1. val' = [val EXCEPT ![a] = Idle]
    BY DEF Return
<1>2. CASE val[a].live
    BY <1>1, <1>2, IdleType, AttemptFrame DEF Return
<1>3. CASE ~val[a].live
    BY <1>1, <1>3, IdleType, AttemptFrame DEF Return
<1> QED BY <1>2, <1>3

LEMMA BeginAttemptInv ==
    ASSUME IInv, NEW a \in Attempts, NEW m \in 1 .. MaxMappings, BeginAttempt(a, m)
    PROVE  IInv'
<1> DEFINE v == [pc |-> "load", mapping |-> m, rows |-> None, live |-> TRUE]
<1>1. v \in Attempt
    BY Bounds DEF Attempt
<1>2. /\ v.pc = "load" /\ v.mapping = m /\ v.live = TRUE
      /\ val' = [val EXCEPT ![a] = v] /\ m \in open \ failing
      /\ \A b \in Attempts : val[b].live => val[b].mapping # m
      /\ UNCHANGED <<jobVars, policy, current, asked, open, failing, deciding, edits, timeouts>>
    BY DEF BeginAttempt
<1>3. TypeOK /\ Attempting /\ val \in [Attempts -> Attempt]
    BY DEF IInv, TypeOK
<1> HIDE DEF v
<1>4. val' \in [Attempts -> Attempt] /\ val'[a] = v
      /\ \A b \in Attempts \ {a} : val'[b] = val[b]
    BY <1>1, <1>2, <1>3
<1>5. ASSUME NEW b \in Attempts
      PROVE  /\ val'[b].pc # "idle" => val'[b].mapping \in 1 .. MaxMappings
             /\ val'[b].pc = "parsed" => val'[b].rows \in [Rows -> Nat]
             /\ val'[b].live => val'[b].mapping \in open' \ failing'
  <2>1. CASE b = a
      BY <1>2, <1>4, <2>1
  <2>2. CASE b # a
      BY <1>2, <1>3, <1>4, <2>2 DEF Attempting
  <2> QED BY <2>1, <2>2
<1>6. ASSUME NEW b \in Attempts, NEW c \in Attempts, b # c, val'[b].live, val'[c].live
      PROVE  val'[b].mapping # val'[c].mapping
    BY <1>2, <1>3, <1>4, <1>6 DEF Attempting
<1>7. Attempting'
    BY <1>5, <1>6 DEF Attempting
<1> QED BY <1>2, <1>3, <1>4, <1>7, ValidationFrame DEF TypeOK

LEMMA LaunchInv ==
    ASSUME IInv, NEW m \in 1 .. MaxMappings, LaunchValidation(m)
    PROVE  IInv'
<1>1. /\ m \in asked \ open /\ open' = open \cup {m} /\ failing' = failing /\ val' = val
      /\ UNCHANGED <<jobVars, policy, current, asked, deciding, edits, timeouts>>
    BY DEF LaunchValidation
<1>2. TypeOK /\ Attempting
    BY DEF IInv
<1>3. Attempting'
    BY <1>1, <1>2 DEF Attempting
<1> QED BY <1>1, <1>2, <1>3, ValidationFrame DEF TypeOK

LEMMA AttemptEndsInv ==
    ASSUME IInv, NEW a \in Attempts, AttemptEnds(a)
    PROVE  IInv'
<1>1. /\ val' = [val EXCEPT ![a] = Idle]
      /\ UNCHANGED <<jobVars, policy, current, asked, open, deciding, edits, timeouts>>
      /\ failing' = failing \/ (val[a].live /\ failing' = failing \cup {val[a].mapping})
    BY DEF AttemptEnds, RetryOrGiveUp
<1>2. /\ val' \in [Attempts -> Attempt] /\ Attempting' /\ failing' \subseteq open'
    BY <1>1, IdleType, AttemptFrame
<1> QED BY <1>1, <1>2, ValidationFrame DEF IInv, TypeOK

LEMMA TimeoutInv ==
    ASSUME IInv, NEW a \in Attempts, Timeout(a)
    PROVE  IInv'
<1> DEFINE v == [val[a] EXCEPT !.live = FALSE]
<1>1. val[a] \in Attempt /\ val[a].live
    BY DEF IInv, TypeOK, Timeout
<1>2. v \in Attempt /\ v.pc = val[a].pc /\ v.mapping = val[a].mapping /\ v.rows = val[a].rows
      /\ v.live = FALSE
    BY <1>1 DEF Attempt
<1>3. /\ val' = [val EXCEPT ![a] = v]
      /\ UNCHANGED <<jobVars, policy, current, asked, open, deciding, edits>>
      /\ failing' = failing \/ failing' = failing \cup {val[a].mapping}
    BY DEF Timeout, RetryOrGiveUp
<1>4. timeouts' \in 0 .. MaxTimeouts
    BY Bounds DEF Timeout, IInv, TypeOK
<1>5. /\ val[a].pc # "idle" => val[a].mapping \in 1 .. MaxMappings
      /\ val[a].pc = "parsed" => val[a].rows \in [Rows -> Nat]
    BY DEF IInv, Attempting
<1> HIDE DEF v
<1>6. val' \in [Attempts -> Attempt] /\ Attempting' /\ failing' \subseteq open'
    BY <1>1, <1>2, <1>3, <1>5, AttemptFrame
<1> QED BY <1>3, <1>4, <1>6, ValidationFrame DEF IInv, TypeOK

LEMMA LoadInv ==
    ASSUME IInv, NEW a \in Attempts, LoadAndSnapshot(a)
    PROVE  IInv'
<1>1. UNCHANGED <<jobVars, policy, current, asked, failing, deciding, edits, timeouts>>
    BY DEF LoadAndSnapshot
<1>2. CASE Return(a)
    BY <1>1, <1>2, ReturnFrame, ValidationFrame DEF IInv, TypeOK
<1>3. CASE val' = [val EXCEPT ![a].pc = "parsed", ![a].rows = current] /\ open' = open
  <2> DEFINE v == [val[a] EXCEPT !.pc = "parsed", !.rows = current]
  <2>1. val[a] \in Attempt /\ current \in [Rows -> Nat] /\ val[a].pc = "load"
      BY DEF IInv, TypeOK, LoadAndSnapshot
  <2>2. v \in Attempt /\ v.pc = "parsed" /\ v.mapping = val[a].mapping /\ v.rows = current
        /\ v.live = val[a].live
      BY <2>1 DEF Attempt
  <2>3. val' = [val EXCEPT ![a] = v]
      BY <1>3 DEF IInv, TypeOK
  <2>4. val[a].mapping \in 1 .. MaxMappings
      BY <2>1 DEF IInv, Attempting
  <2> HIDE DEF v
  <2>5. val' \in [Attempts -> Attempt] /\ Attempting' /\ failing' \subseteq open'
      BY <1>1, <1>3, <2>1, <2>2, <2>3, <2>4, AttemptFrame
  <2> QED BY <1>1, <1>3, <2>5, ValidationFrame DEF IInv, TypeOK
<1> QED BY <1>2, <1>3 DEF LoadAndSnapshot

LEMMA StageInv ==
    ASSUME IInv, NEW a \in Attempts, Stage(a), Return(a), val[a].pc = "parsed",
           job.status = "validating", job.mapping = val[a].mapping,
           UNCHANGED <<policy, current, asked, failing, deciding, edits, timeouts>>
    PROVE  IInv'
<1>1. TypeOK /\ Attempting /\ Selecting /\ Applying
    BY DEF IInv
<1>2. val[a].rows \in [Rows -> Nat] /\ val[a].mapping \in 1 .. MaxMappings
    BY <1>1 DEF Attempting
<1>3. staged' \in Staging /\ staged'.mapping = val[a].mapping
    BY <1>2 DEF Stage, Staging, StagedRow
<1>4. /\ job' \in Job /\ job'.status = "ready_for_review" /\ job'.mapping = job.mapping
      /\ job'.selected = job.selected /\ job'.applyKey = job.applyKey
    BY <1>1 DEF Stage, TypeOK, Job, JobStatus
<1>5. /\ sets' \in Seq(ChangeSet) /\ Len(sets') = Len(sets)
      /\ \A s \in 1 .. Len(sets) :
            sets'[s].plan = sets[s].plan /\ sets'[s].approval = sets[s].approval
  <2>1. sets \in Seq(ChangeSet)
      BY <1>1 DEF TypeOK
  <2>2. \A s \in 1 .. Len(sets) : sets[s] \in ChangeSet
      BY <2>1
  <2> DEFINE Gone(set) == [set EXCEPT !.gone = TRUE]
  <2>3. \A s \in 1 .. Len(sets) : /\ Gone(sets[s]) \in ChangeSet
                                 /\ Gone(sets[s]).plan = sets[s].plan
                                 /\ Gone(sets[s]).approval = sets[s].approval
      BY <2>2 DEF ChangeSet
  <2>4. sets' = [s \in 1 .. Len(sets) |-> Gone(sets[s])]
      BY DEF Stage
  <2> HIDE DEF Gone
  <2> QED BY <2>1, <2>3, <2>4
<1>6. val' \in [Attempts -> Attempt] /\ Attempting' /\ open' \subseteq open
      /\ failing' \subseteq open'
    BY ReturnFrame
<1>7. TypeOK'
    BY <1>1, <1>3, <1>4, <1>5, <1>6 DEF TypeOK
<1>8. Selecting'
    BY <1>1, <1>4, <1>5 DEF Selecting, Active
<1>9. Applying'
    BY <1>1, <1>4 DEF Applying
<1>10. StagedUnderMapping'
    BY <1>3, <1>4, StagingAssumption DEF StagedUnderMapping
<1> QED BY <1>6, <1>7, <1>8, <1>9, <1>10 DEF IInv

LEMMA PersistInv ==
    ASSUME IInv, NEW a \in Attempts, PersistResult(a)
    PROVE  IInv'
<1>1. /\ val[a].pc = "parsed" /\ Return(a)
      /\ UNCHANGED <<policy, current, asked, failing, deciding, edits, timeouts>>
    BY DEF PersistResult
<1>2. CASE UNCHANGED jobVars
    BY <1>1, <1>2, ReturnFrame, ValidationFrame DEF IInv, TypeOK
<1>3. CASE job.status = "validating" /\ job.mapping = val[a].mapping /\ Stage(a)
    BY <1>1, <1>3, StageInv
<1> QED BY <1>2, <1>3 DEF PersistResult

\* A failure record, whatever else becomes of the attempts.
LEMMA FailInv ==
    ASSUME IInv, Fail,
           UNCHANGED <<staged, sets, policy, current, asked, deciding, edits, timeouts>>,
           val' \in [Attempts -> Attempt], Attempting', open' \subseteq open,
           failing' \subseteq open'
    PROVE  IInv'
<1>1. TypeOK /\ Selecting /\ Applying /\ StagedUnderMapping
    BY DEF IInv
<1>2. /\ job' \in Job /\ job'.mapping = job.mapping /\ job'.selected = job.selected
      /\ job'.applyKey = job.applyKey /\ job'.status \in {"cancelled", "failed"}
    BY <1>1 DEF Fail, TypeOK, Job, JobStatus
<1>3. TypeOK'
    BY <1>1, <1>2 DEF TypeOK
<1>4. Selecting' /\ Applying' /\ StagedUnderMapping'
    BY <1>1, <1>2 DEF Selecting, Applying, StagedUnderMapping, Active
<1> QED BY <1>3, <1>4 DEF IInv

LEMMA FailValidationInv ==
    ASSUME IInv, NEW m \in 1 .. MaxMappings, FailValidation(m)
    PROVE  IInv'
<1>1. /\ m \in failing /\ Fail /\ open' = open \ {m} /\ failing' = failing \ {m} /\ val' = val
      /\ UNCHANGED <<staged, sets, policy, current, asked, deciding, edits, timeouts>>
    BY DEF FailValidation
<1>2. Attempting /\ val \in [Attempts -> Attempt] /\ failing \subseteq open
    BY DEF IInv, TypeOK
<1>3. Attempting'
    BY <1>1, <1>2 DEF Attempting
<1> QED BY <1>1, <1>2, <1>3, FailInv

-----------------------------------------------------------------------------
(* Steps of the API. *)

\* They touch no attempt.
LEMMA ApiFrame ==
    ASSUME IInv, UNCHANGED <<policy, current, open, failing, val, edits, timeouts>>,
           job' \in Job, sets' \in Seq(ChangeSet), Len(sets') <= MaxSets,
           staged' = staged, asked' \subseteq 1 .. MaxMappings, open \subseteq asked',
           Selecting', Applying', StagedUnderMapping'
    PROVE  IInv'
<1>1. TypeOK /\ Attempting
    BY DEF IInv
<1>2. Attempting'
    BY <1>1 DEF Attempting
<1>3. deciding' \in 0 .. MaxSets
    BY Bounds DEF Selecting
<1>4. TypeOK'
    BY <1>1, <1>3 DEF TypeOK
<1> QED BY <1>2, <1>4 DEF IInv

\* A step that writes the job row only.
LEMMA JobFrame ==
    ASSUME IInv, UNCHANGED <<policy, current, open, failing, val, edits, timeouts>>,
           job' \in Job, staged' = staged, sets' = sets, deciding' = deciding,
           asked' \subseteq 1 .. MaxMappings, open \subseteq asked',
           job'.selected = job.selected, Applying', StagedUnderMapping'
    PROVE  IInv'
<1>1. sets \in Seq(ChangeSet) /\ Len(sets) <= MaxSets /\ Selecting
    BY DEF IInv, TypeOK
<1>2. Selecting'
    BY <1>1 DEF Selecting, Active
<1> QED BY <1>1, <1>2, ApiFrame

LEMMA CreateMappingInv == ASSUME IInv, CreateMapping PROVE IInv'
<1>1. TypeOK /\ Applying /\ UNCHANGED <<staged, sets, policy, current, valVars, deciding,
                                        edits, timeouts>>
    BY DEF IInv, CreateMapping
<1>2. /\ job' \in Job /\ job'.status = "ready_for_mapping" /\ job'.selected = job.selected
      /\ job'.applyKey = job.applyKey
  <2>1. job \in Job /\ job.mapping \in Nat /\ job.mapping + 1 \in 0 .. MaxMappings
      BY Bounds DEF CreateMapping, IInv, TypeOK, Job
  <2>2. job' = [job EXCEPT !.status = "ready_for_mapping", !.mapping = job.mapping + 1]
      BY DEF CreateMapping
  <2> QED BY <2>1, <2>2 DEF Job, JobStatus
<1>3. ~job.applyKey
    BY <1>1 DEF Applying, CreateMapping
<1>4. Applying' /\ StagedUnderMapping'
    BY <1>2, <1>3 DEF Applying, StagedUnderMapping
<1> QED BY <1>1, <1>2, <1>4, JobFrame DEF valVars, TypeOK

LEMMA StartValidationInv == ASSUME IInv, StartValidation PROVE IInv'
<1>1. /\ TypeOK /\ Applying /\ job.mapping # 0 /\ job.status = "ready_for_mapping"
      /\ asked' = asked \cup {job.mapping}
      /\ UNCHANGED <<staged, sets, policy, current, open, failing, val, deciding, edits, timeouts>>
    BY DEF IInv, StartValidation
<1>2. /\ job' \in Job /\ job'.status = "validating" /\ job'.selected = job.selected
      /\ job'.applyKey = job.applyKey
    BY <1>1 DEF StartValidation, TypeOK, Job, JobStatus
<1>3. job.mapping \in 1 .. MaxMappings
    BY <1>1, Bounds DEF TypeOK, Job
<1>4. asked' \subseteq 1 .. MaxMappings /\ open \subseteq asked'
    BY <1>1, <1>3 DEF TypeOK
<1>5. Applying' /\ StagedUnderMapping'
    BY <1>1, <1>2 DEF Applying, StagedUnderMapping
<1> QED BY <1>1, <1>2, <1>4, <1>5, JobFrame

LEMMA PlannedType ==
    ASSUME NEW row \in StagedRow, NEW now \in Nat
    PROVE  PlannedOperation(row, now) \in Operation
<1>1. row.kind \in {"draft", "active", "invalid", "conflict"} /\ row.target \in Nat
    BY KindAssumption DEF StagedRow
<1> QED BY <1>1 DEF PlannedOperation, Operation

LEMMA SupersededType ==
    ASSUME NEW set \in ChangeSet
    PROVE  /\ Superseded(set) \in ChangeSet /\ Superseded(set).plan = set.plan
           /\ Superseded(set).approval = set.approval
           /\ Superseded(set).gone = set.gone /\ Superseded(set).mapping = set.mapping
BY DEF Superseded, ChangeSet

LEMMA CreateChangeSetInv == ASSUME IInv, CreateChangeSet PROVE IInv'
<1> DEFINE plan == [r \in Rows |-> PlannedOperation(staged.rows[r], current[r])]
           active == \E r \in Rows : plan[r].active
           new == [mapping |-> job.mapping, status |-> "ready_for_review", plan |-> plan,
                   approval |-> IF active THEN "pending" ELSE "not_required", gone |-> FALSE]
           old == [s \in 1 .. Len(sets) |-> Superseded(sets[s])]
<1>1. TypeOK /\ Selecting /\ Applying /\ StagedUnderMapping /\ job.status = "ready_for_review"
    BY DEF IInv, CreateChangeSet
<1>2. /\ staged # None /\ Len(sets) < MaxSets /\ sets' = Append(old, new)
      /\ job' = [job EXCEPT !.selected = Len(sets) + 1]
      /\ UNCHANGED <<staged, policy, current, valVars, deciding, edits, timeouts>>
    BY DEF CreateChangeSet, PlanChangeSet
<1>3. staged \in Staging /\ job.mapping \in 1 .. MaxMappings
    BY <1>1, <1>2 DEF TypeOK, StagedUnderMapping, Staging
<1>4. plan \in [Rows -> Operation]
    BY <1>1, <1>3, PlannedType DEF TypeOK, Staging
<1>5. new.plan = plan /\ new.approval = IF active THEN "pending" ELSE "not_required"
    OBVIOUS
<1> HIDE DEF plan
<1>6. new \in ChangeSet
    BY <1>3, <1>4 DEF ChangeSet
<1>7. Active(new) => new.approval # "not_required"
    BY <1>5 DEF Active
<1> HIDE DEF new
<1>8. sets \in Seq(ChangeSet) /\ Len(sets) \in Nat
    BY <1>1 DEF TypeOK
<1>9. old \in Seq(ChangeSet) /\ Len(old) = Len(sets)
      /\ \A s \in 1 .. Len(sets) : old[s].plan = sets[s].plan /\ old[s].approval = sets[s].approval
    BY <1>8, SupersededType
<1> HIDE DEF old
<1>10. /\ sets' \in Seq(ChangeSet) /\ Len(sets') = Len(sets) + 1 /\ sets'[Len(sets) + 1] = new
       /\ \A s \in 1 .. Len(sets) : sets'[s] = old[s]
    BY <1>2, <1>6, <1>8, <1>9
<1>11. /\ job' \in Job /\ job'.selected = Len(sets) + 1 /\ job'.status = job.status
       /\ job'.mapping = job.mapping /\ job'.applyKey = job.applyKey
  <2>1. job \in Job /\ Len(sets) + 1 \in 0 .. MaxSets
      BY <1>1, <1>2, <1>8, Bounds DEF TypeOK
  <2> QED BY <1>2, <2>1 DEF Job
<1>12. Selecting'
  <2>1. ASSUME NEW s \in 1 .. Len(sets'), Active(sets'[s]) PROVE sets'[s].approval # "not_required"
    <3>1. CASE s = Len(sets) + 1
        BY <1>7, <1>10, <2>1, <3>1
    <3>2. CASE s # Len(sets) + 1
      <4>1. s \in 1 .. Len(sets)
          BY <1>8, <1>10, <3>2
      <4>2. sets'[s].plan = sets[s].plan /\ sets'[s].approval = sets[s].approval
          BY <1>9, <1>10, <4>1
      <4> QED BY <1>1, <2>1, <4>1, <4>2 DEF Selecting, Active
    <3> QED BY <3>1, <3>2
  <2>2. ASSUME NEW s \in 1 .. Len(sets')
        PROVE  Active(sets[s])' => sets'[s].approval # "not_required"
      BY <2>1 DEF Active
  <2>3. job'.selected \in 0 .. Len(sets') /\ deciding' \in 0 .. Len(sets')
      BY <1>1, <1>2, <1>8, <1>10, <1>11 DEF Selecting
  <2> QED BY <2>2, <2>3 DEF Selecting
<1>13. Applying' /\ StagedUnderMapping'
    BY <1>1, <1>2, <1>11 DEF Applying, StagedUnderMapping
<1>14. Len(sets') <= MaxSets /\ asked' \subseteq 1 .. MaxMappings /\ open \subseteq asked'
       /\ UNCHANGED <<policy, current, open, failing, val, edits, timeouts>>
    BY <1>1, <1>2, <1>8, <1>10, Bounds DEF valVars, TypeOK
<1> QED BY <1>2, <1>10, <1>11, <1>12, <1>13, <1>14, ApiFrame

LEMMA DecideReadInv == ASSUME IInv, DecideRead PROVE IInv'
<1>1. UNCHANGED <<jobVars, policy, current, valVars, edits, timeouts>> /\ deciding' = job.selected
    BY DEF DecideRead
<1>2. TypeOK /\ Selecting /\ Applying /\ StagedUnderMapping
    BY DEF IInv
<1>3. Selecting' /\ Applying' /\ StagedUnderMapping'
    BY <1>1, <1>2 DEF Selecting, Applying, StagedUnderMapping, Active, jobVars
<1> QED BY <1>1, <1>2, <1>3, ApiFrame DEF TypeOK, jobVars, valVars

LEMMA DecideCommitInv == ASSUME IInv, DecideCommit PROVE IInv'
<1>1. /\ deciding # 0 /\ deciding' = 0 /\ job' = job /\ staged' = staged
      /\ UNCHANGED <<policy, current, valVars, edits, timeouts>>
    BY DEF DecideCommit
<1>2. TypeOK /\ Selecting /\ Applying /\ StagedUnderMapping /\ deciding \in 1 .. Len(sets)
    BY <1>1 DEF IInv, Selecting
<1>3. CASE UNCHANGED sets
  <2>1. Selecting' /\ Applying' /\ StagedUnderMapping'
      BY <1>1, <1>2, <1>3 DEF Selecting, Applying, StagedUnderMapping, Active
  <2> QED BY <1>1, <1>2, <1>3, <2>1, ApiFrame DEF TypeOK, valVars
<1>4. ASSUME NEW decision \in {"approved", "rejected"}, sets[deciding].approval = "pending",
             sets' = [sets EXCEPT ![deciding].approval = decision,
                                  ![deciding].status = decision]
      PROVE  IInv'
  <2> DEFINE decided == [sets[deciding] EXCEPT !.approval = decision, !.status = decision]
  <2>1. sets \in Seq(ChangeSet) /\ sets[deciding] \in ChangeSet
      BY <1>2 DEF TypeOK
  <2>2. decided \in ChangeSet /\ decided.plan = sets[deciding].plan /\ decided.approval = decision
      BY <2>1 DEF ChangeSet
  <2>3. sets' = [sets EXCEPT ![deciding] = decided]
      BY <1>4
  <2> HIDE DEF decided
  <2>4. /\ sets' \in Seq(ChangeSet) /\ Len(sets') = Len(sets)
        /\ sets'[deciding] = decided
        /\ \A s \in 1 .. Len(sets) : s # deciding => sets'[s] = sets[s]
      BY <1>2, <2>1, <2>2, <2>3
  <2>5. \A s \in 1 .. Len(sets) : Active(sets'[s]) <=> Active(sets[s])
      BY <2>2, <2>4 DEF Active
  <2>6. \A s \in 1 .. Len(sets) : Active(sets[s])' <=> Active(sets[s])
      BY <2>5 DEF Active
  <2>7. Selecting'
      BY <1>1, <1>2, <2>2, <2>4, <2>6 DEF Selecting
  <2>8. Applying'
    <3>1. CASE job.applyKey
      <4>1. job.selected \in 1 .. Len(sets)
          BY <1>2, <3>1 DEF Selecting, Applying
      <4>2. Active(sets[job.selected]) => sets'[job.selected].approval = "approved"
          BY <1>2, <1>4, <2>4, <3>1, <4>1 DEF Applying
      <4>3. Active(sets[job.selected])' => Active(sets[job.selected])
          BY <1>1, <2>6, <4>1 DEF Active
      <4> QED BY <1>1, <1>2, <3>1, <4>2, <4>3 DEF Applying
    <3>2. CASE ~job.applyKey
        BY <1>1, <3>2 DEF Applying
    <3> QED BY <3>1, <3>2
  <2>9. StagedUnderMapping'
      BY <1>1, <1>2 DEF StagedUnderMapping
  <2> QED BY <1>1, <1>2, <2>4, <2>7, <2>8, <2>9, ApiFrame DEF TypeOK, valVars
<1> QED BY <1>3, <1>4 DEF DecideCommit

LEMMA StartApplyInv == ASSUME IInv, StartApply PROVE IInv'
<1>1. /\ TypeOK /\ Selecting /\ job.selected # 0 /\ MayApply(sets[job.selected])
      /\ UNCHANGED <<staged, sets, policy, current, valVars, deciding, edits, timeouts>>
    BY DEF IInv, StartApply
<1>2. /\ job' \in Job /\ job'.status = "applying" /\ job'.selected = job.selected
    BY <1>1 DEF StartApply, TypeOK, Job, JobStatus
<1>3. Active(sets[job.selected]) => sets[job.selected].approval = "approved"
    BY <1>1 DEF Selecting, MayApply
<1>4. Applying' /\ StagedUnderMapping'
    BY <1>1, <1>2, <1>3 DEF Applying, StagedUnderMapping, Active
<1> QED BY <1>1, <1>2, <1>4, JobFrame DEF valVars, TypeOK

LEMMA CancelInv == ASSUME IInv, Cancel PROVE IInv'
<1>1. /\ TypeOK /\ Applying
      /\ UNCHANGED <<staged, sets, policy, current, valVars, deciding, edits, timeouts>>
    BY DEF IInv, Cancel
<1>2. /\ job' \in Job /\ job'.status = "cancelled" /\ job'.selected = job.selected
      /\ job'.applyKey = job.applyKey
    BY <1>1 DEF Cancel, TypeOK, Job, JobStatus
<1>3. Applying' /\ StagedUnderMapping'
    BY <1>1, <1>2 DEF Applying, StagedUnderMapping, Active
<1> QED BY <1>1, <1>2, <1>3, JobFrame DEF valVars, TypeOK

-----------------------------------------------------------------------------
LEMMA StepIInv == IInv /\ [Next]_vars => IInv'
<1> SUFFICES ASSUME IInv, [Next]_vars PROVE IInv'
    OBVIOUS
<1>1. ASSUME NEW a \in Attempts,
             \/ \E m \in 1 .. MaxMappings : BeginAttempt(a, m)
             \/ LoadAndSnapshot(a) \/ PersistResult(a) \/ SourceFailure(a)
             \/ Timeout(a) \/ AttemptEnds(a)
      PROVE  IInv'
  <2>1. ASSUME SourceFailure(a) PROVE IInv'
    <3>1. /\ Fail /\ Return(a) /\ failing' = failing
          /\ UNCHANGED <<staged, sets, policy, current, asked, deciding, edits, timeouts>>
        BY <2>1 DEF SourceFailure
    <3> QED BY <3>1, ReturnFrame, FailInv
  <2> QED BY <1>1, <2>1, BeginAttemptInv, LoadInv, PersistInv, TimeoutInv, AttemptEndsInv
<1>2. ASSUME NEW m \in 1 .. MaxMappings, LaunchValidation(m) \/ FailValidation(m)
      PROVE  IInv'
    BY <1>2, LaunchInv, FailValidationInv
<1>3. CASE RetirePolicy
  <2>1. Attempting' /\ TypeOK
      BY <1>3 DEF RetirePolicy, valVars, IInv, Attempting
  <2> QED BY <1>3, <2>1, ValidationFrame DEF RetirePolicy, valVars, TypeOK
<1>4. ASSUME NEW r \in Rows, OwnerEdit(r) PROVE IInv'
  <2>1. Attempting' /\ TypeOK
      BY <1>4 DEF OwnerEdit, valVars, IInv, Attempting
  <2>2. current' \in [Rows -> Nat] /\ edits' \in 0 .. MaxEdits
      BY <1>4, <2>1, Bounds DEF OwnerEdit, TypeOK
  <2> QED BY <1>4, <2>1, <2>2, ValidationFrame DEF OwnerEdit, valVars, TypeOK
<1>5. CASE UNCHANGED vars
  <2>1. Attempting' /\ TypeOK
      BY <1>5 DEF vars, valVars, IInv, Attempting
  <2> QED BY <1>5, <2>1, ValidationFrame DEF vars, valVars, jobVars, TypeOK
<1> QED BY <1>1, <1>2, <1>3, <1>4, <1>5, CreateMappingInv, StartValidationInv, CreateChangeSetInv,
           DecideReadInv, DecideCommitInv, StartApplyInv, CancelInv DEF Next

LEMMA Invariant == Spec => []IInv
<1> QED BY InitIInv, StepIInv, PTL DEF Spec

\* Job, staging, sets, attempts and the workflows known to be open keep their types
\* (business_imports.py, import_validation_activity.py, import_change_sets.py).
THEOREM TypeCorrect == Spec => []TypeOK
<1>1. IInv => TypeOK
    BY DEF IInv
<1> QED BY <1>1, Invariant, PTL

\* import_validation_activity.py:202.  However many validations outlive their mapping,
\* the rows under review were staged with the mapping under review.
THEOREM ReviewShowsItsMapping == Spec => []StagedUnderMapping
<1>1. IInv => StagedUnderMapping
    BY DEF IInv
<1> QED BY <1>1, Invariant, PTL

\* import_change_sets.py:299-323, 351-354.  The set an accepted apply works from is
\* there and, if it writes active versions, approved.
THEOREM AppliedWasApproved == Spec => []AppliedSetApproved
<1>1. IInv => AppliedSetApproved
    BY DEF IInv, Selecting, Applying, AppliedSetApproved
<1> QED BY <1>1, Invariant, PTL

\* import_change_sets.py:299-323.  No later plan replaces the set apply works from.
SelectionFrozen == [][job.applyKey => job'.selected = job.selected]_vars

\* However plans and an accepted apply meet, the selection then stays as it is.
THEOREM SelectionIsFinal == Spec => SelectionFrozen
<1>1. IInv /\ [Next]_vars => (job.applyKey => job'.selected = job.selected)
  <2> SUFFICES ASSUME IInv, [Next]_vars, job.applyKey PROVE job'.selected = job.selected
      OBVIOUS
  <2>1. job \in Job /\ job.status \in {"applying", "failed", "cancelled"}
      BY DEF IInv, TypeOK, Applying
  <2>2. ~CreateChangeSet
      BY <2>1 DEF CreateChangeSet
  <2> QED BY <2>1, <2>2
          DEF Next, vars, jobVars, CreateMapping, StartValidation, LaunchValidation, BeginAttempt,
              AttemptEnds, Timeout, LoadAndSnapshot, Stage, PersistResult, Fail, SourceFailure,
              FailValidation, DecideRead, DecideCommit, StartApply, Cancel, OwnerEdit,
              RetirePolicy, Job
<1> QED BY <1>1, Invariant, PTL DEF Spec, SelectionFrozen

\* import_validation_activity.py:198-203, 274; business_imports.py:643-671.  Nothing
\* brings a cancelled job back or has it applied.
THEOREM CancelIsFinal == Spec => CancelHolds
<1>1. IInv /\ [Next]_vars => (job.status = "cancelled" =>
          job'.status = "cancelled" /\ job'.applyKey = job.applyKey)
  <2> SUFFICES ASSUME IInv, [Next]_vars, job.status = "cancelled" PROVE job' = job
      OBVIOUS
  <2>1. job \in Job
      BY DEF IInv, TypeOK
  <2> QED BY <2>1
          DEF Next, vars, jobVars, CreateMapping, StartValidation, LaunchValidation, BeginAttempt,
              AttemptEnds, Timeout, LoadAndSnapshot, Stage, PersistResult, Fail, SourceFailure,
              FailValidation, CreateChangeSet, DecideRead, DecideCommit, StartApply, Cancel,
              OwnerEdit, RetirePolicy
<1> QED BY <1>1, Invariant, PTL DEF Spec, CancelHolds

-----------------------------------------------------------------------------
(* What remains of the reviewed plan while its operations are there.  A new *)
(* validation takes them away, so that apply finds nothing to do            *)
(* (AppliedPlanIsReviewed); it never leaves operations of other rows.       *)

FollowsRows(set) == \A r \in Rows :
    /\ set.plan[r].kind = "skip" <=> staged.rows[r].kind = "invalid"
    /\ set.plan[r].kind = "create" => staged.rows[r].target = 0
    /\ set.plan[r].kind = "new_version" => set.plan[r].expected = staged.rows[r].target

Whole(set) ==
    ~set.gone => staged # None /\ set.mapping = staged.mapping /\ FollowsRows(set)

AllWhole == \A s \in 1 .. Len(sets) : Whole(sets[s])

\* What start_apply has seen of staging and plan stays true.
Accepted ==
    job.applyKey =>
        /\ staged # None /\ staged.mapping = job.mapping
        /\ \A r \in Rows : sets[job.selected].plan[r].kind # "conflict"

LEMMA PlannedFollows ==
    ASSUME NEW row \in StagedRow, NEW now \in Nat
    PROVE  LET op == PlannedOperation(row, now)
           IN  /\ op.kind = "skip" <=> row.kind = "invalid"
               /\ op.kind = "create" => row.target = 0
               /\ op.kind = "new_version" => op.expected = row.target
<1>1. row.kind \in {"draft", "active", "invalid", "conflict"} /\ row.target \in Nat
    BY KindAssumption DEF StagedRow
<1> QED BY <1>1 DEF PlannedOperation

\* Sets that keep their rows, mapping and operations stay whole.
LEMMA WholeFrame ==
    ASSUME AllWhole, staged' = staged, Len(sets') = Len(sets),
           \A s \in 1 .. Len(sets) : /\ sets'[s].gone = sets[s].gone
                                     /\ sets'[s].mapping = sets[s].mapping
                                     /\ sets'[s].plan = sets[s].plan
    PROVE  AllWhole'
BY DEF AllWhole, Whole, FollowsRows

LEMMA CreateKeepsWhole == ASSUME IInv, AllWhole, CreateChangeSet PROVE AllWhole'
<1> DEFINE plan == [r \in Rows |-> PlannedOperation(staged.rows[r], current[r])]
           active == \E r \in Rows : plan[r].active
           new == [mapping |-> job.mapping, status |-> "ready_for_review", plan |-> plan,
                   approval |-> IF active THEN "pending" ELSE "not_required", gone |-> FALSE]
           old == [s \in 1 .. Len(sets) |-> Superseded(sets[s])]
<1>1. /\ sets \in Seq(ChangeSet) /\ Len(sets) \in Nat /\ current \in [Rows -> Nat]
      /\ \A s \in 1 .. Len(sets) : sets[s] \in ChangeSet
    BY DEF IInv, TypeOK
<1>2. /\ staged # None /\ sets' = Append(old, new) /\ staged' = staged
      /\ staged.mapping = job.mapping /\ staged \in Staging
    BY DEF CreateChangeSet, PlanChangeSet, IInv, StagedUnderMapping, TypeOK
<1>3. \A r \in Rows :
          /\ plan[r].kind = "skip" <=> staged.rows[r].kind = "invalid"
          /\ plan[r].kind = "create" => staged.rows[r].target = 0
          /\ plan[r].kind = "new_version" => plan[r].expected = staged.rows[r].target
    BY <1>1, <1>2, PlannedFollows DEF Staging
<1>4. new.plan = plan /\ new.mapping = staged.mapping
    BY <1>2
<1> HIDE DEF plan, new
<1>5. /\ Len(old) = Len(sets) /\ old \in Seq(ChangeSet)
      /\ \A s \in 1 .. Len(sets) : /\ old[s].gone = sets[s].gone
                                    /\ old[s].mapping = sets[s].mapping
                                    /\ old[s].plan = sets[s].plan
    BY <1>1, SupersededType
<1> HIDE DEF old
<1>6. /\ Len(sets') = Len(sets) + 1 /\ sets'[Len(sets) + 1] = new
      /\ \A s \in 1 .. Len(sets) : sets'[s] = old[s]
    BY <1>1, <1>2, <1>5
<1>7. ASSUME NEW s \in 1 .. Len(sets'), ~sets'[s].gone
      PROVE  /\ staged # None /\ sets'[s].mapping = staged.mapping
             /\ \A r \in Rows :
                  /\ sets'[s].plan[r].kind = "skip" <=> staged.rows[r].kind = "invalid"
                  /\ sets'[s].plan[r].kind = "create" => staged.rows[r].target = 0
                  /\ sets'[s].plan[r].kind = "new_version" =>
                        sets'[s].plan[r].expected = staged.rows[r].target
  <2>1. CASE s = Len(sets) + 1
      BY <1>2, <1>3, <1>4, <1>6, <2>1
  <2>2. CASE s # Len(sets) + 1
    <3>1. s \in 1 .. Len(sets)
        BY <1>1, <1>6, <2>2
    <3>2. Whole(sets[s]) /\ ~sets[s].gone
        BY <1>5, <1>6, <1>7, <3>1 DEF AllWhole
    <3> QED BY <1>5, <1>6, <3>1, <3>2 DEF Whole, FollowsRows
  <2> QED BY <2>1, <2>2
<1> QED BY <1>2, <1>7 DEF AllWhole, Whole, FollowsRows

\* Staging a new parse takes the operations from the sets, not the approvals.
LEMMA StageKeepsApprovals ==
    ASSUME IInv, NEW a \in Attempts, Stage(a)
    PROVE  /\ Len(sets') = Len(sets)
           /\ \A s \in 1 .. Len(sets) :
                 sets'[s].approval = sets[s].approval /\ sets'[s].gone = TRUE
           /\ job'.selected = job.selected /\ job'.applyKey = job.applyKey
<1>1. job \in Job /\ sets \in Seq(ChangeSet)
    BY DEF IInv, TypeOK
<1>2. \A s \in 1 .. Len(sets) : sets[s] \in ChangeSet
    BY <1>1
<1> DEFINE Gone(set) == [set EXCEPT !.gone = TRUE]
<1>3. \A s \in 1 .. Len(sets) :
          Gone(sets[s]).approval = sets[s].approval /\ Gone(sets[s]).gone = TRUE
    BY <1>2 DEF ChangeSet
<1>4. sets' = [s \in 1 .. Len(sets) |-> Gone(sets[s])]
    BY DEF Stage
<1> HIDE DEF Gone
<1>5. Len(sets) \in Nat
    BY <1>1
<1>6. Len(sets') = Len(sets) /\ \A s \in 1 .. Len(sets) : sets'[s] = Gone(sets[s])
    BY <1>4, <1>5
<1> QED BY <1>1, <1>3, <1>6 DEF Stage, Job

\* Staging marks every set: none has operations left.
LEMMA StageKeepsWhole == ASSUME IInv, NEW a \in Attempts, Stage(a) PROVE AllWhole'
BY StageKeepsApprovals DEF AllWhole, Whole

\* A decision writes neither rows nor operations.
LEMMA DecideKeepsPlans ==
    ASSUME IInv, DecideCommit
    PROVE  /\ staged' = staged /\ job' = job /\ Len(sets') = Len(sets)
           /\ \A s \in 1 .. Len(sets) : /\ sets'[s].gone = sets[s].gone
                                         /\ sets'[s].mapping = sets[s].mapping
                                         /\ sets'[s].plan = sets[s].plan
<1>1. /\ sets \in Seq(ChangeSet) /\ deciding \in 1 .. Len(sets) /\ job' = job
      /\ staged' = staged
    BY DEF IInv, TypeOK, Selecting, DecideCommit
<1>2. ASSUME NEW verdict \in {"approved", "rejected"},
             sets' = [sets EXCEPT ![deciding].approval = verdict,
                                  ![deciding].status = verdict]
      PROVE  /\ Len(sets') = Len(sets)
             /\ \A s \in 1 .. Len(sets) : /\ sets'[s].gone = sets[s].gone
                                           /\ sets'[s].mapping = sets[s].mapping
                                           /\ sets'[s].plan = sets[s].plan
  <2> DEFINE decided == [sets[deciding] EXCEPT !.approval = verdict, !.status = verdict]
  <2>1. sets[deciding] \in ChangeSet
      BY <1>1
  <2>2. /\ decided.gone = sets[deciding].gone /\ decided.plan = sets[deciding].plan
        /\ decided.mapping = sets[deciding].mapping
      BY <2>1 DEF ChangeSet
  <2>3. sets' = [sets EXCEPT ![deciding] = decided]
      BY <1>2
  <2> HIDE DEF decided
  <2> QED BY <1>1, <2>2, <2>3
<1> QED BY <1>1, <1>2 DEF DecideCommit

LEMMA StepWhole ==
    ASSUME IInv, AllWhole, Accepted, [Next]_vars
    PROVE  AllWhole' /\ Accepted'
<1>1. job \in Job /\ (job.applyKey => job.status \in {"applying", "failed", "cancelled"})
    BY DEF IInv, TypeOK, Applying
<1>2. CASE CreateChangeSet
  <2>1. job'.applyKey = FALSE
      BY <1>1, <1>2 DEF IInv, TypeOK, Applying, CreateChangeSet, PlanChangeSet, Job
  <2> QED BY <1>2, <2>1, CreateKeepsWhole DEF Accepted
<1>3. ASSUME NEW a \in Attempts, PersistResult(a), job.status = "validating" PROVE
          AllWhole' /\ Accepted'
  <2>1. Stage(a)
      BY <1>3 DEF PersistResult
  <2>2. job'.applyKey = FALSE
      BY <1>1, <1>3, <2>1, StageKeepsApprovals DEF IInv, TypeOK, Applying, Job
  <2> QED BY <2>1, <2>2, StageKeepsWhole DEF Accepted
<1>4. CASE DecideCommit
  <2>1. AllWhole'
      BY <1>4, DecideKeepsPlans, WholeFrame
  <2>2. job.applyKey => job.selected \in 1 .. Len(sets)
      BY DEF IInv, TypeOK, Selecting, Applying
  <2> QED BY <1>4, <2>1, <2>2, DecideKeepsPlans DEF Accepted
<1>5. CASE StartApply
  <2>1. /\ staged' = staged /\ sets' = sets /\ job'.selected = job.selected
        /\ job'.mapping = job.mapping /\ MayApply(sets[job.selected])
        /\ staged # None /\ staged.mapping = job.mapping
      BY <1>1, <1>5 DEF StartApply, Job, IInv, StagedUnderMapping
  <2> QED BY <2>1, WholeFrame DEF Accepted, MayApply
<1>6. ASSUME UNCHANGED <<sets, staged>>, job'.applyKey = job.applyKey,
             job.applyKey => job'.mapping = job.mapping /\ job'.selected = job.selected
      PROVE  AllWhole' /\ Accepted'
    BY <1>6, WholeFrame DEF Accepted
<1>7. ASSUME NEW a \in Attempts, PersistResult(a), job.status # "validating"
      PROVE  AllWhole' /\ Accepted'
    BY <1>6, <1>7 DEF PersistResult, jobVars
<1>8. ASSUME ~CreateChangeSet, ~DecideCommit, ~StartApply,
             \A a \in Attempts : ~PersistResult(a)
      PROVE  /\ UNCHANGED <<sets, staged>> /\ job'.applyKey = job.applyKey
             /\ job.applyKey => job'.mapping = job.mapping /\ job'.selected = job.selected
    BY <1>1, <1>8
       DEF Next, vars, jobVars, CreateMapping, StartValidation, LaunchValidation, BeginAttempt,
           AttemptEnds, Timeout, LoadAndSnapshot, Fail, SourceFailure, FailValidation,
           DecideRead, Cancel, OwnerEdit, RetirePolicy, Job
<1> QED BY <1>2, <1>3, <1>4, <1>5, <1>6, <1>7, <1>8

WholePlanIsReviewed ==
    job.applyKey =>
        /\ \A r \in Rows : sets[job.selected].plan[r].kind # "conflict"
        /\ ~sets[job.selected].gone =>
              sets[job.selected].mapping = job.mapping /\ FollowsRows(sets[job.selected])

\* docs/en/workspace-onboarding-import-baseline.md:110.  What remains of the document's
\* sentence: a plan that is applied has no conflict and, unless its operations were
\* deleted, was made with the mapping in force, of the rows under review, expecting
\* the versions these were resolved to.
THEOREM AppliedPlanFollowsRows == Spec => []WholePlanIsReviewed
<1>1. Init => AllWhole /\ Accepted
    BY DEF Init, AllWhole, Accepted
<1>2. IInv /\ AllWhole /\ Accepted => WholePlanIsReviewed
    BY DEF IInv, TypeOK, Selecting, Applying, AllWhole, Whole, Accepted, WholePlanIsReviewed
<1> QED BY <1>1, <1>2, StepWhole, Invariant, PTL DEF Spec

-----------------------------------------------------------------------------
(* The review implements the gate. *)

Decisions == [s \in 1 .. MaxSets |-> IF s <= Len(sets) THEN sets[s].approval ELSE "absent"]

\* A step shows nothing through the gate when it leaves the approvals, the selection
\* and the apply key alone.
LEMMA GateStutters ==
    ASSUME IInv, Len(sets') = Len(sets),
           \A s \in 1 .. Len(sets) : sets'[s].approval = sets[s].approval,
           job'.selected = job.selected, job'.applyKey = job.applyKey
    PROVE  UNCHANGED Gate!gateVars
<1>1. Len(sets) \in Nat /\ Len(sets) <= MaxSets
    BY DEF IInv, TypeOK
<1>2. \A s \in 1 .. MaxSets : s <= Len(sets) => sets'[s].approval = sets[s].approval
    BY <1>1, Bounds
<1>3. Decisions' = Decisions
    BY <1>2 DEF Decisions
<1> QED BY <1>3 DEF Gate!gateVars, Decisions

\* A new change set is a plan proposed: the older ones keep their decisions.
LEMMA PlanIsProposed ==
    ASSUME IInv, CreateChangeSet
    PROVE  \E p \in Gate!Plans : Gate!Propose(p)
<1> DEFINE plan == [r \in Rows |-> PlannedOperation(staged.rows[r], current[r])]
           active == \E r \in Rows : plan[r].active
           new == [mapping |-> job.mapping, status |-> "ready_for_review", plan |-> plan,
                   approval |-> IF active THEN "pending" ELSE "not_required", gone |-> FALSE]
           old == [s \in 1 .. Len(sets) |-> Superseded(sets[s])]
           p == Len(sets) + 1
<1>1. /\ sets \in Seq(ChangeSet) /\ Len(sets) \in Nat /\ job \in Job
      /\ \A s \in 1 .. Len(sets) : sets[s] \in ChangeSet
    BY DEF IInv, TypeOK
<1>2. /\ job.status = "ready_for_review" /\ Len(sets) < MaxSets /\ sets' = Append(old, new)
      /\ job' = [job EXCEPT !.selected = p]
    BY DEF CreateChangeSet, PlanChangeSet
<1>3. job.applyKey = FALSE
    BY <1>1, <1>2 DEF IInv, Applying, Job
<1>4. job'.selected = p /\ job'.applyKey = job.applyKey
    BY <1>1, <1>2 DEF Job
<1>5. new.approval \in {"pending", "not_required"}
    OBVIOUS
<1> HIDE DEF new
<1>6. Len(old) = Len(sets) /\ \A s \in 1 .. Len(sets) : old[s].approval = sets[s].approval
      /\ old \in Seq(ChangeSet)
    BY <1>1, SupersededType
<1> HIDE DEF old
<1>7. /\ Len(sets') = p /\ sets'[p].approval = new.approval
      /\ \A s \in 1 .. Len(sets) : sets'[s].approval = sets[s].approval
    BY <1>1, <1>2, <1>6
<1>8. p \in 1 .. MaxSets
    BY <1>1, <1>2, Bounds
<1>9. \A q \in 1 .. MaxSets : q < p => Decisions[q] # "absent"
  <2> SUFFICES ASSUME NEW q \in 1 .. MaxSets, q < p PROVE Decisions[q] # "absent"
      OBVIOUS
  <2>1. q \in 1 .. Len(sets)
      BY <1>1
  <2>2. sets[q].approval # "absent"
      BY <1>1, <2>1 DEF ChangeSet
  <2> QED BY <2>1, <2>2 DEF Decisions
<1>10. Decisions[p] = "absent"
    BY <1>1, <1>8 DEF Decisions
<1>11. Decisions' = [Decisions EXCEPT ![p] = new.approval]
  <2>1. \A s \in 1 .. MaxSets :
            Decisions'[s] = IF s = p THEN new.approval ELSE Decisions[s]
    <3> SUFFICES ASSUME NEW s \in 1 .. MaxSets
                 PROVE  Decisions'[s] = IF s = p THEN new.approval ELSE Decisions[s]
        OBVIOUS
    <3>1. CASE s <= Len(sets)
        BY <1>1, <1>7, <3>1 DEF Decisions
    <3>2. CASE s = p
        BY <1>1, <1>7, <3>2 DEF Decisions
    <3>3. CASE s > p
        BY <1>1, <1>7, <3>3 DEF Decisions
    <3> QED BY <1>1, <3>1, <3>2, <3>3
  <2> QED BY <2>1 DEF Decisions
<1>12. \E need \in {"not_required", "pending"} : Decisions' = [Decisions EXCEPT ![p] = need]
    BY <1>5, <1>11
<1>13. Gate!Propose(p)
    BY <1>3, <1>4, <1>8, <1>9, <1>10, <1>12 DEF Gate!Propose, Gate!Plans, Decisions
<1>14. p \in Gate!Plans
    BY <1>8 DEF Gate!Plans
<1> HIDE DEF p
<1> QED BY <1>13, <1>14 DEF Gate!Propose

\* A decide call that finds its set pending decides that plan, whichever is selected.
LEMMA DecisionIsDecided ==
    ASSUME IInv, DecideCommit
    PROVE  (\E p \in Gate!Plans : Gate!Decide(p)) \/ UNCHANGED Gate!gateVars
<1>1. /\ sets \in Seq(ChangeSet) /\ Len(sets) \in Nat /\ Len(sets) <= MaxSets
      /\ deciding \in 1 .. Len(sets) /\ deciding \in 1 .. MaxSets
    BY Bounds DEF IInv, TypeOK, Selecting, DecideCommit
<1>2. job' = job
    BY DEF DecideCommit
<1>3. CASE UNCHANGED sets
    BY <1>2, <1>3, GateStutters
<1>4. ASSUME NEW verdict \in {"approved", "rejected"}, sets[deciding].approval = "pending",
             sets' = [sets EXCEPT ![deciding].approval = verdict,
                                  ![deciding].status = verdict]
      PROVE  Gate!Decide(deciding)
  <2>1. sets[deciding] \in ChangeSet
      BY <1>1
  <2> DEFINE decided == [sets[deciding] EXCEPT !.approval = verdict, !.status = verdict]
  <2>2. decided.approval = verdict
      BY <2>1 DEF ChangeSet
  <2>3. sets' = [sets EXCEPT ![deciding] = decided]
      BY <1>4
  <2> HIDE DEF decided
  <2>4. /\ Len(sets') = Len(sets) /\ sets'[deciding].approval = verdict
        /\ \A s \in 1 .. Len(sets) : s # deciding => sets'[s] = sets[s]
      BY <1>1, <2>2, <2>3
  <2>5. \A s \in 1 .. MaxSets :
            Decisions'[s] = IF s = deciding THEN verdict ELSE Decisions[s]
      BY <1>1, <2>4 DEF Decisions
  <2>6. Decisions' = [Decisions EXCEPT ![deciding] = verdict]
      BY <2>5 DEF Decisions
  <2>7. Decisions[deciding] = "pending"
      BY <1>1, <1>4 DEF Decisions
  <2> QED BY <1>2, <2>6, <2>7 DEF Gate!Decide, Decisions
<1>5. deciding \in Gate!Plans
    BY <1>1 DEF Gate!Plans
<1> QED BY <1>3, <1>4, <1>5 DEF DecideCommit, Gate!Decide

\* An accepted apply takes the plan that is selected, by its approval.
LEMMA ApplyIsTaken == ASSUME IInv, StartApply PROVE Gate!Take
<1>1. /\ job \in Job /\ job.selected \in 1 .. Len(sets) /\ Len(sets) <= MaxSets
      /\ Len(sets) \in Nat
    BY DEF IInv, TypeOK, Selecting, StartApply
<1>2. /\ ~job.applyKey /\ job'.applyKey = TRUE /\ job'.selected = job.selected
      /\ sets' = sets
    BY <1>1 DEF StartApply, Job
<1>3. sets[job.selected].approval \in {"not_required", "approved"}
    BY DEF StartApply, MayApply
<1>4. Decisions[job.selected] \in {"not_required", "approved"} /\ Decisions' = Decisions
    BY <1>1, <1>2, <1>3, Bounds DEF Decisions
<1> QED BY <1>1, <1>2, <1>4 DEF Gate!Take, Decisions

LEMMA StepRefines == ASSUME IInv, [Next]_vars PROVE [Gate!Next]_(Gate!gateVars)
<1>1. job \in Job
    BY DEF IInv, TypeOK
<1>2. CASE CreateChangeSet
    BY <1>2, PlanIsProposed DEF Gate!Next
<1>3. CASE DecideCommit
    BY <1>3, DecisionIsDecided DEF Gate!Next
<1>4. CASE StartApply
    BY <1>4, ApplyIsTaken DEF Gate!Next
<1>5. ASSUME NEW a \in Attempts, PersistResult(a) PROVE UNCHANGED Gate!gateVars
    BY <1>5, StageKeepsApprovals, GateStutters DEF PersistResult, jobVars
<1>6. ASSUME ~CreateChangeSet, ~DecideCommit, ~StartApply,
             \A a \in Attempts : ~PersistResult(a)
      PROVE  sets' = sets /\ job'.selected = job.selected /\ job'.applyKey = job.applyKey
    BY <1>1, <1>6
       DEF Next, vars, jobVars, CreateMapping, StartValidation, LaunchValidation, BeginAttempt,
           AttemptEnds, Timeout, LoadAndSnapshot, Fail, SourceFailure, FailValidation,
           DecideRead, Cancel, OwnerEdit, RetirePolicy, Job
<1> QED BY <1>2, <1>3, <1>4, <1>5, <1>6, GateStutters

\* import_change_sets.py:151-368.  For any number of plans, decide calls and edits, the
\* review keeps what the gate promises: plans come one after the other, each is decided
\* once, and the one apply takes is the newest and needs no decision or was approved.
THEOREM Refinement == Spec => ImplementsGate
<1>1. Init => Gate!Init
  <2> SUFFICES ASSUME Init PROVE Gate!Init
      OBVIOUS
  <2>1. job.selected = 0 /\ job.applyKey = FALSE /\ Len(sets) = 0
      BY DEF Init
  <2>2. Decisions = [s \in 1 .. MaxSets |-> "absent"]
      BY <2>1 DEF Decisions
  <2> QED BY <2>1, <2>2 DEF Gate!Init, Gate!Plans, Decisions
<1> QED BY <1>1, StepRefines, Invariant, PTL DEF Spec, ImplementsGate, Gate!Spec
=============================================================================
