------------------------ MODULE ImportApply_proofs ------------------------
(***************************************************************************)
(* Proofs about ImportApply for imports of any size, any plan, any number  *)
(* of attempts, crashes, timeouts and cancellations: operation rows and    *)
(* ledger agree, apply loses no owner edit, compensation restores what was *)
(* reviewed, the ledger is only ever appended to, and a cancel is only     *)
(* overtaken by a finished apply.  Without zombies, what the job's status  *)
(* reports of its rows is true.                                            *)
(***************************************************************************)
EXTENDS ImportApply, TLAPS

-----------------------------------------------------------------------------
(* The inductive invariant.  What the properties say of committed rows is   *)
(* inductive only with what an attempt that holds an operation's lock, or a *)
(* list it read earlier, may still rely on.                                 *)

\* A workflow about to schedule an attempt has one left.
TriesLeft == \A k \in Kinds :
    wf[k].run # "closed" /\ wf[k].cur = None => wf[k].tries < MaxTries

\* An attempt that passed the checks of _apply_operation holds the lock of a row
\* that is still planned, and no other attempt holds it.
Writers == \A a \in Attempts : att[a].pc = "write" =>
    att[a].row \in Rows /\ op[att[a].row].status = "planned"
OneWriter == \A a, b \in Attempts :
    att[a].pc = "write" /\ att[b].pc = "write" /\ att[a].row = att[b].row => a = b

Bound == {"applied", "compensated"}

\* Compensation only ever looks at rows that have been applied.
Compensators == \A a \in Attempts : att[a].kind = "compensate" =>
    \A r \in att[a].todo : op[r].status \in Bound

Writable == \A r \in Rows :
    op[r].status \in {"planned"} \cup Bound => plan[r] \in {"create", "new_version"}

\* Versions are numbered up to the current one, an owner's key up to edits.
Numbered == \A v \in versions :
    /\ v.key.row = v.object
    /\ v.version <= current[v.object]
    /\ v.key.by = "owner" => v.key.n <= edits
OneEach == \A v, w \in versions : v.object = w.object /\ v.version = w.version => v = w

\* The version a row was reviewed against is never lost.
BaseKept == \A r \in Rows : plan[r] = "new_version" =>
    \E v \in versions : v.object = r /\ v.version = Expected(r)

\* A key is free until its operation says it is spent.
Unspent == \A r \in Rows : \A v \in versions :
    /\ op[r].status \notin Bound => v.key # ImportKey("apply", r)
    /\ op[r].status # "compensated" => v.key # ImportKey("compensate", r)

\* The two versions an import may write for row r.
ApplyVersion(r) ==
    [object |-> r, version |-> Expected(r) + 1, key |-> ImportKey("apply", r),
     body |-> [text |-> ImportKey("apply", r), archived |-> FALSE]]
CompensatingVersion(r) ==
    [object |-> r, version |-> Expected(r) + 2, key |-> ImportKey("compensate", r),
     body |-> IF plan[r] = "create"
              THEN [text |-> ImportKey("apply", r), archived |-> TRUE]
              ELSE BodyAt(r, Expected(r))]

Snapshot(r) == IF plan[r] = "create" THEN None ELSE BodyAt(r, Expected(r))

Written == \A r \in Rows : op[r].status \in Bound =>
    /\ op[r].result = Expected(r) + 1
    /\ op[r].snapshot = Snapshot(r)
    /\ ApplyVersion(r) \in versions
    /\ \A v \in versions : v.key = ImportKey("apply", r) => v = ApplyVersion(r)

Restored == \A r \in Rows : op[r].status = "compensated" =>
    /\ CompensatingVersion(r) \in versions
    /\ \A v \in versions :
          v.key = ImportKey("compensate", r) => v = CompensatingVersion(r)

Hands == Writers /\ OneWriter /\ Compensators
Books == Writable /\ Numbered /\ OneEach /\ BaseKept /\ Unspent /\ Written /\ Restored

IInv == TypeOK /\ TriesLeft /\ Hands /\ Books

-----------------------------------------------------------------------------
(* Facts about the data. *)

LEMMA KeyFacts ==
    ASSUME NEW r \in Rows, NEW k \in Kinds
    PROVE  /\ ImportKey(k, r) \in Key
           /\ ImportKey(k, r).row = r /\ ImportKey(k, r).by = k
BY DEF Key, ImportKey, Kinds

LEMMA KeysApart ==
    \A r, q \in Rows : \A j, k \in Kinds :
        ImportKey(j, r) = ImportKey(k, q) => r = q /\ j = k
BY KeyFacts

LEMMA IdleType == Idle \in Attempt
BY DEF Idle, Attempt, Kinds

LEMMA ExpectedType ==
    ASSUME NEW r \in Rows
    PROVE  Expected(r) \in Nat
BY SizeAssumption DEF Expected

LEMMA SeedFacts ==
    ASSUME NEW r \in Rows, NEW n \in 1 .. Base
    PROVE  /\ SeedVersion(r, n) \in VersionRow
           /\ SeedVersion(r, n).object = r /\ SeedVersion(r, n).version = n
           /\ SeedVersion(r, n).key.by = "seed" /\ SeedVersion(r, n).key.row = r
<1>1. [by |-> "seed", row |-> r, n |-> n] \in Key
    BY DEF Key
<1>2. n \in Nat \ {0}
    BY SizeAssumption
<1> QED BY <1>1, <1>2 DEF SeedVersion, VersionRow, Body

\* BodyAt reads the one version of that number.
LEMMA BodyIs ==
    ASSUME OneEach, NEW v \in versions
    PROVE  BodyAt(v.object, v.version) = v.body
BY DEF BodyAt, OneEach

LEMMA BodyType ==
    ASSUME TypeOK, NEW r, NEW n, \E v \in versions : v.object = r /\ v.version = n
    PROVE  BodyAt(r, n) \in Body
BY DEF TypeOK, BodyAt, VersionRow

-----------------------------------------------------------------------------
(* Pieces of actions. *)

\* What the server does with an outcome keeps the workflows' type, and an attempt
\* is left whenever one is due.
LEMMA ReportKeeps ==
    ASSUME TypeOK, TriesLeft, NEW a \in Attempts,
           NEW result \in {"ok", "retry", "fatal"}, Report(a, result)
    PROVE  wf' \in [Kinds -> Workflow] /\ TriesLeft'
<1>1. /\ Closed \in Workflow /\ Closed.run = "closed"
      /\ Run("fail") \in Workflow /\ Run("fail").tries = 0 /\ 0 < MaxTries
      /\ 0 \in 0 .. MaxTries /\ None \notin Attempts
    BY SizeAssumption, NoneAssumption DEF Closed, Run, Workflow
<1>2. ASSUME NEW w \in Workflow
      PROVE  /\ Outcome(w, result) \in Workflow
             /\ Outcome(w, result).run # "closed" => Outcome(w, result).tries < MaxTries
    <2>1. CASE result = "ok"
        BY <2>1, <1>1 DEF Outcome
    <2>2. CASE result = "retry" /\ w.tries < MaxTries
        <3>1. Outcome(w, result) = [w EXCEPT !.cur = None]
            BY <2>2 DEF Outcome
        <3> QED BY <3>1, <2>2 DEF Workflow
    <2>3. CASE result # "ok" /\ ~(result = "retry" /\ w.tries < MaxTries)
        BY <2>3, <1>1 DEF Outcome, Escalate
    <2> QED BY <2>1, <2>2, <2>3
<1>3. wf \in [Kinds -> Workflow]
    BY DEF TypeOK
<1>4. ASSUME NEW k \in Kinds
      PROVE  wf'[k] = IF wf[k].cur = a THEN Outcome(wf[k], result) ELSE wf[k]
    BY DEF Report
<1>5. wf' \in [Kinds -> Workflow]
    BY <1>2, <1>3 DEF Report
<1>6. TriesLeft'
    BY <1>2, <1>3, <1>4 DEF TriesLeft
<1> QED BY <1>5, <1>6

\* An attempt that ends leaves its lock and its list behind.
LEMMA EndKeeps ==
    ASSUME TypeOK, Hands, NEW a \in Attempts, att' = [att EXCEPT ![a] = Idle],
           UNCHANGED op
    PROVE  att' \in [Attempts -> Attempt] /\ Hands'
<1>1. att' \in [Attempts -> Attempt]
    BY IdleType DEF TypeOK
<1>2. \A b \in Attempts : att'[b] = IF b = a THEN Idle ELSE att[b]
    BY DEF TypeOK
<1>3. Idle.pc = "begin" /\ Idle.kind # "compensate"
    BY NoneAssumption DEF Idle
<1> QED BY <1>1, <1>2, <1>3 DEF Hands, Writers, OneWriter, Compensators

\* Passing to the next row gives the lock up.
LEMMA DoneKeeps ==
    ASSUME TypeOK, NEW a \in Attempts, NEW r, Done(a, r)
    PROVE  /\ att' \in [Attempts -> Attempt]
           /\ \A b \in Attempts : b # a => att'[b] = att[b]
           /\ att'[a].pc = "next"
           /\ att'[a].kind = att[a].kind /\ att'[a].phase = att[a].phase
           /\ att'[a].todo = att[a].todo \ {r}
<1> DEFINE new == [att[a] EXCEPT !.pc = "next", !.todo = @ \ {r}, !.row = 0]
<1>1. att \in [Attempts -> Attempt]
    BY DEF TypeOK
<1>2. /\ new \in Attempt /\ new.pc = "next" /\ new.kind = att[a].kind
      /\ new.phase = att[a].phase /\ new.todo = att[a].todo \ {r}
    BY <1>1 DEF Attempt
<1>3. att' = [att EXCEPT ![a] = new]
    BY <1>1 DEF Done, Attempt
<1> QED BY <1>1, <1>2, <1>3

LEMMA ListedKeeps ==
    ASSUME TypeOK, NEW a \in Attempts, NEW status, Listed(a, status)
    PROVE  /\ att' \in [Attempts -> Attempt]
           /\ \A b \in Attempts : b # a => att'[b] = att[b]
           /\ att'[a].pc = "next"
           /\ att'[a].kind = att[a].kind /\ att'[a].phase = att[a].phase
           /\ att'[a].todo = {r \in Rows : op[r].status = status}
<1> DEFINE list == {r \in Rows : op[r].status = status}
           new == [att[a] EXCEPT !.pc = "next", !.todo = list]
<1>1. att \in [Attempts -> Attempt]
    BY DEF TypeOK
<1>2. /\ new \in Attempt /\ new.pc = "next" /\ new.kind = att[a].kind
      /\ new.phase = att[a].phase /\ new.todo = list
    <2>1. list \in SUBSET Rows
        OBVIOUS
    <2> HIDE DEF list
    <2> QED BY <1>1, <2>1 DEF Attempt
<1>3. att' = [att EXCEPT ![a] = new]
    BY <1>1 DEF Listed, Attempt
<1> QED BY <1>1, <1>2, <1>3

\* Appending a version of the right type.
LEMMA WriteType ==
    ASSUME TypeOK, NEW r \in Rows, NEW key \in Key, NEW body \in Body,
           WriteVersion(r, key, body)
    PROVE  current' \in [Rows -> Nat] /\ versions' \subseteq VersionRow
BY DEF WriteVersion, TypeOK, VersionRow

-----------------------------------------------------------------------------
LEMMA InitIInv == Init => IInv
<1> SUFFICES ASSUME Init PROVE IInv
    OBVIOUS
<1>1. plan \in [Rows -> PlanKinds] /\ \A r \in Rows : Expected(r) \in Nat
    BY ExpectedType DEF Init
<1>2. /\ \A r \in Rows : op[r] \in Operation /\ op[r].status \notin Bound
      /\ \A r \in Rows : op[r].status = "planned" => plan[r] \in {"create", "new_version"}
      /\ op \in [Rows -> Operation]
    BY <1>1, PlanAssumption DEF Init, Operation, Bound
<1>3. current \in [Rows -> Nat] /\ \A r \in Rows : current[r] = Expected(r)
    BY <1>1 DEF Init
<1>4. \A v \in versions : \E r \in Rows, n \in 1 .. Base :
        plan[r] = "new_version" /\ v = SeedVersion(r, n)
    BY DEF Init
<1>5. versions \subseteq VersionRow
    BY <1>4, SeedFacts
<1>6. Numbered /\ OneEach /\ Unspent
    <2>1. Numbered
        BY <1>3, <1>4, SeedFacts DEF Numbered, Expected
    <2>2. OneEach
        BY <1>4, SeedFacts DEF OneEach
    <2>3. Unspent
        BY <1>4, SeedFacts, KeyFacts DEF Unspent, Kinds
    <2> QED BY <2>1, <2>2, <2>3
<1>7. BaseKept
    <2> SUFFICES ASSUME NEW r \in Rows, plan[r] = "new_version"
                 PROVE  \E v \in versions : v.object = r /\ v.version = Base
        BY DEF BaseKept, Expected
    <2>1. Base \in 1 .. Base
        BY SizeAssumption
    <2>2. SeedVersion(r, Base) \in versions
        BY <2>1 DEF Init
    <2> QED BY <2>1, <2>2, SeedFacts
<1>8. Books
    BY <1>2, <1>6, <1>7 DEF Books, Writable, Written, Restored, Bound
<1>9. TypeOK
    <2>1. job \in Job
        BY DEF Init, Job, JobStatus
    <2>2. wf \in [Kinds -> Workflow] /\ att \in [Attempts -> Attempt]
        <3>1. Closed \in Workflow
            BY SizeAssumption DEF Closed, Workflow
        <3> QED BY <3>1, IdleType DEF Init
    <2>3. /\ edits \in 0 .. MaxEdits /\ lost \in 0 .. MaxLost
          /\ timeouts \in 0 .. MaxTimeouts
        BY BoundAssumption DEF Init
    <2>4. launch \in [Kinds -> BOOLEAN] /\ cancelling \in BOOLEAN
        BY DEF Init
    <2> QED BY <1>1, <1>2, <1>3, <1>5, <2>1, <2>2, <2>3, <2>4 DEF TypeOK
<1>10. TriesLeft /\ Hands
    BY NoneAssumption
    DEF Init, TriesLeft, Closed, Hands, Writers, OneWriter, Compensators, Idle
<1> QED BY <1>8, <1>9, <1>10 DEF IInv

-----------------------------------------------------------------------------
(* The three actions that append to the ledger. *)

\* What WriteRow and CompensateRow append, in the words of the invariant.
LEMMA WriteRowWrites ==
    ASSUME IInv, NEW a \in Attempts, WriteRow(a), Unmoved(att[a].row)
    PROVE  LET r == att[a].row IN
           /\ r \in Rows /\ op[r].status = "planned"
           /\ plan[r] \in {"create", "new_version"} /\ current[r] = Expected(r)
           /\ WriteVersion(r, ImportKey("apply", r), ApplyVersion(r).body)
           /\ versions' = versions \cup {ApplyVersion(r)}
           /\ op' = [op EXCEPT ![r] = [status |-> "applied", result |-> Expected(r) + 1,
                                       snapshot |-> Snapshot(r)]]
<1> DEFINE r == att[a].row
<1>1. r \in Rows /\ op[r].status = "planned"
    BY DEF IInv, Hands, Writers, WriteRow, Doing
<1>2. plan[r] \in {"create", "new_version"}
    BY <1>1 DEF IInv, Books, Writable
<1>3. current[r] = Expected(r)
    BY DEF Unmoved
<1>4. /\ WriteVersion(r, ImportKey("apply", r), ApplyVersion(r).body)
      /\ op' = [op EXCEPT ![r] = Applied(r)]
    BY DEF WriteRow, ApplyVersion
<1>5. versions' = versions \cup {ApplyVersion(r)}
    BY <1>3, <1>4 DEF WriteVersion, ApplyVersion
<1>6. Applied(r) = [status |-> "applied", result |-> Expected(r) + 1,
                    snapshot |-> Snapshot(r)]
    BY DEF Applied, Snapshot
<1> QED BY <1>1, <1>2, <1>3, <1>4, <1>5, <1>6

LEMMA CompensateRowWrites ==
    ASSUME IInv, NEW a \in Attempts, CompensateRow(a), ~UNCHANGED <<op, ledger>>
    PROVE  \E r \in Rows :
           /\ op[r].status = "applied"
           /\ plan[r] \in {"create", "new_version"} /\ current[r] = Expected(r) + 1
           /\ WriteVersion(r, ImportKey("compensate", r), CompensatingVersion(r).body)
           /\ versions' = versions \cup {CompensatingVersion(r)}
           /\ op' = [op EXCEPT ![r].status = "compensated"]
           /\ Done(a, r)
<1>1. PICK r \in Rows :
        /\ Doing(a, "compensate", "work", "next") /\ r \in att[a].todo
        /\ op[r].status # "compensated" /\ Newest(r)
        /\ WriteVersion(r, ImportKey("compensate", r),
              IF op[r].snapshot # None THEN op[r].snapshot
              ELSE [text |-> BodyAt(r, op[r].result).text, archived |-> TRUE])
        /\ op' = [op EXCEPT ![r].status = "compensated"]
        /\ Done(a, r)
    BY DEF CompensateRow, Turn, ledger
<1>2. op[r].status = "applied"
    BY <1>1 DEF IInv, Hands, Compensators, Doing, Bound
<1>3. plan[r] \in {"create", "new_version"}
    BY <1>2 DEF IInv, Books, Writable, Bound
<1>4. /\ op[r].result = Expected(r) + 1 /\ op[r].snapshot = Snapshot(r)
      /\ ApplyVersion(r) \in versions
    BY <1>2 DEF IInv, Books, Written, Bound
<1>5. CompensatingVersion(r) =
        [object |-> r, version |-> current[r] + 1, key |-> ImportKey("compensate", r),
         body |-> CompensatingVersion(r).body]
    <2>1. current[r] + 1 = Expected(r) + 2
        BY <1>1, <1>4, ExpectedType DEF Newest
    <2> QED BY <2>1 DEF CompensatingVersion
<1>6. (IF op[r].snapshot # None THEN op[r].snapshot
       ELSE [text |-> BodyAt(r, op[r].result).text, archived |-> TRUE])
        = CompensatingVersion(r).body
    <2>1. CASE plan[r] = "create"
        <3>1. /\ ApplyVersion(r).object = r /\ ApplyVersion(r).version = op[r].result
              /\ ApplyVersion(r).body = [text |-> ImportKey("apply", r), archived |-> FALSE]
            BY <1>4 DEF ApplyVersion
        <3>2. BodyAt(r, op[r].result) = [text |-> ImportKey("apply", r), archived |-> FALSE]
            BY <1>4, <3>1, BodyIs DEF IInv, Books
        <3>3. op[r].snapshot = None
            BY <1>4, <2>1 DEF Snapshot
        <3>4. CompensatingVersion(r).body
                = [text |-> ImportKey("apply", r), archived |-> TRUE]
            BY <2>1 DEF CompensatingVersion
        <3>5. BodyAt(r, op[r].result).text = ImportKey("apply", r)
            BY <3>2
        <3> QED BY <3>3, <3>4, <3>5
    <2>2. CASE plan[r] = "new_version"
        <3>1. BodyAt(r, Expected(r)) \in Body
            BY <2>2, BodyType DEF IInv, Books, BaseKept
        <3> QED BY <1>4, <2>2, <3>1, NoBodyAssumption DEF Snapshot, CompensatingVersion
    <2> QED BY <1>3, <2>1, <2>2
<1>7. versions' = versions \cup {CompensatingVersion(r)}
    BY <1>1, <1>5, <1>6 DEF WriteVersion
<1> QED BY <1>1, <1>2, <1>3, <1>4, <1>6, <1>7 DEF Newest

LEMMA CompensatingBody ==
    ASSUME TypeOK, Books, NEW r \in Rows, plan[r] \in {"create", "new_version"}
    PROVE  CompensatingVersion(r).body \in Body
<1>1. plan[r] = "new_version" => BodyAt(r, Expected(r)) \in Body
    BY BodyType DEF Books, BaseKept
<1>2. plan[r] = "create" => [text |-> ImportKey("apply", r), archived |-> TRUE] \in Body
    BY KeyFacts DEF Body, Kinds
<1> QED BY <1>1, <1>2 DEF CompensatingVersion

-----------------------------------------------------------------------------
(* Every step keeps the invariant, part by part. *)

LEMMA WorkflowFacts ==
    /\ Closed \in Workflow /\ Closed.run = "closed"
    /\ \A phase \in {"work", "fail"} :
          /\ Run(phase) \in Workflow /\ Run(phase).tries < MaxTries
BY SizeAssumption DEF Closed, Run, Workflow

\* The API and the calls that follow its commits.
LEMMA ApiType ==
    ASSUME TypeOK, TriesLeft,
           \/ StartApply \/ StartCompensation \/ Cancel \/ DeliverCancel \/ LoseCancel
           \/ \E k \in Kinds : Replay(k) \/ Launch(k) \/ LoseLaunch(k)
    PROVE  TypeOK' /\ TriesLeft'
<1>1. CASE StartApply
    BY <1>1 DEF StartApply, TypeOK, TriesLeft, Job, JobStatus, ledger, bounds
<1>2. CASE StartCompensation
    BY <1>2 DEF StartCompensation, TypeOK, TriesLeft, Job, JobStatus, ledger, bounds
<1>3. CASE Cancel
    <2>1. job \in Job /\ job' = [job EXCEPT !.status = "cancelled"] /\ job.applyKey \in BOOLEAN
        BY <1>3 DEF Cancel, TypeOK, Job
    <2>2. job' \in Job
        BY <2>1 DEF Job, JobStatus
    <2>3. cancelling' \in BOOLEAN
        BY <1>3, <2>1 DEF Cancel
    <2> QED BY <1>3, <2>2, <2>3 DEF Cancel, TypeOK, TriesLeft, ledger, bounds
<1>4. CASE DeliverCancel
    <2>1. "apply" \in Kinds /\ wf \in [Kinds -> Workflow]
        BY DEF Kinds, TypeOK
    <2>2. PICK w \in Workflow : /\ wf' = [wf EXCEPT !["apply"] = w]
                                /\ w.run # "closed" => w.tries < MaxTries
        <3>1. CASE wf["apply"].run = "work"
            BY <1>4, <3>1, WorkflowFacts DEF DeliverCancel
        <3>2. CASE wf["apply"].run # "work"
            BY <1>4, <3>2, WorkflowFacts DEF DeliverCancel
        <3> QED BY <3>1, <3>2
    <2>3. wf' \in [Kinds -> Workflow] /\ TriesLeft'
        BY <2>1, <2>2 DEF TriesLeft
    <2> QED BY <1>4, <2>3 DEF DeliverCancel, TypeOK, ledger, bounds
<1>5. CASE LoseCancel
    <2>1. lost' \in 0 .. MaxLost
        BY <1>5, BoundAssumption DEF LoseCancel, TypeOK
    <2>2. cancelling' \in BOOLEAN
        BY <1>5 DEF LoseCancel
    <2> QED BY <1>5, <2>1, <2>2 DEF LoseCancel, TypeOK, TriesLeft, ledger
<1>6. ASSUME NEW k \in Kinds, Replay(k)
      PROVE  TypeOK' /\ TriesLeft'
    BY <1>6 DEF Replay, TypeOK, TriesLeft, ledger, bounds
<1>7. ASSUME NEW k \in Kinds, Launch(k)
      PROVE  TypeOK' /\ TriesLeft'
    <2>1. wf' \in [Kinds -> Workflow] /\ TriesLeft'
        BY <1>7, WorkflowFacts DEF Launch, TypeOK, TriesLeft
    <2> QED BY <1>7, <2>1 DEF Launch, TypeOK, ledger, bounds
<1>8. ASSUME NEW k \in Kinds, LoseLaunch(k)
      PROVE  TypeOK' /\ TriesLeft'
    BY <1>8, BoundAssumption DEF LoseLaunch, TypeOK, TriesLeft, ledger
<1> QED BY <1>1, <1>2, <1>3, <1>4, <1>5, <1>6, <1>7, <1>8

\* Temporal's own steps.
LEMMA TemporalType ==
    ASSUME TypeOK, TriesLeft, Hands,
           \/ \E k \in Kinds : Schedule(k)
           \/ \E a \in Attempts : AttemptLost(a) \/ Timeout(a) \/ ZombieEnds(a)
    PROVE  TypeOK' /\ TriesLeft'
<1>1. ASSUME NEW k \in Kinds, Schedule(k)
      PROVE  TypeOK' /\ TriesLeft'
    <2>1. PICK a \in Attempts :
            /\ att' = [att EXCEPT ![a] = [Idle EXCEPT !.kind = k, !.phase = wf[k].run]]
            /\ wf' = [wf EXCEPT ![k].cur = a, ![k].tries = @ + 1]
        BY <1>1 DEF Schedule
    <2>2. wf \in [Kinds -> Workflow] /\ att \in [Attempts -> Attempt]
        BY DEF TypeOK
    <2>3. wf[k].run \in {"work", "fail"} /\ wf[k].tries < MaxTries
        BY <1>1, <2>2 DEF Schedule, TriesLeft, Workflow
    <2>4. [Idle EXCEPT !.kind = k, !.phase = wf[k].run] \in Attempt
        BY <2>3 DEF Idle, Attempt
    <2>5. att' \in [Attempts -> Attempt]
        BY <2>1, <2>2, <2>4
    <2> DEFINE next == [wf[k] EXCEPT !.cur = a, !.tries = @ + 1]
    <2>6. next \in Workflow /\ next.cur # None
        <3>1. wf[k] \in Workflow /\ wf[k].tries \in 0 .. MaxTries
            BY <2>2 DEF Workflow
        <3>2. wf[k].tries + 1 \in 0 .. MaxTries
            BY <2>3, <3>1, SizeAssumption
        <3>3. a # None
            BY NoneAssumption
        <3> QED BY <3>1, <3>2, <3>3 DEF Workflow
    <2>7. wf' = [wf EXCEPT ![k] = next]
        BY <2>1, <2>2 DEF Workflow
    <2>8. wf' \in [Kinds -> Workflow] /\ TriesLeft'
        <3> HIDE DEF next
        <3> QED BY <2>2, <2>6, <2>7 DEF TriesLeft
    <2> QED BY <1>1, <2>5, <2>8 DEF Schedule, TypeOK, ledger, bounds
<1>2. ASSUME NEW a \in Attempts, AttemptLost(a)
      PROVE  TypeOK' /\ TriesLeft'
    <2>1. wf' \in [Kinds -> Workflow] /\ TriesLeft'
        BY <1>2, ReportKeeps DEF AttemptLost, End
    <2>2. att' \in [Attempts -> Attempt]
        BY <1>2, EndKeeps DEF AttemptLost, End
    <2> QED BY <1>2, <2>1, <2>2, BoundAssumption DEF AttemptLost, TypeOK, ledger
<1>3. ASSUME NEW a \in Attempts, Timeout(a)
      PROVE  TypeOK' /\ TriesLeft'
    <2>1. wf' \in [Kinds -> Workflow] /\ TriesLeft'
        BY <1>3, ReportKeeps DEF Timeout
    <2> QED BY <1>3, <2>1, BoundAssumption DEF Timeout, TypeOK, ledger
<1>4. ASSUME NEW a \in Attempts, ZombieEnds(a)
      PROVE  TypeOK' /\ TriesLeft'
    <2>1. att' \in [Attempts -> Attempt]
        BY <1>4, EndKeeps DEF ZombieEnds
    <2> QED BY <1>4, <2>1 DEF ZombieEnds, TypeOK, TriesLeft, ledger, temporal, bounds
<1> QED BY <1>1, <1>2, <1>3, <1>4

LEMMA OwnerType ==
    ASSUME TypeOK, TriesLeft, NEW r \in Rows, OwnerEdit(r)
    PROVE  TypeOK' /\ TriesLeft'
<1> DEFINE key == [by |-> "owner", row |-> r, n |-> edits + 1]
<1>1. key \in Key /\ edits' \in 0 .. MaxEdits
    BY BoundAssumption DEF OwnerEdit, TypeOK, Key
<1>2. [text |-> key, archived |-> FALSE] \in Body
    BY <1>1 DEF Body
<1>3. current' \in [Rows -> Nat] /\ versions' \subseteq VersionRow
    <2>1. WriteVersion(r, key, [text |-> key, archived |-> FALSE])
        BY DEF OwnerEdit
    <2> HIDE DEF key
    <2> QED BY <1>1, <1>2, <2>1, WriteType
<1> QED BY <1>1, <1>3 DEF OwnerEdit, TypeOK, TriesLeft, temporal

LEMMA ActivityType ==
    ASSUME IInv, NEW a \in Attempts, Activity(a)
    PROVE  TypeOK' /\ TriesLeft'
<1> USE DEF IInv
<1> DEFINE Kept == att' \in [Attempts -> Attempt] /\ wf' \in [Kinds -> Workflow] /\ TriesLeft'
<1>1. CASE ListPlanned(a)
    <2>1. att' \in [Attempts -> Attempt]
        BY <1>1, ListedKeeps DEF ListPlanned
    <2> QED BY <1>1, <2>1 DEF ListPlanned, TypeOK, TriesLeft, ledger, temporal, bounds
<1>2. CASE ListApplied(a)
    <2>1. att' \in [Attempts -> Attempt]
        BY <1>2, ListedKeeps DEF ListApplied
    <2> QED BY <1>2, <2>1 DEF ListApplied, TypeOK, TriesLeft, ledger, temporal, bounds
<1>3. CASE CheckRow(a)
    <2>1. Kept
        <3>1. ASSUME NEW r \in Rows, Done(a, r), UNCHANGED wf
              PROVE  Kept
            BY <3>1, DoneKeeps DEF TypeOK, TriesLeft
        <3>2. ASSUME NEW r \in Rows, UNCHANGED wf,
                     att' = [att EXCEPT ![a].pc = "write", ![a].row = r]
              PROVE  Kept
            <4> DEFINE new == [att[a] EXCEPT !.pc = "write", !.row = r]
            <4>1. att \in [Attempts -> Attempt] /\ wf \in [Kinds -> Workflow]
                BY DEF TypeOK
            <4>2. new \in Attempt
                BY <4>1 DEF Attempt
            <4>3. att' = [att EXCEPT ![a] = new]
                BY <3>2, <4>1 DEF Attempt
            <4>4. att' \in [Attempts -> Attempt]
                BY <4>1, <4>2, <4>3
            <4> QED BY <3>2, <4>1, <4>4 DEF TriesLeft
        <3>3. ASSUME End(a, "fatal"), UNCHANGED op
              PROVE  Kept
            BY <3>3, EndKeeps, ReportKeeps DEF End
        <3> QED BY <1>3, <3>1, <3>2, <3>3 DEF CheckRow
    <2> QED BY <1>3, <2>1 DEF CheckRow, TypeOK, ledger, bounds
<1>4. CASE WriteRow(a)
    <2> DEFINE r == att[a].row
    <2>1. CASE Unmoved(r)
        <3>1. /\ r \in Rows /\ WriteVersion(r, ImportKey("apply", r), ApplyVersion(r).body)
              /\ op' = [op EXCEPT ![r] = [status |-> "applied", result |-> Expected(r) + 1,
                                          snapshot |-> Snapshot(r)]]
            BY <1>4, <2>1, WriteRowWrites
        <3>2. ApplyVersion(r).body \in Body
            BY <3>1, KeyFacts DEF ApplyVersion, Body, Kinds
        <3>3. current' \in [Rows -> Nat] /\ versions' \subseteq VersionRow
            BY <3>1, <3>2, KeyFacts, WriteType DEF Kinds
        <3>4. Snapshot(r) \in Body \cup {None}
            <4>1. plan[r] \in {"create", "new_version"}
                BY <1>4, <2>1, WriteRowWrites
            <4>2. plan[r] = "new_version" => BodyAt(r, Expected(r)) \in Body
                BY <3>1, BodyType DEF Books, BaseKept
            <4> QED BY <4>1, <4>2 DEF Snapshot
        <3>5. op' \in [Rows -> Operation]
            BY <3>1, <3>4, ExpectedType DEF TypeOK, Operation
        <3>6. Done(a, r) /\ UNCHANGED wf
            BY <1>4, <2>1 DEF WriteRow
        <3>7. att' \in [Attempts -> Attempt] /\ TriesLeft'
            BY <3>6, DoneKeeps DEF TriesLeft
        <3> QED BY <1>4, <3>3, <3>5, <3>6, <3>7 DEF WriteRow, TypeOK, bounds
    <2>2. CASE ~Unmoved(r)
        <3>1. Rejected(a, r) /\ UNCHANGED op
            BY <1>4, <2>2 DEF WriteRow
        <3>2. att' \in [Attempts -> Attempt] /\ wf' \in [Kinds -> Workflow] /\ TriesLeft'
            BY <3>1, EndKeeps, ReportKeeps DEF Rejected, End
        <3> QED BY <1>4, <2>2, <3>2 DEF WriteRow, TypeOK, ledger, bounds
    <2> QED BY <2>1, <2>2
<1>5. CASE FinishApply(a) \/ FailApply(a) \/ FinishCompensation(a) \/ FailCompensation(a)
    <2>1. End(a, "ok") /\ UNCHANGED op
        BY <1>5 DEF FinishApply, FailApply, FinishCompensation, FailCompensation
    <2>2. att' \in [Attempts -> Attempt] /\ wf' \in [Kinds -> Workflow] /\ TriesLeft'
        BY <2>1, EndKeeps, ReportKeeps DEF End
    <2>3. PICK status \in JobStatus : job' = [job EXCEPT !.status = status]
        BY <1>5 DEF FinishApply, FailApply, FinishCompensation, FailCompensation,
                    FailureOf, JobStatus, TypeOK, Job
    <2>4. job' \in Job
        BY <2>3 DEF TypeOK, Job
    <2> QED BY <1>5, <2>2, <2>4
            DEF FinishApply, FailApply, FinishCompensation, FailCompensation,
                TypeOK, ledger, bounds
<1>6. CASE CompensateRow(a)
    <2>1. CASE UNCHANGED <<op, ledger>>
        <3>1. \E r \in Rows : (Done(a, r) /\ UNCHANGED wf) \/ Rejected(a, r)
            BY <1>6 DEF CompensateRow
        <3>2. Kept
            <4>1. ASSUME NEW r \in Rows, Done(a, r), UNCHANGED wf
                  PROVE  Kept
                BY <4>1, DoneKeeps DEF TypeOK, TriesLeft
            <4>2. ASSUME NEW r \in Rows, Rejected(a, r)
                  PROVE  Kept
                BY <2>1, <4>2, EndKeeps, ReportKeeps DEF Rejected, End
            <4> QED BY <3>1, <4>1, <4>2
        <3> QED BY <1>6, <2>1, <3>2 DEF CompensateRow, TypeOK, ledger, bounds
    <2>2. CASE ~UNCHANGED <<op, ledger>>
        <3>1. PICK r \in Rows :
                /\ op[r].status = "applied"
                /\ plan[r] \in {"create", "new_version"}
                /\ WriteVersion(r, ImportKey("compensate", r), CompensatingVersion(r).body)
                /\ op' = [op EXCEPT ![r].status = "compensated"]
                /\ Done(a, r)
            BY <1>6, <2>2, CompensateRowWrites
        <3>2. CompensatingVersion(r).body \in Body
            BY <3>1, CompensatingBody
        <3>3. current' \in [Rows -> Nat] /\ versions' \subseteq VersionRow
            BY <3>1, <3>2, KeyFacts, WriteType DEF Kinds
        <3>4. op' \in [Rows -> Operation]
            BY <3>1 DEF TypeOK, Operation
        <3>5. UNCHANGED wf
            BY <1>6, <2>2 DEF CompensateRow
        <3>6. Kept
            BY <3>1, <3>5, DoneKeeps DEF TypeOK, TriesLeft
        <3> QED BY <1>6, <3>3, <3>4, <3>6 DEF CompensateRow, TypeOK, bounds
    <2> QED BY <2>1, <2>2
<1> QED BY <1>1, <1>2, <1>3, <1>4, <1>5, <1>6 DEF Activity

LEMMA HandsStep ==
    ASSUME IInv, [Next]_vars
    PROVE  Hands'
<1> USE DEF IInv
<1>0. att \in [Attempts -> Attempt] /\ op \in [Rows -> Operation]
    BY DEF TypeOK
<1>1. ASSUME UNCHANGED <<op, att>>
      PROVE  Hands'
    BY <1>1 DEF Hands, Writers, OneWriter, Compensators
<1>2. ASSUME NEW a \in Attempts, att' = [att EXCEPT ![a] = Idle], UNCHANGED op
      PROVE  Hands'
    BY <1>2, EndKeeps
\* The attempt goes on without a lock: a fresh one, one with a new list, or one
\* that passes over a row.
<1>3. ASSUME NEW a \in Attempts, att' \in [Attempts -> Attempt], att'[a].pc # "write",
             \A b \in Attempts : b # a => att'[b] = att[b],
             att'[a].kind = "compensate" =>
                \A r \in att'[a].todo : op[r].status \in Bound,
             UNCHANGED op
      PROVE  Hands'
    BY <1>3 DEF Hands, Writers, OneWriter, Compensators
<1>4. ASSUME NEW a \in Attempts, NEW r, Done(a, r), UNCHANGED op
      PROVE  Hands'
    <2>1. att[a].kind = "compensate" => \A q \in att[a].todo : op[q].status \in Bound
        BY DEF Hands, Compensators
    <2> QED BY <1>3, <1>4, <2>1, DoneKeeps
<1>5. ASSUME NEW a \in Attempts, NEW r \in Rows, Done(a, r),
             NEW to \in Operation, op' = [op EXCEPT ![r] = to],
             \/ att[a].pc = "write" /\ att[a].row = r /\ to.status = "applied"
             \/ op[r].status = "applied" /\ to.status = "compensated"
      PROVE  Hands'
    <2>1. /\ \A b \in Attempts : b # a => att'[b] = att[b]
          /\ att'[a].pc = "next" /\ att'[a].kind = att[a].kind
          /\ att'[a].todo \subseteq att[a].todo
        BY <1>5, DoneKeeps
    <2>2. \A q \in Rows : q # r => op'[q] = op[q]
        BY <1>0, <1>5
    <2>3. op'[r].status \in Bound
        BY <1>0, <1>5 DEF Bound
    <2>4. \A b \in Attempts : b # a /\ att[b].pc = "write" => att[b].row # r
        BY <1>5 DEF Hands, Writers, OneWriter
    <2>5. Writers' /\ OneWriter'
        BY <2>1, <2>2, <2>4 DEF Hands, Writers, OneWriter
    <2>6. Compensators'
        <3> SUFFICES ASSUME NEW b \in Attempts, att'[b].kind = "compensate",
                            NEW q \in att'[b].todo
                     PROVE  op'[q].status \in Bound
            BY DEF Compensators
        <3>1. att[b].kind = "compensate" /\ q \in att[b].todo
            BY <2>1
        <3>2. q \in Rows /\ op[q].status \in Bound
            BY <1>0, <3>1 DEF Hands, Compensators, Attempt
        <3> QED BY <2>2, <2>3, <3>2
    <2> QED BY <2>5, <2>6 DEF Hands
<1>6. ASSUME NEW k \in Kinds, Schedule(k)
      PROVE  Hands'
    <2>1. PICK a \in Attempts :
            att' = [att EXCEPT ![a] = [Idle EXCEPT !.kind = k, !.phase = wf[k].run]]
        BY <1>6 DEF Schedule
    <2>2. att'[a].pc = "begin" /\ att'[a].todo = {}
          /\ \A b \in Attempts : b # a => att'[b] = att[b]
        BY <1>0, <2>1 DEF Idle
    <2>3. UNCHANGED op
        BY <1>6 DEF Schedule
    <2> QED BY <2>2, <2>3 DEF Hands, Writers, OneWriter, Compensators
<1>7. ASSUME NEW a \in Attempts, Activity(a)
      PROVE  Hands'
    <2>1. CASE ListPlanned(a)
        <3>1. Listed(a, "planned") /\ att[a].kind = "apply" /\ UNCHANGED op
            BY <2>1 DEF ListPlanned, Doing
        <3> QED BY <1>3, <3>1, ListedKeeps
    <2>2. CASE ListApplied(a)
        <3>1. Listed(a, "applied") /\ UNCHANGED op
            BY <2>2 DEF ListApplied
        <3>2. \A r \in att'[a].todo : op[r].status \in Bound
            BY <3>1, ListedKeeps DEF Bound
        <3> QED BY <1>3, <3>1, <3>2, ListedKeeps
    <2>3. CASE CheckRow(a)
        <3>1. ASSUME NEW r \in Rows, Unlocked(r), op[r].status = "planned",
                     Doing(a, "apply", "work", "next"),
                     att' = [att EXCEPT ![a].pc = "write", ![a].row = r], UNCHANGED op
              PROVE  Hands'
            <4>1. /\ att'[a].row = r /\ att'[a].kind = "apply"
                  /\ \A b \in Attempts : b # a => att'[b] = att[b]
                BY <1>0, <3>1 DEF Attempt, Doing
            <4>2. \A b \in Attempts : att[b].pc = "write" => att[b].row # r
                BY <3>1 DEF Unlocked
            <4>3. UNCHANGED op /\ op[r].status = "planned"
                BY <3>1
            <4>4. Writers' /\ OneWriter'
                BY <4>1, <4>2, <4>3 DEF Hands, Writers, OneWriter
            <4>5. Compensators'
                BY <4>1, <4>3 DEF Hands, Compensators
            <4> QED BY <4>4, <4>5 DEF Hands
        <3> QED BY <1>2, <1>4, <2>3, <3>1 DEF CheckRow, End
    <2>4. CASE WriteRow(a)
        <3>1. CASE Unmoved(att[a].row)
            <4> DEFINE r == att[a].row
                       to == [status |-> "applied", result |-> Expected(r) + 1,
                              snapshot |-> Snapshot(r)]
            <4>1. r \in Rows /\ op' = [op EXCEPT ![r] = to]
                BY <2>4, <3>1, WriteRowWrites
            <4>2. TypeOK'
                BY <1>7, ActivityType
            <4>3. to \in Operation
                <5>1. op' \in [Rows -> Operation]
                    BY <4>2 DEF TypeOK
                <5> HIDE DEF to, r
                <5> QED BY <1>0, <4>1, <5>1
            <4>4. Done(a, r) /\ att[a].pc = "write" /\ to.status = "applied"
                BY <2>4, <3>1 DEF WriteRow, Doing
            <4> HIDE DEF to, r
            <4> QED BY <1>5, <4>1, <4>3, <4>4 DEF r
        <3>2. CASE ~Unmoved(att[a].row)
            BY <1>2, <2>4, <3>2 DEF WriteRow, Rejected, End
        <3> QED BY <3>1, <3>2
    <2>5. CASE FinishApply(a) \/ FailApply(a) \/ FinishCompensation(a) \/ FailCompensation(a)
        BY <1>2, <2>5
        DEF FinishApply, FailApply, FinishCompensation, FailCompensation, End
    <2>6. CASE CompensateRow(a)
        <3>1. CASE UNCHANGED <<op, ledger>>
            BY <1>2, <1>4, <2>6, <3>1 DEF CompensateRow, Rejected, End
        <3>2. CASE ~UNCHANGED <<op, ledger>>
            <4>1. PICK r \in Rows : /\ op[r].status = "applied" /\ Done(a, r)
                                    /\ op' = [op EXCEPT ![r].status = "compensated"]
                BY <2>6, <3>2, CompensateRowWrites
            <4> DEFINE to == [op[r] EXCEPT !.status = "compensated"]
            <4>2. to \in Operation /\ to.status = "compensated"
                BY <1>0 DEF Operation
            <4>3. op' = [op EXCEPT ![r] = to]
                BY <4>1
            <4> HIDE DEF to
            <4> QED BY <1>5, <4>1, <4>2, <4>3
        <3> QED BY <3>1, <3>2
    <2> QED BY <1>7, <2>1, <2>2, <2>3, <2>4, <2>5, <2>6 DEF Activity
<1>8. ASSUME NEW a \in Attempts, AttemptLost(a) \/ ZombieEnds(a)
      PROVE  Hands'
    BY <1>2, <1>8 DEF AttemptLost, ZombieEnds, End
<1> QED BY <1>1, <1>6, <1>7, <1>8
    DEF Next, vars, StartApply, StartCompensation, Cancel, DeliverCancel, LoseCancel,
        Replay, Launch, LoseLaunch, Timeout, OwnerEdit

\* An appended version disturbs nothing the invariant says of the earlier ones.
LEMMA AppendKeeps ==
    ASSUME TypeOK, Books, NEW r \in Rows, NEW key \in Key, NEW body,
           WriteVersion(r, key, body), UNCHANGED plan,
           key.row = r, key.by = "owner" => key.n <= edits',
           edits' \in Nat, edits <= edits'
    PROVE  /\ Numbered' /\ OneEach' /\ BaseKept'
           /\ \A q \in Rows : Expected(q)' = Expected(q) /\ ApplyVersion(q)' = ApplyVersion(q)
           /\ \A q \in Rows : plan[q] \in {"create", "new_version"} =>
                 /\ Snapshot(q)' = Snapshot(q)
                 /\ CompensatingVersion(q)' = CompensatingVersion(q)
<1> DEFINE new == [object |-> r, version |-> current[r] + 1, key |-> key, body |-> body]
<1>1. /\ versions' = versions \cup {new}
      /\ new.object = r /\ new.version = current[r] + 1 /\ new.key = key
    BY DEF WriteVersion
<1>2. /\ current \in [Rows -> Nat] /\ edits \in Nat
      /\ \A v \in versions : v.object \in Rows /\ v.version \in Nat /\ v.key \in Key
    BY BoundAssumption DEF TypeOK, VersionRow
<1>3. /\ current' \in [Rows -> Nat] /\ current'[r] = current[r] + 1
      /\ \A q \in Rows : q # r => current'[q] = current[q]
    BY <1>2 DEF WriteVersion
<1>4. \A v \in versions : v.key.by = "owner" => v.key.n \in Nat
    BY <1>2, BoundAssumption DEF Key
<1> HIDE DEF new
<1>5. Numbered'
    BY <1>1, <1>2, <1>3, <1>4 DEF Books, Numbered
<1>6. OneEach'
    BY <1>1, <1>2 DEF Books, Numbered, OneEach
<1>7. \A q \in Rows : Expected(q)' = Expected(q)
    BY DEF Expected
<1>8. BaseKept'
    BY <1>1, <1>7 DEF Books, BaseKept
<1>9. ASSUME NEW q \in Rows, plan[q] = "new_version"
      PROVE  BodyAt(q, Expected(q))' = BodyAt(q, Expected(q))
    <2>1. PICK v \in versions : v.object = q /\ v.version = Expected(q)
        BY <1>9 DEF Books, BaseKept
    <2>2. BodyAt(q, Expected(q)) = v.body
        BY <2>1, BodyIs DEF Books
    <2>3. v \in versions'
        BY <1>1
    <2>4. BodyAt(q, Expected(q))' = v.body
        <3>1. \A w \in versions' :
                w.object = q /\ w.version = Expected(q) => w = v
            BY <2>1, <2>3, <1>6 DEF OneEach
        <3>2. BodyAt(q, Expected(q))' =
                (CHOOSE w \in versions' : w.object = q /\ w.version = Expected(q)).body
            BY <1>7 DEF BodyAt
        <3> QED BY <2>1, <2>3, <3>1, <3>2
    <2> QED BY <2>2, <2>4
<1>10. \A q \in Rows : ApplyVersion(q)' = ApplyVersion(q)
    BY <1>7 DEF ApplyVersion, ImportKey
<1>11. ASSUME NEW q \in Rows, plan[q] \in {"create", "new_version"}
       PROVE  /\ Snapshot(q)' = Snapshot(q)
              /\ CompensatingVersion(q)' = CompensatingVersion(q)
    BY <1>7, <1>9, <1>11 DEF Snapshot, CompensatingVersion, ImportKey
<1> QED BY <1>5, <1>6, <1>7, <1>8, <1>10, <1>11

\* All but three kinds of step leave operations, plan and ledger alone.
LEMMA LedgerCases ==
    ASSUME [Next]_vars
    PROVE  \/ UNCHANGED <<op, plan, ledger, edits>>
           \/ \E r \in Rows : OwnerEdit(r)
           \/ \E a \in Attempts : WriteRow(a) /\ Unmoved(att[a].row)
           \/ \E a \in Attempts : CompensateRow(a) /\ ~UNCHANGED <<op, ledger>>
<1>1. ASSUME NEW a \in Attempts, Activity(a),
             ~(WriteRow(a) /\ Unmoved(att[a].row)),
             ~(CompensateRow(a) /\ ~UNCHANGED <<op, ledger>>)
      PROVE  UNCHANGED <<op, plan, ledger, edits>>
    <2>1. ASSUME WriteRow(a), ~Unmoved(att[a].row)
          PROVE  UNCHANGED <<op, plan, ledger, edits>>
        BY <2>1 DEF WriteRow, bounds
    <2>2. ASSUME CompensateRow(a), UNCHANGED <<op, ledger>>
          PROVE  UNCHANGED <<op, plan, ledger, edits>>
        BY <2>2 DEF CompensateRow, bounds
    <2> QED BY <1>1, <2>1, <2>2
        DEF Activity, ListPlanned, CheckRow, FinishApply, FailApply, ListApplied,
            FinishCompensation, FailCompensation, bounds
<1> QED BY <1>1
    DEF Next, vars, StartApply, StartCompensation, Cancel, DeliverCancel, LoseCancel,
        Replay, Launch, LoseLaunch, Schedule, AttemptLost, Timeout, ZombieEnds, bounds

LEMMA BooksStep ==
    ASSUME IInv, [Next]_vars
    PROVE  Books'
<1> USE DEF IInv
<1>0. /\ op \in [Rows -> Operation] /\ edits \in Nat
      /\ \A v \in versions : v.key \in Key
    BY BoundAssumption DEF TypeOK, VersionRow
<1>1. ASSUME UNCHANGED <<op, plan, ledger, edits>>
      PROVE  Books'
    <2>1. \A r \in Rows : /\ Expected(r)' = Expected(r)
                          /\ \A n : BodyAt(r, n)' = BodyAt(r, n)
        BY <1>1 DEF Expected, BodyAt, ledger
    <2>2. \A r \in Rows : /\ Snapshot(r)' = Snapshot(r)
                          /\ ApplyVersion(r)' = ApplyVersion(r)
                          /\ CompensatingVersion(r)' = CompensatingVersion(r)
        BY <1>1, <2>1 DEF Snapshot, ApplyVersion, CompensatingVersion, ImportKey
    <2> QED BY <1>1, <2>1, <2>2
        DEF Books, Writable, Numbered, OneEach, BaseKept, Unspent, Written, Restored,
            ledger, ImportKey
<1>2. ASSUME NEW r \in Rows, OwnerEdit(r)
      PROVE  Books'
    <2> DEFINE key == [by |-> "owner", row |-> r, n |-> edits + 1]
    <2>1. /\ WriteVersion(r, key, [text |-> key, archived |-> FALSE])
          /\ UNCHANGED <<op, plan>> /\ edits' = edits + 1 /\ edits < MaxEdits
        BY <1>2 DEF OwnerEdit
    <2>2. /\ key \in Key /\ key.row = r /\ key.by = "owner" /\ key.n = edits + 1
        BY <1>0, <2>1, BoundAssumption DEF Key
    <2>3. \A q \in Rows, k \in Kinds : key # ImportKey(k, q)
        BY <2>2, KeyFacts DEF Kinds
    <2>4. \A v \in versions' : v \in versions \/ v.key = key
        BY <2>1 DEF WriteVersion
    <2>5. versions \subseteq versions'
        BY <2>1 DEF WriteVersion
    <2> HIDE DEF key
    <2>6. /\ Numbered' /\ OneEach' /\ BaseKept'
          /\ \A q \in Rows : Expected(q)' = Expected(q) /\ ApplyVersion(q)' = ApplyVersion(q)
          /\ \A q \in Rows : plan[q] \in {"create", "new_version"} =>
                /\ Snapshot(q)' = Snapshot(q)
                /\ CompensatingVersion(q)' = CompensatingVersion(q)
        BY <1>0, <2>1, <2>2, AppendKeeps
    <2>7. \A q \in Rows, k \in Kinds : ImportKey(k, q)' = ImportKey(k, q)
        BY DEF ImportKey
    <2>8. Writable' /\ Unspent'
        BY <2>1, <2>3, <2>4, <2>7 DEF Books, Writable, Unspent, Kinds
    <2>9. Written'
        BY <2>1, <2>3, <2>4, <2>5, <2>6, <2>7 DEF Books, Written, Writable, Kinds, Bound
    <2>10. Restored'
        BY <2>1, <2>3, <2>4, <2>5, <2>6, <2>7 DEF Books, Restored, Writable, Kinds, Bound
    <2> QED BY <2>6, <2>8, <2>9, <2>10 DEF Books
<1>3. ASSUME NEW a \in Attempts, WriteRow(a), Unmoved(att[a].row)
      PROVE  Books'
    <2> DEFINE r == att[a].row
               key == ImportKey("apply", r)
    <2>1. /\ r \in Rows /\ op[r].status = "planned"
          /\ plan[r] \in {"create", "new_version"}
          /\ WriteVersion(r, key, ApplyVersion(r).body)
          /\ versions' = versions \cup {ApplyVersion(r)}
          /\ op' = [op EXCEPT ![r] = [status |-> "applied", result |-> Expected(r) + 1,
                                      snapshot |-> Snapshot(r)]]
        BY <1>3, WriteRowWrites
    <2>2. UNCHANGED <<plan, edits>>
        BY <1>3 DEF WriteRow, bounds
    <2>3. key \in Key /\ key.row = r /\ key.by = "apply" /\ ApplyVersion(r).key = key
        BY <2>1, KeyFacts DEF Kinds, ApplyVersion
    <2> HIDE DEF r, key
    <2>4. /\ Numbered' /\ OneEach' /\ BaseKept'
          /\ \A q \in Rows : Expected(q)' = Expected(q) /\ ApplyVersion(q)' = ApplyVersion(q)
          /\ \A q \in Rows : plan[q] \in {"create", "new_version"} =>
                /\ Snapshot(q)' = Snapshot(q)
                /\ CompensatingVersion(q)' = CompensatingVersion(q)
        BY <1>0, <2>1, <2>2, <2>3, AppendKeeps
    <2>5. \A q \in Rows, k \in Kinds :
            /\ ImportKey(k, q)' = ImportKey(k, q)
            /\ ImportKey(k, q) = key <=> q = r /\ k = "apply"
        <3>1. "apply" \in Kinds
            BY DEF Kinds
        <3> QED BY <2>1, <3>1, KeysApart DEF ImportKey, key
    <2>6. /\ op'[r].status = "applied" /\ op'[r].result = Expected(r) + 1
          /\ op'[r].snapshot = Snapshot(r)
          /\ \A q \in Rows : q # r => op'[q] = op[q]
        BY <1>0, <2>1
    <2> HIDE DEF key
    <2>7. Writable'
        BY <2>1, <2>2, <2>6 DEF Books, Writable, Bound
    <2>8. Unspent'
        BY <2>1, <2>3, <2>5, <2>6 DEF Books, Unspent, Kinds, Bound
    <2>9. Written'
        <3> SUFFICES ASSUME NEW q \in Rows, op'[q].status \in Bound
                     PROVE  /\ op'[q].result = Expected(q) + 1
                            /\ op'[q].snapshot = Snapshot(q)'
                            /\ ApplyVersion(q) \in versions'
                            /\ \A v \in versions' :
                                  v.key = ImportKey("apply", q) => v = ApplyVersion(q)
            BY <2>4, <2>5 DEF Written, Kinds
        <3>1. CASE q = r
            <4>1. \A v \in versions : v.key # ImportKey("apply", r)
                BY <2>1 DEF Books, Unspent, Bound
            <4> QED BY <2>1, <2>4, <2>6, <3>1, <4>1
        <3>2. CASE q # r
            <4>1. op'[q] = op[q] /\ plan[q] \in {"create", "new_version"}
                BY <2>6, <3>2 DEF Books, Writable
            <4>2. ApplyVersion(r).key # ImportKey("apply", q)
                BY <2>3, <2>5, <3>2 DEF Kinds
            <4> QED BY <2>1, <2>4, <4>1, <4>2 DEF Books, Written
        <3> QED BY <3>1, <3>2
    <2>10. Restored'
        <3> SUFFICES ASSUME NEW q \in Rows, op'[q].status = "compensated"
                     PROVE  /\ CompensatingVersion(q)' \in versions'
                            /\ \A v \in versions' :
                                  v.key = ImportKey("compensate", q)
                                    => v = CompensatingVersion(q)'
            BY <2>5 DEF Restored, Kinds
        <3>1. op'[q] = op[q] /\ plan[q] \in {"create", "new_version"}
            BY <2>6 DEF Books, Writable, Bound
        <3>2. ApplyVersion(r).key # ImportKey("compensate", q)
            BY <2>3, <2>5 DEF Kinds
        <3> QED BY <2>1, <2>4, <3>1, <3>2 DEF Books, Restored
    <2> QED BY <2>4, <2>7, <2>8, <2>9, <2>10 DEF Books
<1>4. ASSUME NEW a \in Attempts, CompensateRow(a), ~UNCHANGED <<op, ledger>>
      PROVE  Books'
    <2>1. PICK r \in Rows :
            /\ op[r].status = "applied" /\ plan[r] \in {"create", "new_version"}
            /\ WriteVersion(r, ImportKey("compensate", r), CompensatingVersion(r).body)
            /\ versions' = versions \cup {CompensatingVersion(r)}
            /\ op' = [op EXCEPT ![r].status = "compensated"]
        BY <1>4, CompensateRowWrites
    <2> DEFINE key == ImportKey("compensate", r)
    <2>2. UNCHANGED <<plan, edits>>
        BY <1>4 DEF CompensateRow, bounds
    <2>3. /\ key \in Key /\ key.row = r /\ key.by = "compensate"
          /\ CompensatingVersion(r).key = key
        BY KeyFacts DEF Kinds, CompensatingVersion
    <2>4. /\ Numbered' /\ OneEach' /\ BaseKept'
          /\ \A q \in Rows : Expected(q)' = Expected(q) /\ ApplyVersion(q)' = ApplyVersion(q)
          /\ \A q \in Rows : plan[q] \in {"create", "new_version"} =>
                /\ Snapshot(q)' = Snapshot(q)
                /\ CompensatingVersion(q)' = CompensatingVersion(q)
        <3> HIDE DEF key
        <3> QED BY <1>0, <2>1, <2>2, <2>3, AppendKeeps DEF key
    <2>5. \A q \in Rows, k \in Kinds :
            /\ ImportKey(k, q)' = ImportKey(k, q)
            /\ ImportKey(k, q) = key <=> q = r /\ k = "compensate"
        <3>1. "compensate" \in Kinds
            BY DEF Kinds
        <3> QED BY <3>1, KeysApart DEF ImportKey
    <2>6. /\ op'[r].status = "compensated" /\ op'[r].result = op[r].result
          /\ op'[r].snapshot = op[r].snapshot
          /\ \A q \in Rows : q # r => op'[q] = op[q]
        BY <1>0, <2>1 DEF Operation
    <2> HIDE DEF key
    <2>7. Writable'
        BY <2>1, <2>2, <2>6 DEF Books, Writable, Bound
    <2>8. Unspent'
        BY <2>1, <2>3, <2>5, <2>6 DEF Books, Unspent, Kinds, Bound
    <2>9. Written'
        <3> SUFFICES ASSUME NEW q \in Rows, op'[q].status \in Bound
                     PROVE  /\ op'[q].result = Expected(q) + 1
                            /\ op'[q].snapshot = Snapshot(q)'
                            /\ ApplyVersion(q) \in versions'
                            /\ \A v \in versions' :
                                  v.key = ImportKey("apply", q) => v = ApplyVersion(q)
            BY <2>4, <2>5 DEF Written, Kinds
        <3>1. /\ op[q].status \in Bound /\ plan[q] \in {"create", "new_version"}
              /\ op'[q].result = op[q].result /\ op'[q].snapshot = op[q].snapshot
            BY <2>1, <2>6 DEF Books, Writable, Bound
        <3>2. CompensatingVersion(r).key # ImportKey("apply", q)
            BY <2>3, <2>5 DEF Kinds
        <3> QED BY <2>1, <2>4, <3>1, <3>2 DEF Books, Written
    <2>10. Restored'
        <3> SUFFICES ASSUME NEW q \in Rows, op'[q].status = "compensated"
                     PROVE  /\ CompensatingVersion(q)' \in versions'
                            /\ \A v \in versions' :
                                  v.key = ImportKey("compensate", q)
                                    => v = CompensatingVersion(q)'
            BY <2>5 DEF Restored, Kinds
        <3>0. CompensatingVersion(q)' = CompensatingVersion(q)
            <4>1. plan[q] \in {"create", "new_version"}
                BY <2>1, <2>6 DEF Books, Writable, Bound
            <4> QED BY <2>4, <4>1
        <3>1. CASE q = r
            <4>1. \A v \in versions : v.key # ImportKey("compensate", r)
                BY <2>1 DEF Books, Unspent
            <4> QED BY <2>1, <3>0, <3>1, <4>1
        <3>2. CASE q # r
            <4>1. CompensatingVersion(r).key # ImportKey("compensate", q)
                BY <2>3, <2>5, <3>2 DEF Kinds
            <4> QED BY <2>1, <2>6, <3>0, <3>2, <4>1 DEF Books, Restored
        <3> QED BY <3>1, <3>2
    <2> QED BY <2>4, <2>7, <2>8, <2>9, <2>10 DEF Books
<1> QED BY <1>1, <1>2, <1>3, <1>4, LedgerCases

-----------------------------------------------------------------------------
LEMMA StepIInv ==
    ASSUME IInv, [Next]_vars
    PROVE  IInv'
<1>1. TypeOK' /\ TriesLeft'
    <2>1. CASE UNCHANGED vars
        BY <2>1 DEF IInv, vars, ledger, temporal, bounds, TypeOK, TriesLeft
    <2> QED BY <2>1, ApiType, TemporalType, OwnerType, ActivityType DEF IInv, Next
<1> QED BY <1>1, HandsStep, BooksStep DEF IInv

LEMMA Invariance == Spec => []IInv
BY InitIInv, StepIInv, PTL DEF Spec

\* The model's state stays what the database columns and Temporal admit; above
\* all, no workflow runs more attempts than its retry policy allows.
THEOREM TypeCorrect == Spec => []TypeOK
<1>1. IInv => TypeOK
    BY DEF IInv
<1> QED BY <1>1, Invariance, PTL

\* Operation rows and canonical versions agree, whatever attempts do.
THEOREM OperationsMatchLedger == Spec => []OpLedgerAgreement
<1>1. IInv => OpLedgerAgreement
    <2> SUFFICES ASSUME IInv, NEW r \in Rows
                 PROVE  /\ IF op[r].status \in {"applied", "compensated"}
                           THEN \E v \in versions :
                                  /\ Bought("apply", r) = {v}
                                  /\ v.object = r /\ v.version = op[r].result
                           ELSE Bought("apply", r) = {}
                        /\ IF op[r].status = "compensated"
                           THEN \E v \in versions :
                                  Bought("compensate", r) = {v} /\ v.object = r
                           ELSE Bought("compensate", r) = {}
        BY DEF OpLedgerAgreement
    <2>1. /\ ApplyVersion(r).key = ImportKey("apply", r)
          /\ ApplyVersion(r).object = r /\ ApplyVersion(r).version = Expected(r) + 1
          /\ CompensatingVersion(r).key = ImportKey("compensate", r)
          /\ CompensatingVersion(r).object = r
        BY DEF ApplyVersion, CompensatingVersion
    <2>2. CASE op[r].status \in Bound
        <3>1. Bought("apply", r) = {ApplyVersion(r)}
            BY <2>1, <2>2 DEF IInv, Books, Written, Bought
        <3> QED BY <2>1, <2>2, <3>1 DEF IInv, Books, Written, Restored, Unspent, Bought, Bound
    <2>3. CASE op[r].status \notin Bound
        BY <2>3 DEF IInv, Books, Unspent, Bought, Bound
    <2> QED BY <2>2, <2>3
<1> QED BY <1>1, Invariance, PTL

\* An import never overwrites what the owner did after the review.
THEOREM NoLostOwnerEdit == Spec => []AppliedOnReviewedBase
<1>1. IInv => AppliedOnReviewedBase
    <2> SUFFICES ASSUME IInv, NEW r \in Rows, NEW v \in Bought("apply", r)
                 PROVE  /\ plan[r] \in {"create", "new_version"}
                        /\ v.version = Expected(r) + 1
        BY DEF AppliedOnReviewedBase
    <2>1. v \in versions /\ v.key = ImportKey("apply", r)
        BY DEF Bought
    <2>2. op[r].status \in Bound
        BY <2>1 DEF IInv, Books, Unspent
    <2>3. v = ApplyVersion(r)
        BY <2>1, <2>2 DEF IInv, Books, Written
    <2> QED BY <2>2, <2>3 DEF IInv, Books, Writable, ApplyVersion
<1> QED BY <1>1, Invariance, PTL

\* Compensation puts back exactly what was reviewed and buries no owner edit.
THEOREM CompensationIsExact == Spec => []CompensationRestores
<1>1. IInv => CompensationRestores
    <2> SUFFICES ASSUME IInv, NEW r \in Rows, NEW v \in Bought("compensate", r)
                 PROVE  /\ v.version = Expected(r) + 2
                        /\ v.body = IF plan[r] = "create"
                                    THEN [text |-> ImportKey("apply", r), archived |-> TRUE]
                                    ELSE BodyAt(r, Expected(r))
        BY DEF CompensationRestores
    <2>1. v \in versions /\ v.key = ImportKey("compensate", r)
        BY DEF Bought
    <2>2. op[r].status = "compensated"
        BY <2>1 DEF IInv, Books, Unspent
    <2>3. v = CompensatingVersion(r)
        BY <2>1, <2>2 DEF IInv, Books, Restored
    <2> QED BY <2>3 DEF CompensatingVersion
<1> QED BY <1>1, Invariance, PTL

\* Owner, apply and compensation together only append, each version with a fresh key.
THEOREM AppendOnly == Spec => LedgerSteps
<1>1. ASSUME IInv, NEW r \in Rows, NEW key \in Key, NEW body \in Body,
             WriteVersion(r, key, body), \A v \in versions : v.key # key
      PROVE  Ledger!Next
    BY <1>1 DEF WriteVersion, Ledger!Next, Ledger!Append
<1>2. ASSUME IInv, NEW r \in Rows, OwnerEdit(r)
      PROVE  Ledger!Next
    <2> DEFINE key == [by |-> "owner", row |-> r, n |-> edits + 1]
    <2>1. edits \in Nat /\ edits + 1 \in 1 .. MaxEdits
        BY <1>2, BoundAssumption DEF IInv, TypeOK, OwnerEdit
    <2>2. key \in Key /\ [text |-> key, archived |-> FALSE] \in Body
        BY <2>1 DEF Key, Body
    <2>3. \A v \in versions : v.key # key
        <3> SUFFICES ASSUME NEW v \in versions, v.key = key
                     PROVE  FALSE
            OBVIOUS
        <3>1. v.key.by = "owner" /\ v.key.n = edits + 1
            OBVIOUS
        <3> QED BY <1>2, <2>1, <3>1 DEF IInv, Books, Numbered
    <2>4. WriteVersion(r, key, [text |-> key, archived |-> FALSE])
        BY <1>2 DEF OwnerEdit
    <2> HIDE DEF key
    <2> QED BY <1>1, <1>2, <2>2, <2>3, <2>4
<1>3. ASSUME IInv, NEW a \in Attempts, WriteRow(a), Unmoved(att[a].row)
      PROVE  Ledger!Next
    <2> DEFINE r == att[a].row
    <2>1. /\ r \in Rows /\ op[r].status = "planned"
          /\ WriteVersion(r, ImportKey("apply", r), ApplyVersion(r).body)
        BY <1>3, WriteRowWrites
    <2>2. ApplyVersion(r).body \in Body /\ ImportKey("apply", r) \in Key
        BY <2>1, KeyFacts DEF ApplyVersion, Body, Kinds
    <2>3. \A v \in versions : v.key # ImportKey("apply", r)
        BY <1>3, <2>1 DEF IInv, Books, Unspent, Bound
    <2> QED BY <1>1, <1>3, <2>1, <2>2, <2>3
<1>4. ASSUME IInv, NEW a \in Attempts, CompensateRow(a), ~UNCHANGED <<op, ledger>>
      PROVE  Ledger!Next
    <2>1. PICK r \in Rows :
            /\ op[r].status = "applied" /\ plan[r] \in {"create", "new_version"}
            /\ WriteVersion(r, ImportKey("compensate", r), CompensatingVersion(r).body)
        BY <1>4, CompensateRowWrites
    <2>2. CompensatingVersion(r).body \in Body
        BY <1>4, <2>1, CompensatingBody DEF IInv
    <2>3. \A v \in versions : v.key # ImportKey("compensate", r)
        BY <1>4, <2>1 DEF IInv, Books, Unspent
    <2> QED BY <1>1, <1>4, <2>1, <2>2, <2>3, KeyFacts DEF Kinds
<1>5. IInv /\ [Next]_vars => [Ledger!Next]_(Ledger!ledgerVars)
    BY <1>2, <1>3, <1>4, LedgerCases DEF ledger, Ledger!ledgerVars
<1> QED BY <1>5, Invariance, PTL DEF Spec, LedgerSteps

-----------------------------------------------------------------------------
(* What the job's status reports.  The books above stay right whatever a    *)
(* zombie attempt does; the status does not.  While no attempt has been     *)
(* timed out, and neither a late cancellation nor a late replay disturbs    *)
(* the saga, its parts take turns, and the status can be trusted.           *)

Quiet(k) == wf[k].run = "closed" /\ ~launch[k]

\* There is no zombie: an attempt is the one its workflow awaits, in its phase.
Awaited ==
    /\ \A k \in Kinds : wf[k].run = "closed" => wf[k].cur = None
    /\ \A a \in Attempts : att[a] # Idle =>
          \E k \in Kinds :
              att[a].kind = k /\ wf[k].cur = a /\ wf[k].run = att[a].phase

\* First the review, then the apply workflow, then the compensation workflow.
InTurn ==
    /\ ~cancelling
    /\ ~job.applyKey =>
          /\ Quiet("apply") /\ ~job.compensationKey
          /\ job.status \in {"ready_for_review", "cancelled"}
    /\ job.applyKey /\ ~job.compensationKey =>
          job.status \in {"applying", "completed", "partially_completed", "failed"}
    /\ ~job.compensationKey =>
          Quiet("compensate") /\ \A r \in Rows : op[r].status # "compensated"
    /\ job.compensationKey =>
          /\ Quiet("apply")
          /\ job.status \in {"compensating", "compensated", "partially_completed"}

Skips == \A r \in Rows : op[r].status = "skipped" <=> plan[r] = "skip"

\* The job is still applying when a row is written, not only when it was checked.
Writing == \A a \in Attempts : att[a].pc = "write" =>
    att[a].kind = "apply" /\ att[a].phase = "work" /\ job.status = "applying"

\* The list an attempt read at its start still holds every row it has to deal with.
Lists == \A a \in Attempts, r \in Rows : att[a].phase = "work" /\ att[a].pc # "begin" =>
    /\ att[a].kind = "apply" /\ op[r].status = "planned" => r \in att[a].todo
    /\ att[a].kind = "compensate" /\ op[r].status = "applied" => r \in att[a].todo

Told ==
    /\ job.status = "failed" => \A r \in Rows : op[r].status \notin Bound
    /\ CompletedMeansAllApplied /\ CompensatedMeansNoneApplied

Orderly == Awaited /\ InTurn /\ Skips /\ Writing /\ Lists /\ Told

LEMMA InitOrderly == Init => Orderly
<1> SUFFICES ASSUME Init PROVE Orderly
    OBVIOUS
<1>1. Awaited /\ InTurn
    BY DEF Init, Awaited, InTurn, Quiet, Closed, Kinds
<1>2. Skips
    BY PlanAssumption DEF Init, Skips
<1>3. Writing /\ Lists
    BY NoneAssumption DEF Init, Writing, Lists, Idle, Kinds
<1>4. Told
    BY DEF Init, Told, CompletedMeansAllApplied, CompensatedMeansNoneApplied
<1> QED BY <1>1, <1>2, <1>3, <1>4 DEF Orderly

\* An attempt at work is the only one of its kind, in the turn of its kind.
LEMMA AtWork ==
    ASSUME IInv, Orderly, NEW a \in Attempts, NEW k \in Kinds, att[a].kind = k
    PROVE  /\ wf[k].cur = a /\ wf[k].run # "closed"
           /\ \A b \in Attempts : att[b].kind = k => b = a
           /\ k = "apply" => /\ job.applyKey /\ ~job.compensationKey
                             /\ job.status \in {"applying", "completed",
                                                "partially_completed", "failed"}
           /\ k = "compensate" => /\ job.compensationKey
                                  /\ job.status \in {"compensating", "compensated",
                                                     "partially_completed"}
<1>1. \A b \in Attempts : att[b].kind = k => att[b] # Idle
    BY NoneAssumption DEF Idle, Kinds
<1>2. \A b \in Attempts : att[b].kind = k => wf[k].cur = b
    BY <1>1 DEF Orderly, Awaited
<1>3. wf[k].cur = a /\ wf[k].run # "closed"
    BY <1>2, NoneAssumption DEF Orderly, Awaited
<1> QED BY <1>2, <1>3 DEF Orderly, InTurn, Quiet

\* The outcome of an attempt never opens a closed workflow.
LEMMA EndOrderly ==
    ASSUME IInv, Orderly, NEW a \in Attempts, NEW result, End(a, result)
    PROVE  /\ Awaited'
           /\ \A k \in Kinds : wf[k].run = "closed" => wf'[k].run = "closed"
           /\ \A b \in Attempts : b # a => att'[b] = att[b]
           /\ att'[a] = Idle
<1>1. /\ \A b \in Attempts : b # a => att'[b] = att[b]
      /\ att'[a] = Idle
    BY DEF End, IInv, TypeOK
<1>2. \A k \in Kinds : wf'[k] = IF wf[k].cur = a THEN Outcome(wf[k], result) ELSE wf[k]
    BY DEF End, Report
<1>3. a # None
    BY NoneAssumption
<1>4. \A k \in Kinds : wf[k].cur = a => Outcome(wf[k], result).cur = None
    BY DEF IInv, TypeOK, Workflow, Outcome, Escalate, Closed, Run
<1>5. \A k \in Kinds : wf[k].run = "closed" => wf'[k] = wf[k]
    BY <1>2, <1>3 DEF Orderly, Awaited
<1>6. Awaited'
    <2>1. \A k \in Kinds : wf'[k].run = "closed" => wf'[k].cur = None
        BY <1>2, <1>4 DEF Orderly, Awaited
    <2>2. ASSUME NEW b \in Attempts, att'[b] # Idle'
          PROVE  \E k \in Kinds :
                    att'[b].kind = k /\ wf'[k].cur = b /\ wf'[k].run = att'[b].phase
        <3>1. Idle' = Idle
            BY DEF Idle
        <3>2. b # a /\ att'[b] = att[b] /\ att[b] # Idle
            BY <1>1, <2>2, <3>1
        <3> QED BY <1>2, <3>2 DEF Orderly, Awaited
    <2> QED BY <2>1, <2>2 DEF Awaited
<1> QED BY <1>1, <1>5, <1>6

\* An attempt that goes on stays the one its workflow awaits.
LEMMA GoesOn ==
    ASSUME Orderly, NEW a \in Attempts, NEW k \in Kinds, att[a].kind = k,
           att'[a].kind = k, att'[a].phase = att[a].phase,
           \A b \in Attempts : b # a => att'[b] = att[b], UNCHANGED wf
    PROVE  Awaited'
<1>1. att[a] # Idle /\ Idle' = Idle
    BY NoneAssumption DEF Idle, Kinds
<1> QED BY <1>1 DEF Orderly, Awaited

-----------------------------------------------------------------------------
\* The API takes its steps in turn.
LEMMA OrderlyApi ==
    ASSUME IInv, Orderly, ~LateReplay, ~LateCancel,
           \/ StartApply \/ StartCompensation \/ Cancel \/ DeliverCancel \/ LoseCancel
           \/ \E k \in Kinds : Replay(k) \/ LoseLaunch(k)
    PROVE  Orderly'
<1> USE DEF Orderly
<1>0. /\ job \in Job /\ launch \in [Kinds -> BOOLEAN] /\ Kinds = {"apply", "compensate"}
      /\ Idle' = Idle
    BY DEF IInv, TypeOK, Kinds, Idle
<1>1. UNCHANGED <<op, plan, wf, att>> /\ ~cancelling
    BY DEF InTurn, StartApply, StartCompensation, Cancel, DeliverCancel, LoseCancel,
           Replay, LoseLaunch, ledger, bounds
<1>2. Awaited' /\ Skips' /\ Lists'
    BY <1>0, <1>1 DEF Awaited, Skips, Lists
<1>3. CASE StartApply
    BY <1>0, <1>1, <1>2, <1>3
    DEF StartApply, InTurn, Quiet, Writing, Told, Job,
        CompletedMeansAllApplied, CompensatedMeansNoneApplied
<1>4. CASE StartCompensation
    BY <1>0, <1>1, <1>2, <1>4
    DEF StartCompensation, InTurn, Quiet, Writing, Told, Job,
        CompletedMeansAllApplied, CompensatedMeansNoneApplied
<1>5. CASE Cancel
    BY <1>0, <1>1, <1>2, <1>5
    DEF Cancel, InTurn, Quiet, Writing, Told, Job,
        CompletedMeansAllApplied, CompensatedMeansNoneApplied
<1>6. ASSUME NEW k \in Kinds, Replay(k) \/ LoseLaunch(k)
      PROVE  Orderly'
    BY <1>0, <1>1, <1>2, <1>6
    DEF Replay, LoseLaunch, InTurn, Quiet, Writing, Told, Job,
        CompletedMeansAllApplied, CompensatedMeansNoneApplied
<1> QED BY <1>1, <1>3, <1>4, <1>5, <1>6 DEF DeliverCancel, LoseCancel

\* Temporal starts, schedules and retries what is due.
LEMMA OrderlyTemporal ==
    ASSUME IInv, Orderly, timeouts' = 0,
           \/ \E k \in Kinds : Launch(k) \/ Schedule(k)
           \/ \E a \in Attempts : AttemptLost(a) \/ Timeout(a) \/ ZombieEnds(a)
    PROVE  Orderly'
<1> USE DEF Orderly
<1>0. /\ wf \in [Kinds -> Workflow] /\ launch \in [Kinds -> BOOLEAN]
      /\ att \in [Attempts -> Attempt] /\ Kinds = {"apply", "compensate"}
      /\ Idle' = Idle /\ timeouts \in Nat
    BY BoundAssumption DEF IInv, TypeOK, Kinds, Idle
<1>1. ASSUME UNCHANGED <<job, op, plan>>
      PROVE  Skips' /\ Told'
    BY <1>1 DEF Skips, Told, CompletedMeansAllApplied, CompensatedMeansNoneApplied
<1>2. ASSUME NEW k \in Kinds, Launch(k)
      PROVE  Orderly'
    <2>1. UNCHANGED <<job, op, plan, att, cancelling>>
        BY <1>2 DEF Launch
    <2>2. Awaited'
        BY <1>0, <1>2, <2>1, NoneAssumption DEF Launch, Awaited, Run
    <2>3. InTurn'
        BY <1>0, <1>2, <2>1 DEF Launch, InTurn, Quiet
    <2> QED BY <1>1, <2>1, <2>2, <2>3 DEF Writing, Lists
<1>3. ASSUME NEW k \in Kinds, Schedule(k)
      PROVE  Orderly'
    <2>1. UNCHANGED <<job, op, plan, launch, cancelling>>
        BY <1>3 DEF Schedule
    <2>2. PICK a \in Attempts :
            /\ att[a] = Idle
            /\ att' = [att EXCEPT ![a] = [Idle EXCEPT !.kind = k, !.phase = wf[k].run]]
            /\ wf' = [wf EXCEPT ![k].cur = a, ![k].tries = @ + 1]
        BY <1>3 DEF Schedule
    <2>3. /\ att'[a].kind = k /\ att'[a].phase = wf[k].run /\ att'[a].pc = "begin"
          /\ \A b \in Attempts : b # a => att'[b] = att[b]
        BY <1>0, <2>2 DEF Idle
    <2>4. /\ wf'[k].cur = a /\ wf'[k].run = wf[k].run
          /\ \A j \in Kinds : j # k => wf'[j] = wf[j]
        BY <1>0, <2>2 DEF Workflow
    <2>5. wf[k].run # "closed" /\ wf[k].cur = None
        BY <1>3 DEF Schedule
    <2>6. Awaited'
        BY <1>0, <2>3, <2>4, <2>5, NoneAssumption DEF Awaited
    <2>7. InTurn'
        BY <1>0, <2>1, <2>4, <2>5 DEF InTurn, Quiet
    <2>8. Writing' /\ Lists'
        BY <2>1, <2>3 DEF Writing, Lists
    <2> QED BY <1>1, <2>1, <2>6, <2>7, <2>8
<1>4. ASSUME NEW a \in Attempts, AttemptLost(a)
      PROVE  Orderly'
    <2>1. UNCHANGED <<job, op, plan, launch, cancelling>> /\ End(a, "retry")
        BY <1>4 DEF AttemptLost
    <2>2. /\ Awaited'
          /\ \A k \in Kinds : wf[k].run = "closed" => wf'[k].run = "closed"
          /\ \A b \in Attempts : b # a => att'[b] = att[b]
          /\ att'[a] = Idle
        BY <2>1, EndOrderly
    <2>3. InTurn'
        BY <1>0, <2>1, <2>2 DEF InTurn, Quiet
    <2>4. Writing' /\ Lists'
        BY <2>1, <2>2 DEF Writing, Lists, Idle
    <2> QED BY <1>1, <2>1, <2>2, <2>3, <2>4
<1>5. ASSUME NEW a \in Attempts, Timeout(a)
      PROVE  FALSE
    BY <1>0, <1>5 DEF Timeout
<1>6. ASSUME NEW a \in Attempts, ZombieEnds(a)
      PROVE  FALSE
    BY <1>6 DEF ZombieEnds, Awaited, Live
<1> QED BY <1>2, <1>3, <1>4, <1>5, <1>6

\* The apply activity.
LEMMA OrderlyApply ==
    ASSUME IInv, Orderly, NEW a \in Attempts,
           \/ ListPlanned(a) \/ CheckRow(a) \/ WriteRow(a)
           \/ FinishApply(a) \/ FailApply(a)
    PROVE  Orderly'
<1> USE DEF Orderly
<1>0. /\ job \in Job /\ op \in [Rows -> Operation]
      /\ att \in [Attempts -> Attempt] /\ Kinds = {"apply", "compensate"}
    BY DEF IInv, TypeOK, Kinds
<1>1. /\ att[a].kind = "apply"
      /\ UNCHANGED <<plan, launch, cancelling>>
    BY DEF ListPlanned, CheckRow, WriteRow, FinishApply, FailApply, Doing, temporal
<1>2. /\ job.applyKey /\ ~job.compensationKey
      /\ job.status \in {"applying", "completed", "partially_completed", "failed"}
      /\ wf["apply"].run # "closed"
      /\ \A b \in Attempts : att[b].kind = "apply" => b = a
    BY <1>0, <1>1, AtWork
<1>3. \A b \in Attempts : att[b].kind # "compensate"
    BY <1>0, <1>2, AtWork
<1>4. ASSUME UNCHANGED <<job, op>>
      PROVE  Skips' /\ Told'
    BY <1>1, <1>4 DEF Skips, Told, CompletedMeansAllApplied, CompensatedMeansNoneApplied
\* The attempt goes on with its list, and nothing is written.
<1>5. ASSUME UNCHANGED <<job, op, wf>>, att'[a].kind = "apply",
             att'[a].phase = att[a].phase, att'[a].pc # "write",
             \A b \in Attempts : b # a => att'[b] = att[b],
             \A r \in Rows : op[r].status = "planned" => r \in att'[a].todo
      PROVE  Orderly'
    <2>1. Awaited'
        BY <1>0, <1>1, <1>5, GoesOn
    <2>2. InTurn'
        BY <1>1, <1>5 DEF InTurn, Quiet
    <2>3. Writing' /\ Lists'
        BY <1>5 DEF Writing, Lists
    <2> QED BY <1>4, <1>5, <2>1, <2>2, <2>3
\* The attempt ends, perhaps with a new status of the job.
<1>6. ASSUME NEW result, End(a, result), UNCHANGED op, NEW status,
             job' = [job EXCEPT !.status = status],
             status \in {"applying", "completed", "partially_completed", "failed"},
             Told'
      PROVE  Orderly'
    <2>1. /\ Awaited'
          /\ \A k \in Kinds : wf[k].run = "closed" => wf'[k].run = "closed"
          /\ \A b \in Attempts : b # a => att'[b] = att[b]
          /\ att'[a] = Idle
        BY <1>6, EndOrderly
    <2>2. /\ job'.status = status /\ job'.applyKey = job.applyKey
          /\ job'.compensationKey = job.compensationKey
        BY <1>0, <1>6 DEF Job
    <2>3. InTurn'
        BY <1>0, <1>1, <1>2, <1>6, <2>1, <2>2 DEF InTurn, Quiet
    <2>4. Writing' /\ Lists' /\ Skips'
        BY <1>1, <1>2, <1>6, <2>1, NoneAssumption DEF Writing, Lists, Skips, Idle
    <2> QED BY <1>6, <2>1, <2>3, <2>4
<1>7. ASSUME NEW result, End(a, result), UNCHANGED <<op, job>>
      PROVE  Orderly'
    <2>1. job = [job EXCEPT !.status = job.status]
        BY <1>0 DEF Job
    <2> QED BY <1>2, <1>4, <1>6, <1>7, <2>1
<1>8. CASE ListPlanned(a)
    <2>1. Listed(a, "planned") /\ UNCHANGED <<job, op, wf>>
        BY <1>8 DEF ListPlanned, temporal
    <2> QED BY <1>1, <1>5, <2>1, ListedKeeps DEF IInv
<1>9. CASE CheckRow(a)
    <2>1. UNCHANGED <<job, op>> /\ Doing(a, "apply", "work", "next")
        BY <1>9 DEF CheckRow
    <2>2. \A r \in Rows : op[r].status = "planned" => r \in att[a].todo
        BY <2>1 DEF Lists, Doing
    <2>3. ASSUME NEW r \in Rows, op[r].status = "applied", Done(a, r), UNCHANGED wf
          PROVE  Orderly'
        BY <1>1, <1>5, <2>1, <2>2, <2>3, DoneKeeps DEF IInv
    <2>4. ASSUME NEW r \in Rows, job.status = "applying", UNCHANGED wf,
                 att' = [att EXCEPT ![a].pc = "write", ![a].row = r]
          PROVE  Orderly'
        <3>1. /\ att'[a].kind = "apply" /\ att'[a].phase = "work"
              /\ att'[a].todo = att[a].todo
              /\ \A b \in Attempts : b # a => att'[b] = att[b]
            BY <1>0, <2>1, <2>4 DEF Attempt, Doing
        <3>2. Awaited'
            BY <1>0, <1>1, <2>1, <2>4, <3>1, GoesOn DEF Doing
        <3>3. InTurn' /\ Writing' /\ Lists'
            BY <1>1, <2>1, <2>2, <2>4, <3>1 DEF InTurn, Quiet, Writing, Lists
        <3> QED BY <1>4, <2>1, <3>2, <3>3
    <2> QED BY <1>7, <1>9, <2>1, <2>3, <2>4 DEF CheckRow
<1>10. CASE WriteRow(a)
    <2> DEFINE r == att[a].row
    <2>1. /\ UNCHANGED job /\ job.status = "applying"
          /\ Doing(a, "apply", "work", "write")
        BY <1>10 DEF WriteRow, Doing, Writing
    <2>2. CASE ~Unmoved(r)
        <3>1. UNCHANGED op /\ \E result : End(a, result)
            BY <1>10, <2>2 DEF WriteRow, Rejected
        <3> QED BY <1>7, <2>1, <3>1
    <2>3. CASE Unmoved(r)
        <3>1. /\ r \in Rows /\ op[r].status = "planned"
              /\ plan[r] \in {"create", "new_version"}
              /\ op' = [op EXCEPT ![r] = [status |-> "applied", result |-> Expected(r) + 1,
                                          snapshot |-> Snapshot(r)]]
            BY <1>10, <2>3, WriteRowWrites
        <3>2. Done(a, r) /\ UNCHANGED wf
            BY <1>10, <2>3 DEF WriteRow
        <3>3. /\ att'[a].kind = "apply" /\ att'[a].phase = att[a].phase
              /\ att'[a].pc = "next" /\ att'[a].todo = att[a].todo \ {r}
              /\ \A b \in Attempts : b # a => att'[b] = att[b]
            BY <1>1, <3>2, DoneKeeps DEF IInv
        <3> HIDE DEF r
        <3>4. op'[r].status = "applied" /\ \A q \in Rows : q # r => op'[q] = op[q]
            BY <1>0, <3>1
        <3>5. Awaited'
            BY <1>0, <1>1, <3>2, <3>3, GoesOn
        <3>6. InTurn'
            BY <1>1, <1>2, <2>1, <3>2, <3>4 DEF InTurn, Quiet
        <3>7. Skips'
            BY <1>1, <3>1, <3>4 DEF Skips
        <3>8. Writing'
            BY <2>1, <3>3 DEF Writing
        <3>9. Lists'
            BY <1>2, <1>3, <2>1, <3>3, <3>4 DEF Lists, Doing
        <3>10. Told'
            BY <2>1 DEF Told, CompletedMeansAllApplied, CompensatedMeansNoneApplied
        <3> QED BY <3>5, <3>6, <3>7, <3>8, <3>9, <3>10
    <2> QED BY <2>2, <2>3
\* Nothing is left planned; rows are skipped, applied, or conflicts of the plan.
<1>11. CASE FinishApply(a)
    <2> DEFINE status == IF \E r \in Rows : op[r].status = "failed"
                         THEN "partially_completed" ELSE "completed"
    <2>1. /\ Doing(a, "apply", "work", "next") /\ att[a].todo = {}
          /\ job' = [job EXCEPT !.status = status]
          /\ End(a, "ok") /\ UNCHANGED op
        BY <1>11 DEF FinishApply
    <2>2. \A r \in Rows : op[r].status \in {"skipped", "failed", "applied"}
        <3>1. \A r \in Rows : op[r].status # "planned"
            BY <2>1 DEF Lists, Doing
        <3>2. \A r \in Rows : op[r].status # "compensated"
            BY <1>2 DEF InTurn
        <3> QED BY <1>0, <3>1, <3>2 DEF Operation
    <2>3. job'.status = status
        BY <1>0, <2>1 DEF Job
    <2>4. Told'
        BY <1>1, <2>1, <2>2, <2>3
        DEF Told, CompletedMeansAllApplied, CompensatedMeansNoneApplied, Skips
    <2> HIDE DEF status
    <2>5. status \in {"completed", "partially_completed"}
        BY DEF status
    <2> QED BY <1>6, <2>1, <2>4, <2>5
<1>12. CASE FailApply(a)
    <2> DEFINE status == FailureOf(job.status)
    <2>1. job' = [job EXCEPT !.status = status] /\ End(a, "ok") /\ UNCHANGED op
        BY <1>12 DEF FailApply
    <2>2. /\ status \in {"completed", "partially_completed", "failed"}
          /\ status = "completed" => job.status = "completed"
          /\ status = "failed" => \A r \in Rows : op[r].status # "applied"
        BY <1>2 DEF FailureOf
    <2> HIDE DEF status
    <2>3. job'.status = status
        BY <1>0, <2>1 DEF Job
    <2>4. \A r \in Rows : op[r].status # "compensated"
        BY <1>2 DEF InTurn
    <2>5. Told'
        BY <1>1, <2>1, <2>2, <2>3, <2>4
        DEF Told, CompletedMeansAllApplied, CompensatedMeansNoneApplied, Bound
    <2> QED BY <1>6, <2>1, <2>2, <2>5
<1> QED BY <1>8, <1>9, <1>10, <1>11, <1>12

\* The compensation activity.
LEMMA OrderlyCompensation ==
    ASSUME IInv, Orderly, NEW a \in Attempts,
           \/ ListApplied(a) \/ CompensateRow(a)
           \/ FinishCompensation(a) \/ FailCompensation(a)
    PROVE  Orderly'
<1> USE DEF Orderly
<1>0. /\ job \in Job /\ op \in [Rows -> Operation]
      /\ att \in [Attempts -> Attempt] /\ Kinds = {"apply", "compensate"}
    BY DEF IInv, TypeOK, Kinds
<1>1. /\ att[a].kind = "compensate"
      /\ UNCHANGED <<plan, launch, cancelling>>
    BY DEF ListApplied, CompensateRow, FinishCompensation, FailCompensation, Doing, temporal
<1>2. /\ job.compensationKey
      /\ job.status \in {"compensating", "compensated", "partially_completed"}
      /\ wf["compensate"].run # "closed"
      /\ \A b \in Attempts : att[b].kind = "compensate" => b = a
    BY <1>0, <1>1, AtWork
<1>3. \A b \in Attempts : att[b].kind # "apply" /\ att[b].pc # "write"
    BY <1>0, <1>2, AtWork DEF Writing
<1>4. job.applyKey
    BY <1>0, <1>2 DEF InTurn, Job
\* The attempt goes on with its list, perhaps after compensating a row.
<1>5. ASSUME UNCHANGED <<job, wf>>, att'[a].kind = "compensate",
             att'[a].phase = att[a].phase, att'[a].pc # "write",
             \A b \in Attempts : b # a => att'[b] = att[b],
             \A r \in Rows : op'[r].status = "applied" => r \in att'[a].todo,
             \A r \in Rows : \/ op'[r].status = op[r].status
                             \/ op[r].status = "applied" /\ op'[r].status = "compensated"
      PROVE  Orderly'
    <2>1. Awaited'
        BY <1>0, <1>1, <1>5, GoesOn
    <2>2. InTurn'
        BY <1>1, <1>2, <1>4, <1>5 DEF InTurn, Quiet
    <2>3. Writing'
        BY <1>3, <1>5 DEF Writing
    <2>4. Lists'
        BY <1>2, <1>3, <1>5 DEF Lists
    <2>5. Skips'
        BY <1>1, <1>5 DEF Skips
    <2>6. Told'
        BY <1>2, <1>5 DEF Told, CompletedMeansAllApplied, CompensatedMeansNoneApplied
    <2> QED BY <2>1, <2>2, <2>3, <2>4, <2>5, <2>6
\* The attempt ends, perhaps with a new status of the job.
<1>6. ASSUME NEW result, End(a, result), UNCHANGED op, NEW status,
             job' = [job EXCEPT !.status = status],
             status \in {"compensating", "compensated", "partially_completed"},
             status = "compensated" => \A r \in Rows : op[r].status # "applied"
      PROVE  Orderly'
    <2>1. /\ Awaited'
          /\ \A k \in Kinds : wf[k].run = "closed" => wf'[k].run = "closed"
          /\ \A b \in Attempts : b # a => att'[b] = att[b]
          /\ att'[a] = Idle
        BY <1>6, EndOrderly
    <2>2. /\ job'.status = status /\ job'.applyKey = job.applyKey
          /\ job'.compensationKey = job.compensationKey
        BY <1>0, <1>6 DEF Job
    <2>3. InTurn'
        BY <1>0, <1>1, <1>2, <1>4, <1>6, <2>1, <2>2 DEF InTurn, Quiet
    <2>4. Writing' /\ Lists' /\ Skips'
        BY <1>1, <1>3, <1>6, <2>1, NoneAssumption DEF Writing, Lists, Skips, Idle
    <2>5. Told'
        BY <1>6, <2>2 DEF Told, CompletedMeansAllApplied, CompensatedMeansNoneApplied
    <2> QED BY <2>1, <2>3, <2>4, <2>5
<1>7. CASE ListApplied(a)
    <2>1. Listed(a, "applied") /\ UNCHANGED <<job, op, wf>>
        BY <1>7 DEF ListApplied, temporal
    <2> QED BY <1>1, <1>5, <2>1, ListedKeeps DEF IInv
<1>8. CASE CompensateRow(a)
    <2>1. UNCHANGED job /\ Doing(a, "compensate", "work", "next")
        BY <1>8 DEF CompensateRow
    <2>2. \A r \in Rows : op[r].status = "applied" => r \in att[a].todo
        BY <2>1 DEF Lists, Doing
    <2>3. ASSUME NEW r \in Rows, op[r].status = "compensated", Done(a, r),
                 UNCHANGED <<op, wf>>
          PROVE  Orderly'
        BY <1>1, <1>5, <2>1, <2>2, <2>3, DoneKeeps DEF IInv
    <2>4. ASSUME NEW r \in Rows, r \in att[a].todo, op[r].status # "compensated",
                 op' = [op EXCEPT ![r].status = "compensated"], Done(a, r), UNCHANGED wf
          PROVE  Orderly'
        <3>1. op[r].status = "applied"
            BY <1>1, <2>4 DEF IInv, Hands, Compensators, Bound
        <3>2. op'[r].status = "compensated" /\ \A q \in Rows : q # r => op'[q] = op[q]
            BY <1>0, <2>4 DEF Operation
        <3> QED BY <1>1, <1>5, <2>1, <2>2, <2>4, <3>1, <3>2, DoneKeeps DEF IInv
    <2>5. ASSUME NEW r \in Rows, Rejected(a, r), UNCHANGED op
          PROVE  Orderly'
        <3>1. job' = [job EXCEPT !.status = job.status]
            BY <1>0, <2>1 DEF Job
        <3>2. job.status = "compensated" => \A q \in Rows : op[q].status # "applied"
            BY DEF Told, CompensatedMeansNoneApplied
        <3> QED BY <1>2, <1>6, <2>5, <3>1, <3>2 DEF Rejected
    <2> QED BY <1>8, <2>3, <2>4, <2>5 DEF CompensateRow, Turn
<1>9. CASE FinishCompensation(a)
    <2>1. /\ Doing(a, "compensate", "work", "next") /\ att[a].todo = {}
          /\ job' = [job EXCEPT !.status = "compensated"]
          /\ End(a, "ok") /\ UNCHANGED op
        BY <1>9 DEF FinishCompensation
    <2>2. \A r \in Rows : op[r].status # "applied"
        BY <2>1 DEF Lists, Doing
    <2> QED BY <1>6, <2>1, <2>2
<1>10. CASE FailCompensation(a)
    <2> DEFINE status == IF job.status = "compensated" THEN job.status
                         ELSE "partially_completed"
    <2>1. job' = [job EXCEPT !.status = status] /\ End(a, "ok") /\ UNCHANGED op
        BY <1>10 DEF FailCompensation
    <2>2. status = "compensated" => \A r \in Rows : op[r].status # "applied"
        BY DEF Told, CompensatedMeansNoneApplied
    <2>3. status \in {"compensated", "partially_completed"}
        OBVIOUS
    <2> HIDE DEF status
    <2> QED BY <1>6, <2>1, <2>2, <2>3
<1> QED BY <1>7, <1>8, <1>9, <1>10

LEMMA TimeoutsGrow ==
    ASSUME [Next]_vars
    PROVE  timeouts' = timeouts \/ timeouts' = timeouts + 1
<1>1. ASSUME NEW a \in Attempts, Activity(a)
      PROVE  UNCHANGED timeouts
    BY <1>1
    DEF Activity, ListPlanned, CheckRow, WriteRow, FinishApply, FailApply, ListApplied,
        CompensateRow, FinishCompensation, FailCompensation, bounds
<1>2. ASSUME NEW a \in Attempts, AttemptLost(a) \/ ZombieEnds(a)
      PROVE  UNCHANGED timeouts
    BY <1>2 DEF AttemptLost, ZombieEnds, bounds
<1>3. ASSUME NEW k \in Kinds, Replay(k) \/ Launch(k) \/ LoseLaunch(k) \/ Schedule(k)
      PROVE  UNCHANGED timeouts
    BY <1>3 DEF Replay, Launch, LoseLaunch, Schedule, bounds
<1>4. ASSUME StartApply \/ StartCompensation \/ Cancel \/ DeliverCancel \/ LoseCancel
      PROVE  UNCHANGED timeouts
    BY <1>4 DEF StartApply, StartCompensation, Cancel, DeliverCancel, LoseCancel, bounds
<1> QED BY <1>1, <1>2, <1>3, <1>4 DEF Next, Timeout, OwnerEdit, vars, bounds

LEMMA StepOrderly ==
    ASSUME IInv, Orderly, ~LateReplay, ~LateCancel, [Next]_vars, timeouts' = 0
    PROVE  Orderly'
<1>1. ASSUME UNCHANGED <<job, op, plan, launch, cancelling, wf, att>>
      PROVE  Orderly'
    BY <1>1
    DEF Orderly, Awaited, InTurn, Quiet, Skips, Writing, Lists, Told, Idle,
        CompletedMeansAllApplied, CompensatedMeansNoneApplied
<1>2. ASSUME NEW r \in Rows, OwnerEdit(r)
      PROVE  Orderly'
    BY <1>1, <1>2 DEF OwnerEdit, temporal
<1>3. CASE UNCHANGED vars
    BY <1>1, <1>3 DEF vars, temporal
<1> QED BY <1>2, <1>3, OrderlyApi, OrderlyTemporal, OrderlyApply, OrderlyCompensation
        DEF Next, Activity

LEMMA OrderlyHolds ==
    ASSUME ~LateReplay, ~LateCancel
    PROVE  Spec => [](IInv /\ (timeouts = 0 => Orderly))
<1>1. Init => (timeouts = 0 => Orderly)
    BY InitOrderly
<1>2. ASSUME IInv, timeouts = 0 => Orderly, [Next]_vars
      PROVE  (timeouts = 0 => Orderly)'
    <2>1. timeouts' = 0 => timeouts = 0
        BY <1>2, TimeoutsGrow, BoundAssumption DEF IInv, TypeOK
    <2> QED BY <1>2, <2>1, StepOrderly
<1> QED BY <1>1, <1>2, Invariance, PTL DEF Spec

\* What the API tells a client of its job is true of the rows, in a saga whose
\* attempts are never timed out while they run: after any crashes, retries and
\* replays of a request, and for any plan.  With one timeout a zombie may write
\* behind the report, so a hypothesis like this one is needed.
THEOREM ReportsTellTheTruth ==
    ASSUME ~LateReplay, ~LateCancel
    PROVE  Spec => [](timeouts = 0 => ReportsAreTrue)
<1>1. IInv /\ (timeouts = 0 => Orderly) => (timeouts = 0 => ReportsAreTrue)
    BY DEF IInv, Books, Unspent, Orderly, Told, ReportsAreTrue, FailedMeansNothingApplied,
           Bought
<1> QED BY <1>1, OrderlyHolds, PTL

\* The instances of the run: the server gives up on no attempt that still runs.
COROLLARY ReportsWithoutTimeouts ==
    ASSUME ~LateReplay, ~LateCancel, MaxTimeouts = 0
    PROVE  Spec => []ReportsAreTrue
<1>1. TypeOK => timeouts = 0
    BY DEF TypeOK
<1> QED BY <1>1, TypeCorrect, ReportsTellTheTruth, PTL

\* An apply attempt turns to every row that is still planned before it finishes.
Handled == \A a \in Attempts, r \in Rows :
    att[a].kind = "apply" /\ att[a].pc # "begin" /\ op[r].status = "planned" =>
        r \in att[a].todo

NothingLeftPlanned ==
    job.status = "completed" => \A r \in Rows : op[r].status # "planned"

LEMMA HandledStep ==
    ASSUME IInv, Handled, [Next]_vars
    PROVE  Handled'
<1>0. /\ att \in [Attempts -> Attempt] /\ op \in [Rows -> Operation]
      /\ None \notin Kinds
    BY NoneAssumption DEF IInv, TypeOK, Kinds
\* Rows stop being planned, and one attempt at most has changed.
<1>1. ASSUME \A r \in Rows : op'[r].status = "planned" => op[r].status = "planned",
             NEW a \in Attempts, \A b \in Attempts : b # a => att'[b] = att[b],
             att'[a].kind = "apply" /\ att'[a].pc # "begin" =>
                \A r \in Rows : op'[r].status = "planned" => r \in att'[a].todo
      PROVE  Handled'
    BY <1>1 DEF Handled
<1>2. ASSUME UNCHANGED op, NEW a \in Attempts, att' = [att EXCEPT ![a] = Idle]
      PROVE  Handled'
    <2>1. att'[a].kind # "apply" /\ \A b \in Attempts : b # a => att'[b] = att[b]
        BY <1>0, <1>2, NoneAssumption DEF Idle
    <2> QED BY <1>1, <1>2, <2>1
\* Done gives up a row only when it is planned no longer.
<1>3. ASSUME NEW a \in Attempts, NEW r \in Rows, Done(a, r), att[a].pc # "begin",
             op'[r].status # "planned", \A q \in Rows : q # r => op'[q] = op[q]
      PROVE  Handled'
    <2>1. /\ att'[a].kind = att[a].kind /\ att'[a].todo = att[a].todo \ {r}
          /\ \A b \in Attempts : b # a => att'[b] = att[b]
        BY <1>3, DoneKeeps DEF IInv
    <2> QED BY <1>1, <1>3, <2>1 DEF Handled
<1>4. ASSUME UNCHANGED <<op, att>>
      PROVE  Handled'
    BY <1>4 DEF Handled
<1>5. ASSUME NEW k \in Kinds, Schedule(k)
      PROVE  Handled'
    <2>1. PICK a \in Attempts :
            att' = [att EXCEPT ![a] = [Idle EXCEPT !.kind = k, !.phase = wf[k].run]]
        BY <1>5 DEF Schedule
    <2>2. att'[a].pc = "begin" /\ \A b \in Attempts : b # a => att'[b] = att[b]
        BY <1>0, <2>1 DEF Idle
    <2>3. UNCHANGED op
        BY <1>5 DEF Schedule
    <2> QED BY <1>1, <2>2, <2>3
<1>6. ASSUME NEW a \in Attempts, Activity(a)
      PROVE  Handled'
    <2>1. CASE ListPlanned(a)
        <3>1. Listed(a, "planned") /\ UNCHANGED op
            BY <2>1 DEF ListPlanned
        <3> QED BY <1>1, <3>1, ListedKeeps DEF IInv
    <2>2. CASE ListApplied(a)
        <3>1. Listed(a, "applied") /\ UNCHANGED op /\ att[a].kind = "compensate"
            BY <2>2 DEF ListApplied, Doing
        <3> QED BY <1>1, <3>1, ListedKeeps DEF IInv
    <2>3. CASE CheckRow(a)
        <3>1. UNCHANGED op /\ att[a].pc # "begin"
            BY <2>3 DEF CheckRow, Doing
        <3>2. ASSUME NEW r \in Rows, att' = [att EXCEPT ![a].pc = "write", ![a].row = r]
              PROVE  Handled'
            <4>1. /\ att'[a].kind = att[a].kind /\ att'[a].todo = att[a].todo
                  /\ \A b \in Attempts : b # a => att'[b] = att[b]
                BY <1>0, <3>2 DEF Attempt
            <4> QED BY <1>1, <3>1, <4>1 DEF Handled
        <3> QED BY <1>2, <1>3, <2>3, <3>1, <3>2 DEF CheckRow, End
    <2>4. CASE WriteRow(a)
        <3>1. CASE Unmoved(att[a].row)
            <4> DEFINE r == att[a].row
            <4>1. /\ r \in Rows
                  /\ op' = [op EXCEPT ![r] = [status |-> "applied",
                                              result |-> Expected(r) + 1,
                                              snapshot |-> Snapshot(r)]]
                BY <2>4, <3>1, WriteRowWrites
            <4>2. Done(a, r) /\ att[a].pc # "begin"
                BY <2>4, <3>1 DEF WriteRow, Doing
            <4> HIDE DEF r
            <4>3. op'[r].status = "applied" /\ \A q \in Rows : q # r => op'[q] = op[q]
                BY <1>0, <4>1
            <4> QED BY <1>3, <4>1, <4>2, <4>3
        <3>2. CASE ~Unmoved(att[a].row)
            BY <1>2, <2>4, <3>2 DEF WriteRow, Rejected, End
        <3> QED BY <3>1, <3>2
    <2>5. CASE FinishApply(a) \/ FailApply(a) \/ FinishCompensation(a) \/ FailCompensation(a)
        BY <1>2, <2>5
        DEF FinishApply, FailApply, FinishCompensation, FailCompensation, End
    <2>6. CASE CompensateRow(a)
        <3>1. CASE UNCHANGED <<op, ledger>>
            <4>1. PICK r \in Rows : /\ Doing(a, "compensate", "work", "next")
                                    /\ r \in att[a].todo
                                    /\ Done(a, r) \/ Rejected(a, r)
                BY <2>6 DEF CompensateRow, Turn
            <4>2. op[r].status # "planned"
                BY <4>1 DEF IInv, Hands, Compensators, Doing, Bound
            <4> QED BY <1>2, <1>3, <3>1, <4>1, <4>2 DEF Rejected, End, Doing
        <3>2. CASE ~UNCHANGED <<op, ledger>>
            <4>1. PICK r \in Rows : /\ Done(a, r)
                                    /\ op' = [op EXCEPT ![r].status = "compensated"]
                BY <2>6, <3>2, CompensateRowWrites
            <4>2. /\ op'[r].status = "compensated"
                  /\ \A q \in Rows : q # r => op'[q] = op[q]
                BY <1>0, <4>1 DEF Operation
            <4>3. att[a].pc # "begin"
                BY <2>6 DEF CompensateRow, Doing
            <4> QED BY <1>3, <4>1, <4>2, <4>3
        <3> QED BY <3>1, <3>2
    <2> QED BY <1>6, <2>1, <2>2, <2>3, <2>4, <2>5, <2>6 DEF Activity
<1>7. ASSUME NEW a \in Attempts, AttemptLost(a) \/ ZombieEnds(a)
      PROVE  Handled'
    BY <1>2, <1>7 DEF AttemptLost, ZombieEnds, End
<1> QED BY <1>4, <1>5, <1>6, <1>7
    DEF Next, vars, StartApply, StartCompensation, Cancel, DeliverCancel, LoseCancel,
        Replay, Launch, LoseLaunch, Timeout, OwnerEdit

\* No row ever becomes planned again, and only an attempt that has dealt with its
\* whole list reports the job completed.
LEMMA CompletedStep ==
    ASSUME IInv, Handled, NothingLeftPlanned, [Next]_vars
    PROVE  NothingLeftPlanned'
<1>0. job \in Job /\ op \in [Rows -> Operation]
    BY DEF IInv, TypeOK
<1>1. \A r \in Rows : op'[r].status = "planned" => op[r].status = "planned"
    <2>1. ASSUME NEW a \in Attempts, WriteRow(a), Unmoved(att[a].row)
          PROVE  \A r \in Rows : op'[r].status = "planned" => op[r].status = "planned"
        <3> DEFINE to == [status |-> "applied", result |-> Expected(att[a].row) + 1,
                          snapshot |-> Snapshot(att[a].row)]
        <3>1. att[a].row \in Rows /\ op' = [op EXCEPT ![att[a].row] = to]
            BY <2>1, WriteRowWrites
        <3>2. to.status = "applied"
            OBVIOUS
        <3> HIDE DEF to
        <3> QED BY <1>0, <3>1, <3>2
    <2>2. ASSUME NEW a \in Attempts, CompensateRow(a), ~UNCHANGED <<op, ledger>>
          PROVE  \A r \in Rows : op'[r].status = "planned" => op[r].status = "planned"
        <3>1. PICK r \in Rows : op' = [op EXCEPT ![r].status = "compensated"]
            BY <2>2, CompensateRowWrites
        <3> QED BY <1>0, <3>1 DEF Operation
    <2>3. ASSUME NEW r \in Rows, OwnerEdit(r)
          PROVE  UNCHANGED op
        BY <2>3 DEF OwnerEdit
    <2> QED BY <2>1, <2>2, <2>3, LedgerCases
<1>2. ASSUME job'.status = "completed" => job.status = "completed"
      PROVE  NothingLeftPlanned'
    BY <1>1, <1>2 DEF NothingLeftPlanned
<1>3. ASSUME NEW a \in Attempts, FinishApply(a)
      PROVE  NothingLeftPlanned'
    BY <1>3 DEF FinishApply, Doing, Handled, NothingLeftPlanned
<1>4. ASSUME NEW a \in Attempts, Activity(a), ~FinishApply(a)
      PROVE  job'.status = "completed" => job.status = "completed"
    BY <1>0, <1>4
    DEF Activity, ListPlanned, CheckRow, WriteRow, FailApply, FailureOf, ListApplied,
        CompensateRow, FinishCompensation, FailCompensation, Job
<1>5. ASSUME StartApply \/ StartCompensation \/ Cancel \/ DeliverCancel \/ LoseCancel
      PROVE  job'.status = "completed" => job.status = "completed"
    BY <1>0, <1>5
    DEF StartApply, StartCompensation, Cancel, DeliverCancel, LoseCancel, Job
<1>6. ASSUME NEW k \in Kinds, Replay(k) \/ Launch(k) \/ LoseLaunch(k) \/ Schedule(k)
      PROVE  UNCHANGED job
    BY <1>6 DEF Replay, Launch, LoseLaunch, Schedule
<1>7. ASSUME NEW a \in Attempts, AttemptLost(a) \/ Timeout(a) \/ ZombieEnds(a)
      PROVE  UNCHANGED job
    BY <1>7 DEF AttemptLost, Timeout, ZombieEnds
<1> QED BY <1>2, <1>3, <1>4, <1>5, <1>6, <1>7 DEF Next, OwnerEdit, vars

\* What remains of the report with zombies, late cancellations and late replays: a
\* job is never completed early, with a row of its plan still to be applied.
THEOREM NeverCompletedEarly == Spec => []NothingLeftPlanned
<1>1. Init => Handled /\ NothingLeftPlanned
    BY NoneAssumption DEF Init, Handled, NothingLeftPlanned, Idle
<1>2. ASSUME IInv, Handled /\ NothingLeftPlanned, [Next]_vars
      PROVE  (Handled /\ NothingLeftPlanned)'
    BY <1>2, HandledStep, CompletedStep
<1> QED BY <1>1, <1>2, Invariance, PTL DEF Spec
-----------------------------------------------------------------------------
(* What a cancel leaves behind.  Zombies, late cancellations and late replays *)
(* included, the saga keeps one order: nothing runs that was not asked for,   *)
(* and what was asked for rules out some states of the job and of its rows.   *)

Wanted(k) == IF k = "apply" THEN job.applyKey ELSE job.compensationKey

AskedFirst == \A k \in Kinds : ~Wanted(k) =>
    ~launch[k] /\ wf[k] = Closed /\ \A a \in Attempts : att[a].kind # k

\* A job once compensated, or on the way, is past any cancel.
PastCancel ==
    /\ job.compensationKey => job.status \notin {"ready_for_review", "applying", "cancelled"}
    /\ ~job.compensationKey => \A r \in Rows : op[r].status # "compensated"

\* Apply was accepted for a plan without conflicts; skips and conflicts are the plan's.
PlanKept ==
    /\ job.applyKey => \A r \in Rows : plan[r] # "conflict"
    /\ Skips /\ \A r \in Rows : op[r].status = "failed" <=> plan[r] = "conflict"

InOrder == AskedFirst /\ PastCancel /\ PlanKept

LEMMA InitInOrder == Init => InOrder
<1> SUFFICES ASSUME Init PROVE InOrder
    OBVIOUS
<1>1. AskedFirst
    BY NoneAssumption DEF Init, AskedFirst, Wanted, Idle, Kinds
<1>2. PastCancel
    BY DEF Init, PastCancel
<1>3. PlanKept
    BY PlanAssumption DEF Init, PlanKept, Skips
<1> QED BY <1>1, <1>2, <1>3 DEF InOrder

\* What an activity does to itself and its workflow: its attempt stays of its kind,
\* or ends, and a closed workflow stays closed.
LEMMA ActivityKeepsKind ==
    ASSUME IInv, NEW a \in Attempts, Activity(a)
    PROVE  /\ \A b \in Attempts : att'[b].kind = att[b].kind \/ att'[b].kind = None
           /\ \A k \in Kinds : wf[k] = Closed => wf'[k] = Closed
           /\ UNCHANGED <<plan, launch>>
<1>0. /\ att \in [Attempts -> Attempt] /\ a # None
    BY NoneAssumption DEF IInv, TypeOK
<1>1. ASSUME NEW result, End(a, result)
      PROVE  /\ \A b \in Attempts : att'[b].kind = att[b].kind \/ att'[b].kind = None
             /\ \A k \in Kinds : wf[k] = Closed => wf'[k] = Closed
    BY <1>0, <1>1 DEF End, Report, Idle, Closed
<1>2. ASSUME UNCHANGED wf, NEW r, Done(a, r)
      PROVE  /\ \A b \in Attempts : att'[b].kind = att[b].kind \/ att'[b].kind = None
             /\ \A k \in Kinds : wf[k] = Closed => wf'[k] = Closed
    BY <1>2, DoneKeeps DEF IInv
<1>3. UNCHANGED <<plan, launch>>
    BY DEF Activity, ListPlanned, CheckRow, WriteRow, FinishApply, FailApply, ListApplied,
           CompensateRow, FinishCompensation, FailCompensation, temporal
<1>4. CASE ListPlanned(a) \/ ListApplied(a)
    <2>1. /\ UNCHANGED wf
          /\ Listed(a, "planned") \/ Listed(a, "applied")
        BY <1>4 DEF ListPlanned, ListApplied, temporal
    <2> QED BY <1>3, <2>1, ListedKeeps DEF IInv
<1>5. CASE CheckRow(a)
    <2>1. ASSUME NEW r \in Rows, att' = [att EXCEPT ![a].pc = "write", ![a].row = r]
          PROVE  \A b \in Attempts : att'[b].kind = att[b].kind
        BY <1>0, <2>1 DEF Attempt
    <2> QED BY <1>1, <1>2, <1>3, <1>5, <2>1 DEF CheckRow
<1>6. CASE WriteRow(a)
    BY <1>1, <1>2, <1>3, <1>6 DEF WriteRow, Rejected
<1>7. CASE CompensateRow(a)
    BY <1>1, <1>2, <1>3, <1>7 DEF CompensateRow, Rejected
<1>8. CASE FinishApply(a) \/ FailApply(a) \/ FinishCompensation(a) \/ FailCompensation(a)
    BY <1>1, <1>3, <1>8 DEF FinishApply, FailApply, FinishCompensation, FailCompensation
<1> QED BY <1>4, <1>5, <1>6, <1>7, <1>8 DEF Activity

\* The keys of a job are never taken back.
LEMMA KeysStay ==
    ASSUME IInv, [Next]_vars
    PROVE  \A k \in Kinds : Wanted(k) => Wanted(k)'
<1>0. job \in Job
    BY DEF IInv, TypeOK
<1>1. ASSUME NEW a \in Attempts, Activity(a)
      PROVE  \A k \in Kinds : Wanted(k) => Wanted(k)'
    BY <1>0, <1>1
    DEF Activity, ListPlanned, CheckRow, WriteRow, FinishApply, FailApply, ListApplied,
        CompensateRow, FinishCompensation, FailCompensation, Wanted, Job
<1>2. ASSUME StartApply \/ StartCompensation \/ Cancel \/ DeliverCancel \/ LoseCancel
      PROVE  \A k \in Kinds : Wanted(k) => Wanted(k)'
    BY <1>0, <1>2
    DEF StartApply, StartCompensation, Cancel, DeliverCancel, LoseCancel, Wanted, Job
<1>3. ASSUME UNCHANGED job
      PROVE  \A k \in Kinds : Wanted(k) => Wanted(k)'
    BY <1>3 DEF Wanted
<1> QED BY <1>1, <1>2, <1>3
    DEF Next, vars, Replay, Launch, LoseLaunch, Schedule, AttemptLost, Timeout, ZombieEnds,
        OwnerEdit

LEMMA AskedFirstStep ==
    ASSUME IInv, AskedFirst, [Next]_vars
    PROVE  AskedFirst'
<1>0. /\ job \in Job /\ att \in [Attempts -> Attempt] /\ None \notin Kinds
      /\ launch \in [Kinds -> BOOLEAN] /\ wf \in [Kinds -> Workflow]
      /\ Closed' = Closed /\ "apply" \in Kinds /\ "compensate" \in Kinds
    BY NoneAssumption DEF IInv, TypeOK, Kinds, Closed
<1>1. \A k \in Kinds : ~Wanted(k)' => ~Wanted(k)
    BY KeysStay
<1>2. ASSUME \A b \in Attempts : att'[b].kind = att[b].kind \/ att'[b].kind = None,
             \A k \in Kinds : wf[k] = Closed => wf'[k] = Closed,
             UNCHANGED launch
      PROVE  AskedFirst'
    BY <1>0, <1>1, <1>2 DEF AskedFirst
<1>3. ASSUME NEW a \in Attempts, Activity(a)
      PROVE  AskedFirst'
    BY <1>2, <1>3, ActivityKeepsKind
<1>4. CASE StartApply
    <2>1. Wanted("apply")' /\ UNCHANGED <<wf, att>>
        BY <1>0, <1>4 DEF StartApply, Wanted, Job
    <2>2. \A k \in Kinds : k # "apply" => launch'[k] = launch[k]
        BY <1>0, <1>4 DEF StartApply
    <2> QED BY <1>0, <1>1, <2>1, <2>2 DEF AskedFirst
<1>5. CASE StartCompensation
    <2>1. Wanted("compensate")' /\ UNCHANGED <<wf, att>>
        BY <1>0, <1>5 DEF StartCompensation, Wanted, Job
    <2>2. \A k \in Kinds : k # "compensate" => launch'[k] = launch[k]
        BY <1>0, <1>5 DEF StartCompensation
    <2> QED BY <1>0, <1>1, <2>1, <2>2 DEF AskedFirst
<1>6. CASE Cancel \/ LoseCancel
    BY <1>2, <1>6 DEF Cancel, LoseCancel
<1>7. CASE DeliverCancel
    BY <1>0, <1>2, <1>7 DEF DeliverCancel, Closed
<1>8. ASSUME NEW k \in Kinds, Replay(k)
      PROVE  AskedFirst'
    <2>1. Wanted(k) /\ UNCHANGED <<job, wf, att>>
        BY <1>8 DEF Replay, Wanted
    <2>2. \A j \in Kinds : j # k => launch'[j] = launch[j]
        BY <1>0, <1>8 DEF Replay
    <2> QED BY <1>0, <1>1, <2>1, <2>2 DEF AskedFirst, Wanted
<1>9. ASSUME NEW k \in Kinds, Launch(k) \/ LoseLaunch(k)
      PROVE  AskedFirst'
    <2>1. Wanted(k) /\ UNCHANGED <<job, att>>
        BY <1>9 DEF Launch, LoseLaunch, AskedFirst
    <2>2. \A j \in Kinds : j # k => launch'[j] = launch[j] /\ wf'[j] = wf[j]
        BY <1>0, <1>9 DEF Launch, LoseLaunch
    <2> QED BY <1>0, <1>1, <2>1, <2>2 DEF AskedFirst, Wanted
<1>10. ASSUME NEW k \in Kinds, Schedule(k)
       PROVE  AskedFirst'
    <2>1. PICK a \in Attempts :
            /\ att' = [att EXCEPT ![a] = [Idle EXCEPT !.kind = k, !.phase = wf[k].run]]
            /\ wf' = [wf EXCEPT ![k].cur = a, ![k].tries = @ + 1]
        BY <1>10 DEF Schedule
    <2>2. Wanted(k) /\ UNCHANGED <<job, launch>>
        BY <1>10 DEF Schedule, AskedFirst, Closed
    <2>3. /\ att'[a].kind = k /\ \A b \in Attempts : b # a => att'[b] = att[b]
          /\ \A j \in Kinds : j # k => wf'[j] = wf[j]
        BY <1>0, <2>1 DEF Idle
    <2> QED BY <1>0, <1>1, <2>2, <2>3 DEF AskedFirst, Wanted
<1>11. ASSUME NEW a \in Attempts, AttemptLost(a) \/ Timeout(a) \/ ZombieEnds(a)
       PROVE  AskedFirst'
    <2>1. \A b \in Attempts : att'[b].kind = att[b].kind \/ att'[b].kind = None
        BY <1>0, <1>11 DEF AttemptLost, Timeout, ZombieEnds, End, Idle
    <2>2. \A k \in Kinds : wf[k] = Closed => wf'[k] = Closed
        BY <1>11, NoneAssumption
        DEF AttemptLost, Timeout, ZombieEnds, End, Report, Closed, temporal
    <2>3. UNCHANGED launch
        BY <1>11 DEF AttemptLost, Timeout, ZombieEnds, temporal
    <2> QED BY <1>2, <2>1, <2>2, <2>3
<1>12. ASSUME NEW r \in Rows, OwnerEdit(r)
       PROVE  AskedFirst'
    BY <1>2, <1>12 DEF OwnerEdit, temporal
<1>13. CASE UNCHANGED vars
    BY <1>2, <1>13 DEF vars, temporal
<1> QED BY <1>3, <1>4, <1>5, <1>6, <1>7, <1>8, <1>9, <1>10, <1>11, <1>12, <1>13 DEF Next

LEMMA PastCancelStep ==
    ASSUME IInv, AskedFirst, PastCancel, [Next]_vars
    PROVE  PastCancel'
<1>0. /\ job \in Job /\ op \in [Rows -> Operation] /\ "compensate" \in Kinds
    BY DEF IInv, TypeOK, Kinds
\* Only a compensation compensates rows.
<1>1. ~job.compensationKey' => \A r \in Rows : op'[r].status # "compensated"
    <2> SUFFICES ASSUME ~job.compensationKey'
                 PROVE  \A r \in Rows : op'[r].status # "compensated"
        OBVIOUS
    <2>1. ~job.compensationKey
        BY KeysStay, <1>0 DEF Wanted
    <2>2. \A a \in Attempts : att[a].kind # "compensate"
        BY <1>0, <2>1 DEF AskedFirst, Wanted
    <2>3. \A r \in Rows : op[r].status # "compensated"
        BY <2>1 DEF PastCancel
    <2>4. ASSUME NEW a \in Attempts, WriteRow(a), Unmoved(att[a].row)
          PROVE  \A r \in Rows : op'[r].status # "compensated"
        <3> DEFINE to == [status |-> "applied", result |-> Expected(att[a].row) + 1,
                          snapshot |-> Snapshot(att[a].row)]
        <3>1. att[a].row \in Rows /\ op' = [op EXCEPT ![att[a].row] = to]
            BY <2>4, WriteRowWrites
        <3>2. to.status = "applied"
            OBVIOUS
        <3> HIDE DEF to
        <3> QED BY <1>0, <2>3, <3>1, <3>2
    <2>5. ASSUME NEW a \in Attempts PROVE ~CompensateRow(a)
        BY <2>2 DEF CompensateRow, Doing
    <2>6. ASSUME NEW r \in Rows, OwnerEdit(r) PROVE UNCHANGED op
        BY <2>6 DEF OwnerEdit
    <2> QED BY <2>3, <2>4, <2>5, <2>6, LedgerCases
\* Nothing brings a job back to where a cancel is accepted.
<1>2. ASSUME NEW a \in Attempts, Activity(a)
      PROVE  /\ job'.compensationKey = job.compensationKey
             /\ job'.status = job.status
                \/ job'.status \in {"completed", "partially_completed", "failed", "compensated"}
    BY <1>0, <1>2
    DEF Activity, ListPlanned, CheckRow, WriteRow, FinishApply, FailApply, FailureOf,
        ListApplied, CompensateRow, FinishCompensation, FailCompensation, Job
<1>3. CASE StartApply \/ StartCompensation \/ Cancel
    <2>1. CASE StartCompensation
        <3>1. job'.compensationKey /\ job'.status = "compensating"
            BY <1>0, <2>1 DEF StartCompensation, Job
        <3> QED BY <3>1 DEF PastCancel
    <2>2. CASE StartApply \/ Cancel
        <3>1. job'.compensationKey = job.compensationKey
            BY <1>0, <2>2 DEF StartApply, Cancel, Job
        <3>2. ~job.compensationKey
            BY <2>2 DEF StartApply, Cancel, PastCancel
        <3> QED BY <1>1, <3>1, <3>2 DEF PastCancel
    <2> QED BY <1>3, <2>1, <2>2
<1>4. ASSUME UNCHANGED job
      PROVE  PastCancel'
    BY <1>1, <1>4 DEF PastCancel
<1>5. ASSUME NEW a \in Attempts, Activity(a)
      PROVE  PastCancel'
    BY <1>1, <1>2, <1>5 DEF PastCancel
<1> QED BY <1>3, <1>4, <1>5
    DEF Next, vars, DeliverCancel, LoseCancel, Replay, Launch, LoseLaunch, Schedule,
        AttemptLost, Timeout, ZombieEnds, OwnerEdit

LEMMA PlanKeptStep ==
    ASSUME IInv, PlanKept, [Next]_vars
    PROVE  PlanKept'
<1>0. job \in Job /\ op \in [Rows -> Operation]
    BY DEF IInv, TypeOK
<1>1. UNCHANGED plan
    BY LedgerCases DEF OwnerEdit, WriteRow, CompensateRow
\* A row that was skipped or in conflict is never written.
<1>2. \A r \in Rows : \/ op'[r].status = op[r].status
                      \/ /\ op[r].status \in {"planned", "applied"}
                         /\ op'[r].status \in Bound
    <2>1. ASSUME NEW a \in Attempts, WriteRow(a), Unmoved(att[a].row)
          PROVE  \A r \in Rows : \/ op'[r].status = op[r].status
                                 \/ /\ op[r].status \in {"planned", "applied"}
                                    /\ op'[r].status \in Bound
        <3> DEFINE to == [status |-> "applied", result |-> Expected(att[a].row) + 1,
                          snapshot |-> Snapshot(att[a].row)]
        <3>1. /\ att[a].row \in Rows /\ op[att[a].row].status = "planned"
              /\ op' = [op EXCEPT ![att[a].row] = to]
            BY <2>1, WriteRowWrites
        <3>2. to.status \in Bound
            BY DEF Bound
        <3> HIDE DEF to
        <3> QED BY <1>0, <3>1, <3>2
    <2>2. ASSUME NEW a \in Attempts, CompensateRow(a), ~UNCHANGED <<op, ledger>>
          PROVE  \A r \in Rows : \/ op'[r].status = op[r].status
                                 \/ /\ op[r].status \in {"planned", "applied"}
                                    /\ op'[r].status \in Bound
        <3>1. PICK r \in Rows : /\ op' = [op EXCEPT ![r].status = "compensated"]
                                /\ op[r].status = "applied"
            BY <2>2, CompensateRowWrites
        <3> QED BY <1>0, <3>1 DEF Operation, Bound
    <2>3. ASSUME NEW r \in Rows, OwnerEdit(r) PROVE UNCHANGED op
        BY <2>3 DEF OwnerEdit
    <2> QED BY <2>1, <2>2, <2>3, LedgerCases
<1>3. Skips' /\ \A r \in Rows : op'[r].status = "failed" <=> plan'[r] = "conflict"
    BY <1>1, <1>2 DEF PlanKept, Skips, Bound
<1>4. job'.applyKey => job.applyKey \/ \A r \in Rows : plan[r] # "conflict"
    <2>1. ASSUME NEW a \in Attempts, Activity(a) PROVE job'.applyKey = job.applyKey
        BY <1>0, <2>1
        DEF Activity, ListPlanned, CheckRow, WriteRow, FinishApply, FailApply, ListApplied,
            CompensateRow, FinishCompensation, FailCompensation, Job
    <2>2. CASE StartApply \/ StartCompensation \/ Cancel
        BY <1>0, <2>2 DEF StartApply, StartCompensation, Cancel, Job
    <2> QED BY <2>1, <2>2
        DEF Next, vars, DeliverCancel, LoseCancel, Replay, Launch, LoseLaunch, Schedule,
            AttemptLost, Timeout, ZombieEnds, OwnerEdit
<1> QED BY <1>1, <1>3, <1>4 DEF PlanKept

\* A cancel is overtaken only by an apply attempt that has nothing left to do.
LEMMA CancelledStep ==
    ASSUME IInv, Handled, InOrder, [Next]_vars, job.status = "cancelled",
           job'.status # "cancelled"
    PROVE  /\ job'.status = "completed"
           /\ \A r \in Rows : op'[r].status = IF plan[r] = "skip" THEN "skipped" ELSE "applied"
<1>0. /\ job \in Job /\ op \in [Rows -> Operation] /\ Kinds = {"apply", "compensate"}
    BY DEF IInv, TypeOK, Kinds
<1>1. ~job.compensationKey
    BY <1>0 DEF InOrder, PastCancel
<1>2. \A a \in Attempts : att[a].kind # "compensate"
    BY <1>0, <1>1 DEF InOrder, AskedFirst, Wanted
<1>3. ASSUME NEW a \in Attempts, Activity(a), ~FinishApply(a)
      PROVE  FALSE
    BY <1>0, <1>2, <1>3
    DEF Activity, ListPlanned, CheckRow, WriteRow, FailApply, FailureOf, ListApplied,
        CompensateRow, FinishCompensation, FailCompensation, Doing, Job
<1>4. ~(StartApply \/ StartCompensation \/ Cancel)
    BY <1>0 DEF StartApply, StartCompensation, Cancel, Job
<1>5. PICK a \in Attempts : FinishApply(a)
    BY <1>3, <1>4
    DEF Next, vars, DeliverCancel, LoseCancel, Replay, Launch, LoseLaunch, Schedule,
        AttemptLost, Timeout, ZombieEnds, OwnerEdit
<1>6. /\ Doing(a, "apply", "work", "next") /\ att[a].todo = {} /\ UNCHANGED op
      /\ job' = [job EXCEPT !.status = IF \E r \in Rows : op[r].status = "failed"
                                       THEN "partially_completed" ELSE "completed"]
    BY <1>5 DEF FinishApply
<1>7. job.applyKey
    BY <1>0, <1>6 DEF InOrder, AskedFirst, Wanted, Doing
<1>8. \A r \in Rows : op[r].status \notin {"planned", "compensated", "failed"}
    <2>1. \A r \in Rows : op[r].status # "planned"
        BY <1>6 DEF Handled, Doing
    <2>2. \A r \in Rows : op[r].status # "compensated"
        BY <1>1 DEF InOrder, PastCancel
    <2>3. \A r \in Rows : op[r].status # "failed"
        BY <1>7 DEF InOrder, PlanKept
    <2> QED BY <2>1, <2>2, <2>3
<1>9. job'.status = "completed"
    BY <1>0, <1>6, <1>8 DEF Job
<1>10. \A r \in Rows : op[r].status \in {"skipped", "applied"}
    BY <1>0, <1>8 DEF Operation
<1>11. \A r \in Rows : op[r].status = "skipped" <=> plan[r] = "skip"
    BY DEF InOrder, PlanKept, Skips
<1> QED BY <1>6, <1>9, <1>10, <1>11

\* import_apply_activity.py:192, 351.  For any plan, any number of late attempts,
\* replays and repeated cancels: a job leaves cancelled only as completed, with every
\* row of its plan in the ledger or skipped by the plan.
THEOREM CancelledUnlessDone == Spec => CancelYieldsToDone
<1>1. Init => Handled /\ InOrder
    BY InitInOrder, NoneAssumption DEF Init, Handled, Idle
<1>2. ASSUME IInv, Handled /\ InOrder, [Next]_vars
      PROVE  (Handled /\ InOrder)'
    BY <1>2, HandledStep, AskedFirstStep, PastCancelStep, PlanKeptStep DEF InOrder
<1>3. ASSUME IInv, Handled /\ InOrder, [Next]_vars
      PROVE  job.status = "cancelled" /\ job'.status # "cancelled" =>
                /\ job'.status = "completed"
                /\ \A r \in Rows : op'[r].status =
                      IF plan[r] = "skip" THEN "skipped" ELSE "applied"
    BY <1>3, CancelledStep
<1> QED BY <1>1, <1>2, <1>3, Invariance, PTL DEF Spec, CancelYieldsToDone
=============================================================================
