----------------------- MODULE BusinessTruth_proofs -----------------------
(***************************************************************************)
(* Proofs about BusinessTruth for any sets of objects, keys, bodies and    *)
(* requests: the version history is sound, answers are durable, and the    *)
(* two operations implement VersionLedger.                                 *)
(***************************************************************************)
EXTENDS BusinessTruth, TLAPS

-----------------------------------------------------------------------------
(* The inductive invariant.  Dense and KeyBuysOne speak of committed rows;  *)
(* they are inductive only together with what the transactions in flight    *)
(* know: what a lock protects and what the unique indexes have admitted.    *)

\* A create_object transaction numbers its version from 0.
CreateBase == \A r \in Requests : req[r].op = "create_object" => req[r].base = 0

\* Only create_object looks slugs up, only create_version locks.
Route == \A r \in Requests :
    /\ req[r].pc = "lookup_slug" => req[r].op = "create_object"
    /\ req[r].pc = "lock" => req[r].op = "create_version"

\* The row lock makes the number create_version read stay the current one.
LockedBase ==
    \A r \in Requests :
        req[r].op = "create_version" /\ req[r].pc \in {"flush", "commit"}
        => req[r].base > 0 /\ req[r].base = current[req[r].object]

\* One holder per row lock.
LockMutex ==
    \A r, s \in Requests : \A o \in Objects : Holds(r, o) /\ Holds(s, o) => r = s

\* A flushed row clashes with no committed one and with no other flushed one.
PendingFresh ==
    \A r \in Requests : req[r].pc = "commit"
        => \A v \in versions : ~Clash(RowOf(r), v)
PendingApart ==
    \A r, s \in Requests :
        r # s /\ req[r].pc = "commit" /\ req[s].pc = "commit"
        => ~Clash(RowOf(r), RowOf(s))

Upper  == \A v \in versions : v.version <= current[v.object]
Full   == \A o \in Objects : \A n \in 1 .. current[o] :
              \E v \in versions : v.object = o /\ v.version = n
Single == \A v, w \in versions : Clash(v, w) => v = w

IInv ==
    /\ TypeOK
    /\ CreateBase /\ Route /\ LockedBase /\ LockMutex
    /\ PendingFresh /\ PendingApart
    /\ Upper /\ Full /\ Single

\* What a success response says is in the table, or about to be.
AnswerDurable ==
    \A r \in Requests :
        /\ req[r].pc = "commit" => req[r].answer = <<req[r].object, req[r].base + 1>>
        /\ req[r].pc \in {"created", "replayed"}
              => \E v \in versions : /\ v.key = req[r].key
                                     /\ req[r].answer = <<v.object, v.version>>

-----------------------------------------------------------------------------
LEMMA RowType ==
    ASSUME TypeOK, NEW r \in Requests
    PROVE  /\ RowOf(r) \in VersionRow
           /\ RowOf(r).object = req[r].object /\ RowOf(r).key = req[r].key
           /\ RowOf(r).version = req[r].base + 1
BY DEF TypeOK, RowOf, VersionRow, Request

\* Every step moves one request; all the others keep their row.
LEMMA InitIInv == Init => IInv
<1> SUFFICES ASSUME Init PROVE IInv
    OBVIOUS
<1>1. TypeOK
    BY DEF Init, TypeOK, Command, Request
<1>2. \A r \in Requests : req[r].pc = "idle" /\ req[r].base = 0
    BY DEF Init, Command
<1>3. CreateBase /\ Route /\ LockedBase /\ LockMutex /\ PendingFresh /\ PendingApart
    BY <1>2 DEF CreateBase, Route, LockedBase, LockMutex, Holds, PendingFresh, PendingApart
<1>4. Upper /\ Full /\ Single
    BY DEF Init, Upper, Full, Single
<1> QED BY <1>1, <1>3, <1>4 DEF IInv

LEMMA StepTypeOK ==
    ASSUME TypeOK, NEW r \in Requests, Step(r)
    PROVE  TypeOK'
<1> USE DEF TypeOK, Goto, Running, Finished
<1>1. CASE Begin(r)
    BY <1>1 DEF Begin, Request
<1>2. CASE LookupKey(r)
  <2>1. CASE ~KeyUsed(req[r].key)
      BY <1>2, <2>1 DEF LookupKey, Request
  <2>2. CASE KeyUsed(req[r].key)
    <3>1. VersionForKey(req[r].key) \in versions
        BY <2>2 DEF KeyUsed, VersionForKey
    <3>2. /\ VersionForKey(req[r].key).object \in Objects
          /\ VersionForKey(req[r].key).version \in Nat
        BY <3>1 DEF VersionRow
    <3> QED BY <1>2, <2>2, <3>2 DEF LookupKey, Request
  <2> QED BY <2>1, <2>2
<1>3. CASE LookupSlug(r)
    BY <1>3 DEF LookupSlug, Request
<1>4. CASE LockObject(r)
    BY <1>4 DEF LockObject, Request
<1>5. CASE Reject(r)
    BY <1>5 DEF Reject, Request
<1>6. CASE Flush(r)
    BY <1>6 DEF Flush, Request
<1>7. CASE Commit(r)
  <2>1. RowOf(r) \in VersionRow
      BY RowType
  <2> QED BY <1>7, <2>1 DEF Commit, Request
<1>8. CASE Crash(r)
    BY <1>8 DEF Crash, Request
<1> QED BY <1>1, <1>2, <1>3, <1>4, <1>5, <1>6, <1>7, <1>8 DEF Step

\* At commit the row carries the next number of its object: create_version by
\* the lock, create_object because version 1 of the slug would clash.
LEMMA CommitNext ==
    ASSUME IInv, NEW r \in Requests, req[r].pc = "commit"
    PROVE  req[r].base = current[req[r].object]
<1>1. CASE req[r].op = "create_version"
    BY <1>1 DEF IInv, LockedBase
<1>2. CASE req[r].op = "create_object"
  <2>1. req[r].base = 0
      BY <1>2 DEF IInv, CreateBase
  <2>2. req[r].object \in Objects /\ current[req[r].object] \in Nat
      BY DEF IInv, TypeOK, Request
  <2>3. ASSUME current[req[r].object] > 0 PROVE FALSE
    <3>1. PICK v \in versions : v.object = req[r].object /\ v.version = 1
        BY <2>2, <2>3 DEF IInv, Full
    <3>2. Clash(RowOf(r), v)
        BY <2>1, <3>1, RowType DEF IInv, Clash
    <3> QED BY <3>2 DEF IInv, PendingFresh
  <2> QED BY <2>1, <2>2, <2>3
<1> QED BY <1>1, <1>2 DEF IInv, TypeOK, Request

\* A step moves one request and leaves that request's command alone.
LEMMA StepShape ==
    ASSUME TypeOK, NEW r \in Requests, Step(r)
    PROVE  /\ \A s \in Requests : s # r => req'[s] = req[s]
           /\ req'[r].op = req[r].op /\ req'[r].object = req[r].object
           /\ req'[r].key = req[r].key /\ req'[r].body = req[r].body
           /\ req'[r].base # req[r].base => LockObject(r)
           /\ req'[r].pc = "commit" => Flush(r)
           /\ current' # current \/ versions' # versions => Commit(r)
<1> USE DEF TypeOK, Goto
<1>1. CASE Begin(r)
    BY <1>1 DEF Begin, Request
<1>2. CASE LookupKey(r)
    BY <1>2 DEF LookupKey, Request
<1>3. CASE LookupSlug(r)
    BY <1>3 DEF LookupSlug, Request
<1>4. CASE LockObject(r)
    BY <1>4 DEF LockObject, Request
<1>5. CASE Reject(r)
    BY <1>5 DEF Reject, Request
<1>6. CASE Flush(r)
    BY <1>6 DEF Flush, Request
<1>7. CASE Commit(r)
    BY <1>7 DEF Commit, Request
<1>8. CASE Crash(r)
    BY <1>8 DEF Crash, Request
<1> QED BY <1>1, <1>2, <1>3, <1>4, <1>5, <1>6, <1>7, <1>8 DEF Step

\* Steps that neither lock, flush nor commit leave nothing new in flight.
LEMMA QuietStep ==
    ASSUME IInv, NEW r \in Requests, Step(r),
           ~LockObject(r), ~Flush(r), ~Commit(r)
    PROVE  /\ req'[r].pc # "commit"
           /\ req'[r].base = req[r].base
           /\ req'[r].pc = "flush" => req[r].pc = "lookup_slug"
           /\ req'[r].pc = "lookup_slug" => req[r].op = "create_object"
           /\ req'[r].pc = "lock" => req[r].op = "create_version"
<1> USE DEF TypeOK, Goto, IInv
<1>1. CASE Begin(r)
    BY <1>1 DEF Begin, Request
<1>2. CASE LookupKey(r)
    BY <1>2 DEF LookupKey, Request
<1>3. CASE LookupSlug(r)
    BY <1>3 DEF LookupSlug, Request
<1>4. CASE Reject(r)
    BY <1>4 DEF Reject, Request
<1>5. CASE Crash(r)
    BY <1>5 DEF Crash, Request
<1> QED BY <1>1, <1>2, <1>3, <1>4, <1>5 DEF Step

LEMMA QuietIInv ==
    ASSUME IInv, NEW r \in Requests, Step(r),
           ~LockObject(r), ~Flush(r), ~Commit(r)
    PROVE  IInv'
<1>1. TypeOK'
    BY StepTypeOK DEF IInv
<1>2. /\ current' = current /\ versions' = versions
      /\ \A s \in Requests : s # r => req'[s] = req[s]
      /\ req'[r].op = req[r].op
    BY StepShape DEF IInv
<1>3. CreateBase' /\ Route'
    BY <1>2, QuietStep DEF IInv, CreateBase, Route
<1>4. ~(req'[r].op = "create_version" /\ req'[r].pc \in {"flush", "commit"})
    BY <1>2, QuietStep DEF IInv, Route
<1>5. LockedBase' /\ LockMutex'
    BY <1>2, <1>4 DEF IInv, LockedBase, LockMutex, Holds
<1>6. PendingFresh' /\ PendingApart'
  <2>1. \A s \in Requests : req'[s].pc = "commit" =>
            s # r /\ req[s].pc = "commit" /\ RowOf(s)' = RowOf(s)
      BY <1>2, QuietStep DEF RowOf
  <2> QED BY <1>2, <2>1 DEF IInv, PendingFresh, PendingApart, Clash
<1>7. Upper' /\ Full' /\ Single'
    BY <1>2 DEF IInv, Upper, Full, Single, Clash
<1> QED BY <1>1, <1>3, <1>5, <1>6, <1>7 DEF IInv

LEMMA LockIInv ==
    ASSUME IInv, NEW r \in Requests, LockObject(r)
    PROVE  IInv'
<1>0. Step(r)
    BY DEF Step
<1>1. TypeOK'
    BY <1>0, StepTypeOK DEF IInv
<1>2. /\ current' = current /\ versions' = versions
      /\ \A s \in Requests : s # r => req'[s] = req[s]
      /\ req'[r].op = req[r].op /\ req'[r].object = req[r].object
      /\ req'[r].pc \in {"flush", "refused"}
      /\ req'[r].pc = "flush" => /\ req'[r].base = current[req[r].object]
                                 /\ req'[r].base > 0
      /\ req[r].op = "create_version"
    BY DEF IInv, TypeOK, Request, LockObject, Exists, Goto, Route
<1>3. CreateBase' /\ Route'
    BY <1>2 DEF IInv, CreateBase, Route
<1>4. LockedBase'
    BY <1>2 DEF IInv, LockedBase
<1>5. LockMutex'
    BY <1>2 DEF IInv, LockMutex, Holds, LockObject
<1>6. PendingFresh' /\ PendingApart'
  <2>1. \A s \in Requests : req'[s].pc = "commit" =>
            s # r /\ req[s].pc = "commit" /\ RowOf(s)' = RowOf(s)
      BY <1>2 DEF RowOf
  <2> QED BY <1>2, <2>1 DEF IInv, PendingFresh, PendingApart, Clash
<1>7. Upper' /\ Full' /\ Single'
    BY <1>2 DEF IInv, Upper, Full, Single, Clash
<1> QED BY <1>1, <1>3, <1>4, <1>5, <1>6, <1>7 DEF IInv

LEMMA FlushIInv ==
    ASSUME IInv, NEW r \in Requests, Flush(r)
    PROVE  IInv'
<1>0. Step(r)
    BY DEF Step
<1>1. TypeOK'
    BY <1>0, StepTypeOK DEF IInv
<1>2. /\ current' = current /\ versions' = versions
      /\ \A s \in Requests : s # r => req'[s] = req[s]
      /\ req'[r].op = req[r].op /\ req'[r].object = req[r].object
      /\ req'[r].key = req[r].key /\ req'[r].body = req[r].body
      /\ req'[r].base = req[r].base
      /\ req[r].pc = "flush" /\ req'[r].pc \in {"commit", "aborted"}
    BY DEF IInv, TypeOK, Request, Flush, Goto
<1>3. CreateBase' /\ Route' /\ LockedBase' /\ LockMutex'
    BY <1>2 DEF IInv, CreateBase, Route, LockedBase, LockMutex, Holds
<1>4. \A s \in Requests : RowOf(s)' = RowOf(s)
    BY <1>2 DEF RowOf
<1>5. req'[r].pc = "commit" =>
        /\ \A v \in versions : ~Clash(RowOf(r), v)
        /\ \A s \in Requests : req[s].pc = "commit" => ~Clash(RowOf(r), RowOf(s))
    BY DEF IInv, TypeOK, Request, Flush, Goto
<1>6. PendingFresh'
    BY <1>2, <1>4, <1>5 DEF IInv, PendingFresh, Clash
<1>7. PendingApart'
    BY <1>2, <1>4, <1>5 DEF IInv, PendingApart, Clash
<1>8. Upper' /\ Full' /\ Single'
    BY <1>2 DEF IInv, Upper, Full, Single, Clash
<1> QED BY <1>1, <1>3, <1>6, <1>7, <1>8 DEF IInv

LEMMA CommitIInv ==
    ASSUME IInv, NEW r \in Requests, Commit(r)
    PROVE  IInv'
<1> DEFINE o == req[r].object
<1>0. Step(r) /\ req[r].pc = "commit"
    BY DEF Step, Commit
<1>1. TypeOK'
    BY <1>0, StepTypeOK DEF IInv
<1>2. /\ \A s \in Requests : s # r => req'[s] = req[s]
      /\ req'[r].op = req[r].op /\ req'[r].base = req[r].base
      /\ req'[r].pc = "created"
      /\ versions' = versions \cup {RowOf(r)}
    BY DEF IInv, TypeOK, Request, Commit, Goto
<1>3. /\ o \in Objects /\ current[o] \in Nat /\ req[r].base = current[o]
      /\ current' = [current EXCEPT ![o] = current[o] + 1]
    BY <1>0, CommitNext DEF IInv, TypeOK, Request, Commit
<1>4. /\ RowOf(r).object = o /\ RowOf(r).version = current[o] + 1
      /\ RowOf(r) \in VersionRow
    BY <1>3, RowType DEF IInv
<1>5. CreateBase' /\ Route'
    BY <1>2 DEF IInv, CreateBase, Route
<1>6. LockMutex'
    BY <1>2 DEF IInv, LockMutex, Holds
<1>7. LockedBase'
  <2> SUFFICES ASSUME NEW s \in Requests,
                      req'[s].op = "create_version", req'[s].pc \in {"flush", "commit"}
               PROVE  req'[s].base > 0 /\ req'[s].base = current'[req'[s].object]
      BY DEF LockedBase
  <2>1. s # r /\ req'[s] = req[s]
      BY <1>2
  <2>2. req[s].base > 0 /\ req[s].base = current[req[s].object]
      BY <2>1 DEF IInv, LockedBase
  <2>3. req[s].object # o
    <3>1. CASE req[r].op = "create_version"
        BY <1>0, <1>3, <2>1, <3>1 DEF IInv, LockMutex, Holds
    <3>2. CASE req[r].op = "create_object"
        BY <1>3, <2>2, <3>2 DEF IInv, CreateBase
    <3> QED BY <3>1, <3>2 DEF IInv, TypeOK, Request
  <2> QED BY <1>3, <2>1, <2>2, <2>3 DEF IInv, TypeOK, Request
<1>8. PendingFresh' /\ PendingApart'
  <2>1. \A s \in Requests : req'[s].pc = "commit" =>
            s # r /\ req[s].pc = "commit" /\ RowOf(s)' = RowOf(s)
      BY <1>2 DEF RowOf
  <2> QED BY <1>0, <1>2, <2>1 DEF IInv, PendingFresh, PendingApart, Clash
<1>9. Upper'
    BY <1>2, <1>3, <1>4 DEF IInv, TypeOK, VersionRow, Upper
<1>10. Full'
  <2> SUFFICES ASSUME NEW p \in Objects, NEW n \in 1 .. current'[p]
               PROVE  \E v \in versions' : v.object = p /\ v.version = n
      BY DEF Full
  <2>1. CASE p = o /\ n = current[o] + 1
      BY <1>2, <1>4, <2>1
  <2>2. CASE ~(p = o /\ n = current[o] + 1)
    <3>1. n \in 1 .. current[p]
        BY <1>3, <2>2 DEF IInv, TypeOK
    <3>2. PICK v \in versions : v.object = p /\ v.version = n
        BY <3>1 DEF IInv, Full
    <3> QED BY <1>2, <3>2
  <2> QED BY <2>1, <2>2
<1>11. Single'
    BY <1>0, <1>2 DEF IInv, PendingFresh, Single, Clash
<1> QED BY <1>1, <1>5, <1>6, <1>7, <1>8, <1>9, <1>10, <1>11 DEF IInv

LEMMA NextIInv == IInv /\ [Next]_vars => IInv'
<1> SUFFICES ASSUME IInv, [Next]_vars PROVE IInv'
    OBVIOUS
<1>1. CASE UNCHANGED vars
  <2>1. current' = current /\ versions' = versions /\ req' = req
      BY <1>1 DEF vars
  <2> QED BY <2>1 DEF IInv, TypeOK, CreateBase, Route, LockedBase, LockMutex, Holds,
             PendingFresh, PendingApart, RowOf, Upper, Full, Single, Clash
<1>2. ASSUME NEW r \in Requests, Step(r) PROVE IInv'
    BY <1>2, QuietIInv, LockIInv, FlushIInv, CommitIInv
<1> QED BY <1>1, <1>2 DEF Next

LEMMA SpecIInv == Spec => []IInv
BY InitIInv, NextIInv, PTL DEF Spec

-----------------------------------------------------------------------------
\* Every reachable state of the store has the declared shape: version numbers
\* stay positive, answers name an object and a version (business_truth.py:381-516).
THEOREM TypeCorrect == Spec => []TypeOK
<1>1. IInv => TypeOK
    BY DEF IInv
<1> QED BY <1>1, SpecIInv, PTL

LEMMA IInvDense == IInv => Dense
<1> SUFFICES ASSUME IInv PROVE Dense
    OBVIOUS
<1>1. \A v, w \in versions : v.object = w.object /\ v.version = w.version => v = w
    BY DEF IInv, Single, Clash
<1> QED BY <1>1 DEF IInv, Upper, Full, Dense, Ledger!Dense

\* However creates, version appends, retries and crashes interleave, an object's
\* history is exactly 1 .. current_version, one row each (business_truth.py:468-508).
THEOREM HistoryDense == Spec => []Dense
BY IInvDense, SpecIInv, PTL

LEMMA IInvKeyBuysOne == IInv => KeyBuysOne
BY DEF IInv, Single, Clash, KeyBuysOne, Ledger!KeyBuysOne

\* An Idempotency-Key belongs to one version of one object, although the look-up
\* of the key is an unlocked read (business_truth.py:387, 457).
THEOREM KeyBuysOneVersion == Spec => []KeyBuysOne
BY IInvKeyBuysOne, SpecIInv, PTL

-----------------------------------------------------------------------------
LEMMA AnswerStep ==
    ASSUME IInv, AnswerDurable, [Next]_vars
    PROVE  AnswerDurable'
<1>1. CASE UNCHANGED vars
  <2>1. versions' = versions /\ req' = req
      BY <1>1 DEF vars
  <2> QED BY <2>1 DEF AnswerDurable
<1>2. ASSUME NEW r \in Requests, Step(r) PROVE AnswerDurable'
  <2>1. \A s \in Requests : s # r => req'[s] = req[s]
      BY <1>2, StepShape DEF IInv
  <2>2. versions \subseteq versions'
    <3>1. CASE Commit(r)
        BY <3>1 DEF Commit
    <3>2. CASE ~Commit(r)
        BY <1>2, <3>2, StepShape DEF IInv
    <3> QED BY <3>1, <3>2
  <2>3. SUFFICES /\ req'[r].pc = "commit"
                      => req'[r].answer = <<req'[r].object, req'[r].base + 1>>
                 /\ req'[r].pc \in {"created", "replayed"}
                      => \E v \in versions' : /\ v.key = req'[r].key
                                              /\ req'[r].answer = <<v.object, v.version>>
      BY <2>1, <2>2 DEF AnswerDurable
  <2>4. /\ req'[r].key = req[r].key /\ req'[r].object = req[r].object
        /\ req'[r].pc = "commit" => Flush(r)
      BY <1>2, StepShape DEF IInv
  <2>5. req'[r].pc = "commit"
            => req'[r].answer = <<req'[r].object, req'[r].base + 1>>
      BY <2>4 DEF IInv, TypeOK, Request, Flush, Goto
  <2>6. req'[r].pc = "created" =>
            \E v \in versions' : /\ v.key = req'[r].key
                                 /\ req'[r].answer = <<v.object, v.version>>
    <3> SUFFICES ASSUME req'[r].pc = "created"
                 PROVE  \E v \in versions' : /\ v.key = req'[r].key
                                             /\ req'[r].answer = <<v.object, v.version>>
        OBVIOUS
    <3>1. Commit(r)
        BY <1>2 DEF Step, Begin, LookupKey, LookupSlug, LockObject, Reject, Flush,
                    Crash, Goto, IInv, TypeOK, Request
    <3>2. req'[r].answer = req[r].answer /\ req[r].pc = "commit"
        BY <3>1 DEF Commit, Goto, IInv, TypeOK, Request
    <3>3. RowOf(r) \in versions'
        BY <3>1 DEF Commit
    <3> QED BY <2>4, <3>2, <3>3 DEF AnswerDurable, RowOf
  <2>7. req'[r].pc = "replayed" =>
            \E v \in versions' : /\ v.key = req'[r].key
                                 /\ req'[r].answer = <<v.object, v.version>>
    <3> SUFFICES ASSUME req'[r].pc = "replayed"
                 PROVE  \E v \in versions' : /\ v.key = req'[r].key
                                             /\ req'[r].answer = <<v.object, v.version>>
        OBVIOUS
    <3>1. LookupKey(r)
        BY <1>2 DEF Step, Begin, LookupSlug, LockObject, Reject, Flush,
                    Commit, Crash, Goto, IInv, TypeOK, Request
    <3>2. /\ KeyUsed(req[r].key)
          /\ req'[r].answer = <<VersionForKey(req[r].key).object,
                                VersionForKey(req[r].key).version>>
        BY <3>1 DEF LookupKey, Goto, IInv, TypeOK, Request
    <3>3. VersionForKey(req[r].key) \in versions
          /\ VersionForKey(req[r].key).key = req[r].key
        BY <3>2 DEF KeyUsed, VersionForKey
    <3> QED BY <2>2, <2>4, <3>2, <3>3
  <2> QED BY <2>5, <2>6, <2>7
<1> QED BY <1>1, <1>2 DEF Next

\* Two successful answers under one key name the same version, and it is in the
\* table: a retry is never told of a version another key bought
\* (business_truth.py:387-392, 457-466).
THEOREM SameKeySameAnswer == Spec => []AnswersAgree
<1>1. Init => AnswerDurable
  <2> SUFFICES ASSUME Init PROVE AnswerDurable
      OBVIOUS
  <2>1. \A r \in Requests : req[r].pc = "idle"
      BY DEF Init, Command
  <2> QED BY <2>1 DEF AnswerDurable
<1>2. IInv /\ AnswerDurable => AnswersAgree
  <2> SUFFICES ASSUME IInv, AnswerDurable, NEW r \in Requests, NEW s \in Requests,
                      req[r].pc \in {"created", "replayed"},
                      req[s].pc \in {"created", "replayed"},
                      req[r].key = req[s].key
               PROVE  /\ req[r].answer = req[s].answer
                      /\ \E v \in versions : /\ v.key = req[r].key
                                             /\ req[r].answer = <<v.object, v.version>>
      BY DEF AnswersAgree
  <2>1. PICK v \in versions : v.key = req[r].key /\ req[r].answer = <<v.object, v.version>>
      BY DEF AnswerDurable
  <2>2. PICK w \in versions : w.key = req[s].key /\ req[s].answer = <<w.object, w.version>>
      BY DEF AnswerDurable
  <2>3. v = w
      BY <2>1, <2>2 DEF IInv, Single, Clash
  <2> QED BY <2>1, <2>2, <2>3
<1>3. Spec => []AnswerDurable
    BY <1>1, AnswerStep, SpecIInv, PTL DEF Spec
<1> QED BY <1>2, <1>3, SpecIInv, PTL

-----------------------------------------------------------------------------
\* A commit is the abstract Append; every other step changes nothing the ledger
\* shows.
LEMMA StepRefines ==
    ASSUME IInv, [Next]_vars
    PROVE  [Ledger!Next]_(Ledger!ledgerVars)
<1>1. CASE UNCHANGED vars
    BY <1>1 DEF vars, Ledger!ledgerVars
<1>2. ASSUME NEW r \in Requests, Step(r) PROVE [Ledger!Next]_(Ledger!ledgerVars)
  <2>1. CASE Commit(r)
    <3>1. req[r].pc = "commit" /\ req[r].base = current[req[r].object]
        BY <2>1, CommitNext DEF Commit
    <3>2. /\ req[r].object \in Objects /\ req[r].key \in Keys /\ req[r].body \in Bodies
          /\ current' = [current EXCEPT ![req[r].object] = @ + 1]
          /\ versions' = versions \cup
                {[object |-> req[r].object, version |-> current[req[r].object] + 1,
                  key |-> req[r].key, body |-> req[r].body]}
        BY <2>1, <3>1 DEF IInv, TypeOK, Request, Commit, RowOf
    <3>3. \A v \in versions : v.key # req[r].key
        BY <3>1 DEF IInv, PendingFresh, Clash, RowOf
    <3>4. Ledger!Append(req[r].object, req[r].key, req[r].body)
        BY <3>2, <3>3 DEF Ledger!Append
    <3> QED BY <3>2, <3>4 DEF Ledger!Next
  <2>2. CASE ~Commit(r)
      BY <1>2, <2>2, StepShape DEF IInv, Ledger!ledgerVars
  <2> QED BY <2>1, <2>2
<1> QED BY <1>1, <1>2 DEF Next

\* create_object and create_version implement the append-only ledger, for any
\* number of concurrent calls (business_truth.py:381-516).
THEOREM Refinement == Spec => ImplementsLedger
<1>1. Init => Ledger!Init
    BY DEF Init, Ledger!Init
<1> QED BY <1>1, StepRefines, SpecIInv, PTL DEF Spec, ImplementsLedger, Ledger!Spec
=============================================================================
