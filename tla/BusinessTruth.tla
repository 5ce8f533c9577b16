--------------------------- MODULE BusinessTruth ---------------------------
(***************************************************************************)
(* SqlAlchemyBusinessTruthStore (business_truth.py): create_object and     *)
(* create_version as concurrent PostgreSQL transactions at READ COMMITTED. *)
(*                                                                         *)
(* A request is one HTTP call.  It looks its Idempotency-Key up, looks the *)
(* slug up (create) or locks the object row (version), flushes its rows,   *)
(* and commits when the dependency that owns the session exits, which is   *)
(* after the response may have left.  The look-ups are unlocked reads, so  *)
(* what they saw may be stale when the request flushes; the FOR UPDATE     *)
(* lock and the unique constraints are what keeps the history sound.       *)
(* An object is identified by its (object_type, slug) pair.                *)
(***************************************************************************)
EXTENDS Naturals

CONSTANTS
    Objects, Keys, Bodies,
    Requests,   \* HTTP calls, concurrent ones and retries alike
    None        \* no answer yet

VARIABLES
    current,    \* business_objects.current_version; 0: no row with this slug
    versions,   \* committed rows of business_object_versions
    req         \* the requests' control points and local variables

vars == <<current, versions, req>>

VersionRow == [object : Objects, version : Nat \ {0}, key : Keys, body : Bodies]

Running  == {"lookup_key", "lookup_slug", "lock", "flush", "commit"}
Finished == {"created", "replayed", "refused", "aborted"}

Request == [pc : {"idle"} \cup Running \cup Finished,
            op : {"create_object", "create_version"},
            object : Objects, key : Keys, body : Bodies,
            base : Nat,                            \* current_version as last read
            answer : (Objects \X Nat) \cup {None}] \* the version in the response

\* A call that has arrived: any operation, object, key and body.
Command == {[pc |-> "idle", op |-> op, object |-> o, key |-> k, body |-> b,
             base |-> 0, answer |-> None] :
                op \in {"create_object", "create_version"},
                o \in Objects, k \in Keys, b \in Bodies}

Init ==
    /\ current = [o \in Objects |-> 0]
    /\ versions = {}
    /\ req \in [Requests -> Command]

Exists(o) == current[o] > 0

KeyUsed(k) == \E v \in versions : v.key = k

\* The row a key bought (_version_for_idempotency_key).
VersionForKey(k) == CHOOSE v \in versions : v.key = k

\* Mutant of Holds: a failed transaction is never rolled back.
HoldsAfterAbort(r, o) == /\ req[r].pc \in {"flush", "commit", "aborted"}
                         /\ req[r].op = "create_version"
                         /\ req[r].object = o

\* FOR UPDATE: from the lock to the end of the transaction the row is held.
Holds(r, o) == /\ req[r].pc \in {"flush", "commit"}
               /\ req[r].op = "create_version"
               /\ req[r].object = o

\* Mutant of RowOf: the row keeps the number it was read with.
RowUnbumped(r) == [object |-> req[r].object, version |-> req[r].base,
                   key |-> req[r].key, body |-> req[r].body]

\* The row request r inserts.
RowOf(r) == [object |-> req[r].object, version |-> req[r].base + 1,
             key |-> req[r].key, body |-> req[r].body]

\* Mutants of Clash: one of the unique constraints is missing.
ClashOnKey(row, other) == row.key = other.key
ClashOnVersion(row, other) ==
    row.object = other.object /\ row.version = other.version

\* UNIQUE (workspace_id, idempotency_key), UNIQUE (workspace_id, object_id, version)
\* and, for a first version, UNIQUE (workspace_id, object_type, slug).
Clash(row, other) ==
    \/ row.key = other.key
    \/ row.object = other.object /\ row.version = other.version

Goto(r, pc) == req' = [req EXCEPT ![r].pc = pc]

-----------------------------------------------------------------------------
\* Any call the API accepts: its command is picked with the initial state.
Begin(r) ==
    /\ req[r].pc = "idle"
    /\ Goto(r, "lookup_key")
    /\ UNCHANGED <<current, versions>>

\* Mutant of LookupKey: a replay answers with the object's present version.
LookupKeyPresent(r) ==
    LET seen == VersionForKey(req[r].key)
    IN  /\ req[r].pc = "lookup_key"
        /\ IF KeyUsed(req[r].key)
           THEN req' = [req EXCEPT ![r].pc = "replayed",
                                   ![r].answer = <<seen.object, current[seen.object]>>]
           ELSE Goto(r, IF req[r].op = "create_object" THEN "lookup_slug" ELSE "lock")
        /\ UNCHANGED <<current, versions>>

\* A known key answers with the version it bought.  create_version refuses a key
\* of another object; create_object answers with whatever the key bought.
LookupKey(r) ==
    LET seen == VersionForKey(req[r].key)
    IN  /\ req[r].pc = "lookup_key"
        /\ \/ /\ ~KeyUsed(req[r].key)
              /\ Goto(r, IF req[r].op = "create_object" THEN "lookup_slug" ELSE "lock")
           \/ /\ KeyUsed(req[r].key)
              /\ req[r].op = "create_version" /\ seen.object # req[r].object
              /\ Goto(r, "refused")
           \/ /\ KeyUsed(req[r].key)
              /\ req[r].op = "create_object" \/ seen.object = req[r].object
              /\ req' = [req EXCEPT ![r].pc = "replayed",
                                    ![r].answer = <<seen.object, seen.version>>]
        /\ UNCHANGED <<current, versions>>

LookupSlug(r) ==
    /\ req[r].pc = "lookup_slug"
    /\ Goto(r, IF Exists(req[r].object) THEN "refused" ELSE "flush")
    /\ UNCHANGED <<current, versions>>

LockObject(r) ==
    /\ req[r].pc = "lock"
    /\ \A s \in Requests : ~Holds(s, req[r].object)
    /\ IF Exists(req[r].object)
       THEN req' = [req EXCEPT ![r].pc = "flush", ![r].base = current[req[r].object]]
       ELSE Goto(r, "refused")
    /\ UNCHANGED <<current, versions>>

\* The payload rules or the citation checks refuse the command.
Reject(r) ==
    /\ req[r].pc = "flush"
    /\ Goto(r, "refused")
    /\ UNCHANGED <<current, versions>>

\* The inserts reach the database: they wait for an uncommitted row they clash
\* with, and a committed one makes the transaction fail.
Flush(r) ==
    /\ req[r].pc = "flush"
    /\ \A s \in Requests : req[s].pc = "commit" => ~Clash(RowOf(r), RowOf(s))
    /\ IF \E v \in versions : Clash(RowOf(r), v)
       THEN Goto(r, "aborted")
       ELSE req' = [req EXCEPT ![r].pc = "commit",
                               ![r].answer = <<req[r].object, req[r].base + 1>>]
    /\ UNCHANGED <<current, versions>>

\* Mutant of Commit: create_version leaves current_version behind.
CommitRowOnly(r) ==
    /\ req[r].pc = "commit"
    /\ current' = [current EXCEPT ![req[r].object] = IF @ = 0 THEN 1 ELSE @]
    /\ versions' = versions \cup {RowOf(r)}
    /\ Goto(r, "created")

Commit(r) ==
    /\ req[r].pc = "commit"
    /\ current' = [current EXCEPT ![req[r].object] = req[r].base + 1]
    /\ versions' = versions \cup {RowOf(r)}
    /\ Goto(r, "created")

\* The API process or its connection dies and the transaction rolls back; a
\* response that has already left is not called back.
Crash(r) ==
    /\ req[r].pc \in Running
    /\ Goto(r, "aborted")
    /\ UNCHANGED <<current, versions>>

Step(r) ==
    \/ Begin(r) \/ LookupKey(r) \/ LookupSlug(r) \/ LockObject(r)
    \/ Reject(r) \/ Flush(r) \/ Commit(r) \/ Crash(r)

Next == \E r \in Requests : Step(r)

Spec == Init /\ [][Next]_vars

\* A begun transaction keeps running: the API awaits every statement and
\* PostgreSQL grants a free row lock to a waiter.  Nothing is assumed of Crash
\* or Reject.
Progress(r) ==
    LookupKey(r) \/ LookupSlug(r) \/ LockObject(r) \/ Flush(r) \/ Commit(r)

FairSpec == Spec /\ \A r \in Requests : WF_vars(Progress(r))

-----------------------------------------------------------------------------
TypeOK ==
    /\ current \in [Objects -> Nat]
    /\ versions \subseteq VersionRow
    /\ req \in [Requests -> Request]

Ledger == INSTANCE VersionLedger

\* business_truth.py:487-512, 415-441: whatever calls interleave, crash or race on
\* a slug, every object's history stays 1 .. current_version with one row each.
Dense == Ledger!Dense

\* business_truth.py:387, 457: two calls that both miss the key look-up never both
\* commit a version with that key.
KeyBuysOne == Ledger!KeyBuysOne

\* Calls that share a key and end in success are told the same, durable version,
\* whichever of them wrote it and whatever other keys wrote in between.
AnswersAgree ==
    \A r, s \in Requests :
        /\ req[r].pc \in {"created", "replayed"}
        /\ req[s].pc \in {"created", "replayed"}
        /\ req[r].key = req[s].key
        => /\ req[r].answer = req[s].answer
           /\ \E v \in versions : v.key = req[r].key /\ req[r].answer = <<v.object, v.version>>

\* The two store operations implement the abstract ledger.
ImplementsLedger == Ledger!Spec

\* No call waits for ever: row locks and unique-index waits never form a cycle.
EveryCallEnds == \A r \in Requests : req[r].pc \in Running ~> req[r].pc \in Finished
=============================================================================
