----------------------------- MODULE Canonical -----------------------------
(***************************************************************************)
(* What the stores of one workspace share: the canonical objects that      *)
(* owners go on editing, and the HTTP or worker calls that read them, each *)
(* call one PostgreSQL transaction at READ COMMITTED.  Every statement of a *)
(* call sees what is committed when it runs.  BusinessTruth shows how an   *)
(* edit keeps an object's history; here an edit is one step.               *)
(***************************************************************************)
EXTENDS Naturals, Sequences

CONSTANTS
    Objects, TypeOf,   \* canonical objects and their types
    Keys,              \* idempotency keys
    Requests,
    None,
    MaxEdits           \* bound on the owner's edits

ASSUME EditAssumption == MaxEdits \in Nat
ASSUME NoneAssumption == None \notin Requests \cup Keys

VARIABLES
    versions,   \* each object's versions; the last is current; empty: no object yet
    spent,      \* keys of owner-made rows of business_object_versions
    past,       \* every state the catalog has been in
    edits,
    req         \* the calls' control points and local variables

canonicalVars == <<versions, spent, past, edits>>

\* "fit": the payload's own condition on a knowledge source holds (an approved
\* document, verified evidence, a clean and available text file).
Version == [status : {"draft", "active", "archived"}, fit : BOOLEAN]

Running  == {"begin", "lock", "read", "flush", "commit", "get"}
Finished == {"done", "replayed", "refused", "aborted"}

Exists(catalog, o) == catalog[o] # << >>
Current(catalog, o) == Len(catalog[o])

\* create_version sets the object's status to that of its new version.
ObjectStatus(catalog, o) == catalog[o][Current(catalog, o)].status

\* create_object or create_version of the owner, under a key outside Keys ...
OwnerEdit(o, v) ==
    /\ edits < MaxEdits /\ edits' = edits + 1
    /\ versions' = [versions EXCEPT ![o] = Append(@, v)]
    /\ past' = past \cup {versions'}
    /\ UNCHANGED <<spent, req>>

\* ... or of an object outside Objects, under a key the calls use too.
OwnerEditElsewhere(key) ==
    /\ edits < MaxEdits /\ edits' = edits + 1
    /\ spent' = spent \cup {key}
    /\ UNCHANGED <<versions, past, req>>

Goto(r, pc) == req' = [req EXCEPT ![r].pc = pc]
Answer(r, pc, answer) == req' = [req EXCEPT ![r].pc = pc, ![r].answer = answer]

At(r, op, pc) == req[r].op = op /\ req[r].pc = pc

\* The process dies, or the database ends the transaction, before it commits.
Abort(r) ==
    /\ req[r].pc \in Running
    /\ Goto(r, "aborted")
=============================================================================
