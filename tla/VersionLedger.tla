--------------------------- MODULE VersionLedger ---------------------------
(***************************************************************************)
(* What Grovello promises about canonical business truth, whoever writes   *)
(* it: every business object carries a dense, append-only history of       *)
(* immutable versions, and an idempotency key buys at most one version in  *)
(* the workspace.                                                          *)
(*                                                                         *)
(* The owner-edit path (BusinessTruth) and the import saga (ImportApply)   *)
(* are both shown to implement this specification.                         *)
(***************************************************************************)
EXTENDS Naturals

CONSTANTS
    Objects,    \* business object identities of one workspace
    Keys,       \* idempotency keys
    Bodies      \* what a version says (name, status, payload), opaque here

VARIABLES
    current,    \* current_version of each object, 0 while it does not exist
    versions    \* the rows of business_object_versions

ledgerVars == <<current, versions>>

VersionRow == [object : Objects, version : Nat \ {0}, key : Keys, body : Bodies]

Init ==
    /\ current = [o \in Objects |-> 0]
    /\ versions = {}

\* The next version of object o, bought with key k.
Append(o, k, b) ==
    /\ \A v \in versions : v.key # k
    /\ current' = [current EXCEPT ![o] = @ + 1]
    /\ versions' = versions \cup
            {[object |-> o, version |-> current[o] + 1, key |-> k, body |-> b]}

Next == \E o \in Objects, k \in Keys, b \in Bodies : Append(o, k, b)

Spec == Init /\ [][Next]_ledgerVars

-----------------------------------------------------------------------------
(* Facts about the ledger that the implementing modules restate. *)

TypeOK ==
    /\ current \in [Objects -> Nat]
    /\ versions \subseteq VersionRow

\* An object's history is 1 .. current_version, one row for each number.
Dense ==
    /\ \A v \in versions : v.version <= current[v.object]
    /\ \A o \in Objects : \A n \in 1 .. current[o] :
            \E v \in versions : v.object = o /\ v.version = n
    /\ \A v, w \in versions :
            v.object = w.object /\ v.version = w.version => v = w

\* An idempotency key belongs to at most one version.
KeyBuysOne == \A v, w \in versions : v.key = w.key => v = w
=============================================================================
