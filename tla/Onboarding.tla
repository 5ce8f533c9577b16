----------------------------- MODULE Onboarding -----------------------------
(***************************************************************************)
(* SqlAlchemyWorkspaceOnboardingStore (workspace_onboarding.py), one record *)
(* per workspace, created and activated by its owners, and get_profile of  *)
(* business_truth.py, the view of the same objects an owner reviews before *)
(* activating.                                                             *)
(***************************************************************************)
EXTENDS Canonical

CONSTANTS
    Required,         \* the sets of object types a setup may require
    Policies,
    ActivePolicies,   \* nothing in the code changes a policy
    Furnished         \* the workspace has a locale, time zone, currency and owner

ASSUME PolicyAssumption == ActivePolicies \subseteq Policies /\ Furnished \in BOOLEAN

VARIABLES setup   \* the row of workspace_onboardings, or None

\* "pinned": activation_snapshot's objectVersions.  in_progress and
\* ready_for_review are states of the table that no code enters.
Setup == [by : Requests \cup {None}, key : Keys, required : Required,
          status : {"draft", "blocked", "active"}, activation_version : Nat,
          activation_key : Keys \cup {None}, policy : Policies \cup {None},
          pinned : SUBSET (Objects \X Nat)]

ASSUME SetupAssumption == None \notin Setup

Draft(r, key, required) ==
    [by |-> r, key |-> key, required |-> required, status |-> "draft",
     activation_version |-> 0, activation_key |-> None, policy |-> None, pinned |-> {}]

SetupCommand ==
    {[op |-> "create", pc |-> "begin", key |-> k, arg |-> t, seen |-> None,
      answer |-> None] : k \in Keys, t \in Required}
ActivateCommand ==
    {[op |-> "activate", pc |-> "lock", key |-> k, arg |-> p, seen |-> None,
      answer |-> None] : k \in Keys, p \in Policies}
ProfileCommand ==
    {[op |-> "get_profile", pc |-> "begin", key |-> None, arg |-> None, seen |-> None,
      answer |-> {}]}

-----------------------------------------------------------------------------
(* create *)

LookUpSetup(r) ==
    /\ At(r, "create", "begin")
    /\ \/ setup = None /\ Goto(r, "flush")
       \/ /\ setup # None /\ setup.key = req[r].key /\ setup.required = req[r].arg
          /\ Answer(r, "replayed", setup.by)
       \/ /\ setup # None /\ <<setup.key, setup.required>> # <<req[r].key, req[r].arg>>
          /\ Goto(r, "refused")
    /\ UNCHANGED <<canonicalVars, setup>>

\* UNIQUE (workspace_id)
FlushSetup(r) ==
    /\ At(r, "create", "flush")
    /\ ~\E s \in Requests : At(s, "create", "commit")
    /\ Goto(r, IF setup = None THEN "commit" ELSE "aborted")
    /\ UNCHANGED <<canonicalVars, setup>>

CommitSetup(r) ==
    /\ At(r, "create", "commit")
    /\ setup' = Draft(r, req[r].key, req[r].arg)
    /\ Answer(r, "done", r)
    /\ UNCHANGED canonicalVars

-----------------------------------------------------------------------------
(* activate *)

\* The lock is held from here to the end of the transaction.
Activating(s) == req[s].op = "activate" /\ req[s].pc \in {"read", "commit"}

\* What a call finds in the locked row: an activation of its own, of another
\* call, or none yet.
JudgeActivation(r) ==
    \/ /\ setup.activation_key # None
       /\ IF setup.activation_key = req[r].key /\ setup.policy = req[r].arg
          THEN Answer(r, "replayed", setup.pinned) ELSE Goto(r, "refused")
    \/ /\ setup.activation_key = None
       /\ Goto(r, IF req[r].arg \in ActivePolicies THEN "read" ELSE "refused")

\* Mutant of LockSetup: the row is read without FOR UPDATE.
ReadSetup(r) ==
    /\ At(r, "activate", "lock")
    /\ IF setup = None THEN Goto(r, "refused") ELSE JudgeActivation(r)
    /\ UNCHANGED <<canonicalVars, setup>>

LockSetup(r) ==
    /\ At(r, "activate", "lock")
    /\ \/ setup = None /\ Goto(r, "refused")
       \/ /\ setup # None /\ ~\E s \in Requests : Activating(s)
          /\ JudgeActivation(r)
    /\ UNCHANGED <<canonicalVars, setup>>

ActiveIn(catalog) ==
    {<<o, Current(catalog, o)>> :
        o \in {p \in Objects : Exists(catalog, p) /\ ObjectStatus(catalog, p) = "active"}}

\* One join of objects and their current versions; nothing locks them.
ReadActive(r) ==
    /\ At(r, "activate", "read")
    /\ req' = [req EXCEPT ![r].pc = "commit", ![r].seen = ActiveIn(versions)]
    /\ UNCHANGED <<canonicalVars, setup>>

Covers(pairs, types) == \A t \in types : \E pair \in pairs : TypeOf[pair[1]] = t

\* A setup with gaps is committed as blocked, and the call answered with a conflict.
BlockActivation(r) ==
    /\ At(r, "activate", "commit")
    /\ ~Furnished \/ ~Covers(req[r].seen, setup.required)
    /\ setup' = [setup EXCEPT !.status = "blocked"]
    /\ Goto(r, "refused")
    /\ UNCHANGED canonicalVars

CommitActivation(r) ==
    LET pinned == {pair \in req[r].seen : TypeOf[pair[1]] \in setup.required}
    IN  /\ At(r, "activate", "commit")
        /\ Furnished /\ Covers(req[r].seen, setup.required)
        /\ setup' = [setup EXCEPT !.status = "active", !.pinned = pinned,
                        !.activation_version = @ + 1, !.policy = req[r].arg,
                        !.activation_key = req[r].key]
        /\ Answer(r, "done", pinned)
        /\ UNCHANGED canonicalVars

-----------------------------------------------------------------------------
(* get_profile *)

\* The list of objects: "seen" is the rows as the session's identity map keeps them.
ListObjects(r) ==
    /\ At(r, "get_profile", "begin")
    /\ req' = [req EXCEPT ![r].pc = "get",
          ![r].seen = {<<o, Current(versions, o)>> :
                          o \in {p \in Objects : Exists(versions, p)}}]
    /\ UNCHANGED <<canonicalVars, setup>>

\* Mutant of VersionToShow: get_object reads the object's row anew.
VersionNow(pair) == <<pair[1], Current(versions, pair[1])>>

\* get_object selects the row again, but the session answers with the one it has.
VersionToShow(pair) == pair

GetObject(r) ==
    /\ At(r, "get_profile", "get")
    /\ \E pair \in req[r].seen :
          req' = [req EXCEPT ![r].seen = @ \ {pair},
                             ![r].answer = @ \cup {VersionToShow(pair)}]
    /\ UNCHANGED <<canonicalVars, setup>>

EndProfile(r) ==
    /\ At(r, "get_profile", "get") /\ req[r].seen = {}
    /\ Goto(r, "done")
    /\ UNCHANGED <<canonicalVars, setup>>

OnboardingStep(r) ==
    \/ LookUpSetup(r) \/ FlushSetup(r) \/ CommitSetup(r)
    \/ LockSetup(r) \/ ReadActive(r) \/ BlockActivation(r) \/ CommitActivation(r)
    \/ ListObjects(r) \/ GetObject(r) \/ EndProfile(r)
=============================================================================
