----------------------------- MODULE Workspace -----------------------------
(***************************************************************************)
(* Knowledge and Onboarding over one catalog.  Any calls may run at once,  *)
(* repeat one another's keys, and die, while the owner edits the objects.  *)
(***************************************************************************)
EXTENDS Knowledge, Onboarding, FiniteSets

vars == <<versions, spent, past, edits, req, ingestions, chunks, setup>>

Published == [status |-> "active", fit |-> TRUE]
Archived  == [status |-> "archived", fit |-> TRUE]
Unfit     == [status |-> "active", fit |-> FALSE]

Edits == {Published, Archived, Unfit}

\* Any objects; either nothing more, or a draft setup and an ingestion of a source
\* that is still eligible.
Init ==
    /\ versions \in [Objects -> {<< >>, <<Published>>}]
    /\ spent = {} /\ past = {versions} /\ edits = 0 /\ chunks = {}
    /\ \/ setup = None /\ ingestions = [k \in Keys |-> None]
       \/ \E k \in Keys, t \in Required, s \in [object : Objects, version : {1}] :
             /\ Eligible(versions, s)
             /\ setup = Draft(None, k, t)
             /\ ingestions = [[j \in Keys |-> None] EXCEPT ![k] =
                   [by |-> None, source |-> s, status |-> "pending", chunk_count |-> 0]]
    /\ req \in [Requests -> IngestionCommand([object : Objects, version : {1, 2}])
                   \cup ChunkCommand \cup SetupCommand \cup ActivateCommand
                   \cup ProfileCommand]

\* Keys no version has, committed or not: an owner's call under another one waits,
\* and then changes nothing.
FreeKeys ==
    Keys \ (spent \cup {c.key : c \in chunks}
                 \cup {req[r].key : r \in {s \in Requests :
                                             At(s, "create_pipeline_chunk", "commit")}})

Next ==
    \/ \E r \in Requests :
          \/ KnowledgeStep(r) /\ UNCHANGED setup
          \/ OnboardingStep(r) /\ UNCHANGED knowledgeVars
          \/ Abort(r) /\ UNCHANGED <<canonicalVars, knowledgeVars, setup>>
    \/ /\ \/ \E o \in Objects, v \in Edits : OwnerEdit(o, v)
          \/ \E key \in FreeKeys : OwnerEditElsewhere(key)
       /\ UNCHANGED <<knowledgeVars, setup>>

Spec == Init /\ [][Next]_vars

-----------------------------------------------------------------------------
Pinnable == SUBSET (Objects \X Nat)

\* A call carries what its operation is given, and has what it read and was told.
Call(op, keys, args, seen, answers) ==
    [op : {op}, pc : Running \cup Finished, key : keys, arg : args,
     seen : seen \cup {None}, answer : answers]

Typed(c) ==
    \/ c.op = "create_ingestion"
       /\ c \in Call("create_ingestion", Keys, Source, {}, Requests \cup {None})
    \/ c.op = "create_pipeline_chunk"
       /\ c \in Call("create_pipeline_chunk", Keys,
                     [generation : Keys, ordinal : 0 .. MaxOrdinal], Nat,
                     Requests \cup {None})
    \/ c.op = "create"
       /\ c \in Call("create", Keys, Required, {}, Requests \cup {None})
    \/ c.op = "activate"
       /\ c \in Call("activate", Keys, Policies, Pinnable, Pinnable \cup {None})
    \/ c.op = "get_profile"
       /\ c \in Call("get_profile", {None}, {None}, Pinnable, Pinnable)

TypeOK ==
    /\ versions \in [Objects -> Seq(Version)] /\ past \subseteq [Objects -> Seq(Version)]
    /\ spent \subseteq Keys /\ edits \in 0 .. MaxEdits
    /\ ingestions \in [Keys -> Ingestion \cup {None}] /\ chunks \subseteq Chunk
    /\ setup \in Setup \cup {None}
    /\ req = [r \in Requests |-> req[r]] /\ \A r \in Requests : Typed(req[r])

\* knowledge.py:390-397, 479-480; models.py:490-492.  However many services build a
\* generation at once, its count is the number of its chunks, each at a place and
\* under a key of its own, and it is pending just while it has none.
ChunksCounted == \A g \in Keys :
    LET links == {c \in chunks : c.generation = g}
    IN  /\ ingestions[g] = None => links = {}
        /\ ingestions[g] # None =>
              /\ ingestions[g].chunk_count = Cardinality(links)
              /\ ingestions[g].status = "pending" <=> links = {}
        /\ \A c, d \in links : c # d => c.ordinal # d.ordinal /\ c.key # d.key

Succeeded(r) == req[r].pc \in {"done", "replayed"}

\* knowledge.py:188-202, 355-388; workspace_onboarding.py:107-126, 186-212.  Two calls
\* of one operation that succeed under one key are told of the same ingestion, chunk,
\* setup or activation, whichever of them made it.
AnswersAgree == \A r, s \in Requests :
    /\ Succeeded(r) /\ Succeeded(s)
    /\ req[r].op = req[s].op /\ req[r].key = req[s].key /\ req[r].key # None
    => req[r].answer = req[s].answer

\* knowledge.py:529-568; workspace_onboarding.py:229-245, 308-321; business_truth.py:
\* 542-555.  No lock keeps the objects still, yet what is pinned or shown was true at
\* one moment: an ingestion's source was eligible, an activation's versions are all
\* the active ones of the required types, a profile's are all the current ones.
SeenAtOneMoment ==
    /\ \A k \in Keys : ingestions[k] # None =>
          \E c \in past : Eligible(c, ingestions[k].source)
    /\ setup # None /\ setup.status = "active" =>
          \E c \in past :
             /\ setup.pinned = {p \in ActiveIn(c) : TypeOf[p[1]] \in setup.required}
             /\ Covers(setup.pinned, setup.required)
    /\ \A r \in Requests : At(r, "get_profile", "done") =>
          \E c \in past :
             req[r].answer = {<<o, Current(c, o)>> : o \in {p \in Objects : Exists(c, p)}}

\* workspace_onboarding.py:186-212.  An activated setup is never activated again,
\* blocked or pinned to other versions, whatever calls were under way.
ActivationHolds ==
    [][setup # None /\ setup.status = "active" => setup' = setup]_vars
=============================================================================
