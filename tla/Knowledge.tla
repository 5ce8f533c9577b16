----------------------------- MODULE Knowledge -----------------------------
(***************************************************************************)
(* SqlAlchemyKnowledgeStore (knowledge.py): create_ingestion, called by    *)
(* owners through the API, and create_pipeline_chunk, called by pipeline   *)
(* services that may run side by side and repeat a call.  An ingestion is  *)
(* named by its key; it comes with one source snapshot and one generation. *)
(***************************************************************************)
EXTENDS Canonical

CONSTANTS MaxOrdinal   \* bound on the ordinals of chunks

ASSUME OrdinalAssumption == MaxOrdinal \in Nat

VARIABLES
    ingestions,   \* knowledge_ingestions with their snapshots and generations
    chunks        \* chunk versions with the links to their generations

knowledgeVars == <<ingestions, chunks>>

ALLOWED_SOURCE_TYPES == {"knowledge_document", "asset", "evidence", "case_study"}

Source == [object : Objects, version : Nat \ {0}]
Ingestion == [by : Requests \cup {None}, source : Source,
              status : {"pending", "building"}, chunk_count : Nat]
ASSUME IngestionAssumption == None \notin Ingestion

Chunk == [by : Requests, key : Keys, generation : Keys, ordinal : 1 .. MaxOrdinal]

\* Ordinal 0 stands for every command _validate_chunk or the actor check refuses.
IngestionCommand(sources) ==
    {[op |-> "create_ingestion", pc |-> "begin", key |-> k, arg |-> s,
      seen |-> None, answer |-> None] : k \in Keys, s \in sources}
ChunkCommand ==
    {[op |-> "create_pipeline_chunk", pc |-> "begin", key |-> k,
      arg |-> [generation |-> g, ordinal |-> n], seen |-> None, answer |-> None] :
         k \in Keys, g \in Keys, n \in 0 .. MaxOrdinal}

\* _eligible_source and _snapshot_data: the object is active now and so was the
\* version asked for, which need not be the current one.
Eligible(catalog, s) ==
    /\ s.version \in 1 .. Current(catalog, s.object)
    /\ TypeOf[s.object] \in ALLOWED_SOURCE_TYPES
    /\ ObjectStatus(catalog, s.object) = "active"
    /\ catalog[s.object][s.version].status = "active"
    /\ catalog[s.object][s.version].fit

-----------------------------------------------------------------------------
(* create_ingestion *)

LookUpIngestion(r) ==
    LET k == req[r].key
    IN  /\ At(r, "create_ingestion", "begin")
        /\ \/ ingestions[k] = None /\ Goto(r, "read")
           \/ /\ ingestions[k] # None /\ ingestions[k].source = req[r].arg
              /\ Answer(r, "replayed", ingestions[k].by)
           \/ /\ ingestions[k] # None /\ ingestions[k].source # req[r].arg
              /\ Goto(r, "refused")
        /\ UNCHANGED <<canonicalVars, knowledgeVars>>

ReadSource(r) ==
    /\ At(r, "create_ingestion", "read")
    /\ Goto(r, IF Eligible(versions, req[r].arg) THEN "flush" ELSE "refused")
    /\ UNCHANGED <<canonicalVars, knowledgeVars>>

\* An insert of a key another transaction has inserted waits for that one to end.
FlushIngestion(r) ==
    LET k == req[r].key
    IN  /\ At(r, "create_ingestion", "flush")
        /\ ~\E s \in Requests : At(s, "create_ingestion", "commit") /\ req[s].key = k
        /\ Goto(r, IF ingestions[k] = None THEN "commit" ELSE "aborted")
        /\ UNCHANGED <<canonicalVars, knowledgeVars>>

CommitIngestion(r) ==
    /\ At(r, "create_ingestion", "commit")
    /\ ingestions' = [ingestions EXCEPT ![req[r].key] =
          [by |-> r, source |-> req[r].arg, status |-> "pending", chunk_count |-> 0]]
    /\ Answer(r, "done", r)
    /\ UNCHANGED <<canonicalVars, chunks>>

-----------------------------------------------------------------------------
(* create_pipeline_chunk *)

SameChunk(c, arg) == c.generation = arg.generation /\ c.ordinal = arg.ordinal

\* The chunk's text is not compared, its place is.
LookUpChunk(r) ==
    LET arg == req[r].arg
        bought == {c \in chunks : c.key = req[r].key}
    IN  /\ At(r, "create_pipeline_chunk", "begin")
        /\ \/ arg.ordinal = 0 /\ Goto(r, "refused")
           \/ /\ arg.ordinal > 0 /\ bought = {}
              /\ Goto(r, IF req[r].key \in spent THEN "refused" ELSE "lock")
           \/ /\ arg.ordinal > 0
              /\ \E c \in bought : IF SameChunk(c, arg) THEN Answer(r, "replayed", c.by)
                                                        ELSE Goto(r, "refused")
        /\ UNCHANGED <<canonicalVars, knowledgeVars>>

Building(s, g) ==
    /\ req[s].op = "create_pipeline_chunk" /\ req[s].pc \in {"flush", "commit"}
    /\ req[s].arg.generation = g

\* Mutant of LockGeneration: the count is read without the row lock.
ReadGeneration(r) ==
    LET g == req[r].arg.generation
    IN  /\ At(r, "create_pipeline_chunk", "lock")
        /\ IF ingestions[g] = None THEN Goto(r, "refused")
           ELSE req' = [req EXCEPT ![r].pc = "flush", ![r].seen = ingestions[g].chunk_count]
        /\ UNCHANGED <<canonicalVars, knowledgeVars>>

LockGeneration(r) ==
    LET g == req[r].arg.generation
    IN  /\ At(r, "create_pipeline_chunk", "lock")
        /\ \/ ingestions[g] = None /\ Goto(r, "refused")
           \/ /\ ingestions[g] # None /\ ~\E s \in Requests : Building(s, g)
              /\ ingestions[g].status \in {"pending", "building"}
              /\ req' = [req EXCEPT ![r].pc = "flush",
                                    ![r].seen = ingestions[g].chunk_count]
        /\ UNCHANGED <<canonicalVars, knowledgeVars>>

\* Mutant of Taken: the version's key is not unique.
PlaceTaken(key, arg) == \E c \in chunks : SameChunk(c, arg)

\* UNIQUE (workspace_id, idempotency_key) on versions, whoever wrote them, and
\* UNIQUE (workspace_id, generation_id, ordinal) on links.
Taken(key, arg) ==
    key \in spent \/ \E c \in chunks : c.key = key \/ SameChunk(c, arg)

FlushChunk(r) ==
    /\ At(r, "create_pipeline_chunk", "flush")
    /\ ~\E s \in Requests : At(s, "create_pipeline_chunk", "commit")
                            /\ (req[s].key = req[r].key \/ req[s].arg = req[r].arg)
    /\ Goto(r, IF Taken(req[r].key, req[r].arg) THEN "aborted" ELSE "commit")
    /\ UNCHANGED <<canonicalVars, knowledgeVars>>

CommitChunk(r) ==
    LET g == req[r].arg.generation
    IN  /\ At(r, "create_pipeline_chunk", "commit")
        /\ chunks' = chunks \cup {[by |-> r, key |-> req[r].key, generation |-> g,
                                   ordinal |-> req[r].arg.ordinal]}
        /\ ingestions' = [ingestions EXCEPT ![g].status = "building",
                                            ![g].chunk_count = req[r].seen + 1]
        /\ Answer(r, "done", r)
        /\ UNCHANGED canonicalVars

KnowledgeStep(r) ==
    \/ LookUpIngestion(r) \/ ReadSource(r) \/ FlushIngestion(r) \/ CommitIngestion(r)
    \/ LookUpChunk(r) \/ LockGeneration(r) \/ FlushChunk(r) \/ CommitChunk(r)
=============================================================================
