-------------------------- MODULE Workspace_proofs --------------------------
(***************************************************************************)
(* Proofs about Workspace for any objects, keys, calls and edits: chunk    *)
(* counts, answers, what is pinned or shown, and that an activation holds. *)
(***************************************************************************)
EXTENDS Workspace, FiniteSetTheorems, TLAPS

-----------------------------------------------------------------------------
(* Type correctness. *)

\* What a step may leave of the call that takes it.
LEMMA StepOfOne ==
    ASSUME TypeOK, NEW r \in Requests, NEW c, req' = [req EXCEPT ![r] = c], Typed(c)
    PROVE  req' = [s \in Requests |-> req'[s]] /\ \A s \in Requests : Typed(req'[s])
BY DEF TypeOK

LEMMA GotoTyped ==
    ASSUME TypeOK, NEW r \in Requests, NEW pc \in Running \cup Finished, Goto(r, pc)
    PROVE  req' = [s \in Requests |-> req'[s]] /\ \A s \in Requests : Typed(req'[s])
<1>1. Typed([req[r] EXCEPT !.pc = pc])
    BY DEF TypeOK, Typed, Call
<1> QED BY <1>1, StepOfOne DEF Goto

LEMMA AnswerTyped ==
    ASSUME TypeOK, NEW r \in Requests, NEW pc \in Running \cup Finished, NEW answer,
           Answer(r, pc, answer),
           \/ req[r].op \in {"create_ingestion", "create_pipeline_chunk", "create"}
              /\ answer \in Requests \cup {None}
           \/ req[r].op = "activate" /\ answer \in Pinnable
    PROVE  req' = [s \in Requests |-> req'[s]] /\ \A s \in Requests : Typed(req'[s])
<1>1. Typed([req[r] EXCEPT !.pc = pc, !.answer = answer])
    BY DEF TypeOK, Typed, Call
<1>2. req' = [req EXCEPT ![r] = [req[r] EXCEPT !.pc = pc, !.answer = answer]]
    BY DEF Answer, TypeOK
<1> QED BY <1>1, <1>2, StepOfOne

\* The fields of a call, by its operation.
LEMMA CallFields ==
    ASSUME TypeOK, NEW r \in Requests
    PROVE  /\ req[r].op = "create_ingestion" => req[r].key \in Keys /\ req[r].arg \in Source
           /\ req[r].op = "create_pipeline_chunk" =>
                 req[r].key \in Keys /\ req[r].arg \in [generation : Keys, ordinal : 0 .. MaxOrdinal]
           /\ req[r].op = "create" => req[r].key \in Keys /\ req[r].arg \in Required
           /\ req[r].op = "activate" => req[r].key \in Keys /\ req[r].arg \in Policies
           /\ req[r].pc \in Running \cup Finished
BY DEF TypeOK, Typed, Call

LEMMA ListedTyped ==
    ASSUME NEW catalog \in [Objects -> Seq(Version)], NEW S \in SUBSET Objects
    PROVE  {<<o, Current(catalog, o)>> : o \in S} \in Pinnable
BY DEF Current, Pinnable

\* What a call in flight relies on to write well-typed rows.
Ready ==
    \A r \in Requests :
        /\ req[r].op = "create_pipeline_chunk" =>
              /\ req[r].pc \in {"lock", "flush", "commit"} => req[r].arg.ordinal > 0
              /\ req[r].pc \in {"flush", "commit"} =>
                    /\ ingestions[req[r].arg.generation] # None
                    /\ req[r].seen = ingestions[req[r].arg.generation].chunk_count
        /\ req[r].op = "activate" =>
              /\ req[r].pc \in {"read", "commit"} => setup # None /\ setup.activation_key = None
              /\ req[r].pc = "commit" => req[r].seen \in Pinnable
        /\ req[r].op = "get_profile" /\ req[r].pc = "get" => req[r].seen \in Pinnable

LEMMA KnowledgeTypeOK ==
    ASSUME TypeOK, Ready, NEW r \in Requests, KnowledgeStep(r), UNCHANGED setup
    PROVE  TypeOK'
<1> USE DEF canonicalVars, knowledgeVars, Running, Finished, At
<1>0. req' = [s \in Requests |-> req'[s]] /\ \A s \in Requests : Typed(req'[s])
  <2>1. CASE LookUpIngestion(r)
      BY <2>1, GotoTyped, AnswerTyped, CallFields DEF LookUpIngestion, TypeOK, Ingestion
  <2>2. CASE ReadSource(r)
      BY <2>2, GotoTyped DEF ReadSource
  <2>3. CASE FlushIngestion(r)
      BY <2>3, GotoTyped DEF FlushIngestion
  <2>4. CASE CommitIngestion(r)
      BY <2>4, AnswerTyped DEF CommitIngestion
  <2>5. CASE LookUpChunk(r)
      BY <2>5, GotoTyped, AnswerTyped DEF LookUpChunk, TypeOK, Chunk
  <2>6. CASE LockGeneration(r)
    <3>1. CASE Goto(r, "refused")
        BY <3>1, GotoTyped
    <3>2. CASE /\ ingestions[req[r].arg.generation] # None
               /\ req' = [req EXCEPT ![r].pc = "flush",
                              ![r].seen = ingestions[req[r].arg.generation].chunk_count]
      <4>1. ingestions[req[r].arg.generation].chunk_count \in Nat
          BY <2>6, <3>2, CallFields DEF LockGeneration, TypeOK, Ingestion
      <4>3. req[r] \in Call("create_pipeline_chunk", Keys,
                            [generation : Keys, ordinal : 0 .. MaxOrdinal], Nat,
                            Requests \cup {None})
          BY <2>6 DEF LockGeneration, TypeOK, Typed
      <4>2. Typed([req[r] EXCEPT !.pc = "flush",
                                 !.seen = ingestions[req[r].arg.generation].chunk_count])
          BY <4>1, <4>3 DEF Typed, Call
      <4> QED BY <3>2, <4>2, StepOfOne
    <3> QED BY <2>6, <3>1, <3>2 DEF LockGeneration
  <2>7. CASE FlushChunk(r)
      BY <2>7, GotoTyped DEF FlushChunk
  <2>8. CASE CommitChunk(r)
      BY <2>8, AnswerTyped DEF CommitChunk
  <2> QED BY <2>1, <2>2, <2>3, <2>4, <2>5, <2>6, <2>7, <2>8 DEF KnowledgeStep
<1>1. CASE CommitIngestion(r)
  <2>1. ingestions' \in [Keys -> Ingestion \cup {None}]
      BY <1>1, CallFields DEF CommitIngestion, TypeOK, Ingestion
  <2> QED BY <1>0, <1>1, <2>1 DEF CommitIngestion, TypeOK
<1>2. CASE CommitChunk(r)
  <2> DEFINE g == req[r].arg.generation
  <2>1. g \in Keys /\ ingestions[g] \in Ingestion /\ req[r].seen = ingestions[g].chunk_count
      BY <1>2, CallFields DEF CommitChunk, Ready, TypeOK
  <2>2. req[r].seen + 1 \in Nat
      BY <2>1 DEF Ingestion
  <2>3. ingestions' \in [Keys -> Ingestion \cup {None}]
      BY <1>2, <2>1, <2>2 DEF CommitChunk, TypeOK, Ingestion
  <2>4. req[r].arg.ordinal \in 1 .. MaxOrdinal /\ req[r].key \in Keys
      BY <1>2, CallFields, OrdinalAssumption DEF CommitChunk, Ready
  <2>5. chunks' \subseteq Chunk
      BY <1>2, <2>1, <2>4 DEF CommitChunk, TypeOK, Chunk
  <2> QED BY <1>0, <1>2, <2>3, <2>5 DEF CommitChunk, TypeOK
<1>3. CASE UNCHANGED knowledgeVars
  <2>1. UNCHANGED canonicalVars
      BY DEF KnowledgeStep, LookUpIngestion, ReadSource, FlushIngestion, CommitIngestion,
             LookUpChunk, LockGeneration, FlushChunk, CommitChunk
  <2> QED BY <1>0, <1>3, <2>1 DEF TypeOK
<1> QED BY <1>1, <1>2, <1>3 DEF KnowledgeStep, LookUpIngestion, ReadSource, FlushIngestion,
                                LookUpChunk, LockGeneration, FlushChunk

\* A setup that is written stays one.
LEMMA SetupWritten ==
    ASSUME TypeOK, Ready, NEW r \in Requests,
           CommitSetup(r) \/ BlockActivation(r) \/ CommitActivation(r)
    PROVE  setup' \in Setup /\ setup' # None
<1> USE DEF At
<1>1. CASE CommitSetup(r)
    BY <1>1, CallFields, SetupAssumption DEF CommitSetup, Draft, Setup
<1>2. CASE BlockActivation(r)
  <2>1. setup' \in Setup
      BY <1>2 DEF BlockActivation, TypeOK, Ready, Setup
  <2> QED BY <2>1, SetupAssumption
<1>3. CASE CommitActivation(r)
  <2> DEFINE pinned == {pair \in req[r].seen : TypeOf[pair[1]] \in setup.required}
  <2>1. req[r].seen \in Pinnable /\ req[r].key \in Keys /\ req[r].arg \in Policies
      BY <1>3, CallFields DEF CommitActivation, Ready, TypeOK, Typed, Call
  <2>2. pinned \in SUBSET (Objects \X Nat)
      BY <2>1 DEF Pinnable
  <2>3. setup \in Setup
      BY <1>3 DEF CommitActivation, Ready, TypeOK
  <2>4. setup' = [by |-> setup.by, key |-> setup.key, required |-> setup.required,
                  status |-> "active", activation_version |-> setup.activation_version + 1,
                  activation_key |-> req[r].key, policy |-> req[r].arg, pinned |-> pinned]
      BY <1>3, <2>3 DEF CommitActivation, Setup
  <2>5. setup.activation_version + 1 \in Nat
      BY <2>3 DEF Setup
  <2> HIDE DEF pinned
  <2>6. setup' \in Setup
      BY <2>1, <2>2, <2>3, <2>4, <2>5 DEF Setup
  <2> QED BY <2>6, SetupAssumption
<1> QED BY <1>1, <1>2, <1>3

LEMMA OnboardingTypeOK ==
    ASSUME TypeOK, Ready, NEW r \in Requests, OnboardingStep(r), UNCHANGED knowledgeVars
    PROVE  TypeOK'
<1> USE DEF canonicalVars, knowledgeVars, Running, Finished, At
<1>1. ActiveIn(versions) \in Pinnable
      /\ {<<o, Current(versions, o)>> : o \in {p \in Objects : Exists(versions, p)}} \in Pinnable
    BY ListedTyped DEF ActiveIn, TypeOK
<1>2. req' = [s \in Requests |-> req'[s]] /\ \A s \in Requests : Typed(req'[s])
  <2>1. CASE LookUpSetup(r)
      BY <2>1, GotoTyped, AnswerTyped DEF LookUpSetup, TypeOK, Setup
  <2>2. CASE FlushSetup(r)
      BY <2>2, GotoTyped DEF FlushSetup
  <2>3. CASE CommitSetup(r)
      BY <2>3, AnswerTyped DEF CommitSetup
  <2>4. CASE LockSetup(r)
    <3>1. setup.activation_key # None /\ setup # None => setup.pinned \in Pinnable
        BY DEF TypeOK, Setup, Pinnable
    <3> QED BY <2>4, <3>1, GotoTyped, AnswerTyped DEF LockSetup, JudgeActivation
  <2>5. CASE ReadActive(r)
    <3>1. req[r] \in Call("activate", Keys, Policies, Pinnable, Pinnable \cup {None})
        BY <2>5 DEF ReadActive, TypeOK, Typed
    <3>2. Typed([req[r] EXCEPT !.pc = "commit", !.seen = ActiveIn(versions)])
        BY <1>1, <3>1 DEF Typed, Call
    <3>3. req' = [req EXCEPT ![r] = [req[r] EXCEPT !.pc = "commit", !.seen = ActiveIn(versions)]]
        BY <2>5 DEF ReadActive, TypeOK
    <3> QED BY <3>2, <3>3, StepOfOne
  <2>6. CASE BlockActivation(r)
      BY <2>6, GotoTyped DEF BlockActivation
  <2>7. CASE CommitActivation(r)
    <3>1. req[r] \in Call("activate", Keys, Policies, Pinnable, Pinnable \cup {None})
          /\ req[r].seen \in Pinnable
        BY <2>7 DEF CommitActivation, Ready, TypeOK, Typed
    <3>2. {pair \in req[r].seen : TypeOf[pair[1]] \in setup.required} \in Pinnable
        BY <3>1 DEF Call, Pinnable
    <3> QED BY <2>7, <3>2, AnswerTyped DEF CommitActivation
  <2>8. CASE ListObjects(r)
    <3> DEFINE listed == {<<o, Current(versions, o)>> : o \in {p \in Objects : Exists(versions, p)}}
    <3>1. req[r] \in Call("get_profile", {None}, {None}, Pinnable, Pinnable)
        BY <2>8 DEF ListObjects, TypeOK, Typed
    <3>2. ASSUME NEW x \in Pinnable PROVE Typed([req[r] EXCEPT !.pc = "get", !.seen = x])
        BY <3>1 DEF Typed, Call
    <3>3. req' = [req EXCEPT ![r] = [req[r] EXCEPT !.pc = "get", !.seen = listed]]
        BY <2>8 DEF ListObjects, TypeOK
    <3>4. Typed([req[r] EXCEPT !.pc = "get", !.seen = listed])
        BY <1>1, <3>2
    <3> HIDE DEF listed
    <3> QED BY <3>3, <3>4, StepOfOne
  <2>9. CASE GetObject(r)
    <3>1. req[r] \in Call("get_profile", {None}, {None}, Pinnable, Pinnable)
          /\ req[r].seen \in Pinnable
        BY <2>9 DEF GetObject, Ready, TypeOK, Typed
    <3>2. PICK pair \in req[r].seen :
              req' = [req EXCEPT ![r].seen = @ \ {pair},
                                 ![r].answer = @ \cup {VersionToShow(pair)}]
        BY <2>9 DEF GetObject
    <3>3. Typed([req[r] EXCEPT !.seen = @ \ {pair}, !.answer = @ \cup {pair}])
        BY <3>1, <3>2 DEF Typed, Call, Pinnable
    <3>4. req' = [req EXCEPT ![r] = [req[r] EXCEPT !.seen = @ \ {pair}, !.answer = @ \cup {pair}]]
        BY <3>2 DEF VersionToShow, TypeOK
    <3> QED BY <3>3, <3>4, StepOfOne
  <2>10. CASE EndProfile(r)
      BY <2>10, GotoTyped DEF EndProfile
  <2> QED BY <2>1, <2>2, <2>3, <2>4, <2>5, <2>6, <2>7, <2>8, <2>9, <2>10 DEF OnboardingStep
<1>3. setup' \in Setup \cup {None}
  <2>1. CASE CommitSetup(r) \/ BlockActivation(r) \/ CommitActivation(r)
      BY <2>1, SetupWritten
  <2>2. CASE UNCHANGED setup
      BY <2>2 DEF TypeOK
  <2> QED BY <2>1, <2>2
          DEF OnboardingStep, LookUpSetup, FlushSetup, LockSetup, ReadActive, ListObjects,
              GetObject, EndProfile
<1>4. UNCHANGED canonicalVars
    BY DEF OnboardingStep, LookUpSetup, FlushSetup, CommitSetup, LockSetup, ReadActive,
           BlockActivation, CommitActivation, ListObjects, GetObject, EndProfile
<1> QED BY <1>2, <1>3, <1>4 DEF TypeOK

LEMMA EditTypeOK ==
    ASSUME TypeOK,
           \/ \E o \in Objects, v \in Edits : OwnerEdit(o, v)
           \/ \E key \in FreeKeys : OwnerEditElsewhere(key),
           UNCHANGED <<knowledgeVars, setup>>
    PROVE  TypeOK'
<1>1. ASSUME NEW o \in Objects, NEW v \in Edits, OwnerEdit(o, v) PROVE TypeOK'
  <2>1. v \in Version
    <3>1. Published \in Version
        BY DEF Published, Version
    <3>2. Archived \in Version
        BY DEF Archived, Version
    <3>3. Unfit \in Version
        BY DEF Unfit, Version
    <3> QED BY <3>1, <3>2, <3>3 DEF Edits
  <2>2. versions' \in [Objects -> Seq(Version)]
      BY <1>1, <2>1 DEF OwnerEdit, TypeOK
  <2>3. edits' \in 0 .. MaxEdits
      BY <1>1, EditAssumption DEF OwnerEdit, TypeOK
  <2> QED BY <1>1, <2>2, <2>3 DEF OwnerEdit, TypeOK, knowledgeVars
<1>2. ASSUME NEW key \in FreeKeys, OwnerEditElsewhere(key) PROVE TypeOK'
  <2>1. edits' \in 0 .. MaxEdits
      BY <1>2, EditAssumption DEF OwnerEditElsewhere, TypeOK
  <2> QED BY <1>2, <2>1 DEF OwnerEditElsewhere, TypeOK, knowledgeVars, FreeKeys
<1> QED BY <1>1, <1>2

LEMMA StepTypeOK == TypeOK /\ Ready /\ [Next]_vars => TypeOK'
<1> SUFFICES ASSUME TypeOK, Ready, [Next]_vars PROVE TypeOK'
    OBVIOUS
<1>1. ASSUME NEW r \in Requests, KnowledgeStep(r), UNCHANGED setup PROVE TypeOK'
    BY <1>1, KnowledgeTypeOK
<1>2. ASSUME NEW r \in Requests, OnboardingStep(r), UNCHANGED knowledgeVars PROVE TypeOK'
    BY <1>2, OnboardingTypeOK
<1>3. ASSUME NEW r \in Requests, Abort(r), UNCHANGED <<canonicalVars, knowledgeVars, setup>>
      PROVE TypeOK'
    BY <1>3, GotoTyped DEF Abort, Finished, TypeOK, canonicalVars, knowledgeVars
<1>4. CASE UNCHANGED vars
    BY <1>4 DEF vars, TypeOK
<1> QED BY <1>1, <1>2, <1>3, <1>4, EditTypeOK DEF Next

-----------------------------------------------------------------------------
(* Knowledge.  An insert that has passed its unique constraints finds them   *)
(* free at its commit too, because whoever inserts the same waits; and the   *)
(* count read under the generation's lock is still the count at the commit.  *)

KnowledgeOps == {"create_ingestion", "create_pipeline_chunk"}

Ingesting(r) == req[r].op = "create_ingestion" =>
    /\ req[r].pc \in {"flush", "commit"} => \E c \in past : Eligible(c, req[r].arg)
    /\ req[r].pc = "commit" => ingestions[req[r].key] = None
    /\ req[r].pc \in {"done", "replayed"} =>
          ingestions[req[r].key] # None /\ req[r].answer = ingestions[req[r].key].by

Chunking(r) == req[r].op = "create_pipeline_chunk" =>
    /\ req[r].pc \in {"lock", "flush", "commit"} => req[r].arg.ordinal > 0
    /\ req[r].pc \in {"flush", "commit"} =>
          /\ ingestions[req[r].arg.generation] # None
          /\ req[r].seen = ingestions[req[r].arg.generation].chunk_count
    /\ req[r].pc = "commit" => \A c \in chunks : c.key # req[r].key /\ ~SameChunk(c, req[r].arg)
    /\ req[r].pc \in {"done", "replayed"} =>
          \E c \in chunks : c.key = req[r].key /\ c.by = req[r].answer

\* No two calls are about to insert one ingestion, or one chunk key, or hold one lock.
Apart(r, s) == r # s =>
    /\ At(r, "create_ingestion", "commit") /\ At(s, "create_ingestion", "commit") =>
          req[r].key # req[s].key
    /\ At(r, "create_pipeline_chunk", "commit") /\ At(s, "create_pipeline_chunk", "commit") =>
          req[r].key # req[s].key
    /\ Building(r, req[r].arg.generation) /\ Building(s, req[s].arg.generation) =>
          req[r].arg.generation # req[s].arg.generation

LinksOf(links, g) == {c \in links : c.generation = g}

Counted == \A g \in Keys :
    IF ingestions[g] = None THEN LinksOf(chunks, g) = {}
    ELSE /\ ingestions[g].chunk_count = Cardinality(LinksOf(chunks, g))
         /\ ingestions[g].status = "pending" <=> LinksOf(chunks, g) = {}

Unique == \A c, d \in chunks : c # d =>
    c.key # d.key /\ (c.generation = d.generation => c.ordinal # d.ordinal)

Sources == \A k \in Keys : ingestions[k] # None =>
    \E c \in past : Eligible(c, ingestions[k].source)

CallsInv ==
    /\ \A r \in Requests : Ingesting(r) /\ Chunking(r)
    /\ \A r, s \in Requests : Apart(r, s)

KnowledgeInv == CallsInv /\ Counted /\ Unique /\ Sources /\ IsFiniteSet(chunks)

LEMMA RowsKept ==
    ASSUME Counted, Unique, Sources, IsFiniteSet(chunks), ingestions' = ingestions,
           chunks' = chunks, past \subseteq past'
    PROVE  Counted' /\ Unique' /\ Sources' /\ IsFiniteSet(chunks)'
<1>1. \A g : LinksOf(chunks', g) = LinksOf(chunks, g)
    BY DEF LinksOf
<1>2. Counted'
    BY <1>1 DEF Counted
<1>3. Unique'
    BY DEF Unique
<1>4. Sources'
    BY DEF Sources
<1> QED BY <1>2, <1>3, <1>4

\* Steps of other operations, and calls that end without a row.
LEMMA KnowledgeFrame ==
    ASSUME TypeOK, KnowledgeInv, ingestions' = ingestions, chunks' = chunks,
           past \subseteq past',
           \A s \in Requests :
              \/ req'[s] = req[s]
              \/ /\ req'[s].op = req[s].op
                 /\ req[s].op \notin KnowledgeOps \/ req'[s].pc \in {"aborted", "refused"}
    PROVE  KnowledgeInv'
<1>1. ASSUME NEW s \in Requests PROVE Ingesting(s)' /\ Chunking(s)'
  <2>1. CASE req'[s] = req[s]
      BY <2>1 DEF KnowledgeInv, CallsInv, Ingesting, Chunking
  <2>2. CASE req'[s] # req[s]
      BY <2>2 DEF KnowledgeOps, Ingesting, Chunking
  <2> QED BY <2>1, <2>2
<1>2. ASSUME NEW s \in Requests, NEW t \in Requests PROVE Apart(s, t)'
  <2>1. CASE req'[s] = req[s] /\ req'[t] = req[t]
      BY <2>1 DEF KnowledgeInv, CallsInv, Apart, At, Building
  <2>2. CASE req'[s] # req[s]
      BY <2>2 DEF KnowledgeOps, Apart, At, Building
  <2>3. CASE req'[t] # req[t]
      BY <2>3 DEF KnowledgeOps, Apart, At, Building
  <2> QED BY <2>1, <2>2, <2>3
<1> QED BY <1>1, <1>2, RowsKept DEF KnowledgeInv, CallsInv

\* The calls' part, for a step of r that changes no row.
LEMMA CallsFrame ==
    ASSUME CallsInv, ingestions' = ingestions, chunks' = chunks, past' = past,
           NEW r \in Requests, \A s \in Requests \ {r} : req'[s] = req[s],
           Ingesting(r)', Chunking(r)', \A s \in Requests \ {r} : Apart(r, s)'
    PROVE  CallsInv'
<1>1. ASSUME NEW s \in Requests \ {r} PROVE Ingesting(s)' /\ Chunking(s)'
    BY DEF CallsInv, Ingesting, Chunking
<1>2. ASSUME NEW s \in Requests, NEW t \in Requests PROVE Apart(s, t)'
  <2>1. CASE s # r /\ t # r
      BY <2>1 DEF CallsInv, Apart, At, Building
  <2>2. CASE s = r
      BY <2>2 DEF Apart
  <2>3. CASE s # r /\ t = r
    <3>1. Apart(r, s)'
        BY <2>3
    <3> QED BY <2>3, <3>1 DEF Apart, At, Building
  <2> QED BY <2>1, <2>2, <2>3
<1> QED BY <1>1, <1>2 DEF CallsInv

\* The rest of the step of r is what it does to req[r].
LEMMA KnowledgeGoto ==
    ASSUME TypeOK, KnowledgeInv, NEW r \in Requests, NEW pc, Goto(r, pc),
           ingestions' = ingestions, chunks' = chunks, past' = past,
           \/ pc \in {"refused", "aborted"}
           \/ At(r, "create_ingestion", "begin") /\ pc = "read"
           \/ At(r, "create_ingestion", "read") /\ pc = "flush" /\ versions \in past
                 /\ Eligible(versions, req[r].arg)
           \/ At(r, "create_ingestion", "flush") /\ pc = "commit"
                 /\ ingestions[req[r].key] = None
                 /\ ~\E s \in Requests : At(s, "create_ingestion", "commit")
                                         /\ req[s].key = req[r].key
           \/ At(r, "create_pipeline_chunk", "begin") /\ pc = "lock" /\ req[r].arg.ordinal > 0
           \/ At(r, "create_pipeline_chunk", "flush") /\ pc = "commit"
                 /\ ~Taken(req[r].key, req[r].arg)
                 /\ ~\E s \in Requests : At(s, "create_pipeline_chunk", "commit")
                                         /\ req[s].key = req[r].key
    PROVE  KnowledgeInv'
<1>1. /\ \A s \in Requests \ {r} : req'[s] = req[s]
      /\ req'[r] = [req[r] EXCEPT !.pc = pc]
    BY DEF Goto, TypeOK
<1>2. /\ req'[r].op = req[r].op /\ req'[r].pc = pc /\ req'[r].key = req[r].key
      /\ req'[r].arg = req[r].arg /\ req'[r].seen = req[r].seen
      /\ req'[r].answer = req[r].answer
    BY <1>1 DEF TypeOK, Typed, Call
<1>3. Ingesting(r) /\ Chunking(r) /\ \A s \in Requests : Apart(r, s)
    BY DEF KnowledgeInv, CallsInv
<1>4. Ingesting(r)'
    BY <1>2, <1>3 DEF Ingesting, At
<1>5. Chunking(r)'
    BY <1>2, <1>3 DEF Chunking, Taken, At
<1>6. ASSUME NEW s \in Requests \ {r} PROVE Apart(r, s)'
    BY <1>1, <1>2, <1>3 DEF Apart, Building, At
<1>7. CallsInv'
    BY <1>1, <1>4, <1>5, <1>6, CallsFrame DEF KnowledgeInv
<1> QED BY <1>7, RowsKept DEF KnowledgeInv

LEMMA KnowledgeAnswer ==
    ASSUME TypeOK, KnowledgeInv, NEW r \in Requests, NEW answer, Answer(r, "replayed", answer),
           ingestions' = ingestions, chunks' = chunks, past' = past,
           \/ /\ req[r].op = "create_ingestion"
              /\ ingestions[req[r].key] # None /\ answer = ingestions[req[r].key].by
           \/ /\ req[r].op = "create_pipeline_chunk"
              /\ \E c \in chunks : c.key = req[r].key /\ c.by = answer
    PROVE  KnowledgeInv'
<1>1. /\ \A s \in Requests \ {r} : req'[s] = req[s]
      /\ req'[r] = [req[r] EXCEPT !.pc = "replayed", !.answer = answer]
    BY DEF Answer, TypeOK
<1>2. /\ req'[r].op = req[r].op /\ req'[r].pc = "replayed" /\ req'[r].key = req[r].key
      /\ req'[r].arg = req[r].arg /\ req'[r].answer = answer
    BY <1>1 DEF TypeOK, Typed, Call
<1>3. Ingesting(r)' /\ Chunking(r)'
    BY <1>2 DEF Ingesting, Chunking
<1>4. ASSUME NEW s \in Requests \ {r} PROVE Apart(r, s)'
    BY <1>2 DEF Apart, Building, At
<1>5. CallsInv'
    BY <1>1, <1>3, <1>4, CallsFrame DEF KnowledgeInv
<1> QED BY <1>5, RowsKept DEF KnowledgeInv

LEMMA CommitIngestionInv ==
    ASSUME TypeOK, KnowledgeInv, NEW r \in Requests, CommitIngestion(r)
    PROVE  KnowledgeInv'
<1> DEFINE k == req[r].key
<1>1. /\ req[r].op = "create_ingestion" /\ req[r].pc = "commit" /\ k \in Keys
      /\ ingestions[k] = None /\ \E c \in past : Eligible(c, req[r].arg)
      /\ \A s \in Requests : Ingesting(s) /\ Chunking(s) /\ Apart(r, s)
    BY CallFields DEF CommitIngestion, KnowledgeInv, CallsInv, Ingesting, At
<1>2. /\ \A s \in Requests \ {r} : req'[s] = req[s]
      /\ req'[r] = [req[r] EXCEPT !.pc = "done", !.answer = r]
    BY DEF CommitIngestion, Answer, TypeOK
<1>3. /\ req'[r].op = req[r].op /\ req'[r].pc = "done" /\ req'[r].key = k
      /\ req'[r].answer = r /\ req'[r].arg = req[r].arg
    BY <1>2 DEF TypeOK, Typed, Call
<1>4. ingestions' = [ingestions EXCEPT ![k] =
          [by |-> r, source |-> req[r].arg, status |-> "pending", chunk_count |-> 0]]
    BY DEF CommitIngestion
<1>5. /\ \A j \in Keys \ {k} : ingestions'[j] = ingestions[j]
      /\ ingestions'[k].by = r /\ ingestions'[k].source = req[r].arg
      /\ ingestions'[k].status = "pending" /\ ingestions'[k].chunk_count = 0
    BY <1>1, <1>4 DEF TypeOK
<1>6. ingestions'[k] # None
  <2>1. ingestions'[k] \in Ingestion
      BY <1>1, <1>4, CallFields DEF TypeOK, Ingestion
  <2> QED BY <2>1, IngestionAssumption
<1>7. chunks' = chunks /\ past' = past
    BY DEF CommitIngestion, canonicalVars
<1> HIDE DEF k
<1>8. ASSUME NEW s \in Requests PROVE Ingesting(s)' /\ Chunking(s)'
  <2>1. CASE s = r
      BY <1>1, <1>3, <1>5, <1>6, <2>1 DEF Ingesting, Chunking
  <2>2. CASE s # r
    <3>1. req'[s] = req[s] /\ Ingesting(s) /\ Chunking(s) /\ Apart(r, s)
        BY <1>1, <1>2, <2>2
    <3>2. CASE req[s].op = "create_ingestion"
      <4>1. req[s].key \in Keys
          BY <3>2, CallFields
      <4>2. req[s].pc = "commit" => req[s].key # k
          BY <1>1, <2>2, <3>1, <3>2 DEF Apart, At, k
      <4> QED BY <1>1, <1>5, <1>6, <1>7, <3>1, <3>2, <4>1, <4>2 DEF Ingesting, Chunking
    <3>3. CASE req[s].op = "create_pipeline_chunk"
      <4>1. req[s].arg.generation \in Keys
          BY <3>3, CallFields
      <4> QED BY <1>1, <1>5, <1>7, <3>1, <3>3, <4>1 DEF Ingesting, Chunking
    <3> QED BY <3>1, <3>2, <3>3 DEF Ingesting, Chunking
  <2> QED BY <2>1, <2>2
<1>9. ASSUME NEW s \in Requests, NEW t \in Requests PROVE Apart(s, t)'
  <2>1. CASE s # r /\ t # r
      BY <1>2, <2>1 DEF KnowledgeInv, CallsInv, Apart, At, Building
  <2>2. CASE s = r \/ t = r
      BY <1>1, <1>3, <2>2 DEF Apart, At, Building
  <2> QED BY <2>1, <2>2
<1>10. Counted'
  <2>1. LinksOf(chunks, k) = {}
      BY <1>1 DEF KnowledgeInv, Counted, k
  <2>2. \A g : LinksOf(chunks', g) = LinksOf(chunks, g)
      BY <1>7 DEF LinksOf
  <2>3. ASSUME NEW j \in Keys
        PROVE  IF ingestions'[j] = None THEN LinksOf(chunks', j) = {}
               ELSE /\ ingestions'[j].chunk_count = Cardinality(LinksOf(chunks', j))
                    /\ ingestions'[j].status = "pending" <=> LinksOf(chunks', j) = {}
    <3>1. CASE j = k
        BY <1>5, <1>6, <2>1, <2>2, <3>1, FS_EmptySet
    <3>2. CASE j # k
        BY <1>5, <2>2, <3>2 DEF KnowledgeInv, Counted
    <3> QED BY <3>1, <3>2
  <2> QED BY <2>3 DEF Counted
<1>11. Sources'
  <2>1. ASSUME NEW j \in Keys, ingestions'[j] # None
        PROVE  \E c \in past' : Eligible(c, ingestions'[j].source)
    <3>1. CASE j = k
        BY <1>1, <1>5, <1>7, <3>1
    <3>2. CASE j # k
        BY <1>5, <1>7, <2>1, <3>2 DEF KnowledgeInv, Sources
    <3> QED BY <3>1, <3>2
  <2> QED BY <2>1 DEF Sources
<1> QED BY <1>7, <1>8, <1>9, <1>10, <1>11 DEF KnowledgeInv, CallsInv, Unique

LEMMA LockGenerationInv ==
    ASSUME TypeOK, KnowledgeInv, NEW r \in Requests, LockGeneration(r)
    PROVE  KnowledgeInv'
<1> DEFINE g == req[r].arg.generation
<1>1. /\ req[r].op = "create_pipeline_chunk" /\ req[r].pc = "lock"
      /\ ingestions' = ingestions /\ chunks' = chunks /\ past' = past
    BY DEF LockGeneration, canonicalVars, knowledgeVars, At
<1>2. CASE Goto(r, "refused")
    BY <1>1, <1>2, KnowledgeGoto
<1>3. CASE /\ ingestions[g] # None /\ ~\E s \in Requests : Building(s, g)
           /\ req' = [req EXCEPT ![r].pc = "flush", ![r].seen = ingestions[g].chunk_count]
  <2>1. /\ \A s \in Requests \ {r} : req'[s] = req[s]
        /\ req'[r] = [req[r] EXCEPT !.pc = "flush", !.seen = ingestions[g].chunk_count]
      BY <1>3 DEF TypeOK
  <2>2. /\ req'[r].op = req[r].op /\ req'[r].pc = "flush" /\ req'[r].key = req[r].key
        /\ req'[r].arg = req[r].arg /\ req'[r].seen = ingestions[g].chunk_count
      BY <2>1 DEF TypeOK, Typed, Call
  <2>3. Ingesting(r)' /\ Chunking(r)'
      BY <1>1, <1>3, <2>2 DEF KnowledgeInv, CallsInv, Ingesting, Chunking
  <2>4. ASSUME NEW s \in Requests \ {r} PROVE Apart(r, s)'
      BY <1>1, <1>3, <2>1, <2>2 DEF Apart, Building, At
  <2>5. CallsInv'
      BY <1>1, <2>1, <2>3, <2>4, CallsFrame DEF KnowledgeInv
  <2> QED BY <1>1, <2>5, RowsKept DEF KnowledgeInv
<1> QED BY <1>2, <1>3 DEF LockGeneration

LEMMA CommitChunkInv ==
    ASSUME TypeOK, KnowledgeInv, NEW r \in Requests, CommitChunk(r)
    PROVE  KnowledgeInv'
<1> DEFINE g == req[r].arg.generation
           new == [by |-> r, key |-> req[r].key, generation |-> g, ordinal |-> req[r].arg.ordinal]
<1>1. /\ req[r].op = "create_pipeline_chunk" /\ req[r].pc = "commit"
      /\ \A s \in Requests : Ingesting(s) /\ Chunking(s) /\ Apart(r, s)
    BY DEF CommitChunk, KnowledgeInv, CallsInv, At
<1>2. /\ g \in Keys /\ ingestions[g] \in Ingestion /\ ingestions[g] # None
      /\ req[r].seen = ingestions[g].chunk_count
      /\ \A c \in chunks : c.key # req[r].key /\ ~SameChunk(c, req[r].arg)
    BY <1>1, CallFields DEF Chunking, TypeOK
<1>3. /\ \A s \in Requests \ {r} : req'[s] = req[s]
      /\ req'[r] = [req[r] EXCEPT !.pc = "done", !.answer = r]
    BY DEF CommitChunk, Answer, TypeOK
<1>4. /\ req'[r].op = req[r].op /\ req'[r].pc = "done" /\ req'[r].key = req[r].key
      /\ req'[r].answer = r /\ req'[r].arg = req[r].arg
    BY <1>3 DEF TypeOK, Typed, Call
<1>5. /\ \A j \in Keys \ {g} : ingestions'[j] = ingestions[j]
      /\ ingestions'[g] = [ingestions[g] EXCEPT !.status = "building",
                                                !.chunk_count = req[r].seen + 1]
    BY <1>2 DEF CommitChunk, TypeOK
<1>6. /\ ingestions'[g].by = ingestions[g].by /\ ingestions'[g].source = ingestions[g].source
      /\ ingestions'[g].status = "building" /\ ingestions'[g].chunk_count = req[r].seen + 1
    BY <1>2, <1>5 DEF Ingestion
<1>7. ingestions'[g] # None
  <2>1. req[r].seen + 1 \in Nat
      BY <1>2 DEF Ingestion
  <2>2. ingestions'[g] \in Ingestion
      BY <1>2, <1>5, <2>1 DEF Ingestion
  <2> QED BY <2>2, IngestionAssumption
<1>8. chunks' = chunks \cup {new} /\ past' = past
    BY DEF CommitChunk, canonicalVars
<1>9. /\ new.key = req[r].key /\ new.by = r /\ new.generation = g
      /\ new.ordinal = req[r].arg.ordinal
    OBVIOUS
<1> HIDE DEF g, new
<1>10. ASSUME NEW j \in Keys, ingestions[j] # None
       PROVE  /\ ingestions'[j] # None /\ ingestions'[j].by = ingestions[j].by
              /\ ingestions'[j].source = ingestions[j].source
    BY <1>5, <1>6, <1>7, <1>10
<1>11. ASSUME NEW s \in Requests PROVE Ingesting(s)' /\ Chunking(s)'
  <2>1. CASE s = r
      BY <1>1, <1>4, <1>8, <1>9, <2>1 DEF Ingesting, Chunking
  <2>2. CASE s # r
    <3>1. req'[s] = req[s] /\ Ingesting(s) /\ Chunking(s) /\ Apart(r, s)
        BY <1>1, <1>3, <2>2
    <3>2. CASE req[s].op = "create_ingestion"
      <4>1. req[s].key \in Keys
          BY <3>2, CallFields
      <4>2. req[s].pc = "commit" => ingestions'[req[s].key] = None
          BY <1>2, <1>5, <3>1, <3>2, <4>1 DEF Ingesting
      <4> QED BY <1>8, <1>10, <3>1, <3>2, <4>1, <4>2 DEF Ingesting, Chunking
    <3>3. CASE req[s].op = "create_pipeline_chunk"
      <4>1. req[s].arg.generation \in Keys
          BY <3>3, CallFields
      <4>2. req[s].pc \in {"flush", "commit"} => req[s].arg.generation # g
          BY <1>1, <2>2, <3>1, <3>3 DEF Apart, Building, g
      <4>3. req[s].pc = "commit" => new.key # req[s].key /\ ~SameChunk(new, req[s].arg)
          BY <1>1, <1>9, <2>2, <3>1, <3>3, <4>2 DEF Apart, SameChunk, At
      <4>4. req[s].pc \in {"flush", "commit"} =>
                /\ ingestions'[req[s].arg.generation] # None
                /\ req[s].seen = ingestions'[req[s].arg.generation].chunk_count
          BY <1>5, <3>1, <3>3, <4>1, <4>2 DEF Chunking
      <4>5. Ingesting(s)'
          BY <3>1, <3>3 DEF Ingesting
      <4> QED BY <1>8, <3>1, <3>3, <4>3, <4>4, <4>5 DEF Chunking
    <3> QED BY <3>1, <3>2, <3>3 DEF Ingesting, Chunking
  <2> QED BY <2>1, <2>2
<1>12. ASSUME NEW s \in Requests, NEW t \in Requests PROVE Apart(s, t)'
  <2>1. CASE s # r /\ t # r
      BY <1>3, <2>1 DEF KnowledgeInv, CallsInv, Apart, At, Building
  <2>2. CASE s = r \/ t = r
      BY <1>1, <1>4, <2>2 DEF Apart, At, Building
  <2> QED BY <2>1, <2>2
<1>13. ASSUME NEW c \in chunks
       PROVE  c.key # new.key /\ (c.generation = new.generation => c.ordinal # new.ordinal)
    BY <1>2, <1>9 DEF SameChunk, g
<1>14. Unique'
    BY <1>8, <1>13 DEF KnowledgeInv, Unique
<1>15. Counted'
  <2>1. ASSUME NEW j \in Keys \ {g} PROVE LinksOf(chunks', j) = LinksOf(chunks, j)
      BY <1>8, <1>9 DEF LinksOf
  <2>2. LinksOf(chunks', g) = LinksOf(chunks, g) \cup {new} /\ new \notin LinksOf(chunks, g)
    <3>1. new \notin chunks
        BY <1>13
    <3>2. ASSUME NEW c PROVE c \in LinksOf(chunks', g) <=> c \in LinksOf(chunks, g) \cup {new}
        BY <1>8, <1>9 DEF LinksOf
    <3>3. new \notin LinksOf(chunks, g)
        BY <3>1 DEF LinksOf
    <3> QED BY <3>2, <3>3
  <2>3. IsFiniteSet(LinksOf(chunks, g))
      BY FS_Subset DEF LinksOf, KnowledgeInv
  <2>4. Cardinality(LinksOf(chunks', g)) = Cardinality(LinksOf(chunks, g)) + 1
      BY <2>2, <2>3, FS_AddElement
  <2>5. ingestions[g].chunk_count = Cardinality(LinksOf(chunks, g))
      BY <1>2 DEF KnowledgeInv, Counted
  <2>6. ingestions'[g].chunk_count = Cardinality(LinksOf(chunks', g))
      BY <1>2, <1>6, <2>4, <2>5
  <2>7. ingestions'[g].status = "building" /\ LinksOf(chunks', g) # {}
      BY <1>6, <2>2
  <2>8. ASSUME NEW j \in Keys
        PROVE  IF ingestions'[j] = None THEN LinksOf(chunks', j) = {}
               ELSE /\ ingestions'[j].chunk_count = Cardinality(LinksOf(chunks', j))
                    /\ ingestions'[j].status = "pending" <=> LinksOf(chunks', j) = {}
    <3>1. CASE j = g
        BY <1>7, <2>6, <2>7, <3>1
    <3>2. CASE j # g
        BY <1>5, <2>1, <3>2 DEF KnowledgeInv, Counted
    <3> QED BY <3>1, <3>2
  <2> QED BY <2>8 DEF Counted
<1>16. Sources'
    BY <1>2, <1>5, <1>6, <1>8 DEF KnowledgeInv, Sources
<1>17. IsFiniteSet(chunks)'
    BY <1>8, FS_AddElement DEF KnowledgeInv
<1> QED BY <1>11, <1>12, <1>14, <1>15, <1>16, <1>17 DEF KnowledgeInv, CallsInv

LEMMA KnowledgeStepInv ==
    ASSUME TypeOK, KnowledgeInv, versions \in past, NEW r \in Requests, KnowledgeStep(r)
    PROVE  KnowledgeInv'
<1>1. CASE LookUpIngestion(r)
    BY <1>1, KnowledgeGoto, KnowledgeAnswer
       DEF LookUpIngestion, At, canonicalVars, knowledgeVars
<1>2. CASE ReadSource(r)
    BY <1>2, KnowledgeGoto DEF ReadSource, canonicalVars, knowledgeVars
<1>3. CASE FlushIngestion(r)
    BY <1>3, KnowledgeGoto DEF FlushIngestion, canonicalVars, knowledgeVars
<1>4. CASE CommitIngestion(r)
    BY <1>4, CommitIngestionInv
<1>5. CASE LookUpChunk(r)
    BY <1>5, KnowledgeGoto, KnowledgeAnswer, CallFields
       DEF LookUpChunk, At, canonicalVars, knowledgeVars
<1>6. CASE LockGeneration(r)
    BY <1>6, LockGenerationInv
<1>7. CASE FlushChunk(r)
    BY <1>7, KnowledgeGoto DEF FlushChunk, canonicalVars, knowledgeVars
<1>8. CASE CommitChunk(r)
    BY <1>8, CommitChunkInv
<1> QED BY <1>1, <1>2, <1>3, <1>4, <1>5, <1>6, <1>7, <1>8 DEF KnowledgeStep

-----------------------------------------------------------------------------
(* Onboarding.  Only the holder of the setup's lock activates it, and what it *)
(* read without a lock stays true of the moment it was read.                  *)

OnboardingOps == {"create", "activate", "get_profile"}

PinnedAt(catalog, types) == {p \in ActiveIn(catalog) : TypeOf[p[1]] \in types}
Listed(catalog) == {<<o, Current(catalog, o)>> : o \in {p \in Objects : Exists(catalog, p)}}

SetupInv == setup # None =>
    /\ setup.status = "active" <=> setup.activation_key # None
    /\ setup.status = "active" =>
          \E c \in past : /\ setup.pinned = PinnedAt(c, setup.required)
                         /\ Covers(setup.pinned, setup.required)

Creating(r) == req[r].op = "create" =>
    /\ req[r].pc = "commit" => setup = None
    /\ req[r].pc \in {"done", "replayed"} =>
          setup # None /\ req[r].key = setup.key /\ req[r].answer = setup.by

Activates(r) == req[r].op = "activate" =>
    /\ req[r].pc \in {"read", "commit"} => setup # None /\ setup.activation_key = None
    /\ req[r].pc = "commit" => \E c \in past : req[r].seen = ActiveIn(c)
    /\ req[r].pc \in {"done", "replayed"} =>
          setup # None /\ req[r].key = setup.activation_key /\ req[r].answer = setup.pinned

Showing(r) == req[r].op = "get_profile" =>
    /\ req[r].pc = "begin" => req[r].answer = {}
    /\ req[r].pc = "get" => \E c \in past : req[r].seen \cup req[r].answer = Listed(c)
    /\ req[r].pc = "done" => \E c \in past : req[r].answer = Listed(c)

Alone(r, s) == r # s =>
    /\ ~(At(r, "create", "commit") /\ At(s, "create", "commit"))
    /\ ~(Activating(r) /\ Activating(s))

OwnersInv ==
    /\ \A r \in Requests : Creating(r) /\ Activates(r) /\ Showing(r)
    /\ \A r, s \in Requests : Alone(r, s)

OnboardingInv == SetupInv /\ OwnersInv

\* Steps of other operations, and calls that end without a row.
LEMMA OnboardingFrame ==
    ASSUME TypeOK, OnboardingInv, setup' = setup, past \subseteq past',
           \A s \in Requests :
              \/ req'[s] = req[s]
              \/ /\ req'[s].op = req[s].op
                 /\ req[s].op \notin OnboardingOps \/ req'[s].pc \in {"aborted", "refused"}
    PROVE  OnboardingInv'
<1>1. ASSUME NEW s \in Requests PROVE Creating(s)' /\ Activates(s)' /\ Showing(s)'
  <2>1. CASE req'[s] = req[s]
      BY <2>1 DEF OnboardingInv, OwnersInv, Creating, Activates, Showing
  <2>2. CASE req'[s] # req[s]
      BY <2>2 DEF OnboardingOps, Creating, Activates, Showing
  <2> QED BY <2>1, <2>2
<1>2. ASSUME NEW s \in Requests, NEW t \in Requests PROVE Alone(s, t)'
  <2>1. CASE req'[s] = req[s] /\ req'[t] = req[t]
      BY <2>1 DEF OnboardingInv, OwnersInv, Alone, At, Activating
  <2>2. CASE req'[s] # req[s]
      BY <2>2 DEF OnboardingOps, Alone, At, Activating
  <2>3. CASE req'[t] # req[t]
      BY <2>3 DEF OnboardingOps, Alone, At, Activating
  <2> QED BY <2>1, <2>2, <2>3
<1>3. SetupInv'
    BY DEF OnboardingInv, SetupInv
<1> QED BY <1>1, <1>2, <1>3 DEF OnboardingInv, OwnersInv

\* A step of r that writes no setup: what it owes is about req[r].
LEMMA OwnersFrame ==
    ASSUME OnboardingInv, setup' = setup, past' = past,
           NEW r \in Requests, \A s \in Requests \ {r} : req'[s] = req[s],
           Creating(r)', Activates(r)', Showing(r)', \A s \in Requests \ {r} : Alone(r, s)'
    PROVE  OnboardingInv'
<1>1. ASSUME NEW s \in Requests \ {r} PROVE Creating(s)' /\ Activates(s)' /\ Showing(s)'
    BY DEF OnboardingInv, OwnersInv, Creating, Activates, Showing
<1>2. ASSUME NEW s \in Requests, NEW t \in Requests PROVE Alone(s, t)'
  <2>1. CASE s # r /\ t # r
      BY <2>1 DEF OnboardingInv, OwnersInv, Alone, At, Activating
  <2>2. CASE s = r
      BY <2>2 DEF Alone
  <2>3. CASE s # r /\ t = r
    <3>1. Alone(r, s)'
        BY <2>3
    <3> QED BY <2>3, <3>1 DEF Alone, At, Activating
  <2> QED BY <2>1, <2>2, <2>3
<1>3. SetupInv'
    BY DEF OnboardingInv, SetupInv
<1> QED BY <1>1, <1>2, <1>3 DEF OnboardingInv, OwnersInv

LEMMA OwnerGoto ==
    ASSUME TypeOK, OnboardingInv, NEW r \in Requests, NEW pc, Goto(r, pc),
           setup' = setup, past' = past,
           \/ pc \in {"refused", "aborted"}
           \/ At(r, "create", "begin") /\ pc = "flush"
           \/ At(r, "create", "flush") /\ pc = "commit" /\ setup = None
                 /\ ~\E s \in Requests : At(s, "create", "commit")
           \/ At(r, "activate", "lock") /\ pc = "read"
                 /\ setup # None /\ setup.activation_key = None
                 /\ ~\E s \in Requests : Activating(s)
           \/ At(r, "get_profile", "get") /\ pc = "done" /\ req[r].seen = {}
    PROVE  OnboardingInv'
<1>1. /\ \A s \in Requests \ {r} : req'[s] = req[s]
      /\ req'[r] = [req[r] EXCEPT !.pc = pc]
    BY DEF Goto, TypeOK
<1>2. /\ req'[r].op = req[r].op /\ req'[r].pc = pc /\ req'[r].key = req[r].key
      /\ req'[r].arg = req[r].arg /\ req'[r].seen = req[r].seen
      /\ req'[r].answer = req[r].answer
    BY <1>1 DEF TypeOK, Typed, Call
<1>3. Creating(r) /\ Activates(r) /\ Showing(r) /\ \A s \in Requests : Alone(r, s)
    BY DEF OnboardingInv, OwnersInv
<1>4. Creating(r)'
    BY <1>2, <1>3 DEF Creating, At
<1>5. Activates(r)'
    BY <1>2, <1>3 DEF Activates, At
<1>6. Showing(r)'
    BY <1>2, <1>3 DEF Showing, At
<1>7. ASSUME NEW s \in Requests \ {r} PROVE Alone(r, s)'
    BY <1>1, <1>2, <1>3 DEF Alone, Activating, At
<1> QED BY <1>1, <1>4, <1>5, <1>6, <1>7, OwnersFrame

LEMMA OwnerReplay ==
    ASSUME TypeOK, OnboardingInv, NEW r \in Requests, NEW answer, Answer(r, "replayed", answer),
           setup' = setup, past' = past, setup # None,
           \/ req[r].op = "create" /\ req[r].key = setup.key /\ answer = setup.by
           \/ req[r].op = "activate" /\ req[r].key = setup.activation_key
                 /\ answer = setup.pinned
    PROVE  OnboardingInv'
<1>1. /\ \A s \in Requests \ {r} : req'[s] = req[s]
      /\ req'[r] = [req[r] EXCEPT !.pc = "replayed", !.answer = answer]
    BY DEF Answer, TypeOK
<1>2. /\ req'[r].op = req[r].op /\ req'[r].pc = "replayed" /\ req'[r].key = req[r].key
      /\ req'[r].answer = answer
    BY <1>1 DEF TypeOK, Typed, Call
<1>3. Creating(r)' /\ Activates(r)' /\ Showing(r)'
    BY <1>2 DEF Creating, Activates, Showing
<1>4. ASSUME NEW s \in Requests \ {r} PROVE Alone(r, s)'
    BY <1>2 DEF Alone, Activating, At
<1> QED BY <1>1, <1>3, <1>4, OwnersFrame

LEMMA CommitSetupInv ==
    ASSUME TypeOK, OnboardingInv, Ready, NEW r \in Requests, CommitSetup(r)
    PROVE  OnboardingInv'
<1>1. /\ req[r].op = "create" /\ req[r].pc = "commit" /\ setup = None /\ past' = past
      /\ \A s \in Requests : Creating(s) /\ Activates(s) /\ Showing(s) /\ Alone(r, s)
    BY DEF CommitSetup, OnboardingInv, OwnersInv, Creating, At, canonicalVars
<1>2. /\ \A s \in Requests \ {r} : req'[s] = req[s]
      /\ req'[r] = [req[r] EXCEPT !.pc = "done", !.answer = r]
    BY DEF CommitSetup, Answer, TypeOK
<1>3. /\ req'[r].op = "create" /\ req'[r].pc = "done" /\ req'[r].key = req[r].key
      /\ req'[r].answer = r
    BY <1>1, <1>2 DEF TypeOK, Typed, Call
<1>4. /\ setup'.by = r /\ setup'.key = req[r].key /\ setup'.status = "draft"
      /\ setup'.activation_key = None
    BY DEF CommitSetup, Draft
<1>5. setup' # None
    BY SetupWritten
<1>6. ASSUME NEW s \in Requests PROVE Creating(s)' /\ Activates(s)' /\ Showing(s)'
  <2>1. CASE s = r
      BY <1>3, <1>4, <1>5, <2>1 DEF Creating, Activates, Showing
  <2>2. CASE s # r
      BY <1>1, <1>2, <2>2 DEF Creating, Activates, Showing, Alone, At
  <2> QED BY <2>1, <2>2
<1>7. ASSUME NEW s \in Requests, NEW t \in Requests PROVE Alone(s, t)'
  <2>1. CASE s # r /\ t # r
      BY <1>2, <2>1 DEF OnboardingInv, OwnersInv, Alone, At, Activating
  <2>2. CASE s = r \/ t = r
      BY <1>3, <2>2 DEF Alone, At, Activating
  <2> QED BY <2>1, <2>2
<1>8. SetupInv'
    BY <1>4 DEF SetupInv
<1> QED BY <1>6, <1>7, <1>8 DEF OnboardingInv, OwnersInv

LEMMA BlockActivationInv ==
    ASSUME TypeOK, OnboardingInv, Ready, NEW r \in Requests, BlockActivation(r)
    PROVE  OnboardingInv'
<1>1. /\ req[r].op = "activate" /\ req[r].pc = "commit" /\ past' = past
      /\ setup # None /\ setup.activation_key = None
      /\ \A s \in Requests : Creating(s) /\ Activates(s) /\ Showing(s) /\ Alone(r, s)
    BY DEF BlockActivation, OnboardingInv, OwnersInv, Activates, At, canonicalVars
<1>2. /\ \A s \in Requests \ {r} : req'[s] = req[s]
      /\ req'[r] = [req[r] EXCEPT !.pc = "refused"]
    BY DEF BlockActivation, Goto, TypeOK
<1>3. req'[r].op = "activate" /\ req'[r].pc = "refused"
    BY <1>1, <1>2 DEF TypeOK, Typed, Call
<1>4. setup \in Setup
    BY <1>1 DEF TypeOK
<1>5. /\ setup'.status = "blocked" /\ setup'.activation_key = None
      /\ setup'.key = setup.key /\ setup'.by = setup.by
    BY <1>1, <1>4 DEF BlockActivation, Setup
<1>6. setup' # None
    BY SetupWritten
<1>7. ASSUME NEW s \in Requests PROVE Creating(s)' /\ Activates(s)' /\ Showing(s)'
  <2>1. CASE s = r
      BY <1>3, <2>1 DEF Creating, Activates, Showing
  <2>2. CASE s # r
    <3>1. req'[s] = req[s] /\ Creating(s) /\ Activates(s) /\ Showing(s)
        BY <1>1, <1>2, <2>2
    <3>2. Creating(s)' /\ Showing(s)'
        BY <1>1, <1>5, <1>6, <3>1 DEF Creating, Showing
    <3>3. Activates(s)'
      <4>1. req[s].op = "activate" => req[s].key # None
          BY CallFields, NoneAssumption
      <4> QED BY <1>1, <1>5, <1>6, <3>1, <4>1 DEF Activates
    <3> QED BY <3>2, <3>3
  <2> QED BY <2>1, <2>2
<1>8. ASSUME NEW s \in Requests, NEW t \in Requests PROVE Alone(s, t)'
  <2>1. CASE s # r /\ t # r
      BY <1>2, <2>1 DEF OnboardingInv, OwnersInv, Alone, At, Activating
  <2>2. CASE s = r \/ t = r
      BY <1>3, <2>2 DEF Alone, At, Activating
  <2> QED BY <2>1, <2>2
<1>9. SetupInv'
    BY <1>5 DEF SetupInv
<1> QED BY <1>7, <1>8, <1>9 DEF OnboardingInv, OwnersInv

LEMMA CommitActivationInv ==
    ASSUME TypeOK, OnboardingInv, Ready, NEW r \in Requests, CommitActivation(r)
    PROVE  OnboardingInv'
<1> DEFINE pinned == {pair \in req[r].seen : TypeOf[pair[1]] \in setup.required}
<1>1. /\ req[r].op = "activate" /\ req[r].pc = "commit" /\ past' = past
      /\ setup # None /\ setup.activation_key = None
      /\ Covers(req[r].seen, setup.required)
      /\ \A s \in Requests : Creating(s) /\ Activates(s) /\ Showing(s) /\ Alone(r, s)
    BY DEF CommitActivation, OnboardingInv, OwnersInv, Activates, At, canonicalVars
<1>2. /\ \A s \in Requests \ {r} : req'[s] = req[s]
      /\ req'[r] = [req[r] EXCEPT !.pc = "done", !.answer = pinned]
    BY DEF CommitActivation, Answer, TypeOK
<1>3. /\ req'[r].op = "activate" /\ req'[r].pc = "done" /\ req'[r].key = req[r].key
      /\ req'[r].answer = pinned
  <2> HIDE DEF pinned
  <2> QED BY <1>1, <1>2 DEF TypeOK, Typed, Call
<1>4. setup \in Setup /\ req[r].key # None
    BY <1>1, CallFields, NoneAssumption DEF TypeOK
<1>5. /\ setup'.status = "active" /\ setup'.activation_key = req[r].key
      /\ setup'.key = setup.key /\ setup'.by = setup.by
      /\ setup'.required = setup.required /\ setup'.pinned = pinned
    BY <1>1, <1>4 DEF CommitActivation, Setup
<1>6. setup' # None
    BY SetupWritten
<1>7. PICK c \in past : req[r].seen = ActiveIn(c)
    BY <1>1 DEF Activates
<1>8. pinned = PinnedAt(c, setup.required)
    BY <1>7 DEF PinnedAt
<1>9. Covers(pinned, setup.required)
    BY <1>1 DEF Covers
<1> HIDE DEF pinned
<1>10. ASSUME NEW s \in Requests PROVE Creating(s)' /\ Activates(s)' /\ Showing(s)'
  <2>1. CASE s = r
      BY <1>3, <1>5, <1>6, <2>1 DEF Creating, Activates, Showing
  <2>2. CASE s # r
    <3>1. req'[s] = req[s] /\ Creating(s) /\ Activates(s) /\ Showing(s) /\ Alone(r, s)
        BY <1>1, <1>2, <2>2
    <3>2. Creating(s)' /\ Showing(s)'
        BY <1>1, <1>5, <1>6, <3>1 DEF Creating, Showing
    <3>3. Activates(s)'
      <4>1. req[s].op = "activate" => req[s].key # None
          BY CallFields, NoneAssumption
      <4> QED BY <1>1, <2>2, <3>1, <4>1 DEF Activates, Alone, Activating
    <3> QED BY <3>2, <3>3
  <2> QED BY <2>1, <2>2
<1>11. ASSUME NEW s \in Requests, NEW t \in Requests PROVE Alone(s, t)'
  <2>1. CASE s # r /\ t # r
      BY <1>2, <2>1 DEF OnboardingInv, OwnersInv, Alone, At, Activating
  <2>2. CASE s = r \/ t = r
      BY <1>3, <2>2 DEF Alone, At, Activating
  <2> QED BY <2>1, <2>2
<1>12. SetupInv'
    BY <1>1, <1>4, <1>5, <1>8, <1>9 DEF SetupInv
<1> QED BY <1>10, <1>11, <1>12 DEF OnboardingInv, OwnersInv

LEMMA OnboardingStepInv ==
    ASSUME TypeOK, OnboardingInv, Ready, versions \in past, NEW r \in Requests,
           OnboardingStep(r)
    PROVE  OnboardingInv'
<1> USE DEF At, canonicalVars
<1>1. CASE LookUpSetup(r)
    BY <1>1, OwnerGoto, OwnerReplay DEF LookUpSetup
<1>2. CASE FlushSetup(r)
    BY <1>2, OwnerGoto DEF FlushSetup
<1>3. CASE CommitSetup(r)
    BY <1>3, CommitSetupInv
<1>4. CASE LockSetup(r)
    BY <1>4, OwnerGoto, OwnerReplay DEF LockSetup, JudgeActivation
<1>5. CASE ReadActive(r)
  <2>1. /\ \A s \in Requests \ {r} : req'[s] = req[s]
        /\ req'[r] = [req[r] EXCEPT !.pc = "commit", !.seen = ActiveIn(versions)]
      BY <1>5 DEF ReadActive, TypeOK
  <2>2. /\ req[r].op = "activate" /\ req[r].pc = "read" /\ setup' = setup /\ past' = past
        /\ Activates(r) /\ \A s \in Requests : Alone(r, s)
      BY <1>5 DEF ReadActive, OnboardingInv, OwnersInv
  <2>3. /\ req'[r].op = "activate" /\ req'[r].pc = "commit" /\ req'[r].key = req[r].key
        /\ req'[r].seen = ActiveIn(versions)
      BY <2>1, <2>2 DEF TypeOK, Typed, Call
  <2>4. Creating(r)' /\ Activates(r)' /\ Showing(r)'
      BY <2>2, <2>3 DEF Creating, Activates, Showing
  <2>5. ASSUME NEW s \in Requests \ {r} PROVE Alone(r, s)'
      BY <2>1, <2>2, <2>3 DEF Alone, Activating
  <2> QED BY <2>1, <2>2, <2>4, <2>5, OwnersFrame
<1>6. CASE BlockActivation(r)
    BY <1>6, BlockActivationInv
<1>7. CASE CommitActivation(r)
    BY <1>7, CommitActivationInv
<1>8. CASE ListObjects(r)
  <2>1. /\ \A s \in Requests \ {r} : req'[s] = req[s]
        /\ req'[r] = [req[r] EXCEPT !.pc = "get", !.seen = Listed(versions)]
      BY <1>8 DEF ListObjects, TypeOK, Listed
  <2>2. /\ req[r].op = "get_profile" /\ req[r].pc = "begin" /\ setup' = setup
        /\ past' = past /\ req[r].answer = {}
      BY <1>8 DEF ListObjects, OnboardingInv, OwnersInv, Showing
  <2>3. /\ req'[r].op = "get_profile" /\ req'[r].pc = "get"
        /\ req'[r].seen = Listed(versions) /\ req'[r].answer = {}
      BY <2>1, <2>2 DEF TypeOK, Typed, Call
  <2>4. Creating(r)' /\ Activates(r)'
      BY <2>3 DEF Creating, Activates
  <2>5. Showing(r)'
      BY <2>2, <2>3 DEF Showing
  <2>6. ASSUME NEW s \in Requests \ {r} PROVE Alone(r, s)'
      BY <2>3 DEF Alone, Activating
  <2> QED BY <2>1, <2>2, <2>4, <2>5, <2>6, OwnersFrame
<1>9. CASE GetObject(r)
  <2>1. PICK pair \in req[r].seen :
            req' = [req EXCEPT ![r].seen = @ \ {pair}, ![r].answer = @ \cup {pair}]
      BY <1>9 DEF GetObject, VersionToShow
  <2>2. /\ \A s \in Requests \ {r} : req'[s] = req[s]
        /\ req'[r] = [req[r] EXCEPT !.seen = @ \ {pair}, !.answer = @ \cup {pair}]
      BY <2>1 DEF TypeOK
  <2>3. /\ req[r].op = "get_profile" /\ req[r].pc = "get" /\ setup' = setup /\ past' = past
        /\ Showing(r)
      BY <1>9 DEF GetObject, OnboardingInv, OwnersInv
  <2>4. /\ req'[r].op = "get_profile" /\ req'[r].pc = "get"
        /\ req'[r].seen = req[r].seen \ {pair} /\ req'[r].answer = req[r].answer \cup {pair}
      BY <2>2, <2>3 DEF TypeOK, Typed, Call
  <2>5. Creating(r)' /\ Activates(r)'
      BY <2>4 DEF Creating, Activates
  <2>6. (req[r].seen \ {pair}) \cup (req[r].answer \cup {pair}) = req[r].seen \cup req[r].answer
      OBVIOUS
  <2>7. Showing(r)'
      BY <2>3, <2>4, <2>6 DEF Showing
  <2>8. ASSUME NEW s \in Requests \ {r} PROVE Alone(r, s)'
      BY <2>4 DEF Alone, Activating
  <2> QED BY <2>2, <2>3, <2>5, <2>7, <2>8, OwnersFrame
<1>10. CASE EndProfile(r)
    BY <1>10, OwnerGoto DEF EndProfile
<1> QED BY <1>1, <1>2, <1>3, <1>4, <1>5, <1>6, <1>7, <1>8, <1>9, <1>10 DEF OnboardingStep

-----------------------------------------------------------------------------
(* The inductive invariant. *)

IInv == TypeOK /\ versions \in past /\ KnowledgeInv /\ OnboardingInv

LEMMA IInvReady == IInv => Ready
<1> SUFFICES ASSUME IInv, NEW r \in Requests
    PROVE  /\ req[r].op = "create_pipeline_chunk" =>
              /\ req[r].pc \in {"lock", "flush", "commit"} => req[r].arg.ordinal > 0
              /\ req[r].pc \in {"flush", "commit"} =>
                    /\ ingestions[req[r].arg.generation] # None
                    /\ req[r].seen = ingestions[req[r].arg.generation].chunk_count
           /\ req[r].op = "activate" =>
              /\ req[r].pc \in {"read", "commit"} => setup # None /\ setup.activation_key = None
              /\ req[r].pc = "commit" => req[r].seen \in Pinnable
           /\ req[r].op = "get_profile" /\ req[r].pc = "get" => req[r].seen \in Pinnable
    BY DEF Ready
<1>1. ASSUME NEW c \in past PROVE ActiveIn(c) \in Pinnable /\ Listed(c) \in Pinnable
    BY ListedTyped DEF ActiveIn, Listed, IInv, TypeOK
<1>2. Chunking(r) /\ Activates(r) /\ Showing(r)
    BY DEF IInv, KnowledgeInv, CallsInv, OnboardingInv, OwnersInv
<1>3. req[r].op = "get_profile" /\ req[r].pc = "get" => req[r].seen \in Pinnable
  <2> SUFFICES ASSUME req[r].op = "get_profile", req[r].pc = "get" PROVE req[r].seen \in Pinnable
      OBVIOUS
  <2>1. PICK c \in past : req[r].seen \cup req[r].answer = Listed(c)
      BY <1>2 DEF Showing
  <2> QED BY <1>1, <2>1 DEF Pinnable
<1>4. req[r].op = "activate" /\ req[r].pc = "commit" => req[r].seen \in Pinnable
    BY <1>1, <1>2 DEF Activates
<1> QED BY <1>2, <1>3, <1>4 DEF Chunking, Activates

LEMMA InitIInv == Init => IInv
<1> SUFFICES ASSUME Init PROVE IInv
    OBVIOUS
<1>1. /\ versions \in [Objects -> {<< >>, <<Published>>}]
      /\ spent = {} /\ past = {versions} /\ edits = 0 /\ chunks = {}
    BY DEF Init
<1>2. versions \in [Objects -> Seq(Version)]
  <2>1. Published \in Version
      BY DEF Published, Version
  <2>2. << >> \in Seq(Version) /\ <<Published>> \in Seq(Version)
      BY <2>1
  <2> QED BY <1>1, <2>2
<1>3. /\ setup = None \/ \E k \in Keys, t \in Required : setup = Draft(None, k, t)
      /\ \A k \in Keys : ingestions[k] # None =>
            /\ ingestions[k].chunk_count = 0 /\ ingestions[k].status = "pending"
            /\ Eligible(versions, ingestions[k].source)
      /\ ingestions \in [Keys -> Ingestion \cup {None}]
  <2>1. CASE setup = None /\ ingestions = [k \in Keys |-> None]
      BY <2>1
  <2>2. ASSUME NEW k \in Keys, NEW t \in Required, NEW s \in [object : Objects, version : {1}],
               Eligible(versions, s), setup = Draft(None, k, t),
               ingestions = [[j \in Keys |-> None] EXCEPT ![k] =
                   [by |-> None, source |-> s, status |-> "pending", chunk_count |-> 0]]
        PROVE  <1>3!1 /\ <1>3!2 /\ <1>3!3
    <3> DEFINE row == [by |-> None, source |-> s, status |-> "pending", chunk_count |-> 0]
    <3>1. row \in Ingestion /\ row.source = s /\ row.chunk_count = 0 /\ row.status = "pending"
        BY DEF Ingestion, Source
    <3> HIDE DEF row
    <3>2. ingestions = [[j \in Keys |-> None] EXCEPT ![k] = row]
        BY <2>2 DEF row
    <3> QED BY <2>2, <3>1, <3>2
  <2> QED BY <2>1, <2>2 DEF Init
<1>4. setup # None => setup \in Setup /\ setup.status = "draft" /\ setup.activation_key = None
    BY <1>3 DEF Draft, Setup
<1>5. req = [r \in Requests |-> req[r]]
      /\ \A r \in Requests :
            \/ req[r] \in IngestionCommand([object : Objects, version : {1, 2}])
            \/ req[r] \in ChunkCommand \/ req[r] \in SetupCommand
            \/ req[r] \in ActivateCommand \/ req[r] \in ProfileCommand
    BY DEF Init
<1>6. ASSUME NEW r \in Requests
      PROVE  /\ Typed(req[r])
             /\ req[r].pc = IF req[r].op = "activate" THEN "lock" ELSE "begin"
             /\ req[r].op = "get_profile" => req[r].answer = {}
  <2>1. CASE req[r] \in IngestionCommand([object : Objects, version : {1, 2}])
      BY <2>1 DEF IngestionCommand, Typed, Call, Running, Finished, Source
  <2>2. CASE req[r] \in ChunkCommand
      BY <2>2 DEF ChunkCommand, Typed, Call, Running, Finished
  <2>3. CASE req[r] \in SetupCommand
      BY <2>3 DEF SetupCommand, Typed, Call, Running, Finished
  <2>4. CASE req[r] \in ActivateCommand
      BY <2>4 DEF ActivateCommand, Typed, Call, Running, Finished
  <2>5. CASE req[r] \in ProfileCommand
      BY <2>5 DEF ProfileCommand, Typed, Call, Running, Finished, Pinnable
  <2> QED BY <1>5, <2>1, <2>2, <2>3, <2>4, <2>5
<1>7. TypeOK
    BY <1>1, <1>2, <1>3, <1>4, <1>5, <1>6, EditAssumption DEF TypeOK
<1>8. CallsInv
    BY <1>6 DEF CallsInv, Ingesting, Chunking, Apart, At, Building
<1>9. KnowledgeInv
  <2>1. \A g : LinksOf(chunks, g) = {}
      BY <1>1 DEF LinksOf
  <2>2. Counted
      BY <1>3, <2>1, FS_EmptySet DEF Counted
  <2> QED BY <1>1, <1>3, <1>8, <2>2, FS_EmptySet DEF KnowledgeInv, Unique, Sources
<1>10. OnboardingInv
    BY <1>4, <1>6 DEF OnboardingInv, OwnersInv, SetupInv, Creating, Activates, Showing, Alone,
                      At, Activating
<1> QED BY <1>1, <1>7, <1>9, <1>10 DEF IInv

\* A call's step is about that call.
LEMMA OneCall ==
    ASSUME NEW r \in Requests, TypeOK,
           \/ \E pc : Goto(r, pc)
           \/ \E pc, answer : Answer(r, pc, answer)
           \/ \E pc, seen : req' = [req EXCEPT ![r].pc = pc, ![r].seen = seen]
           \/ \E seen, answer : req' = [req EXCEPT ![r].seen = seen, ![r].answer = answer]
    PROVE  (\A s \in Requests \ {r} : req'[s] = req[s]) /\ req'[r].op = req[r].op
<1>1. ASSUME NEW pc, Goto(r, pc)
      PROVE  (\A s \in Requests \ {r} : req'[s] = req[s]) /\ req'[r].op = req[r].op
    BY <1>1 DEF Goto, TypeOK, Typed, Call
<1>2. ASSUME NEW pc, NEW answer, Answer(r, pc, answer)
      PROVE  (\A s \in Requests \ {r} : req'[s] = req[s]) /\ req'[r].op = req[r].op
    BY <1>2 DEF Answer, TypeOK, Typed, Call
<1>3. ASSUME NEW pc, NEW seen, req' = [req EXCEPT ![r].pc = pc, ![r].seen = seen]
      PROVE  (\A s \in Requests \ {r} : req'[s] = req[s]) /\ req'[r].op = req[r].op
    BY <1>3 DEF TypeOK, Typed, Call
<1>4. ASSUME NEW seen, NEW answer, req' = [req EXCEPT ![r].seen = seen, ![r].answer = answer]
      PROVE  (\A s \in Requests \ {r} : req'[s] = req[s]) /\ req'[r].op = req[r].op
    BY <1>4 DEF TypeOK, Typed, Call
<1> QED BY <1>1, <1>2, <1>3, <1>4

LEMMA StepOfKnowledge ==
    ASSUME NEW r \in Requests, TypeOK, KnowledgeStep(r)
    PROVE  /\ \A s \in Requests \ {r} : req'[s] = req[s]
           /\ req'[r].op = req[r].op /\ req[r].op \in KnowledgeOps
           /\ UNCHANGED canonicalVars
<1>1. req[r].op \in KnowledgeOps /\ UNCHANGED canonicalVars
    BY DEF KnowledgeStep, LookUpIngestion, ReadSource, FlushIngestion, CommitIngestion,
           LookUpChunk, LockGeneration, FlushChunk, CommitChunk, At, KnowledgeOps
<1>2. \/ \E pc : Goto(r, pc)
      \/ \E pc, answer : Answer(r, pc, answer)
      \/ \E pc, seen : req' = [req EXCEPT ![r].pc = pc, ![r].seen = seen]
    BY DEF KnowledgeStep, LookUpIngestion, ReadSource, FlushIngestion, CommitIngestion,
           LookUpChunk, LockGeneration, FlushChunk, CommitChunk
<1> QED BY <1>1, <1>2, OneCall

LEMMA StepOfOnboarding ==
    ASSUME NEW r \in Requests, TypeOK, OnboardingStep(r)
    PROVE  /\ \A s \in Requests \ {r} : req'[s] = req[s]
           /\ req'[r].op = req[r].op /\ req[r].op \in OnboardingOps
           /\ UNCHANGED canonicalVars
<1>1. req[r].op \in OnboardingOps /\ UNCHANGED canonicalVars
    BY DEF OnboardingStep, LookUpSetup, FlushSetup, CommitSetup, LockSetup, ReadActive,
           BlockActivation, CommitActivation, ListObjects, GetObject, EndProfile, At,
           OnboardingOps
<1>2. \/ \E pc : Goto(r, pc)
      \/ \E pc, answer : Answer(r, pc, answer)
      \/ \E pc, seen : req' = [req EXCEPT ![r].pc = pc, ![r].seen = seen]
      \/ \E seen, answer : req' = [req EXCEPT ![r].seen = seen, ![r].answer = answer]
  <2>1. CASE GetObject(r)
    <3>1. PICK pair \in req[r].seen :
              req' = [req EXCEPT ![r].seen = @ \ {pair},
                                 ![r].answer = @ \cup {VersionToShow(pair)}]
        BY <2>1 DEF GetObject
    <3>2. req' = [req EXCEPT ![r].seen = req[r].seen \ {pair},
                             ![r].answer = req[r].answer \cup {VersionToShow(pair)}]
        BY <3>1 DEF TypeOK
    <3> QED BY <3>2
  <2>2. CASE ListObjects(r) \/ ReadActive(r)
      BY <2>2 DEF ListObjects, ReadActive
  <2> QED BY <2>1, <2>2
          DEF OnboardingStep, LookUpSetup, FlushSetup, CommitSetup, LockSetup, JudgeActivation,
              BlockActivation, CommitActivation, EndProfile
<1> QED BY <1>1, <1>2, OneCall

LEMMA StepIInv == IInv /\ [Next]_vars => IInv'
<1> SUFFICES ASSUME IInv, [Next]_vars PROVE IInv'
    OBVIOUS
<1>1. TypeOK /\ Ready /\ versions \in past /\ KnowledgeInv /\ OnboardingInv /\ TypeOK'
    BY IInvReady, StepTypeOK DEF IInv
<1>2. ASSUME NEW r \in Requests, KnowledgeStep(r), UNCHANGED setup PROVE IInv'
  <2>1. KnowledgeInv'
      BY <1>1, <1>2, KnowledgeStepInv
  <2>2. versions' = versions /\ past' = past
      BY <1>1, <1>2, StepOfKnowledge DEF canonicalVars
  <2>3. ASSUME NEW s \in Requests
        PROVE  \/ req'[s] = req[s]
               \/ req'[s].op = req[s].op /\ req[s].op \notin OnboardingOps
      BY <1>1, <1>2, StepOfKnowledge DEF KnowledgeOps, OnboardingOps
  <2>4. OnboardingInv'
      BY <1>1, <1>2, <2>2, <2>3, OnboardingFrame
  <2> QED BY <1>1, <2>1, <2>2, <2>4 DEF IInv
<1>3. ASSUME NEW r \in Requests, OnboardingStep(r), UNCHANGED knowledgeVars PROVE IInv'
  <2>1. OnboardingInv'
      BY <1>1, <1>3, OnboardingStepInv
  <2>2. versions' = versions /\ past' = past /\ ingestions' = ingestions /\ chunks' = chunks
      BY <1>1, <1>3, StepOfOnboarding DEF canonicalVars, knowledgeVars
  <2>3. ASSUME NEW s \in Requests
        PROVE  \/ req'[s] = req[s]
               \/ req'[s].op = req[s].op /\ req[s].op \notin KnowledgeOps
      BY <1>1, <1>3, StepOfOnboarding DEF KnowledgeOps, OnboardingOps
  <2>4. KnowledgeInv'
      BY <1>1, <2>2, <2>3, KnowledgeFrame
  <2> QED BY <1>1, <2>1, <2>2, <2>4 DEF IInv
<1>4. ASSUME NEW r \in Requests, Abort(r), UNCHANGED <<canonicalVars, knowledgeVars, setup>>
      PROVE  IInv'
  <2>1. /\ versions' = versions /\ past' = past /\ ingestions' = ingestions
        /\ chunks' = chunks /\ setup' = setup
      BY <1>4 DEF canonicalVars, knowledgeVars
  <2>2. ASSUME NEW s \in Requests
        PROVE  \/ req'[s] = req[s]
               \/ req'[s].op = req[s].op /\ req'[s].pc = "aborted"
      BY <1>1, <1>4 DEF Abort, Goto, TypeOK, Typed, Call
  <2>3. KnowledgeInv'
      BY <1>1, <2>1, <2>2, KnowledgeFrame
  <2>4. OnboardingInv'
      BY <1>1, <2>1, <2>2, OnboardingFrame
  <2> QED BY <1>1, <2>1, <2>3, <2>4 DEF IInv
<1>5. ASSUME /\ \/ \E o \in Objects, v \in Edits : OwnerEdit(o, v)
                \/ \E key \in FreeKeys : OwnerEditElsewhere(key),
             UNCHANGED <<knowledgeVars, setup>>
      PROVE  IInv'
  <2>1. /\ req' = req /\ ingestions' = ingestions /\ chunks' = chunks /\ setup' = setup
        /\ past \subseteq past' /\ versions' \in past'
      BY <1>1, <1>5 DEF OwnerEdit, OwnerEditElsewhere, knowledgeVars
  <2>2. KnowledgeInv' /\ OnboardingInv'
      BY <1>1, <2>1, KnowledgeFrame, OnboardingFrame
  <2> QED BY <1>1, <2>1, <2>2 DEF IInv
<1>6. CASE UNCHANGED vars
  <2>1. /\ req' = req /\ ingestions' = ingestions /\ chunks' = chunks /\ setup' = setup
        /\ past' = past /\ versions' = versions
      BY <1>6 DEF vars
  <2>2. KnowledgeInv' /\ OnboardingInv'
      BY <1>1, <2>1, KnowledgeFrame, OnboardingFrame
  <2> QED BY <1>1, <2>1, <2>2 DEF IInv
<1> QED BY <1>2, <1>3, <1>4, <1>5, <1>6 DEF Next

LEMMA Invariant == Spec => []IInv
<1>1. Init => IInv
    BY InitIInv
<1>2. IInv /\ [Next]_vars => IInv'
    BY StepIInv
<1> QED BY <1>1, <1>2, PTL DEF Spec

-----------------------------------------------------------------------------
(* The theorems. *)

\* Every row, call and catalog keeps its type (knowledge.py, workspace_onboarding.py).
THEOREM TypeCorrect == Spec => []TypeOK
<1>1. IInv => TypeOK
    BY DEF IInv
<1> QED BY <1>1, Invariant, PTL

\* A generation's chunk_count is the number of its chunks, each at a place and under a
\* key of its own, for any number of pipeline services (knowledge.py:355-497).
THEOREM CountsAreExact == Spec => []ChunksCounted
<1>1. IInv => ChunksCounted
  <2> SUFFICES ASSUME IInv, NEW g \in Keys
      PROVE LET links == {c \in chunks : c.generation = g}
            IN  /\ ingestions[g] = None => links = {}
                /\ ingestions[g] # None =>
                      /\ ingestions[g].chunk_count = Cardinality(links)
                      /\ ingestions[g].status = "pending" <=> links = {}
                /\ \A c, d \in links : c # d => c.ordinal # d.ordinal /\ c.key # d.key
      BY DEF ChunksCounted
  <2>1. /\ ingestions[g] = None => LinksOf(chunks, g) = {}
        /\ ingestions[g] # None =>
              /\ ingestions[g].chunk_count = Cardinality(LinksOf(chunks, g))
              /\ ingestions[g].status = "pending" <=> LinksOf(chunks, g) = {}
      BY DEF IInv, KnowledgeInv, Counted
  <2>2. \A c, d \in LinksOf(chunks, g) : c # d => c.ordinal # d.ordinal /\ c.key # d.key
      BY DEF IInv, KnowledgeInv, Unique, LinksOf
  <2> QED BY <2>1, <2>2 DEF LinksOf
<1> QED BY <1>1, Invariant, PTL

\* Calls that succeed under one key are told of one thing (knowledge.py:188-202, 355-388;
\* workspace_onboarding.py:107-126, 186-212).
THEOREM RetriesAgree == Spec => []AnswersAgree
<1>1. IInv => AnswersAgree
  <2> SUFFICES ASSUME IInv, NEW r \in Requests, NEW s \in Requests,
                      Succeeded(r), Succeeded(s), req[r].op = req[s].op,
                      req[r].key = req[s].key, req[r].key # None
      PROVE  req[r].answer = req[s].answer
      BY DEF AnswersAgree
  <2>1. /\ Ingesting(r) /\ Ingesting(s) /\ Chunking(r) /\ Chunking(s) /\ Unique
        /\ Creating(r) /\ Creating(s) /\ Activates(r) /\ Activates(s) /\ Typed(req[r])
      BY DEF IInv, TypeOK, KnowledgeInv, CallsInv, OnboardingInv, OwnersInv
  <2>2. CASE req[r].op = "create_ingestion"
      BY <2>1, <2>2 DEF Succeeded, Ingesting
  <2>3. CASE req[r].op = "create_pipeline_chunk"
      BY <2>1, <2>3 DEF Succeeded, Chunking, Unique
  <2>4. CASE req[r].op = "create"
      BY <2>1, <2>4 DEF Succeeded, Creating
  <2>5. CASE req[r].op = "activate"
      BY <2>1, <2>5 DEF Succeeded, Activates
  <2>6. req[r].op # "get_profile"
      BY <2>1 DEF Typed, Call
  <2> QED BY <2>1, <2>2, <2>3, <2>4, <2>5, <2>6 DEF Typed
<1> QED BY <1>1, Invariant, PTL

\* What is pinned to an ingestion or an activation, or shown in a profile, was true at
\* one moment (knowledge.py:529-568; workspace_onboarding.py:229-245, 308-321;
\* business_truth.py:542-555).
THEOREM PinnedAtOneMoment == Spec => []SeenAtOneMoment
<1>1. IInv => SeenAtOneMoment
  <2> SUFFICES ASSUME IInv PROVE SeenAtOneMoment
      OBVIOUS
  <2>1. Sources /\ SetupInv /\ \A r \in Requests : Showing(r)
      BY DEF IInv, KnowledgeInv, OnboardingInv, OwnersInv
  <2>2. setup # None /\ setup.status = "active" =>
            \E c \in past :
               /\ setup.pinned = {p \in ActiveIn(c) : TypeOf[p[1]] \in setup.required}
               /\ Covers(setup.pinned, setup.required)
      BY <2>1 DEF SetupInv, PinnedAt
  <2>3. \A r \in Requests : At(r, "get_profile", "done") =>
            \E c \in past :
               req[r].answer = {<<o, Current(c, o)>> : o \in {p \in Objects : Exists(c, p)}}
      BY <2>1 DEF Showing, Listed, At
  <2> QED BY <2>1, <2>2, <2>3 DEF SeenAtOneMoment, Sources
<1> QED BY <1>1, Invariant, PTL

\* An activated setup is never activated again, blocked or pinned anew
\* (workspace_onboarding.py:186-212).
THEOREM ActivationIsFinal == Spec => ActivationHolds
<1>1. IInv /\ [Next]_vars => (setup # None /\ setup.status = "active" => setup' = setup)
  <2> SUFFICES ASSUME IInv, [Next]_vars, setup # None, setup.status = "active"
      PROVE  setup' = setup
      OBVIOUS
  <2>1. setup.activation_key # None /\ \A r \in Requests : Creating(r) /\ Activates(r)
      BY DEF IInv, OnboardingInv, OwnersInv, SetupInv
  <2>2. ASSUME NEW r \in Requests, OnboardingStep(r) PROVE setup' = setup
    <3>1. ~CommitSetup(r) /\ ~BlockActivation(r) /\ ~CommitActivation(r)
        BY <2>1 DEF CommitSetup, BlockActivation, CommitActivation, Creating, Activates, At
    <3> QED BY <2>2, <3>1 DEF OnboardingStep, LookUpSetup, FlushSetup, LockSetup, ReadActive,
                             ListObjects, GetObject, EndProfile
  <2> QED BY <2>2 DEF Next, vars
<1>2. Spec => [][setup # None /\ setup.status = "active" => setup' = setup]_vars
    BY <1>1, Invariant, PTL DEF Spec
<1> QED BY <1>2 DEF ActivationHolds
=============================================================================
