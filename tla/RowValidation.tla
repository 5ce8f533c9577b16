--------------------------- MODULE RowValidation ---------------------------
(***************************************************************************)
(* What one validation attempt makes of a source file (import_validation.py)*)
(* and what the change set plans from it (_plan_row of                     *)
(* import_change_sets.py).  ImportReview takes both verdicts as free       *)
(* choices; here they are computed, row by row, against a snapshot of the  *)
(* canonical objects that the owner goes on editing.                       *)
(*                                                                         *)
(* Two object types stand for the rest: a product has a stable identifier  *)
(* (its SKU), a case study has payload rules and refers to a product.      *)
(* A CSV column called __grovello_shape_error__, whose cell the code takes *)
(* for an issue code, is left out.                                         *)
(***************************************************************************)
EXTENDS Naturals, Sequences

CONSTANTS
    Ids,          \* canonical object ids
    Slugs,
    Stables,      \* SKUs, normalized
    None,
    Bad,          \* an id no object has, a text that is no slug
    MaxRows,      \* bound on the rows of a file
    MaxEdits      \* bound on the owner's edits after the snapshot

ASSUME BoundAssumption == {MaxRows, MaxEdits} \subseteq Nat
ASSUME ValueAssumption == /\ None \notin Ids \cup Slugs \cup Stables
                          /\ Bad \notin Ids \cup Slugs

VARIABLES
    type,         \* import_jobs.object_type
    file,         \* the parsed source under its mapping
    canonical,    \* business_objects with their current versions
    snapshot,     \* what _canonical_snapshot read
    fate,         \* how far the attempt and the plan have come
    seen,         \* the identities rows have claimed
    staged,       \* the rows validated so far, in file order
    plan,         \* the operation of each row, once the change set is created
    edits

vars == <<type, file, canonical, snapshot, fate, seen, staged, plan, edits>>

Types == {"product", "case_study"}
HasStable(t) == t = "product"      \* _row_stable_identity
Ruled(t)     == t = "case_study"   \* STRUCTURED_PAYLOAD_RULES

Object == [type : Types, slug : Slugs, stable : Stables \cup {None}, version : Nat]

\* Slug and type identify an object (its unique constraint).
Catalogs == {c \in [Ids -> [type : Types, slug : Slugs, stable : Stables \cup {None},
                            version : {1}] \cup {None}] :
    \A o \in Ids : c[o] # None =>
        /\ ~HasStable(c[o].type) => c[o].stable = None
        /\ \A p \in Ids \ {o} :
              c[p] # None => <<c[p].type, c[p].slug>> # <<c[o].type, c[o].slug>>}

\* A source fails as a whole on any of these, before a row is looked at.
Decoding == {"source_too_large", "invalid_control_character", "invalid_utf8"}
CsvDefects ==
    {"invalid_delimiter", "missing_header", "invalid_csv", "invalid_header",
     "too_many_columns", "duplicate_header", "too_many_rows", "scalar_too_large"}
JsonDefects ==
    {"invalid_json", "invalid_json_package", "manifest_mismatch", "too_many_rows",
     "invalid_record", "too_many_columns"}
JsonKeyDefects == {"invalid_json_key", "duplicate_json_key", "reserved_json_key"}
JsonValueDefects ==
    {"json_too_deep", "json_array_too_large", "scalar_too_large", "invalid_json_number"}

\* validate_rows refuses the mapping, or a source it was not made for.
MappingDefects ==
    {"invalid_mapping_schema", "duplicate_mapping_field", "invalid_mapping_field",
     "invalid_mapping", "forbidden_target", "duplicate_target", "missing_mapping_source",
     "unknown_mapping_source", "invalid_separator"}

DefectsOf(format) ==
    Decoding \cup MappingDefects \cup {"source_schema_mismatch"} \cup
    (IF format = "csv" THEN CsvDefects
     ELSE JsonDefects \cup JsonKeyDefects \cup JsonValueDefects)

File == UNION {[format : {f}, rows : 0 .. MaxRows, defect : DefectsOf(f) \cup {None}] :
                  f \in {"csv", "grovello_json"}}

\* A record after its mapping's transforms.  "sound" fails for a record whose columns
\* are not the header's, a value a transform refuses, paths that clash, and a name,
\* status, locale, payload or citation of the wrong form.  An id or a reference that
\* names no object is a member of Ids without one.
Row == [id : Ids \cup {None}, slug : Slugs \cup {Bad}, stable : Stables \cup {None},
        sound : BOOLEAN, complete : BOOLEAN, active : BOOLEAN,
        refersTo : Ids \cup {None}, cites : {"nothing", "known", "unknown"}]

\* A row has the fields its type has: the others are left out of the enumeration.
RowsOf == [t \in Types |->
    {r \in Row : /\ ~HasStable(t) => r.stable = None
                 /\ ~Ruled(t) => r.complete /\ ~r.active /\ r.refersTo = None}]

Statuses == {"valid", "invalid", "duplicate", "conflict"}

\* import_rows: normalized_data, issues, status and target_identity.
StagedRow == [id : Ids \cup {None}, slug : Slugs \cup {Bad}, stable : Stables \cup {None},
              issues : BOOLEAN, status : Statuses, target : Ids \cup {None}]
Operation == [kind : {"create", "new_version", "skip", "conflict"},
              target : Ids \cup {None}, expected : Nat]

Init ==
    /\ type \in Types /\ file \in File /\ canonical \in Catalogs
    /\ snapshot = canonical /\ fate = "reading"
    /\ seen = {} /\ staged = << >> /\ plan = << >> /\ edits = 0

-----------------------------------------------------------------------------
(* validate_rows *)

Known == {o \in Ids : snapshot[o] # None}
OfType(o, t) == o \in Known /\ snapshot[o].type = t
BySlug(slug) == {o \in Known : OfType(o, type) /\ snapshot[o].slug = slug}
ByStable(stable) ==
    {o \in Known : stable # None /\ OfType(o, type) /\ snapshot[o].stable = stable}

\* validate_business_truth_payload: required fields, lists, rows and options, and an
\* active case study cites something.
PayloadRefused(row) ==
    /\ Ruled(type)
    /\ ~row.complete \/ (type = "case_study" /\ row.active /\ row.cites = "nothing")

\* _validate_normalized
Issues(row) ==
    \/ ~row.sound
    \/ row.slug = Bad
    \/ row.cites = "unknown"
    \/ Ruled(type) /\ row.refersTo # None /\ ~OfType(row.refersTo, "product")
    \/ PayloadRefused(row)

Match(o)    == [conflict |-> FALSE, target |-> o]
Conflict(o) == [conflict |-> TRUE, target |-> o]

\* The explicit id first, then the slug, then the stable identifier.
ResolveIdentity(row) ==
    LET named == BySlug(row.slug)
        alike == ByStable(row.stable)
    IN  CASE row.id # None ->
               IF ~OfType(row.id, type) THEN Conflict(None)
               ELSE IF row.slug # snapshot[row.id].slug THEN Conflict(row.id)
               ELSE Match(row.id)
          [] row.id = None /\ named # {} ->
               LET o == CHOOSE p \in named : TRUE
               IN  IF alike \subseteq {o} THEN Match(o) ELSE Conflict(o)
          [] row.id = None /\ named = {} /\ alike # {} ->
               LET o == CHOOSE p \in alike : TRUE
               IN  IF alike # {o} THEN Conflict(None)
                   ELSE IF row.slug # snapshot[o].slug THEN Conflict(o) ELSE Match(o)
          [] OTHER -> Match(None)

\* Mutant of IdentityKey: rows are remembered by their targets, new ones all alike.
MatchedOnly(row, target) == <<"object", target, None>>

IdentityKey(row, target) ==
    IF target # None THEN <<"object", target, None>> ELSE <<"slug", None, row.slug>>

\* A whole-source error ends the attempt; the job fails.
RefuseSource ==
    /\ fate = "reading" /\ file.defect # None
    /\ fate' = "refused"
    /\ UNCHANGED <<type, file, canonical, snapshot, seen, staged, plan, edits>>

ReadSource ==
    /\ fate = "reading" /\ file.defect = None
    /\ snapshot' = canonical /\ fate' = "validating"
    /\ UNCHANGED <<type, file, canonical, seen, staged, plan, edits>>

ValidateRow(row) ==
    LET found == ResolveIdentity(row)
        key == IdentityKey(row, found.target)
        status == CASE found.conflict -> "conflict"
                    [] ~found.conflict /\ Issues(row) -> "invalid"
                    [] ~found.conflict /\ ~Issues(row) /\ key \in seen -> "duplicate"
                    [] OTHER -> "valid"
    IN  /\ fate = "validating" /\ Len(staged) < file.rows
        /\ staged' = Append(staged,
              [id |-> row.id, slug |-> row.slug, stable |-> row.stable,
               issues |-> Issues(row), status |-> status, target |-> found.target])
        /\ seen' = IF status = "valid" THEN seen \cup {key} ELSE seen
        /\ UNCHANGED <<type, file, canonical, snapshot, fate, plan, edits>>

Persist ==
    /\ fate = "validating" /\ Len(staged) = file.rows
    /\ fate' = "ready_for_review"
    /\ UNCHANGED <<type, file, canonical, snapshot, seen, staged, plan, edits>>

-----------------------------------------------------------------------------
(* The owner meanwhile, and the plan. *)

\* create_version on an object, or create_object under a slug nobody has.
OwnerEdit == \E o \in Ids :
    /\ edits < MaxEdits /\ fate # "reading"
    /\ edits' = edits + 1
    /\ \/ /\ canonical[o] # None
          /\ canonical' = [canonical EXCEPT ![o].version = @ + 1]
       \/ /\ canonical[o] = None
          /\ \E slug \in Slugs :
                /\ \A p \in Ids : canonical[p] # None =>
                       <<canonical[p].type, canonical[p].slug>> # <<type, slug>>
                /\ canonical' = [canonical EXCEPT ![o] =
                      [type |-> type, slug |-> slug, stable |-> None, version |-> 1]]
    /\ UNCHANGED <<type, file, snapshot, fate, seen, staged, plan>>

Skip == [kind |-> "skip", target |-> None, expected |-> 0]
Clash == [kind |-> "conflict", target |-> None, expected |-> 0]
NewObject == [kind |-> "create", target |-> None, expected |-> 0]

\* Mutant of PlanRow: the current version is not compared with the one validated.
PlanUnchecked(s) ==
    CASE s.status \in {"invalid", "duplicate"} -> Skip
      [] s.status = "conflict" -> Clash
      [] s.status = "valid" /\ s.target = None -> NewObject
      [] OTHER -> [kind |-> "new_version", target |-> s.target,
                   expected |-> canonical[s.target].version]

PlanRow(s) ==
    CASE s.status \in {"invalid", "duplicate"} -> Skip
      [] s.status = "conflict" -> Clash
      [] s.status = "valid" /\ s.target = None -> NewObject
      [] s.status = "valid" /\ s.target # None
            /\ canonical[s.target].version # snapshot[s.target].version -> Clash
      [] OTHER -> [kind |-> "new_version", target |-> s.target,
                   expected |-> snapshot[s.target].version]

CreateChangeSet ==
    /\ fate = "ready_for_review" /\ staged # << >>
    /\ plan' = [i \in 1 .. Len(staged) |-> PlanRow(staged[i])]
    /\ fate' = "planned"
    /\ UNCHANGED <<type, file, canonical, snapshot, seen, staged, edits>>

Next ==
    \/ RefuseSource \/ ReadSource \/ Persist \/ OwnerEdit \/ CreateChangeSet
    \/ \E row \in RowsOf[type] : ValidateRow(row)

Spec == Init /\ [][Next]_vars

-----------------------------------------------------------------------------
TypeOK ==
    /\ type \in Types /\ file \in File
    /\ canonical \in [Ids -> Object \cup {None}] /\ snapshot \in [Ids -> Object \cup {None}]
    /\ fate \in {"reading", "refused", "validating", "ready_for_review", "planned"}
    /\ seen \subseteq {"object", "slug"} \X (Ids \cup {None}) \X (Slugs \cup {None, Bad})
    /\ staged \in Seq(StagedRow) /\ plan \in Seq(Operation)
    /\ edits \in 0 .. MaxEdits

\* What the branches of _resolve_identity amount to: all signals given name the
\* object that has the slug.  The stable identifier is not asked beside an id.
SignalsAgree(row) ==
    IF row.id # None THEN row.id \in BySlug(row.slug)
    ELSE ByStable(row.stable) \subseteq BySlug(row.slug)

Acceptable(row) == SignalsAgree(row) /\ ~row.issues

\* import_validation.py:165-245, 607-680.  Of the acceptable rows with one slug the
\* first is valid and the others duplicates; a row whose signals disagree is a
\* conflict whatever else is wrong; a valid row's target is the object of its slug.
VerdictIsExact == \A i \in 1 .. Len(staged) :
    LET s == staged[i]
        first == \A j \in 1 .. i - 1 : Acceptable(staged[j]) => staged[j].slug # s.slug
    IN  /\ s.status = "conflict" <=> ~SignalsAgree(s)
        /\ s.status \in {"valid", "duplicate"} <=> Acceptable(s)
        /\ s.status = "valid" <=> Acceptable(s) /\ first
        /\ s.status = "valid" => BySlug(s.slug) = {s.target} \ {None}

Writes(op) == op.kind \in {"create", "new_version"}

\* import_validation.py:216-234, import_change_sets.py:418-443.  No object and no new
\* slug is written twice by one plan, and what is written is at the version validated,
\* whatever the owner did in between.
PlanWritesOnce == \A i, j \in 1 .. Len(plan) :
    Writes(plan[i]) =>
        /\ Writes(plan[j]) /\ i # j => staged[i].slug # staged[j].slug
        /\ plan[i].kind = "new_version" =>
              /\ snapshot[plan[i].target].slug = staged[i].slug
              /\ plan[i].expected = snapshot[plan[i].target].version
=============================================================================
