------------------------- MODULE RowValidation_proofs -------------------------
(***************************************************************************)
(* Proofs about RowValidation for files of any length and any rows, any    *)
(* catalog and any number of owner edits: every verdict is what the row's  *)
(* own signals and the rows before it call for, and no plan writes an      *)
(* identity twice.                                                         *)
(***************************************************************************)
EXTENDS RowValidation, SequenceTheorems, TLAPS

-----------------------------------------------------------------------------
(* Identity.  The snapshot has no two objects of one type and slug. *)

Unique(c) == \A o, p \in Ids :
    /\ c[o] # None /\ c[p] # None
    /\ c[o].type = c[p].type /\ c[o].slug = c[p].slug
    => o = p

LEMMA SlugNamesOne ==
    ASSUME Unique(snapshot), NEW slug, NEW o \in BySlug(slug)
    PROVE  BySlug(slug) = {o}
BY DEF Unique, BySlug, OfType, Known

\* The branches of _resolve_identity come to this: a match when all the signals agree,
\* and then with the object that has the slug.
LEMMA ResolveIsExact ==
    ASSUME Unique(snapshot), NEW row \in Row
    PROVE  /\ ResolveIdentity(row).conflict \in BOOLEAN
           /\ ResolveIdentity(row).target \in Ids \cup {None}
           /\ ResolveIdentity(row).conflict <=> ~SignalsAgree(row)
           /\ ~ResolveIdentity(row).conflict =>
                 BySlug(row.slug) = {ResolveIdentity(row).target} \ {None}
<1> DEFINE found == ResolveIdentity(row)
           named == BySlug(row.slug)
           alike == ByStable(row.stable)
<1>1. named \subseteq Ids /\ alike \subseteq Ids /\ None \notin Ids
    BY ValueAssumption DEF BySlug, ByStable, Known
<1>2. CASE row.id # None
  <2>1. row.id \in Ids
      BY <1>2 DEF Row
  <2>2. SignalsAgree(row) <=> row.id \in named
      BY <1>2 DEF SignalsAgree
  <2>3. row.id \in named <=> OfType(row.id, type) /\ row.slug = snapshot[row.id].slug
      BY DEF BySlug, OfType
  <2>4. CASE ~OfType(row.id, type)
    <3>1. found = Conflict(None)
        BY <1>2, <2>4 DEF ResolveIdentity
    <3> QED BY <2>2, <2>3, <2>4, <3>1 DEF Conflict
  <2>5. CASE OfType(row.id, type) /\ row.slug # snapshot[row.id].slug
    <3>1. found = Conflict(row.id)
        BY <1>2, <2>5 DEF ResolveIdentity
    <3> QED BY <2>1, <2>2, <2>3, <2>5, <3>1 DEF Conflict
  <2>6. CASE OfType(row.id, type) /\ row.slug = snapshot[row.id].slug
    <3>1. found = Match(row.id)
        BY <1>2, <2>6 DEF ResolveIdentity
    <3>2. named = {row.id}
        BY <2>3, <2>6, SlugNamesOne
    <3> QED BY <1>1, <2>1, <2>2, <2>3, <2>6, <3>1, <3>2 DEF Match
  <2> QED BY <2>4, <2>5, <2>6
<1>3. CASE row.id = None /\ named # {}
  <2> DEFINE o == CHOOSE p \in named : TRUE
  <2>1. o \in named
      BY <1>3
  <2>2. named = {o} /\ o \in Ids /\ o # None
      BY <1>1, <2>1, SlugNamesOne
  <2>3. SignalsAgree(row) <=> alike \subseteq {o}
      BY <1>3, <2>2 DEF SignalsAgree
  <2>4. found = (IF alike \subseteq {o} THEN Match(o) ELSE Conflict(o))
      BY <1>3 DEF ResolveIdentity
  <2> HIDE DEF o, found
  <2> QED BY <2>2, <2>3, <2>4 DEF Match, Conflict, found
<1>4. CASE row.id = None /\ named = {} /\ alike # {}
  <2> DEFINE o == CHOOSE p \in alike : TRUE
  <2>1. o \in alike
      BY <1>4
  <2>2. ~SignalsAgree(row)
      BY <1>4 DEF SignalsAgree
  <2>3. row.slug # snapshot[o].slug
      BY <1>4, <2>1 DEF ByStable, BySlug
  <2>4. found = (IF alike # {o} THEN Conflict(None)
                 ELSE IF row.slug # snapshot[o].slug THEN Conflict(o) ELSE Match(o))
      BY <1>4 DEF ResolveIdentity
  <2>5. found \in {Conflict(None), Conflict(o)} /\ o \in Ids
      BY <1>1, <2>1, <2>3, <2>4
  <2>6. found.conflict = TRUE /\ found.target \in Ids \cup {None}
    <3> HIDE DEF o, found
    <3> QED BY <2>5 DEF Conflict
  <2> HIDE DEF o
  <2> QED BY <2>2, <2>6
<1>5. CASE row.id = None /\ named = {} /\ alike = {}
  <2>1. found = Match(None)
      BY <1>5 DEF ResolveIdentity
  <2> QED BY <1>5, <2>1 DEF Match, SignalsAgree
<1> QED BY <1>2, <1>3, <1>4, <1>5

\* What _row_identity_key remembers of a row that has the slug.
IsKey(k, slug) ==
    \/ BySlug(slug) = {} /\ k = <<"slug", None, slug>>
    \/ \E o \in BySlug(slug) : k = <<"object", o, None>>

LEMMA KeyOfRow ==
    ASSUME NEW row, NEW target \in Ids \cup {None}, BySlug(row.slug) = {target} \ {None}
    PROVE  IsKey(IdentityKey(row, target), row.slug)
BY ValueAssumption DEF IsKey, IdentityKey

\* A key stands for one slug, and a slug has one key.
LEMMA KeysApart ==
    ASSUME Unique(snapshot), NEW s, NEW t, NEW k, NEW l, IsKey(k, s), IsKey(l, t)
    PROVE  (k = l) <=> (s = t)
<1>1. ASSUME k = l PROVE s = t
    BY <1>1 DEF IsKey, BySlug
<1>2. ASSUME s = t PROVE k = l
  <2>1. CASE BySlug(s) = {}
      BY <1>2, <2>1 DEF IsKey
  <2>2. ASSUME NEW o \in BySlug(s) PROVE k = l
    <3>1. BySlug(s) = {o}
        BY <2>2, SlugNamesOne
    <3> QED BY <1>2, <3>1 DEF IsKey
  <2> QED BY <2>1, <2>2
<1> QED BY <1>1, <1>2

-----------------------------------------------------------------------------
(* The invariant. *)

\* The verdict on one row of a sequence of rows.
Exact(rows, i) ==
    /\ rows[i].status = "conflict" <=> ~SignalsAgree(rows[i])
    /\ rows[i].status \in {"valid", "duplicate"} <=> Acceptable(rows[i])
    /\ rows[i].status = "valid" <=>
          /\ Acceptable(rows[i])
          /\ \A j \in 1 .. i - 1 : Acceptable(rows[j]) => rows[j].slug # rows[i].slug
    /\ rows[i].status = "valid" => BySlug(rows[i].slug) = {rows[i].target} \ {None}

\* "seen" holds the keys of the acceptable rows, and only those.
Remembered ==
    /\ \A k \in seen : \E i \in 1 .. Len(staged) :
          Acceptable(staged[i]) /\ IsKey(k, staged[i].slug)
    /\ \A i \in 1 .. Len(staged) : Acceptable(staged[i]) =>
          \A k : IsKey(k, staged[i].slug) => k \in seen

\* What the plan does with a row that it writes.
Planned ==
    /\ plan # << >> => fate = "planned" /\ Len(plan) = Len(staged)
    /\ \A i \in 1 .. Len(plan) : Writes(plan[i]) =>
          /\ staged[i].status = "valid"
          /\ plan[i].kind = "new_version" =>
                /\ plan[i].target = staged[i].target /\ plan[i].target \in Ids
                /\ plan[i].expected = snapshot[plan[i].target].version

IInv == /\ TypeOK /\ Unique(canonical) /\ Unique(snapshot)
        /\ fate = "reading" => staged = << >> /\ seen = {}
        /\ \A i \in 1 .. Len(staged) : Exact(staged, i)
        /\ Remembered /\ Planned

LEMMA ExactIsVerdict ==
    (\A i \in 1 .. Len(staged) : Exact(staged, i)) <=> VerdictIsExact
BY DEF Exact, VerdictIsExact

-----------------------------------------------------------------------------
(* Each step keeps the invariant. *)

LEMMA InitIInv == Init => IInv
<1> SUFFICES ASSUME Init PROVE IInv
    OBVIOUS
<1>1. canonical \in [Ids -> Object \cup {None}]
    BY DEF Init, Catalogs, Object
<1>2. Unique(canonical)
    BY DEF Init, Catalogs, Unique
<1>3. TypeOK
    BY <1>1, BoundAssumption DEF Init, TypeOK
<1>4. Remembered /\ Planned
    BY DEF Init, Remembered, Planned
<1> QED BY <1>2, <1>3, <1>4 DEF Init, IInv

\* What a verdict says is about the snapshot and the rows only.
LEMMA VerdictsKept ==
    ASSUME UNCHANGED <<type, snapshot, staged, seen>>
    PROVE  /\ (\A i \in 1 .. Len(staged) : Exact(staged, i)) =>
                 (\A i \in 1 .. Len(staged) : Exact(staged, i))'
           /\ Remembered => Remembered'
BY DEF Exact, Remembered, Acceptable, SignalsAgree, BySlug, ByStable, OfType, Known, IsKey

LEMMA ReadSourceIInv == IInv /\ ReadSource => IInv'
<1> SUFFICES ASSUME IInv, ReadSource PROVE IInv'
    OBVIOUS
<1>1. TypeOK'
    BY DEF IInv, TypeOK, ReadSource
<1>2. staged' = << >> /\ seen' = {} /\ plan' = << >>
    BY DEF IInv, ReadSource, Planned
<1>3. (\A i \in 1 .. Len(staged) : Exact(staged, i))' /\ Remembered' /\ Planned'
    BY <1>2 DEF Remembered, Planned
<1>4. Unique(canonical)' /\ Unique(snapshot)'
    BY DEF IInv, ReadSource, Unique
<1> QED BY <1>1, <1>2, <1>3, <1>4 DEF IInv

LEMMA QuietIInv == IInv /\ (RefuseSource \/ Persist \/ UNCHANGED vars) => IInv'
<1> SUFFICES ASSUME IInv, RefuseSource \/ Persist \/ UNCHANGED vars PROVE IInv'
    OBVIOUS
<1> USE DEF RefuseSource, Persist, vars
<1>1. TypeOK'
    BY DEF IInv, TypeOK
<1>2. UNCHANGED <<type, snapshot, canonical, staged, seen, plan>>
    OBVIOUS
<1>3. Planned'
    BY <1>2 DEF IInv, Planned, Writes
<1>4. Unique(canonical)' /\ Unique(snapshot)'
    BY <1>2 DEF IInv, Unique
<1>5. (fate = "reading" => staged = << >> /\ seen = {})'
    BY DEF IInv
<1> QED BY <1>1, <1>2, <1>3, <1>4, <1>5, VerdictsKept DEF IInv

LEMMA OwnerEditIInv == IInv /\ OwnerEdit => IInv'
<1> SUFFICES ASSUME IInv, OwnerEdit PROVE IInv'
    OBVIOUS
<1>1. PICK o \in Ids :
         \/ canonical[o] # None /\ canonical' = [canonical EXCEPT ![o].version = @ + 1]
         \/ /\ canonical[o] = None
            /\ \E slug \in Slugs :
                 /\ \A p \in Ids : canonical[p] # None =>
                        <<canonical[p].type, canonical[p].slug>> # <<type, slug>>
                 /\ canonical' = [canonical EXCEPT ![o] =
                       [type |-> type, slug |-> slug, stable |-> None, version |-> 1]]
    BY DEF OwnerEdit
<1>2. UNCHANGED <<type, file, snapshot, fate, seen, staged, plan>> /\ edits' \in 0 .. MaxEdits
    BY BoundAssumption DEF OwnerEdit, IInv, TypeOK
<1>3. canonical' \in [Ids -> Object \cup {None}] /\ Unique(canonical)'
  <2>1. canonical \in [Ids -> Object \cup {None}] /\ Unique(canonical) /\ type \in Types
      BY DEF IInv, TypeOK
  <2>2. CASE canonical[o] # None /\ canonical' = [canonical EXCEPT ![o].version = @ + 1]
    <3>1. canonical[o] \in Object
        BY <2>1, <2>2
    <3> DEFINE w == [canonical[o] EXCEPT !.version = @ + 1]
    <3>2. w \in Object /\ w.type = canonical[o].type /\ w.slug = canonical[o].slug
        BY <3>1 DEF Object
    <3>3. canonical' = [canonical EXCEPT ![o] = w]
        BY <2>2
    <3> HIDE DEF w
    <3> QED BY <2>1, <2>2, <3>2, <3>3 DEF Unique
  <2>3. ASSUME canonical[o] = None, NEW slug \in Slugs,
               \A p \in Ids : canonical[p] # None =>
                   <<canonical[p].type, canonical[p].slug>> # <<type, slug>>,
               canonical' = [canonical EXCEPT ![o] =
                   [type |-> type, slug |-> slug, stable |-> None, version |-> 1]]
        PROVE  canonical' \in [Ids -> Object \cup {None}] /\ Unique(canonical)'
    <3> DEFINE w == [type |-> type, slug |-> slug, stable |-> None, version |-> 1]
    <3>1. w \in Object /\ w.type = type /\ w.slug = slug
        BY <2>1 DEF Object
    <3>2. canonical' = [canonical EXCEPT ![o] = w]
        BY <2>3
    <3> HIDE DEF w
    <3> QED BY <2>1, <2>3, <3>1, <3>2 DEF Unique
  <2> QED BY <1>1, <2>2, <2>3
<1>4. TypeOK'
    BY <1>2, <1>3 DEF IInv, TypeOK
<1>5. Planned'
    BY <1>2 DEF IInv, Planned, Writes
<1>6. Unique(snapshot)' /\ (fate = "reading" => staged = << >> /\ seen = {})'
    BY <1>2 DEF IInv, Unique
<1> QED BY <1>2, <1>3, <1>4, <1>5, <1>6, VerdictsKept DEF IInv

\* A valid row's target is no object or one the snapshot has.
LEMMA TargetIsKnown ==
    ASSUME IInv, NEW i \in 1 .. Len(staged), staged[i].status = "valid"
    PROVE  /\ staged[i].target = None => BySlug(staged[i].slug) = {}
           /\ staged[i].target # None =>
                 /\ BySlug(staged[i].slug) = {staged[i].target}
                 /\ staged[i].target \in Ids
                 /\ snapshot[staged[i].target] \in Object
                 /\ snapshot[staged[i].target].slug = staged[i].slug
<1>1. BySlug(staged[i].slug) = {staged[i].target} \ {None}
    BY DEF IInv, Exact
<1>2. CASE staged[i].target = None
    BY <1>1, <1>2
<1>3. CASE staged[i].target # None
  <2>1. BySlug(staged[i].slug) = {staged[i].target}
      BY <1>1, <1>3
  <2>2. staged[i].target \in BySlug(staged[i].slug)
      BY <2>1
  <2>3. staged[i].target \in Ids /\ snapshot[staged[i].target] # None
        /\ snapshot[staged[i].target].slug = staged[i].slug
      BY <2>2 DEF BySlug, Known
  <2> QED BY <1>3, <2>1, <2>3 DEF IInv, TypeOK
<1> QED BY <1>2, <1>3

LEMMA CreateChangeSetIInv == IInv /\ CreateChangeSet => IInv'
<1> SUFFICES ASSUME IInv, CreateChangeSet PROVE IInv'
    OBVIOUS
<1>1. /\ UNCHANGED <<type, file, canonical, snapshot, seen, staged, edits>>
      /\ fate' = "planned" /\ plan' = [i \in 1 .. Len(staged) |-> PlanRow(staged[i])]
    BY DEF CreateChangeSet
<1>2. staged \in Seq(StagedRow) /\ Len(staged) \in Nat
    BY DEF IInv, TypeOK
<1>3. ASSUME NEW i \in 1 .. Len(staged)
      PROVE  /\ PlanRow(staged[i]) \in Operation
             /\ Writes(PlanRow(staged[i])) =>
                   /\ staged[i].status = "valid"
                   /\ PlanRow(staged[i]).kind = "new_version" =>
                         /\ PlanRow(staged[i]).target = staged[i].target
                         /\ PlanRow(staged[i]).target \in Ids
                         /\ PlanRow(staged[i]).expected
                               = snapshot[PlanRow(staged[i]).target].version
  <2> DEFINE s == staged[i]
  <2>1. s \in StagedRow
      BY <1>2, <1>3
  <2>2. s.status \in Statuses
      BY <2>1 DEF StagedRow
  <2>3. CASE s.status \in {"invalid", "duplicate"}
    <3>1. PlanRow(s) = Skip
        BY <2>3 DEF PlanRow
    <3> QED BY <3>1 DEF Skip, Operation, Writes
  <2>4. CASE s.status = "conflict"
    <3>1. PlanRow(s) = Clash
        BY <2>4 DEF PlanRow
    <3> QED BY <3>1 DEF Clash, Operation, Writes
  <2>5. CASE s.status = "valid" /\ s.target = None
    <3>1. PlanRow(s) = NewObject
        BY <2>5 DEF PlanRow
    <3> QED BY <2>5, <3>1 DEF NewObject, Operation, Writes
  <2>6. CASE s.status = "valid" /\ s.target # None
    <3>1. s.target \in Ids /\ snapshot[s.target].version \in Nat
        BY <2>6, TargetIsKnown DEF Object
    <3>2. PlanRow(s) = Clash \/ PlanRow(s) = [kind |-> "new_version", target |-> s.target,
                                              expected |-> snapshot[s.target].version]
        BY <2>6 DEF PlanRow
    <3> HIDE DEF s
    <3>3. QED BY <2>6, <3>1, <3>2 DEF Clash, Operation, Writes, s
  <2> QED BY <2>2, <2>3, <2>4, <2>5, <2>6 DEF Statuses
<1>4. plan' \in Seq(Operation) /\ Len(plan') = Len(staged)
    BY <1>1, <1>2, <1>3
<1>5. TypeOK'
    BY <1>1, <1>4 DEF IInv, TypeOK
<1>6. Planned'
    BY <1>1, <1>3, <1>4 DEF Planned, Writes
<1>7. Unique(canonical)' /\ Unique(snapshot)'
      /\ (fate = "reading" => staged = << >> /\ seen = {})'
    BY <1>1 DEF IInv, Unique
<1> QED BY <1>1, <1>5, <1>6, <1>7, VerdictsKept DEF IInv

\* The row's key has been claimed just when an acceptable row before it has its slug.
LEMMA SeenIsClaimed ==
    ASSUME IInv, NEW slug, NEW key, IsKey(key, slug)
    PROVE  key \in seen <=>
               \E i \in 1 .. Len(staged) : Acceptable(staged[i]) /\ staged[i].slug = slug
<1>1. ASSUME key \in seen
      PROVE  \E i \in 1 .. Len(staged) : Acceptable(staged[i]) /\ staged[i].slug = slug
  <2>1. PICK i \in 1 .. Len(staged) : Acceptable(staged[i]) /\ IsKey(key, staged[i].slug)
      BY <1>1 DEF IInv, Remembered
  <2>2. staged[i].slug = slug
      BY <2>1, KeysApart DEF IInv
  <2> QED BY <2>1, <2>2
<1>2. ASSUME NEW i \in 1 .. Len(staged), Acceptable(staged[i]), staged[i].slug = slug
      PROVE  key \in seen
    BY <1>2 DEF IInv, Remembered
<1> QED BY <1>1, <1>2

LEMMA ValidateRowIInv ==
    ASSUME IInv, NEW row \in RowsOf[type], ValidateRow(row)
    PROVE  IInv'
<1> DEFINE found == ResolveIdentity(row)
           key == IdentityKey(row, found.target)
           status == CASE found.conflict -> "conflict"
                       [] ~found.conflict /\ Issues(row) -> "invalid"
                       [] ~found.conflict /\ ~Issues(row) /\ key \in seen -> "duplicate"
                       [] OTHER -> "valid"
           new == [id |-> row.id, slug |-> row.slug, stable |-> row.stable,
                   issues |-> Issues(row), status |-> status, target |-> found.target]
           n == Len(staged)
<1>1. /\ fate = "validating" /\ staged' = Append(staged, new)
      /\ seen' = IF status = "valid" THEN seen \cup {key} ELSE seen
      /\ UNCHANGED <<type, file, canonical, snapshot, fate, plan, edits>>
    BY DEF ValidateRow
<1>2. row \in Row /\ n \in Nat /\ staged \in Seq(StagedRow)
    BY DEF IInv, TypeOK, RowsOf
<1>3. /\ found.conflict \in BOOLEAN /\ found.target \in Ids \cup {None}
      /\ found.conflict <=> ~SignalsAgree(row)
      /\ ~found.conflict => BySlug(row.slug) = {found.target} \ {None}
    BY <1>2, ResolveIsExact DEF IInv
<1>4. key \in {"object", "slug"} \X (Ids \cup {None}) \X (Slugs \cup {None, Bad})
    BY <1>2, <1>3 DEF IdentityKey, Row
<1>5. ~found.conflict => IsKey(key, row.slug)
    BY <1>3, KeyOfRow
<1>6. ~found.conflict => (key \in seen <=>
          \E i \in 1 .. n : Acceptable(staged[i]) /\ staged[i].slug = row.slug)
    BY <1>5, SeenIsClaimed
<1> HIDE DEF found, key
<1>7. /\ status \in Statuses
      /\ status = "conflict" <=> found.conflict
      /\ status \in {"valid", "duplicate"} <=> ~found.conflict /\ ~Issues(row)
      /\ status = "valid" <=> ~found.conflict /\ ~Issues(row) /\ key \notin seen
    BY <1>3 DEF Statuses
<1> HIDE DEF status
<1>8. Issues(row) \in BOOLEAN
    BY DEF Issues
<1>9. new \in StagedRow
    BY <1>2, <1>3, <1>7, <1>8 DEF Row, StagedRow
<1>10. (SignalsAgree(new) <=> ~found.conflict)
       /\ (Acceptable(new) <=> ~found.conflict /\ ~Issues(row))
  <2>1. SignalsAgree(new) <=> SignalsAgree(row)
      BY DEF SignalsAgree
  <2> QED BY <1>3, <2>1 DEF Acceptable
<1>11. /\ new.slug = row.slug /\ new.status = status /\ new.target = found.target
    OBVIOUS
<1> HIDE DEF new
<1>12. /\ Len(staged') = n + 1 /\ staged'[n + 1] = new
       /\ \A i \in 1 .. n : staged'[i] = staged[i]
    BY <1>1, <1>2, <1>9
<1>13. TypeOK'
  <2>1. staged' \in Seq(StagedRow)
      BY <1>1, <1>2, <1>9
  <2>2. seen' \subseteq {"object", "slug"} \X (Ids \cup {None}) \X (Slugs \cup {None, Bad})
      BY <1>1, <1>4 DEF IInv, TypeOK
  <2> HIDE DEF n
  <2> QED BY <1>1, <2>1, <2>2 DEF IInv, TypeOK
<1>14. \A i \in 1 .. n + 1 : Exact(staged', i)
  <2>1. ASSUME NEW i \in 1 .. n PROVE Exact(staged', i)
    <3>1. Exact(staged, i)
        BY <2>1 DEF IInv
    <3>2. \A j \in 1 .. i - 1 : staged'[j] = staged[j]
        BY <1>2, <1>12, <2>1
    <3> QED BY <1>12, <2>1, <3>1, <3>2 DEF Exact
  <2>2. Exact(staged', n + 1)
    <3>1. \A j \in 1 .. (n + 1) - 1 : j \in 1 .. n
        BY <1>2
    <3>2. \A j \in 1 .. n : j \in 1 .. (n + 1) - 1
        BY <1>2
    <3>3. (~found.conflict => (key \notin seen <=>
             \A j \in 1 .. (n + 1) - 1 : Acceptable(staged'[j]) => staged'[j].slug # row.slug))
        BY <1>6, <1>12, <3>1, <3>2
    <3>4. new.status = "valid" <=>
             /\ Acceptable(new)
             /\ \A j \in 1 .. (n + 1) - 1 : Acceptable(staged'[j]) => staged'[j].slug # new.slug
        BY <1>7, <1>10, <1>11, <3>3
    <3> QED BY <1>3, <1>7, <1>10, <1>11, <1>12, <3>4 DEF Exact
  <2> QED BY <1>2, <2>1, <2>2
<1>15. (\A i \in 1 .. Len(staged) : Exact(staged, i))'
  <2>1. \A i \in 1 .. Len(staged') : Exact(staged', i)
      BY <1>12, <1>14
  <2> QED BY <1>1, <2>1 DEF Exact, Acceptable, SignalsAgree, BySlug, ByStable, OfType, Known
<1>16. Remembered'
  <2>1. \A k \in seen' : \E i \in 1 .. n + 1 :
           Acceptable(staged'[i]) /\ IsKey(k, staged'[i].slug)
    <3>1. ASSUME NEW k \in seen
          PROVE  \E i \in 1 .. n + 1 : Acceptable(staged'[i]) /\ IsKey(k, staged'[i].slug)
      <4>1. PICK i \in 1 .. n : Acceptable(staged[i]) /\ IsKey(k, staged[i].slug)
          BY DEF IInv, Remembered
      <4> QED BY <1>2, <1>12, <4>1
    <3>2. status = "valid" => Acceptable(staged'[n + 1]) /\ IsKey(key, staged'[n + 1].slug)
        BY <1>5, <1>7, <1>10, <1>11, <1>12
    <3> QED BY <1>1, <1>2, <3>1, <3>2
  <2>2. ASSUME NEW i \in 1 .. n + 1, Acceptable(staged'[i]), NEW k, IsKey(k, staged'[i].slug)
        PROVE  k \in seen'
    <3>1. CASE i \in 1 .. n
        BY <1>1, <1>12, <2>2, <3>1 DEF IInv, Remembered
    <3>2. CASE i = n + 1
      <4>1. ~found.conflict /\ ~Issues(row) /\ IsKey(k, row.slug)
          BY <1>10, <1>11, <1>12, <2>2, <3>2
      <4>2. k = key
          BY <1>5, <4>1, KeysApart DEF IInv
      <4> QED BY <1>1, <1>7, <4>1, <4>2
    <3> QED BY <1>2, <2>2, <3>1, <3>2
  <2>3. /\ \A k \in seen' : \E i \in 1 .. Len(staged') :
             Acceptable(staged'[i]) /\ IsKey(k, staged'[i].slug)
        /\ \A i \in 1 .. Len(staged') : Acceptable(staged'[i]) =>
             \A k : IsKey(k, staged'[i].slug) => k \in seen'
      BY <1>12, <2>1, <2>2
  <2> QED BY <1>1, <2>3
          DEF Remembered, Acceptable, SignalsAgree, BySlug, ByStable, OfType, Known, IsKey
<1>17. Planned'
  <2>1. plan = << >>
      BY <1>1 DEF IInv, Planned
  <2> QED BY <1>1, <2>1 DEF Planned
<1>18. Unique(canonical)' /\ Unique(snapshot)'
       /\ (fate = "reading" => staged = << >> /\ seen = {})'
    BY <1>1 DEF IInv, Unique
<1> QED BY <1>13, <1>15, <1>16, <1>17, <1>18 DEF IInv

-----------------------------------------------------------------------------
(* What follows for every behaviour. *)

\* The invariant holds throughout an attempt, its plan and the owner's edits.
THEOREM Invariance == Spec => []IInv
<1>1. IInv /\ [Next]_vars => IInv'
  <2> SUFFICES ASSUME IInv, [Next]_vars PROVE IInv'
      OBVIOUS
  <2>1. CASE RefuseSource \/ Persist \/ UNCHANGED vars
      BY <2>1, QuietIInv
  <2>2. CASE ReadSource
      BY <2>2, ReadSourceIInv
  <2>3. CASE OwnerEdit
      BY <2>3, OwnerEditIInv
  <2>4. CASE CreateChangeSet
      BY <2>4, CreateChangeSetIInv
  <2>5. ASSUME NEW row \in RowsOf[type], ValidateRow(row) PROVE IInv'
      BY <2>5, ValidateRowIInv
  <2> QED BY <2>1, <2>2, <2>3, <2>4, <2>5 DEF Next
<1> QED BY InitIInv, <1>1, PTL DEF Spec

\* Every state of an attempt is typed: every verdict and operation is of its kind, and
\* what a row is remembered by is an object or a slug.
THEOREM TypeCorrect == Spec => []TypeOK
<1>1. IInv => TypeOK
    BY DEF IInv
<1> QED BY <1>1, Invariance, PTL

\* Each staged row's verdict is the one its signals and the rows before it call for.
THEOREM VerdictsAreExact == Spec => []VerdictIsExact
<1>1. IInv => VerdictIsExact
    BY ExactIsVerdict DEF IInv
<1> QED BY <1>1, Invariance, PTL

\* Of the rows a plan writes no two have one slug, and each writes the object of its
\* slug at the version that was validated.
THEOREM PlanIsSingle == Spec => []PlanWritesOnce
<1>1. ASSUME IInv PROVE PlanWritesOnce
  <2> SUFFICES ASSUME NEW i \in 1 .. Len(plan), NEW j \in 1 .. Len(plan), Writes(plan[i])
               PROVE  /\ Writes(plan[j]) /\ i # j => staged[i].slug # staged[j].slug
                      /\ plan[i].kind = "new_version" =>
                            /\ snapshot[plan[i].target].slug = staged[i].slug
                            /\ plan[i].expected = snapshot[plan[i].target].version
      BY DEF PlanWritesOnce
  <2>1. plan # << >> /\ Len(plan) = Len(staged) /\ Len(staged) \in Nat
      BY <1>1 DEF IInv, TypeOK, Planned
  <2>2. staged[i].status = "valid" /\ (Writes(plan[j]) => staged[j].status = "valid")
      BY <1>1 DEF IInv, Planned
  <2>3. ASSUME Writes(plan[j]), i # j PROVE staged[i].slug # staged[j].slug
    <3>1. Exact(staged, i) /\ Exact(staged, j)
        BY <1>1, <2>1 DEF IInv
    <3>2. CASE j < i
        BY <2>1, <2>2, <2>3, <3>1, <3>2 DEF Exact
    <3>3. CASE i < j
        BY <2>1, <2>2, <2>3, <3>1, <3>3 DEF Exact
    <3> QED BY <2>1, <2>3, <3>2, <3>3
  <2>4. ASSUME plan[i].kind = "new_version"
        PROVE  /\ snapshot[plan[i].target].slug = staged[i].slug
               /\ plan[i].expected = snapshot[plan[i].target].version
    <3>1. /\ plan[i].target = staged[i].target /\ plan[i].target \in Ids
          /\ plan[i].expected = snapshot[plan[i].target].version
        BY <1>1, <2>4 DEF IInv, Planned
    <3>2. plan[i].target # None
        BY <3>1, ValueAssumption
    <3> QED BY <1>1, <2>1, <2>2, <3>1, <3>2, TargetIsKnown
  <2> QED BY <2>3, <2>4
<1> QED BY <1>1, Invariance, PTL
=============================================================================
