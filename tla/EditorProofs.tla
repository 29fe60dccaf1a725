---------------------------- MODULE EditorProofs ----------------------------
(***************************************************************************)
(* Proofs about the definition form and its editors, for any datasources,  *)
(* tables, queries, columns, hooks and bounds: the types, that a saved     *)
(* definition has the columns of its own table, that what looks complete   *)
(* is accepted, that action ids are unique, and that the inputs show what  *)
(* is stored, or a text that was refused and is marked, until a removal    *)
(* hands one on.                                                           *)
(***************************************************************************)
EXTENDS DefinitionForm, ColumnEditors, HookEditors, OrderedProofs
-----------------------------------------------------------------------------
(* The definition form.                                                    *)

\* In table mode the columns the form holds are those of the chosen table, or none,
\* unless a query's came late; what is being saved was so when it was sent.
DraftFollowsTable ==
  /\ draft.source = "table" /\ ~lateCols /\ draft.cols # Nothing => draft.cols = Chosen(draft)
  /\ SavedAsInspected

DraftInv == DraftTypeOK /\ DraftFollowsTable

LEMMA BlankIsDraft == Blank \in Draft
BY DEF Blank, Draft

LEMMA NamesHold ==
  \A r \in Read \cup Validated : ColumnsOf[r] \subseteq Names /\ PkOf[r] \subseteq Names
BY DefinitionFormAssumption DEF Names

\* What cannot be chosen is not cached either.
LEMMA CachedIsChosen ==
  ASSUME NEW d \in Draft, NEW cached \in SUBSET Read, Chosen(d) \in cached
  PROVE  Chosen(d) \in Read /\ Chosen(d) # Nothing
BY DefinitionFormAssumption DEF Chosen, Read

\* The populating effect leaves the choices alone, and sets columns of the chosen table.
LEMMA PopulatedDraft ==
  ASSUME NEW d \in Draft, NEW cached \in SUBSET Read
  PROVE  /\ Populated(d, cached) \in Draft
         /\ Populated(d, cached).ds = d.ds /\ Populated(d, cached).table = d.table
         /\ Populated(d, cached).source = d.source
         /\ Populated(d, cached).cols \in {d.cols, Chosen(d)}
<1>1. CASE Deps(d, cached) # populatedFor /\ Chosen(d) \in cached
  <2> DEFINE keys == IF d.keys # {} THEN d.keys ELSE PkOf[Chosen(d)]
  <2>1. Populated(d, cached) = [d EXCEPT !.cols = Chosen(d), !.keys = keys]
    BY <1>1 DEF Populated
  <2>2. Chosen(d) \in Read
    BY <1>1, CachedIsChosen
  <2>3. keys \in SUBSET Names
    BY <2>2, NamesHold DEF Draft
  <2> QED
    BY <2>1, <2>2, <2>3 DEF Draft
<1>2. CASE ~(Deps(d, cached) # populatedFor /\ Chosen(d) \in cached)
  BY <1>2 DEF Populated
<1> QED
  BY <1>1, <1>2

\* A rendering keeps the types, and the populating effect is up to date after it.
LEMMA RenderDraft ==
  ASSUME NEW d \in Draft, NEW cached \in SUBSET Read, Render(d, cached)
  PROVE  /\ draft' \in Draft
         /\ draft'.source = d.source /\ Chosen(draft') = Chosen(d)
         /\ draft'.cols \in {d.cols, Chosen(d)}
         /\ Enabled(draft') /\ Chosen(draft') \in cached =>
              populatedFor' = <<Chosen(draft'), draft'.table, draft'.ds>>
<1>1. draft' = Populated(d, cached) /\ populatedFor' = Deps(d, cached)
  BY DEF Render
<1>2. /\ draft' \in Draft /\ draft'.ds = d.ds /\ draft'.table = d.table
      /\ draft'.source = d.source /\ draft'.cols \in {d.cols, Chosen(d)}
  BY <1>1, PopulatedDraft
<1>3. Chosen(draft') = Chosen(d)
  BY <1>2 DEF Chosen
<1> QED
  BY <1>1, <1>2, <1>3 DEF Deps

\* After a choice that leaves no columns, those in the form are the chosen table's.
LEMMA ChooseKeeps ==
  ASSUME DraftInv, NEW d \in Draft, Choose(d), d.cols = Nothing,
         validating' \in validations \cup {Nothing}, lateCols' \in BOOLEAN
  PROVE  DraftInv'
<1>1. liveCols \in SUBSET Read /\ colFetches \subseteq Read
  BY DEF DraftInv, DraftTypeOK
<1>2. /\ draft' \in Draft /\ draft'.source = d.source /\ Chosen(draft') = Chosen(d)
      /\ draft'.cols \in {Nothing, Chosen(d)}
      /\ Enabled(draft') /\ Chosen(draft') \in liveCols =>
           populatedFor' = <<Chosen(draft'), draft'.table, draft'.ds>>
  BY <1>1, RenderDraft DEF Choose
<1>3. colFetches' \subseteq Read
  <2>1. Enabled(d) => Chosen(d) \in Read
    BY DEF Enabled, IsChosen, Chosen, Draft, Read
  <2> QED
    BY <1>1, <2>1 DEF Choose, ReadsFor
<1>4. DraftTypeOK'
  BY <1>1, <1>2, <1>3 DEF Choose, DraftInv, DraftTypeOK, Enabled, IsChosen, Chosen
<1>5. DraftFollowsTable'
  BY <1>2 DEF Choose, DraftInv, DraftFollowsTable, SavedAsInspected
<1> QED
  BY <1>4, <1>5 DEF DraftInv

LEMMA DraftInvInit == DraftInit => DraftInv
<1> SUFFICES ASSUME DraftInit PROVE DraftInv
  OBVIOUS
<1>1. DraftTypeOK
  BY BlankIsDraft DEF DraftInit, DraftTypeOK, Blank, Enabled, IsChosen
<1>2. DraftFollowsTable
  BY DEF DraftInit, DraftFollowsTable, SavedAsInspected, Blank
<1> QED
  BY <1>1, <1>2 DEF DraftInv

\* A saved definition is complete, so that it has columns, and its keys are among them.
LEMMA SaveKeeps == DraftInv /\ SaveDef => DraftInv'
<1> SUFFICES ASSUME DraftInv, SaveDef PROVE DraftInv'
  OBVIOUS
<1>1. DraftTypeOK'
  BY DEF SaveDef, DraftInv, DraftTypeOK, Enabled, IsChosen, Chosen
<1>2. SavedAsInspected'
  <2> SUFFICES ASSUME sentDef'.def.source = "table", ~sentDef'.late
               PROVE  /\ sentDef'.def.cols = <<sentDef'.def.ds, sentDef'.def.table>>
                      /\ sentDef'.def.keys # {}
                      /\ sentDef'.def.keys \subseteq ColumnsOf[sentDef'.def.cols]
    BY DEF SavedAsInspected
  <2>1. draft \in Draft
    BY DEF DraftInv, DraftTypeOK
  <2> DEFINE sent == [draft EXCEPT !.table = IF draft.source = "query" THEN Nothing ELSE @,
                                   !.sql = IF draft.source = "query" THEN @ ELSE Nothing]
  <2>2. sentDef'.def = sent /\ sentDef'.late = lateCols
    BY DEF SaveDef
  <2>3. /\ sent.source = draft.source /\ sent.ds = draft.ds
        /\ sent.cols = draft.cols /\ sent.keys = draft.keys
        /\ draft.source # "query" => sent.table = draft.table
    BY <2>1 DEF Draft
  <2>4. draft.source = "table" /\ ~lateCols
    BY <2>2, <2>3
  <2>5. draft.keys # {} /\ draft.cols # Nothing /\ draft.keys \subseteq ColumnsOf[draft.cols]
    BY <2>4 DEF SaveDef, KeysValid
  <2>6. draft.cols = <<draft.ds, draft.table>>
    BY <2>4, <2>5 DEF DraftInv, DraftFollowsTable, Chosen
  <2> QED
    BY <2>2, <2>3, <2>4, <2>5, <2>6
<1>3. DraftFollowsTable'
  BY <1>2 DEF SaveDef, DraftInv, DraftFollowsTable, Chosen
<1> QED
  BY <1>1, <1>3 DEF DraftInv

LEMMA DraftInvStep == DraftInv /\ [DraftNext]_draftVars => DraftInv'
<1> SUFFICES ASSUME DraftInv, [DraftNext]_draftVars PROVE DraftInv'
  OBVIOUS
<1>0. /\ draft \in Draft /\ liveCols \in SUBSET Read /\ colFetches \subseteq Read
      /\ validations \subseteq Validated /\ validating \in validations \cup {Nothing}
      /\ lateCols \in BOOLEAN
  BY DEF DraftInv, DraftTypeOK
<1>1. ASSUME NEW s \in Sources, ChooseSource(s) PROVE DraftInv'
  <2> DEFINE d == [draft EXCEPT !.ds = s, !.table = Nothing, !.cols = Nothing]
  <2>1. d \in Draft /\ d.cols = Nothing
    BY <1>0 DEF Draft
  <2> HIDE DEF d
  <2> QED
    BY <1>0, <1>1, <2>1, ChooseKeeps DEF ChooseSource, d
<1>2. ASSUME NEW t \in LiveTables, ChooseTable(t) PROVE DraftInv'
  <2> DEFINE d == [draft EXCEPT !.table = t, !.cols = Nothing, !.keys = {}]
  <2>1. d \in Draft /\ d.cols = Nothing
    BY <1>0 DEF Draft
  <2> HIDE DEF d
  <2> QED
    BY <1>0, <1>2, <2>1, ChooseKeeps DEF ChooseTable, d
<1>3. ASSUME NEW st \in {"table", "query"}, SwitchSource(st) PROVE DraftInv'
  <2> DEFINE d == [draft EXCEPT !.source = st, !.cols = Nothing, !.keys = {}]
  <2>1. d \in Draft /\ d.cols = Nothing
    BY <1>0 DEF Draft
  <2> HIDE DEF d
  <2> QED
    BY <1>0, <1>3, <2>1, ChooseKeeps DEF SwitchSource, d
<1>4. ASSUME NEW q \in Sqls, TypeSql(q) PROVE DraftInv'
  <2>1. /\ draft' \in Draft /\ draft'.source = draft.source /\ draft'.ds = draft.ds
        /\ draft'.table = draft.table /\ draft'.cols = draft.cols
    BY <1>0, <1>4 DEF TypeSql, Draft
  <2> QED
    BY <1>4, <2>1 DEF TypeSql, DraftInv, DraftTypeOK, DraftFollowsTable, SavedAsInspected,
                      Enabled, IsChosen, Chosen
<1>5. ASSUME NEW n \in Names, ToggleKey(n) PROVE DraftInv'
  <2>1. /\ draft' \in Draft /\ draft'.source = draft.source /\ draft'.ds = draft.ds
        /\ draft'.table = draft.table /\ draft'.cols = draft.cols
    BY <1>0, <1>5 DEF ToggleKey, Draft
  <2> QED
    BY <1>5, <2>1 DEF ToggleKey, DraftInv, DraftTypeOK, DraftFollowsTable, SavedAsInspected,
                      Enabled, IsChosen, Chosen
<1>6. CASE Validate
  <2>1. validating' \in Validated
    BY <1>0, <1>6 DEF Validate, Draft, Validated
  <2> QED
    BY <1>0, <1>6, <2>1 DEF Validate, DraftInv, DraftTypeOK, DraftFollowsTable, SavedAsInspected,
                      Enabled, IsChosen, Chosen
<1>7. ASSUME NEW r \in colFetches, ColumnsArrive(r) PROVE DraftInv'
  <2>1. liveCols' \in SUBSET Read /\ Render(draft, liveCols')
    BY <1>0, <1>7 DEF ColumnsArrive
  <2>2. /\ draft' \in Draft /\ draft'.source = draft.source /\ Chosen(draft') = Chosen(draft)
        /\ draft'.cols \in {draft.cols, Chosen(draft)}
        /\ Enabled(draft') /\ Chosen(draft') \in liveCols' =>
             populatedFor' = <<Chosen(draft'), draft'.table, draft'.ds>>
    BY <1>0, <2>1, RenderDraft
  <2>3. DraftTypeOK'
    BY <1>0, <1>7, <2>1, <2>2 DEF ColumnsArrive, DraftTypeOK, Enabled, IsChosen, Chosen
  <2>4. DraftFollowsTable'
    BY <1>7, <2>2 DEF ColumnsArrive, DraftInv, DraftFollowsTable, SavedAsInspected
  <2> QED
    BY <2>3, <2>4 DEF DraftInv
<1>8. ASSUME NEW r \in colFetches, ColumnsFail(r) PROVE DraftInv'
  BY <1>8 DEF ColumnsFail, DraftInv, DraftTypeOK, DraftFollowsTable, SavedAsInspected,
              Enabled, IsChosen, Chosen
<1>9. ASSUME NEW q \in validations, QueryValidated(q) PROVE DraftInv'
  <2> DEFINE keys == IF draft.keys # {} THEN draft.keys ELSE PkOf[q]
  <2>1. keys \in SUBSET Names
    BY <1>0, NamesHold DEF Draft
  <2>2. draft' = [draft EXCEPT !.cols = q, !.keys = keys]
    BY <1>9 DEF QueryValidated
  <2>3. /\ draft' \in Draft /\ draft'.source = draft.source /\ draft'.ds = draft.ds
        /\ draft'.table = draft.table
    BY <1>0, <2>1, <2>2 DEF Draft
  <2>4. validating' \in validations' \cup {Nothing} /\ validations' \subseteq Validated
        /\ lateCols' \in BOOLEAN /\ (draft.source = "table" => lateCols')
    BY <1>0, <1>9 DEF QueryValidated
  <2>5. DraftTypeOK'
    BY <1>0, <1>9, <2>3, <2>4 DEF QueryValidated, DraftInv, DraftTypeOK, Enabled, IsChosen, Chosen
  <2>6. DraftFollowsTable'
    BY <1>9, <2>3, <2>4 DEF QueryValidated, DraftInv, DraftFollowsTable, SavedAsInspected
  <2> QED
    BY <2>5, <2>6 DEF DraftInv
<1>10. ASSUME NEW q \in validations, QueryRefused(q) PROVE DraftInv'
  BY <1>10 DEF QueryRefused, DraftInv, DraftTypeOK, DraftFollowsTable, SavedAsInspected,
               Enabled, IsChosen, Chosen
<1>11. CASE SaveDef
  BY <1>11, SaveKeeps
<1>12. CASE DefRefused
  BY <1>12 DEF DefRefused, DraftInv, DraftTypeOK, DraftFollowsTable, SavedAsInspected,
               Enabled, IsChosen, Chosen
<1>13. CASE LeaveForm
  <2>1. draft' \in Draft /\ draft'.ds = Nothing /\ draft'.cols = Nothing
    BY <1>13, BlankIsDraft DEF LeaveForm, Blank
  <2> QED
    BY <1>0, <1>13, <2>1 DEF LeaveForm, DraftInv, DraftTypeOK, DraftFollowsTable,
                             SavedAsInspected, Enabled, IsChosen
<1>14. CASE UNCHANGED draftVars
  BY <1>14 DEF draftVars, DraftInv, DraftTypeOK, DraftFollowsTable, SavedAsInspected,
               Enabled, IsChosen, Chosen
<1> QED
  BY <1>1, <1>2, <1>3, <1>4, <1>5, <1>6, <1>7, <1>8, <1>9, <1>10, <1>11, <1>12, <1>13, <1>14
  DEF DraftNext

\* The types of the form, and that the populating effect ran for what is chosen.
THEOREM DraftTypesHold == DraftSpec => []DraftTypeOK
<1>1. DraftInv => DraftTypeOK
  BY DEF DraftInv
<1> QED
  BY <1>1, DraftInvInit, DraftInvStep, PTL DEF DraftSpec

\* What is saved for a table has the columns that were read from this table of this
\* datasource, and keys among them.
THEOREM DefinitionSavedAsInspected == DraftSpec => []SavedAsInspected
<1>1. DraftInv => SavedAsInspected
  BY DEF DraftInv, DraftFollowsTable
<1> QED
  BY <1>1, DraftInvInit, DraftInvStep, PTL DEF DraftSpec
-----------------------------------------------------------------------------
(* Columns and their choices.  What a column has chosen was there to be    *)
(* chosen when it was: a choice clears those that depend on it, so that    *)
(* what is left fits the table, or the junction, that is chosen now.       *)

\* The columns a choice may have been made from: those of a form also after they were
\* removed or renamed.
Choosable(d) ==
  IF d = Self THEN NamesOf(cards) \cup vanished ELSE IF d \in Others THEN ColumnNames[d] ELSE {}

IsFk(fk) ==
  /\ fk = [table |-> fk.table, ref |-> fk.ref, display |-> fk.display]
  /\ fk.table \in Others \cup {Self, Nothing}
IsJunction(m) ==
  /\ m = [junction |-> m.junction, src |-> m.src, tgt |-> m.tgt, display |-> m.display]
  /\ m.junction \in Others \cup {Nothing}
IsCard(c) ==
  /\ c = [name |-> c.name, type |-> c.type, computed |-> c.computed, fk |-> c.fk, m2m |-> c.m2m]
  /\ c.type \in Types /\ c.computed \in BOOLEAN /\ IsFk(c.fk) /\ IsJunction(c.m2m)

\* What an fk column has chosen was there to choose; other columns have nothing chosen.
FkFits(c) ==
  /\ c.type # "fk" => c.fk = NoFk
  /\ c.fk.ref \notin c.fk.display /\ c.fk.display \subseteq Choosable(c.fk.table)
  /\ c.fk.ref # Nothing => c.fk.ref \in Choosable(c.fk.table)

\* What a relation has chosen belongs to its junction.
M2MFits(m) ==
  /\ m.src # Nothing => m.src \in SrcOptions(m)
  /\ m.tgt # Nothing => m.src # Nothing /\ m.tgt \in TgtOptions(m)
  /\ IF m.tgt = Nothing THEN m.display = {} ELSE m.display \subseteq RelatedColumns(m)

Fits(c) == IsCard(c) /\ FkFits(c) /\ (~collided /\ c.type = "m2m" => M2MFits(c.m2m))

IsList(cs) == Len(cs) \in Nat /\ cs = [i \in 1..Len(cs) |-> cs[i]]

EditorInv ==
  /\ IsList(cards) /\ edits \in 0..MaxEdits /\ collided \in BOOLEAN
  /\ \A i \in 1..Len(cards) : Fits(cards[i])
  /\ ~collided => \A i, j \in 1..Len(cards) : cards[i].name = cards[j].name => i = j

\* The card with changes that are spelled out.
LEMMA CardChanges ==
  ASSUME NEW c, IsCard(c)
  PROVE  /\ \A t : [c EXCEPT !.type = t].type = t
         /\ \A fk : [c EXCEPT !.fk = fk] =
              [name |-> c.name, type |-> c.type, computed |-> c.computed, fk |-> fk, m2m |-> c.m2m]
         /\ \A t, fk : [c EXCEPT !.type = t, !.fk = fk] =
              [name |-> c.name, type |-> t, computed |-> c.computed, fk |-> fk, m2m |-> c.m2m]
         /\ \A n, m : [c EXCEPT !.name = n, !.m2m = m] =
              [name |-> n, type |-> c.type, computed |-> c.computed, fk |-> c.fk, m2m |-> m]
         /\ \A m : [c EXCEPT !.m2m = m] =
              [name |-> c.name, type |-> c.type, computed |-> c.computed, fk |-> c.fk, m2m |-> m]
<1> DEFINE C == [name |-> c.name, type |-> c.type, computed |-> c.computed, fk |-> c.fk, m2m |-> c.m2m]
<1>1. c = C
  BY DEF IsCard
<1>2. /\ DOMAIN c = {"name", "type", "computed", "fk", "m2m"}
      /\ c = [x \in DOMAIN c |-> c[x]]
  BY <1>1
<1>3. \A t : [c EXCEPT !.type = t].type = t
  BY <1>2
<1>4. \A fk : [c EXCEPT !.fk = fk] =
              [name |-> c.name, type |-> c.type, computed |-> c.computed, fk |-> fk, m2m |-> c.m2m]
  BY <1>2
<1>5. ASSUME NEW t, NEW fk
      PROVE  [c EXCEPT !.type = t, !.fk = fk] = [name |-> c.name, type |-> t, computed |-> c.computed, fk |-> fk, m2m |-> c.m2m]
  <2>1. PICK d : d = [c EXCEPT !.type = t]
    OBVIOUS
  <2>2. d = [name |-> c.name, type |-> t, computed |-> c.computed, fk |-> c.fk, m2m |-> c.m2m]
    BY <1>2, <2>1
  <2>3. DOMAIN d = {"name", "type", "computed", "fk", "m2m"} /\ d = [x \in DOMAIN d |-> d[x]]
    BY <2>2
  <2>4. [d EXCEPT !.fk = fk] = [name |-> c.name, type |-> t, computed |-> c.computed, fk |-> fk, m2m |-> c.m2m]
    BY <2>2, <2>3
  <2> QED
    BY <2>1, <2>4
<1>6. ASSUME NEW n, NEW m
      PROVE  [c EXCEPT !.name = n, !.m2m = m] = [name |-> n, type |-> c.type, computed |-> c.computed, fk |-> c.fk, m2m |-> m]
  <2>1. PICK d : d = [c EXCEPT !.name = n]
    OBVIOUS
  <2>2. d = [name |-> n, type |-> c.type, computed |-> c.computed, fk |-> c.fk, m2m |-> c.m2m]
    BY <1>2, <2>1
  <2>3. DOMAIN d = {"name", "type", "computed", "fk", "m2m"} /\ d = [x \in DOMAIN d |-> d[x]]
    BY <2>2
  <2>4. [d EXCEPT !.m2m = m] = [name |-> n, type |-> c.type, computed |-> c.computed, fk |-> c.fk, m2m |-> m]
    BY <2>2, <2>3
  <2> QED
    BY <2>1, <2>4
<1>7. ASSUME NEW m
      PROVE  [c EXCEPT !.m2m = m] =
              [name |-> c.name, type |-> c.type, computed |-> c.computed, fk |-> c.fk, m2m |-> m]
  BY <1>1
<1> QED
  BY <1>3, <1>4, <1>5, <1>6, <1>7

\* An edit leaves what fits if the cards it makes fit.
LEMMA EditKeeps ==
  ASSUME EditorInv, NEW cs, IsList(cs), \A i \in 1..Len(cs) : Fits(cs[i]), Edit(cs)
  PROVE  EditorInv'
<1>1. /\ edits < MaxEdits /\ edits' = edits + 1 /\ cards' = cs
      /\ vanished' = vanished \cup (NamesOf(cards) \ NamesOf(cs))
      /\ collided' = (collided \/ Cardinality(NamesOf(cs)) < Len(cs))
      /\ Len(cs) \in Nat /\ cs = [i \in 1..Len(cs) |-> cs[i]] /\ DOMAIN cs = 1..Len(cs)
  BY DEF Edit, IsList
<1>2. IsList(cards)' /\ edits' \in 0..MaxEdits /\ collided' \in BOOLEAN
  <2>1. edits \in 0..MaxEdits /\ MaxEdits \in Nat
    BY ColumnEditorsAssumption DEF EditorInv, ColumnEditorsAssumption
  <2> QED
    BY <1>1, <2>1 DEF IsList
<1>3. \A d : Choosable(d) \subseteq Choosable(d)'
  <2>1. NamesOf(cards)' = NamesOf(cs)
    BY <1>1 DEF NamesOf
  <2> QED
    BY <1>1, <2>1 DEF Choosable
<1>4. \A c : Fits(c) => Fits(c)'
  <2> SUFFICES ASSUME NEW c, Fits(c) PROVE Fits(c)'
    OBVIOUS
  <2>1. IsCard(c)' /\ (~collided' /\ c.type = "m2m" => M2MFits(c.m2m)')
    BY <1>1 DEF Fits, IsCard, IsFk, IsJunction, M2MFits, SrcOptions, TgtOptions, RelatedColumns, Fks
  <2>2. FkFits(c)'
    BY <1>3 DEF Fits, FkFits
  <2> QED
    BY <2>1, <2>2 DEF Fits
<1>5. \A i \in 1..Len(cs) : Fits(cs[i])'
  BY <1>4
<1>6. ASSUME ~collided', NEW i \in 1..Len(cs), NEW j \in 1..Len(cs), cs[i].name = cs[j].name
      PROVE  i = j
  <2> DEFINE N == NamesOf(cs)
             f == [k \in 1..Len(cs) |-> cs[k].name]
  <2>1. N = {cs[k].name : k \in 1..Len(cs)}
    BY <1>1 DEF NamesOf
  <2>2. f \in Surjection(1..Len(cs), N) /\ \A k \in 1..Len(cs) : f[k] = cs[k].name
    BY <2>1 DEF Surjection
  <2>3. IsFiniteSet(1..Len(cs)) /\ Cardinality(1..Len(cs)) = Len(cs)
    BY <1>1, FS_Interval
  <2> HIDE DEF f, N
  <2>4. /\ IsFiniteSet(N) /\ Cardinality(N) <= Len(cs)
        /\ Cardinality(N) = Len(cs) => f \in Injection(1..Len(cs), N)
    BY <2>2, <2>3, FS_Surjection
  <2>5. Cardinality(N) \in Nat
    BY <2>4, FS_CardinalityType
  <2>6. ~(Cardinality(N) < Len(cs))
    BY <1>1, <1>6 DEF N
  <2>7. Cardinality(N) = Len(cs)
    BY <1>1, <2>4, <2>5, <2>6
  <2> QED
    BY <1>6, <2>2, <2>4, <2>7 DEF Injection, IsInjective
<1> QED
  BY <1>1, <1>2, <1>5, <1>6 DEF EditorInv

LEMMA SetColKeeps ==
  ASSUME EditorInv, NEW i \in 1..Len(cards), NEW c, Fits(c), SetCol(i, c)
  PROVE  EditorInv'
<1> DEFINE cs == [cards EXCEPT ![i] = c]
<1>1. Len(cards) \in Nat /\ cards = [k \in 1..Len(cards) |-> cards[k]]
  BY DEF EditorInv, IsList
<1>2. /\ cs = [k \in 1..Len(cards) |-> IF k = i THEN c ELSE cards[k]]
      /\ DOMAIN cs = 1..Len(cards)
  BY <1>1
<1>3. Len(cs) = Len(cards)
  BY <1>1, <1>2
<1>4. IsList(cs) /\ \A k \in 1..Len(cs) : Fits(cs[k])
  BY <1>1, <1>2, <1>3 DEF EditorInv, IsList
<1>5. Edit(cs)
  BY DEF SetCol
<1> HIDE DEF cs
<1> QED
  BY <1>4, <1>5, EditKeeps

LEMMA AppendKeeps ==
  ASSUME EditorInv, NEW c, Fits(c), Edit(Append(cards, c))
  PROVE  EditorInv'
<1> DEFINE cs == Append(cards, c)
<1>1. Len(cards) \in Nat /\ cards = [k \in 1..Len(cards) |-> cards[k]]
  BY DEF EditorInv, IsList
<1>2. PICK S : cards \in Seq(S) /\ c \in S
  <2>1. cards \in Seq({cards[k] : k \in 1..Len(cards)} \cup {c})
    BY <1>1
  <2> QED
    BY <2>1
<1>3. /\ Len(cs) = Len(cards) + 1 /\ cs = [k \in 1..Len(cs) |-> cs[k]]
      /\ \A k \in 1..Len(cards) : cs[k] = cards[k]
      /\ cs[Len(cards) + 1] = c
  <2>1. /\ cs \in Seq(S) /\ Len(cs) = Len(cards) + 1 /\ cs[Len(cards) + 1] = c
        /\ \A k \in 1..Len(cards) : cs[k] = cards[k]
    BY <1>2, AppendProperties
  <2> HIDE DEF cs
  <2> QED
    BY <2>1
<1> HIDE DEF cs
<1>4. \A k \in 1..Len(cs) : k \in 1..Len(cards) \/ k = Len(cards) + 1
  BY <1>1, <1>3
<1>5. IsList(cs) /\ \A k \in 1..Len(cs) : Fits(cs[k])
  BY <1>1, <1>3, <1>4 DEF EditorInv, IsList
<1> QED
  BY <1>5, EditKeeps DEF cs

\* The choices of a column with changes that are spelled out.
LEMMA FkChanges ==
  ASSUME NEW c, IsCard(c)
  PROVE  /\ \A n : [c.fk EXCEPT !.ref = n, !.display = {}] =
                     [table |-> c.fk.table, ref |-> n, display |-> {}]
         /\ \A S : [c.fk EXCEPT !.display = S] =
                     [table |-> c.fk.table, ref |-> c.fk.ref, display |-> S]
<1> DEFINE F == [table |-> c.fk.table, ref |-> c.fk.ref, display |-> c.fk.display]
<1>1. c.fk = F
  BY DEF IsCard, IsFk
<1>2. ASSUME NEW n PROVE [c.fk EXCEPT !.ref = n, !.display = {}] =
                         [table |-> c.fk.table, ref |-> n, display |-> {}]
  <2>1. PICK f : f = [c.fk EXCEPT !.ref = n]
    OBVIOUS
  <2>2. f = [table |-> c.fk.table, ref |-> n, display |-> c.fk.display]
    BY <1>1, <2>1
  <2>3. [f EXCEPT !.display = {}] = [table |-> c.fk.table, ref |-> n, display |-> {}]
    BY <2>2
  <2> QED
    BY <2>1, <2>3
<1>3. ASSUME NEW S PROVE [c.fk EXCEPT !.display = S] =
                         [table |-> c.fk.table, ref |-> c.fk.ref, display |-> S]
  BY <1>1
<1> QED
  BY <1>2, <1>3

LEMMA JunctionChanges ==
  ASSUME NEW c, IsCard(c)
  PROVE  /\ \A n : [c EXCEPT !.m2m.src = n, !.m2m.tgt = Nothing, !.m2m.display = {}] =
              [name |-> c.name, type |-> c.type, computed |-> c.computed, fk |-> c.fk,
               m2m |-> [junction |-> c.m2m.junction, src |-> n, tgt |-> Nothing, display |-> {}]]
         /\ \A x, n : [c EXCEPT !.name = x, !.m2m.tgt = n, !.m2m.display = {}] =
              [name |-> x, type |-> c.type, computed |-> c.computed, fk |-> c.fk,
               m2m |-> [junction |-> c.m2m.junction, src |-> c.m2m.src, tgt |-> n, display |-> {}]]
         /\ \A S : [c EXCEPT !.m2m.display = S] =
              [name |-> c.name, type |-> c.type, computed |-> c.computed, fk |-> c.fk,
               m2m |-> [junction |-> c.m2m.junction, src |-> c.m2m.src, tgt |-> c.m2m.tgt, display |-> S]]
<1> DEFINE C == [name |-> c.name, type |-> c.type, computed |-> c.computed, fk |-> c.fk,
               m2m |-> [junction |-> c.m2m.junction, src |-> c.m2m.src, tgt |-> c.m2m.tgt,
                       display |-> c.m2m.display]]
<1>1. c = C
  BY DEF IsCard, IsJunction
<1>2. ASSUME NEW n
      PROVE  [c EXCEPT !.m2m.src = n, !.m2m.tgt = Nothing, !.m2m.display = {}] =
              [name |-> c.name, type |-> c.type, computed |-> c.computed, fk |-> c.fk,
               m2m |-> [junction |-> c.m2m.junction, src |-> n, tgt |-> Nothing, display |-> {}]]
  <2>1. PICK d : d = [c EXCEPT !.m2m.src = n]
    OBVIOUS
  <2>2. d = [name |-> c.name, type |-> c.type, computed |-> c.computed, fk |-> c.fk,
               m2m |-> [junction |-> c.m2m.junction, src |-> n, tgt |-> c.m2m.tgt, display |-> c.m2m.display]]
    BY <1>1, <2>1
  <2>3. PICK e : e = [d EXCEPT !.m2m.tgt = Nothing]
    OBVIOUS
  <2>4. e = [name |-> c.name, type |-> c.type, computed |-> c.computed, fk |-> c.fk,
               m2m |-> [junction |-> c.m2m.junction, src |-> n, tgt |-> Nothing, display |-> c.m2m.display]]
    BY <2>2, <2>3
  <2>5. [e EXCEPT !.m2m.display = {}] =
              [name |-> c.name, type |-> c.type, computed |-> c.computed, fk |-> c.fk,
               m2m |-> [junction |-> c.m2m.junction, src |-> n, tgt |-> Nothing, display |-> {}]]
    BY <2>4
  <2> QED
    BY <2>1, <2>3, <2>5
<1>3. ASSUME NEW x, NEW n
      PROVE  [c EXCEPT !.name = x, !.m2m.tgt = n, !.m2m.display = {}] =
              [name |-> x, type |-> c.type, computed |-> c.computed, fk |-> c.fk,
               m2m |-> [junction |-> c.m2m.junction, src |-> c.m2m.src, tgt |-> n, display |-> {}]]
  <2>1. PICK d : d = [c EXCEPT !.name = x]
    OBVIOUS
  <2>2. d = [name |-> x, type |-> c.type, computed |-> c.computed, fk |-> c.fk,
               m2m |-> [junction |-> c.m2m.junction, src |-> c.m2m.src, tgt |-> c.m2m.tgt, display |-> c.m2m.display]]
    BY <1>1, <2>1
  <2>3. PICK e : e = [d EXCEPT !.m2m.tgt = n]
    OBVIOUS
  <2>4. e = [name |-> x, type |-> c.type, computed |-> c.computed, fk |-> c.fk,
               m2m |-> [junction |-> c.m2m.junction, src |-> c.m2m.src, tgt |-> n, display |-> c.m2m.display]]
    BY <2>2, <2>3
  <2>5. [e EXCEPT !.m2m.display = {}] =
              [name |-> x, type |-> c.type, computed |-> c.computed, fk |-> c.fk,
               m2m |-> [junction |-> c.m2m.junction, src |-> c.m2m.src, tgt |-> n, display |-> {}]]
    BY <2>4
  <2> QED
    BY <2>1, <2>3, <2>5
<1>4. ASSUME NEW S
      PROVE  [c EXCEPT !.m2m.display = S] =
              [name |-> c.name, type |-> c.type, computed |-> c.computed, fk |-> c.fk,
               m2m |-> [junction |-> c.m2m.junction, src |-> c.m2m.src, tgt |-> c.m2m.tgt, display |-> S]]
  BY <1>1
<1> QED
  BY <1>2, <1>3, <1>4

\* What the cards of the form are, and the list's type.
LEMMA CardFacts ==
  ASSUME EditorInv
  PROVE  /\ DOMAIN cards = 1..Len(cards) /\ Len(cards) \in Nat
         /\ \A i \in DOMAIN cards : i \in 1..Len(cards) /\ Fits(cards[i]) /\ IsCard(cards[i])
BY DEF EditorInv, IsList, Fits

LEMMA TargetChoosable == \A d : TargetColumns(d) \subseteq Choosable(d)
BY ColumnEditorsAssumption DEF TargetColumns, Choosable, ColumnEditorsAssumption

LEMMA SetFkKeeps ==
  ASSUME EditorInv, NEW i \in 1..Len(cards), NEW fk, IsFk(fk), fk.ref \notin fk.display,
         fk.display \subseteq Choosable(fk.table), fk.ref # Nothing => fk.ref \in Choosable(fk.table),
         SetFk(i, fk)
  PROVE  EditorInv'
<1> DEFINE c == cards[i]
           d == [c EXCEPT !.fk = fk]
<1>1. Fits(c) /\ IsCard(c)
  BY CardFacts
<1>2. c.type = "fk" /\ SetCol(i, d)
  BY DEF SetFk
<1> HIDE DEF c
<1>3. d = [name |-> c.name, type |-> c.type, computed |-> c.computed, fk |-> fk, m2m |-> c.m2m]
  BY <1>1, CardChanges
<1> HIDE DEF d
<1>4. Fits(d)
  <2>1. IsCard(d)
    BY <1>1, <1>3 DEF IsCard
  <2>2. FkFits(d)
    BY <1>2, <1>3 DEF FkFits
  <2> QED
    BY <1>2, <1>3, <2>1, <2>2 DEF Fits
<1> QED
  BY <1>2, <1>4, SetColKeeps

LEMMA NoFkFits ==
  /\ IsFk(NoFk) /\ NoFk.ref \notin NoFk.display /\ NoFk.ref = Nothing /\ NoFk.display = {}
  /\ IsJunction(NoJunction) /\ M2MFits(NoJunction)
BY DEF NoFk, IsFk, NoJunction, IsJunction, M2MFits

LEMMA SetTypeKeeps ==
  ASSUME EditorInv, NEW i \in 1..Len(cards), NEW type \in Types, SetType(i, type)
  PROVE  EditorInv'
<1> DEFINE c == cards[i]
           fk == IF type = "fk" THEN c.fk ELSE NoFk
           d == [c EXCEPT !.type = type, !.fk = fk]
<1>1. Fits(c) /\ IsCard(c)
  BY CardFacts
<1>2. type # "m2m" /\ type # c.type
  BY DEF SetType
<1>3. SetCol(i, d)
  <2>1. [c EXCEPT !.type = type, !.fk = IF type = "fk" THEN @ ELSE NoFk] = d
    <3>1. PICK e : e = [c EXCEPT !.type = type]
      OBVIOUS
    <3>2. e.fk = c.fk
      <4> HIDE DEF c
      <4> QED
        BY <1>1, <3>1 DEF IsCard
    <3> QED
      BY <3>1, <3>2
  <2> QED
    BY <2>1 DEF SetType
<1> HIDE DEF c, fk
<1>4. d = [name |-> c.name, type |-> type, computed |-> c.computed, fk |-> fk, m2m |-> c.m2m]
  <2>1. \A t, f : [c EXCEPT !.type = t, !.fk = f] =
              [name |-> c.name, type |-> t, computed |-> c.computed, fk |-> f, m2m |-> c.m2m]
    BY <1>1, CardChanges
  <2> QED
    BY <2>1
<1>5. fk = NoFk
  BY <1>1, <1>2 DEF fk, Fits, FkFits
<1> HIDE DEF d
<1>6. Fits(d)
  <2>1. IsCard(d)
    BY <1>1, <1>4, <1>5, NoFkFits DEF IsCard
  <2>2. FkFits(d)
    BY <1>4, <1>5, NoFkFits DEF FkFits
  <2> QED
    BY <1>2, <1>4, <2>1, <2>2 DEF Fits
<1> QED
  BY <1>3, <1>6, SetColKeeps

\* A card of the target column is one that may be chosen.
LEMMA FkActionsKeep ==
  ASSUME EditorInv, NEW i \in 1..Len(cards),
         \/ SetFkSource(i) \/ SelectAllFk(i) \/ ClearFk(i)
         \/ \E d \in Others \cup {Self} : SetFkTable(i, d)
         \/ \E n \in TargetColumns(cards[i].fk.table) : SetFkRef(i, n)
         \/ \E n \in Available(cards[i].fk) : ToggleFkDisplay(i, n)
  PROVE  EditorInv'
<1> DEFINE c == cards[i]
<1>1. Fits(c) /\ IsCard(c) /\ FkFits(c) /\ IsFk(c.fk)
  BY CardFacts DEF Fits, IsCard
<1>2. Available(c.fk) \subseteq Choosable(c.fk.table) /\ c.fk.ref \notin Available(c.fk)
  BY TargetChoosable DEF Available
<1>3. ASSUME NEW S, S \subseteq Choosable(c.fk.table), c.fk.ref \notin S,
             SetFk(i, [c.fk EXCEPT !.display = S])
      PROVE  EditorInv'
  <2> DEFINE fk == [c.fk EXCEPT !.display = S]
  <2>1. fk = [table |-> c.fk.table, ref |-> c.fk.ref, display |-> S]
    BY <1>1, FkChanges
  <2>2. SetFk(i, fk)
    BY <1>3
  <2> HIDE DEF fk, c
  <2>3. /\ IsFk(fk) /\ fk.ref \notin fk.display /\ fk.display \subseteq Choosable(fk.table)
        /\ fk.ref # Nothing => fk.ref \in Choosable(fk.table)
    BY <1>1, <1>3, <2>1 DEF IsFk, FkFits
  <2> QED
    BY <2>2, <2>3, SetFkKeeps
<1>4. CASE SetFkSource(i)
  BY <1>4, SetFkKeeps, NoFkFits DEF SetFkSource
<1>5. CASE SelectAllFk(i)
  BY <1>2, <1>3, <1>5 DEF SelectAllFk
<1>6. CASE ClearFk(i)
  BY <1>3, <1>6 DEF ClearFk
<1>7. ASSUME NEW d \in Others \cup {Self}, SetFkTable(i, d) PROVE EditorInv'
  <2> DEFINE fk == [table |-> d, ref |-> Nothing, display |-> {}]
  <2>1. SetFk(i, fk)
    BY <1>7 DEF SetFkTable
  <2>2. /\ IsFk(fk) /\ fk.ref \notin fk.display /\ fk.display \subseteq Choosable(fk.table)
        /\ fk.ref = Nothing
    BY DEF IsFk
  <2> HIDE DEF fk
  <2> QED
    BY <2>1, <2>2, SetFkKeeps
<1>8. ASSUME NEW n \in TargetColumns(c.fk.table), SetFkRef(i, n) PROVE EditorInv'
  <2> DEFINE fk == [c.fk EXCEPT !.ref = n, !.display = {}]
  <2>1. fk = [table |-> c.fk.table, ref |-> n, display |-> {}]
    BY <1>1, FkChanges
  <2>2. SetFk(i, fk)
    BY <1>8 DEF SetFkRef
  <2> HIDE DEF fk, c
  <2>3. /\ IsFk(fk) /\ fk.ref \notin fk.display /\ fk.display \subseteq Choosable(fk.table)
        /\ fk.ref # Nothing => fk.ref \in Choosable(fk.table)
    BY <1>1, <1>8, <2>1, TargetChoosable DEF IsFk
  <2> QED
    BY <2>2, <2>3, SetFkKeeps
<1>9. ASSUME NEW n \in Available(c.fk), ToggleFkDisplay(i, n) PROVE EditorInv'
  <2> DEFINE S == IF n \in c.fk.display THEN c.fk.display \ {n} ELSE c.fk.display \cup {n}
  <2>1. [c.fk EXCEPT !.display = IF n \in @ THEN @ \ {n} ELSE @ \cup {n}] = [c.fk EXCEPT !.display = S]
    OBVIOUS
  <2>2. SetFk(i, [c.fk EXCEPT !.display = S])
    BY <1>9, <2>1 DEF ToggleFkDisplay
  <2>3. S \subseteq Choosable(c.fk.table) /\ c.fk.ref \notin S
    BY <1>1, <1>2, <1>9 DEF FkFits
  <2> HIDE DEF S
  <2> QED
    BY <1>3, <2>2, <2>3
<1> QED
  BY <1>4, <1>5, <1>6, <1>7, <1>8, <1>9

\* A relation's card finds a relation of its name; itself, when names are distinct.
LEMMA FirstNamedIs ==
  ASSUME EditorInv, NEW i \in 1..Len(cards), IsRelation(i)
  PROVE  /\ FirstNamed(cards[i].name) \in 1..Len(cards)
         /\ IsRelation(FirstNamed(cards[i].name)) /\ Target(i).name = cards[i].name
         /\ ~collided => FirstNamed(cards[i].name) = i
<1> DEFINE n == cards[i].name
           Named(j) == IsRelation(j) /\ cards[j].name = n
           S == {j \in 1..Len(cards) : Named(j)}
<1>1. DOMAIN cards = 1..Len(cards) /\ Len(cards) \in Nat
  BY CardFacts
<1>2. PICK j \in S : \A k \in S : j <= k
  <2>1. S \in SUBSET Nat /\ i \in S
    BY <1>1
  <2> HIDE DEF S
  <2> QED
    BY <2>1, LeastNatural
<1>3. j \in DOMAIN cards /\ Named(j) /\ \A k \in 1..j-1 : ~Named(k)
  <2>1. j \in 1..Len(cards) /\ Named(j) /\ \A k \in 1..Len(cards) : Named(k) => j <= k
    BY <1>2
  <2> HIDE DEF Named
  <2>2. \A k \in 1..j-1 : k \in 1..Len(cards) /\ ~(j <= k)
    BY <1>1, <2>1
  <2> QED
    BY <1>1, <2>1, <2>2
<1>4. FirstNamed(n) = CHOOSE k \in DOMAIN cards : Named(k) /\ \A l \in 1..k-1 : ~Named(l)
  BY DEF FirstNamed
<1> HIDE DEF Named
<1>5. FirstNamed(n) \in DOMAIN cards /\ Named(FirstNamed(n))
  BY <1>3, <1>4
<1>6. ~collided => FirstNamed(n) = i
  BY <1>1, <1>5 DEF Named, EditorInv
<1> QED
  BY <1>1, <1>5, <1>6 DEF Named, Target

\* A relation whose choices belong to its junction takes the place of the one it was.
LEMMA SetRelKeeps ==
  ASSUME EditorInv, NEW i \in 1..Len(cards), IsRelation(i), NEW c, c = Target(i), NEW n,
         NEW m, IsJunction(m), ~collided => M2MFits(m), NEW d, SetRel(i, d),
         d = [name |-> n, type |-> c.type, computed |-> c.computed, fk |-> c.fk, m2m |-> m]
  PROVE  EditorInv'
<1>1. PICK j \in 1..Len(cards) : j = FirstNamed(cards[i].name) /\ c = cards[j] /\ IsRelation(j)
  BY FirstNamedIs DEF Target
<1>2. Fits(c) /\ IsCard(c)
  BY <1>1, CardFacts
<1>3. Fits(d)
  <2>1. IsCard(d)
    BY <1>2 DEF IsCard
  <2>2. FkFits(d)
    BY <1>2 DEF Fits, FkFits
  <2> QED
    BY <2>1, <2>2 DEF Fits
<1>4. SetCol(j, d)
  BY <1>1 DEF SetRel
<1> QED
  BY <1>3, <1>4, SetColKeeps

LEMMA NewJunction ==
  ASSUME NEW d
  PROVE  [NoJunction EXCEPT !.junction = d] = [junction |-> d, src |-> Nothing, tgt |-> Nothing, display |-> {}]
BY DEF NoJunction

LEMMA JunctionsKeep ==
  ASSUME EditorInv, NEW i \in 1..Len(cards),
         \/ \E d \in Others : SetJunction(i, d)
         \/ \E n \in SrcOptions(cards[i].m2m) : SetSrc(i, n)
         \/ \E n \in TgtOptions(cards[i].m2m) : SetTgt(i, n)
         \/ \E S \in SUBSET RelatedColumns(cards[i].m2m) : SetRelDisplay(i, S)
  PROVE  EditorInv'
<1>0. IsRelation(i)
  BY DEF SetJunction, SetSrc, SetTgt, SetRelDisplay
<1>1. PICK c : c = Target(i)
  OBVIOUS
<1>2. IsCard(c) /\ IsJunction(c.m2m) /\ (~collided => c = cards[i] /\ M2MFits(c.m2m))
  <2>1. Fits(c) /\ c.type = "m2m" /\ (~collided => c = cards[i])
    BY <1>0, <1>1, FirstNamedIs, CardFacts DEF Target, IsRelation
  <2> QED
    BY <2>1 DEF Fits, IsCard
<1>3. ASSUME NEW d \in Others, SetJunction(i, d) PROVE EditorInv'
  <2> DEFINE m == [NoJunction EXCEPT !.junction = d]
             e == [c EXCEPT !.name = LongerName(i, d), !.m2m = m]
  <2>1. SetRel(i, e)
    BY <1>1, <1>3 DEF SetJunction
  <2>2. m = [junction |-> d, src |-> Nothing, tgt |-> Nothing, display |-> {}]
    BY NewJunction
  <2> HIDE DEF m
  <2>3. IsJunction(m) /\ M2MFits(m)
    BY <2>2 DEF IsJunction, M2MFits
  <2>4. e = [name |-> LongerName(i, d), type |-> c.type, computed |-> c.computed, fk |-> c.fk, m2m |-> m]
    <3>1. \A n, x : [c EXCEPT !.name = n, !.m2m = x] =
              [name |-> n, type |-> c.type, computed |-> c.computed, fk |-> c.fk, m2m |-> x]
      BY <1>2, CardChanges
    <3> QED
      BY <3>1
  <2> HIDE DEF e
  <2> QED
    BY <1>0, <1>1, <2>1, <2>3, <2>4, SetRelKeeps
<1>4. ASSUME NEW n \in SrcOptions(cards[i].m2m), SetSrc(i, n) PROVE EditorInv'
  <2> DEFINE m == [junction |-> c.m2m.junction, src |-> n, tgt |-> Nothing, display |-> {}]
             e == [c EXCEPT !.m2m.src = n, !.m2m.tgt = Nothing, !.m2m.display = {}]
  <2>1. SetRel(i, e)
    BY <1>1, <1>4 DEF SetSrc
  <2>2. e = [name |-> c.name, type |-> c.type, computed |-> c.computed, fk |-> c.fk, m2m |-> m]
    BY <1>2, JunctionChanges
  <2> HIDE DEF e
  <2>3. IsJunction(m) /\ (~collided => M2MFits(m))
    BY <1>2, <1>4 DEF IsJunction, M2MFits, SrcOptions
  <2> HIDE DEF m
  <2> QED
    BY <1>0, <1>1, <2>1, <2>2, <2>3, SetRelKeeps
<1>5. ASSUME NEW n \in TgtOptions(cards[i].m2m), SetTgt(i, n) PROVE EditorInv'
  <2> DEFINE m == [junction |-> c.m2m.junction, src |-> c.m2m.src, tgt |-> n, display |-> {}]
             x == <<"m2m", cards[i].m2m.junction>> \o n
             e == [c EXCEPT !.name = x, !.m2m.tgt = n, !.m2m.display = {}]
  <2>1. SetRel(i, e) /\ cards[i].m2m.src # Nothing
    BY <1>1, <1>5 DEF SetTgt
  <2> HIDE DEF x
  <2>2. e = [name |-> x, type |-> c.type, computed |-> c.computed, fk |-> c.fk, m2m |-> m]
    <3>1. \A y, t : [c EXCEPT !.name = y, !.m2m.tgt = t, !.m2m.display = {}] =
              [name |-> y, type |-> c.type, computed |-> c.computed, fk |-> c.fk,
               m2m |-> [junction |-> c.m2m.junction, src |-> c.m2m.src, tgt |-> t, display |-> {}]]
      BY <1>2, JunctionChanges
    <3> QED
      BY <3>1
  <2> HIDE DEF e
  <2>3. IsJunction(m) /\ (~collided => M2MFits(m))
    BY <1>2, <1>5, <2>1 DEF IsJunction, M2MFits, SrcOptions, TgtOptions, RelatedColumns
  <2> HIDE DEF m
  <2> QED
    BY <1>0, <1>1, <2>1, <2>2, <2>3, SetRelKeeps
<1>6. ASSUME NEW S \in SUBSET RelatedColumns(cards[i].m2m), SetRelDisplay(i, S) PROVE EditorInv'
  <2> DEFINE m == [junction |-> c.m2m.junction, src |-> c.m2m.src, tgt |-> c.m2m.tgt, display |-> S]
             e == [c EXCEPT !.m2m.display = S]
  <2>1. SetRel(i, e) /\ cards[i].m2m.tgt # Nothing
    BY <1>1, <1>6 DEF SetRelDisplay
  <2>2. e = [name |-> c.name, type |-> c.type, computed |-> c.computed, fk |-> c.fk, m2m |-> m]
    BY <1>2, JunctionChanges
  <2> HIDE DEF e
  <2>3. IsJunction(m) /\ (~collided => M2MFits(m))
    BY <1>2, <1>6, <2>1 DEF IsJunction, M2MFits, SrcOptions, TgtOptions, RelatedColumns
  <2> HIDE DEF m
  <2> QED
    BY <1>0, <1>1, <2>1, <2>2, <2>3, SetRelKeeps
<1> QED
  BY <1>3, <1>4, <1>5, <1>6

\* New columns come last; those of a removed relation's name go.
LEMMA PlainFits ==
  ASSUME EditorInv \/ EditorInit, NEW n, NEW b \in BOOLEAN
  PROVE  /\ PlainCard(n, b) = [name |-> n, type |-> "plain", computed |-> b, fk |-> NoFk, m2m |-> NoJunction]
         /\ PlainCard(n, b).name = n /\ IsCard(PlainCard(n, b)) /\ Fits(PlainCard(n, b))
BY NoFkFits DEF PlainCard, IsCard, Fits, FkFits, Types

LEMMA ColumnsComeAndGo ==
  ASSUME EditorInv, AddComputed \/ AddRel \/ \E i \in 1..Len(cards) : RemoveRel(i)
  PROVE  EditorInv'
<1>2. CASE AddComputed
  BY <1>2, PlainFits, AppendKeeps DEF AddComputed
<1>3. CASE AddRel
  <2> DEFINE n == <<"m2m", Position(Len(cards))>>
             c == [PlainCard(n, FALSE) EXCEPT !.type = "m2m"]
  <2>1. Edit(Append(cards, c))
    BY <1>3 DEF AddRel
  <2> HIDE DEF n
  <2>2. c = [name |-> n, type |-> "m2m", computed |-> FALSE, fk |-> NoFk, m2m |-> NoJunction]
    <3>1. PICK p : p = PlainCard(n, FALSE)
      OBVIOUS
    <3>2. p = [name |-> n, type |-> "plain", computed |-> FALSE, fk |-> NoFk, m2m |-> NoJunction]
      BY <3>1, PlainFits
    <3>3. c = [p EXCEPT !.type = "m2m"]
      BY <3>1
    <3> HIDE DEF c
    <3> QED
      BY <3>2, <3>3
  <2> HIDE DEF c
  <2>3. Fits(c)
    BY <2>2, NoFkFits DEF Fits, IsCard, FkFits, Types
  <2> QED
    BY <2>1, <2>3, AppendKeeps
<1>4. ASSUME NEW i \in 1..Len(cards), RemoveRel(i) PROVE EditorInv'
  <2> DEFINE P == {j \in DOMAIN cards : ~(IsRelation(j) /\ cards[j].name = cards[i].name)}
             S == {cards[k] : k \in 1..Len(cards)}
             cs == AtPlaces(cards, P)
  <2>1. Edit(cs)
    BY <1>4 DEF RemoveRel
  <2>2. P \in SUBSET (1..Len(cards)) /\ cards \in Seq(S)
    BY CardFacts DEF EditorInv, IsList
  <2> HIDE DEF P, S
  <2>3. /\ Cardinality(P) \in Nat /\ cs \in Seq(S) /\ Len(cs) = Cardinality(P)
        /\ \A k \in 1..Cardinality(P) : \E p \in P : cs[k] = cards[p]
    BY <2>2, AtPlacesFacts
  <2>4. cs = [k \in 1..Len(cs) |-> cs[k]]
    BY <2>3
  <2>5. IsList(cs) /\ \A k \in 1..Len(cs) : Fits(cs[k])
    BY <2>2, <2>3, <2>4, CardFacts DEF IsList
  <2> HIDE DEF cs
  <2> QED
    BY <2>1, <2>5, EditKeeps
<1> QED
  BY <1>2, <1>3, <1>4

\* A form starts with plain columns, in some order.
LEMMA EditorInvInit == EditorInit => EditorInv
<1> SUFFICES ASSUME EditorInit PROVE EditorInv
  OBVIOUS
<1> DEFINE S == {PlainCard(n, FALSE) : n \in Stored}
           N == Cardinality(S)
           Listing(f) == f \in [1..N -> S] /\ IsInjective(f)
<1>1. /\ cards = SetToSeq(S) /\ edits = 0 /\ collided = FALSE /\ MaxEdits \in Nat
  BY ColumnEditorsAssumption DEF EditorInit, ColumnEditorsAssumption
<1>2. IsFiniteSet(S)
  <2> DEFINE f == [n \in Stored |-> PlainCard(n, FALSE)]
  <2>1. f \in Surjection(Stored, S)
    BY DEF Surjection
  <2>2. IsFiniteSet(Stored)
    BY ColumnEditorsAssumption DEF ColumnEditorsAssumption
  <2> HIDE DEF f, S
  <2> QED
    BY <2>1, <2>2, FS_Surjection
<1>3. \A c \in S : Fits(c)
  BY PlainFits
<1>4. \A c, d \in S : c.name = d.name => c = d
  <2> SUFFICES ASSUME NEW m \in Stored, NEW n \in Stored,
                      PlainCard(m, FALSE).name = PlainCard(n, FALSE).name
               PROVE  PlainCard(m, FALSE) = PlainCard(n, FALSE)
    OBVIOUS
  <2>1. PlainCard(m, FALSE).name = m /\ PlainCard(n, FALSE).name = n
    BY DEF PlainCard
  <2>2. m = n
    BY <2>1
  <2> QED
    BY <2>2
<1> HIDE DEF S
<1>5. N \in Nat /\ ExistsBijection(1..N, S)
  BY <1>2, FS_CardinalityType
<1>6. \E f : Listing(f)
  BY <1>5 DEF ExistsBijection, Bijection, Injection, IsInjective
<1>7. SetToSeq(S) = CHOOSE f \in [1..N -> S] : IsInjective(f)
  BY DEF SetToSeq
<1>8. Listing(cards)
  BY <1>1, <1>6, <1>7
<1> HIDE DEF N
<1>9. Len(cards) = N /\ cards = [i \in 1..N |-> cards[i]] /\ \A i \in 1..N : cards[i] \in S
  BY <1>5, <1>8
<1>10. \A i, j \in 1..N : cards[i].name = cards[j].name => i = j
  BY <1>4, <1>8, <1>9 DEF IsInjective
<1>11. /\ IsList(cards) /\ \A i \in 1..Len(cards) : Fits(cards[i])
       /\ \A i, j \in 1..Len(cards) : cards[i].name = cards[j].name => i = j
  BY <1>3, <1>5, <1>9, <1>10 DEF IsList
<1>12. edits \in 0..MaxEdits /\ collided \in BOOLEAN
  <2>1. edits = 0 /\ MaxEdits \in Nat
    BY <1>1
  <2>2. edits \in 0..MaxEdits
    BY <2>1
  <2>3. collided \in BOOLEAN
    BY Zenon, <1>1
  <2> QED
    BY <2>2, <2>3
<1> QED
  BY <1>11, <1>12 DEF EditorInv

LEMMA CardsStay ==
  ASSUME EditorInv, UNCHANGED <<cards, vanished, collided>>, edits' \in 0..MaxEdits
  PROVE  EditorInv'
<1>1. \A d : Choosable(d)' = Choosable(d)
  BY DEF Choosable, NamesOf
<1>2. \A c : Fits(c) => Fits(c)'
  BY <1>1 DEF Fits, FkFits, IsCard, IsFk, IsJunction, M2MFits, SrcOptions, TgtOptions, RelatedColumns, Fks
<1> QED
  BY <1>2 DEF EditorInv, IsList

LEMMA EditorInvStep == EditorInv /\ [EditorNext]_editorVars => EditorInv'
<1> SUFFICES ASSUME EditorInv, [EditorNext]_editorVars PROVE EditorInv'
  OBVIOUS
<1>0. DOMAIN cards = 1..Len(cards)
  BY CardFacts
<1>1. CASE UNCHANGED editorVars
  BY <1>1, CardsStay DEF editorVars, EditorInv
<1>2. CASE AddComputed \/ AddRel
  BY <1>2, ColumnsComeAndGo
<1>3. ASSUME NEW i \in 1..Len(cards), ToggleKeyName(i) PROVE EditorInv'
  <2>1. edits < MaxEdits /\ edits' = edits + 1 /\ UNCHANGED <<cards, vanished, collided>>
    BY <1>3 DEF ToggleKeyName
  <2>2. edits' \in 0..MaxEdits
    <3>1. edits \in 0..MaxEdits /\ MaxEdits \in Nat
      BY ColumnEditorsAssumption DEF EditorInv, ColumnEditorsAssumption
    <3> QED
      BY <2>1, <3>1
  <2> QED
    BY <2>1, <2>2, CardsStay
<1>4. ASSUME NEW i \in 1..Len(cards),
             \/ SetFkSource(i) \/ SelectAllFk(i) \/ ClearFk(i) \/ RemoveRel(i)
             \/ \E type \in Types : SetType(i, type)
             \/ \E d \in Others \cup {Self} : SetFkTable(i, d)
             \/ \E n \in TargetColumns(cards[i].fk.table) : SetFkRef(i, n)
             \/ \E n \in Available(cards[i].fk) : ToggleFkDisplay(i, n)
             \/ \E d \in Others : SetJunction(i, d)
             \/ \E n \in SrcOptions(cards[i].m2m) : SetSrc(i, n)
             \/ \E n \in TgtOptions(cards[i].m2m) : SetTgt(i, n)
             \/ \E S \in SUBSET RelatedColumns(cards[i].m2m) : SetRelDisplay(i, S)
      PROVE  EditorInv'
  BY <1>4, SetTypeKeeps, FkActionsKeep, JunctionsKeep, ColumnsComeAndGo
<1> QED
  BY <1>0, <1>1, <1>2, <1>3, <1>4 DEF EditorNext

LEMMA EditorInvHolds == EditorSpec => []EditorInv
BY EditorInvInit, EditorInvStep, PTL DEF EditorSpec

\* Cards of the form are well typed, however many there are.
THEOREM EditorTypesHold == EditorSpec => []EditorTypeOK
<1>1. EditorInv => EditorTypeOK
  <2> SUFFICES ASSUME EditorInv PROVE EditorTypeOK
    OBVIOUS
  <2>1. \A i \in DOMAIN cards : IsCard(cards[i])
    BY CardFacts
  <2> QED
    BY <2>1 DEF EditorInv, EditorTypeOK, IsCard, IsFk, IsJunction
<1> QED
  BY EditorInvHolds, <1>1, PTL

\* However the type of a column, its target and its columns were chosen and chosen again,
\* the server's checks of fk and m2m columns accept what looks complete (validateFK and
\* validateM2M in internal/api/tables.go), with the exceptions that ChoicesAccepted names.
THEOREM ChoicesAreAccepted == EditorSpec => []ChoicesAccepted
<1>1. EditorInv => ChoicesAccepted
  <2> SUFFICES ASSUME EditorInv, NEW i \in DOMAIN cards, NEW c, c = cards[i], NEW s, s = SentCard(c)
               PROVE  /\ s.type = "fk" /\ FkComplete(s.fk) =>
                            \/ FkAccepted(s)
                            \/ /\ s.fk.table = Self
                               /\ ({s.fk.ref} \cup s.fk.display) \cap vanished # {}
                      /\ s.fk.ref \notin s.fk.display
                      /\ s.type # "fk" => FkAccepted(s)
                      /\ ~collided => /\ s.type = "m2m" /\ M2MComplete(s.m2m) => M2MAccepted(s)
                                      /\ s.type # "m2m" => M2MAccepted(s)
    BY DEF ChoicesAccepted, SentCards
  <2>1. Fits(c) /\ IsCard(c)
    BY CardFacts
  <2> DEFINE fk == IF c.type = "fk" THEN c.fk ELSE NoFk
             m == IF c.type = "m2m" THEN c.m2m ELSE NoJunction
  <2>2. s.type = c.type /\ s.fk = fk /\ s.m2m = m
    <3>1. PICK d : d = [c EXCEPT !.fk = fk]
      OBVIOUS
    <3>2. s = [d EXCEPT !.m2m = m]
      <4>1. d.m2m = c.m2m
        BY <2>1, <3>1 DEF IsCard
      <4> QED
        BY <3>1, <4>1 DEF SentCard
    <3> HIDE DEF fk, m
    <3>3. d = [name |-> c.name, type |-> c.type, computed |-> c.computed, fk |-> fk, m2m |-> c.m2m]
      BY <2>1, <3>1, CardChanges
    <3> QED
      BY <3>2, <3>3
  <2>3. /\ s.fk.ref \notin s.fk.display
        /\ s.type # "fk" => FkAccepted(s)
    BY <2>1, <2>2, NoFkFits DEF Fits, FkFits, FkAccepted
  <2>4. ASSUME s.type = "fk", FkComplete(s.fk), ~FkAccepted(s)
        PROVE  s.fk.table = Self /\ ({s.fk.ref} \cup s.fk.display) \cap vanished # {}
    <3>1. s.fk = c.fk /\ c.fk.table \in Others \cup {Self} /\ Self \notin Others
      BY <2>1, <2>2, <2>4, ColumnEditorsAssumption DEF IsCard, IsFk, FkComplete, ColumnEditorsAssumption
    <3>2. {s.fk.ref} \cup s.fk.display \subseteq Choosable(c.fk.table)
      BY <2>1, <2>4, <3>1 DEF Fits, FkFits, FkComplete
    <3> QED
      BY <2>4, <3>1, <3>2 DEF FkAccepted, Choosable
  <2>5. ASSUME ~collided, s.type = "m2m", M2MComplete(s.m2m) PROVE M2MAccepted(s)
    <3>1. s.m2m = c.m2m /\ M2MFits(c.m2m) /\ c.m2m.tgt # Nothing
      BY <2>1, <2>2, <2>5 DEF Fits, M2MComplete
    <3>2. c.m2m.src \in SrcOptions(c.m2m) /\ c.m2m.tgt \in TgtOptions(c.m2m)
          /\ c.m2m.display \subseteq RelatedColumns(c.m2m)
      BY <3>1 DEF M2MFits
    <3>3. c.m2m.src \in DOMAIN Fks(c.m2m.junction)
      BY <3>2 DEF SrcOptions
    <3>4. c.m2m.junction \in Others
      BY <3>3 DEF Fks
    <3>5. Fks(c.m2m.junction) = Refers[c.m2m.junction]
      BY <3>4 DEF Fks
    <3> QED
      BY <2>5, <3>1, <3>2, <3>5 DEF M2MAccepted, SrcOptions, TgtOptions
  <2>6. s.type # "m2m" => M2MAccepted(s)
    BY <2>2 DEF M2MAccepted
  <2> QED
    BY <2>3, <2>4, <2>5, <2>6
<1> QED
  BY EditorInvHolds, <1>1, PTL
-----------------------------------------------------------------------------
(* Hooks and custom actions.                                               *)

HooksInv == HooksTypeOK /\ ActionIdsUnique /\ InputsTellTruth

\* What is left of a sequence without its i-th element.
LEMMA WithoutElement ==
  ASSUME NEW S, NEW s \in Seq(S), NEW i \in 1..Len(s)
  PROVE  /\ RemoveAt(s, i) \in Seq(S) /\ Len(RemoveAt(s, i)) = Len(s) - 1
         /\ \A j \in 1..Len(s) - 1 : RemoveAt(s, i)[j] = IF j < i THEN s[j] ELSE s[j + 1]
<1> DEFINE head == SubSeq(s, 1, i - 1)
           tail == SubSeq(s, i + 1, Len(s))
<1>1. head \in Seq(S) /\ Len(head) = i - 1 /\ \A j \in 1..i - 1 : head[j] = s[j]
  OBVIOUS
<1>2. tail \in Seq(S) /\ Len(tail) = Len(s) - i /\ \A j \in 1..Len(s) - i : tail[j] = s[i + j]
  <2>1. Len(s) \in Nat /\ i \in Nat /\ 1 <= i /\ i <= Len(s)
    OBVIOUS
  <2>2. \A k \in i + 1 .. Len(s) : s[k] \in S
    BY <2>1
  <2>3. tail \in Seq(S)
    BY <2>1, <2>2, SubSeqProperties
  <2>4. Len(tail) = Len(s) - i
    BY <2>1, <2>2, SubSeqProperties
  <2>5. \A j \in 1..Len(s) - i : tail[j] = s[i + j]
    BY <2>1, <2>2, <2>4, SubSeqProperties
  <2> QED
    BY <2>3, <2>4, <2>5
<1>3. RemoveAt(s, i) = head \o tail
  BY DEF RemoveAt
<1> HIDE DEF head, tail
<1>4. head \o tail \in Seq(S) /\ Len(head \o tail) = Len(s) - 1
  <2>1. Len(s) \in Nat /\ i \in Nat
    OBVIOUS
  <2>2. head \o tail \in Seq(S)
    BY <1>1, <1>2
  <2>3. Len(head \o tail) = Len(head) + Len(tail)
    BY <1>1, <1>2, ConcatProperties
  <2> QED
    BY <1>1, <1>2, <2>1, <2>2, <2>3
<1>5. ASSUME NEW j \in 1..Len(s) - 1
      PROVE  (head \o tail)[j] = IF j < i THEN s[j] ELSE s[j + 1]
  <2>1. CASE j < i
    <3>1. j \in 1..i - 1
      BY <2>1
    <3>2. (head \o tail)[j] = head[j]
      BY <1>1, <1>2, <3>1
    <3> QED
      BY <1>1, <2>1, <3>1, <3>2
  <2>2. CASE ~(j < i)
    <3> DEFINE k == j - (i - 1)
    <3>1. k \in 1..Len(s) - i /\ i + k = j + 1
      BY <2>2
    <3>2. (head \o tail)[j] = tail[k]
      BY <1>1, <1>2, <2>2
    <3>3. tail[k] = s[i + k]
      BY <1>2, <3>1
    <3> QED
      BY <2>2, <3>1, <3>2, <3>3
  <2> QED
    BY <2>1, <2>2
<1> QED
  BY <1>3, <1>4, <1>5

\* A list of at most MaxEntries that is numbered anew is a list of an event.
LEMMA NumberedIs ==
  ASSUME NEW list \in Seq(Assignment), Len(list) <= MaxEntries
  PROVE  /\ Numbered(list) \in Seq(Assignment) /\ Len(Numbered(list)) = Len(list)
         /\ \A i \in DOMAIN list : /\ Numbered(list)[i].order = i
                                  /\ Numbered(list)[i].hook = list[i].hook
                                  /\ Numbered(list)[i].config = list[i].config
<1>0. Len(list) \in Nat /\ DOMAIN list = 1..Len(list)
      /\ \A i \in 1..Len(list) : list[i] \in Assignment /\ i \in 1..MaxEntries
  BY HookEditorsAssumption
<1>1. \A i \in 1..Len(list) :
        /\ Numbered(list)[i] \in Assignment /\ Numbered(list)[i].order = i
        /\ Numbered(list)[i].hook = list[i].hook /\ Numbered(list)[i].config = list[i].config
  BY <1>0 DEF Assignment, Numbered
<1>2. Numbered(list) \in [1..Len(list) -> Assignment]
  BY <1>0, <1>1 DEF Numbered
<1> QED
  BY <1>0, <1>1, <1>2

\* An input that stays, or a new one, is for its place's hook; a new one tells the truth.
LEMMA RenderedIs ==
  ASSUME HooksTypeOK, NEW list \in Seq(Assignment), NEW i \in DOMAIN list
  PROVE  /\ Rendered(list)[i] \in Input /\ Rendered(list)[i].hook = list[i].hook
         /\ \/ i \in DOMAIN inputs /\ inputs[i].hook = list[i].hook /\ Rendered(list)[i] = inputs[i]
            \/ Rendered(list)[i].text = list[i].config /\ Rendered(list)[i].meant = list[i].config
<1>1. list[i] \in Assignment /\ \A k \in DOMAIN inputs : inputs[k] \in Input
  BY DEF HooksTypeOK
<1>2. NewInput(list[i]) \in Input /\ NewInput(list[i]).hook = list[i].hook
      /\ NewInput(list[i]).text = list[i].config /\ NewInput(list[i]).meant = list[i].config
  BY <1>1 DEF NewInput, Input, Assignment, Texts
<1>3. Rendered(list)[i] = IF i \in DOMAIN inputs /\ inputs[i].hook = list[i].hook THEN inputs[i]
                          ELSE NewInput(list[i])
  BY DEF Rendered
<1> QED
  BY <1>1, <1>2, <1>3

\* The hook at a place has what its input shows or meant last.
Truthful(a, input) ==
  ~input.handed => /\ a.config = input.meant
                   /\ input.text = input.meant \/ (input.text = NoJson /\ input.flagged)

\* A change of the list that has an input for each place's hook keeps the invariant if
\* those inputs tell the truth.
LEMMA ListChanges ==
  ASSUME HooksInv, NEW list \in Seq(Assignment), Len(list) <= MaxEntries, hookList' = Numbered(list),
         DOMAIN inputs' = DOMAIN list, inputs' = [i \in DOMAIN list |-> inputs'[i]],
         \A i \in DOMAIN list : /\ inputs'[i] \in Input /\ inputs'[i].hook = list[i].hook
                                /\ Truthful(list[i], inputs'[i]),
         UNCHANGED actions
  PROVE  HooksInv'
<1>1. /\ hookList' \in Seq(Assignment) /\ Len(hookList') = Len(list) /\ DOMAIN hookList' = DOMAIN list
      /\ \A i \in DOMAIN list : /\ hookList'[i].order = i /\ hookList'[i].hook = list[i].hook
                                /\ hookList'[i].config = list[i].config
  BY NumberedIs
<1>2. DOMAIN list = 1..Len(list) /\ Len(list) \in Nat
  OBVIOUS
<1>3. inputs' \in Seq(Input) /\ Len(inputs') = Len(list)
  <2>1. inputs' \in [1..Len(list) -> Input]
    BY <1>2
  <2> QED
    BY <1>2, <2>1
<1>4. InputsTellTruth'
  BY <1>1 DEF InputsTellTruth, Truthful
<1> QED
  BY <1>1, <1>3, <1>4 DEF HooksInv, HooksTypeOK, ActionIdsUnique

\* Inputs that stay where they are tell the truth if the configuration stays, too.
LEMMA SetEventKeeps ==
  ASSUME HooksInv, NEW list \in Seq(Assignment), Len(list) <= MaxEntries, SetEvent(list),
         \A i \in DOMAIN list : i \in DOMAIN inputs =>
           i \in DOMAIN hookList /\ list[i].config = hookList[i].config
  PROVE  HooksInv'
<1>1. HooksTypeOK /\ InputsTellTruth
  BY DEF HooksInv
<1>2. /\ hookList' = Numbered(list) /\ actions' = actions /\ inputs' = Rendered(list)
  BY DEF SetEvent
<1>3. DOMAIN inputs' = DOMAIN list /\ inputs' = [i \in DOMAIN list |-> inputs'[i]]
  BY <1>2 DEF Rendered
<1>4. ASSUME NEW i \in DOMAIN list
      PROVE  /\ inputs'[i] \in Input /\ inputs'[i].hook = list[i].hook
             /\ Truthful(list[i], inputs'[i])
  <2>1. /\ Rendered(list)[i] \in Input /\ Rendered(list)[i].hook = list[i].hook
        /\ \/ i \in DOMAIN inputs /\ Rendered(list)[i] = inputs[i]
           \/ Rendered(list)[i].text = list[i].config /\ Rendered(list)[i].meant = list[i].config
    BY <1>1, RenderedIs
  <2>2. i \in DOMAIN inputs => Truthful(list[i], inputs[i])
    BY <1>1 DEF InputsTellTruth, Truthful
  <2> QED
    BY <1>2, <2>1, <2>2 DEF Truthful
<1> QED
  BY <1>2, <1>3, <1>4, ListChanges

\* Numbering actions anew changes none of their ids.
LEMMA SetCustomKeeps ==
  ASSUME HooksInv, NEW list \in Seq(Action), Len(list) <= MaxEntries, SetCustom(list),
         \A i, j \in DOMAIN list : list[i].id = list[j].id => i = j
  PROVE  HooksInv'
<1> DEFINE new == Numbered(list)
<1>1. DOMAIN list = 1..Len(list) /\ Len(list) \in Nat
      /\ \A i \in 1..Len(list) : list[i] \in Action /\ i \in 1..MaxEntries
  BY HookEditorsAssumption
<1>2. \A i \in 1..Len(list) : new[i] \in Action /\ new[i].order = i /\ new[i].id = list[i].id
  BY <1>1 DEF Action, Numbered
<1>3. new \in Seq(Action) /\ DOMAIN new = DOMAIN list
  <2>1. new \in [1..Len(list) -> Action]
    BY <1>1, <1>2 DEF Numbered
  <2> QED
    BY <1>1, <2>1
<1>4. actions' = new /\ UNCHANGED <<hookList, inputs>>
  BY DEF SetCustom
<1> HIDE DEF new
<1>5. HooksTypeOK' /\ InputsTellTruth'
  BY <1>1, <1>2, <1>3, <1>4 DEF HooksInv, HooksTypeOK, InputsTellTruth
<1>6. ActionIdsUnique'
  BY <1>1, <1>2, <1>3, <1>4 DEF ActionIdsUnique
<1> QED
  BY <1>5, <1>6 DEF HooksInv

LEMMA HooksInvInit == HooksInit => HooksInv
<1> SUFFICES ASSUME HooksInit PROVE HooksInv
  OBVIOUS
<1>1. hookList = <<>> /\ inputs = <<>> /\ actions = <<>>
  BY DEF HooksInit
<1>2. hookList \in Seq(Assignment) /\ inputs \in Seq(Input) /\ actions \in Seq(Action)
  BY <1>1
<1>3. DOMAIN hookList = {} /\ DOMAIN actions = {} /\ Len(inputs) = Len(hookList)
  BY <1>1
<1> QED
  BY <1>1, <1>2, <1>3 DEF HooksInv, HooksTypeOK, ActionIdsUnique, InputsTellTruth

\* Adding, choosing, typing and removing hooks.
LEMMA HookActionsKeep ==
  ASSUME HooksInv,
         \/ AddHook
         \/ \E i \in DOMAIN hookList :
              \/ RemoveHook(i)
              \/ \E h \in Hooks : SelectHook(i, h)
              \/ RejectText(i) \/ \E text \in Configs : StoreText(i, text)
  PROVE  HooksInv'
<1>0. /\ hookList \in Seq(Assignment) /\ inputs \in Seq(Input) /\ Len(inputs) = Len(hookList)
      /\ DOMAIN inputs = DOMAIN hookList /\ DOMAIN hookList = 1..Len(hookList) /\ Len(hookList) \in Nat
      /\ \A i \in DOMAIN hookList : /\ hookList[i] \in Assignment /\ inputs[i] \in Input
                                    /\ hookList[i].order = i /\ inputs[i].hook = hookList[i].hook
                                    /\ Truthful(hookList[i], inputs[i])
  BY DEF HooksInv, HooksTypeOK, InputsTellTruth, Truthful
<1>1. Len(hookList) <= MaxEntries
  <2>1. CASE Len(hookList) = 0
    BY <2>1, HookEditorsAssumption
  <2>2. CASE Len(hookList) # 0
    <3>1. Len(hookList) \in DOMAIN hookList
      BY <1>0, <2>2
    <3>2. hookList[Len(hookList)].order \in 1..MaxEntries
      BY <1>0, <3>1 DEF Assignment
    <3> QED
      BY <1>0, <3>1, <3>2, HookEditorsAssumption
  <2> QED
    BY <2>1, <2>2
<1>2. ActionIdsUnique /\ HooksTypeOK
  BY DEF HooksInv
<1>a. CASE AddHook
  <2> DEFINE item == [hook |-> CHOOSE h \in Hooks : TRUE, config |-> NoConfig,
                      order |-> Len(hookList) + 1]
             list == Append(hookList, item)
  <2>1. SetEvent(list)
    BY <1>a DEF AddHook
  <2>2. Len(hookList) + 1 \in 1..MaxEntries
    BY <1>0, <1>a, HookEditorsAssumption DEF AddHook
  <2>3. item \in Assignment
    BY <2>2, HookEditorsAssumption DEF Assignment
  <2>4. list \in Seq(Assignment) /\ Len(list) = Len(hookList) + 1
        /\ \A i \in 1..Len(hookList) : list[i] = hookList[i]
    BY <1>0, <2>3
  <2> HIDE DEF item, list
  <2>5. Len(list) <= MaxEntries
    BY <1>0, <2>2, <2>4, HookEditorsAssumption
  <2> QED
    BY <1>0, <2>1, <2>4, <2>5, SetEventKeeps
<1>b. ASSUME NEW i \in DOMAIN hookList, NEW text \in Configs, StoreText(i, text)
      PROVE  HooksInv'
  <2> DEFINE list == [hookList EXCEPT ![i].config = text]
  <2>1. hookList' = Numbered(list) /\ actions' = actions
    BY <1>b DEF StoreText
  <2>2. list \in Seq(Assignment) /\ Len(list) = Len(hookList) /\ DOMAIN list = DOMAIN hookList
    BY <1>0 DEF Assignment
  <2>3. \A j \in DOMAIN hookList :
          /\ list[j].hook = hookList[j].hook
          /\ list[j].config = IF j = i THEN text ELSE hookList[j].config
    BY <1>0 DEF Assignment
  <2> HIDE DEF list
  <2>4. /\ DOMAIN inputs' = DOMAIN hookList /\ inputs' = [j \in DOMAIN hookList |-> inputs'[j]]
        /\ \A j \in DOMAIN hookList \ {i} : inputs'[j] = inputs[j]
        /\ inputs'[i] = [inputs[i] EXCEPT !.text = text, !.meant = text, !.handed = FALSE,
                                          !.flagged = @ /\ text = NoConfig]
    BY <1>0, <1>b DEF StoreText
  <2>5. /\ inputs'[i] \in Input /\ inputs'[i].hook = inputs[i].hook
        /\ inputs'[i].text = text /\ inputs'[i].meant = text
    <3> DEFINE flag == inputs[i].flagged /\ text = NoConfig
    <3>1. flag \in BOOLEAN /\ inputs[i] \in Input
      BY <1>0 DEF Input
    <3>2. inputs'[i] = [inputs[i] EXCEPT !.text = text, !.meant = text, !.handed = FALSE, !.flagged = flag]
      BY <2>4
    <3> HIDE DEF flag
    <3> QED
      BY <3>1, <3>2 DEF Input, Texts
  <2>6. ASSUME NEW j \in DOMAIN list
        PROVE  /\ inputs'[j] \in Input /\ inputs'[j].hook = list[j].hook
               /\ Truthful(list[j], inputs'[j])
    <3>1. CASE j = i
      BY <1>0, <2>2, <2>3, <2>5, <3>1 DEF Truthful
    <3>2. CASE j # i
      <4>1. inputs'[j] = inputs[j] /\ list[j].hook = hookList[j].hook /\ list[j].config = hookList[j].config
            /\ j \in DOMAIN hookList
        BY <2>2, <2>3, <2>4, <3>2
      <4> QED
        BY <1>0, <4>1 DEF Truthful
    <3> QED
      BY <3>1, <3>2
  <2> QED
    BY <1>1, <2>1, <2>2, <2>4, <2>6, ListChanges
<1>c. ASSUME NEW i \in DOMAIN hookList, NEW h \in Hooks, SelectHook(i, h)
      PROVE  HooksInv'
  <2> DEFINE list == [hookList EXCEPT ![i].hook = h]
  <2>1. SetEvent(list)
    BY <1>c DEF SelectHook
  <2>2. list \in Seq(Assignment) /\ Len(list) = Len(hookList) /\ DOMAIN list = DOMAIN hookList
    BY <1>0 DEF Assignment
  <2>3. \A j \in DOMAIN hookList : list[j].config = hookList[j].config
    BY <1>0 DEF Assignment
  <2> HIDE DEF list
  <2> QED
    BY <1>0, <1>1, <2>1, <2>2, <2>3, SetEventKeeps
<1>d. ASSUME NEW i \in DOMAIN hookList, RejectText(i)
      PROVE  HooksInv'
  <2>1. /\ inputs' \in Seq(Input) /\ Len(inputs') = Len(inputs)
        /\ \A j \in DOMAIN hookList \ {i} : inputs'[j] = inputs[j]
        /\ inputs'[i].hook = inputs[i].hook /\ inputs'[i].text = NoJson /\ inputs'[i].flagged
        /\ inputs'[i].meant = inputs[i].meant /\ inputs'[i].handed = inputs[i].handed
    <3> DEFINE blank == [inputs[i] EXCEPT !.text = NoJson]
               marked == [blank EXCEPT !.flagged = TRUE]
    <3>0. /\ blank \in Input /\ blank.hook = inputs[i].hook /\ blank.text = NoJson
          /\ blank.meant = inputs[i].meant /\ blank.handed = inputs[i].handed
      BY <1>0 DEF Input, Texts
    <3> HIDE DEF blank
    <3>1. /\ marked \in Input /\ marked.hook = inputs[i].hook /\ marked.text = NoJson /\ marked.flagged = TRUE
          /\ marked.meant = inputs[i].meant /\ marked.handed = inputs[i].handed
      BY <3>0 DEF Input
    <3>2. inputs' = [inputs EXCEPT ![i] = marked]
      BY <1>0, <1>d DEF RejectText, blank
    <3> HIDE DEF marked
    <3> QED
      BY <1>0, <3>1, <3>2
  <2>2. UNCHANGED <<hookList, actions>>
    BY <1>d DEF RejectText
  <2>3. \A j \in DOMAIN hookList : inputs'[j].hook = hookList[j].hook /\ Truthful(hookList[j], inputs'[j])
    BY <1>0, <2>1 DEF Truthful
  <2>4. InputsTellTruth'
    BY <2>2, <2>3 DEF InputsTellTruth, Truthful
  <2> QED
    BY <1>0, <1>2, <2>1, <2>2, <2>3, <2>4 DEF HooksInv, HooksTypeOK, ActionIdsUnique
<1>e. ASSUME NEW i \in DOMAIN hookList, RemoveHook(i)
      PROVE  HooksInv'
  <2> DEFINE rest == RemoveAt(hookList, i)
             moved(j) == j >= i /\ rest[j].hook = hookList[j].hook
             drawn == Rendered(rest)
  <2>0. hookList \in Seq(Assignment) /\ i \in 1..Len(hookList)
    BY <1>0, <1>e
  <2>1. /\ rest \in Seq(Assignment) /\ Len(rest) = Len(hookList) - 1
        /\ \A j \in 1..Len(hookList) - 1 : rest[j] = IF j < i THEN hookList[j] ELSE hookList[j + 1]
    BY <2>0, WithoutElement
  <2>2. /\ hookList' = Numbered(rest) /\ actions' = actions
        /\ inputs' = [j \in DOMAIN rest |-> [drawn[j] EXCEPT !.handed = @ \/ moved(j)]]
    BY <1>e DEF RemoveHook
  <2> HIDE DEF rest
  <2>3. DOMAIN inputs' = DOMAIN rest /\ inputs' = [j \in DOMAIN rest |-> inputs'[j]]
    BY <2>2
  <2>4. ASSUME NEW j \in DOMAIN rest
        PROVE  /\ inputs'[j] \in Input /\ inputs'[j].hook = rest[j].hook
               /\ Truthful(rest[j], inputs'[j])
    <3>1. /\ drawn[j] \in Input /\ drawn[j].hook = rest[j].hook
          /\ \/ j \in DOMAIN inputs /\ inputs[j].hook = rest[j].hook /\ drawn[j] = inputs[j]
             \/ drawn[j].text = rest[j].config /\ drawn[j].meant = rest[j].config
      BY <1>2, <2>1, RenderedIs
    <3>2. inputs'[j] = [drawn[j] EXCEPT !.handed = drawn[j].handed \/ moved(j)]
      BY <2>2
    <3> DEFINE hand == drawn[j].handed \/ moved(j)
    <3>3. hand \in BOOLEAN
      OBVIOUS
    <3>4. inputs'[j] = [drawn[j] EXCEPT !.handed = hand]
      BY <3>2
    <3>5. ~hand => j < i \/ rest[j].hook # hookList[j].hook
      BY <2>0, <2>1
    <3>6. ~hand => ~drawn[j].handed
      OBVIOUS
    <3> HIDE DEF hand, drawn, moved
    <3>7. /\ inputs'[j] \in Input /\ inputs'[j].hook = rest[j].hook /\ inputs'[j].handed = hand
          /\ inputs'[j].text = drawn[j].text /\ inputs'[j].meant = drawn[j].meant
          /\ inputs'[j].flagged = drawn[j].flagged
      BY <3>1, <3>3, <3>4 DEF Input
    <3>8. CASE j \in DOMAIN inputs /\ inputs[j].hook = rest[j].hook /\ drawn[j] = inputs[j]
      <4>1. j \in DOMAIN hookList /\ inputs[j].hook = hookList[j].hook /\ Truthful(hookList[j], inputs[j])
        BY <1>0, <3>8
      <4>2. ~hand => rest[j] = hookList[j]
        <5>1. j \in 1..Len(hookList) - 1
          BY <2>0, <2>1
        <5> QED
          BY <2>1, <3>5, <3>8, <4>1, <5>1
      <4> QED
        BY <3>6, <3>7, <3>8, <4>1, <4>2 DEF Truthful
    <3>9. CASE drawn[j].text = rest[j].config /\ drawn[j].meant = rest[j].config
      BY <3>7, <3>9 DEF Truthful
    <3> QED
      BY <3>1, <3>8, <3>9
  <2>5. Len(rest) <= MaxEntries
    BY <1>0, <1>1, <2>1, HookEditorsAssumption
  <2> QED
    BY <2>1, <2>2, <2>3, <2>4, <2>5, ListChanges
<1> QED
  BY <1>a, <1>b, <1>c, <1>d, <1>e

\* Adding, moving and removing custom actions.
LEMMA CustomActionsKeep ==
  ASSUME HooksInv,
         \/ AddAction
         \/ \E i \in DOMAIN actions : RemoveAction(i) \/ \E j \in DOMAIN actions : MoveAction(i, j)
  PROVE  HooksInv'
<1>0. /\ actions \in Seq(Action) /\ Len(actions) \in Nat /\ DOMAIN actions = 1..Len(actions)
      /\ \A i \in DOMAIN actions : actions[i] \in Action /\ actions[i].order = i
      /\ \A i, j \in DOMAIN actions : actions[i].id = actions[j].id => i = j
  BY DEF HooksInv, HooksTypeOK, ActionIdsUnique
<1>1. Len(actions) <= MaxEntries
  <2>1. CASE Len(actions) = 0
    BY <2>1, HookEditorsAssumption
  <2>2. CASE Len(actions) # 0
    <3>1. Len(actions) \in DOMAIN actions
      BY <1>0, <2>2
    <3>2. actions[Len(actions)].order \in 1..MaxEntries
      BY <1>0, <3>1 DEF Action
    <3> QED
      BY <1>0, <3>1, <3>2, HookEditorsAssumption
  <2> QED
    BY <2>1, <2>2
<1>a. CASE AddAction
  <2>1. PICK n \in Len(actions) + 1 .. 2 * Len(actions) + 1 : ~IdTaken(n) /\ NewAction(n)
    BY <1>a DEF AddAction
  <2> DEFINE item == [id |-> n, order |-> Len(actions) + 1]
             list == Append(actions, item)
  <2>2. SetCustom(list) /\ Len(actions) < MaxEntries
    BY <2>1 DEF NewAction
  <2>3. item \in Action
    BY <1>0, <2>1, <2>2, HookEditorsAssumption DEF Action
  <2>4. list \in Seq(Action) /\ Len(list) = Len(actions) + 1
        /\ \A i \in 1..Len(actions) : list[i] = actions[i]
        /\ list[Len(actions) + 1].id = n
    BY <1>0, <2>3
  <2>5. \A i \in DOMAIN actions : actions[i].id # n
    BY <2>1 DEF IdTaken
  <2> HIDE DEF item, list
  <2>6. \A i, j \in DOMAIN list : list[i].id = list[j].id => i = j
    <3>1. \A i \in DOMAIN list : i \in 1..Len(actions) \/ i = Len(actions) + 1
      BY <1>0, <2>4
    <3> QED
      BY <1>0, <2>4, <2>5, <3>1
  <2>7. Len(list) <= MaxEntries
    BY <1>0, <2>2, <2>4, HookEditorsAssumption
  <2> QED
    BY <2>2, <2>4, <2>6, <2>7, SetCustomKeeps
<1>b. ASSUME NEW i \in DOMAIN actions, NEW j \in DOMAIN actions, MoveAction(i, j)
      PROVE  HooksInv'
  <2> DEFINE list == [actions EXCEPT ![i] = actions[j], ![j] = actions[i]]
  <2>1. SetCustom(list) /\ i # j
    BY <1>0, <1>b DEF MoveAction
  <2>2. list \in Seq(Action) /\ Len(list) = Len(actions) /\ DOMAIN list = DOMAIN actions
    BY <1>0
  <2>3. \A k \in DOMAIN actions :
          list[k] = IF k = i THEN actions[j] ELSE IF k = j THEN actions[i] ELSE actions[k]
    BY <1>0, <2>1
  <2> HIDE DEF list
  <2>4. \A k, m \in DOMAIN list : list[k].id = list[m].id => k = m
    BY <1>0, <2>2, <2>3
  <2> QED
    BY <1>1, <2>1, <2>2, <2>4, SetCustomKeeps
<1>c. ASSUME NEW i \in DOMAIN actions, RemoveAction(i)
      PROVE  HooksInv'
  <2> DEFINE rest == RemoveAt(actions, i)
  <2>1. SetCustom(rest)
    BY <1>c DEF RemoveAction
  <2>2. /\ rest \in Seq(Action) /\ Len(rest) = Len(actions) - 1
        /\ \A j \in 1..Len(actions) - 1 : rest[j] = IF j < i THEN actions[j] ELSE actions[j + 1]
    BY ZenonT(60), <1>0, WithoutElement
  <2> HIDE DEF rest
  <2>3. \A k, m \in DOMAIN rest : rest[k].id = rest[m].id => k = m
    <3> SUFFICES ASSUME NEW k \in DOMAIN rest, NEW m \in DOMAIN rest, rest[k].id = rest[m].id
                 PROVE  k = m
      OBVIOUS
    <3> DEFINE at(x) == IF x < i THEN x ELSE x + 1
    <3>1. k \in 1..Len(actions) - 1 /\ m \in 1..Len(actions) - 1
      BY <1>0, <2>2
    <3>2. at(k) \in DOMAIN actions /\ at(m) \in DOMAIN actions
      BY <1>0, <3>1
    <3>3. rest[k] = actions[at(k)] /\ rest[m] = actions[at(m)]
      BY <2>2, <3>1
    <3>4. at(k) = at(m)
      BY <1>0, <3>2, <3>3
    <3> QED
      BY <1>0, <3>1, <3>4
  <2>4. Len(rest) <= MaxEntries
    BY <1>0, <1>1, <2>2, HookEditorsAssumption
  <2> QED
    BY <2>1, <2>2, <2>3, <2>4, SetCustomKeeps
<1> QED
  BY <1>a, <1>b, <1>c

LEMMA HooksInvStep == HooksInv /\ [HooksNext]_hookVars => HooksInv'
<1> SUFFICES ASSUME HooksInv, [HooksNext]_hookVars PROVE HooksInv'
  OBVIOUS
<1>1. CASE UNCHANGED hookVars
  BY <1>1 DEF hookVars, HooksInv, HooksTypeOK, ActionIdsUnique, InputsTellTruth
<1>2. CASE HooksNext
  BY <1>2, HookActionsKeep, CustomActionsKeep DEF HooksNext
<1> QED
  BY <1>1, <1>2

\* The types of the lists, which are numbered by place.
THEOREM HookTypesHold == HooksSpec => []HooksTypeOK
<1>1. HooksInv => HooksTypeOK
  BY DEF HooksInv
<1> QED
  BY <1>1, HooksInvInit, HooksInvStep, PTL DEF HooksSpec

\* No two actions of a table have the same id.
THEOREM ActionIdsAreUnique == HooksSpec => []ActionIdsUnique
<1>1. HooksInv => ActionIdsUnique
  BY DEF HooksInv
<1> QED
  BY <1>1, HooksInvInit, HooksInvStep, PTL DEF HooksSpec

\* A hook has stored what its input shows, or what it meant before the text that is no
\* JSON, until a removal hands the input on.
THEOREM InputsShowConfig == HooksSpec => []InputsTellTruth
<1>1. HooksInv => InputsTellTruth
  BY DEF HooksInv
<1> QED
  BY <1>1, HooksInvInit, HooksInvStep, PTL DEF HooksSpec
==============================================================================
