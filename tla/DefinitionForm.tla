--------------------------- MODULE DefinitionForm ---------------------------
(***************************************************************************)
(* The form for a new table definition (web/src/pages/TableForm.tsx).  The *)
(* columns it edits come from a table of the datasource, read as soon as   *)
(* both are chosen, or from an SQL query that the user has validated.      *)
(* Both answers arrive when they like, also after the user chose something *)
(* else.  Columns are modelled by where they were read: <<datasource,      *)
(* table>> or <<datasource, SQL>>.                                         *)
(***************************************************************************)
EXTENDS Browser, FiniteSets

CONSTANTS
  Sources,       \* datasources
  LiveTables,    \* tables that every datasource has
  Sqls,          \* SQL texts
  ColumnsOf,     \* names of the columns of each <<datasource, table or SQL>>
  PkOf,          \* those of them that make up the primary key
  MaxReading,    \* bound: tables whose columns are being read
  MaxValidations \* bound: validations of a query in flight

Read == Sources \X LiveTables
Validated == Sources \X Sqls

ASSUME DefinitionFormAssumption ==
  /\ LiveTables \cap Sqls = {} /\ Nothing \notin Sources \cup LiveTables \cup Sqls
  /\ Nothing \notin Read \cup Validated
  /\ DOMAIN ColumnsOf = Read \cup Validated /\ DOMAIN PkOf = Read \cup Validated
  /\ \A r \in Read \cup Validated : PkOf[r] \subseteq ColumnsOf[r]

VARIABLES
  draft,         \* the form's fields
  liveCols,      \* the tables whose columns are cached
  colFetches,    \* the tables whose columns are being read
  populatedFor,  \* what the populating effect last ran for
  validations,   \* queries sent for validation
  validating,    \* the validation that the button shows as pending
  sentDef,       \* the definition that is being saved, and lateCols at that time
  lateCols       \* history: a validated query's columns came after the user went
                 \* back to tables and before another table was chosen

draftVars == <<draft, liveCols, colFetches, populatedFor, validations, validating,
               sentDef, lateCols>>

Names == UNION {ColumnsOf[r] : r \in Read \cup Validated}
Draft == [ds : Sources \cup {Nothing}, source : {"table", "query"},
          table : LiveTables \cup {Nothing}, sql : Sqls \cup {Nothing},
          keys : SUBSET Names, cols : Read \cup Validated \cup {Nothing}]

Blank == [ds |-> Nothing, source |-> "table", table |-> Nothing, sql |-> Nothing,
          keys |-> {}, cols |-> Nothing]

DraftInit ==
  /\ draft = Blank /\ liveCols = {} /\ colFetches = {}
  /\ populatedFor = <<Nothing, Nothing, Nothing>>
  /\ validations = {} /\ validating = Nothing /\ sentDef = Nothing /\ lateCols = FALSE
-----------------------------------------------------------------------------
(* What a render does.                                                     *)

Chosen(d) == <<d.ds, d.table>>
IsChosen(d) == d.ds # Nothing /\ d.table # Nothing

\* The effect's dependencies: a cached answer counts whatever the source is.
Deps(d, cached) ==
  <<IF Chosen(d) \in cached THEN Chosen(d) ELSE Nothing, d.table, d.ds>>

\* The effect runs when a dependency changed; keys that are set stay.
Populated(d, cached) ==
  IF Deps(d, cached) # populatedFor /\ Chosen(d) \in cached
  THEN [d EXCEPT !.cols = Chosen(d), !.keys = IF @ # {} THEN @ ELSE PkOf[Chosen(d)]]
  ELSE d

\* A chosen table is read, again if it is cached, when it or the source changes.
Render(d, cached) ==
  /\ draft' = Populated(d, cached)
  /\ populatedFor' = Deps(d, cached)

Enabled(d) == d.source = "table" /\ IsChosen(d)
ReadsFor(d) ==
  IF Enabled(d) /\ ~(Enabled(draft) /\ Chosen(d) = Chosen(draft))
  THEN colFetches \cup {Chosen(d)} ELSE colFetches

Choose(d) ==
  /\ Render(d, liveCols) /\ colFetches' = ReadsFor(d)
  /\ Cardinality(colFetches') <= MaxReading
  /\ UNCHANGED <<liveCols, validations, sentDef>>
-----------------------------------------------------------------------------
(* What the user chooses.                                                  *)

\* Another datasource: the keys stay.
ChooseSource(s) ==
  /\ s # draft.ds
  /\ Choose([draft EXCEPT !.ds = s, !.table = Nothing, !.cols = Nothing])
  /\ UNCHANGED <<validating, lateCols>>

\* Mutation: choosing another table leaves the columns of the last one.
ChooseTableOnly(t) ==
  /\ draft.ds # Nothing /\ draft.source = "table" /\ t # draft.table
  /\ Choose([draft EXCEPT !.table = t, !.keys = {}])
  /\ lateCols' = FALSE /\ UNCHANGED validating

ChooseTable(t) ==
  /\ draft.ds # Nothing /\ draft.source = "table" /\ t # draft.table
  /\ Choose([draft EXCEPT !.table = t, !.cols = Nothing, !.keys = {}])
  /\ lateCols' = FALSE /\ UNCHANGED validating

\* reset() forgets a pending validation but does not stop it.
SwitchSource(st) ==
  /\ st # draft.source /\ draft.ds # Nothing
  /\ Choose([draft EXCEPT !.source = st, !.cols = Nothing, !.keys = {}])
  /\ validating' = Nothing /\ lateCols' = FALSE

\* Typing a query leaves the columns of the one that was validated.
TypeSql(q) ==
  /\ draft.ds # Nothing /\ draft.source = "query" /\ q # draft.sql
  /\ draft' = [draft EXCEPT !.sql = q]
  /\ UNCHANGED <<liveCols, colFetches, populatedFor, validations, validating, sentDef, lateCols>>

ToggleKey(n) ==
  /\ draft.cols # Nothing /\ n \in ColumnsOf[draft.cols]
  /\ draft' = [draft EXCEPT !.keys = IF n \in @ THEN @ \ {n} ELSE @ \cup {n}]
  /\ UNCHANGED <<liveCols, colFetches, populatedFor, validations, validating, sentDef, lateCols>>

Validate ==
  /\ draft.ds # Nothing /\ draft.source = "query" /\ draft.sql # Nothing
  /\ validating = Nothing /\ Cardinality(validations) < MaxValidations
  /\ validating' = <<draft.ds, draft.sql>> /\ validating' \notin validations
  /\ validations' = validations \cup {validating'}
  /\ UNCHANGED <<draft, liveCols, colFetches, populatedFor, sentDef, lateCols>>
-----------------------------------------------------------------------------
(* Answers.                                                                *)

ColumnsArrive(r) ==
  /\ colFetches' = colFetches \ {r} /\ liveCols' = liveCols \cup {r}
  /\ Render(draft, liveCols')
  /\ UNCHANGED <<validations, validating, sentDef, lateCols>>

\* The request and its retry fail.
ColumnsFail(r) ==
  /\ colFetches' = colFetches \ {r}
  /\ UNCHANGED <<draft, liveCols, populatedFor, validations, validating, sentDef, lateCols>>

\* onSuccess does not look at what the form shows by now.
QueryValidated(q) ==
  /\ validations' = validations \ {q}
  /\ validating' = IF q = validating THEN Nothing ELSE validating
  /\ draft' = [draft EXCEPT !.cols = q, !.keys = IF @ # {} THEN @ ELSE PkOf[q]]
  /\ lateCols' = (lateCols \/ draft.source = "table")
  /\ UNCHANGED <<liveCols, colFetches, populatedFor, sentDef>>

QueryRefused(q) ==
  /\ validations' = validations \ {q}
  /\ validating' = IF q = validating THEN Nothing ELSE validating
  /\ UNCHANGED <<draft, liveCols, colFetches, populatedFor, sentDef, lateCols>>
-----------------------------------------------------------------------------
(* Saving.                                                                 *)

Step2Complete ==
  /\ draft.ds # Nothing
  /\ IF draft.source = "query" THEN draft.sql # Nothing /\ draft.cols # Nothing
                               ELSE draft.table # Nothing

KeysValid ==
  /\ draft.source = "table" => draft.keys # {}
  /\ draft.keys \subseteq IF draft.cols = Nothing THEN {} ELSE ColumnsOf[draft.cols]

\* Of the table and the SQL only the one the source calls for is sent.
SaveDef ==
  /\ Step2Complete /\ KeysValid /\ sentDef = Nothing
  /\ sentDef' = [def |-> [draft EXCEPT !.table = IF draft.source = "query" THEN Nothing ELSE @,
                                        !.sql = IF draft.source = "query" THEN @ ELSE Nothing],
                 late |-> lateCols]
  /\ UNCHANGED <<draft, liveCols, colFetches, populatedFor, validations, validating, lateCols>>

DefRefused ==
  /\ sentDef # Nothing /\ sentDef' = Nothing
  /\ UNCHANGED <<draft, liveCols, colFetches, populatedFor, validations, validating, lateCols>>

\* A saved definition leads to the list, as do Cancel and the back arrow; the next
\* visit starts blank, with the columns that are cached.
LeaveForm ==
  /\ draft # Blank
  /\ draft' = Blank /\ populatedFor' = <<Nothing, Nothing, Nothing>>
  /\ validations' = {} /\ validating' = Nothing /\ sentDef' = Nothing /\ lateCols' = FALSE
  /\ UNCHANGED <<liveCols, colFetches>>

DraftNext ==
  \/ \E s \in Sources : ChooseSource(s)
  \/ \E t \in LiveTables : ChooseTable(t)
  \/ \E st \in {"table", "query"} : SwitchSource(st)
  \/ \E q \in Sqls : TypeSql(q)
  \/ \E n \in Names : ToggleKey(n)
  \/ Validate
  \/ \E r \in colFetches : ColumnsArrive(r) \/ ColumnsFail(r)
  \/ \E q \in validations : QueryValidated(q) \/ QueryRefused(q)
  \/ SaveDef \/ DefRefused \/ LeaveForm

DraftSpec == DraftInit /\ [][DraftNext]_draftVars
-----------------------------------------------------------------------------
DraftTypeOK ==
  /\ draft \in Draft
  /\ liveCols \subseteq Read /\ colFetches \subseteq Read
  /\ validations \subseteq Validated /\ validating \in validations \cup {Nothing}
  /\ lateCols \in BOOLEAN
  /\ Enabled(draft) /\ Chosen(draft) \in liveCols =>
       populatedFor = <<Chosen(draft), draft.table, draft.ds>>

\* What is saved for a table has the columns that were read from this table of this
\* datasource, and keys among them, whatever was chosen before and in whatever order
\* the answers came; all bets are off when a query's columns came after the user had
\* gone back to tables.
SavedAsInspected ==
  sentDef # Nothing /\ sentDef.def.source = "table" /\ ~sentDef.late =>
    /\ sentDef.def.cols = <<sentDef.def.ds, sentDef.def.table>>
    /\ sentDef.def.keys # {} /\ sentDef.def.keys \subseteq ColumnsOf[sentDef.def.cols]
=============================================================================
