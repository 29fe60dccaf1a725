------------------------------ MODULE MCConsole ------------------------------
(* The administration pages, each on its own: the behaviour is about the      *)
(* page that is chosen at the start, and the others stay as they begin.       *)
EXTENDS DefinitionForm, ColumnEditors, HookEditors, Accounts, RoleGrants, MetaImport,
        DisplayOrder, Datasources, CsvImport, Sidebar

CONSTANTS one, two, A, B

VARIABLE page

\* All tables have an id that is the primary key; the query's column is none.
MCColumnsOf ==
  [r \in Read \cup Validated |-> IF r[2] \in LiveTables THEN {"id"} ELSE {"n"}]
MCPkOf == [r \in Read \cup Validated |-> MCColumnsOf[r] \cap {"id"}]

\* links is a junction: one column refers to the edited definition, one to users.
MCStored == {<<"id">>}
MCColumnNames ==
  "users" :> {<<"id">>, <<"mail">>} @@ "links" :> {<<"s">>, <<"t">>}
MCRefers ==
  "users" :> (<<"mail">> :> "links") @@
  "links" :> (<<"s">> :> "this" @@ <<"t">> :> "users")

\* A definition that refers to another, alone in its file and with the other.
MCFiles == {"o" :> {"u"}, "o" :> {"u"} @@ "u" :> {}}

\* A file of two rows and one of one.
MCRowsIn == "f" :> 2 @@ "g" :> 1

consolePages == {"table", "columns", "hooks", "users", "roles", "import", "order",
                 "datasources", "csv", "sidebar"}

consoleVars == <<page, draftVars, editorVars, hookVars, accountVars, roleVars, importVars, vars,
                 dsVars, csvVars, sidebarVars>>

MCInit ==
  /\ page \in consolePages
  /\ DraftInit /\ EditorInit /\ HooksInit /\ AccountsInit
  /\ RolesInit /\ (page # "roles" => defs = {} /\ grants = Nothing)
  /\ ImportInit /\ (page # "import" => locals = {})
  /\ Init /\ (page # "order" => list = "groups")
  /\ DsInit /\ CsvInit
  /\ SidebarInit /\ groupOf[A] # NoTable /\ groupOf[B] = NoTable
  /\ (page # "sidebar" => groupIds = {})

\* Hooks and custom actions, which have nothing in common, are edited one without the
\* other.  Requests about the order overlap as long as no statement failed and no item
\* was deleted.  Of the users one at a time has a dialog open.  Somebody else saves
\* the role when all definitions exist, and after that none of them goes.
Undisturbed == faults' = 0 /\ Cardinality(items') = nextId' - 1

MCNext ==
  \/ page = "table" /\ DraftNext
     /\ UNCHANGED <<page, editorVars, hookVars, accountVars, roleVars, importVars, vars, dsVars, csvVars, sidebarVars>>
  \/ page = "columns" /\ EditorNext
     /\ UNCHANGED <<page, draftVars, hookVars, accountVars, roleVars, importVars, vars, dsVars, csvVars, sidebarVars>>
  \/ page = "hooks" /\ HooksNext /\ (hookList' = <<>> \/ actions' = <<>>)
     /\ UNCHANGED <<page, draftVars, editorVars, accountVars, roleVars, importVars, vars, dsVars, csvVars, sidebarVars>>
  \/ page = "users" /\ AccountsNext /\ \E u \in Users : userForm'[u] = Nothing
     /\ UNCHANGED <<page, draftVars, editorVars, hookVars, roleVars, importVars, vars, dsVars, csvVars, sidebarVars>>
  \/ page = "roles" /\ RolesNext /\ (others' = 0 \/ (defs = Defs /\ UNCHANGED defs))
     /\ UNCHANGED <<page, draftVars, editorVars, hookVars, accountVars, importVars, vars, dsVars, csvVars, sidebarVars>>
  \/ page = "import" /\ ImportNext
     /\ UNCHANGED <<page, draftVars, editorVars, hookVars, accountVars, roleVars, vars, dsVars, csvVars, sidebarVars>>
  \/ page = "order" /\ Next /\ (Undisturbed \/ \E q \in Requests : req'[q].pc = "idle")
     /\ UNCHANGED <<page, draftVars, editorVars, hookVars, accountVars, roleVars, importVars, dsVars, csvVars, sidebarVars>>
  \/ page = "datasources" /\ DsNext
     /\ UNCHANGED <<page, draftVars, editorVars, hookVars, accountVars, roleVars, importVars, vars, csvVars, sidebarVars>>
  \/ page = "csv" /\ CsvNext
     /\ UNCHANGED <<page, draftVars, editorVars, hookVars, accountVars, roleVars, importVars, vars, dsVars, sidebarVars>>
  \/ page = "sidebar" /\ SidebarNext
     /\ UNCHANGED <<page, draftVars, editorVars, hookVars, accountVars, roleVars, importVars, vars, dsVars, csvVars>>

MCSpec == MCInit /\ [][MCNext]_consoleVars

\* The types of the page's state.
ConsoleTypeOK ==
  CASE page = "table" -> DraftTypeOK
    [] page = "columns" -> EditorTypeOK
    [] page = "hooks" -> HooksTypeOK
    [] page = "users" -> AccountsTypeOK
    [] page = "roles" -> RolesTypeOK
    [] page = "import" -> ImportTypeOK
    [] page = "order" -> TypeOK
    [] page = "datasources" -> DsTypeOK
    [] page = "csv" -> CsvTypeOK
    [] page = "sidebar" -> SidebarTypeOK

\* Datasources, users, definitions, requests and groups, each on its page.
MCSymmetry == Permutations({one, two})
=============================================================================
