------------------------------ MODULE GridPage ------------------------------
(***************************************************************************)
(* The list of a table's rows in the browser (web/src/pages/Data.tsx):     *)
(* one visit of the page, during which the user may go from table to       *)
(* table, since the route keeps the component and only its id changes.     *)
(* Rows come from a cache keyed by table, query and dataVersion, a number  *)
(* the page raises whenever a write of its own is acknowledged.  Answers   *)
(* arrive in any order, also after the user went on to another table.  The *)
(* cache is the application's and outlives a visit, but dataVersion starts *)
(* from 0 with each: earlier visits may have left answers, and requests    *)
(* still under way, under the keys that this visit comes to use.           *)
(* Of an answer only its age is kept: after how many changes it was read.  *)
(***************************************************************************)
EXTENDS Browser, FiniteSets

CONSTANTS
  Queries,       \* search, filters, sort order and page number, taken together
  Home,          \* the query a table is opened with
  LeftOver,      \* keys of earlier visits, of which something may be left
  MaxChanges,    \* bound: changes of the tables' rows
  MaxCalls,      \* bound: writes in flight at a time
  MaxFetches     \* bound: requests for rows in flight at a time

RowsKeys == [table : Tables, query : Queries, version : Nat]

ASSUME GridAssumption ==
  Home \in Queries /\ LeftOver \subseteq RowsKeys /\ MaxChanges \in Nat /\ MaxCalls \in Nat

VARIABLES
  changes,       \* server: how many changes were made so far
  shown,         \* page: the table and query on screen
  dataVersion,   \* page: raised after each acknowledged write
  cache,         \* page: answers
  fetches,       \* requests for rows in flight, and answers on their way
  form,          \* page: the row editor
  autoEdit,      \* page: whether the URL asks to edit a row
  calls,         \* writes in flight
  known,         \* the last change of each table this visit was told of
  missed         \* history: did the last try to read what is on screen fail, or join
                 \* a request of an earlier visit?

gridVars == <<changes, shown, dataVersion, cache, fetches, form, autoEdit, calls, known, missed>>
listVars == <<shown, dataVersion, cache, fetches, missed>>

RowsKey(s, v) == [table |-> s.table, query |-> s.query, version |-> v]
CurrentKey == RowsKey(shown, dataVersion)

\* A save inserts or updates; a button deletes a row, runs an action or resyncs.
Ops == {"save", "button"}

\* Those that an earlier visit asked for are old.
Answer == [key : RowsKeys, seen : Nat, old : BOOLEAN]
Fetch == [key : RowsKeys, seen : Nat \cup {Nothing}, old : BOOLEAN]
NewFetch(k) == [key |-> k, seen |-> Nothing, old |-> FALSE]
Call == [op : Ops, table : Tables, madeOn : Tables, at : Nat \cup {Nothing},
         phase : {"sent", "ok"}]

InFlight(k) == \E f \in fetches : f.key = k
Cached(k) == {a \in cache : a.key = k}

\* The requests F and one for k, unless one of F is for k and is joined.
Asked(k, F) == IF \E f \in F : f.key = k THEN F ELSE F \cup {NewFetch(k)}
JoinsOld(k, F) == \E f \in F : f.key = k /\ f.old

\* What earlier visits left was read, if it was, before this one's first change.
GridInit ==
  /\ changes = 0
  /\ \E t \in Tables : shown = [table |-> t, query |-> Home]
  /\ dataVersion = 0
  /\ cache \in SUBSET [key : LeftOver, seen : {0}, old : {TRUE}]
  /\ \E F \in SUBSET [key : LeftOver, seen : {Nothing, 0}, old : {TRUE}] :
       /\ \A f, g \in F : f.key = g.key => f = g
       /\ fetches = Asked(CurrentKey, F) /\ missed = JoinsOld(CurrentKey, F)
  /\ form = Nothing /\ autoEdit = FALSE /\ calls = {}
  /\ known = [t \in Tables |-> 0]
-----------------------------------------------------------------------------
(* Reading.  Entries of the cache under an earlier dataVersion are not      *)
(* looked up again, as it only grows during a visit: they are left out.     *)

\* A key that is new to the screen is fetched, also when an answer to it is
\* cached, unless a request for it is under way already.
Show(s, v) ==
  LET k == RowsKey(s, v) IN
  /\ shown' = s /\ dataVersion' = v
  /\ fetches' = Asked(k, fetches) /\ missed' = JoinsOld(k, fetches)
  /\ Cardinality(fetches') <= MaxFetches
  /\ cache' = {a \in cache : a.key.version >= v}

\* The server reads the rows now; the answer may arrive any time later.
ServeRows(f) ==
  /\ f.seen = Nothing
  /\ fetches' = (fetches \ {f}) \cup {[f EXCEPT !.seen = changes]}
  /\ UNCHANGED <<changes, shown, dataVersion, cache, form, autoEdit, calls, known, missed>>

\* Mutation: an answer is kept next to an earlier one to the same query.
RowsPile(f) ==
  /\ f.seen # Nothing
  /\ fetches' = fetches \ {f}
  /\ cache' = IF f.key.version >= dataVersion THEN cache \cup {f} ELSE cache
  /\ UNCHANGED <<changes, shown, dataVersion, form, autoEdit, calls, known, missed>>

RowsArrive(f) ==
  /\ f.seen # Nothing
  /\ fetches' = fetches \ {f}
  /\ cache' = IF f.key.version >= dataVersion THEN (cache \ Cached(f.key)) \cup {f} ELSE cache
  /\ UNCHANGED <<changes, shown, dataVersion, form, autoEdit, calls, known, missed>>

\* The request and its retry fail; what is cached stays on screen.
RowsFail(f) ==
  /\ f.seen = Nothing
  /\ fetches' = fetches \ {f} /\ missed' = (missed \/ f.key = CurrentKey)
  /\ UNCHANGED <<changes, shown, dataVersion, cache, form, autoEdit, calls, known>>

\* The refresh button: refetch() takes the place of a request that would only
\* renew cached rows, and joins one that will bring the first ones.
Refresh ==
  /\ form = Nothing
  /\ IF InFlight(CurrentKey) /\ Cached(CurrentKey) = {} THEN UNCHANGED <<fetches, missed>>
     ELSE /\ fetches' = {f \in fetches : f.key # CurrentKey} \cup {NewFetch(CurrentKey)}
          /\ missed' = FALSE
  /\ UNCHANGED <<changes, shown, dataVersion, cache, form, autoEdit, calls, known>>

\* Typing a search, committing or loading a filter, sorting, turning the page.
ChangeQuery(q) ==
  /\ form = Nothing /\ q # shown.query
  /\ Show([shown EXCEPT !.query = q], dataVersion)
  /\ UNCHANGED <<changes, form, autoEdit, calls, known>>

\* Mutation: the effect on the table's id leaves the row editor open.
OpenTableOnly(t, edit) ==
  /\ t # shown.table
  /\ Show([table |-> t, query |-> Home], dataVersion)
  /\ autoEdit' = edit
  /\ UNCHANGED <<changes, form, calls, known>>

\* The sidebar, the history or a related row's edit button leads to another
\* table; writes in flight and dataVersion go on.
OpenTable(t, edit) ==
  /\ t # shown.table
  /\ Show([table |-> t, query |-> Home], dataVersion)
  /\ form' = Nothing /\ autoEdit' = edit
  /\ UNCHANGED <<changes, calls, known>>
-----------------------------------------------------------------------------
(* The row editor, the buttons of a row and of the toolbar.                *)

\* Its row is new, a copy, or one on screen; what counts is the table.
OpenForm ==
  /\ form = Nothing /\ form' = shown.table
  /\ UNCHANGED <<changes, listVars, autoEdit, calls, known>>

CloseForm ==
  /\ form # Nothing /\ form' = Nothing
  /\ UNCHANGED <<changes, listVars, autoEdit, calls, known>>

\* An effect: the row is looked up as soon as the rows on screen are current.
AutoEdit ==
  /\ autoEdit /\ form = Nothing
  /\ Cached(CurrentKey) # {} /\ ~InFlight(CurrentKey)
  /\ form' = shown.table /\ autoEdit' = FALSE
  /\ UNCHANGED <<changes, listVars, calls, known>>

\* A write goes to the table on screen.
Send(op, on) ==
  /\ Cardinality(calls) < MaxCalls
  /\ calls' = calls \cup {[op |-> op, table |-> shown.table, madeOn |-> on,
                           phase |-> "sent", at |-> Nothing]}
  /\ UNCHANGED <<changes, listVars, form, autoEdit, known>>

Save ==
  /\ form # Nothing /\ ~\E c \in calls : c.op = "save"
  /\ Send("save", form)

Press == form = Nothing /\ Send("button", shown.table)

ServeCall(c) ==
  /\ c.phase = "sent" /\ changes < MaxChanges
  /\ changes' = changes + 1
  /\ calls' = (calls \ {c}) \cup {[c EXCEPT !.phase = "ok", !.at = changes']}
  /\ UNCHANGED <<listVars, form, autoEdit, known>>

\* The server refuses and changes nothing; the page shows why, the editor stays.
RefuseCall(c) ==
  /\ c.phase = "sent" /\ calls' = calls \ {c}
  /\ UNCHANGED <<changes, listVars, form, autoEdit, known>>

Acknowledged(c) ==
  /\ c.phase = "ok" /\ calls' = calls \ {c}
  /\ known' = [known EXCEPT ![c.table] = IF c.at > @ THEN c.at ELSE @]

\* Mutation: a delete, an action or a resync does not read the rows again.
AcknowledgeSaves(c) ==
  /\ Acknowledged(c)
  /\ form' = IF c.op = "save" THEN Nothing ELSE form
  /\ IF c.op = "save" THEN Show(shown, dataVersion + 1) ELSE UNCHANGED listVars
  /\ UNCHANGED <<changes, autoEdit>>

\* onSuccess: every write raises dataVersion, and a save closes the row editor,
\* also one that was opened elsewhere since.
Acknowledge(c) ==
  /\ Acknowledged(c)
  /\ form' = IF c.op = "save" THEN Nothing ELSE form
  /\ Show(shown, dataVersion + 1)
  /\ UNCHANGED <<changes, autoEdit>>

GridNext ==
  \/ \E f \in fetches : ServeRows(f) \/ RowsArrive(f) \/ RowsFail(f)
  \/ Refresh
  \/ \E q \in Queries : ChangeQuery(q)
  \/ \E t \in Tables, edit \in BOOLEAN : OpenTable(t, edit)
  \/ OpenForm \/ CloseForm \/ AutoEdit \/ Save \/ Press
  \/ \E c \in calls : ServeCall(c) \/ RefuseCall(c) \/ Acknowledge(c)

GridSpec == GridInit /\ [][GridNext]_gridVars
-----------------------------------------------------------------------------
\* Types; one request at a time for a key, and one answer kept.
GridTypeOK ==
  /\ changes \in Nat /\ known \in [Tables -> Nat]
  /\ shown \in [table : Tables, query : Queries] /\ dataVersion \in Nat
  /\ cache \subseteq Answer /\ fetches \subseteq Fetch
  /\ \A a, b \in cache : a.key = b.key => a = b
  /\ \A f, g \in fetches : f.key = g.key => f = g
  /\ form \in Tables \cup {Nothing} /\ autoEdit \in BOOLEAN /\ calls \subseteq Call
  /\ missed \in BOOLEAN

\* The list shows the user's own writes: once nothing is being read for the
\* query on screen, its rows were read after every change of the table that
\* this visit was told of, however late the answers to earlier requests are.
\* Only rows that an earlier visit asked for may be older, and only where this
\* one's try to read them again failed, or joined that visit's request.
OwnWritesShow ==
  ~InFlight(CurrentKey) =>
    \A a \in Cached(CurrentKey) : known[shown.table] <= a.seen \/ (a.old /\ missed)

\* What the row editor sends goes to the table it was opened on, although the
\* request is built from the table on screen when the button is pressed.
FormWritesItsTable == \A c \in calls : c.op = "save" => c.table = c.madeOn
=============================================================================
