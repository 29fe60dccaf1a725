# ku-crud: a verification project

ku-crud is a Go server with an embedded React client that gives a team CRUD
pages over tables of existing Postgres and MySQL databases.  What the pages look
like and what they may do is metadata kept in one SQLite file: datasources, table
definitions with their columns, roles and grants, users, sidebar groups,
dashboard cards, an audit trail, and an outbox of hooks to run after a write.  The
TLA+ modules here model the parts of server and client that keep state across
steps, and state what must hold of them.

Run `tlc -config X.cfg M` for a run of the table in section 4, and `tlapm M.tla`
for the proofs in the modules whose names end in `Proofs`.
`PROJECT.json` lists the runs, the mutation of the code each property detects, the
source lines of every definition, the findings, the hazards, and the theorems.

## 1. Inventory

Paths are relative to the repository; client files are under `web/src/`.

| Component | State | Operations | Promise | Module |
|---|---|---|---|---|
| After-hook outbox: `internal/meta/outbox.go`, `internal/hooks/worker.go`, `internal/api/hooksexec.go`, `core/hooks/exec.go` | `hook_outbox` rows; the worker's batch | enqueue after a write; poll, run, mark; manual retry; cascade | every recorded after-hook is delivered or visibly given up after its retry budget; no side effect repeats without a crash or lost mark; first executions in order | `HookOutbox`, `AfterHookDelivery` |
| Row writes: `core/engine/rows_write.go`, `rels.go`, `platformhooks/audit.go` | the live tables; per request what it fetched | insert, update, delete, bulk delete, m2m sync | references hold, refusals write nothing, the audit trail is what happened | `RowWrites` |
| Display order: `internal/meta/groups.go`, `statcards.go` | `position` of groups and cards | create, move, delete | a move exchanges neighbours, a new item is last | `DisplayOrder` |
| Table definitions: `internal/meta/tabledefs.go`, `internal/api/tables.go` | `table_defs`, `columns`, `table_groups` | create, edit, resync, group, delete | names identify, keys are columns, edits keep groups, ids are not reused | `TableDefs` |
| Data page: `pages/Data.tsx` | the query on screen and a cache of answers; the row editor; ticked rows | browse, save, delete, run an action, tick, delete in bulk | own writes show, a form writes to its table and changes only the links that were toggled, reports add up | `GridPage`, `RowForm`, `BulkSelection` |
| Grouped, calendar and kanban views: `pages/Data.tsx`, `views/*.tsx` | pages read so far; the board's columns | read page after page, drop a card, reload | every row is shown once, reading ends, the board agrees with the server | `ChunkedReads`, `KanbanBoard` |
| Sidebar: `components/Sidebar.tsx` | two lists of different age | read, group, log out | every table under its group | `Sidebar` |
| Definition form and editors: `pages/TableForm.tsx`, `components/{ColumnListEditor,HooksEditor,ActionsEditor}.tsx` | the draft; columns on their way; choices that depend on choices | choose, validate, edit columns, hooks and actions, save | a definition is saved as inspected, what looks complete is accepted, ids are unique | `DefinitionForm`, `ColumnEditors`, `HookEditors` |
| Accounts: `internal/meta/users.go`, `internal/api/{users,setup}.go`, `cmd/seed-admin`, `pages/Users.tsx` | users, their roles and flags; dialogs and requests | setup, seed, create, change, disable, delete | an enabled Admin remains; users have roles that exist | `Accounts` |
| Roles: `internal/meta/roles.go`, `internal/api/roles.go`, `pages/Roles.tsx` | roles and grants; the dialog | create, change, delete | a save leaves alone what was not touched | `RoleGrants` |
| Metadata import: `internal/api/metatransfer.go`, `internal/meta/metatransfer.go`, `pages/MetaTransfer.tsx` | file, preview, selection; plan | preview, plan, apply | what is applied was previewed; references resolve | `MetaImport` |
| Datasources: `internal/{api,meta}/datasources.go`, `pages/Datasources.tsx` | connection rows; dialogs and requests | create, edit, delete | an edit without a password keeps the stored one | `Datasources` |
| CSV import: `core/engine/importcsv.go`, `pages/Import.tsx` | file, mapping, preview; the rows inserted | analyse, check again, load | the report accounts for every row | `CsvImport` |
| Sessions and rate limit, resolver and dispatch, reads and text processing, custom actions and saved filters, settings and migrations, adapters, other pages, generators | see section 6 | | | not modelled |

How they interact.  An HTTP handler resolves a definition (metadata store),
opens the live database, and calls the write service.  The write service calls
back into the platform for before-hooks, the audit row and after-hooks; the last
of these inserts outbox rows, which the worker goroutine reads.  All metadata
goes through one SQLite connection, so single statements and transactions are
atomic and a handler is a sequence of them that any other handler, or the
worker, may come between.  Statements on the live database are not in a
transaction.  Hooks are user code and may do anything, including blocking.  A page
of the client is a state machine of event handlers and continuations; its
requests are answered in any order, late or not at all, and it keeps answers in a
cache (React Query) that outlives its parts.

What is hard here: check-then-act over two statements (names, roles, references,
positions); values read once and written back later (resync, group on edit,
passwords, grants, outbox attempts); the missing transaction around a row with its
links and audit; one failing step among several (bulk delete, import); crash,
retry and cascade around the outbox; and in the client answers that arrive after
the user went on, caches that a write does not invalidate, and state that is not
reset when the route keeps a component.  `PROJECT.json` lists these as hazards with
the line where each bites and the property that watches it.

## 2. Plan

The order in which the modules were written: the outbox with its abstraction and
proofs, row writes, display order, table definitions; then the data page, the
definition form and its editors, accounts and roles, the metadata import with
datasources, the CSV import, the sidebar.  All of it is done.  What would come next:

1. the referenced column of a row as a value of its own in `RowWrites`, to see what
   an update of it leaves behind (`rows_write.go:358`);
2. the pure rules (row keys, filters, computed columns, drift) as operators,
   checked against a reference definition;
3. a group's import, and saved filters.

## 3. Modules

`Browser` holds what all pages of the client share: the constants, and the
convention that a handler runs to its end before the next one starts; `Ordered` what
sorting and filtering a sequence leave.  Where a
module composes others it says so below; `MCDataPage` and `MCConsole` put the parts
of one page, and the administration pages, side by side: a behaviour is about the
one chosen by `part` or `page` at the start, the others stay as they begin.

### HookOutbox, AfterHookDelivery

One row of `hook_outbox` is `outbox[i]`; `i` is its AUTOINCREMENT id.  Time is the
flag `due`: `next_retry_at` is reached or NULL.  `worker` is the goroutine: `batch`
holds the rows `DueOutbox` returned and `execOne` has not settled, `snap` the
attempts these rows had when they were read, which is what the code counts
from.  `CommitWrite`, `EnqueueAfter` (one INSERT per assignment) and `Reply` are a
write request; `Poll`, `Begin`, `HookReturns`, `MarkDone`, `MarkFailed`, `GiveUp` the
worker; `MarkLost` a mark whose error is ignored.  `Crash` loses requests and the
batch and keeps the store; `Restart` may start a binary with other hooks.

`AfterHookDelivery` is what the outbox promises: an obligation is owed, may fire,
is delivered only after it fired, may be given up and reopened, is withdrawn
with its definition, and does not stay owed.  `HookOutbox` implements it with the
status of a row as its fate (`ImplementsDelivery`); delivery is at least once,
and `FiredOncePerFault` says how much more than once.

Fairness: weak fairness of `WorkerStep` (a goroutine in a loop with a ticker; a
hook is given a context that ends after 30 s, and the model assumes it obeys,
which `runGuarded` cannot enforce), of the backoff timers (clocks run), and of
`Restart` (the service file in the README restarts the process).  Nothing is
assumed of clients or administrators.  Faults are bounded, which is what
`EventuallySettled` needs: with faults for ever an entry may fail for ever.

`OneEntryPerAssignment` is stated for behaviours without faults: enqueueing is
best effort by design.

### RowWrites

A table with a self-referencing fk column and an m2m column, in a database that
declares the foreign keys or does not (`enforced`).  `req[q]` is a handler's local
state; `pc` names the next statement.  A key may match several rows (the README
allows key columns that are no primary key): `Fetch` reads them, the write acts
on those that match later.  `Effect` keeps, per request, what it changed, audited
and handed to after-hooks; an audit row is best effort in the code, and the
properties say for which changes it is attempted.  `overlapped` holds the requests that ran
while another one did; `rewritten` marks updates whose hook replaced an fk
value after the check.  Before-hooks run inside the transactionless handler and
either reject or replace the fk value.  `targets` are the values of the target table
there are; a selection may name any others (`Tags`), for `checkFKValues` looks at fk
columns only and nobody checks what a selection names.  `ReferencesHold` therefore
allows a junction row to a target that is gone where the database declares no key,
but only one that a selection asked for (`StrayLinksWereAskedFor`).  `targets` does not
change: a target deleted since the form was opened is one that is missing.

Not in the model: the values of other columns, several m2m columns, changes of
the referenced column itself, SQL errors that are not failures of a whole
statement, and validation of the body, of which only acceptance matters.

### DisplayOrder

Both lists in one module, since they promise the same thing and do it
differently: `Swapped` is the difference (`MoveGroup` writes list indexes,
`MoveStatCard` stored positions), and so is what happens when a statement fails
(groups ignore it, cards return).  `Create`/`Insert` and `Move`/`PlaceFirst`/`PlaceSecond`
are the statements.  `alone` tells whether another request, a deletion or a failure
came between; `was` is the order the request began with.

### TableDefs

Definitions by id with name, columns, one key column, one fk and a group.  Edits
are `Update`, `KeepGroup` (the read that carries the group over), `Validate`,
`CheckName`, `UpdateTableDef`; creation the same without the group.  A resync reads
the definition (`Resync`), inspects the live table (`Inspect`) and replaces all
columns (`ReplaceColumns`).  `DeleteGroup` is two statements.  `stale` records what a
request read before another one wrote.  The single key and fk column stand for
any number, since each is treated alike.  Query views have no name, key or fk.

### GridPage, RowForm, BulkSelection

`GridPage` is one visit of the list: rows come from a cache keyed by table, query
and `dataVersion`, which the page raises when a write of its own is acknowledged.
Of an answer its age is kept, so that `OwnWritesShow` can say that what is shown is
not older than what the page was told.  The cache is the application's
(`main.tsx:23`) and `dataVersion` starts from 0 with each visit (`Data.tsx:85`), so
earlier visits may have left answers and requests under keys that this one comes
to use: `GridInit` takes any of them with a key of `LeftOver`, marked `old`.  A key that
is new to the screen is read again also when it is cached; where that read fails, or
joins the earlier visit's request, rows older than the user's own write do stay on
screen.  `missed` records it, and the property allows old rows only then.  The route
keeps the component when the user goes to another table; `FormWritesItsTable` is
about the request that is built from the table on screen.

`RowForm` is the row editor's m2m fields: `linksCache` outlives the editor and is
not invalidated by a save, an answer may arrive when a target was toggled already,
and each field's effect writes all values of the form as it last rendered them.
`opening` records what the user did in this opening, which is what
`UntoggledLinksStay` compares with what the server then replaces.

`BulkSelection` keeps the ticked keys with the table they were ticked in; the page
knows the keys only.  A delete is one request after the other, each of which may
fail after it took rows.

### ChunkedReads, KanbanBoard

`ChunkedReads` is the loop of the grouped grid and that of the calendar: they stop
at different totals, and rows come and go between pages.  Fairness of the server's
answer and of the loop (`ChunkFairness`): a request is answered or fails, and an
await that is answered goes on.  `KanbanBoard` has a column for each value and one
for none; columns append or replace pages they cannot tell apart, a drop is a PUT
that moves the card when it is accepted.  `outdated` records the columns that
somebody else changed, or that had two requests in flight; `BoardMatchesServer`
speaks of the others.  A drag holds the card as it was when the drag began (`drag`),
whatever the columns hold when it ends, and the page does not stop a second drop
while the first is on its way, so `drops` is a set.

### Sidebar

The groups and the tables are two lists; a change of one's own has both read again
(`RereadBoth`), except that a first read under way is waited for.  `ByGroup` is what is
drawn.  A group is deleted in two statements and its tables fall back.

### DefinitionForm, ColumnEditors, HookEditors

`DefinitionForm`: columns are identified by where they were read, so that the saved
ones can be compared with the saved table.  `Populated` is the effect that copies
them into the form and `populatedFor` its dependencies; `QueryValidated` is an answer
that does not look at what the form shows by now.  `ColumnEditors`: a choice clears
what depends on it; `FkAccepted` and `M2MAccepted` are the server's checks, and
`ChoicesAccepted` says they accept what looks complete.  `HookEditors`: configuration
inputs are uncontrolled and found again by hook and place.  An input is left with a
text that is stored (`StoreText`) or with one that is no JSON, which stays, is marked
(`flagged`) and leaves the hook as it was (`RejectText`); `meant` is what the input last
stood for and `handed` says that a removal gave it to another assignment of the same
hook, until it is left.  Of an input that was handed on the model keeps the old text,
while the browser shows the new default in one that was never typed in; nothing is
said of it.  Emptying a marked input stores nothing and leaves the mark, as in the
code.  Ids of actions are the first free number.

### Accounts, RoleGrants

A request is admitted, checked and carried out in separate statements, and every
administrator has a page and a request of their own.  `Context` is what a session
is worth: the user exists, is enabled and has a role that exists.  The two
statements that set role and flag are `UpdateRole` and `UpdateDisabled`; deleting a role is
one transaction.  `RoleGrants` is the role dialog: a save sends all grants, built from
two cached lists, and the server replaces them.

### MetaImport, Datasources, CsvImport

`MetaImport`: a preview, a selection made on it, a plan read from the store and a
transaction that looks references up anew.  `Datasources`: an edit reads the stored
password in one statement and writes it back in another; imports write passwords
as well; `given` is the history `PasswordsKept` compares with.  `CsvImport`: rows are
checked, inserted one by one and handed to after-hooks at the end; which of them are
valid may differ from check to check.

## 4. Runs

| Run | Instance | Shows |
|---|---|---|
| `outbox` | 1 definition with 2 after-hooks, 1 write, 2 builds (one lacks a hook), budget of 3 failures, 2 faults, 1 manual retry | the safety properties, the refinement and liveness |
| `outbox_retry` | the same, 1 fault | finding: a manual retry can be lost |
| `row_writes` | 2 rows, 2 keys in every keying (unique and shared), 1 tag, which names a target or none, 2 requests of any kind, 1 failing statement; grants revoked where nothing fails and requests follow one another; keys that mean several rows only so, too, and without failures | all properties of `RowWrites` |
| `bulk_delete_check` | 1 request, 1 failing statement | finding: a key whose check failed is deleted |
| `insert_audit` | 1 request | finding: an insert whose links fail is not audited |
| `group_move_gaps` | 1 request at a time, 5 items | finding: gaps make a group jump |
| `table_defs` | 2 requests at a time of 3, 2 names, 2 columns, 1 group, 1 ALTER TABLE, 1 failing read; starts with one definition | the catalogue |
| `table_names_race` | the same | finding: two definitions with one name |
| `data_page` | grid: 2 tables, 2 queries, 1 change, 1 write and 2 reads in flight, an earlier visit's answer and request for the first table's version 1, a link to edit a row followed with no write in flight; bulk: 2 keys, requests of 1; reading: 3 rows, pages of 1 or 2, cap 2; editor: 2 m2m columns, 1 target, 1 change by others; board: 2 cards, 1 value and none, pages of 1, 2 pages, 3 reads, 2 writes of which the second is a drop while another is on its way | the properties of the data page's parts |
| `bulk_ticks` | 2 tables with 2 keys each | finding: ticks of one table delete rows of another |
| `console` | definitions: 2 datasources with 2 tables, 1 query, the columns of 2 tables being read at a time; columns: 2 other definitions, one a junction, 7 edits; hooks: 2 hooks, 2 configurations and a text that is none, 3 entries, hooks and actions each while the other list is empty; users: 2 users, 2 roles, 2 requests, one dialog open at a time; roles: 2 definitions, 1 right, saved by somebody else only with all definitions there to stay; import: 2 files, 3 ids; order: 2 requests, 3 items, 1 failing statement; datasources: 2 administrators, 2 names, 2 datasources, 3 writes; CSV: a file of 2 rows and one of 1; sidebar: 2 groups, 2 tables (one defined later), 2 changes; the order's statements fail and its items are deleted only where requests do not overlap | the properties of the administration pages and the sidebar |
| `accounts_roles` | 2 users, 2 roles, 2 requests | finding: a user with a role that is gone |

Why these bounds are enough for the questions asked.  Outbox: with two entries a
batch can hold one entry while another is retried, and a budget of three
separates first, middle and last failure; two faults allow a crash after a lost
mark.  The code's budget of six and batch of ten differ only in length, and the
theorems hold for every budget and batch size.  Row writes: the hazards
need two actors at one row, a second row to refer to it, and one link.  Display
order: two neighbours and a third that must not move.  Definitions: a race needs
two requests, a dangling reference three definitions in a row.  Grid: an overtaken
answer needs a second read, and a write between, and version 1 is the first that a
write brings and an earlier visit may have used; the proof covers any number.
Form: columns that arrive after another table was chosen need two reads under way.
Bulk: two keys make two requests.  Reading: three rows on pages of two are cut in the
middle of a page and at the cap; pages past the last are empty and taken for one.
Editor: one column's effect undoes another's.  Board: two cards make a second page
of one column.  Sidebar: a change of one's own and one of somebody else's, a table
that is defined or deleted meanwhile.  Columns: an fk or a relation takes five
choices, and two more change it.  Accounts: two Admins who take each other's rights;
the proof covers any number.  Datasources: an edit, another edit or an import, and a
deletion with a name that is used again.

`CHECK_DEADLOCK FALSE` everywhere: all requests answered and nothing pending is a
proper end.  Symmetry is used only where the run has no liveness property, over
values the modules only compare: requests, names and columns in `table_defs`,
requests in `row_writes` and rows together with their keys, and in `console` the two
values that serve as datasources, users, definitions, requests, groups and
administrators, each on its own page.

What the violated runs show is described in `PROJECT.json` under findings, with
the sentence of the repository each contradicts.

## 5. Proofs

All theorems hold for every value of the constants that satisfies the named
assumptions of the modules (bounds are naturals, marks such as `Nothing` are outside
the sets they extend); TLC evaluates these on the instances of the runs.

| Module | Theorems | Invariant beyond types and the property |
|---|---|---|
| `HookOutboxProofs` | `TypeCorrect`, `DeadOnlyWhenSpentAlways`, `FiredOncePerFaultAlways`, `FirstTurnsInOrderAlways` | `IInv`, below |
| | `ImplementsDeliveryAlways` | `SuccessInv`: what is about to be marked done has fired |
| | `OneEntryPerAssignmentAlways` | `EntriesInv`: the entries of a write stand for assignments its request is past, in their order; each has exactly one while there was no fault |
| | `FailuresStayWithinBudget` | `SpendInv`: the attempts of a row account for its failures, and in a batch they are not above the snapshot's |
| `RowWritesProofs` | `TypeCorrect`, `ReferencesHoldAlways`, `TrailMatchesChangesAlways`, `RefusedWritesNothingAlways`, `BulkReportsEachKeyAlways`, `LinksBecomeSelectionAlways` | `IInv`, below |
| `TableDefsProofs` | `TypeCorrect`, `NamesIdentifyHolds`, `KeyIsColumnHolds`, `EditKeepsGroupHolds`, `DanglingStaysDanglingHolds` | `Holds`: what a request that is not stale read, checked and is about to write agrees with the catalogue.  `FkInv`: a reference points below `nextId` |
| `DataPageProofs` | `GridTypesHold`, `OwnWritesAreShown`, `FormWritesToItsTable` | `FreshAnswers`: whatever this visit asked for and is cached, or on its way and served, under the current `dataVersion` was read after all the page knows of its table; nothing is asked for under a later one.  `Renewed`: where an earlier visit left rows under the key on screen, a request of this visit is on its way, or `missed`.  `FormOnScreen`: an editor is about the table on screen |
| | `BulkTypesHold`, `BulkReportAlwaysAddsUp` | `Accounted`: keys deleted, failed, asked for and still to be asked for add up to the ticked ones; rows gone are those counted and those a request took |
| | `ChunkTypesHold`, `AllRowsAreRead` | `ReadSoFar`: what is gathered are the pages before the one being read; `AnswerIsPage`; `NoRowTwice` in the store |
| | `ReadingWearsOut` | `PastTheEnd`: pages past the last are empty and no total is larger than the number of rows there may be |
| | `FormTypesHold`, `UntoggledLinksAlwaysStay` | `FieldShows`: a field, unless another column's effect undid it, differs from the links read by toggled targets only; `SaveKeeps`: so does a save |
| | `BoardTypesHold`, `BoardAlwaysMatches` | `ColumnFits`: a trusted column holds its first pages, and its one request is for the page that follows and, once served, has what the server has; `OneReadEach` |
| | `PartsRunAsAlone`, `PageTypesHold` | none: below |
| `EditorProofs` | `DraftTypesHold`, `DefinitionSavedAsInspected` | `DraftFollowsTable`: in table mode the columns held are those of the chosen table, unless a query's came late |
| | `EditorTypesHold`, `ChoicesAreAccepted` | `FkFits`, `M2MFits`: what a column has chosen belongs to the table, or the junction, chosen now, or was there to choose before columns were removed or renamed (`Choosable`); names are distinct until one collides |
| | `HookTypesHold`, `ActionIdsAreUnique`, `InputsShowConfig` | the three are inductive together; the work is in what removing and moving do to the lists and to the inputs that stay where they are |
| `ConsoleProofs` | `AccountTypesHold`, `AdminAlwaysRemains` | `Protected`: some first user is an enabled Admin, and no request that passed the checks is about it.  `Untouched`: before the first user nobody exists and nothing is under way |
| | `RolesTypesHold`, `UntouchedGrantsAreKept` | `UntouchedAsOpened`: untouched grants of the dialog, and of a save, are as they were when it opened |
| | `ImportTypesHold`, `ImportSendsPreviewed`, `ImportReferencesResolve` | `PlanFits`: the ids a plan is about to take are there to be taken.  `PageFollowsFile`: an upload, and the preview shown, are about the chosen file.  The third theorem needs no invariant, since the transaction looks references up itself |
| | `CsvTypesHold`, `LoadReportAlwaysHolds` | `PreviewIsOfFile`; `LoadCounts`: rows loaded, failed and still to come add up |
| | `SourceTypesHold`, `PasswordsAreKept` | `NamesUnique`; `SavesKnowSources`: dialogs and saves are about datasources that were created, and a password a save has read was given to it |
| | `PagesRunAsAlone`, `ConsoleTypesHold` | none: below |
| `SidebarProofs` | `SidebarTypesHold`, `TablesStayUnderTheirGroups` | `ListsCurrent`: a list that is not being read again is as the server's, as far as the user's own changes go; `DropsDelete` |
| | `OrderTypesHold`, `NewItemAlwaysComesLast`, `MovesSwapNeighbours` | `AloneInv`: what a request that overlapped no other has read still holds; `Bounded` |

None of the outbox's safety properties is inductive.  `IInv` adds: `BatchInv`, a row in
the batch is pending or deleted, so only the worker settles it; `BudgetInv`, neither
the stored nor the remembered count of attempts exceeds the failures there were
(a retry sets it to zero, a stale snapshot only lowers it); `FiredInv`, an entry not
yet settled has fired at most once per fault, with one more exactly while the
worker stands between the side effect and the mark; `TurnInv`, everything older than
a row of the batch is in the batch, has had its turn, or is deleted, which is what
ORDER BY id with a LIMIT gives (`OldestFirst`); `IdsInv` and `FreshInv`, rows beyond the
sequence are untouched.  The proof goes action by action: type correctness and
`BatchInv` first (`NextTyped`), then the parts about history (`NextInv`).  For
`ImplementsDeliveryAlways` each action is a step of the delivery or none; it covers
the abstract initial condition and next-state relation.

In `RowWrites` a request that overlapped another knows little: `Own` relates what it
has changed, audited and scheduled to its phase in any interleaving, which is all
`RefusedWritesNothing` and `BulkReportsEachKey` need.  One that has been alone since
it began knows more (`Alone`): what it fetched still holds (`Fetched`), its checks are
not out of date (`Ready`), and changes, trail and after-hooks agree (`Trail`).  The
step of the proof that matters is that a step of another request makes both of
them overlap.  `Sound`, that no reference dangles, is an invariant only when the
database enforces keys or requests are `Careful`; the theorem says so.  Of a link's target even
this is not enough: `StrayLinksStay` is inductive because junction rows are only added
by `AddLink`, of what the request's selection names.

`NamesIdentify` and `KeyIsColumn` of `TableDefs` follow from `Holds` in the same way:
what a request found is true until another request writes, and then it is `stale`.

`AdminRemains` is worth its proof: a first user cannot be changed, but one that a
late `seed-admin` adds may bear the name of a user whom a request has passed its
checks about, so "every first user is safe" is false and `Protected` asks for one.

`ChoicesAccepted` asks whether the server accepts a column that looks complete, so
the invariant is about what a half-made choice may hold.  It needs one fact about
another card: removing a relation removes every card of its name
(`ColumnListEditor.tsx:861`) and changing one patches the first of its name
(`:857`), so cards are told apart by name, until a name collides.

What `filter` and `sort` leave is not said with `SelectSeq` or `SetToSortSeq`, which
take an operator that none of the provers can instantiate, but with `Ascending` and
`AtPlaces` of `Ordered`.  `OrderedProofs` has their lemmas: the sequence holds the set
it is made of, ascending, and is the only one that does.

`BoardMatchesServer` is about columns that nothing under way concerns, which is not
inductive: what is under way decides what a column will hold.  `ColumnFits` speaks of
the request as well, for the columns that are trusted although a drop is in flight
(not those a refused drop will have read again), and says nothing while a reload of
all columns is due.  Any number of drops may be on their way: one that is
accepted has all columns read again, one that is refused leaves its two columns out
until they are.  The pages read so far are stated as the start of the list
(`FirstPages`); that the next page joins them, for the last column also after rows
with a value were dropped, is `FirstPagesGrow`, from `AtPlacesJoin` of `OrderedProofs`.

The theorems about a module are about its own specification, and the runs check it in a
composition, with a choice of tables to begin with and with restrictions that keep the
instance small.  `PartsRunAsAlone` and `PagesRunAsAlone` close the gap: a behaviour of
`MCDataPage` or `MCConsole` is, for each of the parts, a behaviour of that part's
specification, so the composition adds nothing to what a part can do and every theorem
about a part holds of the page.  `PageTypesHold` and `ConsoleTypesHold` follow at once.

Only model-checked is liveness (`EventuallySettled`, `ReadingEnds`), which is beyond
the prover, as is ENABLED; the fairness of `AfterHookDelivery` is part of that.  What
does not need fairness of the two is proved: that a reading wears out
(`ReadingWearsOut`: `Left` falls with every step of the loop, and rows that come and go do
not raise it), and that an entry can fail only so often (`FailuresStayWithinBudget`),
the other direction of `DeadOnlyWhenSpent`.  The latter is not obvious from the code: a
mark writes the attempts of a snapshot, so a retry's reset may be overwritten, and it
holds because the snapshot is never below the row (`Accounted`).

Where a proof needs induction over numbers or finite sets it takes a least
counterexample of a concrete set (`LeastNatural`) instead of the library's induction
theorems.  No module declares a RECURSIVE operator.

## 6. Not modelled

- Sessions and the rate limit (`internal/api/auth.go`, `ratelimit.go`): a session is a
  signed cookie and each request looks the user up again, which `Accounts` has as
  admission; the limit is a matter of time only.
- Resolver and dispatch (`defresolver.go`, `core/httpapi`), custom actions, saved
  filters: reads, and inserts and deletes by id.
- Reads, filters, computed columns, row keys, validation, CSV parsing, drift: text
  and value processing without state; a page of rows appears where a view relies
  on it.
- Settings and migrations: once at start.  The cascades, sequences and unique columns
  of the schema are part of the modules that meet them.
- Adapters: SQL text.  What a statement does is part of the module that issues it.
- Dashboard, audit, outbox listing, setup and documentation pages: no state that
  outlives a request; the requests they send are modelled from the server's side.
- Of modelled components: groups in a metadata import, the tests of a connection,
  encryption of passwords, formats, rules and view settings of a definition, the
  CSV export and the drift banner; of the list's cache that it drops what is not used
  for five minutes, and writes that an earlier visit left under way.
- Code generators, template and docs.

What the code does not promise is exempt in a property rather than modelled away,
and worth knowing.  A hook that ignores its context stops the worker (`exec.go:51`).
An update of a referenced column orphans the rows that refer to it
(`rows_write.go:358`), a selection that names a target twice links it twice, and one
that names a target that is gone leaves a dangling link where the database declares no
key (`rows_write.go:277`).  The reference column of an fk is checked when it is saved and
not when its target changes (`tables.go:715`), and a computed column is skipped by the
check that names are unique (`tables.go:558`).  In the client: rows of an
earlier visit, older than a write that was acknowledged since, stay on screen where
reading them again fails (`Data.tsx:85`); the late answer to a
save closes an editor opened since; a bulk delete that fails half-way does not
have the list read again (`Data.tsx:428`); a query's columns that arrive after the
user went back to tables overwrite the form's (`TableForm.tsx:111`); generated names
of relations can collide (`ColumnListEditor.tsx:857`); a role saved before the
definitions have arrived loses its grants (`Roles.tsx:58`); a revalidation answered
after another file was chosen replaces the preview (`Import.tsx:84`).
