--------------------------- MODULE BulkSelection ---------------------------
(***************************************************************************)
(* Ticking rows of the grid and deleting them together (Data.tsx).  The    *)
(* ticked keys are kept while the user turns pages, filters or goes to     *)
(* another table; the delete sends them in chunks, one request after the   *)
(* other, to the table that was on screen when the button was pressed.     *)
(***************************************************************************)
EXTENDS Browser, FiniteSets, FiniteSetsExt

CONSTANTS
  Keys,          \* row keys; rows of two tables may have the same key
  ChunkSize      \* keys of one request, 500 in the code

ASSUME BulkAssumption == ChunkSize \in Nat \ {0} /\ IsFiniteSet(Keys)

VARIABLES
  rowsOf,        \* server: the keys of each table's rows
  open,          \* page: the table on screen
  sel,           \* page: the ticked keys, each with the table it was ticked in
  bulk,          \* page: the delete under way
  bulkMsg        \* page: what the toolbar reports

bulkVars == <<rowsOf, open, sel, bulk, bulkMsg>>

\* The page knows the keys only.
KeysOf(S) == {p[2] : p \in S}

Run == [table : Tables, chosen : SUBSET (Tables \X Keys), todo : SUBSET Keys,
        asked : SUBSET Keys, reply : {"none", "done", "error"}, took : SUBSET Keys,
        deleted : Nat, failed : Nat, gone : Nat]

\* The counts, or that a request failed; and how many keys were to be deleted and
\* how many rows were.
Report == [ok : BOOLEAN, deleted : Nat, failed : Nat, chosen : Nat, gone : Nat]

BulkInit ==
  /\ rowsOf = [t \in Tables |-> Keys] /\ open \in Tables
  /\ sel = {} /\ bulk = Nothing /\ bulkMsg = Nothing
-----------------------------------------------------------------------------
(* Ticking: rows on screen, which may be deleted in the meantime.          *)

\* The effect on the table's id resets search, filters and more, but not sel.
GoTo(t) ==
  /\ t # open /\ open' = t
  /\ UNCHANGED <<rowsOf, sel, bulk, bulkMsg>>

Untick(K) == sel' = {p \in sel : p[2] \notin K}

Tick(K) == sel' = sel \cup ({open} \X (K \ KeysOf(sel)))

ToggleSel(k) ==
  /\ IF k \in KeysOf(sel) THEN Untick({k}) ELSE Tick({k})
  /\ UNCHANGED <<rowsOf, open, bulk, bulkMsg>>

\* The box in the header unticks this page if all of it is ticked, else ticks it.
TogglePage(K) ==
  /\ K # {}
  /\ IF K \subseteq KeysOf(sel) THEN Untick(K) ELSE Tick(K)
  /\ UNCHANGED <<rowsOf, open, bulk, bulkMsg>>

ClearSel ==
  /\ sel # {} \/ bulkMsg # Nothing
  /\ sel' = {} /\ bulkMsg' = Nothing
  /\ UNCHANGED <<rowsOf, open, bulk>>
-----------------------------------------------------------------------------
(* Deleting.                                                               *)

\* The next slice of the keys is asked for.
Asking(b, K) ==
  /\ K \subseteq b.todo /\ Cardinality(K) = Min({ChunkSize, Cardinality(b.todo)})
  /\ bulk' = [b EXCEPT !.todo = @ \ K, !.asked = K, !.reply = "none", !.took = {}]

RunBulkDelete(K) ==
  /\ sel # {} /\ bulk = Nothing
  /\ Asking([table |-> open, chosen |-> sel, todo |-> KeysOf(sel), asked |-> {}, reply |-> "none",
             took |-> {}, deleted |-> 0, failed |-> 0, gone |-> 0], K)
  /\ bulkMsg' = Nothing
  /\ UNCHANGED <<rowsOf, open, sel>>

\* Each key is deleted or refused on its own; the reply may be lost.
ServeChunk(K, reply) ==
  /\ bulk # Nothing /\ bulk.reply = "none"
  /\ K \subseteq bulk.asked \cap rowsOf[bulk.table]
  /\ rowsOf' = [rowsOf EXCEPT ![bulk.table] = @ \ K]
  /\ bulk' = [bulk EXCEPT !.reply = reply, !.took = K, !.gone = @ + Cardinality(K)]
  /\ UNCHANGED <<open, sel, bulkMsg>>

\* Mutation: the counts are those of the last request only.
CountedLast(b) ==
  [b EXCEPT !.deleted = Cardinality(b.took), !.failed = Cardinality(b.asked \ b.took)]

Counted(b) ==
  [b EXCEPT !.deleted = @ + Cardinality(b.took), !.failed = @ + Cardinality(b.asked \ b.took)]

Reported(b, ok) ==
  [ok |-> ok, deleted |-> b.deleted, failed |-> b.failed,
   chosen |-> Cardinality(KeysOf(b.chosen)), gone |-> b.gone]

\* The loop goes on with the next slice.
NextChunk(K) ==
  /\ bulk # Nothing /\ bulk.reply = "done" /\ bulk.todo # {}
  /\ Asking(Counted(bulk), K)
  /\ UNCHANGED <<rowsOf, open, sel, bulkMsg>>

\* After the last slice: report, untick everything, read the rows again.
BulkDone ==
  /\ bulk # Nothing /\ bulk.reply = "done" /\ bulk.todo = {}
  /\ bulkMsg' = Reported(Counted(bulk), TRUE)
  /\ sel' = {} /\ bulk' = Nothing
  /\ UNCHANGED <<rowsOf, open>>

\* catch: the rest is not asked for, the ticks stay, the rows are not read again.
BulkFails ==
  /\ bulk # Nothing /\ bulk.reply = "error"
  /\ bulkMsg' = Reported(bulk, FALSE) /\ bulk' = Nothing
  /\ UNCHANGED <<rowsOf, open, sel>>

\* Somebody else deletes a row.
RowVanishes(t, k) ==
  /\ k \in rowsOf[t] /\ rowsOf' = [rowsOf EXCEPT ![t] = @ \ {k}]
  /\ UNCHANGED <<open, sel, bulk, bulkMsg>>

BulkNext ==
  \/ \E t \in Tables : GoTo(t)
  \/ \E k \in Keys : ToggleSel(k)
  \/ \E K \in SUBSET Keys : TogglePage(K) \/ RunBulkDelete(K) \/ NextChunk(K)
  \/ \E K \in SUBSET Keys, reply \in {"done", "error"} : ServeChunk(K, reply)
  \/ ClearSel \/ BulkDone \/ BulkFails
  \/ \E t \in Tables, k \in Keys : RowVanishes(t, k)

BulkSpec == BulkInit /\ [][BulkNext]_bulkVars
-----------------------------------------------------------------------------
\* Types; a key is ticked once.
BulkTypeOK ==
  /\ rowsOf \in [Tables -> SUBSET Keys] /\ open \in Tables
  /\ sel \subseteq Tables \X Keys /\ \A p, q \in sel : p[2] = q[2] => p = q
  /\ bulk \in Run \cup {Nothing} /\ bulkMsg \in Report \cup {Nothing}

\* The report of a bulk delete accounts for every ticked key, over all its
\* requests, and counts as deleted the rows that were.
BulkReportAddsUp ==
  bulkMsg # Nothing /\ bulkMsg.ok =>
    /\ bulkMsg.deleted + bulkMsg.failed = bulkMsg.chosen
    /\ bulkMsg.deleted = bulkMsg.gone

\* The rows a bulk delete takes are those that were ticked, not the rows of another
\* table that have the same keys: the state of the table on screen is reset when the
\* page goes to another table.
TicksStayInTable ==
  bulk # Nothing => \A k \in bulk.took : <<bulk.table, k>> \in bulk.chosen
=============================================================================
