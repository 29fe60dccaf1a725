---------------------------- MODULE KanbanBoard ----------------------------
(***************************************************************************)
(* The kanban view of a table (components/views/KanbanView.tsx): a column  *)
(* for each value of the board column and one for rows without a value.    *)
(* Each column reads its own pages, appends or replaces them when they     *)
(* arrive, and has no way to tell an answer that was overtaken by another. *)
(* A card that is dropped is moved on screen when the server accepted it;  *)
(* the next one may be dropped while its request is on its way.            *)
(***************************************************************************)
EXTENDS Browser, FiniteSets, SequencesExt, Ordered

CONSTANTS
  Cards,         \* rows, numbered in the order the server lists them
  Values,        \* values of the board column
  NoValue,       \* the column of the rows without a value
  Gone,          \* a row that was deleted
  Matching,      \* the rows that match the page's filters
  CardsPerPage,
  MaxPages,      \* bound: pages of a column that are read
  MaxReads,      \* bound: requests in flight
  MaxWrites      \* bound: drops, edits and changes by somebody else

ASSUME BoardAssumption ==
  /\ Cards \subseteq Nat /\ Matching \subseteq Cards /\ NoValue \notin Values
  /\ Gone \notin Values \cup {NoValue} /\ IsFiniteSet(Cards) /\ IsFiniteSet(Values)
  /\ CardsPerPage \in Nat \ {0} /\ MaxPages \in Nat /\ MaxReads \in Nat /\ MaxWrites \in Nat

Cols == Values \cup {NoValue}

VARIABLES
  valueOf,       \* server: each row's value of the board column
  writes,        \* how many writes there were
  perCol,        \* page: what each column holds
  reads,         \* requests for pages of columns
  drag,          \* page: the card being dragged, as it was when the drag began
  drops,         \* PUTs of dropped cards in flight
  edited,        \* page: how many writes of the row editor, or deletes, are in flight
  reload,        \* page: the effect that reads all columns again is due
  outdated       \* history: columns whose cards somebody else or a refused drop of a
                 \* card that was elsewhere changed, or that had two requests in flight, since
                 \* they were last read on their own

boardVars == <<valueOf, writes, perCol, reads, drag, drops, edited, reload, outdated>>

Column == [rows : Seq(Cards), page : Nat, total : Nat, loading : BOOLEAN]
Read == [col : Cols, page : Nat \ {0}, again : BOOLEAN, slot : 1..MaxReads + 1,
         rows : Seq(Cards) \cup {Nothing}, total : Nat]
Dragged == [card : Cards, from : Cols]
Drop == [id : Nat, card : Cards, from : Cols, to : Cols, reply : {"none", "ok", "error"}]

Empty == [rows |-> <<>>, page |-> 0, total |-> 0, loading |-> FALSE]

BoardInit ==
  /\ valueOf \in [Cards -> Cols] /\ writes = 0
  /\ perCol = [v \in Cols |-> Empty] /\ reads = {} /\ drag = Nothing /\ drops = {}
  /\ edited = 0 /\ reload = TRUE /\ outdated = {}
-----------------------------------------------------------------------------
(* What the server answers.                                                *)

\* A column of a value asks for the rows with that value, whatever the page's filters
\* are; the last column for all rows that match the filters.
Listed(v) ==
  IF v = NoValue THEN Ascending({c \in Matching : valueOf[c] # Gone})
                 ELSE Ascending({c \in Cards : valueOf[c] = v})

\* How much of a list n pages hold, and the last of them.
UpTo(s, n) == IF n * CardsPerPage < Len(s) THEN n * CardsPerPage ELSE Len(s)
PageAt(s, n) == SubSeq(s, (n - 1) * CardsPerPage + 1, UpTo(s, n))

\* The last column drops rows with a value from what it is sent.
Kept(v, s) ==
  IF v = NoValue THEN AtPlaces(s, {i \in DOMAIN s : valueOf[s[i]] = NoValue}) ELSE s
-----------------------------------------------------------------------------
(* Reading columns.                                                        *)

ReadsOf(v) == {r \in reads : r.col = v}

\* A new request takes the number that is free.
NewRead(v, page, again) ==
  [col |-> v, page |-> page, again |-> again, rows |-> Nothing, total |-> 0,
   slot |-> CHOOSE s \in 1..MaxReads + 1 : \A r \in ReadsOf(v) : r.slot # s]

\* From now on these columns are as good as their next answer, if it is the only one.
Judge(S) ==
  outdated' = (outdated \ S) \cup {v \in S : ReadsOf(v) # {}}

LoadMore(v) ==
  /\ ~perCol[v].loading /\ perCol[v].page < MaxPages
  /\ perCol[v].total = 0 \/ Len(perCol[v].rows) < perCol[v].total
  /\ perCol' = [perCol EXCEPT ![v].loading = TRUE]
  /\ reads' = reads \cup {NewRead(v, perCol[v].page + 1, FALSE)}
  /\ Cardinality(reads') <= MaxReads
  /\ outdated' = IF ReadsOf(v) = {} THEN outdated ELSE outdated \cup {v}
  /\ UNCHANGED <<valueOf, writes, drag, drops, edited, reload>>

\* Empty these columns and read their first pages.
RefreshCols(S) ==
  /\ perCol' = [v \in Cols |-> IF v \in S THEN [Empty EXCEPT !.loading = TRUE] ELSE perCol[v]]
  /\ reads' = reads \cup {NewRead(v, 1, TRUE) : v \in S}
  /\ Cardinality(reads') <= MaxReads
  /\ Judge(S)

\* The effect on filters, search and dataVersion.
ReloadBoard ==
  /\ reload /\ reload' = FALSE /\ RefreshCols(Cols)
  /\ UNCHANGED <<valueOf, writes, drag, drops, edited>>

ServeCards(r) ==
  /\ r.rows = Nothing
  /\ reads' = (reads \ {r}) \cup
       {[r EXCEPT !.rows = Kept(r.col, PageAt(Listed(r.col), r.page)), !.total = Len(Listed(r.col))]}
  /\ UNCHANGED <<valueOf, writes, perCol, drag, drops, edited, reload, outdated>>

\* A first page replaces what the column holds, another one is appended to it.
CardsArrive(r) ==
  /\ r.rows # Nothing /\ reads' = reads \ {r}
  /\ perCol' = [perCol EXCEPT ![r.col] =
       [rows |-> IF r.again THEN r.rows ELSE @.rows \o r.rows,
        page |-> IF r.again THEN 1 ELSE @.page + 1, total |-> r.total, loading |-> FALSE]]
  /\ UNCHANGED <<valueOf, writes, drag, drops, edited, reload, outdated>>

CardsFail(r) ==
  /\ r.rows = Nothing /\ reads' = reads \ {r}
  /\ perCol' = [perCol EXCEPT ![r.col].loading = FALSE]
  /\ UNCHANGED <<valueOf, writes, drag, drops, edited, reload, outdated>>
-----------------------------------------------------------------------------
(* Dropping a card.                                                        *)

Write == writes < MaxWrites /\ writes' = writes + 1

\* The drag holds on to the row whatever the columns hold when it ends.
DragCard(c, from) ==
  /\ c \in Range(perCol[from].rows) /\ drag' = [card |-> c, from |-> from]
  /\ UNCHANGED <<valueOf, writes, perCol, reads, drops, edited, reload, outdated>>

\* A card that comes back to where it was is not written.
DropCard(to) ==
  /\ drag # Nothing /\ drag' = Nothing
  /\ IF to = drag.from
     THEN UNCHANGED <<writes, drops>>
     ELSE /\ Write
          /\ drops' = drops \cup {[id |-> writes, card |-> drag.card, from |-> drag.from,
                                  to |-> to, reply |-> "none"]}
  /\ UNCHANGED <<valueOf, perCol, reads, edited, reload, outdated>>

\* The row is updated unless it is gone; an update may be answered by an error.
ServeDrop(d, reply) ==
  /\ d.reply = "none" /\ (reply = "ok" => valueOf[d.card] # Gone)
  /\ \/ valueOf' = [valueOf EXCEPT ![d.card] = d.to] /\ valueOf[d.card] # Gone
     \/ UNCHANGED valueOf /\ reply = "error"
  /\ drops' = (drops \ {d}) \cup {[d EXCEPT !.reply = reply]}
  /\ outdated' = IF valueOf' = valueOf THEN outdated ELSE outdated \cup ({valueOf[d.card]} \ {d.from})
  /\ UNCHANGED <<writes, perCol, reads, drag, edited, reload>>

\* The card leaves every column and comes first in the target; the page raises
\* dataVersion, which has all columns read again.
DropDone(d) ==
  /\ d.reply = "ok" /\ drops' = drops \ {d} /\ reload' = TRUE
  /\ perCol' = [v \in Cols |->
       LET without == AtPlaces(perCol[v].rows, {i \in DOMAIN perCol[v].rows : perCol[v].rows[i] # d.card})
       IN  [perCol[v] EXCEPT
              !.rows  = IF v = d.to THEN <<d.card>> \o without ELSE without,
              !.total = IF v = d.to THEN @ + 1 ELSE IF v = d.from /\ @ > 0 THEN @ - 1 ELSE @]]
  /\ UNCHANGED <<valueOf, writes, reads, drag, edited, outdated>>

\* Mutation: the card stays where it is.
LeaveCard(d) ==
  /\ d.reply = "error" /\ drops' = drops \ {d}
  /\ UNCHANGED <<valueOf, writes, perCol, reads, drag, edited, reload, outdated>>

\* Source and target are read again.
DropFails(d) ==
  /\ d.reply = "error" /\ drops' = drops \ {d}
  /\ RefreshCols({d.from, d.to})
  /\ UNCHANGED <<valueOf, writes, drag, edited, reload>>
-----------------------------------------------------------------------------
(* Other writes.                                                           *)

\* The row editor or a card's delete button; the page raises dataVersion when the
\* write is acknowledged.
EditCard(c, x) ==
  /\ valueOf[c] # Gone /\ x # valueOf[c] /\ Write
  /\ valueOf' = [valueOf EXCEPT ![c] = x] /\ edited' = edited + 1
  /\ UNCHANGED <<perCol, reads, drag, drops, reload, outdated>>

EditDone ==
  /\ edited > 0 /\ edited' = edited - 1 /\ reload' = TRUE
  /\ UNCHANGED <<valueOf, writes, perCol, reads, drag, drops, outdated>>

\* Somebody else's.
ForeignMove(c, x) ==
  /\ valueOf[c] # Gone /\ x # valueOf[c] /\ Write
  /\ valueOf' = [valueOf EXCEPT ![c] = x]
  /\ outdated' = outdated \cup {valueOf[c], x} \cup (IF x = Gone THEN {NoValue} ELSE {})
  /\ UNCHANGED <<perCol, reads, drag, drops, edited, reload>>

BoardNext ==
  \/ \E v \in Cols : LoadMore(v)
  \/ ReloadBoard
  \/ \E r \in reads : ServeCards(r) \/ CardsArrive(r) \/ CardsFail(r)
  \/ \E c \in Cards, v \in Cols : DragCard(c, v)
  \/ \E v \in Cols : DropCard(v)
  \/ \E d \in drops : DropDone(d) \/ DropFails(d)
  \/ \E d \in drops, reply \in {"ok", "error"} : ServeDrop(d, reply)
  \/ \E c \in Cards, x \in Cols \cup {Gone} : EditCard(c, x) \/ ForeignMove(c, x)
  \/ EditDone

BoardSpec == BoardInit /\ [][BoardNext]_boardVars
-----------------------------------------------------------------------------
BoardTypeOK ==
  /\ valueOf \in [Cards -> Cols \cup {Gone}] /\ writes \in Nat /\ perCol \in [Cols -> Column]
  /\ reads \subseteq Read /\ Cardinality(reads) <= MaxReads
  /\ drag \in Dragged \cup {Nothing} /\ drops \subseteq Drop /\ edited \in Nat
  /\ reload \in BOOLEAN
  /\ outdated \subseteq Cols \cup {Gone}

\* What the pages read so far hold now.
FirstPages(v, n) == Kept(v, SubSeq(Listed(v), 1, UpTo(Listed(v), n)))

\* When nothing is under way a column shows the server's rows, as far as it was read,
\* after any drops, refused drops and edits of this page, unless its requests overtook
\* each other or somebody else changed it since it was read.
BoardMatchesServer ==
  drops = {} /\ edited = 0 /\ ~reload =>
    \A v \in Cols \ outdated :
      ReadsOf(v) = {} =>
        /\ perCol[v].rows = FirstPages(v, perCol[v].page)
        /\ perCol[v].page > 0 => perCol[v].total = Len(Listed(v))
=============================================================================
