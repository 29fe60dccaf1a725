--------------------------- MODULE ChunkedReads ---------------------------
(***************************************************************************)
(* Reading all rows page by page: the grouped grid (Data.tsx), up to a     *)
(* cap, and the month of the calendar (CalendarView.tsx).  Every page is a *)
(* request of its own, so the rows may change between two pages.           *)
(***************************************************************************)
EXTENDS Browser, FiniteSets, SequencesExt

CONSTANTS
  RowIds,        \* the rows there may be
  PageSizes,     \* the page sizes a definition may have
  Cap,           \* at least so many rows are enough for the grouped grid
  LastPage       \* bound: pages after it are empty, and taken for one

ASSUME ChunkAssumption ==
  /\ PageSizes \subseteq Nat \ {0} /\ Cap \in Nat
  /\ IsFiniteSet(RowIds) /\ LastPage \in Nat /\ LastPage >= Cardinality(RowIds)

VARIABLES
  store,         \* server: the matching rows in the order they are sorted; rows
                 \* that sort alike are taken to keep their order
  pageRows,      \* server: rows of a page, whatever limit is asked for
  reader,        \* page: "grouped" or "calendar"
  readPc,        \* page: "idle", "asking", "counting", "answered", "done" or "failed"
  readPage,      \* page: the page asked for
  reply,         \* the answer on its way: rows and total
  gathered,      \* page: the rows read so far
  want,          \* page: the total of the first page
  retried,       \* page: whether the query is in its second try
  disturbed      \* whether the rows changed since the reading began

chunkVars == <<store, pageRows, reader, readPc, readPage, reply, gathered, want, retried, disturbed>>

NoReply == [rows |-> <<>>, total |-> 0]

ChunkInit ==
  /\ store \in {SetToSeq(S) : S \in SUBSET RowIds} /\ pageRows \in PageSizes
  /\ reader \in {"grouped", "calendar"}
  /\ readPc = "idle" /\ readPage = 0 /\ reply = NoReply /\ gathered = <<>> /\ want = 0
  /\ retried = FALSE /\ disturbed = FALSE
-----------------------------------------------------------------------------
\* The query runs: its key is new to the page.
StartReading ==
  /\ readPc = "idle" /\ readPc' = "asking" /\ readPage' = 1
  /\ UNCHANGED <<store, pageRows, reader, reply, gathered, want, retried, disturbed>>

PageOf(s, n) == SubSeq(s, (n - 1) * pageRows + 1, IF n * pageRows < Len(s) THEN n * pageRows ELSE Len(s))

\* Two statements: the rows, then how many there are.
ServePage ==
  /\ readPc = "asking" /\ readPc' = "counting"
  /\ reply' = [rows |-> PageOf(store, readPage), total |-> 0]
  /\ UNCHANGED <<store, pageRows, reader, readPage, gathered, want, retried, disturbed>>

CountRows ==
  /\ readPc = "counting" /\ readPc' = "answered"
  /\ reply' = [reply EXCEPT !.total = Len(store)]
  /\ UNCHANGED <<store, pageRows, reader, readPage, gathered, want, retried, disturbed>>

\* Mutation: the query is tried again however often it failed.
PageRetried ==
  /\ readPc = "asking" /\ gathered' = <<>>
  /\ readPc' = "asking" /\ readPage' = 1 /\ disturbed' = FALSE
  /\ UNCHANGED <<store, pageRows, reader, reply, want, retried>>

\* A request that fails fails the query, which is tried once more from its first page.
PageFails ==
  /\ readPc = "asking" /\ gathered' = <<>> /\ retried' = TRUE
  /\ IF retried THEN readPc' = "failed" /\ UNCHANGED <<readPage, disturbed>>
                ELSE readPc' = "asking" /\ readPage' = 1 /\ disturbed' = FALSE
  /\ UNCHANGED <<store, pageRows, reader, reply, want>>

Turn ==
  /\ readPc' = "asking" /\ readPage' = IF readPage > LastPage THEN readPage ELSE readPage + 1

TakeRows ==
  /\ readPc = "answered" /\ gathered' = gathered \o reply.rows
  /\ reply' = NoReply /\ UNCHANGED <<store, pageRows, reader, retried, disturbed>>

Finish == readPc' = "done" /\ UNCHANGED readPage

Over == \/ Len(gathered') >= reply.total
        \/ reply.rows = <<>>
        \/ Len(gathered') >= Cap

\* The grouped grid: each page has its own total.
GroupedPage ==
  /\ reader = "grouped" /\ TakeRows /\ UNCHANGED want
  /\ IF Over THEN Finish ELSE Turn

\* The calendar goes by the total of the first page; an empty page after it ends the loop.
CalendarPage ==
  /\ reader = "calendar" /\ TakeRows
  /\ want' = IF readPage = 1 THEN reply.total ELSE want
  /\ IF Len(gathered') >= want' \/ (readPage > 1 /\ reply.rows = <<>>) THEN Finish ELSE Turn

\* Rows are inserted, deleted or move in the order while the pages are read.
RowsChange ==
  /\ readPc \in {"asking", "counting"}
  /\ \/ \E r \in RowIds \ Range(store), i \in 1..Len(store) + 1 : store' = InsertAt(store, i, r)
     \/ \E i \in 1..Len(store) : store' = RemoveAt(store, i)
  /\ disturbed' = TRUE
  /\ UNCHANGED <<pageRows, reader, readPc, readPage, reply, gathered, want, retried>>

ChunkNext ==
  \/ StartReading \/ ServePage \/ CountRows \/ PageFails \/ GroupedPage \/ CalendarPage \/ RowsChange

\* A request is answered, and the answer handled, in the end.
ChunkFairness ==
  WF_chunkVars(ServePage) /\ WF_chunkVars(CountRows) /\ WF_chunkVars(GroupedPage \/ CalendarPage)

ChunkSpec == ChunkInit /\ [][ChunkNext]_chunkVars /\ ChunkFairness
-----------------------------------------------------------------------------
\* Mutation: rows past the cap only count as cut off.
TruncatedPast == reader = "grouped" /\ Len(gathered) > Cap

\* What the grouped grid tells the user.
Truncated == reader = "grouped" /\ Len(gathered) >= Cap

ChunkTypeOK ==
  /\ Range(store) \subseteq RowIds /\ pageRows \in PageSizes /\ reader \in {"grouped", "calendar"}
  /\ readPc \in {"idle", "asking", "counting", "answered", "done", "failed"}
  /\ readPage \in 0..LastPage + 1 /\ want \in Nat /\ retried \in BOOLEAN /\ disturbed \in BOOLEAN
  /\ reply \in [rows : Seq(RowIds), total : Nat] /\ gathered \in Seq(RowIds)

\* What is read is every row once and in order, if the rows stayed the same and the
\* page does not say that rows are missing.
AllRowsRead ==
  readPc = "done" /\ ~disturbed /\ ~Truncated => gathered = store

\* The loop ends although the rows keep changing and the totals with them.
ReadingEnds == readPc = "asking" ~> readPc \in {"done", "failed"}
=============================================================================
