----------------------------- MODULE MCDataPage -----------------------------
(* The parts of the data page, each on its own: the behaviour is about the *)
(* part that is chosen at the start, and the others stay as they begin.    *)
EXTENDS GridPage, BulkSelection, ChunkedReads, RowForm, KanbanBoard, TLC

CONSTANTS A, B

VARIABLE part

\* Something may be left under the key that the first table's rows have after a write.
MCLeftOver == {[table |-> A, query |-> Home, version |-> 1]}

pageVars == <<part, gridVars, bulkVars, chunkVars, formVars, boardVars>>

MCInit ==
  /\ part \in {"grid", "bulk", "chunks", "form", "board"}
  /\ GridInit /\ shown.table = A                \* the tables are alike
  /\ part # "grid" => cache = {} /\ ~missed /\ Cardinality(fetches) = 1
  /\ BulkInit /\ open = A
  /\ ChunkInit
  /\ part # "chunks" => store = <<>> /\ reader = "grouped" /\ \A n \in PageSizes : n <= pageRows
  /\ FormInit /\ (part # "form" => \A c \in M2MCols : links[c] = {})
  /\ BoardInit /\ (part # "board" => \A c \in Cards : valueOf[c] = NoValue)

\* The second write on the board is a drop while another is on its way and no column
\* is being read; from then on columns are only read from their first page.
TwoDrops ==
  writes' = 2 => /\ writes = 2 \/ (Cardinality(drops') = 2 /\ reads = {} /\ ~reload)
                 /\ \A r \in reads' : r.again

\* A link that asks to edit a row is followed while no write is in flight.
MCNext ==
  \/ part = "grid" /\ GridNext /\ (autoEdit' => calls' = {})
     /\ UNCHANGED <<part, bulkVars, chunkVars, formVars, boardVars>>
  \/ part = "bulk" /\ BulkNext
     /\ UNCHANGED <<part, gridVars, chunkVars, formVars, boardVars>>
  \/ part = "chunks" /\ ChunkNext
     /\ UNCHANGED <<part, gridVars, bulkVars, formVars, boardVars>>
  \/ part = "form" /\ FormNext
     /\ UNCHANGED <<part, gridVars, bulkVars, chunkVars, boardVars>>
  \/ part = "board" /\ BoardNext /\ TwoDrops
     /\ UNCHANGED <<part, gridVars, bulkVars, chunkVars, formVars>>

MCSpec == MCInit /\ [][MCNext]_pageVars /\ ChunkFairness

\* The types of all parts.
PageTypeOK == GridTypeOK /\ BulkTypeOK /\ ChunkTypeOK /\ FormTypeOK /\ BoardTypeOK
=============================================================================
