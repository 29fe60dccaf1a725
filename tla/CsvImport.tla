------------------------------ MODULE CsvImport ------------------------------
(***************************************************************************)
(* Loading rows from a CSV file: the page that uploads the file, shows how *)
(* its columns map and which rows are valid (pages/Import.tsx), and the    *)
(* server, which checks the rows again and inserts them one by one         *)
(* (core/engine/importcsv.go).  A row is known by its place in the file.   *)
(* Which rows are valid depends on the mapping, on hooks and on rows of    *)
(* other tables, and may differ from one check to the next: any may be.    *)
(***************************************************************************)
EXTENDS Browser, Sequences, FiniteSets

CONSTANTS
  Csvs,          \* files
  RowsIn         \* how many rows each has

ASSUME CsvAssumption ==
  /\ Nothing \notin Csvs /\ DOMAIN RowsIn = Csvs /\ \A f \in Csvs : RowsIn[f] \in Nat

VARIABLES
  csv,           \* page: the chosen file
  mappingOf,     \* page: the file the mapping was made for
  checked,       \* page: the preview: its file, and which rows are valid
  analysing,     \* the upload in flight: its file
  rechecking,    \* the revalidation in flight: its file
  loading,       \* the import in flight
  loadReport,    \* page: the result of an import
  overtaken,     \* history: a revalidation was answered after a file was chosen
                 \* anew, and that file was not analysed since
  loaded,        \* server: the rows the last import inserted, in order
  audited,       \* server: those of them with an audit row
  handed         \* server: those of them handed to the after-hooks

csvPage == <<csv, mappingOf, checked, analysing, rechecking, overtaken>>
csvVars == <<csvPage, loading, loadReport, loaded, audited, handed>>

Checked == [file : Csvs, valid : SUBSET (Nat \ {0})]
Loading == [file : Csvs, seen : Csvs, mappingOf : Csvs \cup {Nothing}, overtaken : BOOLEAN,
            mode : {"valid", "all"}, step : {"sent", "rows", "hooks"},
            valid : SUBSET (Nat \ {0}), at : Nat, inserted : Nat, failed : Nat]

CsvInit ==
  /\ csv = Nothing /\ mappingOf = Nothing /\ checked = Nothing
  /\ analysing = Nothing /\ rechecking = Nothing /\ overtaken = FALSE
  /\ loading = Nothing /\ loadReport = Nothing
  /\ loaded = <<>> /\ audited = <<>> /\ handed = <<>>
-----------------------------------------------------------------------------
(* The page.                                                               *)

\* A file, or none.  Only an upload in flight disables the button.
ChooseCsv(f) ==
  /\ analysing = Nothing
  /\ csv' = f /\ checked' = Nothing /\ loadReport' = Nothing /\ analysing' = f
  /\ UNCHANGED <<mappingOf, rechecking, overtaken, loading, loaded, audited, handed>>

\* PreviewImport writes nothing.
Analysed(valid) ==
  /\ analysing # Nothing /\ analysing' = Nothing
  /\ valid \subseteq 1..RowsIn[analysing]
  /\ checked' = [file |-> analysing, valid |-> valid] /\ mappingOf' = analysing
  /\ loadReport' = Nothing /\ overtaken' = FALSE
  /\ UNCHANGED <<csv, rechecking, loading, loaded, audited, handed>>

NotAnalysed ==
  /\ analysing # Nothing /\ analysing' = Nothing
  /\ UNCHANGED <<csv, mappingOf, checked, rechecking, overtaken, loading, loadReport, loaded,
                 audited, handed>>

\* The mapping may have been edited since the rows were checked; nothing asks for
\* checking them again.
Recheck ==
  /\ checked # Nothing /\ csv # Nothing /\ rechecking = Nothing
  /\ rechecking' = csv
  /\ UNCHANGED <<csv, mappingOf, checked, analysing, overtaken, loading, loadReport, loaded,
                 audited, handed>>

\* The answer is shown whatever file is chosen, or is being analysed, by now.
Rechecked(valid) ==
  /\ rechecking # Nothing /\ rechecking' = Nothing
  /\ valid \subseteq 1..RowsIn[rechecking]
  /\ checked' = [file |-> rechecking, valid |-> valid]
  /\ overtaken' = (overtaken \/ checked = Nothing \/ rechecking # csv)
  /\ UNCHANGED <<csv, mappingOf, analysing, loading, loadReport, loaded, audited, handed>>

RecheckFails ==
  /\ rechecking # Nothing /\ rechecking' = Nothing
  /\ UNCHANGED <<csv, mappingOf, checked, analysing, overtaken, loading, loadReport, loaded,
                 audited, handed>>

\* The file goes to the server again, with the mapping and a mode.
Load(mode) ==
  /\ csv # Nothing /\ checked # Nothing /\ loadReport = Nothing /\ loading = Nothing
  /\ IF mode = "valid" THEN checked.valid # {} ELSE RowsIn[checked.file] > 0
  /\ loading' = [file |-> csv, seen |-> checked.file, mappingOf |-> mappingOf,
                 overtaken |-> overtaken, mode |-> mode, step |-> "sent",
                 valid |-> {}, at |-> 1, inserted |-> 0, failed |-> 0]
  /\ loaded' = <<>> /\ audited' = <<>> /\ handed' = <<>>
  /\ UNCHANGED <<csvPage, loadReport>>
-----------------------------------------------------------------------------
(* The server: ApplyImport.                                                *)

\* The rows are checked again, without the hooks.
CheckRows(valid) ==
  /\ loading # Nothing /\ loading.step = "sent" /\ valid \subseteq 1..RowsIn[loading.file]
  /\ loading' = [loading EXCEPT !.step = "rows", !.valid = valid]
  /\ UNCHANGED <<csvPage, loadReport, loaded, audited, handed>>

AtRow ==
  loading # Nothing /\ loading.step = "rows" /\ loading.at <= RowsIn[loading.file]

Skipped == loading.mode = "valid" /\ loading.at \notin loading.valid

SkipRow ==
  /\ AtRow /\ Skipped /\ loading' = [loading EXCEPT !.at = @ + 1]
  /\ UNCHANGED <<csvPage, loadReport, loaded, audited, handed>>

InsertRow ==
  /\ AtRow /\ ~Skipped
  /\ loading' = [loading EXCEPT !.at = @ + 1, !.inserted = @ + 1]
  /\ loaded' = Append(loaded, loading.at) /\ audited' = Append(audited, loading.at)
  /\ UNCHANGED <<csvPage, loadReport, handed>>

\* Mutation: the row is left out without being counted.
DropRow ==
  /\ AtRow /\ ~Skipped /\ loading' = [loading EXCEPT !.at = @ + 1]
  /\ UNCHANGED <<csvPage, loadReport, loaded, audited, handed>>

\* A hook rejects the row, or the database does; the next one is tried.
RowFails ==
  /\ AtRow /\ ~Skipped
  /\ loading' = [loading EXCEPT !.at = @ + 1, !.failed = @ + 1]
  /\ UNCHANGED <<csvPage, loadReport, loaded, audited, handed>>

RowsDone ==
  /\ loading # Nothing /\ loading.step = "rows" /\ loading.at > RowsIn[loading.file]
  /\ loading' = [loading EXCEPT !.step = "hooks"]
  /\ UNCHANGED <<csvPage, loadReport, loaded, audited, handed>>

\* The after-hooks of an inserted row are scheduled when all rows are through.
HandOver ==
  /\ loading # Nothing /\ loading.step = "hooks" /\ Len(handed) < Len(loaded)
  /\ handed' = Append(handed, loaded[Len(handed) + 1])
  /\ UNCHANGED <<csvPage, loading, loadReport, loaded, audited>>

\* The result is shown, also when another file was chosen meanwhile.
Loaded ==
  /\ loading # Nothing /\ loading.step = "hooks" /\ Len(handed) = Len(loaded)
  /\ loadReport' = loading /\ loading' = Nothing
  /\ UNCHANGED <<csvPage, loaded, audited, handed>>

\* Refused before the first row, or the process dies at any row: what is inserted
\* stays.
LoadFails ==
  /\ loading # Nothing /\ loading' = Nothing
  /\ UNCHANGED <<csvPage, loadReport, loaded, audited, handed>>

CsvNext ==
  \/ \E f \in Csvs \cup {Nothing} : ChooseCsv(f)
  \/ \E f \in Csvs : \E valid \in SUBSET (1..RowsIn[f]) :
       Analysed(valid) \/ Rechecked(valid) \/ CheckRows(valid)
  \/ NotAnalysed \/ Recheck \/ RecheckFails
  \/ \E mode \in {"valid", "all"} : Load(mode)
  \/ SkipRow \/ InsertRow \/ RowFails \/ RowsDone \/ HandOver \/ Loaded \/ LoadFails

CsvSpec == CsvInit /\ [][CsvNext]_csvVars
-----------------------------------------------------------------------------
CsvTypeOK ==
  /\ csv \in Csvs \cup {Nothing} /\ mappingOf \in Csvs \cup {Nothing}
  /\ checked \in Checked \cup {Nothing} /\ overtaken \in BOOLEAN
  /\ analysing \in {csv, Nothing} /\ rechecking \in Csvs \cup {Nothing}
  /\ loading \in Loading \cup {Nothing} /\ loadReport \in Loading \cup {Nothing}
  /\ audited = loaded

Tried(load) == IF load.mode = "all" THEN 1..RowsIn[load.file] ELSE load.valid

\* The report of an import holds: every row that was to be inserted is counted once,
\* as inserted or failed, and the inserted ones, in the order of the file, were each
\* audited and handed to the after-hooks once.  The rows are those of the file whose
\* preview the user saw, mapped as it was for this file, unless a revalidation of an
\* earlier file was answered too late.
LoadReportHolds ==
  loadReport # Nothing =>
    /\ loadReport.inserted = Len(loaded)
    /\ loadReport.inserted + loadReport.failed = Cardinality(Tried(loadReport))
    /\ \A i \in DOMAIN loaded : loaded[i] \in Tried(loadReport)
    /\ \A i, j \in DOMAIN loaded : i < j => loaded[i] < loaded[j]
    /\ audited = loaded /\ handed = loaded
    /\ ~loadReport.overtaken =>
         loadReport.seen = loadReport.file /\ loadReport.mappingOf = loadReport.file
=============================================================================
