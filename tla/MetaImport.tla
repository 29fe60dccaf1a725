----------------------------- MODULE MetaImport -----------------------------
(***************************************************************************)
(* The import of table definitions from a file: the page that uploads it,  *)
(* shows what is in it and has the user select (pages/MetaTransfer.tsx),   *)
(* and the server, which reads the local definitions for a preview, reads  *)
(* them again for a plan, and carries the plan out in one transaction that *)
(* looks up references anew (internal/api/metatransfer.go,                 *)
(* internal/meta/metatransfer.go).  Definitions come and go meanwhile.     *)
(***************************************************************************)
EXTENDS Browser, FiniteSets

CONSTANTS
  Refs,          \* natural keys of definitions: datasource, schema and table
  Files,         \* files: what each definition in it refers to
  MaxIds         \* bound: definitions created, one of them at the start

ASSUME MetaImportAssumption ==
  /\ MaxIds \in Nat \ {0} /\ Nothing \notin Refs /\ Nothing \notin Files
  /\ \A f \in Files : DOMAIN f \subseteq Refs /\ \A r \in DOMAIN f : f[r] \subseteq Refs

VARIABLES
  locals,        \* server: the definitions
  lastId,        \* server: the last id that was given out
  file,          \* page: the chosen file
  preview,       \* page: what the server said about a file
  modes,         \* page: skip or overwrite for each definition of the file
  upload,        \* the preview request: the file it was sent with
  import,        \* the import request
  imported       \* page: whether it shows the result of an import

importVars == <<locals, lastId, file, preview, modes, upload, import, imported>>

Local == [id : 1..MaxIds, ref : Refs, refersTo : SUBSET (1..MaxIds)]
Modes == {"skip", "overwrite"}
Import == [file : Files, seen : Files, tables : SUBSET Refs,
           plan : [Refs -> 0..MaxIds] \cup {Nothing}]

LocalRefs == {d.ref : d \in locals}
LocalIds == {d.id : d \in locals}

\* The definition with this natural key; of several, any.
IdOf(r) == CHOOSE n \in LocalIds : \E d \in locals : d.id = n /\ d.ref = r

ImportInit ==
  /\ locals \in {{}} \cup {{[id |-> 1, ref |-> r, refersTo |-> {}]} : r \in Refs}
  /\ lastId = Cardinality(locals)
  /\ file = Nothing /\ preview = Nothing /\ modes = <<>>
  /\ upload = Nothing /\ import = Nothing /\ imported = FALSE
-----------------------------------------------------------------------------
(* Somebody else defines and deletes tables.                               *)

Define(r) ==
  /\ r \notin LocalRefs /\ lastId < MaxIds
  /\ lastId' = lastId + 1
  /\ locals' = locals \cup {[id |-> lastId', ref |-> r, refersTo |-> {}]}
  /\ UNCHANGED <<file, preview, modes, upload, import, imported>>

\* What refers to it keeps its id.
Undefine(d) ==
  /\ locals' = locals \ {d}
  /\ UNCHANGED <<lastId, file, preview, modes, upload, import, imported>>
-----------------------------------------------------------------------------
(* The page.                                                               *)

\* Mutation: another file can be chosen while one is being analysed.
ChooseAnyTime(f) ==
  /\ file' = f /\ preview' = Nothing /\ imported' = FALSE
  /\ upload' = IF upload = Nothing THEN f ELSE upload
  /\ UNCHANGED <<locals, lastId, modes, import>>

ChooseFile(f) ==
  /\ upload = Nothing
  /\ file' = f /\ preview' = Nothing /\ imported' = FALSE /\ upload' = f
  /\ UNCHANGED <<locals, lastId, modes, import>>

\* diffMeta: a definition is invalid if it refers to one that is neither local nor
\* in the file.
Invalid(f, r) == ~(f[r] \subseteq LocalRefs \cup DOMAIN f)

\* Invalid and identical definitions are skipped by default; the comparison with a
\* local one leaves out much of it, so that any may be found identical.
Previewed ==
  /\ upload # Nothing /\ upload' = Nothing
  /\ preview' = [file |-> upload, invalid |-> {r \in DOMAIN upload : Invalid(upload, r)}]
  /\ \E identical \in SUBSET (DOMAIN upload \cap LocalRefs) :
       modes' = [r \in DOMAIN upload |->
                   IF r \in preview'.invalid \cup identical THEN "skip" ELSE "overwrite"]
  /\ imported' = FALSE
  /\ UNCHANGED <<locals, lastId, file, import>>

PreviewFails ==
  /\ upload # Nothing /\ upload' = Nothing
  /\ UNCHANGED <<locals, lastId, file, preview, modes, import, imported>>

SetMode(r, m) ==
  /\ preview # Nothing /\ r \in DOMAIN preview.file \ preview.invalid /\ m # modes[r]
  /\ modes' = [modes EXCEPT ![r] = m]
  /\ UNCHANGED <<locals, lastId, file, preview, upload, import, imported>>

Selected == {r \in DOMAIN preview.file : modes[r] # "skip"}

\* The file goes to the server again, with the selection.
Apply ==
  /\ file # Nothing /\ preview # Nothing /\ ~imported /\ import = Nothing
  /\ Selected # {}
  /\ import' = [file |-> file, seen |-> preview.file, tables |-> Selected, plan |-> Nothing]
  /\ UNCHANGED <<locals, lastId, file, preview, modes, upload, imported>>
-----------------------------------------------------------------------------
(* The server.                                                             *)

\* buildImportPlan: what a selected definition refers to is local or selected too;
\* it overwrites the local one with its natural key, or is new.
Plan ==
  /\ import # Nothing /\ import.plan = Nothing
  /\ \A r \in import.tables \cap DOMAIN import.file :
       import.file[r] \subseteq LocalRefs \cup (import.tables \cap DOMAIN import.file)
  /\ import' = [import EXCEPT !.plan = [r \in Refs |-> IF r \in LocalRefs THEN IdOf(r) ELSE 0]]
  /\ UNCHANGED <<locals, lastId, file, preview, modes, upload, imported>>

ToWrite == import.tables \cap DOMAIN import.file
ToCreate == {r \in ToWrite : import.plan[r] = 0}

\* The ids the definitions get, those that are created in turn.
Given(ids) ==
  /\ ids \in [ToWrite -> 1..MaxIds]
  /\ \A r \in ToWrite \ ToCreate : ids[r] = import.plan[r]
  /\ \A r \in ToCreate : ids[r] \in lastId + 1 .. lastId + Cardinality(ToCreate)
  /\ \A q, r \in ToCreate : ids[q] = ids[r] => q = r

\* Mutation: references are resolved with what the plan knew.
ResolvedByPlan(ids, r) ==
  IF r \in ToWrite THEN ids[r] ELSE IF import.plan[r] # 0 THEN import.plan[r] ELSE Nothing

\* References are resolved in the transaction: among what it writes, then locally.
Resolved(ids, r) ==
  IF r \in ToWrite THEN ids[r] ELSE IF r \in LocalRefs THEN IdOf(r) ELSE Nothing

\* One transaction.  A definition to overwrite that is gone has its columns refused
\* by the foreign key; a reference that cannot be resolved fails.
ApplyImport ==
  /\ import # Nothing /\ import.plan # Nothing
  /\ \A r \in ToWrite \ ToCreate : import.plan[r] \in LocalIds
  /\ \E ids \in [ToWrite -> 1..MaxIds] :
       /\ Given(ids)
       /\ \A r \in ToWrite : \A q \in import.file[r] : Resolved(ids, q) # Nothing
       /\ locals' = {d \in locals : d.id \notin {ids[r] : r \in ToWrite}} \cup
                    {[id |-> ids[r], ref |-> r,
                      refersTo |-> {Resolved(ids, q) : q \in import.file[r]}] : r \in ToWrite}
  /\ lastId' = lastId + Cardinality(ToCreate)
  /\ import' = Nothing /\ imported' = TRUE
  /\ UNCHANGED <<file, preview, modes, upload>>

\* Refused at any step, or rolled back.
ImportFails ==
  /\ import # Nothing /\ import' = Nothing
  /\ UNCHANGED <<locals, lastId, file, preview, modes, upload, imported>>

ImportNext ==
  \/ \E r \in Refs : Define(r) \/ \E m \in Modes : SetMode(r, m)
  \/ \E d \in locals : Undefine(d)
  \/ \E f \in Files : ChooseFile(f)
  \/ Previewed \/ PreviewFails \/ Apply \/ Plan \/ ApplyImport \/ ImportFails

ImportSpec == ImportInit /\ [][ImportNext]_importVars
-----------------------------------------------------------------------------
ImportTypeOK ==
  /\ locals \subseteq Local /\ lastId \in 0..MaxIds /\ LocalIds \subseteq 1..lastId
  /\ \A d, e \in locals : d.id = e.id => d = e
  /\ file \in Files \cup {Nothing} /\ upload \in Files \cup {Nothing}
  /\ preview # Nothing => DOMAIN modes = DOMAIN preview.file
  /\ import \in Import \cup {Nothing} /\ imported \in BOOLEAN

\* What is sent for import is the file whose contents the user has seen and selected
\* from, however the choosing, the uploads and earlier imports interleave.
AppliedWasPreviewed == import # Nothing => import.file = import.seen

\* The definitions an import writes refer to definitions that are there when it
\* commits, also when some were deleted or created after the preview and the plan.
ImportedReferencesResolve ==
  [][imported' /\ ~imported =>
       \A d \in locals' \ locals : d.refersTo \subseteq {e.id : e \in locals'}]_importVars
=============================================================================
