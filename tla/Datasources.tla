----------------------------- MODULE Datasources -----------------------------
(***************************************************************************)
(* Datasources and their passwords: the page (pages/Datasources.tsx) of    *)
(* several administrators at once, and the requests it sends               *)
(* (internal/api/datasources.go, internal/meta/datasources.go).  The       *)
(* server never hands a password out; an edit that leaves it blank keeps   *)
(* the stored one, which the handler reads in one statement and writes     *)
(* back in another.  The other fields of a connection are not told apart.  *)
(***************************************************************************)
EXTENDS Browser, Sequences, SequencesExt

CONSTANTS
  Managers,      \* administrators with the page open
  DsNames,       \* names of datasources
  Passwords,     \* passwords one can type
  NoPassword,    \* the blank one
  MaxSources,    \* bound: datasources created
  MaxDsWrites    \* bound: saves, deletions and imports

ASSUME DatasourcesAssumption ==
  /\ Nothing \notin DsNames \cup Passwords /\ NoPassword \notin Passwords
  /\ MaxSources \in Nat /\ MaxDsWrites \in Nat

VARIABLES
  sources,       \* server: the datasources by id
  created,       \* server: the last id that was given out
  dsDialog,      \* each page: the dialog
  dsSave,        \* each page: the save in flight
  dsWrites,      \* how many writes were asked for
  given,         \* history: the passwords each datasource was given, in order
  undone         \* history: datasources whose last password an edit undid that
                 \* had read the one before

dsVars == <<sources, created, dsDialog, dsSave, dsWrites, given, undone>>

SourceIds == 1..MaxSources
Typed == Passwords \cup {NoPassword}
Datasource == [name : DsNames, password : Typed]
DsDialog == [editing : SourceIds \cup {Nothing}, name : DsNames \cup {Nothing}, password : Typed]
DsSave == [editing : SourceIds \cup {Nothing}, name : DsNames, password : Typed,
           old : Typed \cup {Nothing}]

DsInit ==
  /\ sources = [d \in SourceIds |-> Nothing] /\ created = 0
  /\ dsDialog = [me \in Managers |-> Nothing] /\ dsSave = [me \in Managers |-> Nothing]
  /\ dsWrites = 0 /\ given = [d \in SourceIds |-> <<>>] /\ undone = {}
-----------------------------------------------------------------------------
(* The page.  Its list is read when a dialog opens: an older list amounts  *)
(* to a dialog that was opened earlier.                                    *)

ShowDialog(me, dialog) ==
  /\ dsDialog' = [dsDialog EXCEPT ![me] = dialog]
  /\ UNCHANGED <<sources, created, dsSave, dsWrites, given, undone>>

AddSource(me) ==
  /\ dsDialog[me] = Nothing
  /\ ShowDialog(me, [editing |-> Nothing, name |-> Nothing, password |-> NoPassword])

EditSource(me, d) ==
  /\ dsDialog[me] = Nothing /\ sources[d] # Nothing
  /\ ShowDialog(me, [editing |-> d, name |-> sources[d].name, password |-> NoPassword])

SetField(me, name, password) ==
  /\ dsDialog[me] # Nothing
  /\ ShowDialog(me, [dsDialog[me] EXCEPT !.name = name, !.password = password])

CloseDialog(me) == dsDialog[me] # Nothing /\ ShowDialog(me, Nothing)

Ask == dsWrites < MaxDsWrites /\ dsWrites' = dsWrites + 1

\* A save goes on when its dialog is closed; another one has to wait for it.
SaveSource(me) ==
  /\ dsDialog[me] # Nothing /\ dsDialog[me].name # Nothing /\ dsSave[me] = Nothing /\ Ask
  /\ dsSave' = [dsSave EXCEPT ![me] =
       [editing |-> dsDialog[me].editing, name |-> dsDialog[me].name,
        password |-> dsDialog[me].password, old |-> Nothing]]
  /\ UNCHANGED <<sources, created, dsDialog, given, undone>>
-----------------------------------------------------------------------------
(* The server.                                                             *)

NameFree(name, but) ==
  \A d \in SourceIds \ {but} : sources[d] # Nothing => sources[d].name # name

\* An answer closes the dialog, also one that was opened since.
Acknowledge(me) ==
  /\ dsSave' = [dsSave EXCEPT ![me] = Nothing]
  /\ dsDialog' = [dsDialog EXCEPT ![me] = Nothing]

NewSource(name, password) ==
  /\ NameFree(name, Nothing) /\ created < MaxSources
  /\ created' = created + 1
  /\ sources' = [sources EXCEPT ![created'] = [name |-> name, password |-> password]]
  /\ given' = [given EXCEPT ![created'] = <<password>>]
  /\ UNCHANGED undone

\* The name is unique; the password may be blank.
CreateDatasource(me) ==
  /\ dsSave[me] # Nothing /\ dsSave[me].editing = Nothing
  /\ NewSource(dsSave[me].name, dsSave[me].password)
  /\ Acknowledge(me) /\ UNCHANGED dsWrites

\* handleDSUpdate reads the stored datasource first.
GetDatasource(me) ==
  /\ dsSave[me] # Nothing /\ dsSave[me].editing # Nothing /\ dsSave[me].old = Nothing
  /\ sources[dsSave[me].editing] # Nothing
  /\ dsSave' = [dsSave EXCEPT ![me].old = sources[dsSave[me].editing].password]
  /\ UNCHANGED <<sources, created, dsDialog, dsWrites, given, undone>>

\* Mutation: a blank password is written as it is.
ToWriteAsSent(q) == q.password

\* A blank password stands for the stored one.
PasswordToWrite(q) == IF q.password = NoPassword THEN q.old ELSE q.password

\* One statement, of a datasource that may be gone by now.
UpdateDatasource(me) ==
  LET q == dsSave[me]
      d == q.editing
  IN  /\ q # Nothing /\ d # Nothing /\ q.old # Nothing
      /\ sources[d] # Nothing /\ NameFree(q.name, d)
      /\ sources' = [sources EXCEPT ![d] = [name |-> q.name, password |-> PasswordToWrite(q)]]
      /\ given' = [given EXCEPT ![d] = IF q.password = NoPassword THEN @ ELSE Append(@, q.password)]
      /\ undone' = IF q.password # NoPassword THEN undone \ {d}
                   ELSE IF q.old # sources[d].password THEN undone \cup {d} ELSE undone
      /\ Acknowledge(me) /\ UNCHANGED <<created, dsWrites>>

\* Gone, the name is taken or the store fails: the dialog stays as it is.
RefuseSave(me) ==
  /\ dsSave[me] # Nothing /\ dsSave' = [dsSave EXCEPT ![me] = Nothing]
  /\ UNCHANGED <<sources, created, dsDialog, dsWrites, given, undone>>

\* The definitions of its tables go with it; ids are not given out again.
DeleteDatasource(d) ==
  /\ sources[d] # Nothing /\ Ask
  /\ sources' = [sources EXCEPT ![d] = Nothing]
  /\ UNCHANGED <<created, dsDialog, dsSave, given, undone>>

\* A metadata import finds a datasource by its name, in one transaction, and
\* keeps the stored password when it brings none.
ImportDatasource(name, password) ==
  /\ Ask /\ UNCHANGED <<dsDialog, dsSave>>
  /\ \/ NewSource(name, password)
     \/ \E d \in SourceIds :
          /\ sources[d] # Nothing /\ sources[d].name = name
          /\ sources' = [sources EXCEPT ![d].password =
                           IF password = NoPassword THEN @ ELSE password]
          /\ given' = [given EXCEPT ![d] = IF password = NoPassword THEN @ ELSE Append(@, password)]
          /\ undone' = IF password = NoPassword THEN undone ELSE undone \ {d}
          /\ UNCHANGED created

DsNext ==
  \/ \E me \in Managers :
       \/ AddSource(me) \/ CloseDialog(me) \/ SaveSource(me)
       \/ \E d \in SourceIds : EditSource(me, d)
       \/ \E name \in DsNames, password \in Typed : SetField(me, name, password)
       \/ CreateDatasource(me) \/ GetDatasource(me) \/ UpdateDatasource(me) \/ RefuseSave(me)
  \/ \E d \in SourceIds : DeleteDatasource(d)
  \/ \E name \in DsNames, password \in Typed : ImportDatasource(name, password)

DsSpec == DsInit /\ [][DsNext]_dsVars
-----------------------------------------------------------------------------
DsTypeOK ==
  /\ sources \in [SourceIds -> Datasource \cup {Nothing}] /\ created \in 0..MaxSources
  /\ \A d \in SourceIds : sources[d] # Nothing => d <= created
  /\ \A d, e \in SourceIds : sources[d] # Nothing /\ sources[d] = sources[e] => d = e
  /\ dsDialog \in [Managers -> DsDialog \cup {Nothing}]
  /\ dsSave \in [Managers -> DsSave \cup {Nothing}] /\ dsWrites \in 0..MaxDsWrites
  /\ given \in [SourceIds -> Seq(Typed)] /\ undone \subseteq SourceIds

\* A datasource has the password it was given last: edits that leave the field blank
\* ("blank = keep") and imports without a password do not change it, whatever was
\* edited, created and deleted in between.  When another password was stored between
\* an edit's reading and writing, it is still one the datasource was given.
PasswordsKept ==
  \A d \in SourceIds : sources[d] # Nothing =>
    /\ sources[d].password \in Range(given[d])
    /\ d \notin undone => sources[d].password = Last(given[d])
=============================================================================
