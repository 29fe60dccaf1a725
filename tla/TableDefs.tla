------------------------------ MODULE TableDefs ------------------------------
(***************************************************************************)
(* The catalogue of table definitions (internal/meta/tabledefs.go) under   *)
(* concurrent administrators: definitions are created, edited, resynced    *)
(* with the live schema, grouped and deleted by handlers                   *)
(* (internal/api/tables.go, groups.go) that read the catalogue in some     *)
(* statements and write it in a later one.                                 *)
(*                                                                         *)
(* A definition is its table name, its columns with one key column, the    *)
(* definition an fk column refers to, and its group.  What a body says is  *)
(* drawn where the handler first acts on it.  Query views have no name, no  *)
(* key and no fk, and take no part.                                        *)
(***************************************************************************)
EXTENDS Naturals, FiniteSets

CONSTANTS
  Names,         \* table names, which are also the names in /api/data/{name}
  Cols,          \* column names
  Groups,        \* sidebar groups there are at first
  Requests,      \* administrators' requests in progress at a time
  MaxDefs,       \* bound: definitions ever created
  MaxRequests,   \* bound: requests ever made
  MaxAlters,     \* bound: changes of the live schema
  MaxFaults      \* bound: failing reads of the store

ASSUME TableDefsAssumption ==
  /\ 0 \notin Names /\ 0 \notin Cols /\ 0 \notin Groups     \* None is none of them
  /\ {MaxDefs, MaxRequests, MaxAlters, MaxFaults} \subseteq Nat /\ MaxDefs > 0

VARIABLES
  defs,          \* table_defs with their columns
  nextId,        \* the AUTOINCREMENT sequence of table_defs
  groups,        \* table_groups
  live,          \* columns of each table in the live database
  req            \* the requests' progress

\* History and bounds.
VARIABLES
  raced,         \* a name was saved although another save followed its check
  mixed,         \* definitions whose columns a resync wrote after other changes
  made, alters, faults

catalogue == <<defs, nextId>>
history == <<raced, mixed>>
vars == <<catalogue, groups, live, req, history, made, alters, faults>>

None == 0
Ids == 1..MaxDefs
Self == MaxDefs + 1                 \* SelfRef: the definition being saved

Def == [name : Names, cols : SUBSET Cols, key : Cols, fk : Ids \cup {None}, group : Groups \cup {None}]
Absent == [name |-> None, cols |-> {}, key |-> None, fk |-> None, group |-> None]

Request == [pc : {"idle", "group", "validate", "name", "save", "inspect", "replace", "drop"},
            def : Ids \cup {None},                    \* the definition, None to create one
            name : Names \cup {None}, fk : Ids \cup {None, Self}, group : Groups \cup {None},
            key : Cols \cup {None}, cols : SUBSET Cols,
            stale : SUBSET {"definition", "name"}]    \* what it read before another request wrote

Idle == [pc |-> "idle", def |-> None, name |-> None, fk |-> None, group |-> None,
         key |-> None, cols |-> {}, stale |-> {}]

Defined == {i \in Ids : defs[i] # Absent}

\* One table has been defined, as it is in the live database.
Init ==
  /\ groups = Groups /\ live = [n \in Names |-> Cols]
  /\ \E n \in Names, k \in Cols, g \in Groups \cup {None} :
       defs = [i \in Ids |-> IF i = 1 THEN [name |-> n, cols |-> Cols, key |-> k, fk |-> None, group |-> g]
                             ELSE Absent]
  /\ nextId = 2
  /\ req = [q \in Requests |-> Idle]
  /\ raced = FALSE /\ mixed = {} /\ made = 0 /\ alters = 0 /\ faults = 0

Fault == faults < MaxFaults /\ faults' = faults + 1

Arrive(q, r) ==
  /\ req[q].pc = "idle" /\ made < MaxRequests
  /\ req' = [req EXCEPT ![q] = r] /\ made' = made + 1

Goto(q, r) == req' = [req EXCEPT ![q] = r]
Reply(q) == Goto(q, Idle)

\* Request q has written the catalogue and goes on as r; what the others have
\* read of it is out of date.
Written(q, r) ==
  req' = [p \in Requests |->
            IF p = q THEN r
            ELSE IF req[p].pc \in {"idle", "group"} THEN req[p]      \* it has read nothing yet
            ELSE [req[p] EXCEPT !.stale = {"definition", "name"}]]
-----------------------------------------------------------------------------
(* handleTableCreate and handleTableUpdate.                                *)

Create(q) ==
  /\ Arrive(q, [Idle EXCEPT !.pc = "validate"])
  /\ UNCHANGED <<catalogue, groups, live, history, alters, faults>>

Update(q) ==
  /\ \E i \in Ids : i < nextId /\ Arrive(q, [Idle EXCEPT !.pc = "group", !.def = i])
  /\ UNCHANGED <<catalogue, groups, live, history, alters, faults>>

\* Mutation: the group is not carried over.
ForgetGroup(q) ==
  /\ req[q].pc = "group" /\ Goto(q, [req[q] EXCEPT !.pc = "validate"])
  /\ UNCHANGED <<catalogue, groups, live, history, made, alters, faults>>

\* The group is not part of the body; an error of this read is ignored.
KeepGroup(q) ==
  /\ req[q].pc = "group"
  /\ \/ /\ Goto(q, [req[q] EXCEPT !.pc = "validate", !.group = defs[req[q].def].group])
        /\ UNCHANGED faults
     \/ Fault /\ Goto(q, [req[q] EXCEPT !.pc = "validate", !.stale = {"definition"}])
  /\ UNCHANGED <<catalogue, groups, live, history, made, alters>>

\* validateDef: an fk column refers to this definition or to one there is.
Validate(q) ==
  /\ req[q].pc = "validate"
  /\ \/ \E j \in Defined \cup {None, Self} :
          Goto(q, [req[q] EXCEPT !.pc = "name", !.fk = j])
     \/ Reply(q)
  /\ UNCHANGED <<catalogue, groups, live, history, made, alters, faults>>

\* Mutation: only new definitions are checked.
CheckNewName(q) ==
  /\ req[q].pc = "name"
  /\ \E n \in Names :
       IF req[q].def = None /\ \E i \in Defined : defs[i].name = n THEN Reply(q)
       ELSE Goto(q, [req[q] EXCEPT !.pc = "save", !.name = n, !.stale = @ \ {"name"}])
  /\ UNCHANGED <<catalogue, groups, live, history, made, alters, faults>>

\* writeTableNameTaken.
CheckName(q) ==
  /\ req[q].pc = "name"
  /\ \E n \in Names :
       IF \E i \in Defined \ {req[q].def} : defs[i].name = n THEN Reply(q)
       ELSE Goto(q, [req[q] EXCEPT !.pc = "save", !.name = n, !.stale = @ \ {"name"}])
  /\ UNCHANGED <<catalogue, groups, live, history, made, alters, faults>>

\* The definition the request saves as i, with key columns among its columns.
Saved(q, i) ==
  {[name |-> req[q].name, cols |-> c[1], key |-> c[2], group |-> req[q].group,
    fk |-> IF req[q].fk = Self THEN i ELSE req[q].fk] :
     c \in {p \in (SUBSET Cols) \X Cols : p[2] \in p[1]}}

\* Mutation: the id of a deleted definition is used again.
LowestFreeId == CHOOSE i \in Ids : defs[i] = Absent /\ \A j \in 1..i - 1 : defs[j] # Absent

NewId == nextId

SaveTableDef(q) ==
  /\ req[q].pc = "save" /\ req[q].def = None
  /\ \/ /\ nextId <= MaxDefs
        /\ \E d \in Saved(q, NewId) : defs' = [defs EXCEPT ![NewId] = d]
        /\ nextId' = nextId + 1 /\ raced' = (raced \/ "name" \in req[q].stale)
        /\ Written(q, Idle)
     \/ nextId > MaxDefs /\ Reply(q) /\ UNCHANGED <<catalogue, raced>>
  /\ UNCHANGED <<groups, live, mixed, made, alters, faults>>

\* One transaction; it fails when the definition or its group is gone.
UpdateTableDef(q) ==
  LET i == req[q].def IN
  /\ req[q].pc = "save" /\ i # None
  /\ \/ /\ i \in Defined /\ req[q].group \in groups \cup {None}
        /\ \E d \in Saved(q, i) : defs' = [defs EXCEPT ![i] = d]
        /\ raced' = (raced \/ "name" \in req[q].stale) /\ mixed' = mixed \ {i}
        /\ Written(q, Idle)
     \/ /\ i \notin Defined \/ req[q].group \notin groups \cup {None}
        /\ Reply(q) /\ UNCHANGED <<defs, history>>
  /\ UNCHANGED <<nextId, groups, live, made, alters, faults>>

\* A reference to the definition stays behind.
DeleteTableDef(q) ==
  /\ req[q].pc = "idle" /\ made < MaxRequests
  /\ \E i \in Defined : defs' = [defs EXCEPT ![i] = Absent] /\ mixed' = mixed \ {i}
  /\ Written(q, Idle) /\ made' = made + 1
  /\ UNCHANGED <<nextId, groups, live, raced, alters, faults>>
-----------------------------------------------------------------------------
(* handleResync: the columns become those of the live table.               *)

Resync(q) ==
  /\ \E i \in Defined :
       Arrive(q, [Idle EXCEPT !.pc = "inspect", !.def = i, !.name = defs[i].name,
                                   !.key = defs[i].key, !.fk = defs[i].fk])
  /\ UNCHANGED <<catalogue, groups, live, history, alters, faults>>

\* Mutation: a dropped key column is no reason to refuse.
InspectAnyway(q) ==
  /\ req[q].pc = "inspect"
  /\ Goto(q, [req[q] EXCEPT !.pc = "replace", !.cols = live[req[q].name]])
  /\ UNCHANGED <<catalogue, groups, live, history, made, alters, faults>>

\* InspectTable; a key column that was dropped needs an edit by hand.  The fk
\* column stays, with what it refers to, unless it was dropped too.
Inspect(q) ==
  /\ req[q].pc = "inspect"
  /\ IF req[q].key \in live[req[q].name]
       THEN \E j \in {req[q].fk, None} :
              Goto(q, [req[q] EXCEPT !.pc = "replace", !.cols = live[req[q].name], !.fk = j])
       ELSE Reply(q)
  /\ UNCHANGED <<catalogue, groups, live, history, made, alters, faults>>

ReplaceColumns(q) ==
  LET i == req[q].def IN
  /\ req[q].pc = "replace"
  /\ \/ /\ i \in Defined /\ defs' = [defs EXCEPT ![i].cols = req[q].cols, ![i].fk = req[q].fk]
        /\ mixed' = IF "definition" \in req[q].stale THEN mixed \cup {i} ELSE mixed
        /\ Written(q, Idle)
     \/ i \notin Defined /\ Reply(q) /\ UNCHANGED <<defs, mixed>>
  /\ UNCHANGED <<nextId, groups, live, raced, made, alters, faults>>

AlterTable ==
  /\ alters < MaxAlters /\ alters' = alters + 1
  /\ \E n \in Names, S \in (SUBSET Cols) \ {{}} : S # live[n] /\ live' = [live EXCEPT ![n] = S]
  /\ UNCHANGED <<catalogue, groups, req, history, made, faults>>
-----------------------------------------------------------------------------
(* Groups.                                                                 *)

\* The foreign key refuses a group that is gone.
SetTableGroup(q) ==
  /\ req[q].pc = "idle" /\ made < MaxRequests /\ made' = made + 1
  /\ \E i \in Defined, g \in groups \cup {None} : defs' = [defs EXCEPT ![i].group = g]
  /\ Written(q, Idle)
  /\ UNCHANGED <<nextId, groups, live, history, alters, faults>>

\* DeleteGroup first takes the tables out of the group, ...
Ungroup(q) ==
  \E g \in groups :
    /\ req[q].pc = "idle" /\ made < MaxRequests /\ made' = made + 1
    /\ defs' = [i \in Ids |-> IF defs[i].group = g THEN [defs[i] EXCEPT !.group = None] ELSE defs[i]]
    /\ Written(q, [Idle EXCEPT !.pc = "drop", !.group = g])
    /\ UNCHANGED <<nextId, groups, live, history, alters, faults>>

\* Mutation: group_id without ON DELETE SET NULL.
DropGroupOnly(q) ==
  /\ req[q].pc = "drop"
  /\ groups' = groups \ {req[q].group} /\ Written(q, Idle)
  /\ UNCHANGED <<catalogue, live, history, made, alters, faults>>

\* ... then deletes it; tables put into it meanwhile are SET NULL.
DropGroup(q) ==
  LET g == req[q].group IN
  /\ req[q].pc = "drop"
  /\ groups' = groups \ {g}
  /\ defs' = [i \in Ids |-> IF defs[i].group = g THEN [defs[i] EXCEPT !.group = None] ELSE defs[i]]
  /\ Written(q, Idle)
  /\ UNCHANGED <<nextId, live, history, made, alters, faults>>

Step(q) ==
  \/ KeepGroup(q) \/ Validate(q) \/ CheckName(q) \/ SaveTableDef(q) \/ UpdateTableDef(q)
  \/ Inspect(q) \/ ReplaceColumns(q) \/ DropGroup(q)

Next ==
  \/ \E q \in Requests :
       \/ Create(q) \/ Update(q) \/ DeleteTableDef(q) \/ Resync(q)
       \/ SetTableGroup(q) \/ Ungroup(q) \/ Step(q)
  \/ AlterTable

Spec == Init /\ [][Next]_vars
-----------------------------------------------------------------------------
(* Properties.                                                             *)

TypeOK ==
  /\ defs \in [Ids -> Def \cup {Absent}] /\ nextId \in 1..MaxDefs + 1
  /\ groups \in SUBSET Groups /\ live \in [Names -> SUBSET Cols]
  /\ req \in [Requests -> Request]
  /\ raced \in BOOLEAN /\ mixed \in SUBSET Ids
  /\ made \in 0..MaxRequests /\ alters \in 0..MaxAlters /\ faults \in 0..MaxFaults
  /\ \A i \in Defined : i < nextId /\ defs[i].group \in groups \cup {None}

\* The definition /api/data/{name} serves is the only one of that name, unless
\* another request wrote between the check of a name and the save.
NamesIdentify ==
  ~raced => \A i, j \in Defined : defs[i].name = defs[j].name => i = j

\* Every definition has its key column among its columns, so that each of its
\* rows can be addressed, however edits and resyncs follow each other; unless
\* a resync replaced the columns of an edit it has not seen.
KeyIsColumn == \A i \in Defined : defs[i].key \in defs[i].cols \/ i \in mixed

\* An edit, which writes all of the definition, leaves the table in its group,
\* unless others wrote the catalogue while the edit was in progress or its read
\* of the definition failed.
EditKeepsGroup ==
  [][\A q \in Requests :
       LET i == req[q].def IN
       req[q].pc = "save" /\ i \in Defined /\ "definition" \notin req[q].stale /\ req'[q].pc = "idle"
       => defs'[i].group = defs[i].group]_vars

\* A reference to a deleted definition is never taken for one to a later
\* definition: it dangles until its own definition is edited.
DanglingStaysDangling ==
  [][\A i \in Defined :
       defs[i].fk # None /\ defs[i].fk \notin Defined /\ defs'[i].fk = defs[i].fk
       => defs[defs[i].fk]' = Absent]_vars

\* tabledefs.go: "so no two definitions may share one".
NamesUnique == \A i, j \in Defined : defs[i].name = defs[j].name => i = j
=============================================================================
