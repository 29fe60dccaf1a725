--------------------------- MODULE TableDefsProofs ---------------------------
(***************************************************************************)
(* Proofs about TableDefs, for any names, columns, groups, requests and    *)
(* bounds.  What a request has read of the catalogue stays true until      *)
(* somebody else writes the catalogue, which is what its field stale       *)
(* records; every property follows from what each phase has read.          *)
(***************************************************************************)
EXTENDS TableDefs, TLAPS

\* What each phase of a request has in hand.  References are to ids given out.
HasParts(r) ==
  /\ r.pc # "idle" => r.def < nextId
  /\ r.fk \in Ids => r.fk < nextId
  /\ r.pc = "group" => r.def \in Ids /\ r.stale = {}
  /\ r.pc \in {"validate", "name", "save"} /\ r.def = None => r.group = None
  /\ r.pc = "save" => r.name \in Names
  /\ r.pc \in {"inspect", "replace"} =>
       r.def \in Ids /\ r.name \in Names /\ r.key \in Cols /\ r.fk \in Ids \cup {None}
  /\ r.pc = "drop" => r.group \in Groups

\* An edit holds the group its definition is in.
HasGroup(r) ==
  r.pc \in {"validate", "name", "save"} /\ r.def \in Ids /\ "definition" \notin r.stale
  => defs[r.def].group = r.group

\* A name that was checked is still free.
HasName(r) ==
  r.pc = "save" /\ "name" \notin r.stale =>
    \A i \in Defined \ {r.def} : defs[i].name # r.name

\* A resync holds the key column, and is about to bring it among the others.
HasKey(r) ==
  /\ r.pc = "replace" => r.key \in r.cols
  /\ r.pc \in {"inspect", "replace"} /\ "definition" \notin r.stale =>
       r.def \in Defined /\ defs[r.def].key = r.key

Holds(r) == HasParts(r) /\ HasGroup(r) /\ HasName(r) /\ HasKey(r)

\* A definition refers to ids that were given out, also to those of deleted ones.
FkInv == \A i \in Ids : defs[i].fk < nextId

IInv == TypeOK /\ FkInv /\ (\A q \in Requests : Holds(req[q])) /\ NamesIdentify /\ KeyIsColumn
-----------------------------------------------------------------------------
(* What the parts of an action do to requests and definitions.             *)

LEMMA IdleTyped == Idle \in Request
BY DEF Idle, Request

LEMMA AbsentIsNone == Absent.name = None /\ Absent.fk = None /\ Absent.group = None /\ Absent \notin Def
BY TableDefsAssumption DEF Absent, Def, None

\* One request goes on; the others are as they were.
LEMMA GoneTo ==
  ASSUME req \in [Requests -> Request], NEW q \in Requests, NEW r \in Request,
         req' = [req EXCEPT ![q] = r]
  PROVE  /\ req' \in [Requests -> Request] /\ req'[q] = r
         /\ \A p \in Requests : p # q => req'[p] = req[p]
OBVIOUS

\* A request wrote the catalogue: the others keep all but what they have read.
LEMMA WrittenBy ==
  ASSUME req \in [Requests -> Request], NEW q \in Requests, NEW r \in Request, Written(q, r)
  PROVE  /\ req' \in [Requests -> Request] /\ req'[q] = r
         /\ \A p \in Requests : p # q =>
              /\ req'[p].pc = req[p].pc /\ req'[p].def = req[p].def /\ req'[p].name = req[p].name
              /\ req'[p].fk = req[p].fk /\ req'[p].group = req[p].group
              /\ req'[p].key = req[p].key /\ req'[p].cols = req[p].cols
              /\ IF req[p].pc \in {"idle", "group"} THEN req'[p].stale = req[p].stale
                 ELSE req'[p].stale = {"definition", "name"}
<1> DEFINE f == [p \in Requests |->
                   IF p = q THEN r
                   ELSE IF req[p].pc \in {"idle", "group"} THEN req[p]
                   ELSE [req[p] EXCEPT !.stale = {"definition", "name"}]]
<1>1. req' = f
  BY DEF Written
<1>2. ASSUME NEW p \in Requests PROVE [req[p] EXCEPT !.stale = {"definition", "name"}] \in Request
  BY DEF Request
<1>3. f \in [Requests -> Request]
  BY <1>2
<1>4. ASSUME NEW p \in Requests, p # q
      PROVE  /\ f[p].pc = req[p].pc /\ f[p].def = req[p].def /\ f[p].name = req[p].name
             /\ f[p].fk = req[p].fk /\ f[p].group = req[p].group
             /\ f[p].key = req[p].key /\ f[p].cols = req[p].cols
             /\ IF req[p].pc \in {"idle", "group"} THEN f[p].stale = req[p].stale
                ELSE f[p].stale = {"definition", "name"}
  <2>1. req[p] \in Request
    OBVIOUS
  <2> QED
    BY <1>4, <2>1 DEF Request
<1> HIDE DEF f
<1>5. f[q] = r
  BY DEF f
<1> QED
  BY <1>1, <1>3, <1>4, <1>5

\* A saved definition has the checked name, its key column among its columns, and
\* the group the request holds; an fk to "this definition" becomes its id.
LEMMA SavedTyped ==
  ASSUME NEW q \in Requests, req \in [Requests -> Request], NEW i \in Ids,
         req[q].name \in Names, NEW d \in Saved(q, i)
  PROVE  /\ d \in Def /\ d.name = req[q].name /\ d.group = req[q].group /\ d.key \in d.cols
         /\ d.fk = IF req[q].fk = Self THEN i ELSE req[q].fk
<1>1. req[q] \in Request
  OBVIOUS
<1>2. PICK S \in SUBSET Cols, k \in Cols :
        /\ k \in S
        /\ d = [name |-> req[q].name, cols |-> S, key |-> k, group |-> req[q].group,
                fk |-> IF req[q].fk = Self THEN i ELSE req[q].fk]
  BY DEF Saved
<1> QED
  BY <1>1, <1>2 DEF Request, Def

\* Taking tables out of a group changes nothing else of any definition.
LEMMA Ungrouped ==
  ASSUME TypeOK, NEW g \in Groups,
         defs' = [i \in Ids |-> IF defs[i].group = g THEN [defs[i] EXCEPT !.group = None] ELSE defs[i]]
  PROVE  /\ defs' \in [Ids -> Def \cup {Absent}]
         /\ \A i \in Ids :
              /\ defs'[i].name = defs[i].name /\ defs'[i].cols = defs[i].cols
              /\ defs'[i].key = defs[i].key /\ defs'[i].fk = defs[i].fk
              /\ defs'[i].group = (IF defs[i].group = g THEN None ELSE defs[i].group)
              /\ (defs'[i] = Absent) <=> (defs[i] = Absent)
<1>1. ASSUME NEW i \in Ids
      PROVE  /\ defs'[i] \in Def \cup {Absent}
             /\ defs'[i].name = defs[i].name /\ defs'[i].cols = defs[i].cols
             /\ defs'[i].key = defs[i].key /\ defs'[i].fk = defs[i].fk
             /\ defs'[i].group = IF defs[i].group = g THEN None ELSE defs[i].group
             /\ (defs'[i] = Absent) <=> (defs[i] = Absent)
  <2>1. CASE defs[i] = Absent
    <3>1. defs'[i] = Absent
      BY <2>1, AbsentIsNone, TableDefsAssumption DEF None
    <3> QED
      BY <2>1, <3>1, AbsentIsNone, TableDefsAssumption DEF None
  <2>2. CASE defs[i] # Absent
    <3>1. defs[i] \in Def
      BY <2>2 DEF TypeOK
    <3>2. defs'[i] \in Def
      BY <3>1 DEF Def
    <3> QED
      BY <2>2, <3>1, <3>2, AbsentIsNone DEF Def
  <2> QED
    BY <2>1, <2>2
<1>2. defs' \in [Ids -> Def \cup {Absent}]
  BY <1>1
<1> QED
  BY <1>1, <1>2

\* What a request that only reads brings about: the catalogue is as it was.
LEMMA ReadStep ==
  ASSUME IInv, NEW q \in Requests, NEW r \in Request, req' = [req EXCEPT ![q] = r], Holds(r),
         UNCHANGED <<catalogue, groups, live, history, alters>>,
         made' \in 0..MaxRequests, faults' \in 0..MaxFaults
  PROVE  IInv'
<1>1. /\ req' \in [Requests -> Request] /\ req'[q] = r
      /\ \A p \in Requests : p # q => req'[p] = req[p]
  BY GoneTo DEF IInv, TypeOK
<1>2. TypeOK'
  BY <1>1 DEF IInv, TypeOK, Defined, catalogue, history
<1>3. FkInv' /\ NamesIdentify' /\ KeyIsColumn'
  BY DEF IInv, FkInv, NamesIdentify, KeyIsColumn, Defined, catalogue, history
<1>4. ASSUME NEW p \in Requests PROVE Holds(req[p])'
  <2>1. Holds(req'[p])
    BY <1>1 DEF IInv
  <2> QED
    BY <2>1 DEF Holds, HasParts, HasGroup, HasName, HasKey, Defined, catalogue
<1> QED
  BY <1>2, <1>3, <1>4 DEF IInv

\* What a request that writes the catalogue brings about: what the others have read
\* does not count any more.
LEMMA WriteStep ==
  ASSUME IInv, NEW q \in Requests, NEW r \in Request, Written(q, r),
         nextId' \in 1..MaxDefs + 1, nextId <= nextId', Holds(r)',
         defs' \in [Ids -> Def \cup {Absent}], groups' \in SUBSET Groups,
         (\A i \in Defined : i < nextId /\ defs[i].group \in groups \cup {None})',
         raced' \in BOOLEAN, mixed' \in SUBSET Ids, made' \in 0..MaxRequests,
         FkInv', NamesIdentify', KeyIsColumn', UNCHANGED <<live, alters, faults>>
  PROVE  IInv'
<1>1. req \in [Requests -> Request] /\ nextId \in Nat
  BY TableDefsAssumption DEF IInv, TypeOK
<1>2. req' \in [Requests -> Request] /\ req'[q] = r
  BY <1>1, WrittenBy
<1>3. TypeOK'
  BY <1>2 DEF IInv, TypeOK
<1>4. ASSUME NEW p \in Requests, p # q PROVE Holds(req[p])'
  <2>1. /\ req'[p].pc = req[p].pc /\ req'[p].def = req[p].def /\ req'[p].name = req[p].name
        /\ req'[p].fk = req[p].fk /\ req'[p].group = req[p].group
        /\ req'[p].key = req[p].key /\ req'[p].cols = req[p].cols
        /\ IF req[p].pc \in {"idle", "group"} THEN req'[p].stale = req[p].stale
           ELSE req'[p].stale = {"definition", "name"}
    BY <1>1, <1>4, WrittenBy
  <2>2. Holds(req[p]) /\ req[p] \in Request
    BY <1>1 DEF IInv
  <2>3. HasParts(req[p])'
    <3>1. req[p].def \in Nat
      BY <2>2, TableDefsAssumption DEF Request, Ids, None
    <3> QED
      BY <1>1, <2>1, <2>2, <3>1, TableDefsAssumption DEF Holds, HasParts, Ids
  <2>4. HasGroup(req[p])' /\ HasName(req[p])' /\ HasKey(req[p])'
    BY <2>1, <2>2 DEF HasGroup, HasName, HasKey, Holds
  <2> QED
    BY <2>3, <2>4 DEF Holds
<1>5. Holds(req[q])'
  BY <1>2
<1> QED
  BY <1>3, <1>4, <1>5 DEF IInv

LEMMA IdleHolds == Holds(Idle)
BY DEF Holds, HasParts, HasGroup, HasName, HasKey, Idle, Ids, None

LEMMA IdleHoldsNext == Holds(Idle)'
BY DEF Holds, HasParts, HasGroup, HasName, HasKey, Idle, Ids, None
-----------------------------------------------------------------------------
(* The invariant is inductive.                                             *)

\* The one definition there is at first is alone and has its key.
LEMMA IInvInit == Init => IInv
<1> SUFFICES ASSUME Init PROVE IInv
  OBVIOUS
<1>1. PICK n \in Names, k \in Cols, g \in Groups \cup {None} :
        defs = [i \in Ids |-> IF i = 1 THEN [name |-> n, cols |-> Cols, key |-> k, fk |-> None, group |-> g]
                              ELSE Absent]
  BY DEF Init
<1>2. 1 \in Ids /\ nextId = 2 /\ 2 \in 1..MaxDefs + 1
  BY TableDefsAssumption DEF Init, Ids
<1>3. /\ defs[1] = [name |-> n, cols |-> Cols, key |-> k, fk |-> None, group |-> g]
      /\ defs[1] \in Def
      /\ \A i \in Ids : i # 1 => defs[i] = Absent
  <2>1. [name |-> n, cols |-> Cols, key |-> k, fk |-> None, group |-> g] \in Def
    BY DEF Def
  <2> QED
    BY <1>1, <1>2, <2>1
<1>4. Defined = {1}
  BY <1>2, <1>3, AbsentIsNone DEF Defined
<1>5. TypeOK
  <2>1. defs \in [Ids -> Def \cup {Absent}]
    <3>1. ASSUME NEW i \in Ids PROVE defs[i] \in Def \cup {Absent}
      BY <1>3
    <3> QED
      BY <1>1, <3>1
  <2>2. req \in [Requests -> Request]
    BY IdleTyped DEF Init
  <2>3. \A i \in Defined : i < nextId /\ defs[i].group \in groups \cup {None}
    BY <1>2, <1>3, <1>4 DEF Init
  <2>4. made \in 0..MaxRequests /\ alters \in 0..MaxAlters /\ faults \in 0..MaxFaults
    <3>1. MaxRequests \in Nat /\ MaxAlters \in Nat /\ MaxFaults \in Nat
      BY TableDefsAssumption
    <3> QED
      BY <3>1 DEF Init
  <2>5. /\ groups \in SUBSET Groups /\ live \in [Names -> SUBSET Cols]
        /\ raced \in BOOLEAN /\ mixed \in SUBSET Ids
    BY DEF Init
  <2> QED
    BY <1>2, <2>1, <2>2, <2>3, <2>4, <2>5 DEF TypeOK
<1>6. FkInv
  <2>1. ASSUME NEW i \in Ids PROVE defs[i].fk = None
    BY <1>3, AbsentIsNone
  <2> QED
    BY <1>2, <2>1 DEF FkInv, None
<1>7. \A q \in Requests : Holds(req[q])
  BY IdleHolds DEF Init
<1>8. NamesIdentify /\ KeyIsColumn
  BY <1>3, <1>4 DEF NamesIdentify, KeyIsColumn
<1> QED
  BY <1>5, <1>6, <1>7, <1>8 DEF IInv

\* The steps that only read.
LEMMA ReadsKeep ==
  ASSUME IInv, NEW q \in Requests,
         Create(q) \/ Update(q) \/ KeepGroup(q) \/ Validate(q) \/ CheckName(q) \/ Resync(q) \/ Inspect(q)
  PROVE  IInv'
<1>0. /\ req[q] \in Request /\ Holds(req[q]) /\ nextId \in Nat /\ nextId \in 1..MaxDefs + 1
      /\ made \in 0..MaxRequests /\ faults \in 0..MaxFaults
      /\ MaxDefs \in Nat /\ MaxRequests \in Nat /\ MaxFaults \in Nat
  BY TableDefsAssumption DEF IInv, TypeOK
<1>1. ASSUME Reply(q), UNCHANGED <<catalogue, groups, live, history, alters, made, faults>> PROVE IInv'
  <2>1. req' = [req EXCEPT ![q] = Idle]
    BY <1>1 DEF Reply, Goto
  <2>2. made' \in 0..MaxRequests /\ faults' \in 0..MaxFaults
    BY <1>0, <1>1
  <2>3. UNCHANGED <<catalogue, groups, live, history, alters>>
    BY <1>1
  <2> QED
    BY <2>1, <2>2, <2>3, IdleTyped, IdleHolds, ReadStep
<1>2. CASE Create(q)
  <2> DEFINE r == [Idle EXCEPT !.pc = "validate"]
  <2>1. r \in Request /\ Holds(r)
    BY <1>0 DEF Request, Idle, Holds, HasParts, HasGroup, HasName, HasKey, None, Ids
  <2>2. req' = [req EXCEPT ![q] = r] /\ made' \in 0..MaxRequests /\ faults' \in 0..MaxFaults
    BY <1>0, <1>2 DEF Create, Arrive
  <2>3. UNCHANGED <<catalogue, groups, live, history, alters>>
    BY <1>2 DEF Create
  <2> HIDE DEF r
  <2> QED
    BY <2>1, <2>2, <2>3, ReadStep
<1>3. CASE Update(q)
  <2>0. PICK i \in Ids : i < nextId /\ Arrive(q, [Idle EXCEPT !.pc = "group", !.def = i])
    BY <1>3 DEF Update
  <2> DEFINE r == [Idle EXCEPT !.pc = "group", !.def = i]
  <2>1. r \in Request /\ Holds(r)
    <3>1. r \in Request /\ r.pc = "group" /\ r.def = i /\ r.fk = None /\ r.stale = {}
      BY IdleTyped DEF Request, Idle
    <3> QED
      BY <2>0, <3>1, TableDefsAssumption DEF Holds, HasParts, HasGroup, HasName, HasKey, None, Ids
  <2>2. req' = [req EXCEPT ![q] = r] /\ made' = made + 1 /\ made < MaxRequests
    BY <2>0 DEF Arrive
  <2>3. UNCHANGED <<catalogue, groups, live, history, alters, faults>>
    BY <1>3 DEF Update
  <2>4. made' \in 0..MaxRequests /\ faults' \in 0..MaxFaults
    BY <1>0, <2>2, <2>3
  <2> HIDE DEF r
  <2> QED
    BY <2>1, <2>2, <2>3, <2>4, ReadStep
<1>4. CASE KeepGroup(q)
  <2>0. /\ req[q].def \in Ids /\ req[q].stale = {} /\ req[q].pc = "group"
        /\ req[q].def < nextId /\ req[q].def # None
    BY <1>0, <1>4 DEF KeepGroup, Holds, HasParts, Ids, None
  <2>1. UNCHANGED <<catalogue, groups, live, history, alters, made>>
    BY <1>4 DEF KeepGroup
  <2>2. made' \in 0..MaxRequests /\ faults' \in 0..MaxFaults
    BY <1>0, <1>4, <2>1 DEF KeepGroup, Fault
  <2>3. CASE Goto(q, [req[q] EXCEPT !.pc = "validate", !.group = defs[req[q].def].group])
    <3> DEFINE r == [req[q] EXCEPT !.pc = "validate", !.group = defs[req[q].def].group]
    <3>1. defs[req[q].def].group \in Groups \cup {None}
      <4>1. defs[req[q].def] \in Def \cup {Absent}
        BY <2>0 DEF IInv, TypeOK
      <4> QED
        BY <4>1, AbsentIsNone DEF Def
    <3>2. r \in Request /\ Holds(r)
      BY <1>0, <2>0, <3>1 DEF Request, Holds, HasParts, HasGroup, HasName, HasKey
    <3>3. req' = [req EXCEPT ![q] = r]
      BY <2>3 DEF Goto
    <3> HIDE DEF r
    <3> QED
      BY <2>1, <2>2, <3>2, <3>3, ReadStep
  <2>4. CASE Goto(q, [req[q] EXCEPT !.pc = "validate", !.stale = {"definition"}])
    <3> DEFINE r == [req[q] EXCEPT !.pc = "validate", !.stale = {"definition"}]
    <3>2. r \in Request /\ Holds(r)
      BY <1>0, <2>0 DEF Request, Holds, HasParts, HasGroup, HasName, HasKey
    <3>3. req' = [req EXCEPT ![q] = r]
      BY <2>4 DEF Goto
    <3> HIDE DEF r
    <3> QED
      BY <2>1, <2>2, <3>2, <3>3, ReadStep
  <2> QED
    BY <1>4, <2>3, <2>4 DEF KeepGroup
<1>5. CASE Validate(q)
  <2>1. UNCHANGED <<catalogue, groups, live, history, alters, made, faults>> /\ req[q].pc = "validate"
    BY <1>5 DEF Validate
  <2>2. ASSUME NEW j \in Defined \cup {None, Self}, Goto(q, [req[q] EXCEPT !.pc = "name", !.fk = j])
        PROVE  IInv'
    <3> DEFINE r == [req[q] EXCEPT !.pc = "name", !.fk = j]
    <3>1. j \in Ids \cup {None, Self} /\ (j \in Ids => j < nextId)
      BY <1>0 DEF IInv, TypeOK, Defined, Ids, None, Self
    <3>2. r \in Request
      BY <1>0, <3>1 DEF Request
    <3>3. Holds(r)
      BY <1>0, <2>1, <3>1 DEF Request, Holds, HasParts, HasGroup, HasName, HasKey
    <3>4. req' = [req EXCEPT ![q] = r] /\ made' \in 0..MaxRequests /\ faults' \in 0..MaxFaults
      BY <1>0, <2>1, <2>2 DEF Goto
    <3>5. UNCHANGED <<catalogue, groups, live, history, alters>>
      BY <2>1
    <3> HIDE DEF r
    <3> QED
      BY <3>2, <3>3, <3>4, <3>5, ReadStep
  <2> QED
    BY <1>1, <1>5, <2>1, <2>2 DEF Validate
<1>6. CASE CheckName(q)
  <2>1. UNCHANGED <<catalogue, groups, live, history, alters, made, faults>> /\ req[q].pc = "name"
    BY <1>6 DEF CheckName
  <2>2. ASSUME NEW n \in Names, ~ \E i \in Defined \ {req[q].def} : defs[i].name = n,
               Goto(q, [req[q] EXCEPT !.pc = "save", !.name = n, !.stale = req[q].stale \ {"name"}])
        PROVE  IInv'
    <3> DEFINE r == [req[q] EXCEPT !.pc = "save", !.name = n, !.stale = req[q].stale \ {"name"}]
    <3>2. r \in Request /\ Holds(r)
      BY <1>0, <2>1, <2>2 DEF Request, Holds, HasParts, HasGroup, HasName, HasKey
    <3>4. req' = [req EXCEPT ![q] = r] /\ made' \in 0..MaxRequests /\ faults' \in 0..MaxFaults
      BY <1>0, <2>1, <2>2 DEF Goto
    <3>5. UNCHANGED <<catalogue, groups, live, history, alters>>
      BY <2>1
    <3> HIDE DEF r
    <3> QED
      BY <3>2, <3>4, <3>5, ReadStep
  <2> QED
    BY <1>1, <1>6, <2>1, <2>2 DEF CheckName
<1>7. CASE Resync(q)
  <2>0. PICK i \in Defined :
          Arrive(q, [Idle EXCEPT !.pc = "inspect", !.def = i, !.name = defs[i].name,
                                   !.key = defs[i].key, !.fk = defs[i].fk])
    BY <1>7 DEF Resync
  <2> DEFINE r == [Idle EXCEPT !.pc = "inspect", !.def = i, !.name = defs[i].name,
                                 !.key = defs[i].key, !.fk = defs[i].fk]
  <2>1. defs[i] \in Def /\ i \in Ids /\ i < nextId /\ defs[i].fk < nextId
    BY DEF IInv, TypeOK, Defined, FkInv
  <2>2. r \in Request /\ Holds(r)
    BY ZenonT(60), <1>0, <2>1 DEF Request, Def, Idle, Holds, HasParts, HasGroup, HasName, HasKey
  <2>3. req' = [req EXCEPT ![q] = r] /\ made' = made + 1 /\ made < MaxRequests
    BY <2>0 DEF Arrive
  <2>4. UNCHANGED <<catalogue, groups, live, history, alters, faults>>
    BY <1>7 DEF Resync
  <2>5. made' \in 0..MaxRequests /\ faults' \in 0..MaxFaults
    BY <1>0, <2>3, <2>4
  <2> HIDE DEF r
  <2> QED
    BY <2>2, <2>3, <2>4, <2>5, ReadStep
<1>8. CASE Inspect(q)
  <2>1. UNCHANGED <<catalogue, groups, live, history, alters, made, faults>> /\ req[q].pc = "inspect"
    BY <1>8 DEF Inspect
  <2>2. ASSUME req[q].key \in live[req[q].name], NEW j \in {req[q].fk, None},
               Goto(q, [req[q] EXCEPT !.pc = "replace", !.cols = live[req[q].name], !.fk = j])
        PROVE  IInv'
    <3> DEFINE r == [req[q] EXCEPT !.pc = "replace", !.cols = live[req[q].name], !.fk = j]
    <3>1. /\ req[q].name \in Names /\ live[req[q].name] \in SUBSET Cols
          /\ j \in Ids \cup {None} /\ (j \in Ids => j < nextId)
      <4>1. req[q].name \in Names /\ req[q].fk \in Ids \cup {None}
            /\ (req[q].fk \in Ids => req[q].fk < nextId)
        BY <1>0, <2>1 DEF Holds, HasParts
      <4> QED
        BY <4>1, <2>2 DEF IInv, TypeOK, Ids, None
    <3>2. r \in Request /\ Holds(r)
      BY <1>0, <2>1, <2>2, <3>1 DEF Request, Holds, HasParts, HasGroup, HasName, HasKey
    <3>4. req' = [req EXCEPT ![q] = r] /\ made' \in 0..MaxRequests /\ faults' \in 0..MaxFaults
      BY <1>0, <2>1, <2>2 DEF Goto
    <3>5. UNCHANGED <<catalogue, groups, live, history, alters>>
      BY <2>1
    <3> HIDE DEF r
    <3> QED
      BY <3>2, <3>4, <3>5, ReadStep
  <2> QED
    BY <1>1, <1>8, <2>1, <2>2 DEF Inspect
<1> QED
  BY <1>2, <1>3, <1>4, <1>5, <1>6, <1>7, <1>8

\* A request that is refused, or finds the definition gone, writes nothing.
LEMMA ReplyKeeps ==
  ASSUME IInv, NEW q \in Requests, Reply(q),
         UNCHANGED <<catalogue, groups, live, history, made, alters, faults>>
  PROVE  IInv'
<1>1. req' = [req EXCEPT ![q] = Idle]
  BY DEF Reply, Goto
<1>2. made' \in 0..MaxRequests /\ faults' \in 0..MaxFaults
  BY DEF IInv, TypeOK
<1>3. UNCHANGED <<catalogue, groups, live, history, alters>>
  OBVIOUS
<1> QED
  BY <1>1, <1>2, <1>3, IdleTyped, IdleHolds, ReadStep

\* A new definition takes an id never given out, to which nothing refers.
LEMMA SaveTableDefKeeps ==
  ASSUME IInv, NEW q \in Requests, SaveTableDef(q)
  PROVE  IInv'
<1>0. /\ req[q] \in Request /\ Holds(req[q]) /\ nextId \in 1..MaxDefs + 1 /\ MaxDefs \in Nat
      /\ req \in [Requests -> Request] /\ defs \in [Ids -> Def \cup {Absent}]
      /\ req[q].pc = "save" /\ req[q].def = None /\ req[q].name \in Names /\ req[q].group = None
      /\ UNCHANGED <<groups, live, mixed, made, alters, faults>>
  BY TableDefsAssumption DEF IInv, TypeOK, SaveTableDef, Holds, HasParts
<1>1. CASE nextId > MaxDefs
  <2>1. Reply(q) /\ UNCHANGED <<catalogue, raced>>
    BY <1>0, <1>1 DEF SaveTableDef
  <2> QED
    BY <1>0, <2>1, ReplyKeeps DEF history
<1>2. CASE nextId <= MaxDefs
  <2>1. /\ nextId \in Ids /\ nextId' = nextId + 1 /\ Written(q, Idle)
        /\ raced' = (raced \/ "name" \in req[q].stale)
    BY <1>0, <1>2 DEF SaveTableDef, Ids
  <2>2. PICK d \in Saved(q, nextId) : defs' = [defs EXCEPT ![nextId] = d]
    BY <1>0, <1>2 DEF SaveTableDef, NewId
  <2>3. /\ d \in Def /\ d.name = req[q].name /\ d.group = None /\ d.key \in d.cols
        /\ d.fk = IF req[q].fk = Self THEN nextId ELSE req[q].fk
    BY <1>0, <2>1, SavedTyped
  <2>4. /\ defs'[nextId] = d /\ defs' \in [Ids -> Def \cup {Absent}]
        /\ \A i \in Ids : i # nextId => defs'[i] = defs[i]
    BY <1>0, <2>1, <2>2, <2>3
  <2>5. Defined' = Defined \cup {nextId} /\ nextId \notin Defined
    <3>1. nextId \notin Defined
      BY <1>0 DEF IInv, TypeOK, Defined
    <3>2. d # Absent
      BY <2>3, AbsentIsNone
    <3> QED
      BY <2>1, <2>4, <3>1, <3>2 DEF Defined
  <2>6. nextId' \in 1..MaxDefs + 1 /\ nextId <= nextId'
    BY <1>0, <1>2, <2>1
  <2>7. (\A i \in Defined : i < nextId /\ defs[i].group \in groups \cup {None})'
    <3>1. ASSUME NEW i \in Defined' PROVE i < nextId' /\ defs'[i].group \in groups' \cup {None}
      <4>1. CASE i = nextId
        BY <1>0, <2>1, <2>3, <2>4, <4>1
      <4>2. CASE i # nextId
        <5>1. i \in Defined /\ i \in Nat
          BY <2>5, <4>2 DEF Defined, Ids
        <5> QED
          BY <1>0, <2>1, <2>4, <4>2, <5>1 DEF IInv, TypeOK, Defined
      <4> QED
        BY <4>1, <4>2
    <3> QED
      BY <3>1
  <2>8. FkInv'
    <3>1. ASSUME NEW i \in Ids PROVE defs'[i].fk < nextId'
      <4>1. CASE i = nextId
        <5>1. d.fk \in Nat /\ d.fk < nextId + 1
          BY <1>0, <2>3 DEF Request, Holds, HasParts, Ids, None
        <5> QED
          BY <2>1, <2>4, <4>1, <5>1
      <4>2. CASE i # nextId
        <5>1. defs[i].fk \in Nat /\ defs[i].fk < nextId
          <6>1. defs[i] \in Def \cup {Absent}
            BY <1>0
          <6> QED
            BY <6>1, AbsentIsNone DEF IInv, FkInv, Def, Ids, None
        <5> QED
          BY <1>0, <2>1, <2>4, <4>2, <5>1
      <4> QED
        BY <4>1, <4>2
    <3> QED
      BY <3>1 DEF FkInv
  <2>9. NamesIdentify'
    <3>1. SUFFICES ASSUME ~raced', NEW i \in Defined', NEW j \in Defined', defs'[i].name = defs'[j].name
                   PROVE  i = j
      BY DEF NamesIdentify
    <3>2. ~raced /\ "name" \notin req[q].stale
      BY <2>1, <3>1
    <3>3. \A k \in Defined : defs[k].name # d.name
      BY <1>0, <2>3, <3>2 DEF Holds, HasName, Defined, Ids, None
    <3> QED
      BY <2>1, <2>4, <2>5, <3>1, <3>2, <3>3 DEF IInv, NamesIdentify, Defined
  <2>10. KeyIsColumn'
    BY <1>0, <2>1, <2>3, <2>4, <2>5 DEF IInv, KeyIsColumn, Defined
  <2>11. /\ groups' \in SUBSET Groups /\ raced' \in BOOLEAN /\ mixed' \in SUBSET Ids
         /\ made' \in 0..MaxRequests /\ UNCHANGED <<live, alters, faults>>
    BY <1>0, <2>1 DEF IInv, TypeOK
  <2> QED
    BY <2>1, <2>4, <2>6, <2>7, <2>8, <2>9, <2>10, <2>11, IdleTyped, IdleHoldsNext, WriteStep
<1> QED
  BY <1>0, <1>1, <1>2

\* An edit brings a free name and its key, and the group the definition is in.
LEMMA UpdateTableDefKeeps ==
  ASSUME IInv, NEW q \in Requests, UpdateTableDef(q)
  PROVE  IInv'
<1> DEFINE i == req[q].def
<1>0. /\ req[q] \in Request /\ Holds(req[q]) /\ nextId \in 1..MaxDefs + 1 /\ MaxDefs \in Nat
      /\ req \in [Requests -> Request] /\ defs \in [Ids -> Def \cup {Absent}]
      /\ req[q].pc = "save" /\ req[q].name \in Names
      /\ UNCHANGED <<nextId, groups, live, made, alters, faults>>
  BY TableDefsAssumption DEF IInv, TypeOK, UpdateTableDef, Holds, HasParts
<1>1. CASE i \notin Defined \/ req[q].group \notin groups \cup {None}
  <2>1. Reply(q) /\ UNCHANGED <<defs, history>>
    BY <1>0, <1>1 DEF UpdateTableDef
  <2> QED
    BY <1>0, <2>1, ReplyKeeps DEF catalogue
<1>2. CASE i \in Defined /\ req[q].group \in groups \cup {None}
  <2>1. /\ i \in Ids /\ defs[i] # Absent /\ Written(q, Idle)
        /\ raced' = (raced \/ "name" \in req[q].stale) /\ mixed' = mixed \ {i}
    BY <1>0, <1>2 DEF UpdateTableDef, Defined
  <2>2. PICK d \in Saved(q, i) : defs' = [defs EXCEPT ![i] = d]
    BY <1>0, <1>2 DEF UpdateTableDef
  <2>3. /\ d \in Def /\ d.name = req[q].name /\ d.group = req[q].group /\ d.key \in d.cols
        /\ d.fk = IF req[q].fk = Self THEN i ELSE req[q].fk
    BY <1>0, <2>1, SavedTyped
  <2> HIDE DEF i
  <2>4. /\ defs'[i] = d /\ defs' \in [Ids -> Def \cup {Absent}]
        /\ \A j \in Ids : j # i => defs'[j] = defs[j]
    BY <1>0, <2>1, <2>2, <2>3
  <2>5. Defined' = Defined
    <3>1. d # Absent
      BY <2>3, AbsentIsNone
    <3> QED
      BY <2>1, <2>4, <3>1 DEF Defined
  <2>6. i \in Nat /\ i < nextId
    BY <1>2, <2>1 DEF IInv, TypeOK, Ids
  <2>7. (\A j \in Defined : j < nextId /\ defs[j].group \in groups \cup {None})'
    <3>1. ASSUME NEW j \in Defined' PROVE j < nextId' /\ defs'[j].group \in groups' \cup {None}
      BY <1>0, <1>2, <2>3, <2>4, <2>5, <2>6 DEF IInv, TypeOK, Defined
    <3> QED
      BY <3>1
  <2>8. FkInv'
    <3>1. ASSUME NEW j \in Ids PROVE defs'[j].fk < nextId'
      <4>1. CASE j = i
        <5>1. d.fk < nextId
          BY <1>0, <2>3, <2>6 DEF Request, Holds, HasParts, Ids, None
        <5> QED
          BY <1>0, <2>4, <4>1, <5>1
      <4>2. CASE j # i
        BY <1>0, <2>4, <4>2 DEF IInv, FkInv
      <4> QED
        BY <4>1, <4>2
    <3> QED
      BY <3>1 DEF FkInv
  <2>9. NamesIdentify'
    <3>1. SUFFICES ASSUME ~raced', NEW j \in Defined', NEW k \in Defined', defs'[j].name = defs'[k].name
                   PROVE  j = k
      BY DEF NamesIdentify
    <3>2. ~raced /\ "name" \notin req[q].stale
      BY <2>1, <3>1
    <3>3. \A l \in Defined \ {i} : defs[l].name # d.name
      BY <1>0, <2>3, <3>2 DEF Holds, HasName, i
    <3> QED
      BY <2>1, <2>4, <2>5, <3>1, <3>2, <3>3 DEF IInv, NamesIdentify, Defined
  <2>10. KeyIsColumn'
    BY <1>0, <2>1, <2>3, <2>4, <2>5 DEF IInv, KeyIsColumn, Defined
  <2>11. /\ groups' \in SUBSET Groups /\ raced' \in BOOLEAN /\ mixed' \in SUBSET Ids
         /\ made' \in 0..MaxRequests /\ nextId' \in 1..MaxDefs + 1 /\ nextId <= nextId'
         /\ UNCHANGED <<live, alters, faults>>
    BY <1>0, <2>1 DEF IInv, TypeOK
  <2> QED
    BY <2>1, <2>4, <2>7, <2>8, <2>9, <2>10, <2>11, IdleTyped, IdleHoldsNext, WriteStep
<1> QED
  BY <1>1, <1>2

\* A resync brings columns that have the key it read, which is the key there is
\* unless somebody wrote since.
LEMMA ReplaceColumnsKeeps ==
  ASSUME IInv, NEW q \in Requests, ReplaceColumns(q)
  PROVE  IInv'
<1> DEFINE i == req[q].def
<1>0. /\ req[q] \in Request /\ Holds(req[q]) /\ nextId \in 1..MaxDefs + 1 /\ MaxDefs \in Nat
      /\ req \in [Requests -> Request] /\ defs \in [Ids -> Def \cup {Absent}]
      /\ req[q].pc = "replace"
      /\ UNCHANGED <<nextId, groups, live, raced, made, alters, faults>>
  BY TableDefsAssumption DEF IInv, TypeOK, ReplaceColumns
<1>1. CASE i \notin Defined
  <2>1. Reply(q) /\ UNCHANGED <<defs, mixed>>
    BY <1>0, <1>1 DEF ReplaceColumns
  <2> QED
    BY <1>0, <2>1, ReplyKeeps DEF catalogue, history
<1>2. CASE i \in Defined
  <2>1. /\ i \in Ids /\ defs[i] \in Def /\ Written(q, Idle)
        /\ defs' = [defs EXCEPT ![i].cols = req[q].cols, ![i].fk = req[q].fk]
        /\ mixed' = IF "definition" \in req[q].stale THEN mixed \cup {i} ELSE mixed
    BY <1>0, <1>2 DEF ReplaceColumns, Defined
  <2>2. /\ req[q].cols \in SUBSET Cols /\ req[q].fk \in Ids \cup {None} /\ req[q].fk < nextId
        /\ req[q].key \in req[q].cols
        /\ "definition" \notin req[q].stale => defs[i].key = req[q].key
    BY <1>0, TableDefsAssumption DEF Request, Holds, HasParts, HasKey, None, Ids
  <2> HIDE DEF i
  <2>3. /\ defs'[i] \in Def /\ defs'[i].cols = req[q].cols /\ defs'[i].fk = req[q].fk
        /\ defs'[i].name = defs[i].name /\ defs'[i].key = defs[i].key
        /\ defs'[i].group = defs[i].group
        /\ \A j \in Ids : j # i => defs'[j] = defs[j]
        /\ defs' \in [Ids -> Def \cup {Absent}]
    <3> DEFINE d == [defs[i] EXCEPT !.cols = req[q].cols, !.fk = req[q].fk]
    <3>1. d \in Def /\ d.cols = req[q].cols /\ d.fk = req[q].fk /\ d.name = defs[i].name
          /\ d.key = defs[i].key /\ d.group = defs[i].group
      BY <2>1, <2>2 DEF Def
    <3>2. defs' = [defs EXCEPT ![i] = d]
      BY <1>0, <2>1
    <3> HIDE DEF d
    <3> QED
      BY <1>0, <2>1, <3>1, <3>2
  <2>5. Defined' = Defined
    BY <1>2, <2>1, <2>3, AbsentIsNone DEF Defined
  <2>7. (\A j \in Defined : j < nextId /\ defs[j].group \in groups \cup {None})'
    <3>1. ASSUME NEW j \in Defined' PROVE j < nextId' /\ defs'[j].group \in groups' \cup {None}
      BY <1>0, <1>2, <2>3, <2>5 DEF IInv, TypeOK, Defined
    <3> QED
      BY <3>1
  <2>8. FkInv'
    <3>1. ASSUME NEW j \in Ids PROVE defs'[j].fk < nextId'
      BY <1>0, <2>2, <2>3 DEF IInv, FkInv
    <3> QED
      BY <3>1 DEF FkInv
  <2>9. NamesIdentify'
    <3>1. \A j \in Defined : defs'[j].name = defs[j].name
      BY <2>3 DEF Defined
    <3> QED
      BY <1>0, <2>5, <3>1 DEF IInv, NamesIdentify
  <2>10. KeyIsColumn'
    <3>1. ASSUME NEW j \in Defined PROVE defs'[j].key \in defs'[j].cols \/ j \in mixed'
      BY <2>1, <2>2, <2>3 DEF IInv, KeyIsColumn, Defined
    <3> QED
      BY <2>5, <3>1 DEF KeyIsColumn
  <2>11. /\ groups' \in SUBSET Groups /\ raced' \in BOOLEAN /\ mixed' \in SUBSET Ids
         /\ made' \in 0..MaxRequests /\ nextId' \in 1..MaxDefs + 1 /\ nextId <= nextId'
         /\ UNCHANGED <<live, alters, faults>>
    BY <1>0, <2>1 DEF IInv, TypeOK
  <2> QED
    BY <2>1, <2>3, <2>7, <2>8, <2>9, <2>10, <2>11, IdleTyped, IdleHoldsNext, WriteStep
<1> QED
  BY <1>1, <1>2

\* What is left of the definitions is as it was; a deleted one's id stays given out.
LEMMA DeleteTableDefKeeps ==
  ASSUME IInv, NEW q \in Requests, DeleteTableDef(q)
  PROVE  IInv'
<1>0. /\ nextId \in 1..MaxDefs + 1 /\ MaxDefs \in Nat /\ made \in 0..MaxRequests /\ MaxRequests \in Nat
      /\ req \in [Requests -> Request] /\ defs \in [Ids -> Def \cup {Absent}]
      /\ made < MaxRequests /\ made' = made + 1 /\ Written(q, Idle)
      /\ UNCHANGED <<nextId, groups, live, raced, alters, faults>>
  BY TableDefsAssumption DEF IInv, TypeOK, DeleteTableDef
<1>1. PICK i \in Defined : defs' = [defs EXCEPT ![i] = Absent] /\ mixed' = mixed \ {i}
  BY DEF DeleteTableDef
<1>2. /\ i \in Ids /\ defs'[i] = Absent /\ defs' \in [Ids -> Def \cup {Absent}]
      /\ \A j \in Ids : j # i => defs'[j] = defs[j]
  BY <1>0, <1>1 DEF Defined
<1>3. Defined' = Defined \ {i}
  BY <1>2 DEF Defined
<1>4. (\A j \in Defined : j < nextId /\ defs[j].group \in groups \cup {None})'
  <2>1. ASSUME NEW j \in Defined' PROVE j < nextId' /\ defs'[j].group \in groups' \cup {None}
    BY <1>0, <1>2, <1>3 DEF IInv, TypeOK, Defined
  <2> QED
    BY <2>1
<1>5. FkInv'
  <2>1. ASSUME NEW j \in Ids PROVE defs'[j].fk < nextId'
    <3>1. CASE j = i
      BY <1>0, <1>2, <3>1, AbsentIsNone DEF None
    <3>2. CASE j # i
      BY <1>0, <1>2, <3>2 DEF IInv, FkInv
    <3> QED
      BY <3>1, <3>2
  <2> QED
    BY <2>1 DEF FkInv
<1>6. NamesIdentify'
  <2>1. \A j \in Defined' : j \in Defined /\ defs'[j] = defs[j]
    BY <1>2, <1>3 DEF Defined
  <2> QED
    BY <1>0, <2>1 DEF IInv, NamesIdentify
<1>7. KeyIsColumn'
  <2>1. \A j \in Defined' : j \in Defined /\ defs'[j] = defs[j] /\ (j \in mixed => j \in mixed')
    BY <1>1, <1>2, <1>3 DEF Defined
  <2> QED
    BY <2>1 DEF IInv, KeyIsColumn
<1>8. /\ groups' \in SUBSET Groups /\ raced' \in BOOLEAN /\ mixed' \in SUBSET Ids
      /\ made' \in 0..MaxRequests /\ nextId' \in 1..MaxDefs + 1 /\ nextId <= nextId'
      /\ UNCHANGED <<live, alters, faults>>
  BY <1>0, <1>1 DEF IInv, TypeOK
<1> QED
  BY <1>0, <1>2, <1>4, <1>5, <1>6, <1>7, <1>8, IdleTyped, IdleHoldsNext, WriteStep

\* A table is put into a group there is.
LEMMA SetTableGroupKeeps ==
  ASSUME IInv, NEW q \in Requests, SetTableGroup(q)
  PROVE  IInv'
<1>0. /\ nextId \in 1..MaxDefs + 1 /\ MaxDefs \in Nat /\ made \in 0..MaxRequests /\ MaxRequests \in Nat
      /\ req \in [Requests -> Request] /\ defs \in [Ids -> Def \cup {Absent}]
      /\ made < MaxRequests /\ made' = made + 1 /\ Written(q, Idle) /\ groups \in SUBSET Groups
      /\ UNCHANGED <<nextId, groups, live, history, alters, faults>>
  BY TableDefsAssumption DEF IInv, TypeOK, SetTableGroup
<1>1. PICK i \in Defined, g \in groups \cup {None} : defs' = [defs EXCEPT ![i].group = g]
  BY DEF SetTableGroup
<1>2. i \in Ids /\ defs[i] \in Def
  BY <1>0 DEF Defined
<1>3. /\ defs'[i] \in Def /\ defs'[i].group = g /\ defs' \in [Ids -> Def \cup {Absent}]
      /\ \A j \in Ids : j # i => defs'[j] = defs[j]
      /\ \A j \in Ids : /\ defs'[j].name = defs[j].name /\ defs'[j].cols = defs[j].cols
                        /\ defs'[j].key = defs[j].key /\ defs'[j].fk = defs[j].fk
  <2> DEFINE d == [defs[i] EXCEPT !.group = g]
  <2>1. d \in Def /\ d.group = g /\ d.name = defs[i].name /\ d.cols = defs[i].cols
        /\ d.key = defs[i].key /\ d.fk = defs[i].fk
    BY <1>0, <1>2 DEF Def
  <2>2. defs' = [defs EXCEPT ![i] = d]
    BY <1>0, <1>1
  <2> HIDE DEF d
  <2> QED
    BY <1>0, <1>2, <2>1, <2>2
<1>4. Defined' = Defined
  BY <1>2, <1>3, AbsentIsNone DEF Defined
<1>5. (\A j \in Defined : j < nextId /\ defs[j].group \in groups \cup {None})'
  <2>1. ASSUME NEW j \in Defined' PROVE j < nextId' /\ defs'[j].group \in groups' \cup {None}
    BY <1>0, <1>3, <1>4 DEF IInv, TypeOK, Defined
  <2> QED
    BY <2>1
<1>6. FkInv' /\ NamesIdentify' /\ KeyIsColumn'
  <2>1. \A j \in Defined : j \in Ids
    BY DEF Defined
  <2> QED
    BY <1>0, <1>3, <1>4, <2>1 DEF IInv, FkInv, NamesIdentify, KeyIsColumn, history
<1>7. /\ groups' \in SUBSET Groups /\ raced' \in BOOLEAN /\ mixed' \in SUBSET Ids
      /\ made' \in 0..MaxRequests /\ nextId' \in 1..MaxDefs + 1 /\ nextId <= nextId'
      /\ UNCHANGED <<live, alters, faults>>
  BY <1>0 DEF IInv, TypeOK, history
<1> QED
  BY <1>0, <1>3, <1>5, <1>6, <1>7, IdleTyped, IdleHoldsNext, WriteStep

\* Taking the tables out of a group, before it is deleted or with its deletion.
LEMMA UngroupedKeeps ==
  ASSUME IInv, NEW q \in Requests, NEW g \in Groups, NEW r \in Request, Holds(r)', Written(q, r),
         defs' = [i \in Ids |-> IF defs[i].group = g THEN [defs[i] EXCEPT !.group = None] ELSE defs[i]],
         groups' \in {groups, groups \ {g}}, made' \in 0..MaxRequests,
         UNCHANGED <<nextId, live, history, alters, faults>>
  PROVE  IInv'
<1>1. /\ defs' \in [Ids -> Def \cup {Absent}]
      /\ \A i \in Ids :
           /\ defs'[i].name = defs[i].name /\ defs'[i].cols = defs[i].cols
           /\ defs'[i].key = defs[i].key /\ defs'[i].fk = defs[i].fk
           /\ defs'[i].group = (IF defs[i].group = g THEN None ELSE defs[i].group)
           /\ (defs'[i] = Absent) <=> (defs[i] = Absent)
  BY Ungrouped DEF IInv
<1>2. Defined' = Defined
  BY <1>1 DEF Defined
<1>3. (\A j \in Defined : j < nextId /\ defs[j].group \in groups \cup {None})'
  <2>1. ASSUME NEW j \in Defined' PROVE j < nextId' /\ defs'[j].group \in groups' \cup {None}
    BY <1>1, <1>2 DEF IInv, TypeOK, Defined
  <2> QED
    BY <2>1
<1>4. FkInv' /\ NamesIdentify' /\ KeyIsColumn'
  <2>1. \A j \in Defined : j \in Ids
    BY DEF Defined
  <2> QED
    BY <1>1, <1>2, <2>1 DEF IInv, FkInv, NamesIdentify, KeyIsColumn, history
<1>5. /\ groups' \in SUBSET Groups /\ raced' \in BOOLEAN /\ mixed' \in SUBSET Ids
      /\ nextId' \in 1..MaxDefs + 1 /\ nextId <= nextId' /\ UNCHANGED <<live, alters, faults>>
  BY TableDefsAssumption DEF IInv, TypeOK, history
<1> QED
  BY <1>1, <1>3, <1>4, <1>5, WriteStep

LEMMA UngroupKeeps ==
  ASSUME IInv, NEW q \in Requests, Ungroup(q)
  PROVE  IInv'
<1>1. PICK g \in groups :
        /\ made < MaxRequests /\ made' = made + 1
        /\ defs' = [i \in Ids |-> IF defs[i].group = g THEN [defs[i] EXCEPT !.group = None] ELSE defs[i]]
        /\ Written(q, [Idle EXCEPT !.pc = "drop", !.group = g])
        /\ UNCHANGED <<nextId, groups, live, history, alters, faults>>
  BY DEF Ungroup
<1> DEFINE r == [Idle EXCEPT !.pc = "drop", !.group = g]
<1>2. g \in Groups /\ made' \in 0..MaxRequests /\ nextId \in 1..MaxDefs + 1
  BY <1>1, TableDefsAssumption DEF IInv, TypeOK
<1>3. r \in Request /\ Holds(r)'
  <2>1. /\ r \in Request /\ r.pc = "drop" /\ r.def = None /\ r.fk = None /\ r.group = g /\ r.stale = {}
    BY <1>2, IdleTyped DEF Request, Idle
  <2> QED
    BY <1>1, <1>2, <2>1 DEF Holds, HasParts, HasGroup, HasName, HasKey, None, Ids
<1> HIDE DEF r
<1> QED
  BY <1>1, <1>2, <1>3, UngroupedKeeps DEF r

LEMMA DropGroupKeeps ==
  ASSUME IInv, NEW q \in Requests, DropGroup(q)
  PROVE  IInv'
<1> DEFINE g == req[q].group
<1>1. g \in Groups
  BY DEF IInv, DropGroup, Holds, HasParts
<1>2. /\ groups' = groups \ {g}
      /\ defs' = [i \in Ids |-> IF defs[i].group = g THEN [defs[i] EXCEPT !.group = None] ELSE defs[i]]
      /\ Written(q, Idle) /\ made' \in 0..MaxRequests
      /\ UNCHANGED <<nextId, live, history, alters, faults>>
  BY DEF DropGroup, IInv, TypeOK
<1> HIDE DEF g
<1> QED
  BY <1>1, <1>2, IdleTyped, IdleHoldsNext, UngroupedKeeps

\* The live schema may change under every request.
LEMMA AlterTableKeeps ==
  ASSUME IInv, AlterTable
  PROVE  IInv'
<1>1. /\ alters < MaxAlters /\ alters' = alters + 1
      /\ UNCHANGED <<catalogue, groups, req, history, made, faults>>
  BY DEF AlterTable
<1>2. live' \in [Names -> SUBSET Cols]
  BY DEF AlterTable, IInv, TypeOK
<1>3. alters' \in 0..MaxAlters
  BY <1>1, TableDefsAssumption DEF IInv, TypeOK
<1>4. TypeOK'
  BY <1>1, <1>2, <1>3 DEF IInv, TypeOK, Defined, catalogue, history
<1>5. FkInv' /\ NamesIdentify' /\ KeyIsColumn'
  BY <1>1 DEF IInv, FkInv, NamesIdentify, KeyIsColumn, Defined, catalogue, history
<1>6. ASSUME NEW p \in Requests PROVE Holds(req[p])'
  BY <1>1 DEF IInv, Holds, HasParts, HasGroup, HasName, HasKey, Defined, catalogue
<1> QED
  BY <1>4, <1>5, <1>6 DEF IInv

\* Every step, and every stutter, keeps the invariant.
LEMMA IInvStep == IInv /\ [Next]_vars => IInv'
<1> SUFFICES ASSUME IInv, [Next]_vars PROVE IInv'
  OBVIOUS
<1>1. ASSUME NEW q \in Requests,
             Create(q) \/ Update(q) \/ DeleteTableDef(q) \/ Resync(q)
             \/ SetTableGroup(q) \/ Ungroup(q) \/ Step(q)
      PROVE  IInv'
  BY <1>1, ReadsKeep, SaveTableDefKeeps, UpdateTableDefKeeps, ReplaceColumnsKeeps, DeleteTableDefKeeps,
     SetTableGroupKeeps, UngroupKeeps, DropGroupKeeps DEF Step
<1>2. CASE AlterTable
  BY <1>2, AlterTableKeeps
<1>3. CASE UNCHANGED vars
  <2>1. TypeOK' /\ FkInv' /\ NamesIdentify' /\ KeyIsColumn'
    BY <1>3 DEF IInv, TypeOK, FkInv, NamesIdentify, KeyIsColumn, Defined, vars, catalogue, history
  <2>2. ASSUME NEW p \in Requests PROVE Holds(req[p])'
    BY <1>3 DEF IInv, Holds, HasParts, HasGroup, HasName, HasKey, Defined, vars, catalogue
  <2> QED
    BY <2>1, <2>2 DEF IInv
<1> QED
  BY <1>1, <1>2, <1>3 DEF Next
-----------------------------------------------------------------------------
(* The theorems.                                                           *)

\* The inductive invariant holds throughout.
THEOREM Invariant == Spec => []IInv
BY IInvInit, IInvStep, PTL DEF Spec

\* Every definition, request and group is of its type, ids are only those given
\* out, and a table's group is one there is.
THEOREM TypeCorrect == Spec => []TypeOK
<1>1. IInv => TypeOK
  BY DEF IInv
<1> QED
  BY <1>1, Invariant, PTL

\* The name in /api/data/{name} identifies a definition, as long as no save
\* followed a check that another request's write had made out of date.
THEOREM NamesIdentifyHolds == Spec => []NamesIdentify
<1>1. IInv => NamesIdentify
  BY DEF IInv
<1> QED
  BY <1>1, Invariant, PTL

\* However edits, resyncs and changes of the schema follow each other, a
\* definition has its key among its columns, but for the ones a late resync mixed.
THEOREM KeyIsColumnHolds == Spec => []KeyIsColumn
<1>1. IInv => KeyIsColumn
  BY DEF IInv
<1> QED
  BY <1>1, Invariant, PTL

\* An edit nobody wrote between leaves the table in the group it was in.
THEOREM EditKeepsGroupHolds == Spec => EditKeepsGroup
<1> DEFINE A == \A q \in Requests :
                  LET i == req[q].def IN
                  req[q].pc = "save" /\ i \in Defined /\ "definition" \notin req[q].stale /\ req'[q].pc = "idle"
                  => defs'[i].group = defs[i].group
<1>1. IInv /\ [Next]_vars => [A]_vars
  <2> SUFFICES ASSUME IInv, Next PROVE A
    BY DEF vars
  <2> SUFFICES ASSUME NEW q \in Requests, req[q].pc = "save", req[q].def \in Defined,
                      "definition" \notin req[q].stale, req'[q].pc = "idle"
               PROVE  defs'[req[q].def].group = defs[req[q].def].group
    OBVIOUS
  <2> DEFINE i == req[q].def
  <2>1. /\ i \in Ids /\ i # None /\ defs[i].group = req[q].group /\ req[q].name \in Names
        /\ req \in [Requests -> Request] /\ defs \in [Ids -> Def \cup {Absent}] /\ Idle.pc = "idle"
    BY DEF IInv, TypeOK, Defined, Holds, HasGroup, HasParts, Ids, None, Idle
  <2>2. \A p \in Requests, r \in Request : p # q /\ (Goto(p, r) \/ Written(p, r)) => req'[q].pc = "save"
    BY <2>1, GoneTo, WrittenBy DEF Goto
  <2>3. CASE UNCHANGED defs
    BY <2>3
  <2>4. CASE UpdateTableDef(q)
    <3>1. ASSUME NEW d \in Saved(q, i), defs' = [defs EXCEPT ![i] = d] PROVE defs'[i].group = defs[i].group
      BY <2>1, <3>1, SavedTyped
    <3> QED
      BY <2>1, <2>3, <2>4, <3>1 DEF UpdateTableDef
  <2>5. ASSUME NEW p \in Requests, p # q, Written(p, Idle) PROVE FALSE
    BY <2>2, <2>5, IdleTyped
  <2>6. ASSUME NEW p \in Requests, Ungroup(p) PROVE FALSE
    <3>1. PICK g \in groups : req[p].pc = "idle" /\ Written(p, [Idle EXCEPT !.pc = "drop", !.group = g])
      BY <2>6 DEF Ungroup
    <3>2. g \in Groups
      BY DEF IInv, TypeOK
    <3>3. [Idle EXCEPT !.pc = "drop", !.group = g] \in Request
      BY <3>2, IdleTyped DEF Request
    <3> QED
      BY <2>2, <3>1, <3>3
  <2>7. ASSUME NEW p \in Requests, SaveTableDef(p) \/ UpdateTableDef(p) \/ DeleteTableDef(p) \/ SetTableGroup(p)
                                   \/ ReplaceColumns(p) \/ DropGroup(p)
        PROVE  UNCHANGED defs \/ UpdateTableDef(q)
    <3>1. CASE p = q
      BY <2>1, <2>7, <3>1 DEF SaveTableDef, DeleteTableDef, SetTableGroup, ReplaceColumns, DropGroup
    <3>2. CASE p # q
      <4>1. ~Written(p, Idle)
        BY <2>5, <3>2
      <4>2. SaveTableDef(p) => UNCHANGED defs
        BY <4>1 DEF SaveTableDef, catalogue
      <4>3. UpdateTableDef(p) => UNCHANGED defs
        BY <4>1 DEF UpdateTableDef
      <4>4. ReplaceColumns(p) => UNCHANGED defs
        BY <4>1 DEF ReplaceColumns
      <4>5. ~DeleteTableDef(p) /\ ~SetTableGroup(p) /\ ~DropGroup(p)
        BY <4>1 DEF DeleteTableDef, SetTableGroup, DropGroup
      <4> QED
        BY <2>7, <4>2, <4>3, <4>4, <4>5
    <3> QED
      BY <3>1, <3>2
  <2>8. ASSUME NEW p \in Requests, Create(p) \/ Update(p) \/ Resync(p) \/ KeepGroup(p) \/ Validate(p)
                                   \/ CheckName(p) \/ Inspect(p)
        PROVE  UNCHANGED defs
    BY <2>8 DEF Create, Update, Resync, KeepGroup, Validate, CheckName, Inspect, catalogue
  <2>9. CASE AlterTable
    BY <2>9 DEF AlterTable, catalogue
  <2> QED
    BY <2>3, <2>4, <2>6, <2>7, <2>8, <2>9 DEF Next, Step
<1> QED
  BY <1>1, Invariant, PTL DEF Spec, EditKeepsGroup

\* A reference whose definition was deleted is never taken up by a later definition:
\* a new id is above every reference there is.
THEOREM DanglingStaysDanglingHolds == Spec => DanglingStaysDangling
<1> DEFINE A == \A i \in Defined :
                  defs[i].fk # None /\ defs[i].fk \notin Defined /\ defs'[i].fk = defs[i].fk
                  => defs[defs[i].fk]' = Absent
<1>1. IInv /\ [Next]_vars => [A]_vars
  <2> SUFFICES ASSUME IInv, Next,
                      NEW i \in Defined, defs[i].fk # None, defs[i].fk \notin Defined, defs'[i].fk = defs[i].fk
               PROVE  defs'[defs[i].fk] = Absent
    BY DEF vars
  <2> DEFINE k == defs[i].fk
  <2>1. k \in Ids /\ k < nextId /\ defs[k] = Absent
    <3>1. defs[i] \in Def /\ i \in Ids
      BY DEF IInv, TypeOK, Defined
    <3> QED
      BY <3>1 DEF Def, IInv, FkInv, Defined
  <2> HIDE DEF k
  <2>2. /\ defs \in [Ids -> Def \cup {Absent}] /\ nextId \in Nat
        /\ \A j \in Defined : j # k
    BY <2>1, TableDefsAssumption DEF IInv, TypeOK, Defined
  <2>3. ASSUME NEW j \in Ids, NEW d, j # k, defs' = [defs EXCEPT ![j] = d] PROVE defs'[k] = Absent
    BY <2>1, <2>2, <2>3
  <2>4. ASSUME UNCHANGED defs PROVE defs'[k] = Absent
    BY <2>1, <2>4
  <2>5. ASSUME NEW q \in Requests,
               SaveTableDef(q) \/ UpdateTableDef(q) \/ DeleteTableDef(q) \/ SetTableGroup(q) \/ ReplaceColumns(q)
        PROVE  defs'[k] = Absent
    <3>1. CASE SaveTableDef(q)
      <4>1. nextId <= MaxDefs => nextId \in Ids
        BY TableDefsAssumption DEF IInv, TypeOK, Ids
      <4> QED
        BY <2>1, <2>2, <2>3, <2>4, <3>1, <4>1 DEF SaveTableDef, NewId, catalogue
    <3>2. CASE UpdateTableDef(q)
      BY <2>2, <2>3, <2>4, <3>2 DEF UpdateTableDef, Defined
    <3>3. CASE DeleteTableDef(q)
      BY <2>2, <2>3, <3>3 DEF DeleteTableDef, Defined
    <3>4. CASE SetTableGroup(q)
      BY <2>1, <2>2, <3>4 DEF SetTableGroup, Defined
    <3>5. CASE ReplaceColumns(q)
      BY <2>1, <2>2, <2>4, <3>5 DEF ReplaceColumns, Defined
    <3> QED
      BY <2>5, <3>1, <3>2, <3>3, <3>4, <3>5
  <2>6. ASSUME NEW q \in Requests, Ungroup(q) \/ DropGroup(q) PROVE defs'[k] = Absent
    <3>1. PICK g \in Groups :
            defs' = [j \in Ids |-> IF defs[j].group = g THEN [defs[j] EXCEPT !.group = None] ELSE defs[j]]
      BY <2>6 DEF Ungroup, DropGroup, IInv, TypeOK, Holds, HasParts
    <3> QED
      BY <2>1, <3>1, AbsentIsNone, TableDefsAssumption DEF None
  <2>7. ASSUME NEW q \in Requests, Create(q) \/ Update(q) \/ Resync(q) \/ KeepGroup(q) \/ Validate(q)
                                   \/ CheckName(q) \/ Inspect(q)
        PROVE  UNCHANGED defs
    BY <2>7 DEF Create, Update, Resync, KeepGroup, Validate, CheckName, Inspect, catalogue
  <2>8. ASSUME AlterTable PROVE UNCHANGED defs
    BY <2>8 DEF AlterTable, catalogue
  <2> QED
    BY <2>4, <2>5, <2>6, <2>7, <2>8 DEF Next, Step, k
<1> QED
  BY <1>1, Invariant, PTL DEF Spec, DanglingStaysDangling
==============================================================================
