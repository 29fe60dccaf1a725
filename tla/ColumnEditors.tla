--------------------------- MODULE ColumnEditors ---------------------------
(***************************************************************************)
(* The column cards of a definition that is being edited                   *)
(* (components/ColumnListEditor.tsx): a column's type, the target of an fk *)
(* column with its reference and display columns, computed columns, and    *)
(* the many-to-many relations with their junction.  A choice clears those  *)
(* that depend on it.  What is sent is compared with what the server's     *)
(* checks of fk and m2m columns accept (internal/api/tables.go).           *)
(* Column names are tuples of strings; generated ones keep their parts.    *)
(***************************************************************************)
EXTENDS Browser, FiniteSets, Sequences, SequencesExt, Ordered

CONSTANTS
  This,          \* the definition that is edited
  Others,        \* the other definitions
  Stored,        \* names of the columns it was stored with
  ColumnNames,   \* names of the columns of each other definition
  Refers,        \* of each other definition, its fk columns and what they refer to
  MaxEdits       \* bound: edits of the form

Self == "self"

ASSUME ColumnEditorsAssumption ==
  /\ This \notin Others /\ Self \notin Others \cup {This}
  /\ Nothing \notin Others \cup {Self, This} /\ Nothing \notin Stored /\ IsFiniteSet(Stored)
  /\ DOMAIN ColumnNames = Others /\ DOMAIN Refers = Others
  /\ \A d \in Others : /\ DOMAIN Refers[d] \subseteq ColumnNames[d]
                       /\ \A n \in DOMAIN Refers[d] : Refers[d][n] \in Others \cup {This}
  /\ MaxEdits \in Nat

VARIABLES
  cards,         \* the columns, in order
  keyNames,      \* the names ticked as keys
  edits,         \* how many edits there were
  vanished,      \* history: names that were removed or changed
  collided       \* history: two columns had the same name at some time

editorVars == <<cards, keyNames, edits, vanished, collided>>

Types == {"plain", "fk", "m2m"}   \* "plain" stands for the types with no dependent choice

NoFk == [table |-> Nothing, ref |-> Nothing, display |-> {}]
NoJunction == [junction |-> Nothing, src |-> Nothing, tgt |-> Nothing, display |-> {}]

PlainCard(n, computed) ==
  [name |-> n, type |-> "plain", computed |-> computed, fk |-> NoFk, m2m |-> NoJunction]

EditorInit ==
  /\ cards = SetToSeq({PlainCard(n, FALSE) : n \in Stored})
  /\ keyNames = {} /\ edits = 0 /\ vanished = {} /\ collided = FALSE
-----------------------------------------------------------------------------
NamesOf(cs) == {cs[i].name : i \in DOMAIN cs}
Position(i) == ToString(i)

Edit(cs) ==
  /\ edits < MaxEdits /\ edits' = edits + 1
  /\ cards' = cs
  /\ vanished' = vanished \cup (NamesOf(cards) \ NamesOf(cs))
  /\ collided' = (collided \/ Cardinality(NamesOf(cs)) < Len(cs))
  /\ UNCHANGED keyNames

SetCol(i, card) == Edit([cards EXCEPT ![i] = card])
-----------------------------------------------------------------------------
(* A column's card.                                                        *)

\* The list of types has no m2m; what an m2m column had chosen stays with it.
SetType(i, type) ==
  /\ type # cards[i].type /\ type # "m2m"
  /\ SetCol(i, [cards[i] EXCEPT !.type = type, !.fk = IF type = "fk" THEN @ ELSE NoFk])

ToggleKeyName(i) ==
  /\ edits < MaxEdits /\ edits' = edits + 1
  /\ LET n == cards[i].name IN
     keyNames' = IF n \in keyNames THEN keyNames \ {n} ELSE keyNames \cup {n}
  /\ UNCHANGED <<cards, vanished, collided>>

\* A formula is text; what counts is that the column exists.
AddComputed ==
  Edit(Append(cards, PlainCard(<<"computed", Position(Len(cards) + 1)>>, TRUE)))
-----------------------------------------------------------------------------
(* The target of an fk column.                                             *)

TargetColumns(d) ==
  IF d = Self THEN NamesOf(cards) ELSE IF d \in Others THEN ColumnNames[d] ELSE {}

Available(fk) == TargetColumns(fk.table) \ {fk.ref}

SetFk(i, fk) == cards[i].type = "fk" /\ SetCol(i, [cards[i] EXCEPT !.fk = fk])

\* Another datasource leaves no table chosen.
SetFkSource(i) == cards[i].fk # NoFk /\ SetFk(i, NoFk)

SetFkTable(i, d) ==
  /\ d # cards[i].fk.table
  /\ SetFk(i, [table |-> d, ref |-> Nothing, display |-> {}])

SetFkRef(i, n) ==
  /\ n # cards[i].fk.ref
  /\ SetFk(i, [cards[i].fk EXCEPT !.ref = n, !.display = {}])

SelectAllFk(i) ==
  /\ Available(cards[i].fk) # {}
  /\ SetFk(i, [cards[i].fk EXCEPT !.display = Available(cards[i].fk)])

ClearFk(i) ==
  /\ Available(cards[i].fk) # {}
  /\ SetFk(i, [cards[i].fk EXCEPT !.display = {}])

ToggleFkDisplay(i, n) ==
  SetFk(i, [cards[i].fk EXCEPT !.display = IF n \in @ THEN @ \ {n} ELSE @ \cup {n}])
-----------------------------------------------------------------------------
(* Many-to-many relations.                                                 *)

IsRelation(i) == cards[i].type = "m2m"

\* A relation's card changes the first relation that has its name, and of that one only
\* what the card sets.
FirstNamed(n) ==
  CHOOSE i \in DOMAIN cards : /\ IsRelation(i) /\ cards[i].name = n
                              /\ \A j \in 1..i-1 : ~(IsRelation(j) /\ cards[j].name = n)

Target(i) == cards[FirstNamed(cards[i].name)]

SetRel(i, card) == SetCol(FirstNamed(cards[i].name), card)

AddRel ==
  Edit(Append(cards, [PlainCard(<<"m2m", Position(Len(cards))>>, FALSE) EXCEPT !.type = "m2m"]))

\* All relations of the name go.
RemoveRel(i) ==
  /\ IsRelation(i)
  /\ Edit(AtPlaces(cards, {j \in DOMAIN cards : ~(IsRelation(j) /\ cards[j].name = cards[i].name)}))

Fks(d) == IF d \in Others THEN Refers[d] ELSE <<>>
SrcOptions(m) == {n \in DOMAIN Fks(m.junction) : Fks(m.junction)[n] = This}
TgtOptions(m) == DOMAIN Fks(m.junction) \ {m.src}
RelatedColumns(m) ==
  IF m.tgt \in DOMAIN Fks(m.junction)
  THEN LET d == Fks(m.junction)[m.tgt] IN IF d = This THEN Stored ELSE ColumnNames[d]
  ELSE {}

LongerName(i, d) == <<"m2m", d>> \o cards[i].name

\* Mutation: the fk columns of the last junction stay.
SetJunctionOnly(i, d) ==
  /\ IsRelation(i) /\ d # cards[i].m2m.junction
  /\ SetRel(i, [Target(i) EXCEPT !.name = LongerName(i, d), !.m2m.junction = d])

\* The name gets longer with each choice.
SetJunction(i, d) ==
  /\ IsRelation(i) /\ d # cards[i].m2m.junction
  /\ SetRel(i, [Target(i) EXCEPT !.name = LongerName(i, d),
                                 !.m2m = [NoJunction EXCEPT !.junction = d]])

SetSrc(i, n) ==
  /\ IsRelation(i) /\ n \in SrcOptions(cards[i].m2m) /\ n # cards[i].m2m.src
  /\ SetRel(i, [Target(i) EXCEPT !.m2m.src = n, !.m2m.tgt = Nothing, !.m2m.display = {}])

SetTgt(i, n) ==
  /\ IsRelation(i) /\ cards[i].m2m.src # Nothing
  /\ n \in TgtOptions(cards[i].m2m) /\ n # cards[i].m2m.tgt
  /\ SetRel(i, [Target(i) EXCEPT !.name = <<"m2m", cards[i].m2m.junction>> \o n,
                                 !.m2m.tgt = n, !.m2m.display = {}])

\* Select all, clear, or one button.
SetRelDisplay(i, S) ==
  /\ IsRelation(i) /\ cards[i].m2m.tgt # Nothing
  /\ \/ S \in {{}, RelatedColumns(cards[i].m2m)}
     \/ \E n \in RelatedColumns(cards[i].m2m) :
          S = IF n \in cards[i].m2m.display THEN cards[i].m2m.display \ {n}
              ELSE cards[i].m2m.display \cup {n}
  /\ SetRel(i, [Target(i) EXCEPT !.m2m.display = S])

EditorNext ==
  \/ AddComputed \/ AddRel
  \/ \E i \in DOMAIN cards :
       \/ ToggleKeyName(i) \/ SetFkSource(i) \/ SelectAllFk(i) \/ ClearFk(i) \/ RemoveRel(i)
       \/ \E type \in Types : SetType(i, type)
       \/ \E d \in Others \cup {Self} : SetFkTable(i, d)
       \/ \E n \in TargetColumns(cards[i].fk.table) : SetFkRef(i, n)
       \/ \E n \in Available(cards[i].fk) : ToggleFkDisplay(i, n)
       \/ \E d \in Others : SetJunction(i, d)
       \/ \E n \in SrcOptions(cards[i].m2m) : SetSrc(i, n)
       \/ \E n \in TgtOptions(cards[i].m2m) : SetTgt(i, n)
       \/ \E S \in SUBSET RelatedColumns(cards[i].m2m) : SetRelDisplay(i, S)

EditorSpec == EditorInit /\ [][EditorNext]_editorVars
-----------------------------------------------------------------------------
(* What is sent, and what the server's checks make of it.                  *)

\* Saving drops the choices that do not belong to a column's type.
SentCard(c) == [c EXCEPT !.fk = IF c.type = "fk" THEN @ ELSE NoFk,
                         !.m2m = IF c.type = "m2m" THEN @ ELSE NoJunction]
SentCards == {SentCard(cards[i]) : i \in DOMAIN cards}

FkComplete(fk) == fk.table # Nothing /\ fk.ref # Nothing /\ fk.display # {}
M2MComplete(m) == m.tgt # Nothing /\ m.display # {}

\* validateFK, for a column whose choices are made.
FkAccepted(c) ==
  IF c.type = "fk"
  THEN {c.fk.ref} \cup c.fk.display \subseteq
         IF c.fk.table = Self THEN NamesOf(cards) ELSE ColumnNames[c.fk.table]
  ELSE c.fk = NoFk

\* validateM2M and what it has the engine resolve.
M2MAccepted(c) ==
  IF c.type = "m2m"
  THEN /\ {c.m2m.src, c.m2m.tgt} \subseteq DOMAIN Refers[c.m2m.junction]
       /\ c.m2m.src # c.m2m.tgt /\ Refers[c.m2m.junction][c.m2m.src] = This
       /\ c.m2m.display \subseteq RelatedColumns(c.m2m)
  ELSE c.m2m = NoJunction
-----------------------------------------------------------------------------
EditorTypeOK ==
  /\ \A i \in DOMAIN cards :
       /\ cards[i].type \in Types /\ cards[i].computed \in BOOLEAN
       /\ cards[i].fk.table \in Others \cup {Self, Nothing}
       /\ cards[i].m2m.junction \in Others \cup {Nothing}
  /\ edits \in 0..MaxEdits /\ collided \in BOOLEAN

\* However the type, the target and its columns were chosen and chosen again, an fk
\* column that looks complete passes the server's check, and other columns carry
\* nothing of an fk; only a reference to a column of the form itself may dangle,
\* when that column was removed or renamed after it was chosen.  The same for the
\* relations, as long as no two columns ever had the same name: a relation's card
\* finds its column by name, and the generated names can collide.
ChoicesAccepted ==
  \A c \in SentCards :
    /\ c.type = "fk" /\ FkComplete(c.fk) => \/ FkAccepted(c)
                                            \/ /\ c.fk.table = Self
                                               /\ ({c.fk.ref} \cup c.fk.display) \cap vanished # {}
    /\ c.fk.ref \notin c.fk.display
    /\ c.type # "fk" => FkAccepted(c)
    /\ ~collided => /\ c.type = "m2m" /\ M2MComplete(c.m2m) => M2MAccepted(c)
                    /\ c.type # "m2m" => M2MAccepted(c)
=============================================================================
