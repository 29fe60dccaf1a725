---------------------------- MODULE DisplayOrder ----------------------------
(***************************************************************************)
(* The two lists administrators put in order: the sidebar's table groups   *)
(* (internal/meta/groups.go) and the dashboard's cards (internal/meta/     *)
(* statcards.go).  Both are read ORDER BY position, id; an item is added   *)
(* at the end and moved one place up or down.  A move lists the items and  *)
(* then writes two positions, in three statements that other requests may  *)
(* come between.  A behaviour is about one of the lists.                   *)
(***************************************************************************)
EXTENDS Naturals, FiniteSets

CONSTANTS
  Requests,      \* administrators' requests in progress at a time
  MaxItems,      \* bound: items ever added
  MaxFaults      \* bound: statements that fail

ASSUME DisplayOrderAssumption == MaxItems \in Nat /\ MaxFaults \in Nat

VARIABLES
  list,          \* "groups" or "cards"
  items, pos,    \* the items there are, and their position column
  nextId,        \* the AUTOINCREMENT sequence
  req,           \* the requests' progress
  faults

vars == <<list, items, pos, nextId, req, faults>>

Ids == 1..MaxItems
NoItem == 0

Precedes(i, j) == pos[i] < pos[j] \/ (pos[i] = pos[j] /\ i < j)
Order == {p \in items \X items : Precedes(p[1], p[2])}
Index(i) == Cardinality({j \in items : Precedes(j, i)})
Adjacent(i, j) == Index(j) = Index(i) + 1 \/ Index(i) = Index(j) + 1

\* Positions as a list that never lost or shared one has them.
Distinct == \A i, j \in items : i # j => pos[i] # pos[j]
Dense == \A i \in items : pos[i] = Index(i)

Request == [pc : {"idle", "insert", "first", "second", "added", "moved"},
            item : Ids \cup {NoItem}, other : Ids \cup {NoItem},
            at : Nat, otherAt : Nat,               \* the positions to write
            alone : BOOLEAN,                       \* no request or fault came between
            was : SUBSET (Ids \X Ids),             \* the order it began with,
            dense : BOOLEAN, distinct : BOOLEAN]   \* and its positions

Idle == [pc |-> "idle", item |-> NoItem, other |-> NoItem, at |-> 0, otherAt |-> 0,
         alone |-> FALSE, was |-> {}, dense |-> FALSE, distinct |-> FALSE]

Init ==
  /\ list \in {"groups", "cards"}
  /\ items = {} /\ pos = [i \in Ids |-> 0] /\ nextId = 1
  /\ req = [q \in Requests |-> Idle] /\ faults = 0

Fault == faults < MaxFaults /\ faults' = faults + 1

\* Request q goes on as r; the others, if disturbed, are no longer alone.
Become(q, r, disturbed) ==
  req' = [p \in Requests |->
            IF p = q THEN r
            ELSE IF disturbed THEN [req[p] EXCEPT !.alone = FALSE] ELSE req[p]]

Busy == \E p \in Requests : req[p].pc # "idle"

Begun(r) ==
  [r EXCEPT !.alone = ~Busy, !.was = IF Busy THEN {} ELSE Order,
            !.dense = ~Busy /\ Dense, !.distinct = ~Busy /\ Distinct]
-----------------------------------------------------------------------------
\* Mutation: the INSERT leaves the position to the column's default.
DefaultPosition == 0

\* COALESCE(MAX(position), -1) + 1, or MAX(position) + 1 with NULL read as 0.
NextPosition ==
  IF items = {} THEN IF list = "groups" THEN 0 ELSE 1
  ELSE 1 + CHOOSE n \in {pos[i] : i \in items} : \A i \in items : pos[i] <= n

\* CreateGroup ignores an error of the query, and goes on with 0 + 1.
Create(q) ==
  /\ req[q].pc = "idle"
  /\ \/ /\ Become(q, Begun([Idle EXCEPT !.pc = "insert", !.at = NextPosition]), TRUE)
        /\ UNCHANGED faults
     \/ /\ list = "groups" /\ Fault
        /\ Become(q, [Idle EXCEPT !.pc = "insert", !.at = 1], TRUE)
  /\ UNCHANGED <<list, items, pos, nextId>>

Insert(q) ==
  /\ req[q].pc = "insert"
  /\ \/ /\ nextId <= MaxItems
        /\ items' = items \cup {nextId} /\ pos' = [pos EXCEPT ![nextId] = req[q].at]
        /\ nextId' = nextId + 1
        /\ Become(q, [req[q] EXCEPT !.pc = "added", !.item = nextId], FALSE)
     \/ /\ Become(q, Idle, FALSE)               \* the name is taken, or the bound is reached
        /\ list = "groups" \/ nextId > MaxItems
        /\ UNCHANGED <<items, pos, nextId>>
  /\ UNCHANGED <<list, faults>>

\* The position column of an item that is gone means nothing.
Delete(i) ==
  /\ i \in items
  /\ items' = items \ {i} /\ pos' = [pos EXCEPT ![i] = 0]
  /\ req' = [p \in Requests |-> [req[p] EXCEPT !.alone = FALSE]]
  /\ UNCHANGED <<list, nextId, faults>>

\* Mutation: the neighbour gets the position that was just written.
SwapAfterWrite(i, j) == [i |-> pos[j], j |-> pos[j]]

\* What a move of i past its neighbour j writes: MoveGroup each other's index
\* in the list, MoveStatCard each other's position.
Swapped(i, j) ==
  IF list = "groups" THEN [i |-> Index(j), j |-> Index(i)] ELSE [i |-> pos[j], j |-> pos[i]]

\* The items are listed; a move past either end is answered, and writes nothing.
Move(q) ==
  /\ req[q].pc = "idle"
  /\ \E i, j \in items :
       /\ Adjacent(i, j)
       /\ Become(q, Begun([Idle EXCEPT !.pc = "first", !.item = i, !.other = j,
                                       !.at = Swapped(i, j).i, !.otherAt = Swapped(i, j).j]), TRUE)
  /\ UNCHANGED <<list, items, pos, nextId, faults>>

\* Mutation: the row is written whether it is there or not.
PlacedAnyway(i, n) == [pos EXCEPT ![i] = n]

\* UPDATE ... SET position=n WHERE id=i
Placed(i, n) == IF i \in items THEN [pos EXCEPT ![i] = n] ELSE pos

\* MoveGroup ignores an error and goes on, MoveStatCard gives up.
PlaceFirst(q) ==
  /\ req[q].pc = "first"
  /\ \/ /\ pos' = Placed(req[q].item, req[q].at) /\ Become(q, [req[q] EXCEPT !.pc = "second"], FALSE)
        /\ UNCHANGED faults
     \/ /\ list = "groups" /\ Fault /\ UNCHANGED pos
        /\ Become(q, [req[q] EXCEPT !.pc = "second", !.alone = FALSE], FALSE)
     \/ list = "cards" /\ Fault /\ UNCHANGED pos /\ Become(q, Idle, FALSE)
  /\ UNCHANGED <<list, items, nextId>>

PlaceSecond(q) ==
  /\ req[q].pc = "second"
  /\ \/ /\ pos' = Placed(req[q].other, req[q].otherAt) /\ Become(q, [req[q] EXCEPT !.pc = "moved"], FALSE)
        /\ UNCHANGED faults
     \/ Fault /\ UNCHANGED pos /\ Become(q, Idle, FALSE)
  /\ UNCHANGED <<list, items, nextId>>

Reply(q) ==
  /\ req[q].pc \in {"added", "moved"} /\ Become(q, Idle, FALSE)
  /\ UNCHANGED <<list, items, pos, nextId, faults>>

Next ==
  \/ \E q \in Requests : Create(q) \/ Insert(q) \/ Move(q) \/ PlaceFirst(q) \/ PlaceSecond(q) \/ Reply(q)
  \/ \E i \in Ids : Delete(i)

Spec == Init /\ [][Next]_vars
-----------------------------------------------------------------------------
(* Properties.                                                             *)

TypeOK ==
  /\ list \in {"groups", "cards"} /\ items \in SUBSET Ids /\ pos \in [Ids -> Nat]
  /\ nextId \in 1..MaxItems + 1 /\ req \in [Requests -> Request] /\ faults \in 0..MaxFaults
  /\ \A i \in items : i < nextId
  /\ \A i \in Ids \ items : pos[i] = 0

Exchanged(r) ==
  LET pair == {<<r.item, r.other>>, <<r.other, r.item>>} IN (r.was \ pair) \cup (pair \ r.was)

\* A move that nothing came between exchanges the item with its neighbour and
\* leaves every other pair of items as it was: cards as long as no two share a
\* position, groups as long as their positions have no gaps.
MoveSwapsNeighbours ==
  \A q \in Requests :
    /\ req[q].pc = "moved" /\ req[q].alone
    /\ IF list = "cards" THEN req[q].distinct ELSE req[q].dense
    => Order = Exchanged(req[q])

\* An item that was added with nothing coming between is the last of its list,
\* whatever moves, deletions and lost writes left behind before.
NewItemComesLast ==
  \A q \in Requests :
    req[q].pc = "added" /\ req[q].alone => \A i \in items : ~Precedes(req[q].item, i)

\* groups.go: "MoveGroup swaps positions with the neighboring group".
GroupMoveSwapsNeighbours ==
  \A q \in Requests :
    list = "groups" /\ faults = 0 /\ req[q].pc = "moved" /\ req[q].alone /\ req[q].distinct
    => Order = Exchanged(req[q])
=============================================================================
