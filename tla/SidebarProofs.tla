--------------------------- MODULE SidebarProofs ----------------------------
(***************************************************************************)
(* Proofs about the sidebar and the order of what it shows, for any        *)
(* tables, groups, items and bounds: the types, that every table is drawn  *)
(* under one heading, and under its group once this page's requests are    *)
(* answered, that a move swaps two neighbours and that a new item comes    *)
(* last.                                                                   *)
(*                                                                         *)
(* A list that missed no change, and an answer on its way to it, is the    *)
(* server's, unless a request of this page has changed something and the   *)
(* lists were not asked for again since: this is what the invariant says.  *)
(***************************************************************************)
EXTENDS Sidebar, DisplayOrder, OrderedProofs
-----------------------------------------------------------------------------
(* The lists and the groups.                                               *)

\* A request of this page has changed something, or may have, and the lists have not
\* been asked for again since.
Unseen == \E c \in regrouping : \/ c.step \in {"drop", "ok"}
                                \/ c.step = "refused" /\ c.change.op = "delete"

Shown(l) == IF l = "groups" THEN shownGroups ELSE shownTables
Current(l) == IF l = "groups" THEN groupIds ELSE groupOf

\* A list that missed nothing, and an answer on its way to it, is the server's.
ListsCurrent ==
  ~Unseen =>
    \A l \in Lists \ missed :
      /\ listing[l] = NotListing => Shown(l) = Current(l)
      /\ listing[l].step = "served" => listing[l].answer = Current(l)

\* Only a deletion takes two steps.
DropsDelete == \A c \in regrouping : c.step = "drop" => c.change.op = "delete"

SidebarInv == SidebarTypeOK /\ DOMAIN listing = Lists /\ DropsDelete /\ ListsCurrent

LEMMA SidebarInvInit == SidebarInit => SidebarInv
<1> SUFFICES ASSUME SidebarInit PROVE SidebarInv
  OBVIOUS
<1>1. listing = [l \in Lists |-> ListAsked]
  BY DEF SidebarInit
<1>2. \A l \in Lists : listing[l] = ListAsked
  BY <1>1
<1>3. /\ ListAsked \in Listing(SUBSET Groups) /\ ListAsked \in Listing(Placing)
      /\ ListAsked.step = "asked" /\ ListAsked.answer = Nothing /\ ListAsked # NotListing
  BY DEF ListAsked, Listing, NotListing
<1>4. SidebarTypeOK
  <2>1. groupOf \in Placing /\ \A t \in Tables : groupOf[t] \in groupIds \cup {NoGroup, NoTable}
    BY DEF SidebarInit, Placing
  <2>2. \A l \in Lists : listing[l].step = "served" <=> listing[l].answer # Nothing
    BY <1>2, <1>3
  <2>3. listing["groups"] \in Listing(SUBSET Groups) /\ listing["tables"] \in Listing(Placing)
    BY <1>2, <1>3 DEF Lists
  <2>4. /\ groupIds \subseteq usedIds /\ usedIds \subseteq Groups /\ shownGroups = Nothing
        /\ shownTables = Nothing /\ regrouping = {} /\ regroups = 0 /\ missed = {}
    BY DEF SidebarInit
  <2>5. regroups \in 0..MaxRegroups
    BY <2>4, SidebarAssumption
  <2> QED
    BY <2>1, <2>2, <2>3, <2>4, <2>5 DEF SidebarTypeOK
<1>6. DropsDelete
  BY DEF SidebarInit, DropsDelete
<1>5. ListsCurrent
  BY <1>2, <1>3 DEF ListsCurrent
<1> QED
  BY <1>1, <1>4, <1>5, <1>6 DEF SidebarInv

\* Lists read anew, dropped or answered: the rest of the state stays.
LEMMA SidebarListsKeep ==
  ASSUME SidebarInv, UNCHANGED <<sidebarServer, regrouping, regroups>>,
         DOMAIN listing' = Lists, missed' \subseteq Lists,
         shownGroups' \in {Nothing} \cup SUBSET Groups, shownTables' \in Placing \cup {Nothing},
         \A l \in Lists :
           \/ listing'[l] = ListAsked
           \/ listing'[l] = NotListing /\ (l \notin missed' => listing[l].step = "served" /\ l \notin missed
                                                               /\ Shown(l)' = listing[l].answer)
           \/ listing'[l] = [step |-> "served", answer |-> Current(l)]
           \/ listing'[l] = listing[l] /\ Shown(l)' = Shown(l) /\ (l \in missed => l \in missed')
  PROVE  SidebarInv'
<1>0. /\ SidebarTypeOK /\ ListsCurrent /\ Unseen' = Unseen /\ \A l \in Lists : Current(l)' = Current(l)
      /\ DropsDelete'
  BY DEF SidebarInv, Unseen, sidebarServer, Current, DropsDelete
<1>1. /\ ListAsked \in Listing(SUBSET Groups) /\ ListAsked \in Listing(Placing)
      /\ NotListing \in Listing(SUBSET Groups) /\ NotListing \in Listing(Placing)
      /\ ListAsked.step = "asked" /\ ListAsked.answer = Nothing
      /\ NotListing.step = "none" /\ NotListing.answer = Nothing /\ ListAsked # NotListing
  BY DEF ListAsked, Listing, NotListing
<1>2. /\ [step |-> "served", answer |-> Current("groups")] \in Listing(SUBSET Groups)
      /\ [step |-> "served", answer |-> Current("tables")] \in Listing(Placing)
      /\ \A l \in Lists : Current(l) # Nothing
  BY <1>0, SidebarAssumption DEF SidebarTypeOK, Listing, Current, Placing, Lists
<1>3. SidebarTypeOK'
  <2>1. listing'["groups"] \in Listing(SUBSET Groups) /\ listing'["tables"] \in Listing(Placing)
    BY <1>0, <1>1, <1>2 DEF SidebarTypeOK, Lists
  <2>2. \A l \in Lists : listing'[l].step = "served" <=> listing'[l].answer # Nothing
    BY <1>0, <1>1, <1>2 DEF SidebarTypeOK
  <2> QED
    BY <1>0, <2>1, <2>2 DEF SidebarTypeOK, sidebarServer
<1>4. ListsCurrent'
  <2> SUFFICES ASSUME ~Unseen, NEW l \in Lists, l \notin missed'
               PROVE  /\ listing'[l] = NotListing => Shown(l)' = Current(l)
                      /\ listing'[l].step = "served" => listing'[l].answer = Current(l)
    BY <1>0 DEF ListsCurrent
  <2>1. l \notin missed => /\ listing[l] = NotListing => Shown(l) = Current(l)
                           /\ listing[l].step = "served" => listing[l].answer = Current(l)
    BY <1>0 DEF ListsCurrent
  <2>2. [step |-> "served", answer |-> Current(l)].step = "served"
        /\ [step |-> "served", answer |-> Current(l)].answer = Current(l)
        /\ [step |-> "served", answer |-> Current(l)] # NotListing
    BY DEF NotListing
  <2> QED
    BY <1>1, <2>1, <2>2
<1> QED
  BY <1>0, <1>3, <1>4 DEF SidebarInv

\* The server changes and requests go on: unless somebody else changed the groups,
\* some request of this page is yet to see it.
LEMMA SidebarServerKeeps ==
  ASSUME SidebarInv, UNCHANGED <<sidebarPage>>, missed' \subseteq Lists,
         groupIds' \subseteq usedIds', usedIds' \subseteq Groups, groupOf' \in [Tables -> groupIds' \cup {NoGroup, NoTable}],
         regrouping' \subseteq Regrouping, regroups' \in 0..MaxRegroups,
         DropsDelete',
         \/ missed' = Lists
         \/ Unseen'
         \/ UNCHANGED <<groupIds, groupOf, missed>> /\ (Unseen => Unseen')
  PROVE  SidebarInv'
<1>1. SidebarTypeOK /\ ListsCurrent
  BY DEF SidebarInv
<1>2. groupOf' \in Placing /\ \A t \in Tables : groupOf'[t] \in groupIds' \cup {NoGroup, NoTable}
  BY DEF Placing
<1>3. SidebarTypeOK'
  BY <1>1, <1>2 DEF SidebarTypeOK, sidebarPage
<1>4. ListsCurrent'
  BY <1>1 DEF ListsCurrent, sidebarPage, Shown, Current
<1> QED
  BY <1>3, <1>4 DEF SidebarInv, sidebarPage

LEMMA ReadingsKeep ==
  ASSUME SidebarInv, NEW l \in Lists,
         OpenTablesPage \/ Logout \/ ServeList(l) \/ ListArrives(l) \/ ListFails(l)
  PROVE  SidebarInv'
<1>0. SidebarTypeOK /\ DOMAIN listing = Lists /\ missed \subseteq Lists
  BY DEF SidebarInv, SidebarTypeOK
<1>1. CASE OpenTablesPage
  <2>1. UNCHANGED <<sidebarServer, shownGroups, shownTables, regrouping, regroups>> /\ Reread({"tables"})
    BY <1>1 DEF OpenTablesPage
  <2>2. PICK again \in SUBSET {"tables"} :
          /\ listing' = [k \in Lists |-> IF k \in again THEN ListAsked ELSE listing[k]]
          /\ missed' = (missed \ again) \cup ({"tables"} \ again)
    BY <2>1 DEF Reread
  <2>3. \A k \in Lists : listing'[k] = ListAsked \/ (listing'[k] = listing[k] /\ Shown(k)' = Shown(k)
                                                     /\ (k \in missed => k \in missed'))
    BY <2>1, <2>2 DEF Shown
  <2>4. DOMAIN listing' = Lists /\ missed' \subseteq Lists
    BY <1>0, <2>2 DEF Lists
  <2> QED
    BY <1>0, <2>1, <2>3, <2>4, SidebarListsKeep DEF SidebarTypeOK
<1>2. CASE Logout
  <2>1. /\ UNCHANGED <<sidebarServer, regrouping, regroups>> /\ shownGroups' = Nothing /\ shownTables' = Nothing
        /\ listing' = [k \in Lists |-> ListAsked] /\ missed' = {}
    BY <1>2 DEF Logout
  <2>2. DOMAIN listing' = Lists /\ \A k \in Lists : listing'[k] = ListAsked
    BY <2>1
  <2>3. missed' \subseteq Lists /\ Nothing \in {Nothing} \cup SUBSET Groups /\ Nothing \in Placing \cup {Nothing}
    BY <2>1
  <2> QED
    BY <2>1, <2>2, <2>3, SidebarListsKeep
<1>3. CASE ServeList(l)
  <2>1. /\ UNCHANGED <<sidebarServer, shownGroups, shownTables, regrouping, regroups, missed>>
        /\ listing' = [listing EXCEPT ![l] = [step |-> "served", answer |-> Current(l)]]
    BY <1>3 DEF ServeList, Current
  <2>2. DOMAIN listing' = Lists /\ \A k \in Lists :
          \/ listing'[k] = [step |-> "served", answer |-> Current(k)]
          \/ listing'[k] = listing[k] /\ Shown(k)' = Shown(k) /\ (k \in missed => k \in missed')
    BY <1>0, <2>1 DEF Shown
  <2> QED
    BY <1>0, <2>1, <2>2, SidebarListsKeep DEF SidebarTypeOK
<1>4. CASE ListArrives(l)
  <2>1. /\ UNCHANGED <<sidebarServer, regrouping, regroups, missed>> /\ listing[l].step = "served"
        /\ listing' = [listing EXCEPT ![l] = NotListing]
        /\ Shown(l)' = listing[l].answer /\ \A k \in Lists : k # l => Shown(k)' = Shown(k)
    BY <1>4 DEF ListArrives, Shown, Lists
  <2>2. DOMAIN listing' = Lists /\ \A k \in Lists :
          \/ /\ listing'[k] = NotListing
             /\ (k \notin missed' => listing[k].step = "served" /\ k \notin missed /\ Shown(k)' = listing[k].answer)
          \/ listing'[k] = listing[k] /\ Shown(k)' = Shown(k) /\ (k \in missed => k \in missed')
    BY <1>0, <2>1
  <2>3. shownGroups' \in {Nothing} \cup SUBSET Groups /\ shownTables' \in Placing \cup {Nothing}
    BY <1>0, <1>4 DEF ListArrives, SidebarTypeOK, Listing, Lists
  <2> QED
    BY <1>0, <2>1, <2>2, <2>3, SidebarListsKeep
<1>5. CASE ListFails(l)
  <2>1. /\ UNCHANGED <<sidebarServer, shownGroups, shownTables, regrouping, regroups>>
        /\ listing' = [listing EXCEPT ![l] = NotListing] /\ missed' = missed \cup {l}
    BY <1>5 DEF ListFails
  <2>2. DOMAIN listing' = Lists /\ \A k \in Lists :
          \/ /\ listing'[k] = NotListing
             /\ (k \notin missed' => listing[k].step = "served" /\ k \notin missed /\ Shown(k)' = listing[k].answer)
          \/ listing'[k] = listing[k] /\ Shown(k)' = Shown(k) /\ (k \in missed => k \in missed')
    BY <1>0, <2>1 DEF Shown
  <2> QED
    BY <1>0, <2>1, <2>2, SidebarListsKeep DEF SidebarTypeOK
<1> QED
  BY <1>1, <1>2, <1>3, <1>4, <1>5

\* A change is asked for.
LEMMA AskingKeeps ==
  ASSUME SidebarInv, NEW change \in Change, GroupMut(change)
  PROVE  SidebarInv'
<1> DEFINE c == [n |-> regroups', change |-> change, step |-> "sent"]
<1>1. SidebarTypeOK
  BY DEF SidebarInv
<1>2. regroups' \in 1..MaxRegroups /\ regroups' \in 0..MaxRegroups
  BY <1>1, SidebarAssumption DEF GroupMut, SidebarTypeOK
<1>3. c \in Regrouping
  BY <1>2 DEF Regrouping
<1>4. regrouping' = regrouping \cup {c} /\ UNCHANGED <<sidebarServer, sidebarPage, missed>>
  BY DEF GroupMut, sidebarPage
<1> HIDE DEF c
<1>5. (Unseen => Unseen') /\ DropsDelete'
  <2>1. c.step = "sent" /\ DropsDelete
    BY DEF c, SidebarInv
  <2> QED
    BY <1>4, <2>1 DEF Unseen, DropsDelete
<1>6. groupOf \in [Tables -> groupIds \cup {NoGroup, NoTable}]
  BY <1>1 DEF SidebarTypeOK, Placing
<1> QED
  BY <1>1, <1>2, <1>3, <1>4, <1>5, <1>6, SidebarServerKeeps DEF SidebarTypeOK, sidebarServer

LEMMA AskedChange ==
  ASSUME NEW t \in Tables, NEW g \in Groups, NEW h \in Groups \cup {NoGroup}
  PROVE  /\ [op |-> "create"] \in Change /\ [op |-> "order"] \in Change
         /\ [op |-> "delete", group |-> g] \in Change
         /\ [op |-> "put", table |-> t, group |-> h] \in Change
BY DEF Change

LEMMA Stepped ==
  ASSUME NEW c \in Regrouping, NEW step \in {"sent", "drop", "ok", "refused"}
  PROVE  /\ [c EXCEPT !.step = step] \in Regrouping /\ [c EXCEPT !.step = step].step = step
         /\ [c EXCEPT !.step = step].change = c.change
BY DEF Regrouping

LEMMA ServedKeeps ==
  ASSUME SidebarInv, NEW c \in regrouping,
         ServeChange(c) \/ DropGroup(c) \/ Changed(c) \/ NotChanged(c)
  PROVE  SidebarInv'
<1>0. /\ SidebarTypeOK /\ c \in Regrouping /\ regrouping \subseteq Regrouping
      /\ groupOf \in [Tables -> groupIds \cup {NoGroup, NoTable}] /\ DOMAIN listing = Lists
      /\ groupIds \subseteq usedIds /\ usedIds \subseteq Groups /\ missed \subseteq Lists
      /\ regroups \in 0..MaxRegroups /\ DropsDelete
  BY DEF SidebarInv, SidebarTypeOK, Placing
<1>1. ASSUME NEW step \in {"sent", "drop", "ok", "refused"}, Goes(c, step)
      PROVE  /\ regrouping' \subseteq Regrouping
             /\ step \in {"drop", "ok"} \/ (step = "refused" /\ c.change.op = "delete") => Unseen'
             /\ c.step = "sent" /\ Unseen => Unseen'
             /\ (step = "drop" => c.change.op = "delete") => DropsDelete'
  <2> DEFINE d == [c EXCEPT !.step = step]
  <2>1. d \in Regrouping /\ d.step = step /\ d.change = c.change
    BY <1>0, Stepped
  <2>2. regrouping' = (regrouping \ {c}) \cup {d}
    BY <1>1 DEF Goes
  <2> HIDE DEF d
  <2> QED
    BY <1>0, <2>1, <2>2 DEF Unseen, DropsDelete
<1>2. \A g : Ungrouped(g) \in [Tables -> (groupIds \ {g}) \cup {NoGroup, NoTable}]
  BY <1>0 DEF Ungrouped
<1>3. CASE ServeChange(c)
  <2>0. UNCHANGED <<sidebarPage, regroups, missed>> /\ c.step = "sent"
    BY <1>3 DEF ServeChange
  <2>1. CASE \/ c.change.op = "create" /\ Goes(c, "ok") /\ UNCHANGED groupOf
               /\ \E g \in Groups \ usedIds :
                    groupIds' = groupIds \cup {g} /\ usedIds' = usedIds \cup {g}
    <3>1. PICK g \in Groups \ usedIds : groupIds' = groupIds \cup {g} /\ usedIds' = usedIds \cup {g}
      BY <2>1
    <3>2. groupOf' \in [Tables -> groupIds' \cup {NoGroup, NoTable}]
      BY <1>0, <2>1, <3>1
    <3>3. groupIds' \subseteq usedIds' /\ usedIds' \subseteq Groups
      BY <1>0, <3>1
    <3> QED
      BY <1>0, <1>1, <2>0, <2>1, <3>2, <3>3, SidebarServerKeeps
  <2>2. CASE Goes(c, "ok") /\ UNCHANGED sidebarServer
    BY <1>0, <1>1, <2>0, <2>2, SidebarServerKeeps DEF sidebarServer
  <2>3. CASE /\ c.change.group \in groupIds \cup {NoGroup} /\ groupOf[c.change.table] # NoTable
             /\ groupOf' = [groupOf EXCEPT ![c.change.table] = c.change.group]
             /\ Goes(c, "ok") /\ UNCHANGED <<groupIds, usedIds>>
    <3>1. groupOf' \in [Tables -> groupIds' \cup {NoGroup, NoTable}]
      BY <1>0, <2>3
    <3> QED
      BY <1>0, <1>1, <2>0, <2>3, <3>1, SidebarServerKeeps
  <2>4. CASE /\ c.change.op = "delete" /\ groupOf' = Ungrouped(c.change.group)
             /\ Goes(c, "drop") /\ UNCHANGED <<groupIds, usedIds>>
    <3>1. groupOf' \in [Tables -> groupIds' \cup {NoGroup, NoTable}]
      BY <1>2, <2>4
    <3> QED
      BY <1>0, <1>1, <2>0, <2>4, <3>1, SidebarServerKeeps
  <2>5. CASE Goes(c, "refused") /\ UNCHANGED sidebarServer
    BY <1>0, <1>1, <2>0, <2>5, SidebarServerKeeps DEF sidebarServer
  <2> QED
    BY <1>3, <2>1, <2>2, <2>3, <2>4, <2>5 DEF ServeChange
<1>4. CASE DropGroup(c)
  <2> DEFINE g == c.change.group
  <2>1. /\ UNCHANGED <<usedIds, sidebarPage, regroups, missed>> /\ groupIds' = groupIds \ {g}
        /\ groupOf' = Ungrouped(g) /\ Goes(c, IF g \in groupIds THEN "ok" ELSE "refused")
    BY <1>4 DEF DropGroup
  <2>2. groupOf' \in [Tables -> groupIds' \cup {NoGroup, NoTable}]
    BY <1>2, <2>1
  <2>3. CASE g \in groupIds
    BY <1>0, <1>1, <2>1, <2>2, <2>3, SidebarServerKeeps
  <2>4. CASE g \notin groupIds
    <3>1. c.change.op = "delete"
      BY <1>0, <1>4 DEF DropsDelete, DropGroup
    <3> QED
      BY <1>0, <1>1, <2>1, <2>2, <2>4, <3>1, SidebarServerKeeps
  <2> QED
    BY <2>3, <2>4
<1>5. CASE Changed(c)
  <2>1. UNCHANGED <<sidebarServer, shownGroups, shownTables, regroups>> /\ Reread(Lists)
        /\ regrouping' = regrouping \ {c}
    BY <1>5 DEF Changed, RereadBoth
  <2>2. PICK again \in SUBSET Lists :
          /\ listing' = [k \in Lists |-> IF k \in again THEN ListAsked ELSE listing[k]]
          /\ missed' = (missed \ again) \cup (Lists \ again)
    BY <2>1 DEF Reread
  <2>3. DOMAIN listing' = Lists /\ \A k \in Lists : listing'[k] = ListAsked \/ (listing'[k] = listing[k] /\ k \in missed')
    BY <2>2
  <2>4. ListAsked \in Listing(SUBSET Groups) /\ ListAsked \in Listing(Placing)
        /\ ListAsked.step = "asked" /\ ListAsked.answer = Nothing /\ ListAsked # NotListing
    BY DEF ListAsked, Listing, NotListing
  <2>5. /\ listing'["groups"] \in Listing(SUBSET Groups) /\ listing'["tables"] \in Listing(Placing)
        /\ \A l \in Lists : listing'[l].step = "served" <=> listing'[l].answer # Nothing
    BY <1>0, <2>3, <2>4 DEF SidebarTypeOK, Lists
  <2>6. regrouping' \subseteq Regrouping /\ missed' \subseteq Lists
    BY <1>0, <2>1, <2>2
  <2>7. SidebarTypeOK'
    BY <1>0, <2>1, <2>5, <2>6 DEF SidebarTypeOK, sidebarServer
  <2>8. ListsCurrent'
    BY <2>3, <2>4 DEF ListsCurrent
  <2>9. DropsDelete'
    BY <1>0, <2>1 DEF DropsDelete
  <2> QED
    BY <2>3, <2>7, <2>8, <2>9 DEF SidebarInv
<1>6. CASE NotChanged(c)
  <2>1. /\ UNCHANGED <<sidebarServer, sidebarPage, regroups>> /\ regrouping' = regrouping \ {c}
        /\ c.step \in {"ok", "refused"}
        /\ missed' = IF c.step = "refused" /\ c.change.op # "delete" THEN missed ELSE Lists
    BY <1>6 DEF NotChanged
  <2>2. c.step = "refused" /\ c.change.op # "delete" => (Unseen => Unseen')
    BY <2>1 DEF Unseen
  <2>3. regrouping' \subseteq Regrouping /\ missed' \subseteq Lists /\ DropsDelete'
    BY <1>0, <2>1 DEF DropsDelete
  <2> QED
    BY <1>0, <2>1, <2>2, <2>3, SidebarServerKeeps DEF sidebarServer
<1> QED
  BY <1>3, <1>4, <1>5, <1>6

LEMMA ChangeElsewhereKeeps ==
  ASSUME SidebarInv, ChangeElsewhere
  PROVE  SidebarInv'
<1>0. /\ SidebarTypeOK /\ groupOf \in [Tables -> groupIds \cup {NoGroup, NoTable}]
      /\ groupIds \subseteq usedIds /\ usedIds \subseteq Groups /\ regrouping \subseteq Regrouping
      /\ DropsDelete
  BY DEF SidebarInv, SidebarTypeOK, Placing
<1>1. /\ regroups' \in 0..MaxRegroups /\ missed' = Lists /\ UNCHANGED <<sidebarPage, regrouping>>
      /\ DropsDelete'
  BY <1>0, SidebarAssumption DEF ChangeElsewhere, SidebarTypeOK, DropsDelete
<1>2. /\ groupIds' \subseteq usedIds' /\ usedIds' \subseteq Groups
      /\ groupOf' \in [Tables -> groupIds' \cup {NoGroup, NoTable}]
  <2>1. CASE /\ \E t \in Tables, g \in groupIds \cup {NoGroup, NoTable} :
                  groupOf' = [groupOf EXCEPT ![t] = g]
             /\ UNCHANGED <<groupIds, usedIds>>
    BY <1>0, <2>1
  <2>2. CASE /\ \E g \in Groups \ usedIds :
                  groupIds' = groupIds \cup {g} /\ usedIds' = usedIds \cup {g}
             /\ UNCHANGED groupOf
    BY <1>0, <2>2
  <2>3. CASE \E g \in groupIds :
               groupIds' = groupIds \ {g} /\ groupOf' = Ungrouped(g) /\ UNCHANGED usedIds
    BY <1>0, <2>3 DEF Ungrouped
  <2> QED
    BY <2>1, <2>2, <2>3 DEF ChangeElsewhere
<1> QED
  BY <1>0, <1>1, <1>2, SidebarServerKeeps

LEMMA SidebarInvStep == SidebarInv /\ [SidebarNext]_sidebarVars => SidebarInv'
<1> SUFFICES ASSUME SidebarInv, [SidebarNext]_sidebarVars PROVE SidebarInv'
  OBVIOUS
<1>1. ASSUME NEW l \in Lists, OpenTablesPage \/ Logout \/ ServeList(l) \/ ListArrives(l) \/ ListFails(l)
      PROVE  SidebarInv'
  BY <1>1, ReadingsKeep
<1>2. CASE OpenTablesPage \/ Logout
  BY <1>1, <1>2 DEF Lists
<1>3. CASE AskGroup
  <2>1. [op |-> "create"] \in Change
    BY DEF Change
  <2> QED
    BY <1>3, <2>1, AskingKeeps DEF AskGroup
<1>4. ASSUME NEW g \in Groups, AskDeletion(g) \/ AskOrder(g) PROVE SidebarInv'
  <2>1. [op |-> "order"] \in Change /\ [op |-> "delete", group |-> g] \in Change
    BY DEF Change
  <2> QED
    BY <1>4, <2>1, AskingKeeps DEF AskDeletion, AskOrder
<1>5. ASSUME NEW t \in Tables, NEW g \in Groups \cup {NoGroup}, ChooseGroup(t, g) PROVE SidebarInv'
  <2>1. [op |-> "put", table |-> t, group |-> g] \in Change
    BY DEF Change
  <2> QED
    BY <1>5, <2>1, AskingKeeps DEF ChooseGroup
<1>6. ASSUME NEW c \in regrouping, ServeChange(c) \/ DropGroup(c) \/ Changed(c) \/ NotChanged(c)
      PROVE  SidebarInv'
  BY <1>6, ServedKeeps
<1>7. CASE ChangeElsewhere
  BY <1>7, ChangeElsewhereKeeps
<1>8. CASE UNCHANGED sidebarVars
  <2>1. UNCHANGED <<sidebarServer, regrouping, regroups, missed, listing, shownGroups, shownTables>>
    BY <1>8 DEF sidebarVars, sidebarPage
  <2> QED
    BY <2>1 DEF SidebarInv, SidebarTypeOK, ListsCurrent, DropsDelete, Unseen, Shown, Current,
                     sidebarServer
<1> QED
  BY <1>1, <1>2, <1>3, <1>4, <1>5, <1>6, <1>7, <1>8 DEF SidebarNext

\* The types of the sidebar and of the server's groups; a table is in a group there is.
THEOREM SidebarTypesHold == SidebarSpec => []SidebarTypeOK
<1>1. SidebarInv => SidebarTypeOK
  BY DEF SidebarInv
<1> QED
  BY <1>1, SidebarInvInit, SidebarInvStep, PTL DEF SidebarSpec

\* Every listed table is drawn under one heading, and, once this page's requests are
\* answered, under the group it is in.
THEOREM TablesStayUnderTheirGroups == SidebarSpec => []TablesUnderTheirGroups
<1>1. SidebarInv => TablesUnderTheirGroups
  <2> SUFFICES ASSUME SidebarInv PROVE TablesUnderTheirGroups
    OBVIOUS
  <2>0. SidebarTypeOK /\ ListsCurrent
    BY DEF SidebarInv
  <2>1. ASSUME NEW t \in ListedTables
        PROVE  Cardinality({h \in KnownGroups \cup {NoGroup} : t \in ByGroup(h)}) = 1
    <3>1. {h \in KnownGroups \cup {NoGroup} : t \in ByGroup(h)} = {EffectiveGroup(t)}
      BY <2>1 DEF ByGroup, EffectiveGroup
    <3> QED
      BY <3>1, FS_Singleton
  <2>2. ASSUME Settled, missed = {}
        PROVE  /\ KnownGroups = groupIds
               /\ \A t \in Tables : groupOf[t] # NoTable => t \in ByGroup(groupOf[t])
    <3>1. shownGroups = groupIds /\ shownTables = groupOf
      BY <2>0, <2>2 DEF Settled, ListsCurrent, Unseen, Shown, Current, Lists
    <3>2. groupIds # Nothing /\ groupOf # Nothing
      BY <2>0, SidebarAssumption DEF SidebarTypeOK, Placing
    <3>3. KnownGroups = groupIds
      BY <3>1, <3>2 DEF KnownGroups
    <3>4. ASSUME NEW t \in Tables, groupOf[t] # NoTable PROVE t \in ByGroup(groupOf[t])
      <4>1. t \in ListedTables
        BY <3>1, <3>2, <3>4 DEF ListedTables
      <4>2. EffectiveGroup(t) = groupOf[t]
        BY <2>0, <3>1, <3>3, <3>4 DEF EffectiveGroup, SidebarTypeOK
      <4> QED
        BY <4>1, <4>2 DEF ByGroup
    <3> QED
      BY <3>3, <3>4
  <2> QED
    BY <2>1, <2>2 DEF TablesUnderTheirGroups
<1> QED
  BY <1>1, SidebarInvInit, SidebarInvStep, PTL DEF SidebarSpec
-----------------------------------------------------------------------------
(* The order of groups and cards.  What a request that no other comes      *)
(* between has read of the positions still holds when it writes.           *)

\* No position reaches the number of items ever added.
Bounded ==
  /\ \A i \in items : pos[i] < nextId
  /\ \A q \in Requests :
       /\ req[q].pc = "insert" => req[q].at <= nextId
       /\ req[q].pc \in {"first", "second"} => req[q].at < nextId /\ req[q].otherAt < nextId

\* The order that other positions would give, and what it takes for two items to be
\* neighbours in it.
OrderBy(p) ==
  {x \in items \X items : p[x[1]] < p[x[2]] \/ (p[x[1]] = p[x[2]] /\ x[1] < x[2])}
DistinctBy(p) == \A i, j \in items : i # j => p[i] # p[j]
Neighbours(p, i, j) ==
  i # j /\ \A k \in items : ~(p[i] < p[k] /\ p[k] < p[j]) /\ ~(p[j] < p[k] /\ p[k] < p[i])

\* The positions had no gap, or were distinct, when the move began.
Sound(r) == IF list = "cards" THEN r.distinct ELSE r.dense

\* The positions before the first of a move's two writes.
Before(r) == [pos EXCEPT ![r.item] = r.otherAt]

\* What a request knows that nothing came between.
AloneFacts(r) ==
  /\ r.pc = "insert" => \A i \in items : pos[i] < r.at
  /\ r.pc = "added" =>
       r.item \in items /\ \A i \in items : i = r.item \/ (i < r.item /\ pos[i] < pos[r.item])
  /\ r.pc \in {"first", "second"} => r.item \in items /\ r.other \in items
  /\ r.pc = "first" /\ Sound(r) =>
       /\ DistinctBy(pos) /\ Neighbours(pos, r.item, r.other) /\ r.was = OrderBy(pos)
       /\ r.at = pos[r.other] /\ r.otherAt = pos[r.item]
  /\ r.pc = "second" /\ Sound(r) =>
       /\ DistinctBy(Before(r)) /\ Neighbours(Before(r), r.item, r.other)
       /\ r.was = OrderBy(Before(r))
       /\ r.at = pos[r.other] /\ r.at = pos[r.item]
  /\ r.pc = "moved" /\ Sound(r) => OrderBy(pos) = Exchanged(r)

AloneInv ==
  \A q \in Requests : req[q].alone =>
    (\A p \in Requests \ {q} : req[p].pc = "idle") /\ AloneFacts(req[q])

OrderInv == TypeOK /\ Bounded /\ AloneInv

\* A set of natural numbers that has a bound has a greatest element.
LEMMA GreatestNatural ==
  ASSUME NEW S \in SUBSET Nat, S # {}, NEW b \in Nat, \A n \in S : n <= b
  PROVE  \E n \in S : \A m \in S : m <= n
<1> DEFINE T == {k \in Nat : \A n \in S : n <= k}
<1>1. b \in T
  OBVIOUS
<1>2. PICK k \in T : \A m \in T : k <= m
  <2>1. T \in SUBSET Nat /\ T # {}
    BY <1>1
  <2> HIDE DEF T
  <2> QED
    BY <2>1, LeastNatural
<1>3. k \in Nat /\ \A n \in S : n <= k
  BY <1>2
<1>4. CASE k \in S
  BY <1>3, <1>4
<1>5. CASE k \notin S
  <2>1. PICK n \in S : TRUE
    OBVIOUS
  <2>2. k - 1 \in Nat /\ \A m \in S : m <= k - 1
    BY <1>3, <1>5
  <2>3. k - 1 \in T
    BY <2>2
  <2> QED
    BY <1>2, <1>3, <2>3
<1> QED
  BY <1>4, <1>5

\* The position of a new item is beyond all others.
LEMMA NextPositionFacts ==
  ASSUME TypeOK, \A i \in items : pos[i] < nextId
  PROVE  NextPosition \in Nat /\ NextPosition <= nextId /\ \A i \in items : pos[i] < NextPosition
<1>0. nextId \in Nat \ {0} /\ \A i \in items : pos[i] \in Nat
  BY DisplayOrderAssumption DEF TypeOK, Ids
<1>1. CASE items = {}
  BY <1>0, <1>1 DEF NextPosition
<1>2. CASE items # {}
  <2> DEFINE S == {pos[i] : i \in items}
             top == CHOOSE n \in S : \A i \in items : pos[i] <= n
  <2>1. S \in SUBSET Nat /\ S # {} /\ \A n \in S : n <= nextId
    BY <1>0, <1>2
  <2>2. \E n \in S : \A i \in items : pos[i] <= n
    <3>1. \A i \in items : pos[i] \in S
      OBVIOUS
    <3> HIDE DEF S
    <3>2. \E n \in S : \A m \in S : m <= n
      BY <1>0, <2>1, GreatestNatural
    <3> QED
      BY <3>1, <3>2
  <2>3. top \in S /\ \A i \in items : pos[i] <= top
    BY <2>2
  <2>4. NextPosition = 1 + top
    BY <1>2 DEF NextPosition
  <2>5. top \in Nat /\ top < nextId
    BY <1>0, <2>3
  <2> HIDE DEF top
  <2> QED
    BY <1>0, <2>3, <2>4, <2>5
<1> QED
  BY <1>1, <1>2

\* What precedes an item are finitely many others.
Below(i) == {j \in items : Precedes(j, i)}

LEMMA BelowFinite ==
  ASSUME TypeOK, NEW i \in items
  PROVE  /\ IsFiniteSet(Below(i)) /\ Index(i) = Cardinality(Below(i))
         /\ Index(i) \in Nat /\ Index(i) < nextId
<1>1. nextId \in Nat \ {0} /\ \A j \in items : j \in 1..nextId - 1
  BY DisplayOrderAssumption DEF TypeOK, Ids
<1>2. IsFiniteSet(1..nextId - 1) /\ Cardinality(1..nextId - 1) = nextId - 1
  BY <1>1, FS_Interval
<1>3. Below(i) \subseteq 1..nextId - 1
  BY <1>1 DEF Below
<1>4. IsFiniteSet(Below(i)) /\ Cardinality(Below(i)) <= nextId - 1 /\ Cardinality(Below(i)) \in Nat
  BY <1>2, <1>3, FS_Subset, FS_CardinalityType
<1> QED
  BY <1>1, <1>4 DEF Index, Below

LEMMA IndexGrows ==
  ASSUME TypeOK, NEW i \in items, NEW j \in items, Precedes(i, j)
  PROVE  Index(i) < Index(j)
<1>1. \A k \in items : k \in Nat /\ pos[k] \in Nat
  BY DEF TypeOK, Ids
<1>2. Below(i) \cup {i} \subseteq Below(j) /\ i \notin Below(i)
  BY <1>1 DEF Below, Precedes
<1>3. /\ IsFiniteSet(Below(i)) /\ IsFiniteSet(Below(j)) /\ Index(i) \in Nat /\ Index(j) \in Nat
      /\ Index(i) = Cardinality(Below(i)) /\ Index(j) = Cardinality(Below(j))
  BY BelowFinite
<1>4. Cardinality(Below(i) \cup {i}) = Cardinality(Below(i)) + 1 /\ IsFiniteSet(Below(i) \cup {i})
  BY <1>2, <1>3, FS_AddElement
<1>5. Cardinality(Below(i) \cup {i}) <= Cardinality(Below(j))
  BY <1>2, <1>3, FS_Subset
<1> QED
  BY <1>3, <1>4, <1>5

\* Adjacent items have no other between them; dense positions are distinct.
LEMMA AdjacentNeighbours ==
  ASSUME TypeOK, NEW i \in items, NEW j \in items, Adjacent(i, j)
  PROVE  Neighbours(pos, i, j)
<1>1. Index(i) \in Nat /\ Index(j) \in Nat /\ \A k \in items : Index(k) \in Nat
  BY BelowFinite
<1>2. i # j
  BY <1>1 DEF Adjacent
<1>3. ASSUME NEW k \in items, NEW m \in items, NEW n \in items, pos[m] < pos[k], pos[k] < pos[n]
      PROVE  Index(m) < Index(k) /\ Index(k) < Index(n)
  BY <1>3, IndexGrows DEF Precedes
<1>4. ASSUME NEW k \in items, \/ pos[i] < pos[k] /\ pos[k] < pos[j]
                              \/ pos[j] < pos[k] /\ pos[k] < pos[i]
      PROVE  FALSE
  <2>1. \/ Index(i) < Index(k) /\ Index(k) < Index(j)
        \/ Index(j) < Index(k) /\ Index(k) < Index(i)
    BY <1>3, <1>4
  <2> QED
    BY <1>1, <2>1 DEF Adjacent
<1> QED
  BY <1>2, <1>4 DEF Neighbours

LEMMA DenseDistinct ==
  ASSUME TypeOK, Dense
  PROVE  DistinctBy(pos)
<1>1. \A k \in items : k \in Nat /\ pos[k] \in Nat /\ Index(k) \in Nat
  BY BelowFinite DEF TypeOK, Ids
<1>2. ASSUME NEW i \in items, NEW j \in items, i # j, pos[i] = pos[j] PROVE FALSE
  <2>1. Precedes(i, j) \/ Precedes(j, i)
    BY <1>1, <1>2 DEF Precedes
  <2>2. Index(i) # Index(j)
    BY <1>1, <2>1, IndexGrows
  <2> QED
    BY <1>2, <2>2 DEF Dense
<1> QED
  BY <1>2 DEF DistinctBy

LEMMA OrderIsByPosition ==
  ASSUME TypeOK
  PROVE  Order = OrderBy(pos) /\ OrderBy(pos) \in SUBSET (Ids \X Ids)
BY DEF Order, OrderBy, Precedes, TypeOK

\* Neighbours that exchange their positions exchange their places, and no others do.
LEMMA SwapExchanges ==
  ASSUME items \in SUBSET Ids, NEW p \in [Ids -> Nat], DistinctBy(p),
         NEW i \in items, NEW j \in items, Neighbours(p, i, j),
         NEW s \in [Ids -> Nat], s[i] = p[j], s[j] = p[i], \A k \in items \ {i, j} : s[k] = p[k]
  PROVE  LET pair == {<<i, j>>, <<j, i>>}
         IN  OrderBy(s) = (OrderBy(p) \ pair) \cup (pair \ OrderBy(p))
<1> DEFINE pair == {<<i, j>>, <<j, i>>}
<1>0. i # j /\ p[i] # p[j] /\ \A k \in items : p[k] \in Nat /\ s[k] \in Nat
  BY DEF DistinctBy, Neighbours
<1>1. ASSUME NEW x \in items, NEW y \in items, ~(x \in {i, j} /\ y \in {i, j})
      PROVE  s[x] < s[y] <=> p[x] < p[y]
  <2>1. CASE x \notin {i, j} /\ y \notin {i, j}
    BY <2>1
  <2>2. CASE x \in {i, j} /\ y \notin {i, j}
    <3>1. p[y] # p[i] /\ p[y] # p[j] /\ s[y] = p[y]
      BY <2>2 DEF DistinctBy
    <3>2. ~(p[i] < p[y] /\ p[y] < p[j]) /\ ~(p[j] < p[y] /\ p[y] < p[i])
      BY DEF Neighbours
    <3> QED
      BY <1>0, <2>2, <3>1, <3>2
  <2>3. CASE x \notin {i, j} /\ y \in {i, j}
    <3>1. p[x] # p[i] /\ p[x] # p[j] /\ s[x] = p[x]
      BY <2>3 DEF DistinctBy
    <3>2. ~(p[i] < p[x] /\ p[x] < p[j]) /\ ~(p[j] < p[x] /\ p[x] < p[i])
      BY DEF Neighbours
    <3> QED
      BY <1>0, <2>3, <3>1, <3>2
  <2> QED
    BY <1>1, <2>1, <2>2, <2>3
<1>2. DistinctBy(s)
  <2> SUFFICES ASSUME NEW x \in items, NEW y \in items, x # y PROVE s[x] # s[y]
    BY DEF DistinctBy
  <2> QED
    BY <1>0 DEF DistinctBy
<1>3. \A x, y \in items : <<x, y>> \in OrderBy(s) <=> s[x] < s[y]
  <2>1. \A x, y \in items : <<x, y>> \in OrderBy(s) <=> s[x] < s[y] \/ (s[x] = s[y] /\ x < y)
    BY DEF OrderBy
  <2>2. \A x, y \in items : s[x] = s[y] => ~(x < y)
    <3>1. \A x \in items : x \in Nat
      BY DEF Ids
    <3> QED
      BY <1>2, <3>1 DEF DistinctBy
  <2> QED
    BY <2>1, <2>2
<1>4. \A x, y \in items : <<x, y>> \in OrderBy(p) <=> p[x] < p[y]
  <2>1. \A x, y \in items : <<x, y>> \in OrderBy(p) <=> p[x] < p[y] \/ (p[x] = p[y] /\ x < y)
    BY DEF OrderBy
  <2>2. \A x, y \in items : p[x] = p[y] => ~(x < y)
    <3>1. \A x \in items : x \in Nat
      BY DEF Ids
    <3> QED
      BY <3>1 DEF DistinctBy
  <2> QED
    BY <2>1, <2>2
<1>5. ASSUME NEW x \in items, NEW y \in items
      PROVE  <<x, y>> \in OrderBy(s) <=> <<x, y>> \in (OrderBy(p) \ pair) \cup (pair \ OrderBy(p))
  <2>1. CASE ~(x \in {i, j} /\ y \in {i, j})
    BY <1>1, <1>3, <1>4, <2>1
  <2>2. CASE x \in {i, j} /\ y \in {i, j}
    BY <1>0, <1>3, <1>4, <2>2
  <2> QED
    BY <2>1, <2>2
<1>6. OrderBy(s) \subseteq items \X items /\ (OrderBy(p) \ pair) \cup (pair \ OrderBy(p)) \subseteq items \X items
  BY DEF OrderBy
<1>7. ASSUME NEW z \in items \X items
      PROVE  z \in OrderBy(s) <=> z \in (OrderBy(p) \ pair) \cup (pair \ OrderBy(p))
  <2>1. PICK x \in items, y \in items : z = <<x, y>>
    OBVIOUS
  <2> QED
    BY <1>5, <2>1
<1> HIDE DEF pair
<1>8. OrderBy(s) = (OrderBy(p) \ pair) \cup (pair \ OrderBy(p))
  BY <1>6, <1>7
<1> QED
  BY <1>8 DEF pair

\* A request begins, and disturbs the others; or it goes on, and they stay as they are.
LEMMA BeginsFacts ==
  ASSUME TypeOK, NEW q \in Requests, NEW r \in Request, Become(q, r, TRUE)
  PROVE  /\ req' \in [Requests -> Request] /\ req'[q] = r
         /\ \A p \in Requests \ {q} :
              /\ req'[p].pc = req[p].pc /\ req'[p].at = req[p].at /\ req'[p].otherAt = req[p].otherAt
              /\ ~req'[p].alone
<1>1. \A p \in Requests : LET e == [req[p] EXCEPT !.alone = FALSE] IN
        e \in Request /\ e.pc = req[p].pc /\ e.at = req[p].at /\ e.otherAt = req[p].otherAt /\ ~e.alone
  BY DEF Request, TypeOK
<1>2. \A p \in Requests : req'[p] = IF p = q THEN r ELSE [req[p] EXCEPT !.alone = FALSE]
  BY DEF Become
<1>3. \A p \in Requests : req'[p] \in Request
  BY <1>1, <1>2
<1> QED
  BY <1>1, <1>2, <1>3 DEF Become

LEMMA GoesOnFacts ==
  ASSUME TypeOK, NEW q \in Requests, NEW r \in Request, Become(q, r, FALSE)
  PROVE  /\ req' \in [Requests -> Request] /\ req'[q] = r
         /\ \A p \in Requests \ {q} : req'[p] = req[p]
<1>1. req' = [p \in Requests |-> IF p = q THEN r ELSE req[p]]
  BY DEF Become
<1> QED
  BY <1>1 DEF TypeOK

\* Request q goes on as r, or begins as r and disturbs the others.
Steps(q, r) == Become(q, r, TRUE) \/ (Become(q, r, FALSE) /\ req[q].pc # "idle")

\* A step of request q, which leaves the others what they know.
LEMMA RequestKeeps ==
  ASSUME OrderInv, NEW q \in Requests, NEW r \in Request,
         Steps(q, r),
         UNCHANGED list, items' \in SUBSET Ids, pos' \in [Ids -> Nat], nextId' \in 1..MaxItems + 1,
         faults' \in 0..MaxFaults, nextId <= nextId',
         \A i \in items' : i < nextId' /\ pos'[i] < nextId', \A i \in Ids \ items' : pos'[i] = 0,
         r.pc = "insert" => r.at <= nextId',
         r.pc \in {"first", "second"} => r.at < nextId' /\ r.otherAt < nextId',
         r.alone => (req[q].alone \/ ~Busy) /\ AloneFacts(r)'
  PROVE  OrderInv'
<1>1. TypeOK /\ Bounded /\ AloneInv
  BY DEF OrderInv
<1>2. /\ req' \in [Requests -> Request] /\ req'[q] = r
      /\ \A p \in Requests \ {q} :
           /\ req'[p].pc = req[p].pc /\ req'[p].at = req[p].at /\ req'[p].otherAt = req[p].otherAt
           /\ ~req'[p].alone
  <2>1. CASE Become(q, r, TRUE)
    BY <1>1, <2>1, BeginsFacts
  <2>2. CASE Become(q, r, FALSE) /\ req[q].pc # "idle"
    <3>1. \A p \in Requests \ {q} : ~req[p].alone
      BY <1>1, <2>2 DEF AloneInv
    <3> QED
      BY <1>1, <2>2, <3>1, GoesOnFacts
  <2> QED
    BY <2>1, <2>2 DEF Steps
<1>3. TypeOK'
  BY <1>1, <1>2 DEF TypeOK
<1>4. Bounded'
  <2>1. \A p \in Requests : req[p].at \in Nat /\ req[p].otherAt \in Nat
    BY <1>1 DEF TypeOK, Request
  <2>2. nextId \in Nat /\ nextId' \in Nat
    BY <1>1 DEF TypeOK
  <2>3. ASSUME NEW p \in Requests
        PROVE  /\ req'[p].pc = "insert" => req'[p].at <= nextId'
               /\ req'[p].pc \in {"first", "second"} => req'[p].at < nextId' /\ req'[p].otherAt < nextId'
    <3>1. CASE p = q
      BY <1>2, <3>1
    <3>2. CASE p # q
      <4>1. req'[p].pc = req[p].pc /\ req'[p].at = req[p].at /\ req'[p].otherAt = req[p].otherAt
        BY <1>2, <3>2
      <4>2. /\ req[p].pc = "insert" => req[p].at <= nextId
            /\ req[p].pc \in {"first", "second"} => req[p].at < nextId /\ req[p].otherAt < nextId
        BY <1>1 DEF Bounded
      <4> QED
        BY <2>1, <2>2, <4>1, <4>2
    <3> QED
      BY <3>1, <3>2
  <2> QED
    BY <2>3 DEF Bounded
<1>5. AloneInv'
  <2>2. r.alone => \A p \in Requests \ {q} : req[p].pc = "idle"
    BY <1>1 DEF AloneInv, Busy
  <2> QED
    BY <1>2, <2>2 DEF AloneInv
<1> QED
  BY <1>3, <1>4, <1>5 DEF OrderInv

\* What the steps start from.
LEMMA OrderFacts ==
  ASSUME OrderInv
  PROVE  /\ items \in SUBSET Ids /\ pos \in [Ids -> Nat] /\ nextId \in 1..MaxItems + 1
         /\ nextId \in Nat /\ faults \in 0..MaxFaults /\ MaxItems \in Nat /\ MaxFaults \in Nat
         /\ req \in [Requests -> Request]
         /\ \A i \in items : i < nextId /\ pos[i] < nextId
         /\ \A i \in Ids \ items : pos[i] = 0
         /\ \A i \in Ids : i \in Nat /\ pos[i] \in Nat
         /\ TypeOK /\ Bounded /\ AloneInv
BY DisplayOrderAssumption DEF OrderInv, TypeOK, Bounded, Ids

LEMMA IdleFacts == Idle \in Request /\ Idle.pc = "idle" /\ Idle.alone = FALSE
BY DEF Idle, Request, NoItem

LEMMA FaultFacts ==
  ASSUME OrderInv, Fault
  PROVE  faults' \in 0..MaxFaults
BY OrderFacts DEF Fault

\* A step that writes no position.
LEMMA NoWriteKeeps ==
  ASSUME OrderInv, NEW q \in Requests, NEW r \in Request, Steps(q, r),
         UNCHANGED <<list, items, pos, nextId>>, faults' \in 0..MaxFaults,
         r.pc = "insert" => r.at <= nextId,
         r.pc \in {"first", "second"} => r.at < nextId /\ r.otherAt < nextId,
         r.alone => (req[q].alone \/ ~Busy) /\ AloneFacts(r)'
  PROVE  OrderInv'
<1>1. /\ items' \in SUBSET Ids /\ pos' \in [Ids -> Nat] /\ nextId' \in 1..MaxItems + 1
      /\ nextId <= nextId' /\ nextId' = nextId
      /\ \A i \in items' : i < nextId' /\ pos'[i] < nextId'
      /\ \A i \in Ids \ items' : pos'[i] = 0
  BY OrderFacts
<1> QED
  BY <1>1, RequestKeeps

LEMMA IdleKeeps ==
  ASSUME OrderInv, NEW q \in Requests, req[q].pc # "idle", Become(q, Idle, FALSE),
         UNCHANGED <<list, items, pos, nextId>>, faults' \in 0..MaxFaults
  PROVE  OrderInv'
<1>1. Steps(q, Idle)
  BY DEF Steps
<1> QED
  BY <1>1, IdleFacts, NoWriteKeeps

LEMMA BegunFacts ==
  ASSUME OrderInv, NEW r \in Request
  PROVE  /\ Begun(r) \in Request /\ Begun(r).pc = r.pc /\ Begun(r).at = r.at /\ Begun(r).otherAt = r.otherAt
         /\ Begun(r).item = r.item /\ Begun(r).other = r.other
         /\ Begun(r).alone = ~Busy
         /\ Begun(r).alone => Begun(r).was = Order /\ Begun(r).dense = Dense /\ Begun(r).distinct = Distinct
<1>1. Order \in SUBSET (Ids \X Ids) /\ {} \in SUBSET (Ids \X Ids)
  BY OrderFacts, OrderIsByPosition
<1>2. Busy \in BOOLEAN /\ Dense \in BOOLEAN /\ Distinct \in BOOLEAN
  BY DEF Busy, Dense, Distinct
<1> HIDE DEF Order, Busy, Dense, Distinct
<1> QED
  BY <1>1, <1>2 DEF Begun, Request

LEMMA CreateKeeps ==
  ASSUME OrderInv, NEW q \in Requests, Create(q)
  PROVE  OrderInv'
<1>1. UNCHANGED <<list, items, pos, nextId>>
  BY DEF Create
<1>2. CASE /\ Become(q, Begun([Idle EXCEPT !.pc = "insert", !.at = NextPosition]), TRUE)
           /\ UNCHANGED faults
  <2> DEFINE new == [Idle EXCEPT !.pc = "insert", !.at = NextPosition]
  <2>0. PICK r : r = Begun(new)
    OBVIOUS
  <2>1. NextPosition \in Nat /\ NextPosition <= nextId /\ \A i \in items : pos[i] < NextPosition
    BY OrderFacts, NextPositionFacts
  <2>2. new \in Request /\ new.pc = "insert" /\ new.at = NextPosition
    BY <2>1 DEF Idle, Request, NoItem
  <2>5. Become(q, r, TRUE)
    BY <1>2, <2>0
  <2> HIDE DEF new
  <2>3. r \in Request /\ r.pc = "insert" /\ r.at = NextPosition /\ (r.alone => ~Busy)
    BY <2>0, <2>2, BegunFacts
  <2>4. AloneFacts(r)'
    BY <1>1, <2>1, <2>3 DEF AloneFacts
  <2> QED
    <3>1. Steps(q, r) /\ faults' \in 0..MaxFaults
      BY <1>2, <2>5, OrderFacts DEF Steps
    <3> QED
      BY <1>1, <2>1, <2>3, <2>4, <3>1, NoWriteKeeps
<1>3. CASE Fault /\ Become(q, [Idle EXCEPT !.pc = "insert", !.at = 1], TRUE)
  <2>0. PICK r : r = [Idle EXCEPT !.pc = "insert", !.at = 1]
    OBVIOUS
  <2>1. r \in Request /\ r.pc = "insert" /\ r.at = 1 /\ ~r.alone
    BY <2>0 DEF Idle, Request, NoItem
  <2>2. Become(q, r, TRUE)
    BY <1>3, <2>0
  <2>3. r.at <= nextId
    BY <2>1, OrderFacts
  <2>4. faults' \in 0..MaxFaults
    BY <1>3, FaultFacts
  <2> QED
    <3>1. Steps(q, r)
      BY <2>2 DEF Steps
    <3> QED
      BY <1>1, <2>1, <2>3, <2>4, <3>1, NoWriteKeeps
<1> QED
  BY <1>2, <1>3 DEF Create

LEMMA InsertKeeps ==
  ASSUME OrderInv, NEW q \in Requests, Insert(q)
  PROVE  OrderInv'
<1>1. UNCHANGED <<list, faults>> /\ req[q].pc = "insert" /\ req[q] \in Request
  BY OrderFacts DEF Insert
<1>2. CASE /\ nextId <= MaxItems
           /\ items' = items \cup {nextId} /\ pos' = [pos EXCEPT ![nextId] = req[q].at]
           /\ nextId' = nextId + 1
           /\ Become(q, [req[q] EXCEPT !.pc = "added", !.item = nextId], FALSE)
  <2>0. PICK r : r = [req[q] EXCEPT !.pc = "added", !.item = nextId]
    OBVIOUS
  <2>1. nextId \in Ids /\ req[q].at \in Nat /\ req[q].at <= nextId
    BY <1>1, <1>2, OrderFacts DEF Bounded, Ids, Request
  <2>2. r \in Request /\ r.pc = "added" /\ r.item = nextId /\ r.alone = req[q].alone
    BY <1>1, <2>0, <2>1 DEF Request
  <2>3. Become(q, r, FALSE)
    BY <1>2, <2>0
  <2>4. /\ pos' \in [Ids -> Nat] /\ pos'[nextId] = req[q].at
        /\ \A i \in Ids \ {nextId} : pos'[i] = pos[i]
    BY <1>2, <2>1, OrderFacts
  <2>5. /\ items' \in SUBSET Ids /\ nextId' \in 1..MaxItems + 1 /\ nextId <= nextId'
        /\ \A i \in items' : i < nextId' /\ pos'[i] < nextId'
        /\ \A i \in Ids \ items' : pos'[i] = 0
    BY <1>2, <2>1, <2>4, OrderFacts
  <2>6. r.alone => AloneFacts(r)'
    <3> SUFFICES ASSUME r.alone PROVE AloneFacts(r)'
      OBVIOUS
    <3>1. \A i \in items : pos[i] < req[q].at
      BY <1>1, <2>2, OrderFacts DEF AloneInv, AloneFacts
    <3>2. \A i \in items : i \in Ids \ {nextId} /\ i < nextId
      BY OrderFacts
    <3>3. nextId \in items' /\ \A i \in items' : i = nextId \/ (i < nextId /\ pos'[i] < pos'[nextId])
      BY <1>2, <2>4, <3>1, <3>2
    <3> QED
      BY <2>2, <3>3 DEF AloneFacts
  <2> QED
    <3>1. Steps(q, r) /\ faults' \in 0..MaxFaults
      BY <1>1, <2>3, OrderFacts DEF Steps
    <3> QED
      BY <1>1, <2>2, <2>4, <2>5, <2>6, <3>1, RequestKeeps
<1>3. CASE Become(q, Idle, FALSE) /\ UNCHANGED <<items, pos, nextId>>
  BY <1>1, <1>3, IdleKeeps, OrderFacts
<1> QED
  BY <1>2, <1>3 DEF Insert

LEMMA MoveKeeps ==
  ASSUME OrderInv, NEW q \in Requests, Move(q)
  PROVE  OrderInv'
<1>1. UNCHANGED <<list, items, pos, nextId, faults>>
  BY DEF Move
<1>2. PICK i \in items, j \in items :
        /\ Adjacent(i, j)
        /\ Become(q, Begun([Idle EXCEPT !.pc = "first", !.item = i, !.other = j,
                                        !.at = Swapped(i, j).i, !.otherAt = Swapped(i, j).j]), TRUE)
  BY DEF Move
<1> DEFINE new == [Idle EXCEPT !.pc = "first", !.item = i, !.other = j,
                               !.at = Swapped(i, j).i, !.otherAt = Swapped(i, j).j]
<1>9. PICK r : r = Begun(new)
  OBVIOUS
<1>3. /\ Swapped(i, j).i = IF list = "groups" THEN Index(j) ELSE pos[j]
      /\ Swapped(i, j).j = IF list = "groups" THEN Index(i) ELSE pos[i]
  BY DEF Swapped
<1>4. /\ Swapped(i, j).i \in Nat /\ Swapped(i, j).j \in Nat
      /\ Swapped(i, j).i < nextId /\ Swapped(i, j).j < nextId /\ i \in Ids /\ j \in Ids
  BY <1>3, BelowFinite, OrderFacts
<1>5. /\ new \in Request /\ new.pc = "first" /\ new.item = i /\ new.other = j
      /\ new.at = Swapped(i, j).i /\ new.otherAt = Swapped(i, j).j
  BY <1>4 DEF Idle, Request, NoItem
<1>8. Become(q, r, TRUE)
  BY <1>2, <1>9
<1> HIDE DEF new
<1>6. /\ r \in Request /\ r.pc = "first" /\ r.item = i /\ r.other = j
      /\ r.at = Swapped(i, j).i /\ r.otherAt = Swapped(i, j).j
      /\ r.alone => ~Busy /\ r.was = Order /\ r.dense = Dense
                           /\ r.distinct = Distinct
  BY <1>5, <1>9, BegunFacts
<1>7. r.alone => AloneFacts(r)'
  <2> SUFFICES ASSUME r.alone PROVE AloneFacts(r)'
    OBVIOUS
  <2>1. ASSUME Sound(r)
        PROVE  DistinctBy(pos) /\ r.at = pos[j] /\ r.otherAt = pos[i]
    <3>1. list \in {"cards", "groups"}
      BY OrderFacts DEF TypeOK
    <3>2. CASE list = "cards"
      BY <1>3, <1>6, <2>1, <3>2 DEF Sound, Distinct, DistinctBy
    <3>3. CASE list = "groups"
      <4>1. Dense
        BY <1>6, <2>1, <3>3 DEF Sound
      <4>2. DistinctBy(pos)
        BY <4>1, DenseDistinct, OrderFacts
      <4> QED
        BY <1>3, <1>6, <3>3, <4>1, <4>2 DEF Dense
    <3> QED
      BY <3>1, <3>2, <3>3
  <2>2. Neighbours(pos, i, j) /\ Order = OrderBy(pos)
    BY <1>2, AdjacentNeighbours, OrderIsByPosition, OrderFacts
  <2>3. AloneFacts(r)
    BY <1>6, <2>1, <2>2 DEF AloneFacts
  <2> QED
    BY <1>1, <2>3 DEF AloneFacts, Sound, DistinctBy, Neighbours, OrderBy, Before, Exchanged
<1> QED
  <2>1. Steps(q, r) /\ faults' \in 0..MaxFaults
    BY <1>1, <1>8, OrderFacts DEF Steps
  <2> QED
    BY <1>1, <1>4, <1>6, <1>7, <2>1, NoWriteKeeps

\* Writing a position.
LEMMA PlacedFacts ==
  ASSUME OrderInv, NEW i, NEW n \in Nat, n < nextId
  PROVE  /\ Placed(i, n) \in [Ids -> Nat]
         /\ \A k \in items : Placed(i, n)[k] < nextId
         /\ \A k \in Ids \ items : Placed(i, n)[k] = 0
         /\ i \in items => Placed(i, n) = [pos EXCEPT ![i] = n]
BY OrderFacts DEF Placed

LEMMA PlaceFirstKeeps ==
  ASSUME OrderInv, NEW q \in Requests, PlaceFirst(q)
  PROVE  OrderInv'
<1>1. /\ UNCHANGED <<list, items, nextId>> /\ req[q].pc = "first" /\ req[q] \in Request
      /\ req[q].at < nextId /\ req[q].otherAt < nextId /\ req[q].at \in Nat /\ req[q].otherAt \in Nat
  BY OrderFacts DEF PlaceFirst, Bounded, Request
<1>2. CASE /\ pos' = Placed(req[q].item, req[q].at) /\ Become(q, [req[q] EXCEPT !.pc = "second"], FALSE)
           /\ UNCHANGED faults
  <2>0. PICK r : r = [req[q] EXCEPT !.pc = "second"]
    OBVIOUS
  <2>1. /\ r \in Request /\ r.pc = "second" /\ r.alone = req[q].alone /\ r.at = req[q].at
        /\ r.otherAt = req[q].otherAt /\ r.item = req[q].item /\ r.other = req[q].other
        /\ r.was = req[q].was /\ r.dense = req[q].dense /\ r.distinct = req[q].distinct
    BY <1>1, <2>0 DEF Request
  <2>2. Become(q, r, FALSE)
    BY <1>2, <2>0
  <2>3. /\ pos' \in [Ids -> Nat] /\ \A k \in items : pos'[k] < nextId
        /\ \A k \in Ids \ items : pos'[k] = 0
        /\ r.item \in items => pos' = [pos EXCEPT ![r.item] = r.at]
    BY <1>1, <1>2, <2>1, PlacedFacts
  <2>4. r.alone => AloneFacts(r)'
    <3> SUFFICES ASSUME r.alone PROVE AloneFacts(r)'
      OBVIOUS
    <3>1. AloneFacts(req[q])
      BY <2>1, OrderFacts DEF AloneInv
    <3>2. r.item \in items /\ r.other \in items
      BY <1>1, <2>1, <3>1 DEF AloneFacts
    <3>3. ASSUME Sound(r)
          PROVE  /\ DistinctBy(Before(r)) /\ Neighbours(Before(r), r.item, r.other)
                 /\ r.was = OrderBy(Before(r)) /\ r.at = pos[r.other] /\ r.at = pos'[r.item]
                 /\ Before(r)' = pos /\ r.at = pos'[r.other]
      <4>1. /\ DistinctBy(pos) /\ Neighbours(pos, r.item, r.other) /\ r.was = OrderBy(pos)
            /\ r.at = pos[r.other] /\ r.otherAt = pos[r.item]
        BY <1>1, <2>1, <3>1, <3>3 DEF AloneFacts, Sound
      <4>2. pos' = [pos EXCEPT ![r.item] = r.at] /\ pos \in [Ids -> Nat] /\ r.item \in Ids
            /\ r.other \in Ids /\ r.item # r.other
        BY <2>3, <3>2, <4>1, OrderFacts DEF Neighbours
      <4>3. Before(r)' = pos
        BY <4>1, <4>2 DEF Before
      <4>4. Before(r) = pos
        BY <4>1, <4>2 DEF Before
      <4> QED
        BY <4>1, <4>2, <4>3, <4>4
    <3>4. Sound(r)' = Sound(r)
      BY <1>1 DEF Sound
    <3>5. Sound(r) => DistinctBy(Before(r))' /\ Neighbours(Before(r), r.item, r.other)'
                      /\ (r.was = OrderBy(Before(r)))'
      <4> SUFFICES ASSUME Sound(r)
                   PROVE  DistinctBy(Before(r))' /\ Neighbours(Before(r), r.item, r.other)'
                          /\ (r.was = OrderBy(Before(r)))'
        OBVIOUS
      <4>1. Before(r)' = Before(r)
        <5>1. r.otherAt = pos[r.item]
          BY <1>1, <2>1, <3>1 DEF AloneFacts, Sound
        <5> QED
          BY <3>2, <3>3, <5>1, OrderFacts DEF Before
      <4> QED
        BY <1>1, <3>3, <4>1 DEF DistinctBy, Neighbours, OrderBy
    <3> QED
      BY <1>1, <2>1, <3>2, <3>3, <3>4, <3>5 DEF AloneFacts
  <2> QED
    <3>1. Steps(q, r) /\ faults' \in 0..MaxFaults
      BY <1>1, <1>2, <2>2, OrderFacts DEF Steps
    <3>2. /\ items' \in SUBSET Ids /\ nextId' \in 1..MaxItems + 1 /\ nextId <= nextId'
          /\ \A i \in items' : i < nextId' /\ pos'[i] < nextId'
          /\ \A i \in Ids \ items' : pos'[i] = 0
      BY <1>1, <2>3, OrderFacts
    <3>3. /\ r.pc = "insert" => r.at <= nextId'
          /\ r.pc \in {"first", "second"} => r.at < nextId' /\ r.otherAt < nextId'
      BY <1>1, <2>1
    <3> QED
      BY <1>1, <2>1, <2>3, <2>4, <3>1, <3>2, <3>3, RequestKeeps
<1>3. CASE Fault /\ UNCHANGED pos /\ Become(q, [req[q] EXCEPT !.pc = "second", !.alone = FALSE], FALSE)
  <2>0. PICK r : r = [req[q] EXCEPT !.pc = "second", !.alone = FALSE]
    OBVIOUS
  <2>1. r \in Request /\ r.pc = "second" /\ ~r.alone /\ r.at = req[q].at /\ r.otherAt = req[q].otherAt
    BY <1>1, <2>0 DEF Request
  <2>2. Become(q, r, FALSE) /\ faults' \in 0..MaxFaults
    BY <1>3, <2>0, FaultFacts
  <2> QED
    <3>1. Steps(q, r)
      BY <1>1, <2>2 DEF Steps
    <3> QED
      BY <1>1, <1>3, <2>1, <2>2, <3>1, NoWriteKeeps
<1>4. CASE Fault /\ UNCHANGED pos /\ Become(q, Idle, FALSE)
  <2>1. faults' \in 0..MaxFaults
    BY <1>4, FaultFacts
  <2> QED
    BY <1>1, <1>4, <2>1, IdleKeeps
<1> QED
  BY <1>2, <1>3, <1>4 DEF PlaceFirst

LEMMA PlaceSecondKeeps ==
  ASSUME OrderInv, NEW q \in Requests, PlaceSecond(q)
  PROVE  OrderInv'
<1>1. /\ UNCHANGED <<list, items, nextId>> /\ req[q].pc = "second" /\ req[q] \in Request
      /\ req[q].otherAt < nextId /\ req[q].otherAt \in Nat
  BY OrderFacts DEF PlaceSecond, Bounded, Request
<1>2. CASE /\ pos' = Placed(req[q].other, req[q].otherAt) /\ Become(q, [req[q] EXCEPT !.pc = "moved"], FALSE)
           /\ UNCHANGED faults
  <2>0. PICK r : r = [req[q] EXCEPT !.pc = "moved"]
    OBVIOUS
  <2>1. /\ r \in Request /\ r.pc = "moved" /\ r.alone = req[q].alone /\ r.at = req[q].at
        /\ r.otherAt = req[q].otherAt /\ r.item = req[q].item /\ r.other = req[q].other
        /\ r.was = req[q].was /\ r.dense = req[q].dense /\ r.distinct = req[q].distinct
    BY <1>1, <2>0 DEF Request
  <2>2. Become(q, r, FALSE)
    BY <1>2, <2>0
  <2>3. /\ pos' \in [Ids -> Nat] /\ \A k \in items : pos'[k] < nextId
        /\ \A k \in Ids \ items : pos'[k] = 0
        /\ r.other \in items => pos' = [pos EXCEPT ![r.other] = r.otherAt]
    BY <1>1, <1>2, <2>1, PlacedFacts
  <2>4. r.alone => AloneFacts(r)'
    <3> SUFFICES ASSUME r.alone, Sound(r)' PROVE (OrderBy(pos) = Exchanged(r))'
      BY <2>1 DEF AloneFacts
    <3>1. AloneFacts(req[q]) /\ Sound(r)
      BY <1>1, <2>1, OrderFacts DEF AloneInv, Sound
    <3> DEFINE p == Before(r)
    <3>2. /\ r.item \in items /\ r.other \in items
          /\ DistinctBy(p) /\ Neighbours(p, r.item, r.other) /\ r.was = OrderBy(p)
          /\ r.at = pos[r.other] /\ r.at = pos[r.item]
      BY <1>1, <2>1, <3>1 DEF AloneFacts, Sound, Before
    <3>3. r.item # r.other /\ r.item \in Ids /\ r.other \in Ids
      BY <3>2, OrderFacts DEF Neighbours
    <3>4. /\ p \in [Ids -> Nat] /\ p[r.item] = r.otherAt /\ p[r.other] = pos[r.other]
          /\ \A k \in items \ {r.item, r.other} : p[k] = pos[k]
      BY <1>1, <2>1, <3>3, OrderFacts DEF Before
    <3>5. /\ pos'[r.item] = p[r.other] /\ pos'[r.other] = p[r.item]
          /\ \A k \in items \ {r.item, r.other} : pos'[k] = p[k]
      BY <2>3, <3>2, <3>3, <3>4, OrderFacts
    <3> HIDE DEF p
    <3>6. LET pair == {<<r.item, r.other>>, <<r.other, r.item>>}
          IN  OrderBy(pos') = (OrderBy(p) \ pair) \cup (pair \ OrderBy(p))
      BY <2>3, <3>2, <3>4, <3>5, SwapExchanges, OrderFacts
    <3>7. OrderBy(pos') = Exchanged(r)
      BY <3>2, <3>6 DEF Exchanged
    <3> QED
      BY <1>1, <3>7 DEF OrderBy, Exchanged
  <2> QED
    <3>1. Steps(q, r) /\ faults' \in 0..MaxFaults
      BY <1>1, <1>2, <2>2, OrderFacts DEF Steps
    <3>2. /\ items' \in SUBSET Ids /\ nextId' \in 1..MaxItems + 1 /\ nextId <= nextId'
          /\ \A i \in items' : i < nextId' /\ pos'[i] < nextId'
          /\ \A i \in Ids \ items' : pos'[i] = 0
      BY <1>1, <2>3, OrderFacts
    <3>3. /\ r.pc = "insert" => r.at <= nextId'
          /\ r.pc \in {"first", "second"} => r.at < nextId' /\ r.otherAt < nextId'
      BY <1>1, <2>1
    <3> QED
      BY <1>1, <2>1, <2>3, <2>4, <3>1, <3>2, <3>3, RequestKeeps
<1>3. CASE Fault /\ UNCHANGED pos /\ Become(q, Idle, FALSE)
  <2>1. faults' \in 0..MaxFaults
    BY <1>3, FaultFacts
  <2> QED
    BY <1>1, <1>3, <2>1, IdleKeeps
<1> QED
  BY <1>2, <1>3 DEF PlaceSecond

LEMMA DeleteKeeps ==
  ASSUME OrderInv, NEW i \in Ids, Delete(i)
  PROVE  OrderInv'
<1>1. /\ items' = items \ {i} /\ pos' = [pos EXCEPT ![i] = 0] /\ UNCHANGED <<list, nextId, faults>>
      /\ \A p \in Requests : req'[p] = [req[p] EXCEPT !.alone = FALSE]
      /\ req' \in [Requests -> Request]
  <2>1. /\ items' = items \ {i} /\ pos' = [pos EXCEPT ![i] = 0] /\ UNCHANGED <<list, nextId, faults>>
        /\ req' = [p \in Requests |-> [req[p] EXCEPT !.alone = FALSE]]
    BY DEF Delete
  <2>2. \A p \in Requests : [req[p] EXCEPT !.alone = FALSE] \in Request
    <3>1. \A p \in Requests : req[p] \in Request
      BY OrderFacts
    <3> QED
      BY <3>1 DEF Request
  <2> QED
    BY <2>1, <2>2
<1>2. \A p \in Requests : /\ ~req'[p].alone /\ req'[p].pc = req[p].pc /\ req'[p].at = req[p].at
                          /\ req'[p].otherAt = req[p].otherAt
  BY <1>1, OrderFacts DEF Request
<1>3. /\ pos' \in [Ids -> Nat] /\ pos'[i] = 0 /\ \A k \in Ids \ {i} : pos'[k] = pos[k]
  BY <1>1, OrderFacts
<1>4. TypeOK'
  BY <1>1, <1>3, OrderFacts DEF TypeOK
<1>5. Bounded'
  BY <1>1, <1>2, <1>3, OrderFacts DEF Bounded
<1>6. AloneInv'
  BY <1>2 DEF AloneInv
<1> QED
  BY <1>4, <1>5, <1>6 DEF OrderInv

LEMMA OrderInvInit == Init => OrderInv
<1> SUFFICES ASSUME Init PROVE OrderInv
  OBVIOUS
<1>1. \A q \in Requests : req[q] = Idle
  BY DEF Init
<1>2. req \in [Requests -> Request]
  BY <1>1, IdleFacts DEF Init
<1>3. TypeOK
  BY <1>2, DisplayOrderAssumption DEF Init, TypeOK
<1> QED
  BY <1>1, <1>3, IdleFacts DEF OrderInv, Bounded, AloneInv, Init

LEMMA OrderInvStep == OrderInv /\ [Next]_vars => OrderInv'
<1> SUFFICES ASSUME OrderInv, [Next]_vars PROVE OrderInv'
  OBVIOUS
<1>1. ASSUME NEW q \in Requests,
             Create(q) \/ Insert(q) \/ Move(q) \/ PlaceFirst(q) \/ PlaceSecond(q)
      PROVE  OrderInv'
  BY <1>1, CreateKeeps, InsertKeeps, MoveKeeps, PlaceFirstKeeps, PlaceSecondKeeps
<1>2. ASSUME NEW q \in Requests, Reply(q) PROVE OrderInv'
  <2>1. /\ req[q].pc # "idle" /\ Become(q, Idle, FALSE)
        /\ UNCHANGED <<list, items, pos, nextId, faults>>
    BY <1>2 DEF Reply
  <2> QED
    BY <2>1, IdleKeeps, OrderFacts
<1>3. ASSUME NEW i \in Ids, Delete(i) PROVE OrderInv'
  BY <1>3, DeleteKeeps
<1>4. CASE UNCHANGED vars
  BY <1>4 DEF vars, OrderInv, TypeOK, Bounded, AloneInv, AloneFacts, Sound, DistinctBy, Neighbours,
     OrderBy, Before, Exchanged
<1> QED
  BY <1>1, <1>2, <1>3, <1>4 DEF Next

LEMMA OrderInvariance == Spec => []OrderInv
BY OrderInvInit, OrderInvStep, PTL DEF Spec

\* The types of the list and of the requests, for any number of items and requests.
THEOREM OrderTypesHold == Spec => []TypeOK
<1>1. OrderInv => TypeOK
  BY DEF OrderInv
<1> QED
  BY <1>1, OrderInvariance, PTL

\* An item that was added with nothing coming between is the last of its list, whatever
\* moves, deletions and lost writes left behind before.
THEOREM NewItemAlwaysComesLast == Spec => []NewItemComesLast
<1>1. OrderInv => NewItemComesLast
  <2> SUFFICES ASSUME OrderInv, NEW q \in Requests, req[q].pc = "added", req[q].alone, NEW i \in items
               PROVE  ~Precedes(req[q].item, i)
    BY DEF NewItemComesLast
  <2>1. /\ req[q].item \in items
        /\ i = req[q].item \/ (i < req[q].item /\ pos[i] < pos[req[q].item])
    BY OrderFacts DEF AloneInv, AloneFacts
  <2> QED
    BY <2>1, OrderFacts DEF Precedes
<1> QED
  BY <1>1, OrderInvariance, PTL

\* A move that nothing came between exchanges the item with its neighbour and leaves
\* every other pair of items as it was, for lists of any length: cards as long as no two
\* share a position, groups as long as their positions have no gaps.
THEOREM MovesSwapNeighbours == Spec => []MoveSwapsNeighbours
<1>1. OrderInv => MoveSwapsNeighbours
  BY OrderFacts, OrderIsByPosition DEF MoveSwapsNeighbours, AloneInv, AloneFacts, Sound
<1> QED
  BY <1>1, OrderInvariance, PTL
==============================================================================
