------------------------------ MODULE Sidebar ------------------------------
(***************************************************************************)
(* The list of tables at the side of every page (components/Sidebar.tsx):  *)
(* two lists that are read apart, the groups and the tables with the group *)
(* each is in, and the requests by which an administrator groups tables    *)
(* (internal/api/groups.go, internal/meta/groups.go).  The order of groups *)
(* is the subject of DisplayOrder; their names, which of them are folded   *)
(* and which menu is open are not told apart.                              *)
(***************************************************************************)
EXTENDS Browser, FiniteSets

CONSTANTS
  Groups,        \* ids of groups
  NoGroup,       \* a table that is in none
  NoTable,       \* a table that is not defined
  MaxRegroups    \* bound: requests of this page and changes by somebody else

ASSUME SidebarAssumption ==
  /\ NoGroup \notin Groups /\ NoTable \notin Groups \cup {NoGroup}
  /\ \A S \in SUBSET Groups : S # Nothing
  /\ \A p \in [Tables -> Groups \cup {NoGroup, NoTable}] : p # Nothing
  /\ MaxRegroups \in Nat

VARIABLES
  groupIds,      \* server: the groups there are
  usedIds,       \* server: the ids that were given out
  groupOf,       \* server: the group of each table
  shownGroups,   \* page: the list of groups
  shownTables,   \* page: the list of tables, with the group each is in
  listing,       \* the requests for the two lists
  regrouping,    \* this page's requests to change groups
  regroups,      \* how many of them and of changes by somebody else there were
  missed         \* history: lists that may have missed a change for good

sidebarPage == <<shownGroups, shownTables, listing>>
sidebarServer == <<groupIds, usedIds, groupOf>>
sidebarVars == <<sidebarPage, sidebarServer, regrouping, regroups, missed>>

Lists == {"groups", "tables"}
Placing == [Tables -> Groups \cup {NoGroup, NoTable}]
Change == [op : {"create", "order"}] \cup [op : {"delete"}, group : Groups] \cup
          [op : {"put"}, table : Tables, group : Groups \cup {NoGroup}]
Regrouping == [n : 1..MaxRegroups, change : Change, step : {"sent", "drop", "ok", "refused"}]

Listing(lists) == [step : {"none", "asked", "served"}, answer : lists \cup {Nothing}]
NotListing == [step |-> "none", answer |-> Nothing]
ListAsked == [step |-> "asked", answer |-> Nothing]

Unread(l) == IF l = "groups" THEN shownGroups = Nothing ELSE shownTables = Nothing

SidebarInit ==
  /\ groupIds \in SUBSET Groups /\ usedIds = groupIds
  /\ groupOf \in [Tables -> groupIds \cup {NoGroup, NoTable}]
  /\ shownGroups = Nothing /\ shownTables = Nothing
  /\ listing = [l \in Lists |-> ListAsked]
  /\ regrouping = {} /\ regroups = 0 /\ missed = {}
-----------------------------------------------------------------------------
(* Reading the lists.                                                      *)

\* A list is read again, and an answer under way is dropped; except while it is
\* read for the first time, when the answer under way is waited for.
Reread(S) ==
  LET again == {l \in S : listing[l] = NotListing \/ ~Unread(l)}
  IN  /\ listing' = [l \in Lists |-> IF l \in again THEN ListAsked ELSE listing[l]]
      /\ missed' = (missed \ again) \cup (S \ again)

\* A page that shows the tables too reads their list when it is opened.
OpenTablesPage ==
  /\ listing["tables"] = NotListing /\ Reread({"tables"})
  /\ UNCHANGED <<sidebarServer, shownGroups, shownTables, regrouping, regroups>>

ServeList(l) ==
  /\ listing[l] = ListAsked
  /\ listing' = [listing EXCEPT ![l] =
       [step |-> "served", answer |-> IF l = "groups" THEN groupIds ELSE groupOf]]
  /\ UNCHANGED <<sidebarServer, shownGroups, shownTables, regrouping, regroups, missed>>

ListArrives(l) ==
  /\ listing[l].step = "served"
  /\ listing' = [listing EXCEPT ![l] = NotListing]
  /\ IF l = "groups" THEN shownGroups' = listing[l].answer /\ UNCHANGED shownTables
                     ELSE shownTables' = listing[l].answer /\ UNCHANGED shownGroups
  /\ UNCHANGED <<sidebarServer, regrouping, regroups, missed>>

\* What was shown before stays.
ListFails(l) ==
  /\ listing[l] # NotListing
  /\ listing' = [listing EXCEPT ![l] = NotListing] /\ missed' = missed \cup {l}
  /\ UNCHANGED <<sidebarServer, shownGroups, shownTables, regrouping, regroups>>

\* Logging out forgets everything; the lists are read when somebody logs in.
Logout ==
  /\ shownGroups' = Nothing /\ shownTables' = Nothing
  /\ listing' = [l \in Lists |-> ListAsked] /\ missed' = {}
  /\ UNCHANGED <<sidebarServer, regrouping, regroups>>
-----------------------------------------------------------------------------
(* What is drawn: a heading for each group that was read, then the tables  *)
(* without one.                                                            *)

KnownGroups == IF shownGroups = Nothing THEN {} ELSE shownGroups
ListedTables == IF shownTables = Nothing THEN {} ELSE {t \in Tables : shownTables[t] # NoTable}

EffectiveGroup(t) == IF shownTables[t] \in KnownGroups THEN shownTables[t] ELSE NoGroup

ByGroup(h) == {t \in ListedTables : EffectiveGroup(t) = h}
-----------------------------------------------------------------------------
(* Changing groups.  Nothing disables a button while a request is under way. *)

GroupMut(change) ==
  /\ regroups < MaxRegroups /\ regroups' = regroups + 1
  /\ regrouping' = regrouping \cup {[n |-> regroups', change |-> change, step |-> "sent"]}
  /\ UNCHANGED <<sidebarServer, shownGroups, shownTables, listing, missed>>

AskGroup == GroupMut([op |-> "create"])
AskDeletion(g) == g \in KnownGroups /\ GroupMut([op |-> "delete", group |-> g])

\* Up, down or another name.
AskOrder(g) == g \in KnownGroups /\ GroupMut([op |-> "order"])

ChooseGroup(t, g) ==
  /\ t \in ListedTables /\ g \in KnownGroups \cup {NoGroup}
  /\ GroupMut([op |-> "put", table |-> t, group |-> g])

Ungrouped(g) == [t \in Tables |-> IF groupOf[t] = g THEN NoGroup ELSE groupOf[t]]

Goes(c, step) == regrouping' = (regrouping \ {c}) \cup {[c EXCEPT !.step = step]}

\* A new group has an id that was never given out; a table can be put into a group
\* there is.  A group is deleted after its tables were taken out of it.
ServeChange(c) ==
  LET ch == c.change IN
  /\ c.step = "sent"
  /\ \/ /\ ch.op = "create" /\ Goes(c, "ok") /\ UNCHANGED groupOf
        /\ \E g \in Groups \ usedIds :
             groupIds' = groupIds \cup {g} /\ usedIds' = usedIds \cup {g}
     \/ ch.op = "order" /\ Goes(c, "ok") /\ UNCHANGED sidebarServer
     \/ /\ ch.op = "put" /\ ch.group \in groupIds \cup {NoGroup} /\ groupOf[ch.table] # NoTable
        /\ groupOf' = [groupOf EXCEPT ![ch.table] = ch.group]
        /\ Goes(c, "ok") /\ UNCHANGED <<groupIds, usedIds>>
     \/ /\ ch.op = "delete" /\ groupOf' = Ungrouped(ch.group)
        /\ Goes(c, "drop") /\ UNCHANGED <<groupIds, usedIds>>
     \/ Goes(c, "refused") /\ UNCHANGED sidebarServer
  /\ UNCHANGED <<sidebarPage, regroups, missed>>

\* Tables put into it meanwhile are SET NULL.
DropGroup(c) ==
  LET g == c.change.group IN
  /\ c.step = "drop" /\ groupIds' = groupIds \ {g} /\ groupOf' = Ungrouped(g)
  /\ Goes(c, IF g \in groupIds THEN "ok" ELSE "refused")
  /\ UNCHANGED <<usedIds, sidebarPage, regroups, missed>>

\* Mutation: only the groups are read again.
RereadGroups == Reread({"groups"})

RereadBoth == Reread(Lists)

Changed(c) ==
  /\ c.step = "ok" /\ regrouping' = regrouping \ {c} /\ RereadBoth
  /\ UNCHANGED <<sidebarServer, shownGroups, shownTables, regroups>>

\* The alert: what the server did, if it did anything, is not read.
NotChanged(c) ==
  /\ regrouping' = regrouping \ {c}
  /\ missed' = IF c.step = "refused" /\ c.change.op # "delete" THEN missed ELSE Lists
  /\ c.step \in {"ok", "refused"}
  /\ UNCHANGED <<sidebarServer, sidebarPage, regroups>>

\* Somebody else groups, defines or deletes a table, adds a group or deletes one.
ChangeElsewhere ==
  /\ regroups < MaxRegroups /\ regroups' = regroups + 1 /\ missed' = Lists
  /\ \/ /\ \E t \in Tables, g \in groupIds \cup {NoGroup, NoTable} :
             groupOf' = [groupOf EXCEPT ![t] = g]
        /\ UNCHANGED <<groupIds, usedIds>>
     \/ /\ \E g \in Groups \ usedIds :
             groupIds' = groupIds \cup {g} /\ usedIds' = usedIds \cup {g}
        /\ UNCHANGED groupOf
     \/ \E g \in groupIds :
          groupIds' = groupIds \ {g} /\ groupOf' = Ungrouped(g) /\ UNCHANGED usedIds
  /\ UNCHANGED <<sidebarPage, regrouping>>

SidebarNext ==
  \/ OpenTablesPage \/ Logout \/ AskGroup \/ ChangeElsewhere
  \/ \E l \in Lists : ServeList(l) \/ ListArrives(l) \/ ListFails(l)
  \/ \E g \in Groups : AskDeletion(g) \/ AskOrder(g)
  \/ \E t \in Tables, g \in Groups \cup {NoGroup} : ChooseGroup(t, g)
  \/ \E c \in regrouping : ServeChange(c) \/ DropGroup(c) \/ Changed(c) \/ NotChanged(c)

SidebarSpec == SidebarInit /\ [][SidebarNext]_sidebarVars
-----------------------------------------------------------------------------
SidebarTypeOK ==
  /\ groupIds \subseteq usedIds /\ usedIds \subseteq Groups /\ groupOf \in Placing
  /\ \A t \in Tables : groupOf[t] \in groupIds \cup {NoGroup, NoTable}
  /\ shownGroups \in {Nothing} \cup SUBSET Groups /\ shownTables \in Placing \cup {Nothing}
  /\ listing["groups"] \in Listing(SUBSET Groups) /\ listing["tables"] \in Listing(Placing)
  /\ \A l \in Lists : listing[l].step = "served" <=> listing[l].answer # Nothing
  /\ regrouping \subseteq Regrouping /\ regroups \in 0..MaxRegroups
  /\ missed \subseteq Lists

Settled == regrouping = {} /\ \A l \in Lists : listing[l] = NotListing

\* Every table of the list is drawn under one heading, although the two lists are as
\* old as they are and name groups the other does not; and once this page's requests
\* are answered and its lists read, each table is drawn under the group it is in,
\* unless somebody else changed the groups since or an answer was lost.
TablesUnderTheirGroups ==
  /\ \A t \in ListedTables :
       Cardinality({h \in KnownGroups \cup {NoGroup} : t \in ByGroup(h)}) = 1
  /\ Settled /\ missed = {} =>
       /\ KnownGroups = groupIds
       /\ \A t \in Tables : groupOf[t] # NoTable => t \in ByGroup(groupOf[t])
=============================================================================
