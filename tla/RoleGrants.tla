----------------------------- MODULE RoleGrants -----------------------------
(***************************************************************************)
(* The roles page (pages/Roles.tsx) and the role requests of the server    *)
(* (internal/api/roles.go, internal/meta/roles.go).  A role is saved with  *)
(* all its grants, and the server replaces the set.  The page builds it    *)
(* from two cached lists, the roles and the table definitions, neither of  *)
(* which need be there or up to date.                                      *)
(***************************************************************************)
EXTENDS Browser, FiniteSets

CONSTANTS
  Defs,          \* table definitions
  Rights,        \* read, create, update, delete
  MaxRoleWrites  \* bound: roles saved by somebody else

ASSUME RoleGrantsAssumption == MaxRoleWrites \in Nat

VARIABLES
  defs,          \* server: the definitions that exist
  grants,        \* server: the rights on each definition, Nothing without the role
  others,        \* how many times somebody else saved or created the role
  defList,       \* page: the definitions as they were last read
  roleForm,      \* page: the dialog
  roleSave       \* the request in flight

roleVars == <<defs, grants, others, defList, roleForm, roleSave>>

Grants == [Defs -> SUBSET Rights]
None == [d \in Defs |-> {}]
RoleForm == [mode : {"new", "edit"}, grants : Grants, opened : Grants, touched : SUBSET Defs]
RoleSave == [mode : {"new", "edit"}, tables : Grants, opened : Grants,
             listed : SUBSET Defs, touched : SUBSET Defs, step : {"sent", "decoded"}]

RolesInit ==
  /\ defs \in SUBSET Defs /\ others = 0
  /\ grants \in {g \in Grants : \A d \in Defs \ defs : g[d] = {}} \cup {Nothing}
  /\ defList = Nothing /\ roleForm = Nothing /\ roleSave = Nothing
-----------------------------------------------------------------------------
(* Somebody else.                                                          *)

\* Definitions come and go; their grants go with them.
AddDef(d) ==
  /\ d \notin defs /\ defs' = defs \cup {d}
  /\ UNCHANGED <<grants, others, defList, roleForm, roleSave>>

DropDef(d) ==
  /\ d \in defs /\ defs' = defs \ {d}
  /\ grants' = IF grants = Nothing THEN Nothing ELSE [grants EXCEPT ![d] = {}]
  /\ UNCHANGED <<others, defList, roleForm, roleSave>>

SaveByOther(g) ==
  /\ others < MaxRoleWrites /\ others' = others + 1
  /\ \A d \in Defs \ defs : g[d] = {}
  /\ grants' = g
  /\ UNCHANGED <<defs, defList, roleForm, roleSave>>
-----------------------------------------------------------------------------
(* The page.  The list of roles is read when the dialog opens: an older    *)
(* list amounts to a dialog that was opened earlier.                       *)

DefsArrive ==
  /\ defList' = defs
  /\ UNCHANGED <<defs, grants, others, roleForm, roleSave>>

OpenRole(mode, g) ==
  /\ roleForm = Nothing
  /\ roleForm' = [mode |-> mode, grants |-> g, opened |-> g, touched |-> {}]
  /\ UNCHANGED <<defs, grants, others, defList, roleSave>>

OpenNewRole == OpenRole("new", None)

\* Mutation: the dialog starts without the role's grants.
OpenEditBlank ==
  /\ grants # Nothing /\ roleForm = Nothing
  /\ roleForm' = [mode |-> "edit", grants |-> None, opened |-> grants, touched |-> {}]
  /\ UNCHANGED <<defs, grants, others, defList, roleSave>>

OpenEdit == grants # Nothing /\ OpenRole("edit", grants)

Listed == IF defList = Nothing THEN {} ELSE defList

SetGrant(d, right) ==
  /\ roleForm # Nothing /\ d \in Listed
  /\ roleForm' = [roleForm EXCEPT
       !.grants[d] = IF right \in @ THEN @ \ {right} ELSE @ \cup {right},
       !.touched = @ \cup {d}]
  /\ UNCHANGED <<defs, grants, others, defList, roleSave>>

CloseRole ==
  /\ roleForm # Nothing /\ roleForm' = Nothing
  /\ UNCHANGED <<defs, grants, others, defList, roleSave>>

\* Only the definitions of the cached list are sent.
SaveRole ==
  /\ roleForm # Nothing /\ roleSave = Nothing
  /\ roleSave' = [mode |-> roleForm.mode,
                  tables |-> [d \in Defs |-> IF d \in Listed THEN roleForm.grants[d] ELSE {}],
                  opened |-> roleForm.opened, listed |-> Listed, touched |-> roleForm.touched,
                  step |-> "sent"]
  /\ UNCHANGED <<defs, grants, others, defList, roleForm>>

DropRole ==
  /\ roleForm = Nothing /\ grants # Nothing /\ grants' = Nothing
  /\ UNCHANGED <<defs, others, defList, roleForm, roleSave>>
-----------------------------------------------------------------------------
(* The server.                                                             *)

\* Every definition that is granted anything must exist.
ToGrants ==
  /\ roleSave # Nothing /\ roleSave.step = "sent"
  /\ \A d \in Defs \ defs : roleSave.tables[d] = {}
  /\ roleSave' = [roleSave EXCEPT !.step = "decoded"]
  /\ UNCHANGED <<defs, grants, others, defList, roleForm>>

RefuseRole ==
  /\ roleSave # Nothing /\ roleSave' = Nothing
  /\ UNCHANGED <<defs, grants, others, defList, roleForm>>

\* One transaction; grants on a definition that is gone by now fail.
WriteRole ==
  /\ roleSave # Nothing /\ roleSave.step = "decoded"
  /\ (grants = Nothing) <=> (roleSave.mode = "new")
  /\ \A d \in Defs \ defs : roleSave.tables[d] = {}
  /\ grants' = roleSave.tables /\ roleSave' = Nothing /\ roleForm' = Nothing
  /\ UNCHANGED <<defs, others, defList>>

RolesNext ==
  \/ \E d \in Defs : AddDef(d) \/ DropDef(d) \/ \E right \in Rights : SetGrant(d, right)
  \/ \E g \in Grants : SaveByOther(g)
  \/ DefsArrive \/ OpenNewRole \/ OpenEdit \/ CloseRole \/ SaveRole \/ DropRole
  \/ ToGrants \/ RefuseRole \/ WriteRole

RolesSpec == RolesInit /\ [][RolesNext]_roleVars
-----------------------------------------------------------------------------
RolesTypeOK ==
  /\ defs \subseteq Defs /\ grants \in Grants \cup {Nothing} /\ others \in 0..MaxRoleWrites
  /\ grants # Nothing => \A d \in Defs \ defs : grants[d] = {}
  /\ defList \in (SUBSET Defs) \cup {Nothing}
  /\ roleForm \in RoleForm \cup {Nothing} /\ roleSave \in RoleSave \cup {Nothing}

\* Saving a role changes no right on a definition that the user did not touch, as
\* long as the page knew the definition and the right had not changed since the page
\* read it: whatever else was opened, saved, created or deleted in between.
UntouchedGrantsStay ==
  [][WriteRole /\ roleSave.mode = "edit" =>
       \A d \in roleSave.listed \ roleSave.touched :
         grants[d] = roleSave.opened[d] => grants'[d] = grants[d]]_roleVars
=============================================================================
