------------------------------ MODULE Accounts ------------------------------
(***************************************************************************)
(* Users and the roles they hold: the users page (pages/Users.tsx) of      *)
(* several people at once, and the requests it sends (internal/api/        *)
(* users.go, roles.go; internal/meta/users.go, roles.go).  A request is    *)
(* admitted, checked and carried out in separate statements, and other     *)
(* requests run in between; deleting a role is one transaction.            *)
(***************************************************************************)
EXTENDS Browser, FiniteSets

CONSTANTS
  Users,         \* user names
  Roles,         \* roles, the builtin one included
  Admin,         \* the builtin role
  Absent,        \* no such user
  MaxRequests    \* bound: requests sent

ASSUME AccountsAssumption ==
  /\ Admin \in Roles /\ Nothing \notin Users \cup Roles /\ MaxRequests \in Nat
  /\ Absent \notin [role : Roles, disabled : BOOLEAN]

VARIABLES
  accounts,      \* server: each user's role and whether it is disabled
  firstUsers,    \* server: the users flagged as first
  roles,         \* server: the roles that exist
  userForm,      \* each user's page: the dialog
  request,       \* each user's request in flight
  sent,          \* how many requests were sent
  seeding        \* the seed-admin command: whether it found no users

accountVars == <<accounts, firstUsers, roles, userForm, request, sent, seeding>>

Account == [role : Roles, disabled : BOOLEAN]
UserForm == [user : Users, mode : {"new", "edit"}, role : Roles, disabled : BOOLEAN]
UserRequest == [op : {"add", "save", "delete", "dropRole"}, user : Users \cup {Nothing},
            role : Roles \cup {Nothing}, disabled : BOOLEAN,
            step : {"sent", "admitted", "checked", "roleSet"}]

Exists(u) == accounts[u] # Absent

\* GetUserContext: a user whose role does not exist is not found.
Context(u) == Exists(u) /\ ~accounts[u].disabled /\ accounts[u].role \in roles
IsAdmin(u) == Context(u) /\ accounts[u].role = Admin

AccountsInit ==
  /\ accounts = [u \in Users |-> Absent] /\ firstUsers = {} /\ roles = Roles
  /\ userForm = [u \in Users |-> Nothing] /\ request = [u \in Users |-> Nothing]
  /\ sent = 0 /\ seeding = "no"
-----------------------------------------------------------------------------
(* The first user.                                                         *)

\* CreateFirstUser is one statement.
Setup(u) ==
  /\ \A v \in Users : ~Exists(v)
  /\ accounts' = [accounts EXCEPT ![u] = [role |-> Admin, disabled |-> FALSE]]
  /\ firstUsers' = {u}
  /\ UNCHANGED <<roles, userForm, request, sent, seeding>>

\* The seed-admin command counts the users and inserts one in two statements.
SeedCount ==
  /\ seeding = "no"
  /\ seeding' = IF \A v \in Users : ~Exists(v) THEN "first" ELSE "later"
  /\ UNCHANGED <<accounts, firstUsers, roles, userForm, request, sent>>

SeedInsert(u) ==
  /\ seeding \in {"first", "later"} /\ ~Exists(u)
  /\ accounts' = [accounts EXCEPT ![u] = [role |-> Admin, disabled |-> FALSE]]
  /\ firstUsers' = IF seeding = "first" THEN firstUsers \cup {u} ELSE firstUsers
  /\ seeding' = "done"
  /\ UNCHANGED <<roles, userForm, request, sent>>
-----------------------------------------------------------------------------
(* The users page.  Its lists are read when a dialog opens: an older list  *)
(* amounts to a dialog that was opened earlier.                            *)

\* Of the roles the first that is not the builtin one is proposed.
OpenNew(me, u) ==
  /\ IsAdmin(me) /\ userForm[me] = Nothing
  /\ \E r \in roles :
       /\ r # Admin \/ roles = {Admin}
       /\ userForm' = [userForm EXCEPT ![me] =
            [user |-> u, mode |-> "new", role |-> r, disabled |-> FALSE]]
  /\ UNCHANGED <<accounts, firstUsers, roles, request, sent, seeding>>

\* The list shows users whose role exists, and has no buttons for the first user.
OpenUser(me, u) ==
  /\ IsAdmin(me) /\ userForm[me] = Nothing
  /\ Exists(u) /\ u \notin firstUsers /\ accounts[u].role \in roles
  /\ userForm' = [userForm EXCEPT ![me] =
       [user |-> u, mode |-> "edit", role |-> accounts[u].role,
        disabled |-> accounts[u].disabled]]
  /\ UNCHANGED <<accounts, firstUsers, roles, request, sent, seeding>>

ChangeForm(me, r, off) ==
  /\ userForm[me] # Nothing /\ (userForm[me].mode = "new" => ~off)
  /\ r \in roles \cup {userForm[me].role}
  /\ userForm' = [userForm EXCEPT ![me].role = r, ![me].disabled = off]
  /\ UNCHANGED <<accounts, firstUsers, roles, request, sent, seeding>>

CloseUserForm(me) ==
  /\ userForm[me] # Nothing /\ userForm' = [userForm EXCEPT ![me] = Nothing]
  /\ UNCHANGED <<accounts, firstUsers, roles, request, sent, seeding>>

SendRequest(me, op, u, r, off) ==
  /\ request[me] = Nothing /\ sent < MaxRequests /\ sent' = sent + 1
  /\ request' = [request EXCEPT ![me] =
       [op |-> op, user |-> u, role |-> r, disabled |-> off, step |-> "sent"]]
  /\ UNCHANGED <<accounts, firstUsers, roles, userForm, seeding>>

\* An edit always sends the role and the disabled flag.
SaveUser(me) ==
  /\ userForm[me] # Nothing
  /\ LET f == userForm[me] IN
     SendRequest(me, IF f.mode = "new" THEN "add" ELSE "save", f.user, f.role, f.disabled)

DeleteUser(me, u) ==
  /\ IsAdmin(me) /\ userForm[me] = Nothing /\ Exists(u) /\ u \notin firstUsers
  /\ SendRequest(me, "delete", u, Nothing, FALSE)

DeleteRole(me, r) ==
  /\ IsAdmin(me) /\ r \in roles \ {Admin}
  /\ SendRequest(me, "dropRole", Nothing, r, FALSE)

\* The API takes the same requests from a script, with any values.
CallApi(me, op, u, r, off) ==
  /\ Context(me)
  /\ SendRequest(me, op, u, r, off)
-----------------------------------------------------------------------------
(* The server.                                                             *)

Reach(me, from, to) ==
  /\ request[me] # Nothing /\ request[me].step = from
  /\ request' = [request EXCEPT ![me].step = to]
  /\ UNCHANGED <<accounts, firstUsers, roles, userForm, sent, seeding>>

\* An answer that is not an error closes the dialog.
Finish(me, from) ==
  /\ request[me] # Nothing /\ request[me].step = from
  /\ request' = [request EXCEPT ![me] = Nothing]
  /\ userForm' = IF request[me].op \in {"add", "save"}
                 THEN [userForm EXCEPT ![me] = Nothing] ELSE userForm
  /\ UNCHANGED <<sent, seeding>>

\* RequireAuth and the check for Admin read the sender's account.
Admit(me) == IsAdmin(me) /\ Reach(me, "sent", "admitted")

\* Mutation: the first user is not protected.
MayWriteAnyone(me, q) ==
  CASE q.op = "add" -> q.role \in roles
    [] q.op = "save" -> Exists(q.user) /\ q.user # me /\ q.role \in roles
    [] q.op = "delete" -> Exists(q.user) /\ q.user # me
    [] OTHER -> TRUE

\* What the handlers look at before they write: the target, who it is, and the role.
MayWrite(me, q) ==
  CASE q.op = "add" -> q.role \in roles
    [] q.op = "save" -> Exists(q.user) /\ q.user \notin firstUsers \cup {me} /\ q.role \in roles
    [] q.op = "delete" -> Exists(q.user) /\ q.user \notin firstUsers \cup {me}
    [] OTHER -> TRUE

Check(me) ==
  /\ request[me] # Nothing /\ MayWrite(me, request[me])
  /\ Reach(me, "admitted", "checked")

\* Refused at any of the steps, or the store fails: what is done stays done.
Refuse(me) ==
  /\ request[me] # Nothing /\ request' = [request EXCEPT ![me] = Nothing]
  /\ UNCHANGED <<accounts, firstUsers, roles, userForm, sent, seeding>>

\* The name is unique.
AddUser(me) ==
  /\ request[me] # Nothing /\ request[me].op = "add" /\ ~Exists(request[me].user)
  /\ accounts' = [accounts EXCEPT ![request[me].user] =
                    [role |-> request[me].role, disabled |-> FALSE]]
  /\ Finish(me, "checked") /\ UNCHANGED <<firstUsers, roles>>

\* An update of a user that is gone changes nothing.
UpdateRole(me) ==
  /\ request[me] # Nothing /\ request[me].op = "save" /\ request[me].step = "checked"
  /\ request' = [request EXCEPT ![me].step = "roleSet"]
  /\ accounts' = [accounts EXCEPT ![request[me].user] =
                    IF @ = Absent THEN @ ELSE [@ EXCEPT !.role = request[me].role]]
  /\ UNCHANGED <<firstUsers, roles, userForm, sent, seeding>>

UpdateDisabled(me) ==
  /\ request[me] # Nothing /\ request[me].op = "save"
  /\ accounts' = [accounts EXCEPT ![request[me].user] =
                    IF @ = Absent THEN @ ELSE [@ EXCEPT !.disabled = request[me].disabled]]
  /\ Finish(me, "roleSet") /\ UNCHANGED <<firstUsers, roles>>

RemoveUser(me) ==
  /\ request[me] # Nothing /\ request[me].op = "delete"
  /\ accounts' = [accounts EXCEPT ![request[me].user] = Absent]
  /\ Finish(me, "checked") /\ UNCHANGED <<firstUsers, roles>>

\* One transaction: a role that users hold stays.
RemoveRole(me) ==
  /\ request[me] # Nothing /\ request[me].op = "dropRole"
  /\ request[me].role \in roles \ {Admin}
  /\ ~\E u \in Users : Exists(u) /\ accounts[u].role = request[me].role
  /\ roles' = roles \ {request[me].role}
  /\ Finish(me, "checked") /\ UNCHANGED <<accounts, firstUsers>>

AccountsNext ==
  \/ SeedCount
  \/ \E u \in Users : Setup(u) \/ SeedInsert(u)
  \/ \E me \in Users :
       \/ CloseUserForm(me) \/ SaveUser(me)
       \/ \E u \in Users : OpenNew(me, u) \/ OpenUser(me, u) \/ DeleteUser(me, u)
       \/ \E r \in Roles : DeleteRole(me, r) \/ \E off \in BOOLEAN : ChangeForm(me, r, off)
       \/ \E u \in Users, r \in Roles, off \in BOOLEAN : CallApi(me, "save", u, r, off)
       \/ \E u \in Users : CallApi(me, "delete", u, Nothing, FALSE)
       \/ Admit(me) \/ Check(me) \/ Refuse(me)
       \/ AddUser(me) \/ UpdateRole(me) \/ UpdateDisabled(me) \/ RemoveUser(me) \/ RemoveRole(me)

AccountsSpec == AccountsInit /\ [][AccountsNext]_accountVars
-----------------------------------------------------------------------------
AccountsTypeOK ==
  /\ accounts \in [Users -> Account \cup {Absent}]
  /\ firstUsers \subseteq Users /\ roles \subseteq Roles /\ Admin \in roles
  /\ userForm \in [Users -> UserForm \cup {Nothing}]
  /\ request \in [Users -> UserRequest \cup {Nothing}]
  /\ \A me \in Users : request[me] # Nothing /\ request[me].op \in {"add", "save"} =>
                         request[me].role \in Roles
  /\ sent \in 0..MaxRequests /\ seeding \in {"no", "first", "later", "done"}

\* Once there is a first user, somebody who is an enabled Admin remains, also when
\* Admins disable, demote and delete each other at the same time: the requests that
\* would take the last one away are each refused on their own.
AdminRemains ==
  firstUsers # {} => \E u \in Users : IsAdmin(u)

\* Every user holds a role that exists: the design has the application keep this, as
\* users.role_id has no foreign key ("roles cannot be deleted while in use").
UsersHaveRoles == \A u \in Users : Exists(u) => accounts[u].role \in roles
=============================================================================
