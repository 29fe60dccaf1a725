--------------------------- MODULE ConsoleProofs ----------------------------
(***************************************************************************)
(* Proofs about Accounts, RoleGrants, MetaImport, CsvImport and            *)
(* Datasources, for any users, roles, definitions, rights, files, managers *)
(* and bounds: the types; that an Admin remains; that saving a role leaves *)
(* alone what the user did not touch; that an import sends the file that   *)
(* was previewed and writes references to definitions that are there; that *)
(* the report of a CSV import is about the chosen file; and that a         *)
(* datasource keeps the password it was given; and that the pages,         *)
(* composed into a console with the editors and the sidebar, run as they   *)
(* do alone.                                                               *)
(***************************************************************************)
EXTENDS MCConsole, EditorProofs, SidebarProofs
-----------------------------------------------------------------------------
(* Accounts.  Not every first user is safe from requests: one that a late  *)
(* seed-admin command adds may be the target of a request that was checked *)
(* while its name belonged to somebody else.  What remains is one that no  *)
(* request that passed the checks is about.                                *)

Intact(u) == accounts[u] = [role |-> Admin, disabled |-> FALSE]

\* Requests to update or delete a user that have passed the handler's checks.
Passed(me) ==
  /\ request[me] # Nothing /\ request[me].op \in {"save", "delete"}
  /\ request[me].step \in {"checked", "roleSet"}

Protected(u) ==
  /\ u \in firstUsers /\ Intact(u)
  /\ \A me \in Users : Passed(me) => request[me].user # u

\* Before there is a first user there is nobody who could do anything.
Untouched ==
  /\ \A u \in Users : ~Exists(u) /\ userForm[u] = Nothing /\ request[u] = Nothing
  /\ seeding # "later"

AccountsInv ==
  /\ AccountsTypeOK
  /\ firstUsers = {} => Untouched
  /\ firstUsers # {} => \E u \in Users : Protected(u)

LEMMA NewAccount ==
  /\ [role |-> Admin, disabled |-> FALSE] \in Account
  /\ \A u \in Users : Intact(u) => Exists(u)
<1>1. [role |-> Admin, disabled |-> FALSE] \in Account
  BY AccountsAssumption DEF Account
<1>2. Absent \notin Account
  BY AccountsAssumption DEF Account
<1> QED
  BY <1>1, <1>2 DEF Intact, Exists

LEMMA AccountsInvInit == AccountsInit => AccountsInv
<1> SUFFICES ASSUME AccountsInit PROVE AccountsInv
  OBVIOUS
<1>1. AccountsTypeOK
  BY AccountsAssumption DEF AccountsInit, AccountsTypeOK
<1>2. Untouched /\ firstUsers = {}
  BY DEF AccountsInit, Untouched, Exists
<1> QED
  BY <1>1, <1>2 DEF AccountsInv

\* Whoever takes part is there because there was a first user.
LEMMA SomebodyActs ==
  ASSUME AccountsInv, NEW me \in Users,
         Exists(me) \/ userForm[me] # Nothing \/ request[me] # Nothing
  PROVE  \E u \in Users : Protected(u)
BY DEF AccountsInv, Untouched

\* A step that leaves accounts alone and lets no request about a first user pass.
LEMMA AccountsUntouched ==
  ASSUME AccountsInv, \E u \in Users : Protected(u), AccountsTypeOK',
         UNCHANGED <<accounts, firstUsers>>,
         \A me \in Users : Passed(me)' => \/ request'[me].user \notin firstUsers
                                          \/ Passed(me) /\ request'[me].user = request[me].user
  PROVE  AccountsInv'
<1>1. PICK u \in Users : Protected(u)
  OBVIOUS
<1>2. Protected(u)'
  BY <1>1 DEF Protected, Intact
<1>3. firstUsers' # {}
  BY <1>1 DEF Protected
<1> QED
  BY <1>2, <1>3 DEF AccountsInv

\* A step that writes at most one account, that of no protected user.
LEMMA AccountWritten ==
  ASSUME AccountsInv, AccountsTypeOK', NEW u \in Users, Protected(u),
         firstUsers \subseteq firstUsers', accounts'[u] = accounts[u],
         \A me \in Users : Passed(me)' => Passed(me) /\ request'[me].user = request[me].user
  PROVE  AccountsInv'
<1>1. Protected(u)'
  BY DEF Protected, Intact
<1>2. firstUsers' # {}
  BY DEF Protected
<1> QED
  BY <1>1, <1>2 DEF AccountsInv
-------------------------------------------------------------------------------
\* Setup and the seed-admin command.
LEMMA FirstUserKeeps ==
  ASSUME AccountsInv,
         SeedCount \/ \E u \in Users : Setup(u) \/ SeedInsert(u)
  PROVE  AccountsInv'
<1> DEFINE admin == [role |-> Admin, disabled |-> FALSE]
<1>0. AccountsTypeOK /\ admin \in Account
  BY NewAccount DEF AccountsInv
<1> HIDE DEF admin
<1>1. CASE SeedCount
  <2>1. AccountsTypeOK'
    BY <1>0, <1>1 DEF SeedCount, AccountsTypeOK
  <2>2. CASE firstUsers = {}
    BY <1>1, <2>1, <2>2 DEF SeedCount, AccountsInv, Untouched, Exists
  <2>3. CASE firstUsers # {}
    <3>1. PICK u \in Users : Protected(u)
      BY <2>3 DEF AccountsInv
    <3> QED
      BY <1>1, <2>1, <3>1, AccountWritten DEF SeedCount, Passed
  <2> QED
    BY <2>2, <2>3
<1>2. ASSUME NEW u \in Users, Setup(u) PROVE AccountsInv'
  <2>1. accounts' = [accounts EXCEPT ![u] = admin] /\ accounts'[u] = admin
    BY <1>0, <1>2 DEF Setup, admin, AccountsTypeOK
  <2>2. AccountsTypeOK'
    BY <1>0, <1>2, <2>1 DEF Setup, AccountsTypeOK
  <2>3. firstUsers = {}
    <3> SUFFICES ASSUME firstUsers # {} PROVE FALSE
      OBVIOUS
    <3>1. PICK v \in Users : Protected(v)
      BY DEF AccountsInv
    <3> QED
      BY <1>2, <3>1, NewAccount DEF Setup, Protected
  <2>4. \A me \in Users : request'[me] = Nothing
    BY <1>2, <2>3 DEF Setup, AccountsInv, Untouched
  <2>5. Protected(u)'
    BY <1>2, <2>1, <2>4 DEF Setup, Protected, Passed, Intact, admin
  <2>6. firstUsers' # {}
    BY <1>2 DEF Setup
  <2> QED
    BY <2>2, <2>5, <2>6 DEF AccountsInv
<1>3. ASSUME NEW u \in Users, SeedInsert(u) PROVE AccountsInv'
  <2>1. accounts' = [accounts EXCEPT ![u] = admin] /\ accounts'[u] = admin
        /\ \A v \in Users \ {u} : accounts'[v] = accounts[v]
    BY <1>0, <1>3 DEF SeedInsert, admin, AccountsTypeOK
  <2>2. AccountsTypeOK' /\ firstUsers \subseteq firstUsers'
    BY <1>0, <1>3, <2>1 DEF SeedInsert, AccountsTypeOK
  <2>3. CASE firstUsers = {}
    <3>1. seeding = "first" /\ \A me \in Users : request'[me] = Nothing
      BY <1>3, <2>3 DEF SeedInsert, AccountsInv, Untouched
    <3>2. Protected(u)'
      BY <1>3, <2>1, <3>1 DEF SeedInsert, Protected, Passed, Intact, admin
    <3>3. firstUsers' # {}
      BY <1>3, <3>1 DEF SeedInsert
    <3> QED
      BY <2>2, <3>2, <3>3 DEF AccountsInv
  <2>4. CASE firstUsers # {}
    <3>1. PICK v \in Users : Protected(v)
      BY <2>4 DEF AccountsInv
    <3>2. v # u
      BY <1>3, <3>1, NewAccount DEF SeedInsert, Protected
    <3> QED
      BY <1>3, <2>1, <2>2, <3>1, <3>2, AccountWritten DEF SeedInsert, Passed
  <2> QED
    BY <2>3, <2>4
<1> QED
  BY <1>1, <1>2, <1>3
-------------------------------------------------------------------------------
\* The pages: they change dialogs and send requests, that pass nothing yet.
LEMMA PageKeeps ==
  ASSUME AccountsInv, NEW me \in Users,
         \/ CloseUserForm(me)
         \/ \E u \in Users : OpenNew(me, u) \/ OpenUser(me, u)
         \/ \E r \in Roles, off \in BOOLEAN : ChangeForm(me, r, off)
  PROVE  AccountsInv'
<1>0. AccountsTypeOK
  BY DEF AccountsInv
<1>1. UNCHANGED <<accounts, firstUsers, roles, request, sent, seeding>>
  BY DEF CloseUserForm, OpenNew, OpenUser, ChangeForm
<1>2. \E u \in Users : Protected(u)
  <2>1. Exists(me) \/ userForm[me] # Nothing
    BY DEF CloseUserForm, OpenNew, OpenUser, ChangeForm, IsAdmin, Context
  <2> QED
    BY <2>1, SomebodyActs
<1>3. userForm' \in [Users -> UserForm \cup {Nothing}]
  <2>1. ASSUME NEW f \in UserForm \cup {Nothing}, userForm' = [userForm EXCEPT ![me] = f]
        PROVE  userForm' \in [Users -> UserForm \cup {Nothing}]
    BY <1>0, <2>1 DEF AccountsTypeOK
  <2>2. CASE CloseUserForm(me)
    BY <2>1, <2>2 DEF CloseUserForm
  <2>3. ASSUME NEW u \in Users, OpenNew(me, u)
        PROVE  userForm' \in [Users -> UserForm \cup {Nothing}]
    <3>1. PICK r \in roles : userForm' = [userForm EXCEPT ![me] =
                               [user |-> u, mode |-> "new", role |-> r, disabled |-> FALSE]]
      BY <2>3 DEF OpenNew
    <3>2. [user |-> u, mode |-> "new", role |-> r, disabled |-> FALSE] \in UserForm
      BY <1>0 DEF UserForm, AccountsTypeOK
    <3> QED
      BY <2>1, <3>1, <3>2
  <2>4. ASSUME NEW u \in Users, OpenUser(me, u)
        PROVE  userForm' \in [Users -> UserForm \cup {Nothing}]
    <3>1. accounts[u] \in Account
      BY <1>0, <2>4 DEF OpenUser, AccountsTypeOK, Exists
    <3>2. [user |-> u, mode |-> "edit", role |-> accounts[u].role,
           disabled |-> accounts[u].disabled] \in UserForm
      BY <3>1 DEF UserForm, Account
    <3> QED
      BY <2>1, <2>4, <3>2 DEF OpenUser
  <2>5. ASSUME NEW r \in Roles, NEW off \in BOOLEAN, ChangeForm(me, r, off)
        PROVE  userForm' \in [Users -> UserForm \cup {Nothing}]
    <3>1. userForm[me] \in UserForm
      BY <1>0, <2>5 DEF ChangeForm, AccountsTypeOK
    <3> DEFINE f == [[userForm[me] EXCEPT !.role = r] EXCEPT !.disabled = off]
    <3>2. f \in UserForm
      BY <3>1 DEF UserForm
    <3>3. userForm' = [userForm EXCEPT ![me] = f]
      BY <1>0, <2>5 DEF ChangeForm, AccountsTypeOK
    <3> QED
      BY <2>1, <3>2, <3>3
  <2> QED
    BY <2>2, <2>3, <2>4, <2>5
<1>4. AccountsTypeOK'
  BY <1>0, <1>1, <1>3 DEF AccountsTypeOK
<1> QED
  BY <1>1, <1>2, <1>4, AccountsUntouched DEF Passed

LEMMA SendKeeps ==
  ASSUME AccountsInv, NEW me \in Users, NEW op \in {"add", "save", "delete", "dropRole"},
         NEW u \in Users \cup {Nothing}, NEW r \in Roles \cup {Nothing}, NEW off \in BOOLEAN,
         op \in {"add", "save"} => r \in Roles,
         SendRequest(me, op, u, r, off), \E v \in Users : Protected(v)
  PROVE  AccountsInv'
<1> DEFINE q == [op |-> op, user |-> u, role |-> r, disabled |-> off, step |-> "sent"]
<1>1. q \in UserRequest /\ q.step = "sent" /\ (q.op \in {"add", "save"} => q.role \in Roles)
  BY DEF UserRequest
<1>2. request' = [request EXCEPT ![me] = q] /\ AccountsTypeOK
      /\ UNCHANGED <<accounts, firstUsers, roles, userForm, seeding>>
  BY DEF SendRequest, AccountsInv
<1> HIDE DEF q
<1>3. sent' \in 0..MaxRequests
  BY <1>2, AccountsAssumption DEF SendRequest, AccountsTypeOK
<1>4. AccountsTypeOK'
  BY <1>1, <1>2, <1>3 DEF AccountsTypeOK
<1>5. \A v \in Users : request'[v] = IF v = me THEN q ELSE request[v]
  BY <1>2 DEF AccountsTypeOK
<1> QED
  BY <1>1, <1>2, <1>4, <1>5, AccountsUntouched DEF Passed

LEMMA RequestsKeep ==
  ASSUME AccountsInv, NEW me \in Users,
         \/ SaveUser(me)
         \/ \E u \in Users : DeleteUser(me, u)
         \/ \E r \in Roles : DeleteRole(me, r)
         \/ \E u \in Users, r \in Roles, off \in BOOLEAN : CallApi(me, "save", u, r, off)
         \/ \E u \in Users : CallApi(me, "delete", u, Nothing, FALSE)
  PROVE  AccountsInv'
<1>1. \E u \in Users : Protected(u)
  <2>1. Exists(me) \/ userForm[me] # Nothing
    BY DEF SaveUser, DeleteUser, DeleteRole, CallApi, IsAdmin, Context
  <2> QED
    BY <2>1, SomebodyActs
<1>2. CASE SaveUser(me)
  <2>1. userForm[me] \in UserForm
    BY <1>2 DEF SaveUser, AccountsInv, AccountsTypeOK
  <2> DEFINE op == IF userForm[me].mode = "new" THEN "add" ELSE "save"
  <2>2. op \in {"add", "save", "delete", "dropRole"} /\ userForm[me].user \in Users
        /\ userForm[me].role \in Roles /\ userForm[me].disabled \in BOOLEAN
    BY <2>1 DEF UserForm
  <2>3. SendRequest(me, op, userForm[me].user, userForm[me].role, userForm[me].disabled)
    BY <1>2 DEF SaveUser
  <2> HIDE DEF op
  <2> QED
    BY <1>1, <2>2, <2>3, SendKeeps
<1>3. ASSUME NEW u \in Users, DeleteUser(me, u) PROVE AccountsInv'
  BY <1>1, <1>3, SendKeeps DEF DeleteUser
<1>4. ASSUME NEW r \in Roles, DeleteRole(me, r) PROVE AccountsInv'
  BY <1>1, <1>4, SendKeeps DEF DeleteRole
<1>5. ASSUME NEW u \in Users, NEW r \in Roles, NEW off \in BOOLEAN, CallApi(me, "save", u, r, off)
      PROVE  AccountsInv'
  BY <1>1, <1>5, SendKeeps DEF CallApi
<1>6. ASSUME NEW u \in Users, CallApi(me, "delete", u, Nothing, FALSE) PROVE AccountsInv'
  BY <1>1, <1>6, SendKeeps DEF CallApi
<1> QED
  BY <1>2, <1>3, <1>4, <1>5, <1>6
-------------------------------------------------------------------------------
\* A request that goes on to a step, with the checks it has passed by then.
LEMMA ReachKeeps ==
  ASSUME AccountsInv, NEW me \in Users, NEW from \in {"sent", "admitted"},
         NEW to \in {"admitted", "checked"}, Reach(me, from, to),
         to = "checked" /\ request[me].op \in {"save", "delete"} => request[me].user \notin firstUsers
  PROVE  AccountsInv'
<1>1. AccountsTypeOK /\ request[me] # Nothing /\ request[me] \in UserRequest
      /\ UNCHANGED <<accounts, firstUsers, roles, userForm, sent, seeding>>
  BY DEF Reach, AccountsInv, AccountsTypeOK
<1> DEFINE q == [request[me] EXCEPT !.step = to]
<1>2. q \in UserRequest /\ q.step = to /\ q.user = request[me].user /\ q.op = request[me].op
      /\ q.role = request[me].role
  BY <1>1 DEF UserRequest
<1>3. request' = [request EXCEPT ![me] = q]
  BY DEF Reach
<1> HIDE DEF q
<1>4. \A v \in Users : request'[v] = IF v = me THEN q ELSE request[v]
  BY <1>1, <1>3 DEF AccountsTypeOK
<1>5. AccountsTypeOK'
  BY <1>1, <1>2, <1>3 DEF AccountsTypeOK
<1>6. \E u \in Users : Protected(u)
  BY <1>1, SomebodyActs
<1> QED
  BY <1>1, <1>2, <1>4, <1>5, <1>6, AccountsUntouched DEF Passed

LEMMA ServerReads ==
  ASSUME AccountsInv, NEW me \in Users, Admit(me) \/ Check(me) \/ Refuse(me)
  PROVE  AccountsInv'
<1>1. CASE Admit(me)
  BY <1>1, ReachKeeps DEF Admit
<1>2. CASE Check(me)
  <2>1. request[me] \in UserRequest /\ request[me] # Nothing /\ MayWrite(me, request[me])
        /\ Reach(me, "admitted", "checked")
    BY <1>2 DEF Check, AccountsInv, AccountsTypeOK
  <2>2. request[me].op \in {"save", "delete"} => request[me].user \notin firstUsers
    BY <2>1 DEF MayWrite
  <2> QED
    BY <2>1, <2>2, ReachKeeps
<1>3. CASE Refuse(me)
  <2>1. AccountsTypeOK /\ request[me] # Nothing
    BY <1>3 DEF Refuse, AccountsInv
  <2>2. /\ AccountsTypeOK'
        /\ \A v \in Users : request'[v] = IF v = me THEN Nothing ELSE request[v]
    BY <1>3, <2>1 DEF Refuse, AccountsTypeOK
  <2>3. \E u \in Users : Protected(u)
    BY <2>1, SomebodyActs
  <2> QED
    BY <1>3, <2>2, <2>3, AccountsUntouched DEF Refuse, Passed
<1> QED
  BY <1>1, <1>2, <1>3
-------------------------------------------------------------------------------
\* What the statements that write have in common: the request ends or goes on.
LEMMA WriterKeeps ==
  ASSUME AccountsInv, AccountsTypeOK', NEW me \in Users, request[me] # Nothing,
         firstUsers' = firstUsers,
         \A u \in Users : Protected(u) => accounts'[u] = accounts[u],
         \A v \in Users : Passed(v)' => Passed(v) /\ request'[v].user = request[v].user
  PROVE  AccountsInv'
<1>1. PICK u \in Users : Protected(u)
  BY SomebodyActs
<1> QED
  BY <1>1, AccountWritten

LEMMA FinishedTypes ==
  ASSUME AccountsTypeOK, NEW me \in Users, NEW from, Finish(me, from)
  PROVE  /\ request' \in [Users -> UserRequest \cup {Nothing}]
         /\ userForm' \in [Users -> UserForm \cup {Nothing}]
         /\ sent' = sent /\ seeding' = seeding /\ request[me] # Nothing
         /\ request[me] \in UserRequest /\ request[me].step = from
         /\ \A v \in Users : request'[v] # Nothing => request'[v] = request[v]
<1>1. /\ request' = [request EXCEPT ![me] = Nothing] /\ request[me] # Nothing
      /\ userForm' = userForm \/ userForm' = [userForm EXCEPT ![me] = Nothing]
      /\ sent' = sent /\ seeding' = seeding /\ request[me].step = from
  BY DEF Finish
<1>2. \A v \in Users : request'[v] = IF v = me THEN Nothing ELSE request[v]
  BY <1>1 DEF AccountsTypeOK
<1> QED
  BY <1>1, <1>2 DEF AccountsTypeOK, Passed

\* The types of a step that ends a request and writes accounts.
LEMMA FinishedWrite ==
  ASSUME AccountsInv, NEW me \in Users, NEW from, Finish(me, from),
         accounts' \in [Users -> Account \cup {Absent}], firstUsers' = firstUsers,
         roles' \subseteq Roles, Admin \in roles',
         \A u \in Users : Protected(u) => accounts'[u] = accounts[u]
  PROVE  AccountsInv'
<1>1. /\ request' \in [Users -> UserRequest \cup {Nothing}]
      /\ userForm' \in [Users -> UserForm \cup {Nothing}]
      /\ sent' = sent /\ seeding' = seeding /\ request[me] # Nothing
      /\ \A v \in Users : request'[v] # Nothing => request'[v] = request[v]
  BY FinishedTypes DEF AccountsInv
<1>2. AccountsTypeOK'
  BY <1>1 DEF AccountsInv, AccountsTypeOK
<1>3. \A v \in Users : Passed(v)' => Passed(v) /\ request'[v].user = request[v].user
  BY <1>1 DEF Passed
<1> QED
  BY <1>1, <1>2, <1>3, WriterKeeps

\* What a request does to the account it is about: nobody protected.
LEMMA ServerWrites ==
  ASSUME AccountsInv, NEW me \in Users,
         AddUser(me) \/ UpdateRole(me) \/ UpdateDisabled(me) \/ RemoveUser(me) \/ RemoveRole(me)
  PROVE  AccountsInv'
<1> DEFINE q == request[me]
<1>0. AccountsTypeOK /\ q # Nothing /\ q \in UserRequest
  BY DEF AccountsInv, AccountsTypeOK, AddUser, UpdateRole, UpdateDisabled, RemoveUser, RemoveRole
<1>a. /\ accounts \in [Users -> Account \cup {Absent}]
      /\ roles \subseteq Roles /\ Admin \in roles
      /\ q.op \in {"add", "save"} => q.role \in Roles
      /\ q.disabled \in BOOLEAN /\ q.op \in {"add", "save", "delete", "dropRole"}
  BY <1>0 DEF AccountsTypeOK, UserRequest
<1>b. \A u \in Users : Protected(u) /\ Passed(me) => q.user # u
  BY DEF Protected
<1>1. CASE AddUser(me)
  <2> DEFINE new == [role |-> q.role, disabled |-> FALSE]
  <2>1. /\ accounts' = [accounts EXCEPT ![q.user] = new] /\ ~Exists(q.user)
        /\ Finish(me, "checked") /\ UNCHANGED <<firstUsers, roles>> /\ q.op = "add"
    BY <1>1 DEF AddUser
  <2>2. new \in Account
    BY <1>a, <2>1 DEF Account
  <2> HIDE DEF new
  <2>3. accounts' \in [Users -> Account \cup {Absent}]
    BY <1>a, <2>1, <2>2
  <2>4. \A u \in Users : Protected(u) => accounts'[u] = accounts[u]
    BY <1>a, <2>1, NewAccount DEF Protected
  <2> HIDE DEF q
  <2> QED
    BY <1>a, <2>1, <2>3, <2>4, FinishedWrite
<1>2. CASE UpdateRole(me)
  <2>1. /\ q.op = "save" /\ q.step = "checked"
        /\ request' = [request EXCEPT ![me].step = "roleSet"]
        /\ accounts' = [accounts EXCEPT ![q.user] =
                          IF @ = Absent THEN @ ELSE [@ EXCEPT !.role = q.role]]
        /\ UNCHANGED <<firstUsers, roles, userForm, sent, seeding>>
    BY <1>2 DEF UpdateRole
  <2>2. Passed(me)
    BY <1>0, <2>1 DEF Passed
  <2>3. accounts' \in [Users -> Account \cup {Absent}]
    <3> SUFFICES ASSUME NEW u \in Users PROVE accounts'[u] \in Account \cup {Absent}
      BY <1>a, <2>1
    <3>1. q.role \in Roles /\ accounts[u] \in Account \cup {Absent}
      BY <1>a, <2>1
    <3>2. accounts[u] \in Account => [accounts[u] EXCEPT !.role = q.role] \in Account
      BY <3>1 DEF Account
    <3>3. accounts'[u] \in {accounts[u]} \cup
            IF accounts[u] = Absent THEN {} ELSE {[accounts[u] EXCEPT !.role = q.role]}
      BY <1>a, <2>1
    <3> QED
      BY <3>1, <3>2, <3>3
  <2>4. \A u \in Users : Protected(u) => accounts'[u] = accounts[u]
    BY <1>a, <1>b, <2>1, <2>2
  <2> DEFINE r == [q EXCEPT !.step = "roleSet"]
  <2>5. r \in UserRequest /\ r.op = q.op /\ r.user = q.user /\ r.role = q.role
    BY <1>0 DEF UserRequest
  <2>6. \A v \in Users : request'[v] = IF v = me THEN r ELSE request[v]
    BY <1>0, <2>1 DEF AccountsTypeOK
  <2>7. request' \in [Users -> UserRequest \cup {Nothing}]
    BY <1>0, <2>1, <2>5 DEF AccountsTypeOK
  <2> HIDE DEF r
  <2>8. AccountsTypeOK'
    BY <1>0, <1>a, <2>1, <2>3, <2>5, <2>6, <2>7 DEF AccountsTypeOK
  <2>9. \A v \in Users : Passed(v)' => Passed(v) /\ request'[v].user = request[v].user
    BY <2>2, <2>5, <2>6 DEF Passed
  <2> QED
    BY <1>0, <2>1, <2>4, <2>8, <2>9, WriterKeeps
<1>3. CASE UpdateDisabled(me)
  <2>1. /\ q.op = "save" /\ Finish(me, "roleSet") /\ UNCHANGED <<firstUsers, roles>>
        /\ accounts' = [accounts EXCEPT ![q.user] =
                          IF @ = Absent THEN @ ELSE [@ EXCEPT !.disabled = q.disabled]]
    BY <1>3 DEF UpdateDisabled
  <2>2. Passed(me)
    BY <1>0, <2>1, FinishedTypes DEF Passed
  <2>3. accounts' \in [Users -> Account \cup {Absent}]
    <3> SUFFICES ASSUME NEW u \in Users PROVE accounts'[u] \in Account \cup {Absent}
      BY <1>a, <2>1
    <3>1. q.disabled \in BOOLEAN /\ accounts[u] \in Account \cup {Absent}
      BY <1>a
    <3>2. accounts[u] \in Account => [accounts[u] EXCEPT !.disabled = q.disabled] \in Account
      BY <3>1 DEF Account
    <3>3. accounts'[u] \in {accounts[u]} \cup
            IF accounts[u] = Absent THEN {} ELSE {[accounts[u] EXCEPT !.disabled = q.disabled]}
      BY <1>a, <2>1
    <3> QED
      BY <3>1, <3>2, <3>3
  <2>4. \A u \in Users : Protected(u) => accounts'[u] = accounts[u]
    BY <1>a, <1>b, <2>1, <2>2
  <2> HIDE DEF q
  <2> QED
    BY <1>a, <2>1, <2>3, <2>4, FinishedWrite
<1>4. CASE RemoveUser(me)
  <2>1. /\ q.op = "delete" /\ Finish(me, "checked") /\ UNCHANGED <<firstUsers, roles>>
        /\ accounts' = [accounts EXCEPT ![q.user] = Absent]
    BY <1>4 DEF RemoveUser
  <2>2. Passed(me)
    BY <1>0, <2>1, FinishedTypes DEF Passed
  <2>3. /\ accounts' \in [Users -> Account \cup {Absent}]
        /\ \A u \in Users : Protected(u) => accounts'[u] = accounts[u]
    BY <1>a, <1>b, <2>1, <2>2
  <2> HIDE DEF q
  <2> QED
    BY <1>a, <2>1, <2>3, FinishedWrite
<1>5. CASE RemoveRole(me)
  <2>1. /\ Finish(me, "checked") /\ UNCHANGED <<accounts, firstUsers>>
        /\ roles' = roles \ {q.role} /\ q.role # Admin
    BY <1>5 DEF RemoveRole
  <2> HIDE DEF q
  <2> QED
    BY <1>a, <2>1, FinishedWrite
<1> QED
  BY <1>1, <1>2, <1>3, <1>4, <1>5
-------------------------------------------------------------------------------
LEMMA AccountsInvStep == AccountsInv /\ [AccountsNext]_accountVars => AccountsInv'
<1> SUFFICES ASSUME AccountsInv, [AccountsNext]_accountVars PROVE AccountsInv'
  OBVIOUS
<1>1. CASE UNCHANGED accountVars
  BY <1>1 DEF accountVars, AccountsInv, AccountsTypeOK, Untouched, Protected, Intact, Passed, Exists
<1>2. CASE SeedCount \/ \E u \in Users : Setup(u) \/ SeedInsert(u)
  BY <1>2, FirstUserKeeps
<1>3. ASSUME NEW me \in Users,
             \/ CloseUserForm(me)
             \/ \E u \in Users : OpenNew(me, u) \/ OpenUser(me, u)
             \/ \E r \in Roles, off \in BOOLEAN : ChangeForm(me, r, off)
      PROVE  AccountsInv'
  BY <1>3, PageKeeps
<1>4. ASSUME NEW me \in Users,
             \/ SaveUser(me)
             \/ \E u \in Users : DeleteUser(me, u)
             \/ \E r \in Roles : DeleteRole(me, r)
             \/ \E u \in Users, r \in Roles, off \in BOOLEAN : CallApi(me, "save", u, r, off)
             \/ \E u \in Users : CallApi(me, "delete", u, Nothing, FALSE)
      PROVE  AccountsInv'
  BY <1>4, RequestsKeep
<1>5. ASSUME NEW me \in Users, Admit(me) \/ Check(me) \/ Refuse(me)
      PROVE  AccountsInv'
  BY <1>5, ServerReads
<1>6. ASSUME NEW me \in Users,
             \/ AddUser(me) \/ UpdateRole(me) \/ UpdateDisabled(me)
             \/ RemoveUser(me) \/ RemoveRole(me)
      PROVE  AccountsInv'
  BY <1>6, ServerWrites
<1> QED
  BY <1>1, <1>2, <1>3, <1>4, <1>5, <1>6 DEF AccountsNext

\* The types of the accounts, the dialogs and the requests.
THEOREM AccountTypesHold == AccountsSpec => []AccountsTypeOK
<1>1. AccountsInv => AccountsTypeOK
  BY DEF AccountsInv
<1> QED
  BY <1>1, AccountsInvInit, AccountsInvStep, PTL DEF AccountsSpec

\* Once there is a first user, somebody who is an enabled Admin remains.
THEOREM AdminAlwaysRemains == AccountsSpec => []AdminRemains
<1>1. AccountsInv => AdminRemains
  <2> SUFFICES ASSUME AccountsInv, firstUsers # {}
               PROVE  \E u \in Users : IsAdmin(u)
    BY DEF AdminRemains
  <2>1. PICK u \in Users : Protected(u)
    BY DEF AccountsInv
  <2>2. Admin \in roles /\ Exists(u) /\ accounts[u] = [role |-> Admin, disabled |-> FALSE]
    BY <2>1, NewAccount DEF AccountsInv, AccountsTypeOK, Protected, Intact
  <2> QED
    BY <2>2 DEF IsAdmin, Context
<1> QED
  BY <1>1, AccountsInvInit, AccountsInvStep, PTL DEF AccountsSpec
-----------------------------------------------------------------------------
(* Roles and grants.                                                       *)

\* What the dialog did not touch is as it was opened; so is what was sent of the
\* definitions that the page knew.
UntouchedAsOpened ==
  /\ roleForm # Nothing =>
       \A d \in Defs \ roleForm.touched : roleForm.grants[d] = roleForm.opened[d]
  /\ roleSave # Nothing =>
       \A d \in roleSave.listed \ roleSave.touched : roleSave.tables[d] = roleSave.opened[d]

RolesInv == RolesTypeOK /\ UntouchedAsOpened

LEMMA RolesInvInit == RolesInit => RolesInv
<1> SUFFICES ASSUME RolesInit PROVE RolesInv
  OBVIOUS
<1> USE DEF RolesInit
<1>1. RolesTypeOK
  <2>1. 0 \in 0..MaxRoleWrites
    BY RoleGrantsAssumption
  <2> QED
    BY <2>1 DEF RolesTypeOK
<1>2. UntouchedAsOpened
  BY DEF UntouchedAsOpened
<1> QED
  BY <1>1, <1>2 DEF RolesInv

LEMMA RolesInvStep == RolesInv /\ [RolesNext]_roleVars => RolesInv'
<1> SUFFICES ASSUME RolesInv, [RolesNext]_roleVars PROVE RolesInv'
  OBVIOUS
<1> USE DEF RolesInv
<1> USE RoleGrantsAssumption
<1>1. ASSUME NEW d \in Defs, AddDef(d) \/ DropDef(d) PROVE RolesInv'
  <2>1. RolesTypeOK'
    BY <1>1 DEF AddDef, DropDef, RolesTypeOK, Grants
  <2>2. UntouchedAsOpened'
    BY <1>1 DEF AddDef, DropDef, UntouchedAsOpened
  <2> QED
    BY <2>1, <2>2
<1>2. ASSUME NEW d \in Defs, NEW right \in Rights, SetGrant(d, right) PROVE RolesInv'
  <2>1. d \in Defs /\ roleForm \in RoleForm /\ roleForm.grants \in Grants
    BY <1>2 DEF SetGrant, RolesTypeOK, RoleForm
  <2> DEFINE rights == IF right \in roleForm.grants[d] THEN roleForm.grants[d] \ {right}
                       ELSE roleForm.grants[d] \cup {right}
             new == [roleForm EXCEPT !.grants = [@ EXCEPT ![d] = rights],
                                     !.touched = @ \cup {d}]
  <2>2. roleForm' = new
    BY <1>2, <2>1 DEF SetGrant
  <2>3. rights \in SUBSET Rights
    BY <2>1 DEF Grants
  <2>4. [roleForm.grants EXCEPT ![d] = rights] \in Grants
    BY <2>1, <2>3 DEF Grants
  <2>5. new \in RoleForm
    BY <2>1, <2>4 DEF RoleForm
  <2>6. \A e \in Defs \ new.touched : new.grants[e] = new.opened[e]
    BY <1>2, <2>1 DEF SetGrant, UntouchedAsOpened, RoleForm, Grants
  <2> HIDE DEF new
  <2>7. RolesTypeOK'
    BY <1>2, <2>2, <2>5 DEF SetGrant, RolesTypeOK
  <2>8. UntouchedAsOpened'
    BY <1>2, <2>2, <2>6 DEF SetGrant, UntouchedAsOpened
  <2> QED
    BY <2>7, <2>8
<1>3. ASSUME NEW g \in Grants, SaveByOther(g) PROVE RolesInv'
  <2>1. others + 1 \in 0..MaxRoleWrites
    BY <1>3 DEF SaveByOther, RolesTypeOK
  <2>2. RolesTypeOK'
    BY <1>3, <2>1 DEF SaveByOther, RolesTypeOK
  <2> QED
    BY <1>3, <2>2 DEF SaveByOther, UntouchedAsOpened
<1>4. CASE DefsArrive \/ CloseRole \/ RefuseRole \/ DropRole
  BY <1>4 DEF DefsArrive, CloseRole, RefuseRole, DropRole, RolesTypeOK, UntouchedAsOpened
<1>5. CASE OpenNewRole \/ OpenEdit
  <2>1. PICK mode \in {"new", "edit"}, g \in Grants : OpenRole(mode, g)
    BY <1>5 DEF OpenNewRole, OpenEdit, None, Grants, RolesTypeOK
  <2>2. roleForm' \in RoleForm
    BY <2>1 DEF OpenRole, RoleForm
  <2> QED
    BY <2>1, <2>2 DEF OpenRole, RolesTypeOK, UntouchedAsOpened
<1>6. CASE SaveRole
  <2>1. /\ roleForm \in RoleForm
        /\ Listed \in SUBSET Defs
    BY <1>6 DEF SaveRole, RolesTypeOK, Listed
  <2> DEFINE tables == [d \in Defs |-> IF d \in Listed THEN roleForm.grants[d] ELSE {}]
  <2>2. tables \in Grants
    BY <2>1 DEF RoleForm, Grants
  <2>3. /\ roleSave' \in RoleSave
        /\ \A d \in roleSave'.listed \ roleSave'.touched : roleSave'.tables[d] = roleSave'.opened[d]
    BY <1>6, <2>1, <2>2 DEF SaveRole, RoleSave, RoleForm, UntouchedAsOpened
  <2> QED
    BY <1>6, <2>3 DEF SaveRole, RolesTypeOK, UntouchedAsOpened
<1>7. CASE ToGrants
  <2>1. /\ roleSave' \in RoleSave
        /\ \A d \in roleSave'.listed \ roleSave'.touched : roleSave'.tables[d] = roleSave'.opened[d]
    BY <1>7 DEF ToGrants, RolesTypeOK, RoleSave, UntouchedAsOpened
  <2> QED
    BY <1>7, <2>1 DEF ToGrants, RolesTypeOK, UntouchedAsOpened
<1>8. CASE WriteRole
  <2>1. roleSave \in RoleSave
    BY <1>8 DEF WriteRole, RolesTypeOK
  <2> QED
    BY <1>8, <2>1 DEF WriteRole, RolesTypeOK, UntouchedAsOpened, RoleSave
<1>9. CASE UNCHANGED roleVars
  BY <1>9 DEF roleVars, RolesTypeOK, UntouchedAsOpened
<1> QED
  BY <1>1, <1>2, <1>3, <1>4, <1>5, <1>6, <1>7, <1>8, <1>9 DEF RolesNext

\* The types of the roles page and of the server's grants.
THEOREM RolesTypesHold == RolesSpec => []RolesTypeOK
<1>1. RolesInv => RolesTypeOK
  BY DEF RolesInv
<1> QED
  BY <1>1, RolesInvInit, RolesInvStep, PTL DEF RolesSpec

\* Saving a role changes no right on a definition that the user did not touch, as long
\* as the page knew the definition and the right had not changed since the page read it.
THEOREM UntouchedGrantsAreKept == RolesSpec => UntouchedGrantsStay
<1> DEFINE Kept ==
      WriteRole /\ roleSave.mode = "edit" =>
        \A d \in roleSave.listed \ roleSave.touched :
          grants[d] = roleSave.opened[d] => grants'[d] = grants[d]
<1>1. RolesInv /\ [RolesNext]_roleVars => [Kept]_roleVars
  BY DEF RolesInv, WriteRole, UntouchedAsOpened
<1> QED
  BY <1>1, RolesInvInit, RolesInvStep, PTL DEF RolesSpec, UntouchedGrantsStay
-----------------------------------------------------------------------------
(* Metadata: an import sends the file that was previewed, and what it      *)
(* writes refers to definitions that are there.                            *)

\* Every invariant of the page that AppliedWasPreviewed rests on: an answer to a
\* preview that is under way will be about the chosen file, and so is the one shown.
PageFollowsFile ==
  /\ upload # Nothing => upload = file /\ preview = Nothing
  /\ preview # Nothing => preview.file = file
  /\ AppliedWasPreviewed

LEMMA PageInit == ImportInit => PageFollowsFile
BY DEF ImportInit, PageFollowsFile, AppliedWasPreviewed

LEMMA PageStep == PageFollowsFile /\ [ImportNext]_importVars => PageFollowsFile'
<1> SUFFICES ASSUME PageFollowsFile, [ImportNext]_importVars PROVE PageFollowsFile'
  OBVIOUS
<1> USE DEF PageFollowsFile, AppliedWasPreviewed
<1>1. CASE \E r \in Refs : Define(r) \/ \E m \in Modes : SetMode(r, m)
  BY <1>1 DEF Define, SetMode
<1>2. CASE \E d \in locals : Undefine(d)
  BY <1>2 DEF Undefine
<1>3. CASE \E f \in Files : ChooseFile(f)
  BY <1>3 DEF ChooseFile
<1>4. CASE Previewed
  BY <1>4 DEF Previewed
<1>5. CASE PreviewFails
  BY <1>5 DEF PreviewFails
<1>6. CASE Apply
  BY <1>6 DEF Apply
<1>7. CASE Plan
  BY <1>7 DEF Plan
<1>8. CASE ApplyImport \/ ImportFails
  BY <1>8 DEF ApplyImport, ImportFails
<1>9. CASE UNCHANGED importVars
  BY <1>9 DEF importVars
<1> QED
  BY <1>1, <1>2, <1>3, <1>4, <1>5, <1>6, <1>7, <1>8, <1>9 DEF ImportNext

\* What is sent for import is the file whose contents the user has seen.
THEOREM ImportSendsPreviewed == ImportSpec => []AppliedWasPreviewed
<1>1. PageFollowsFile => AppliedWasPreviewed
  BY DEF PageFollowsFile
<1> QED
  BY <1>1, PageInit, PageStep, PTL DEF ImportSpec
-------------------------------------------------------------------------------
\* The local definition that a natural key stands for exists.
LEMMA IdOfIsLocal ==
  ASSUME NEW r \in LocalRefs
  PROVE  IdOf(r) \in LocalIds
<1>1. PICK d \in locals : d.ref = r
  BY DEF LocalRefs
<1>2. \E n \in LocalIds : \E e \in locals : e.id = n /\ e.ref = r
  BY <1>1 DEF LocalIds
<1> QED
  BY <1>2 DEF IdOf

\* An id that a definition had before an import is still some definition's.
LEMMA ImportKeepsIds ==
  ASSUME NEW ids, NEW W, NEW written,
         written = {[id |-> ids[r], ref |-> r, refersTo |-> {Resolved(ids, q) : q \in import.file[r]}] : r \in W},
         locals' = {d \in locals : d.id \notin {ids[r] : r \in W}} \cup written
  PROVE  /\ \A n \in LocalIds : n \in LocalIds'
         /\ \A r \in W : ids[r] \in LocalIds'
<1>1. \A r \in W : ids[r] \in LocalIds'
  <2> SUFFICES ASSUME NEW r \in W PROVE ids[r] \in LocalIds'
    OBVIOUS
  <2> DEFINE new == [id |-> ids[r], ref |-> r, refersTo |-> {Resolved(ids, q) : q \in import.file[r]}]
  <2>1. new \in locals' /\ new.id = ids[r]
    OBVIOUS
  <2> QED
    BY <2>1 DEF LocalIds
<1>2. ASSUME NEW n \in LocalIds PROVE n \in LocalIds'
  <2>1. PICK d \in locals : d.id = n
    BY DEF LocalIds
  <2>2. CASE d.id \in {ids[r] : r \in W}
    BY <1>1, <2>1, <2>2
  <2>3. CASE d.id \notin {ids[r] : r \in W}
    <3>1. d \in locals'
      BY <2>3
    <3> QED
      BY <2>1, <3>1 DEF LocalIds
  <2> QED
    BY <2>2, <2>3
<1> QED
  BY <1>1, <1>2

\* A committed import: each definition it wrote refers to definitions there are.
LEMMA ApplyResolves ==
  ASSUME ApplyImport
  PROVE  \A d \in locals' \ locals : d.refersTo \subseteq {e.id : e \in locals'}
<1>1. PICK ids \in [ToWrite -> 1..MaxIds] :
        /\ \A r \in ToWrite : \A q \in import.file[r] : Resolved(ids, q) # Nothing
        /\ locals' = {d \in locals : d.id \notin {ids[r] : r \in ToWrite}} \cup
                     {[id |-> ids[r], ref |-> r,
                       refersTo |-> {Resolved(ids, q) : q \in import.file[r]}] : r \in ToWrite}
  BY DEF ApplyImport
<1>2. /\ \A n \in LocalIds : n \in LocalIds'
      /\ \A r \in ToWrite : ids[r] \in LocalIds'
  BY <1>1, ImportKeepsIds
<1>3. ASSUME NEW r \in ToWrite, NEW q \in import.file[r]
      PROVE  Resolved(ids, q) \in LocalIds'
  <2>1. CASE q \in ToWrite
    BY <1>2, <2>1 DEF Resolved
  <2>2. CASE q \notin ToWrite /\ q \in LocalRefs
    BY <1>2, <2>2, IdOfIsLocal DEF Resolved
  <2>3. q \in ToWrite \/ q \in LocalRefs
    BY <1>1 DEF Resolved
  <2> QED
    BY <2>1, <2>2, <2>3
<1>4. ASSUME NEW d \in locals' \ locals
      PROVE  d.refersTo \subseteq LocalIds'
  <2>1. PICK r \in ToWrite :
          d = [id |-> ids[r], ref |-> r, refersTo |-> {Resolved(ids, q) : q \in import.file[r]}]
    BY <1>1, <1>4
  <2> QED
    BY <2>1, <1>3
<1> QED
  BY <1>4 DEF LocalIds

\* The definitions an import writes refer to definitions that are there when it commits.
THEOREM ImportReferencesResolve == ImportSpec => ImportedReferencesResolve
<1>1. ImportNext /\ imported' /\ ~imported => ApplyImport
  BY DEF ImportNext, Define, Undefine, ChooseFile, Previewed, PreviewFails, SetMode, Apply, Plan,
         ImportFails
<1>2. [ImportNext]_importVars =>
        [imported' /\ ~imported =>
           \A d \in locals' \ locals : d.refersTo \subseteq {e.id : e \in locals'}]_importVars
  BY <1>1, ApplyResolves
<1> QED
  BY <1>2, PTL DEF ImportSpec, ImportedReferencesResolve
-------------------------------------------------------------------------------
\* A plan that was made names different local definitions for different natural keys,
\* none younger than what there was.
PlanFits(p) ==
  /\ \A q, r \in Refs : p[q] = p[r] /\ p[q] # 0 => q = r
  /\ \A r \in Refs : p[r] <= lastId

ImportTyped ==
  ImportTypeOK /\ (import # Nothing /\ import.plan # Nothing => PlanFits(import.plan))

\* The ids that an import gives out are the next ones, and there are enough of them.
LEMMA NextIds ==
  ASSUME lastId \in 0..MaxIds, NEW ids, Given(ids)
  PROVE  Cardinality(ToCreate) \in Nat /\ lastId + Cardinality(ToCreate) <= MaxIds
<1> DEFINE C == ToCreate
           f == [r \in C |-> ids[r]]
<1>1. MaxIds \in Nat /\ lastId \in Nat /\ lastId <= MaxIds
  BY MetaImportAssumption
<1>2. /\ \A r \in C : ids[r] \in 1..MaxIds
      /\ \A r \in C : ids[r] \in lastId + 1 .. lastId + Cardinality(C)
      /\ \A q, r \in C : ids[q] = ids[r] => q = r
  BY DEF Given, ToCreate
<1> HIDE DEF C
<1>3. f \in Injection(C, 1..MaxIds)
  BY <1>2 DEF Injection, IsInjective
<1>4. IsFiniteSet(C)
  <2>1. IsFiniteSet(1..MaxIds)
    BY <1>1, FS_Interval
  <2> HIDE DEF f
  <2> QED
    BY <1>3, <2>1, FS_Injection
<1>5. Cardinality(C) \in Nat
  BY <1>4, FS_CardinalityType
<1>6. f \in Injection(C, lastId + 1 .. MaxIds)
  <2>1. \A r \in C : ids[r] \in lastId + 1 .. MaxIds
    BY <1>1, <1>2, <1>5
  <2> QED
    BY <1>2, <2>1 DEF Injection, IsInjective
<1>7. Cardinality(C) <= Cardinality(lastId + 1 .. MaxIds)
  <2>1. IsFiniteSet(lastId + 1 .. MaxIds)
    BY <1>1, FS_Interval
  <2> HIDE DEF f
  <2> QED
    BY <1>6, <2>1, FS_Injection
<1>8. Cardinality(lastId + 1 .. MaxIds) = MaxIds - lastId
  <2>1. lastId + 1 \in Int /\ MaxIds \in Int
    BY <1>1
  <2>2. Cardinality(lastId + 1 .. MaxIds)
          = IF lastId + 1 > MaxIds THEN 0 ELSE MaxIds - (lastId + 1) + 1
    BY <2>1, FS_Interval
  <2> QED
    BY <1>1, <2>2
<1> QED
  BY <1>1, <1>5, <1>7, <1>8 DEF C

\* The ids of what an import writes differ, and those that are not new are in use.
LEMMA WrittenIds ==
  ASSUME ImportTyped, import # Nothing, import.plan # Nothing, NEW ids, Given(ids),
         \A r \in ToWrite \ ToCreate : import.plan[r] \in LocalIds
  PROVE  /\ lastId' = lastId + Cardinality(ToCreate) => lastId' \in lastId..MaxIds
         /\ \A r \in ToWrite : ids[r] \in 1 .. lastId + Cardinality(ToCreate)
         /\ \A q, r \in ToWrite : ids[q] = ids[r] => q = r
<1>1. /\ lastId \in 0..MaxIds /\ MaxIds \in Nat /\ LocalIds \subseteq 1..lastId
      /\ import \in Import /\ import.plan \in [Refs -> 0..MaxIds] /\ import.tables \subseteq Refs
  BY MetaImportAssumption DEF ImportTyped, ImportTypeOK, Import
<1>2. Cardinality(ToCreate) \in Nat /\ lastId + Cardinality(ToCreate) <= MaxIds
  BY <1>1, NextIds
<1>3. ToWrite \subseteq Refs /\ ToCreate \subseteq ToWrite
  BY <1>1 DEF ToWrite, ToCreate
<1>4. /\ \A r \in ToWrite \ ToCreate : ids[r] = import.plan[r]
      /\ \A r \in ToCreate : ids[r] \in lastId + 1 .. lastId + Cardinality(ToCreate)
      /\ \A q, r \in ToCreate : ids[q] = ids[r] => q = r
  BY DEF Given
<1>5. \A r \in ToWrite \ ToCreate : ids[r] \in 1..lastId /\ ids[r] # 0
  <2> SUFFICES ASSUME NEW r \in ToWrite \ ToCreate PROVE ids[r] \in 1..lastId /\ ids[r] # 0
    OBVIOUS
  <2>1. ids[r] \in LocalIds
    BY <1>4
  <2>2. ids[r] \in 1..lastId
    BY <1>1, <2>1
  <2> QED
    BY <1>1, <2>2
<1>6. ASSUME NEW q \in ToWrite, NEW r \in ToWrite, ids[q] = ids[r] PROVE q = r
  <2>1. CASE q \in ToCreate /\ r \in ToCreate
    BY <1>4, <1>6, <2>1
  <2>2. CASE q \notin ToCreate /\ r \notin ToCreate
    <3>1. import.plan[q] = import.plan[r] /\ import.plan[q] # 0
      BY <1>4, <1>5, <1>6, <2>2
    <3> QED
      BY <1>3, <3>1 DEF ImportTyped, PlanFits
  <2>3. CASE q \in ToCreate /\ r \notin ToCreate
    BY <1>1, <1>2, <1>4, <1>5, <1>6, <2>3
  <2>4. CASE q \notin ToCreate /\ r \in ToCreate
    BY <1>1, <1>2, <1>4, <1>5, <1>6, <2>4
  <2> QED
    BY <2>1, <2>2, <2>3, <2>4
<1>7. \A r \in ToWrite : ids[r] \in 1 .. lastId + Cardinality(ToCreate)
  BY <1>1, <1>2, <1>4, <1>5
<1> QED
  BY <1>1, <1>2, <1>6, <1>7

LEMMA ApplyImportTyped ==
  ASSUME ImportTyped, ApplyImport
  PROVE  ImportTyped'
<1> DEFINE new(ids, r) == [id |-> ids[r], ref |-> r,
                           refersTo |-> {Resolved(ids, q) : q \in import.file[r]}]
<1>1. /\ import # Nothing /\ import.plan # Nothing
      /\ \A r \in ToWrite \ ToCreate : import.plan[r] \in LocalIds
      /\ lastId' = lastId + Cardinality(ToCreate) /\ import' = Nothing /\ imported' = TRUE
      /\ UNCHANGED <<file, preview, modes, upload>>
  BY DEF ApplyImport
<1>2. PICK ids \in [ToWrite -> 1..MaxIds] :
        /\ Given(ids)
        /\ \A r \in ToWrite : \A q \in import.file[r] : Resolved(ids, q) # Nothing
        /\ locals' = {d \in locals : d.id \notin {ids[r] : r \in ToWrite}} \cup
                     {new(ids, r) : r \in ToWrite}
  BY DEF ApplyImport
<1>3. /\ locals \subseteq Local /\ lastId \in 0..MaxIds /\ MaxIds \in Nat
      /\ LocalIds \subseteq 1..lastId /\ \A d, e \in locals : d.id = e.id => d = e
      /\ import \in Import /\ import.tables \subseteq Refs
  BY <1>1, MetaImportAssumption DEF ImportTyped, ImportTypeOK, Import
<1>4. /\ lastId' \in lastId..MaxIds /\ \A r \in ToWrite : ids[r] \in 1..lastId'
      /\ \A q, r \in ToWrite : ids[q] = ids[r] => q = r
  BY <1>1, <1>2, WrittenIds
<1>5. ASSUME NEW r \in ToWrite
      PROVE  new(ids, r) \in Local /\ new(ids, r).id = ids[r] /\ new(ids, r).id \in 1..lastId'
  <2>1. r \in Refs
    BY <1>3 DEF ToWrite
  <2>2. ASSUME NEW q \in import.file[r] PROVE Resolved(ids, q) \in 1..MaxIds
    <3>1. CASE q \in ToWrite
      BY <1>2, <3>1 DEF Resolved
    <3>2. CASE q \notin ToWrite
      <4>1. q \in LocalRefs
        BY <1>2, <2>2, <3>2 DEF Resolved
      <4>2. IdOf(q) \in 1..MaxIds
        <5>1. IdOf(q) \in LocalIds
          BY <4>1, IdOfIsLocal
        <5>2. IdOf(q) \in 1..lastId
          BY <1>3, <5>1
        <5> QED
          BY <1>3, <5>2
      <4> QED
        BY <3>2, <4>1, <4>2 DEF Resolved
    <3> QED
      BY <3>1, <3>2
  <2>3. {Resolved(ids, q) : q \in import.file[r]} \in SUBSET (1..MaxIds)
    BY <2>2
  <2> QED
    BY <1>2, <1>4, <2>1, <2>3 DEF Local
<1> DEFINE kept == {d \in locals : d.id \notin {ids[r] : r \in ToWrite}}
           written == {new(ids, r) : r \in ToWrite}
<1>6. /\ locals' = kept \cup written
      /\ \A d \in kept : d \in locals /\ \A r \in ToWrite : d.id # ids[r]
      /\ \A d \in written : \E r \in ToWrite : d = new(ids, r)
  BY <1>2
<1> HIDE DEF kept, written, new
<1>7. locals' \subseteq Local
  BY <1>3, <1>5, <1>6
<1>8. LocalIds' \subseteq 1..lastId'
  <2> SUFFICES ASSUME NEW d \in locals' PROVE d.id \in 1..lastId'
    BY DEF LocalIds
  <2>1. CASE d \in kept
    <3>1. d.id \in 1..lastId
      BY <1>3, <1>6, <2>1 DEF LocalIds
    <3> QED
      BY <1>3, <1>4, <3>1
  <2>2. CASE d \in written
    BY <1>5, <1>6, <2>2
  <2> QED
    BY <1>6, <2>1, <2>2
<1>9. ASSUME NEW d \in locals', NEW e \in locals', d.id = e.id PROVE d = e
  <2>1. CASE d \in kept /\ e \in kept
    BY <1>3, <1>6, <1>9, <2>1
  <2>2. CASE d \in written /\ e \in written
    BY <1>4, <1>5, <1>6, <1>9, <2>2
  <2>3. CASE (d \in kept /\ e \in written) \/ (d \in written /\ e \in kept)
    BY <1>5, <1>6, <1>9, <2>3
  <2> QED
    BY <1>6, <2>1, <2>2, <2>3
<1>10. lastId' \in 0..MaxIds
  BY <1>3, <1>4
<1> QED
  BY <1>1, <1>7, <1>8, <1>9, <1>10 DEF ImportTyped, ImportTypeOK

\* A plan finds, for each natural key, a definition there is.
LEMMA PlanTyped ==
  ASSUME ImportTyped, Plan
  PROVE  ImportTyped'
<1>0. PICK p : p = [r \in Refs |-> IF r \in LocalRefs THEN IdOf(r) ELSE 0]
  OBVIOUS
<1>1. /\ import # Nothing /\ import' = [import EXCEPT !.plan = p]
      /\ UNCHANGED <<locals, lastId, file, preview, modes, upload, imported>>
  BY <1>0 DEF Plan
<1>2. /\ lastId \in 0..MaxIds /\ MaxIds \in Nat /\ LocalIds \subseteq 1..lastId
      /\ import \in Import /\ \A d, e \in locals : d.id = e.id => d = e
  BY <1>1, MetaImportAssumption DEF ImportTyped, ImportTypeOK
<1>3. \A r \in Refs : /\ r \in LocalRefs => p[r] \in 1..lastId /\ p[r] = IdOf(r)
                      /\ r \notin LocalRefs => p[r] = 0
  BY <1>0, <1>2, IdOfIsLocal
<1>4. p \in [Refs -> 0..MaxIds] /\ \A r \in Refs : p[r] <= lastId
  <2>1. \A r \in Refs : p[r] \in 0..MaxIds /\ p[r] <= lastId
    BY <1>2, <1>3
  <2> QED
    BY <1>0, <2>1
<1>5. ASSUME NEW q \in Refs, NEW r \in Refs, p[q] = p[r], p[q] # 0 PROVE q = r
  <2>1. q \in LocalRefs /\ r \in LocalRefs /\ IdOf(q) = IdOf(r)
    BY <1>3, <1>5
  <2>2. ASSUME NEW s \in LocalRefs PROVE \E d \in locals : d.id = IdOf(s) /\ d.ref = s
    BY <2>2 DEF IdOf, LocalIds, LocalRefs
  <2> QED
    BY <1>2, <2>1, <2>2
<1>6. import' \in Import /\ import'.plan = p
  BY <1>1, <1>2, <1>4 DEF Import
<1>7. PlanFits(p)'
  BY <1>1, <1>4, <1>5 DEF PlanFits
<1> QED
  BY <1>1, <1>6, <1>7 DEF ImportTyped, ImportTypeOK, LocalIds

LEMMA ImportTypedInit == ImportInit => ImportTyped
<1> SUFFICES ASSUME ImportInit PROVE ImportTyped
  OBVIOUS
<1>1. MaxIds \in Nat /\ MaxIds >= 1
  BY MetaImportAssumption
<1>2. CASE locals = {}
  <2>1. lastId = 0
    BY <1>2, FS_EmptySet DEF ImportInit
  <2> QED
    <3>1. LocalIds = {} /\ lastId \in 0..MaxIds
      BY <1>1, <1>2, <2>1 DEF LocalIds
    <3> QED
      BY <1>2, <3>1 DEF ImportInit, ImportTyped, ImportTypeOK
<1>3. ASSUME NEW r \in Refs, locals = {[id |-> 1, ref |-> r, refersTo |-> {}]} PROVE ImportTyped
  <2>1. lastId = 1
    BY <1>3, FS_Singleton DEF ImportInit
  <2>2. locals \subseteq Local /\ \A d \in locals : d.id = 1
    BY <1>1, <1>3 DEF Local
  <2>3. LocalIds \subseteq 1..lastId /\ \A d, e \in locals : d = e
    BY <1>3, <2>1, <2>2 DEF LocalIds
  <2> QED
    <3>1. lastId \in 0..MaxIds
      BY <1>1, <2>1
    <3> QED
      BY <2>2, <2>3, <3>1 DEF ImportInit, ImportTyped, ImportTypeOK
<1> QED
  BY <1>2, <1>3 DEF ImportInit

LEMMA ImportTypedStep ==
  ImportTyped /\ PageFollowsFile /\ [ImportNext]_importVars => ImportTyped'
<1> SUFFICES ASSUME ImportTyped, PageFollowsFile, [ImportNext]_importVars PROVE ImportTyped'
  OBVIOUS
<1>0. /\ locals \subseteq Local /\ lastId \in 0..MaxIds /\ LocalIds \subseteq 1..lastId
      /\ MaxIds \in Nat /\ ImportTypeOK
  BY MetaImportAssumption DEF ImportTyped, ImportTypeOK
<1>1. ASSUME NEW r \in Refs, Define(r) PROVE ImportTyped'
  <2> DEFINE n == [id |-> lastId + 1, ref |-> r, refersTo |-> {}]
  <2>1. /\ lastId < MaxIds /\ lastId' = lastId + 1 /\ locals' = locals \cup {n}
        /\ UNCHANGED <<file, preview, modes, upload, import, imported>>
    BY <1>1 DEF Define
  <2>2. n \in Local /\ n.id = lastId + 1 /\ lastId' \in 0..MaxIds
    BY <1>0, <2>1 DEF Local
  <2> HIDE DEF n
  <2>3. \A d \in locals : d.id \in 1..lastId
    BY <1>0 DEF LocalIds
  <2>4. /\ locals' \subseteq Local /\ LocalIds' \subseteq 1..lastId'
        /\ \A d, e \in locals' : d.id = e.id => d = e
    BY <1>0, <2>1, <2>2, <2>3 DEF LocalIds, ImportTypeOK
  <2>5. \A p \in [Refs -> 0..MaxIds] : PlanFits(p) => PlanFits(p)'
    BY <1>0, <2>1 DEF PlanFits
  <2>6. import # Nothing /\ import.plan # Nothing => import.plan \in [Refs -> 0..MaxIds]
    BY <1>0 DEF ImportTypeOK, Import
  <2> QED
    BY <1>0, <2>1, <2>2, <2>4, <2>5, <2>6 DEF ImportTyped, ImportTypeOK
<1>2. ASSUME NEW d \in locals, Undefine(d) PROVE ImportTyped'
  BY <1>0, <1>2 DEF Undefine, ImportTyped, ImportTypeOK, LocalIds, PlanFits
<1>3. ASSUME NEW f \in Files, ChooseFile(f) PROVE ImportTyped'
  BY <1>0, <1>3 DEF ChooseFile, ImportTyped, ImportTypeOK, LocalIds, PlanFits
<1>4. CASE Previewed \/ PreviewFails \/ \E r \in Refs, m \in Modes : SetMode(r, m)
  <2>1. /\ UNCHANGED <<locals, lastId, file, import>> /\ upload' \in Files \cup {Nothing}
        /\ imported' \in BOOLEAN /\ (preview' # Nothing => DOMAIN modes' = DOMAIN preview'.file)
    <3>1. CASE Previewed
      BY <1>0, <3>1 DEF Previewed, ImportTypeOK
    <3>2. CASE PreviewFails \/ \E r \in Refs, m \in Modes : SetMode(r, m)
      BY <1>0, <3>2 DEF PreviewFails, SetMode, ImportTypeOK
    <3> QED
      BY <1>4, <3>1, <3>2
  <2> QED
    BY <1>0, <2>1 DEF ImportTyped, ImportTypeOK, LocalIds, PlanFits
<1>5. CASE Apply
  <2>1. /\ file # Nothing /\ preview # Nothing
        /\ import' = [file |-> file, seen |-> preview.file, tables |-> Selected, plan |-> Nothing]
        /\ UNCHANGED <<locals, lastId, file, preview, modes, upload, imported>>
    BY <1>5 DEF Apply
  <2>2. file \in Files /\ preview.file = file /\ Selected \subseteq Refs
    BY <1>0, <2>1, MetaImportAssumption DEF PageFollowsFile, ImportTypeOK, Selected
  <2>3. import' \in Import /\ import'.plan = Nothing
    BY <2>1, <2>2 DEF Import
  <2> QED
    BY <1>0, <2>1, <2>3 DEF ImportTyped, ImportTypeOK, LocalIds
<1>6. CASE Plan
  BY <1>6, PlanTyped
<1>7. CASE ApplyImport
  BY <1>7, ApplyImportTyped
<1>8. CASE ImportFails
  BY <1>0, <1>8 DEF ImportFails, ImportTyped, ImportTypeOK, LocalIds
<1>9. CASE UNCHANGED importVars
  BY <1>0, <1>9 DEF importVars, ImportTyped, ImportTypeOK, LocalIds, PlanFits
<1> QED
  BY <1>1, <1>2, <1>3, <1>4, <1>5, <1>6, <1>7, <1>8, <1>9 DEF ImportNext

\* The types of definitions, page and import; ids identify definitions and none is given
\* out twice, whatever comes and goes between the plan and the transaction
\* (internal/meta/metatransfer.go).
THEOREM ImportTypesHold == ImportSpec => []ImportTypeOK
<1>1. ImportTyped => ImportTypeOK
  BY DEF ImportTyped
<1> QED
  BY <1>1, ImportTypedInit, ImportTypedStep, PageInit, PageStep, PTL DEF ImportSpec
-----------------------------------------------------------------------------
(* CSV files: what the dialog holds is about the chosen file, and so is an *)
(* answer on its way to it.                                                *)

\* What the page shows is about the chosen file, unless a revalidation was overtaken.
PreviewIsOfFile ==
  checked # Nothing /\ ~overtaken => csv # Nothing /\ checked.file = csv /\ mappingOf = csv

\* The rows an import has been through.
Through(load) == Tried(load) \cap 1..load.at - 1

RowsCounted(load) ==
  /\ load.valid \subseteq 1..RowsIn[load.file] /\ load.at \in 1..RowsIn[load.file] + 1
  /\ load.inserted = Len(loaded)
  /\ load.inserted + load.failed = Cardinality(Through(load))
  /\ \A i \in 1..Len(loaded) : loaded[i] \in Through(load)
  /\ \A i, j \in 1..Len(loaded) : i < j => loaded[i] < loaded[j]

LoadCounts ==
  loading # Nothing =>
    /\ loadReport = Nothing
    /\ ~loading.overtaken => loading.seen = loading.file /\ loading.mappingOf = loading.file
    /\ loading.step = "sent" =>
         loading.at = 1 /\ loading.inserted = 0 /\ loading.failed = 0 /\ loaded = <<>>
    /\ loading.step # "sent" => RowsCounted(loading)
    /\ loading.step # "hooks" => handed = <<>>
    /\ loading.step = "hooks" =>
         /\ loading.at = RowsIn[loading.file] + 1 /\ Len(handed) <= Len(loaded)
         /\ \A i \in 1..Len(handed) : handed[i] = loaded[i]

CsvInv ==
  /\ CsvTypeOK /\ loaded \in Seq(Nat) /\ handed \in Seq(Nat)
  /\ PreviewIsOfFile /\ LoadCounts /\ LoadReportHolds

LEMMA CsvInvInit == CsvInit => CsvInv
<1> SUFFICES ASSUME CsvInit PROVE CsvInv
  OBVIOUS
<1>1. loaded \in Seq(Nat) /\ handed \in Seq(Nat)
  BY DEF CsvInit
<1>3. CsvTypeOK
  BY Zenon DEF CsvInit, CsvTypeOK
<1>2. PreviewIsOfFile /\ LoadCounts /\ LoadReportHolds
  BY DEF CsvInit, PreviewIsOfFile, LoadCounts, LoadReportHolds
<1> QED
  BY <1>1, <1>2, <1>3 DEF CsvInv

\* Steps of the page leave the import alone.
LEMMA CsvPageKeeps ==
  ASSUME CsvInv, UNCHANGED <<loading, loaded, audited, handed>>,
         loadReport' \in {loadReport, Nothing}, CsvTypeOK', PreviewIsOfFile'
  PROVE  CsvInv'
BY DEF CsvInv, LoadCounts, LoadReportHolds, RowsCounted, Through, Tried

LEMMA CsvPageActionsKeep ==
  ASSUME CsvInv, NEW f \in Csvs, NEW g \in Csvs \cup {Nothing}, NEW valid \in SUBSET (1..RowsIn[f]),
         \/ ChooseCsv(g) \/ Analysed(valid) \/ NotAnalysed \/ Recheck \/ Rechecked(valid) \/ RecheckFails
  PROVE  CsvInv'
<1> USE CsvAssumption
<1>0. CsvTypeOK /\ PreviewIsOfFile /\ audited = loaded /\ valid \in SUBSET (Nat \ {0})
  BY DEF CsvInv, CsvTypeOK
<1>1. CASE ChooseCsv(g)
  <2>1. CsvTypeOK' /\ PreviewIsOfFile'
    BY <1>0, <1>1 DEF ChooseCsv, CsvTypeOK, PreviewIsOfFile
  <2> QED
    BY <1>1, <2>1, CsvPageKeeps DEF ChooseCsv
<1>2. CASE Analysed(valid)
  <2>1. analysing = csv /\ analysing \in Csvs
    BY <1>0, <1>2 DEF Analysed, CsvTypeOK
  <2>2. checked' \in Checked /\ checked'.file = csv
    BY <1>0, <1>2, <2>1 DEF Analysed, Checked
  <2>3. CsvTypeOK' /\ PreviewIsOfFile'
    BY <1>0, <1>2, <2>1, <2>2 DEF Analysed, CsvTypeOK, PreviewIsOfFile
  <2> QED
    BY <1>2, <2>3, CsvPageKeeps DEF Analysed
<1>3. CASE NotAnalysed
  <2>1. CsvTypeOK' /\ PreviewIsOfFile'
    BY <1>0, <1>3 DEF NotAnalysed, CsvTypeOK, PreviewIsOfFile
  <2> QED
    BY <1>3, <2>1, CsvPageKeeps DEF NotAnalysed
<1>4. CASE Recheck
  <2>1. CsvTypeOK' /\ PreviewIsOfFile'
    BY <1>0, <1>4 DEF Recheck, CsvTypeOK, PreviewIsOfFile
  <2> QED
    BY <1>4, <2>1, CsvPageKeeps DEF Recheck
<1>5. CASE Rechecked(valid)
  <2>1. rechecking \in Csvs
    BY <1>0, <1>5 DEF Rechecked, CsvTypeOK
  <2>2. checked' \in Checked /\ checked'.file = rechecking
    BY <1>0, <1>5, <2>1 DEF Rechecked, Checked
  <2>3. CsvTypeOK' /\ PreviewIsOfFile'
    BY <1>0, <1>5, <2>1, <2>2 DEF Rechecked, CsvTypeOK, PreviewIsOfFile
  <2> QED
    BY <1>5, <2>3, CsvPageKeeps DEF Rechecked
<1>6. CASE RecheckFails
  <2>1. CsvTypeOK' /\ PreviewIsOfFile'
    BY <1>0, <1>6 DEF RecheckFails, CsvTypeOK, PreviewIsOfFile
  <2> QED
    BY <1>6, <2>1, CsvPageKeeps DEF RecheckFails
<1> QED
  BY <1>1, <1>2, <1>3, <1>4, <1>5, <1>6

\* Steps of the server leave the page alone.
LEMMA CsvServerKeeps ==
  ASSUME CsvInv, UNCHANGED csvPage, loading' \in Loading \cup {Nothing},
         loadReport' \in Loading \cup {Nothing}, audited' = loaded',
         loaded' \in Seq(Nat), handed' \in Seq(Nat), LoadCounts', LoadReportHolds'
  PROVE  CsvInv'
BY DEF CsvInv, csvPage, CsvTypeOK, PreviewIsOfFile

LEMMA LoadKeeps ==
  ASSUME CsvInv, NEW mode \in {"valid", "all"}, Load(mode)
  PROVE  CsvInv'
<1> DEFINE new == [file |-> csv, seen |-> checked.file, mappingOf |-> mappingOf,
                   overtaken |-> overtaken, mode |-> mode, step |-> "sent",
                   valid |-> {}, at |-> 1, inserted |-> 0, failed |-> 0]
<1>1. checked \in Checked /\ csv \in Csvs /\ mappingOf \in Csvs \cup {Nothing} /\ overtaken \in BOOLEAN
  BY DEF CsvInv, CsvTypeOK, Load
<1>2. new \in Loading
  BY <1>1 DEF Loading, Checked
<1>3. /\ new.at = 1 /\ new.inserted = 0 /\ new.failed = 0 /\ new.step = "sent"
      /\ ~new.overtaken => new.seen = new.file /\ new.mappingOf = new.file
  BY <1>1 DEF CsvInv, PreviewIsOfFile, Load
<1> HIDE DEF new
<1>4. /\ loading' = new /\ loadReport = Nothing /\ loadReport' = loadReport
      /\ loaded' = <<>> /\ audited' = <<>> /\ handed' = <<>> /\ UNCHANGED csvPage
  BY DEF Load, new
<1>5. LoadCounts' /\ LoadReportHolds'
  BY <1>3, <1>4 DEF LoadCounts, LoadReportHolds
<1> QED
  BY <1>2, <1>4, <1>5, CsvServerKeeps

\* The rows that were to be inserted, up to the next row.
LEMMA ThroughNext ==
  ASSUME NEW load \in Loading, NEW next \in Loading, load.at \in 1..RowsIn[load.file],
         next.at = load.at + 1, next.file = load.file, next.mode = load.mode, next.valid = load.valid,
         RowsIn[load.file] \in Nat
  PROVE  /\ IsFiniteSet(Through(load)) /\ Cardinality(Through(load)) \in Nat
         /\ Through(load) \subseteq Through(next) /\ \A n \in Through(load) : n \in Nat /\ n < load.at
         /\ IF load.at \in Tried(load)
            THEN /\ load.at \in Through(next)
                 /\ Cardinality(Through(next)) = Cardinality(Through(load)) + 1
            ELSE Through(next) = Through(load)
<1> DEFINE S == Tried(load)
           a == load.at
<1>1. a \in Nat /\ a >= 1 /\ Through(load) = S \cap 1..a - 1 /\ Through(next) = S \cap 1..a
  BY DEF Through, Tried, Loading
<1>2. IsFiniteSet(1..a - 1) /\ Through(load) \in SUBSET (1..a - 1)
  <2>1. 1 \in Int /\ a - 1 \in Int
    BY <1>1
  <2>2. IsFiniteSet(1..a - 1)
    BY <2>1, FS_Interval
  <2> QED
    BY <1>1, <2>2
<1>3. IsFiniteSet(Through(load)) /\ Cardinality(Through(load)) \in Nat
  BY <1>2, FS_Subset, FS_CardinalityType
<1>4. Through(next) = IF a \in S THEN Through(load) \cup {a} ELSE Through(load)
  BY <1>1
<1>5. a \notin Through(load) /\ \A n \in Through(load) : n \in Nat /\ n < a
  BY <1>1
<1>6. CASE a \in S
  <2>1. Through(next) = Through(load) \cup {a}
    BY <1>4, <1>6
  <2>2. Cardinality(Through(next)) = Cardinality(Through(load)) + 1
    BY ZenonT(60), <1>3, <1>5, <2>1, FS_AddElement
  <2> QED
    BY <1>3, <1>5, <1>6, <2>1, <2>2
<1>7. CASE a \notin S
  BY <1>3, <1>4, <1>5, <1>7
<1> QED
  BY <1>6, <1>7

LEMMA RowKeeps ==
  ASSUME CsvInv, SkipRow \/ InsertRow \/ RowFails
  PROVE  CsvInv'
<1> DEFINE n == loading.at
<1>1. /\ loading \in Loading /\ loading # Nothing /\ loading.step = "rows" /\ n \in Nat /\ loadReport = Nothing
      /\ RowsCounted(loading) /\ handed = <<>> /\ UNCHANGED csvPage /\ loadReport' = loadReport
      /\ handed' = handed /\ RowsIn[loading.file] \in Nat /\ n \in 1..RowsIn[loading.file]
      /\ audited = loaded /\ loaded \in Seq(Nat) /\ loading.inserted \in Nat /\ loading.failed \in Nat
  <2>1. /\ AtRow /\ UNCHANGED <<csvPage, loadReport, handed>>
        /\ loading \in Loading /\ loading # Nothing /\ LoadCounts /\ audited = loaded /\ loaded \in Seq(Nat)
    BY DEF CsvInv, CsvTypeOK, AtRow, SkipRow, InsertRow, RowFails
  <2>2. /\ loading.step = "rows" /\ loadReport = Nothing /\ RowsCounted(loading) /\ handed = <<>>
        /\ loading.at <= RowsIn[loading.file] /\ loading.file \in Csvs
        /\ loading.inserted \in Nat /\ loading.failed \in Nat /\ loading.at \in Nat
    BY <2>1 DEF AtRow, LoadCounts, Loading
  <2>3. RowsIn[loading.file] \in Nat /\ n \in 1..RowsIn[loading.file]
    BY <2>2, CsvAssumption DEF RowsCounted
  <2> QED
    BY <2>1, <2>2, <2>3
<1>2. n \in Tried(loading) <=> ~Skipped
  BY <1>1 DEF Tried, Skipped, Loading
<1>3. ~loading.overtaken => loading.seen = loading.file /\ loading.mappingOf = loading.file
  BY <1>1 DEF CsvInv, LoadCounts
<1>4. ASSUME NEW ins \in {0, 1}, NEW bad \in {0, 1}, ins + bad = (IF Skipped THEN 0 ELSE 1),
             NEW I \in Nat, NEW F \in Nat, I = loading.inserted + ins, F = loading.failed + bad,
             loading' = [loading EXCEPT !.at = n + 1, !.inserted = I, !.failed = F],
             loaded' = IF ins = 1 THEN Append(loaded, n) ELSE loaded, audited' = loaded'
      PROVE  CsvInv'
  <2>1. /\ loading' \in Loading /\ loading'.at = n + 1 /\ loading'.inserted = loading.inserted + ins
        /\ loading'.failed = loading.failed + bad /\ loading'.step = "rows"
        /\ loading'.file = loading.file /\ loading'.mode = loading.mode /\ loading'.valid = loading.valid
        /\ loading'.overtaken = loading.overtaken /\ loading'.seen = loading.seen
        /\ loading'.mappingOf = loading.mappingOf
    <3>1. n + 1 \in Nat
      BY <1>1
    <3> DEFINE m == n + 1
    <3>2. loading' = [loading EXCEPT !.at = m, !.inserted = I, !.failed = F] /\ m \in Nat
      BY <1>4, <3>1
    <3> HIDE DEF m
    <3>3. /\ loading' \in Loading /\ loading'.at = m /\ loading'.inserted = I
          /\ loading'.failed = F /\ loading'.step = loading.step
          /\ loading'.file = loading.file /\ loading'.mode = loading.mode /\ loading'.valid = loading.valid
          /\ loading'.overtaken = loading.overtaken /\ loading'.seen = loading.seen
          /\ loading'.mappingOf = loading.mappingOf
      BY <1>1, <3>2 DEF Loading
    <3> QED
      BY <1>1, <1>4, <3>3 DEF m
  <2> DEFINE next == loading'
  <2>2. /\ IsFiniteSet(Through(loading)) /\ Cardinality(Through(loading)) \in Nat
        /\ Through(loading) \subseteq Through(next) /\ \A k \in Through(loading) : k \in Nat /\ k < n
        /\ IF n \in Tried(loading)
           THEN n \in Through(next) /\ Cardinality(Through(next)) = Cardinality(Through(loading)) + 1
           ELSE Through(next) = Through(loading)
    <3> HIDE DEF next
    <3>1. next \in Loading /\ next.at = loading.at + 1 /\ next.file = loading.file /\ next.mode = loading.mode
          /\ next.valid = loading.valid
      BY <2>1 DEF next
    <3> QED
      BY <1>1, <3>1, ThroughNext
  <2>3. /\ loaded' \in Seq(Nat) /\ Len(loaded') = Len(loaded) + ins
        /\ \A i \in 1..Len(loaded) : loaded'[i] = loaded[i]
        /\ ins = 1 => loaded'[Len(loaded) + 1] = n
    BY <1>1, <1>4
  <2>4. ins = 1 => n \in Tried(loading)
    BY <1>2, <1>4
  <2>5. Cardinality(Through(next)) = Cardinality(Through(loading)) + ins + bad
    BY <1>2, <1>4, <2>2
  <2>6. \A i \in 1..Len(loaded') : loaded'[i] \in Through(next)
    <3> SUFFICES ASSUME NEW i \in 1..Len(loaded') PROVE loaded'[i] \in Through(next)
      OBVIOUS
    <3>1. i \in 1..Len(loaded) \/ (ins = 1 /\ i = Len(loaded) + 1)
      BY <1>1, <1>4, <2>3
    <3>2. \A k \in 1..Len(loaded) : loaded[k] \in Through(loading)
      BY <1>1 DEF RowsCounted
    <3> HIDE DEF next, n
    <3>3. CASE i \in 1..Len(loaded)
      BY <2>2, <2>3, <3>2, <3>3
    <3>4. CASE ins = 1 /\ i = Len(loaded) + 1
      BY <2>2, <2>3, <2>4, <3>4
    <3> QED
      BY <3>1, <3>3, <3>4
  <2>7. \A i, j \in 1..Len(loaded') : i < j => loaded'[i] < loaded'[j]
    <3> SUFFICES ASSUME NEW i \in 1..Len(loaded'), NEW j \in 1..Len(loaded'), i < j
                 PROVE  loaded'[i] < loaded'[j]
      OBVIOUS
    <3>1. i \in 1..Len(loaded) /\ Len(loaded) \in Nat
      BY SMTT(60), <1>1, <1>4, <2>3
    <3>2. CASE j \in 1..Len(loaded)
      BY <1>1, <2>3, <3>1, <3>2 DEF RowsCounted
    <3>3. CASE j \notin 1..Len(loaded)
      <4>1. j = Len(loaded) + 1 /\ ins = 1
        BY <1>4, <2>3, <3>1, <3>3
      <4>2. loaded[i] < n
        BY <1>1, <2>2, <3>1 DEF RowsCounted
      <4> QED
        BY <2>3, <3>1, <4>1, <4>2
    <3> QED
      BY <3>2, <3>3
  <2>8. next.inserted = Len(loaded') /\ next.inserted + next.failed = Cardinality(Through(next))
    <3>1. /\ loading.inserted = Len(loaded)
          /\ loading.inserted + loading.failed = Cardinality(Through(loading))
      BY <1>1 DEF RowsCounted
    <3>2. next.inserted = loading.inserted + ins /\ next.failed = loading.failed + bad
      BY <2>1
    <3> HIDE DEF next
    <3>3. next.inserted = Len(loaded')
      BY <2>3, <3>1, <3>2
    <3>4. /\ loading.inserted \in Nat /\ loading.failed \in Nat /\ ins \in Nat /\ bad \in Nat
          /\ Cardinality(Through(loading)) \in Nat
      BY <1>1, <2>2
    <3>5. ASSUME NEW a \in Nat, NEW b \in Nat, NEW i \in Nat, NEW f \in Nat, NEW s \in Nat,
                 a + b = s
          PROVE  (a + i) + (b + f) = s + i + f
      BY <3>5
    <3>6. (loading.inserted + ins) + (loading.failed + bad) = Cardinality(Through(loading)) + ins + bad
      BY <3>1, <3>4, <3>5
    <3>7. next.inserted + next.failed = Cardinality(Through(next))
      BY Zenon, <2>5, <3>2, <3>6
    <3> QED
      BY <3>3, <3>7
  <2>9. next.at \in 1..RowsIn[next.file] + 1 /\ next.valid \subseteq 1..RowsIn[next.file]
    BY <1>1, <2>1 DEF RowsCounted
  <2>10. RowsCounted(loading)'
    BY <2>6, <2>7, <2>8, <2>9 DEF RowsCounted, Through, Tried
  <2>11. LoadCounts'
    BY <1>1, <1>3, <2>1, <2>10 DEF LoadCounts
  <2>12. LoadReportHolds'
    BY <1>1 DEF LoadReportHolds
  <2>13. handed' \in Seq(Nat) /\ loadReport' \in Loading \cup {Nothing}
    BY <1>1
  <2> QED
    BY <1>1, <1>4, <2>1, <2>3, <2>11, <2>12, <2>13, CsvServerKeeps
<1>5. CASE SkipRow
  <2> DEFINE I == loading.inserted + 0
             F == loading.failed + 0
             m == n + 1
  <2>1. /\ I \in Nat /\ F \in Nat /\ m \in Nat /\ I = loading.inserted + 0 /\ F = loading.failed + 0
        /\ (0 + 0 = IF Skipped THEN 0 ELSE 1) /\ m = n + 1
        /\ loaded' = (IF 0 = 1 THEN Append(loaded, n) ELSE loaded) /\ audited' = loaded'
    BY <1>1, <1>5 DEF SkipRow
  <2>2. loading' = [loading EXCEPT !.at = m]
    BY <1>1, <1>5 DEF SkipRow
  <2>3. I = loading.inserted /\ F = loading.failed
    BY <1>1
  <2> HIDE DEF I, F, m
  <2>4. loading' = [loading EXCEPT !.at = m, !.inserted = I, !.failed = F]
    BY <1>1, <2>2, <2>3 DEF Loading
  <2> QED
    BY <1>4, <2>1, <2>4
<1>6. CASE InsertRow
  <2> DEFINE I == loading.inserted + 1
             F == loading.failed + 0
             m == n + 1
  <2>1. /\ I \in Nat /\ F \in Nat /\ m \in Nat /\ I = loading.inserted + 1 /\ F = loading.failed + 0
        /\ (1 + 0 = IF Skipped THEN 0 ELSE 1) /\ m = n + 1
        /\ loaded' = (IF 1 = 1 THEN Append(loaded, n) ELSE loaded) /\ audited' = loaded'
    BY <1>1, <1>6 DEF InsertRow
  <2>2. loading' = [loading EXCEPT !.at = m, !.inserted = I]
    BY <1>1, <1>6 DEF InsertRow
  <2>3. F = loading.failed
    BY <1>1
  <2> HIDE DEF I, F, m
  <2>4. loading' = [loading EXCEPT !.at = m, !.inserted = I, !.failed = F]
    BY <1>1, <2>2, <2>3 DEF Loading
  <2> QED
    BY <1>4, <2>1, <2>4
<1>7. CASE RowFails
  <2> DEFINE I == loading.inserted + 0
             F == loading.failed + 1
             m == n + 1
  <2>1. /\ I \in Nat /\ F \in Nat /\ m \in Nat /\ I = loading.inserted + 0 /\ F = loading.failed + 1
        /\ (0 + 1 = IF Skipped THEN 0 ELSE 1) /\ m = n + 1
        /\ loaded' = (IF 0 = 1 THEN Append(loaded, n) ELSE loaded) /\ audited' = loaded'
    BY <1>1, <1>7 DEF RowFails
  <2>2. loading' = [loading EXCEPT !.at = m, !.failed = F]
    BY <1>1, <1>7 DEF RowFails
  <2>3. I = loading.inserted
    BY <1>1
  <2> HIDE DEF I, F, m
  <2>4. loading' = [loading EXCEPT !.at = m, !.inserted = I, !.failed = F]
    BY <1>1, <2>2, <2>3 DEF Loading
  <2> QED
    BY <1>4, <2>1, <2>4
<1> QED
  BY <1>5, <1>6, <1>7

LEMMA LoadStepsKeep ==
  ASSUME CsvInv, NEW f \in Csvs, NEW valid \in SUBSET (1..RowsIn[f]),
         CheckRows(valid) \/ RowsDone \/ HandOver \/ Loaded \/ LoadFails
  PROVE  CsvInv'
<1>0. /\ loading \in Loading /\ loading # Nothing /\ loadReport = Nothing
      /\ LoadCounts /\ audited = loaded /\ loaded \in Seq(Nat) /\ handed \in Seq(Nat)
      /\ RowsIn[loading.file] \in Nat /\ UNCHANGED <<csvPage, loaded, audited>>
  BY CsvAssumption DEF CsvInv, CsvTypeOK, LoadCounts, CheckRows, RowsDone, HandOver, Loaded, LoadFails,
                       Loading
<1>1. CASE CheckRows(valid)
  <2>1. valid \subseteq 1..RowsIn[loading.file] /\ valid \in SUBSET (Nat \ {0})
        /\ loading.step = "sent" /\ handed' = handed /\ loadReport' = loadReport
        /\ loading' = [loading EXCEPT !.step = "rows", !.valid = valid]
    BY <1>0, <1>1 DEF CheckRows
  <2>2. /\ loading' \in Loading /\ loading'.step = "rows" /\ loading'.valid = valid
        /\ loading'.at = loading.at /\ loading'.inserted = loading.inserted
        /\ loading'.failed = loading.failed /\ loading'.file = loading.file
        /\ loading'.overtaken = loading.overtaken /\ loading'.seen = loading.seen
        /\ loading'.mappingOf = loading.mappingOf
    BY <1>0, <2>1 DEF Loading
  <2>3. loading.at = 1 /\ loading.inserted = 0 /\ loading.failed = 0 /\ loaded = <<>> /\ handed = <<>>
    BY <1>0, <2>1 DEF LoadCounts
  <2>4. Through(loading)' = {} /\ Cardinality({}) = 0
    BY <2>2, <2>3, FS_EmptySet DEF Through
  <2>5. RowsCounted(loading)'
    <3>1. loading'.inserted + loading'.failed = Cardinality(Through(loading)') /\ Len(loaded') = 0
      BY <1>0, <2>2, <2>3, <2>4
    <3>2. 1 \in 1..RowsIn[loading.file] + 1
      BY <1>0
    <3> QED
      BY <1>0, <2>1, <2>2, <2>3, <3>1, <3>2 DEF RowsCounted
  <2>6. LoadCounts' /\ LoadReportHolds'
    BY <1>0, <2>1, <2>2, <2>3, <2>5 DEF LoadCounts, LoadReportHolds
  <2> QED
    BY <1>0, <2>1, <2>2, <2>6, CsvServerKeeps
<1>2. CASE RowsDone
  <2>1. /\ loading.step = "rows" /\ loading.at > RowsIn[loading.file] /\ handed' = handed
        /\ loadReport' = loadReport /\ loading' = [loading EXCEPT !.step = "hooks"]
    BY <1>2 DEF RowsDone
  <2>2. /\ loading' \in Loading /\ loading'.step = "hooks" /\ loading'.valid = loading.valid
        /\ loading'.at = loading.at /\ loading'.inserted = loading.inserted
        /\ loading'.failed = loading.failed /\ loading'.file = loading.file
        /\ loading'.overtaken = loading.overtaken /\ loading'.seen = loading.seen
        /\ loading'.mappingOf = loading.mappingOf /\ loading'.mode = loading.mode
    BY <1>0, <2>1 DEF Loading
  <2>3. RowsCounted(loading) /\ handed = <<>> /\ loading.at = RowsIn[loading.file] + 1
    BY <1>0, <2>1 DEF LoadCounts, RowsCounted
  <2>4. RowsCounted(loading)'
    BY <1>0, <2>2, <2>3 DEF RowsCounted, Through, Tried
  <2>5. LoadCounts' /\ LoadReportHolds'
    BY <1>0, <2>1, <2>2, <2>3, <2>4 DEF LoadCounts, LoadReportHolds
  <2> QED
    BY <1>0, <2>1, <2>2, <2>5, CsvServerKeeps
<1>3. CASE HandOver
  <2>1. /\ loading.step = "hooks" /\ Len(handed) < Len(loaded) /\ UNCHANGED <<loading, loadReport>>
        /\ handed' = Append(handed, loaded[Len(handed) + 1])
    BY <1>3 DEF HandOver
  <2>2. loaded[Len(handed) + 1] \in Nat
    BY <1>0, <2>1
  <2>3. /\ handed' \in Seq(Nat) /\ Len(handed') = Len(handed) + 1
        /\ \A i \in 1..Len(handed) : handed'[i] = handed[i]
        /\ handed'[Len(handed) + 1] = loaded[Len(handed) + 1]
    BY <1>0, <2>1, <2>2
  <2>4. /\ loading.at = RowsIn[loading.file] + 1 /\ \A i \in 1..Len(handed) : handed[i] = loaded[i]
        /\ RowsCounted(loading)
    BY <1>0, <2>1 DEF LoadCounts
  <2>5. Len(handed') <= Len(loaded) /\ \A i \in 1..Len(handed') : handed'[i] = loaded[i]
    <3> SUFFICES ASSUME NEW i \in 1..Len(handed') PROVE handed'[i] = loaded[i]
      BY <1>0, <2>1, <2>3
    <3>1. i \in 1..Len(handed) \/ i = Len(handed) + 1
      BY <1>0, <2>3
    <3> QED
      BY <2>3, <2>4, <3>1
  <2>6. RowsCounted(loading)'
    BY <1>0, <2>1, <2>4 DEF RowsCounted, Through, Tried
  <2>7. LoadCounts' /\ LoadReportHolds'
    BY <1>0, <2>1, <2>4, <2>5, <2>6 DEF LoadCounts, LoadReportHolds
  <2> QED
    BY <1>0, <2>1, <2>3, <2>7, CsvServerKeeps
<1>4. CASE Loaded
  <2>1. /\ loading.step = "hooks" /\ Len(handed) = Len(loaded) /\ loadReport' = loading
        /\ loading' = Nothing /\ handed' = handed
    BY <1>0, <1>4 DEF Loaded
  <2>2. RowsCounted(loading) /\ loading.at = RowsIn[loading.file] + 1
        /\ \A i \in 1..Len(handed) : handed[i] = loaded[i]
    BY <1>0, <2>1 DEF LoadCounts
  <2>3. handed = loaded
    BY <1>0, <2>1, <2>2, SeqEqual
  <2>4. Through(loading) = Tried(loading)
    BY <1>0, <2>2 DEF Through, Tried, RowsCounted, Loading
  <2>5. ~loading.overtaken => loading.seen = loading.file /\ loading.mappingOf = loading.file
    BY <1>0 DEF LoadCounts
  <2>6. DOMAIN loaded = 1..Len(loaded)
    BY <1>0
  <2>7. LoadReportHolds'
    BY <1>0, <2>1, <2>2, <2>3, <2>4, <2>5, <2>6 DEF LoadReportHolds, RowsCounted, Tried
  <2>8. LoadCounts'
    BY <2>1 DEF LoadCounts
  <2> QED
    BY <1>0, <2>1, <2>7, <2>8, CsvServerKeeps
<1>5. CASE LoadFails
  <2>1. loading' = Nothing /\ loadReport' = Nothing /\ handed' = handed
    BY <1>0, <1>5 DEF LoadFails
  <2>2. LoadCounts' /\ LoadReportHolds'
    BY <2>1 DEF LoadCounts, LoadReportHolds
  <2> QED
    BY <1>0, <2>1, <2>2, CsvServerKeeps
<1> QED
  BY <1>1, <1>2, <1>3, <1>4, <1>5

LEMMA CsvInvStep == CsvInv /\ [CsvNext]_csvVars => CsvInv'
<1> SUFFICES ASSUME CsvInv, [CsvNext]_csvVars PROVE CsvInv'
  OBVIOUS
<1>1. ASSUME NEW g \in Csvs \cup {Nothing}, ChooseCsv(g) PROVE CsvInv'
  <2>1. CASE Csvs = {}
    <3>1. g = Nothing /\ csv = Nothing /\ checked \in Checked \cup {Nothing} /\ Checked = {}
      BY <1>1, <2>1 DEF CsvInv, CsvTypeOK, Checked
    <3>2. CsvTypeOK' /\ PreviewIsOfFile'
      BY <1>1, <3>1 DEF ChooseCsv, CsvInv, CsvTypeOK, PreviewIsOfFile
    <3> QED
      BY <1>1, <3>2, CsvPageKeeps DEF ChooseCsv
  <2>2. CASE Csvs # {}
    <3>1. PICK f \in Csvs : TRUE
      BY <2>2
    <3>2. {} \in SUBSET (1..RowsIn[f])
      OBVIOUS
    <3> QED
      BY <1>1, <3>2, CsvPageActionsKeep
  <2> QED
    BY <2>1, <2>2
<1>2. ASSUME NEW f \in Csvs, NEW valid \in SUBSET (1..RowsIn[f]),
             Analysed(valid) \/ Rechecked(valid) \/ CheckRows(valid)
      PROVE  CsvInv'
  BY <1>2, CsvPageActionsKeep, LoadStepsKeep
<1>3. CASE NotAnalysed \/ Recheck \/ RecheckFails
  <2>1. PICK f \in Csvs : TRUE
    BY <1>3 DEF NotAnalysed, Recheck, RecheckFails, CsvInv, CsvTypeOK
  <2>2. {} \in SUBSET (1..RowsIn[f])
    OBVIOUS
  <2> QED
    BY <1>3, <2>2, CsvPageActionsKeep
<1>4. CASE \E mode \in {"valid", "all"} : Load(mode)
  BY <1>4, LoadKeeps
<1>5. CASE SkipRow \/ InsertRow \/ RowFails
  BY <1>5, RowKeeps
<1>6. CASE RowsDone \/ HandOver \/ Loaded \/ LoadFails
  <2>1. PICK f \in Csvs : TRUE
    BY <1>6 DEF RowsDone, HandOver, Loaded, LoadFails, CsvInv, CsvTypeOK, Loading
  <2>2. {} \in SUBSET (1..RowsIn[f])
    OBVIOUS
  <2> QED
    BY <1>6, <2>2, LoadStepsKeep
<1>7. CASE UNCHANGED csvVars
  BY <1>7 DEF csvVars, csvPage, CsvInv, CsvTypeOK, PreviewIsOfFile, LoadCounts, LoadReportHolds, RowsCounted,
              Through, Tried
<1> QED
  BY <1>1, <1>2, <1>3, <1>4, <1>5, <1>6, <1>7 DEF CsvNext

\* The types of a CSV import; a row inserted has its audit row.
THEOREM CsvTypesHold == CsvSpec => []CsvTypeOK
<1>1. CsvInv => CsvTypeOK
  BY DEF CsvInv
<1> QED
  BY <1>1, CsvInvInit, CsvInvStep, PTL DEF CsvSpec

\* The report of an import is true of the rows it inserted, for any files, rows and
\* mappings, and whatever the page does meanwhile.
THEOREM LoadReportAlwaysHolds == CsvSpec => []LoadReportHolds
<1>1. CsvInv => LoadReportHolds
  BY DEF CsvInv
<1> QED
  BY <1>1, CsvInvInit, CsvInvStep, PTL DEF CsvSpec
-----------------------------------------------------------------------------
(* Datasources: what a manager saves is about a datasource there is, under *)
(* the name it was asked for, and nothing but a password that was typed    *)
(* replaces the stored one.                                                *)

NamesUnique ==
  \A d, e \in SourceIds :
    sources[d] # Nothing /\ sources[e] # Nothing /\ sources[d].name = sources[e].name => d = e

\* What dialogs and saves are about was created; the password that a save has read was
\* one the datasource had been given.
SavesKnowSources ==
  \A me \in Managers :
    /\ dsDialog[me] # Nothing => dsDialog[me].editing \in 1..created \cup {Nothing}
    /\ dsSave[me] # Nothing =>
         /\ dsSave[me].editing \in 1..created \cup {Nothing}
         /\ dsSave[me].editing # Nothing /\ dsSave[me].old # Nothing =>
              dsSave[me].old \in Range(given[dsSave[me].editing])

SourcesInv == DsTypeOK /\ NamesUnique /\ SavesKnowSources /\ PasswordsKept

LEMMA AppendedPassword ==
  ASSUME NEW S, NEW s \in Seq(S), NEW e \in S
  PROVE  /\ Append(s, e) \in Seq(S) /\ Last(Append(s, e)) = e
         /\ Range(Append(s, e)) = Range(s) \cup {e}
<1>1. /\ Append(s, e) \in Seq(S) /\ Len(Append(s, e)) = Len(s) + 1 /\ Append(s, e)[Len(s) + 1] = e
      /\ \A i \in 1..Len(s) : Append(s, e)[i] = s[i]
      /\ DOMAIN Append(s, e) = 1..Len(s) + 1 /\ DOMAIN s = 1..Len(s) /\ Len(s) \in Nat
  OBVIOUS
<1>2. ASSUME NEW x \in Range(Append(s, e)) PROVE x \in Range(s) \cup {e}
  <2>1. PICK i \in 1..Len(s) + 1 : x = Append(s, e)[i]
    BY <1>1, <1>2 DEF Range
  <2>2. i \in 1..Len(s) \/ i = Len(s) + 1
    BY <1>1
  <2> QED
    BY <1>1, <2>1, <2>2 DEF Range
<1>3. ASSUME NEW x \in Range(s) \cup {e} PROVE x \in Range(Append(s, e))
  <2>1. CASE x = e
    <3>1. Len(s) + 1 \in 1..Len(s) + 1
      BY <1>1
    <3> QED
      BY <1>1, <2>1, <3>1 DEF Range
  <2>2. CASE x \in Range(s)
    <3>1. PICK i \in 1..Len(s) : x = s[i]
      BY <1>1, <2>2 DEF Range
    <3>2. i \in 1..Len(s) + 1
      BY <1>1
    <3> QED
      BY <1>1, <3>1, <3>2 DEF Range
  <2> QED
    BY <1>3, <2>1, <2>2
<1> QED
  BY <1>1, <1>2, <1>3 DEF Last

LEMMA FirstPassword ==
  ASSUME NEW S, NEW e \in S
  PROVE  <<e>> \in Seq(S) /\ Range(<<e>>) = {e} /\ Last(<<e>>) = e
BY DEF Range, Last

LEMMA SourcesInvInit == DsInit => SourcesInv
<1> SUFFICES ASSUME DsInit PROVE SourcesInv
  OBVIOUS
<1>1. DsTypeOK
  BY DatasourcesAssumption DEF DsInit, DsTypeOK
<1> QED
  BY <1>1 DEF DsInit, SourcesInv, NamesUnique, SavesKnowSources, PasswordsKept

\* One datasource is written with a password, and given it or told to keep its own.
LEMMA SourceWritten ==
  ASSUME SourcesInv, NEW d \in SourceIds, sources[d] # Nothing,
         NEW name \in DsNames, NameFree(name, d), NEW password \in Typed, NEW g \in Seq(Typed),
         sources' = [sources EXCEPT ![d] = [name |-> name, password |-> password]],
         given' = [given EXCEPT ![d] = g], undone' \subseteq SourceIds,
         \A e \in SourceIds : e # d => (e \in undone' <=> e \in undone),
         password \in Range(g), d \notin undone' => password = Last(g)
  PROVE  /\ NamesUnique' /\ PasswordsKept'
         /\ sources' \in [SourceIds -> Datasource \cup {Nothing}] /\ given' \in [SourceIds -> Seq(Typed)]
<1> DEFINE new == [name |-> name, password |-> password]
<1>1. /\ sources \in [SourceIds -> Datasource \cup {Nothing}] /\ given \in [SourceIds -> Seq(Typed)]
      /\ NamesUnique /\ PasswordsKept
  BY DEF SourcesInv, DsTypeOK
<1>2. new \in Datasource /\ new.name = name /\ new.password = password
  BY DEF Datasource
<1> HIDE DEF new
<1>3. sources' = [sources EXCEPT ![d] = new]
  BY DEF new
<1>4. \A e \in SourceIds : e # d /\ sources[e] # Nothing => sources[e].name # name
  BY DEF NameFree
<1>5. NamesUnique'
  BY <1>1, <1>2, <1>3, <1>4 DEF NamesUnique
<1>6. PasswordsKept'
  BY <1>1, <1>2, <1>3 DEF PasswordsKept
<1> QED
  BY <1>1, <1>2, <1>3, <1>5, <1>6

LEMMA SourcesInvStep == SourcesInv /\ [DsNext]_dsVars => SourcesInv'
<1> SUFFICES ASSUME SourcesInv, [DsNext]_dsVars PROVE SourcesInv'
  OBVIOUS
<1> USE DatasourcesAssumption, BrowserAssumption
<1>0. /\ DsTypeOK /\ NamesUnique /\ SavesKnowSources /\ PasswordsKept
      /\ sources \in [SourceIds -> Datasource \cup {Nothing}]
      /\ dsDialog \in [Managers -> DsDialog \cup {Nothing}] /\ dsSave \in [Managers -> DsSave \cup {Nothing}]
      /\ given \in [SourceIds -> Seq(Typed)] /\ created \in 0..MaxSources
  BY DEF SourcesInv, DsTypeOK
<1>1. ASSUME NEW me \in Managers, NEW dialog, ShowDialog(me, dialog),
             dialog = Nothing \/ (dialog \in DsDialog /\ dialog.editing \in 1..created \cup {Nothing})
      PROVE  SourcesInv'
  <2>1. DsTypeOK' /\ NamesUnique' /\ PasswordsKept'
    BY <1>0, <1>1 DEF ShowDialog, DsTypeOK, NamesUnique, PasswordsKept
  <2>2. SavesKnowSources'
    BY <1>0, <1>1 DEF ShowDialog, SavesKnowSources
  <2> QED
    BY <2>1, <2>2 DEF SourcesInv
<1>2. ASSUME NEW me \in Managers, AddSource(me) PROVE SourcesInv'
  <2> DEFINE dialog == [editing |-> Nothing, name |-> Nothing, password |-> NoPassword]
  <2>1. dialog \in DsDialog /\ dialog.editing = Nothing
    BY DEF DsDialog, Typed
  <2> HIDE DEF dialog
  <2>2. ShowDialog(me, dialog)
    BY <1>2 DEF AddSource, dialog
  <2> QED
    BY <1>1, <2>1, <2>2
<1>3. ASSUME NEW me \in Managers, CloseDialog(me) PROVE SourcesInv'
  BY <1>1, <1>3 DEF CloseDialog
<1>4. ASSUME NEW me \in Managers, NEW d \in SourceIds, EditSource(me, d) PROVE SourcesInv'
  <2> DEFINE dialog == [editing |-> d, name |-> sources[d].name, password |-> NoPassword]
  <2>1. d \in 1..created /\ sources[d] \in Datasource
    BY <1>0, <1>4 DEF EditSource, DsTypeOK, SourceIds
  <2>2. dialog \in DsDialog /\ dialog.editing = d
    BY <2>1 DEF DsDialog, Datasource, Typed
  <2> HIDE DEF dialog
  <2>3. ShowDialog(me, dialog)
    BY <1>4 DEF EditSource, dialog
  <2> QED
    BY <1>1, <2>1, <2>2, <2>3
<1>5. ASSUME NEW me \in Managers, NEW name \in DsNames, NEW password \in Typed, SetField(me, name, password)
      PROVE  SourcesInv'
  <2> DEFINE dialog == [dsDialog[me] EXCEPT !.name = name, !.password = password]
  <2>1. dsDialog[me] \in DsDialog /\ dsDialog[me].editing \in 1..created \cup {Nothing}
    BY <1>0, <1>5 DEF SetField, SavesKnowSources
  <2>2. dialog \in DsDialog /\ dialog.editing = dsDialog[me].editing
    BY <2>1 DEF DsDialog
  <2> HIDE DEF dialog
  <2>3. ShowDialog(me, dialog)
    BY <1>5 DEF SetField, dialog
  <2> QED
    BY <1>1, <2>1, <2>2, <2>3
<1>6. Ask => dsWrites' \in 0..MaxDsWrites
  BY <1>0 DEF Ask, DsTypeOK
<1>7. ASSUME NEW me \in Managers, SaveSource(me) PROVE SourcesInv'
  <2> DEFINE save == [editing |-> dsDialog[me].editing, name |-> dsDialog[me].name,
                      password |-> dsDialog[me].password, old |-> Nothing]
  <2>1. dsDialog[me] \in DsDialog /\ dsDialog[me].editing \in 1..created \cup {Nothing}
    BY <1>0, <1>7 DEF SaveSource, SavesKnowSources
  <2>2. save \in DsSave /\ save.editing \in 1..created \cup {Nothing} /\ save.old = Nothing
    BY <1>7, <2>1 DEF DsDialog, DsSave, SaveSource
  <2> HIDE DEF save
  <2>3. dsSave' = [dsSave EXCEPT ![me] = save]
    BY <1>7 DEF SaveSource, save
  <2>4. DsTypeOK' /\ NamesUnique' /\ PasswordsKept'
    BY <1>0, <1>6, <1>7, <2>2, <2>3 DEF SaveSource, DsTypeOK, NamesUnique, PasswordsKept
  <2>5. SavesKnowSources'
    BY <1>0, <1>7, <2>2, <2>3 DEF SaveSource, SavesKnowSources
  <2> QED
    BY <2>4, <2>5 DEF SourcesInv
<1>8. ASSUME NEW name \in DsNames, NEW password \in Typed, NewSource(name, password),
             \/ UNCHANGED <<dsDialog, dsSave>> /\ dsWrites' \in 0..MaxDsWrites
             \/ \E me \in Managers : Acknowledge(me) /\ UNCHANGED dsWrites
      PROVE  SourcesInv'
  <2> DEFINE new == [name |-> name, password |-> password]
             n == created + 1
  <2>1. new \in Datasource /\ new.name = name /\ new.password = password
    BY DEF Datasource
  <2>2. n \in SourceIds /\ created' = n /\ n \in 0..MaxSources
    BY <1>0, <1>8 DEF NewSource, SourceIds
  <2> HIDE DEF new
  <2>3. sources' = [sources EXCEPT ![n] = new] /\ given' = [given EXCEPT ![n] = <<password>>]
        /\ undone' = undone
    BY <1>8 DEF NewSource, new
  <2>4. \A e \in SourceIds : sources[e] # Nothing => sources[e].name # name /\ e # n
    <3>1. \A e \in SourceIds : e # Nothing
      BY DEF SourceIds
    <3> QED
      BY <1>0, <1>8, <3>1 DEF NewSource, NameFree, DsTypeOK
  <2>5. /\ sources' \in [SourceIds -> Datasource \cup {Nothing}] /\ given' \in [SourceIds -> Seq(Typed)]
        /\ \A d \in SourceIds : sources'[d] # Nothing => d <= created'
    BY <1>0, <2>1, <2>2, <2>3, FirstPassword DEF DsTypeOK, SourceIds
  <2>6. NamesUnique'
    BY <1>0, <2>1, <2>2, <2>3, <2>4 DEF NamesUnique
  <2>7. PasswordsKept'
    BY <1>0, <2>1, <2>2, <2>3, FirstPassword DEF PasswordsKept
  <2>8. \A me \in Managers : /\ dsDialog'[me] \in {dsDialog[me], Nothing}
                             /\ dsSave'[me] \in {dsSave[me], Nothing}
    BY <1>0, <1>8 DEF Acknowledge
  <2>9. /\ dsDialog' \in [Managers -> DsDialog \cup {Nothing}]
        /\ dsSave' \in [Managers -> DsSave \cup {Nothing}] /\ dsWrites' \in 0..MaxDsWrites
    BY <1>0, <1>8 DEF Acknowledge, DsTypeOK
  <2>10. SavesKnowSources'
    <3>1. \A d \in 1..created : given'[d] = given[d] /\ d \in 1..created'
      BY <1>0, <2>2, <2>3 DEF SourceIds
    <3> QED
      BY <1>0, <2>8, <3>1 DEF SavesKnowSources
  <2>11. DsTypeOK'
    BY <1>0, <2>2, <2>3, <2>5, <2>6, <2>9 DEF DsTypeOK, NamesUnique
  <2> QED
    BY <2>6, <2>7, <2>10, <2>11 DEF SourcesInv
<1>9. ASSUME NEW me \in Managers, CreateDatasource(me) PROVE SourcesInv'
  <2>1. dsSave[me] \in DsSave
    BY <1>0, <1>9 DEF CreateDatasource
  <2> QED
    BY <1>8, <1>9, <2>1 DEF CreateDatasource, DsSave
<1>10. ASSUME NEW me \in Managers, GetDatasource(me) PROVE SourcesInv'
  <2> DEFINE d == dsSave[me].editing
             save == [dsSave[me] EXCEPT !.old = sources[d].password]
  <2>1. dsSave[me] \in DsSave /\ d \in 1..created /\ d \in SourceIds /\ sources[d] \in Datasource
    BY <1>0, <1>10 DEF GetDatasource, SavesKnowSources, SourceIds
  <2>2. sources[d].password \in Range(given[d]) /\ sources[d].password \in Typed
    BY <1>0, <1>10, <2>1 DEF GetDatasource, PasswordsKept, Datasource
  <2>3. save \in DsSave /\ save.editing = d /\ save.old = sources[d].password
    BY <2>1, <2>2 DEF DsSave
  <2>4. dsSave' = [dsSave EXCEPT ![me] = save]
    BY <1>0, <1>10 DEF GetDatasource
  <2> HIDE DEF save, d
  <2>7. UNCHANGED <<sources, created, dsDialog, dsWrites, given, undone>>
    BY <1>10 DEF GetDatasource
  <2>5. DsTypeOK' /\ NamesUnique' /\ PasswordsKept'
    BY <1>0, <2>3, <2>4, <2>7 DEF DsTypeOK, NamesUnique, PasswordsKept
  <2>6. SavesKnowSources'
    BY <1>0, <1>10, <2>1, <2>2, <2>3, <2>4 DEF GetDatasource, SavesKnowSources
  <2> QED
    BY <2>5, <2>6 DEF SourcesInv
<1>11. ASSUME NEW me \in Managers, UpdateDatasource(me) PROVE SourcesInv'
  <2> DEFINE q == dsSave[me]
             d == q.editing
             g == IF q.password = NoPassword THEN given[d] ELSE Append(given[d], q.password)
  <2>1. /\ q \in DsSave /\ d \in SourceIds /\ sources[d] # Nothing /\ NameFree(q.name, d)
        /\ q.old # Nothing /\ d # Nothing /\ q # Nothing
    BY <1>0, <1>11 DEF UpdateDatasource, DsSave
  <2>2. /\ sources' = [sources EXCEPT ![d] = [name |-> q.name, password |-> PasswordToWrite(q)]]
        /\ given' = [given EXCEPT ![d] = g]
        /\ undone' = IF q.password # NoPassword THEN undone \ {d}
                     ELSE IF q.old # sources[d].password THEN undone \cup {d} ELSE undone
        /\ Acknowledge(me) /\ created' = created /\ dsWrites' = dsWrites
    BY <1>11 DEF UpdateDatasource
  <2>3. /\ q.name \in DsNames /\ q.old \in Range(given[d]) /\ q.old \in Typed /\ q.password \in Typed
        /\ given[d] \in Seq(Typed)
    BY <1>0, <2>1 DEF DsSave, SavesKnowSources
  <2>4. PasswordToWrite(q) \in Typed
    BY <2>3 DEF PasswordToWrite
  <2>5. g \in Seq(Typed) /\ PasswordToWrite(q) \in Range(g) /\ Range(given[d]) \subseteq Range(g)
    BY <2>3, AppendedPassword DEF PasswordToWrite
  <2>6. d \notin undone' => PasswordToWrite(q) = Last(g)
    BY <1>0, <2>1, <2>2, <2>3, AppendedPassword DEF PasswordToWrite, PasswordsKept
  <2>7. undone' \subseteq SourceIds /\ \A e \in SourceIds : e # d => (e \in undone' <=> e \in undone)
    BY <1>0, <2>1, <2>2 DEF DsTypeOK
  <2> HIDE DEF g
  <2>8. /\ NamesUnique' /\ PasswordsKept'
        /\ sources' \in [SourceIds -> Datasource \cup {Nothing}] /\ given' \in [SourceIds -> Seq(Typed)]
    <3> DEFINE name == q.name
               password == PasswordToWrite(q)
               at == d
    <3>1. /\ at \in SourceIds /\ sources[at] # Nothing /\ name \in DsNames /\ NameFree(name, at)
          /\ password \in Typed /\ g \in Seq(Typed)
          /\ sources' = [sources EXCEPT ![at] = [name |-> name, password |-> password]]
          /\ given' = [given EXCEPT ![at] = g] /\ undone' \subseteq SourceIds
          /\ \A e \in SourceIds : e # at => (e \in undone' <=> e \in undone)
          /\ password \in Range(g) /\ (at \notin undone' => password = Last(g))
      BY <2>1, <2>2, <2>3, <2>4, <2>5, <2>6, <2>7
    <3> HIDE DEF name, password, at
    <3> QED
      BY <3>1, SourceWritten
  <2>9. \A m \in Managers : /\ dsDialog'[m] \in {dsDialog[m], Nothing}
                            /\ dsSave'[m] \in {dsSave[m], Nothing}
    BY <1>0, <2>2 DEF Acknowledge
  <2>10. /\ dsDialog' \in [Managers -> DsDialog \cup {Nothing}]
         /\ dsSave' \in [Managers -> DsSave \cup {Nothing}]
    BY <1>0, <2>2 DEF Acknowledge
  <2> HIDE DEF q
  <2>11. SavesKnowSources'
    <3>1. \A e \in 1..created : e \in SourceIds /\ Range(given[e]) \subseteq Range(given'[e])
      BY <1>0, <2>1, <2>2, <2>5 DEF SourceIds
    <3> QED
      BY <1>0, <2>2, <2>9, <3>1 DEF SavesKnowSources
  <2>12. \A e \in SourceIds : sources'[e] # Nothing => e <= created'
    BY <1>0, <2>1, <2>2 DEF DsTypeOK
  <2>13. DsTypeOK'
    BY <1>0, <2>2, <2>7, <2>8, <2>10, <2>12 DEF DsTypeOK, NamesUnique
  <2> QED
    BY <2>8, <2>11, <2>13 DEF SourcesInv
<1>12. ASSUME NEW me \in Managers, RefuseSave(me) PROVE SourcesInv'
  <2>1. DsTypeOK' /\ NamesUnique' /\ PasswordsKept'
    BY <1>0, <1>12 DEF RefuseSave, DsTypeOK, NamesUnique, PasswordsKept
  <2>2. SavesKnowSources'
    BY <1>0, <1>12 DEF RefuseSave, SavesKnowSources
  <2> QED
    BY <2>1, <2>2 DEF SourcesInv
<1>13. ASSUME NEW d \in SourceIds, DeleteDatasource(d) PROVE SourcesInv'
  <2>1. DsTypeOK'
    BY <1>0, <1>6, <1>13 DEF DeleteDatasource, DsTypeOK
  <2>2. NamesUnique' /\ PasswordsKept'
    BY <1>0, <1>13 DEF DeleteDatasource, NamesUnique, PasswordsKept
  <2>3. SavesKnowSources'
    BY <1>0, <1>13 DEF DeleteDatasource, SavesKnowSources
  <2> QED
    BY <2>1, <2>2, <2>3 DEF SourcesInv
<1>14. ASSUME NEW name \in DsNames, NEW password \in Typed, ImportDatasource(name, password)
       PROVE  SourcesInv'
  <2>1. CASE NewSource(name, password)
    BY <1>6, <1>8, <1>14, <2>1 DEF ImportDatasource
  <2>2. CASE ~NewSource(name, password)
    <3>1. PICK d \in SourceIds :
            /\ sources[d] # Nothing /\ sources[d].name = name
            /\ sources' = [sources EXCEPT ![d].password = IF password = NoPassword THEN @ ELSE password]
            /\ given' = [given EXCEPT ![d] = IF password = NoPassword THEN @ ELSE Append(@, password)]
            /\ undone' = IF password = NoPassword THEN undone ELSE undone \ {d}
            /\ UNCHANGED created
      BY <1>14, <2>2 DEF ImportDatasource
    <3> DEFINE stored == IF password = NoPassword THEN sources[d].password ELSE password
               g == IF password = NoPassword THEN given[d] ELSE Append(given[d], password)
    <3>2. sources[d] \in Datasource /\ given[d] \in Seq(Typed) /\ stored \in Typed
      BY <1>0, <3>1 DEF Datasource
    <3>3. sources' = [sources EXCEPT ![d] = [name |-> name, password |-> stored]]
          /\ given' = [given EXCEPT ![d] = g]
      <4>1. [sources[d] EXCEPT !.password = stored] = [name |-> name, password |-> stored]
        BY <3>1, <3>2 DEF Datasource
      <4> QED
        BY <1>0, <3>1, <4>1
    <3>4. NameFree(name, d)
      BY <1>0, <3>1 DEF NameFree, NamesUnique
    <3>5. g \in Seq(Typed) /\ stored \in Range(g) /\ Range(given[d]) \subseteq Range(g)
      BY <1>0, <3>1, <3>2, AppendedPassword DEF PasswordsKept
    <3>6. d \notin undone' => stored = Last(g)
      BY <1>0, <3>1, <3>2, AppendedPassword DEF PasswordsKept
    <3>7. undone' \subseteq SourceIds /\ \A e \in SourceIds : e # d => (e \in undone' <=> e \in undone)
      BY <1>0, <3>1 DEF DsTypeOK
    <3> HIDE DEF g, stored
    <3>8. /\ NamesUnique' /\ PasswordsKept'
          /\ sources' \in [SourceIds -> Datasource \cup {Nothing}] /\ given' \in [SourceIds -> Seq(Typed)]
      BY <3>1, <3>2, <3>3, <3>4, <3>5, <3>6, <3>7, SourceWritten
    <3>9. SavesKnowSources'
      <4>1. \A e \in 1..created : e \in SourceIds /\ Range(given[e]) \subseteq Range(given'[e])
        BY <1>0, <3>3, <3>5 DEF SourceIds
      <4> QED
        BY <1>0, <1>14, <3>1, <4>1 DEF SavesKnowSources, ImportDatasource
    <3>10. \A e \in SourceIds : sources'[e] # Nothing => e <= created'
      BY <1>0, <3>1, <3>3 DEF DsTypeOK
    <3>11. DsTypeOK'
      BY <1>0, <1>6, <1>14, <3>1, <3>7, <3>8, <3>10 DEF DsTypeOK, NamesUnique, ImportDatasource
    <3> QED
      BY <3>8, <3>9, <3>11 DEF SourcesInv
  <2> QED
    BY <2>1, <2>2
<1>15. CASE UNCHANGED dsVars
  BY <1>0, <1>15 DEF dsVars, SourcesInv, DsTypeOK, NamesUnique, SavesKnowSources, PasswordsKept
<1> QED
  BY <1>2, <1>3, <1>4, <1>5, <1>7, <1>9, <1>10, <1>11, <1>12, <1>13, <1>14, <1>15 DEF DsNext

\* The types of the datasources and their page; names of datasources are unique.
THEOREM SourceTypesHold == DsSpec => []DsTypeOK
<1>1. SourcesInv => DsTypeOK
  BY DEF SourcesInv
<1> QED
  BY <1>1, SourcesInvInit, SourcesInvStep, PTL DEF DsSpec

\* A datasource has the password it was given last, for any number of administrators
\* whose edits overlap; one that an edit undid is still one it was given.
THEOREM PasswordsAreKept == DsSpec => []PasswordsKept
<1>1. SourcesInv => PasswordsKept
  BY DEF SourcesInv
<1> QED
  BY <1>1, SourcesInvInit, SourcesInvStep, PTL DEF DsSpec
-----------------------------------------------------------------------------
(* The console as a whole.                                                 *)

LEMMA PagesBegin ==
  MCInit =>
    /\ page \in consolePages
    /\ DraftInit /\ EditorInit /\ HooksInit /\ AccountsInit /\ RolesInit /\ ImportInit
    /\ Init /\ DsInit /\ CsvInit /\ SidebarInit
BY DEF MCInit

LEMMA PagesStep ==
  [MCNext]_consoleVars =>
    /\ UNCHANGED page
    /\ [DraftNext]_draftVars /\ [EditorNext]_editorVars /\ [HooksNext]_hookVars
    /\ [AccountsNext]_accountVars /\ [RolesNext]_roleVars /\ [ImportNext]_importVars
    /\ [Next]_vars /\ [DsNext]_dsVars /\ [CsvNext]_csvVars /\ [SidebarNext]_sidebarVars
<1> SUFFICES ASSUME [MCNext]_consoleVars
             PROVE  /\ UNCHANGED page
                    /\ [DraftNext]_draftVars /\ [EditorNext]_editorVars /\ [HooksNext]_hookVars
                    /\ [AccountsNext]_accountVars /\ [RolesNext]_roleVars
                    /\ [ImportNext]_importVars /\ [Next]_vars /\ [DsNext]_dsVars
                    /\ [CsvNext]_csvVars /\ [SidebarNext]_sidebarVars
  OBVIOUS
<1>1. CASE UNCHANGED consoleVars
  BY <1>1 DEF consoleVars
<1>2. CASE MCNext
  BY <1>2 DEF MCNext
<1> QED
  BY <1>1, <1>2

\* Each page runs as it does on its own: what is proved of a page holds of the console,
\* whose restrictions only leave behaviours out.
THEOREM PagesRunAsAlone ==
  MCSpec =>
    /\ [](page \in consolePages)
    /\ DraftSpec /\ EditorSpec /\ HooksSpec /\ AccountsSpec /\ RolesSpec /\ ImportSpec
    /\ Spec /\ DsSpec /\ CsvSpec /\ SidebarSpec
<1>1. page \in consolePages /\ UNCHANGED page => (page \in consolePages)'
  OBVIOUS
<1> QED
  BY PagesBegin, PagesStep, <1>1, PTL
  DEF MCSpec, DraftSpec, EditorSpec, HooksSpec, AccountsSpec, RolesSpec, ImportSpec, Spec,
      DsSpec, CsvSpec, SidebarSpec

\* The types of the administration pages and the sidebar, whichever page is used.
THEOREM ConsoleTypesHold == MCSpec => []ConsoleTypeOK
<1>1. /\ page \in consolePages
      /\ DraftTypeOK /\ EditorTypeOK /\ HooksTypeOK /\ AccountsTypeOK /\ RolesTypeOK
      /\ ImportTypeOK /\ TypeOK /\ DsTypeOK /\ CsvTypeOK /\ SidebarTypeOK
      => ConsoleTypeOK
  BY DEF consolePages, ConsoleTypeOK
<1> QED
  BY PagesRunAsAlone, DraftTypesHold, EditorTypesHold, HookTypesHold, AccountTypesHold,
     RolesTypesHold, ImportTypesHold, OrderTypesHold, SourceTypesHold, CsvTypesHold,
     SidebarTypesHold, <1>1, PTL
==============================================================================
