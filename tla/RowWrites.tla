------------------------------ MODULE RowWrites ------------------------------
(***************************************************************************)
(* The write path (core/engine/rows_write.go) against the live database:   *)
(* inserts, updates, single and bulk deletes of a table whose definition   *)
(* has a self-referencing fk column and an m2m column, with before-hooks,  *)
(* delete protection, the junction sync, the audit trail and the           *)
(* after-hooks.  Requests run concurrently; each step below is one         *)
(* statement on a database, or one hook with the statement it guards.      *)
(*                                                                         *)
(* A row is identified by the column that fk and junction columns refer    *)
(* to; the key columns of the definition need not be unique.               *)
(***************************************************************************)
EXTENDS Naturals, FiniteSets

CONSTANTS
  Rows,          \* rows the table may hold, by their referenced value
  Keys,          \* values of the definition's key columns
  Keyings,       \* the key columns a definition may choose, each a [Rows -> Keys]
  Tags,          \* values that an m2m selection may name
  Requests,      \* write requests, each made once
  MaxFaults      \* bound: statements on the live database that fail

ASSUME RowWritesAssumption ==
  /\ 0 \notin Rows /\ 0 \notin Keys /\ 0 \notin Tags       \* None is none of them
  /\ Keyings \subseteq [Rows -> Keys] /\ MaxFaults \in Nat

VARIABLES
  live,          \* rows in the table
  ref,           \* value of the fk column of each row
  links,         \* number of junction rows of each row and tag
  keyOf,         \* key of each row
  enforced,      \* does the database declare the foreign keys, too?
  targets,       \* the tags that are rows of the m2m column's target table
  granted,       \* may the user create and delete junction rows?
  req            \* the requests' progress

\* What each request did, recorded and scheduled; the rest is history.
VARIABLES
  wrote, audit, after,
  overlapped,    \* requests that ran while another one did
  rewritten,     \* updates whose hook replaced the checked fk value
  revoked, faults

config == <<keyOf, enforced, targets>>
database == <<live, ref, links, config>>
effects == <<wrote, audit, after>>
history == <<overlapped, rewritten, revoked>>
vars == <<database, granted, req, effects, history, faults>>

None == 0
Row == Rows \cup {None}
Change == [op : {"insert", "update", "delete", "link", "unlink"}, row : Rows, tag : Tags \cup {None}]
Changes(op, S) == {[op |-> op, row |-> r, tag |-> None] : r \in S}
LinkChange(op, r, t) == [op |-> op, row |-> r, tag |-> t]

Phases == {"idle", "fetch", "refs", "hook", "check", "write", "record", "sync", "links", "done"}
Replies == {"none", "ok", "VALIDATION", "FORBIDDEN", "NOT_FOUND", "CONFLICT", "HOOK_REJECTED",
            "CONN", "LINK_FAILED"}

Request == [pc : Phases, kind : {"none", "insert", "update", "delete", "bulk"},
            row : Row, ref : Row,                 \* the row, and the body's fk value
            identified : BOOLEAN,                 \* does the body have the referenced column?
            asked : BOOLEAN, want : SUBSET Tags,  \* the m2m selection, if there is one
            keys : SUBSET Keys,                   \* rows to update or delete, by key,
            todo : SUBSET Keys,                   \* those not fetched yet,
            key : Keys \cup {None},               \* and the one at hand
            old : SUBSET Rows,                    \* rows as fetched
            cur : SUBSET Tags,                    \* links as fetched, then as changed
            deleted : SUBSET Keys, failed : SUBSET Keys,
            reply : Replies]

Fresh == [pc |-> "idle", kind |-> "none", row |-> None, ref |-> None, identified |-> TRUE,
          asked |-> FALSE, want |-> {}, keys |-> {}, todo |-> {}, key |-> None, old |-> {},
          cur |-> {}, deleted |-> {}, failed |-> {}, reply |-> "none"]

Referenced(r) == (\E s \in live : ref[s] = r) \/ (\E t \in Tags : links[r, t] > 0)
KeysInUse == {keyOf[r] : r \in Rows}
Matching(k) == {r \in live : keyOf[r] = k}

Sound == /\ \A r \in live : ref[r] \in live \cup {None}
         /\ \A r \in Rows, t \in Tags : links[r, t] > 0 => r \in live

\* Any table whose references are sound; a row that is absent refers to none.
Init ==
  /\ live \in SUBSET Rows
  /\ ref \in [Rows -> Row] /\ \A r \in Rows \ live : ref[r] = None
  /\ targets \in SUBSET Tags
  /\ links \in [Rows \X Tags -> {0, 1}] /\ Sound
  /\ \A r \in Rows, t \in Tags : links[r, t] > 0 => t \in targets
  /\ keyOf \in Keyings /\ enforced \in BOOLEAN /\ granted \in BOOLEAN
  /\ req = [q \in Requests |-> Fresh]
  /\ wrote = [q \in Requests |-> {}] /\ audit = [q \in Requests |-> {}]
  /\ after = [q \in Requests |-> {}]
  /\ overlapped = {} /\ rewritten = {} /\ revoked = FALSE /\ faults = 0
-----------------------------------------------------------------------------
At(q, kinds, pc) == req[q].pc = pc /\ req[q].kind \in kinds
Goto(q, pc) == req' = [req EXCEPT ![q].pc = pc]

\* The reply ends the handler; what it was asked and what it reports remain.
Final(r, code) ==
  [Fresh EXCEPT !.pc = "done", !.reply = code, !.kind = r.kind, !.identified = r.identified,
                !.keys = r.keys, !.deleted = r.deleted, !.failed = r.failed]
Reply(q, code) == req' = [req EXCEPT ![q] = Final(req[q], code)]

\* A statement on the live database fails.
Fault == faults < MaxFaults /\ faults' = faults + 1

\* Mutation: the failed keys are left out of the reply.
NextKeySilently(q, deleted, failed) ==
  req' = [req EXCEPT ![q].deleted = @ \cup deleted,
                     ![q].pc = IF req[q].todo = {} THEN "record" ELSE "fetch"]

\* A bulk delete notes the failure of one key and goes on with the next.
NextKey(q, deleted, failed) ==
  req' = [req EXCEPT ![q].deleted = @ \cup deleted, ![q].failed = @ \cup failed,
                     ![q].pc = IF req[q].todo = {} THEN "record" ELSE "fetch"]

Fail(q, code) ==
  IF req[q].kind = "bulk" THEN NextKey(q, {}, {req[q].key}) ELSE Reply(q, code)

\* The request writes the changes C, records A and schedules B.
Effect(q, C, A, B) ==
  /\ wrote' = [wrote EXCEPT ![q] = @ \cup C]
  /\ audit' = [audit EXCEPT ![q] = @ \cup A]
  /\ after' = [after EXCEPT ![q] = @ \cup B]
-----------------------------------------------------------------------------
(* A request arrives; what it says is checked without the live database.   *)

Running == {q \in Requests : req[q].pc \notin {"idle", "done"}}

Arrive(q, r) ==
  /\ req[q].pc = "idle"
  /\ req' = [req EXCEPT ![q] = r]
  /\ overlapped' = IF Running = {} \/ r.pc = "done" THEN overlapped
                   ELSE overlapped \cup Running \cup {q}
  /\ UNCHANGED <<database, granted, effects, rewritten, revoked, faults>>

\* Mutation: no precheck, the grants are looked at when links are written.
Unchecked(r, pc) == [r EXCEPT !.pc = pc]

\* precheckM2M, before anything else is done.
Checked(r, pc) ==
  IF r.asked /\ ~granted THEN Final(r, "FORBIDDEN") ELSE [r EXCEPT !.pc = pc]

\* What else the body says is drawn where the code first acts on it: the fk
\* value in CheckFK and BeforeHook, the selection in StartSync.
Insert(q) ==
  \E r \in Rows, identified, asked \in BOOLEAN :
    /\ asked \/ identified
    /\ Arrive(q, Checked([Fresh EXCEPT !.kind = "insert", !.row = r, !.asked = asked,
                                       !.identified = identified], "hook"))

Update(q) ==
  \E k \in KeysInUse, asked \in BOOLEAN :
    Arrive(q, Checked([Fresh EXCEPT !.kind = "update", !.keys = {k}, !.todo = {k},
                                    !.asked = asked], "fetch"))

Delete(q) ==
  \E k \in KeysInUse :
    Arrive(q, [Fresh EXCEPT !.kind = "delete", !.keys = {k}, !.todo = {k}, !.pc = "fetch"])

\* The keys are distinct: the code skips those it has seen.
BulkDelete(q) ==
  \E S \in (SUBSET KeysInUse) \ {{}} :
    Arrive(q, [Fresh EXCEPT !.kind = "bulk", !.keys = S, !.todo = S, !.pc = "fetch"])

\* An administrator takes the junction grants away, while it matters.
Revoke ==
  /\ granted /\ \E q \in Running : req[q].asked
  /\ granted' = FALSE /\ revoked' = TRUE
  /\ UNCHANGED <<database, req, effects, overlapped, rewritten, faults>>
-----------------------------------------------------------------------------
(* Checks before the write.                                                *)

\* Mutation: the key is not taken off the list.
TakeAgain(q, k) == [req[q] EXCEPT !.key = k, !.old = Matching(k)]

Take(q, k) == [req[q] EXCEPT !.todo = @ \ {k}, !.key = k, !.old = Matching(k)]

\* The same as Fail, of the key just taken.
Miss(r, code) ==
  IF r.kind # "bulk" THEN Final(r, code)
  ELSE [r EXCEPT !.failed = @ \cup {r.key}, !.pc = IF r.todo = {} THEN "record" ELSE "fetch"]

Fetch(q) ==
  /\ At(q, {"update", "delete", "bulk"}, "fetch")
  /\ \E k \in req[q].todo :
       \/ /\ Fault
          /\ req' = [req EXCEPT ![q] = Miss(Take(q, k), "CONN")]
       \/ /\ Matching(k) = {} /\ UNCHANGED faults
          /\ req' = [req EXCEPT ![q] = Miss(Take(q, k), "NOT_FOUND")]
       \/ /\ Matching(k) # {} /\ UNCHANGED faults
          /\ req' = [req EXCEPT ![q] =
               [Take(q, k) EXCEPT !.pc = IF req[q].kind = "update" THEN "check" ELSE "refs"]]
  /\ UNCHANGED <<database, granted, effects, history>>

\* Mutation: the junction tables do not count as referencing tables.
RefsWithoutLinks(q) ==
  /\ At(q, {"delete", "bulk"}, "refs")
  /\ IF \E r \in req[q].old, s \in live : ref[s] = r THEN Fail(q, "CONFLICT") ELSE Goto(q, "hook")
  /\ UNCHANGED <<database, granted, effects, history, faults>>

\* referencedBy.  A bulk delete that cannot tell notes a failure and goes on.
CheckRefs(q) ==
  /\ At(q, {"delete", "bulk"}, "refs")
  /\ \/ /\ IF \E r \in req[q].old : Referenced(r) THEN Fail(q, "CONFLICT") ELSE Goto(q, "hook")
        /\ UNCHANGED faults
     \/ /\ req[q].kind = "delete" /\ Fault /\ Reply(q, "CONN")
     \/ /\ req[q].kind = "bulk" /\ Fault
        /\ req' = [req EXCEPT ![q].pc = "hook", ![q].failed = @ \cup {req[q].key}]
  /\ UNCHANGED <<database, granted, effects, history>>

\* checkFKValues: after the hook of an insert, before that of an update.
CheckFK(q) ==
  /\ At(q, {"insert", "update"}, "check")
  /\ \/ /\ At(q, {"insert"}, "check") /\ req[q].ref \in live \cup {None}
        /\ Goto(q, "write") /\ UNCHANGED faults
     \/ /\ At(q, {"insert"}, "check") /\ req[q].ref \notin live \cup {None}
        /\ Reply(q, "VALIDATION") /\ UNCHANGED faults
     \/ /\ At(q, {"update"}, "check") /\ UNCHANGED faults
        /\ \E f \in live \cup {None} :
             req' = [req EXCEPT ![q].ref = f, ![q].pc = "hook"]
     \/ /\ At(q, {"update"}, "check") /\ UNCHANGED faults
        /\ Rows \ live # {} /\ Reply(q, "VALIDATION")
     \/ Fault /\ Reply(q, "CONN")
  /\ UNCHANGED <<database, granted, effects, history>>

\* The before-hook rejects the write, or may replace its fk value.
BeforeHook(q) ==
  /\ req[q].pc = "hook"
  /\ \/ /\ Fail(q, "HOOK_REJECTED")
        /\ UNCHANGED rewritten
     \/ /\ At(q, {"delete", "bulk"}, "hook") /\ Goto(q, "write")
        /\ UNCHANGED rewritten
     \/ \E f \in Row :
          /\ At(q, {"insert", "update"}, "hook")
          /\ req' = [req EXCEPT ![q].ref = f,
                                ![q].pc = IF req[q].kind = "insert" THEN "check" ELSE "write"]
          /\ rewritten' = IF req[q].kind = "update" /\ f # req[q].ref
                            THEN rewritten \cup {q} ELSE rewritten
  /\ UNCHANGED <<database, granted, effects, overlapped, revoked, faults>>
-----------------------------------------------------------------------------
(* The write itself.  What it changes is what matches now, not what was    *)
(* fetched; the number of rows it changed is not looked at.                *)

InsertRow(q) ==
  LET r == req[q].row  f == req[q].ref IN
  /\ At(q, {"insert"}, "write")
  /\ \/ /\ r \notin live /\ (enforced => f \in live \cup {None, r})
        /\ live' = live \cup {r} /\ ref' = [ref EXCEPT ![r] = f]
        /\ Goto(q, IF req[q].asked THEN "sync" ELSE "record")
        /\ Effect(q, Changes("insert", {r}), {}, {})
        /\ UNCHANGED faults
     \/ /\ r \in live /\ Reply(q, "CONN")
        /\ UNCHANGED <<live, ref, effects, faults>>
     \/ /\ enforced /\ f \notin live \cup {None, r} /\ Reply(q, "CONFLICT")
        /\ UNCHANGED <<live, ref, effects, faults>>
     \/ /\ Fault /\ Reply(q, "CONN")
        /\ UNCHANGED <<live, ref, effects>>
  /\ UNCHANGED <<links, config, granted, history>>

UpdateRows(q) ==
  LET hit == Matching(req[q].key)  f == req[q].ref IN
  /\ At(q, {"update"}, "write")
  /\ \/ /\ enforced => f \in live \cup {None} \/ hit = {}
        /\ ref' = [r \in Rows |-> IF r \in hit THEN f ELSE ref[r]]
        /\ Goto(q, "record")
        /\ Effect(q, Changes("update", hit), {}, {})
        /\ UNCHANGED faults
     \/ /\ enforced /\ f \notin live \cup {None} /\ hit # {} /\ Reply(q, "CONFLICT")
        /\ UNCHANGED <<ref, effects, faults>>
     \/ /\ Fault /\ Reply(q, "CONN")
        /\ UNCHANGED <<ref, effects>>
  /\ UNCHANGED <<live, links, config, granted, history>>

\* Rows outside S that refer into it keep an enforcing database from deleting S.
Held(S) == \/ \E s \in live \ S : ref[s] \in S
           \/ \E r \in S, t \in Tags : links[r, t] > 0

\* A bulk delete records each key's rows at once, and schedules none yet.
DeleteRows(q) ==
  LET hit == Matching(req[q].key) IN
  /\ At(q, {"delete", "bulk"}, "write")
  /\ \/ /\ enforced => ~Held(hit)
        /\ live' = live \ hit
        /\ ref' = [r \in Rows |-> IF r \in hit THEN None ELSE ref[r]]
        /\ Effect(q, Changes("delete", hit),
                  IF req[q].kind = "bulk" THEN Changes("delete", req[q].old) ELSE {}, {})
        /\ IF req[q].kind = "bulk" THEN NextKey(q, {req[q].key}, {}) ELSE Goto(q, "record")
        /\ UNCHANGED faults
     \/ /\ enforced /\ Held(hit) /\ Fail(q, "CONFLICT")
        /\ UNCHANGED <<live, ref, effects, faults>>
     \/ /\ Fault /\ Fail(q, "CONN")
        /\ UNCHANGED <<live, ref, effects>>
  /\ UNCHANGED <<links, config, granted, history>>

\* Mutation: the rows of a bulk delete are never handed to the after-hooks.
RecordInline(q) ==
  LET C == Changes(req[q].kind, req[q].old) IN
  /\ req[q].pc = "record"
  /\ \/ /\ At(q, {"insert"}, "record")
        /\ Effect(q, {}, Changes("insert", {req[q].row}), Changes("insert", {req[q].row}))
     \/ At(q, {"update", "delete"}, "record") /\ Effect(q, {}, C, C)
     \/ At(q, {"bulk"}, "record") /\ Effect(q, {}, {}, {})
  /\ IF At(q, {"update"}, "record") /\ req[q].asked THEN Goto(q, "sync") ELSE Reply(q, "ok")
  /\ UNCHANGED <<database, granted, history, faults>>

\* The audit trail, then the after-hooks.  An update of several rows records
\* each and schedules the after-hooks once, for the last of them.
Record(q) ==
  /\ req[q].pc = "record"
  /\ \/ /\ At(q, {"insert"}, "record")
        /\ Effect(q, {}, Changes("insert", {req[q].row}), Changes("insert", {req[q].row}))
     \/ /\ At(q, {"update"}, "record")
        /\ \E r \in req[q].old :
             Effect(q, {}, Changes("update", req[q].old), Changes("update", {r}))
     \/ /\ At(q, {"delete"}, "record")
        /\ Effect(q, {}, Changes("delete", req[q].old), Changes("delete", req[q].old))
     \/ At(q, {"bulk"}, "record") /\ Effect(q, {}, {}, audit[q])
  /\ IF At(q, {"update"}, "record") /\ req[q].asked THEN Goto(q, "sync") ELSE Reply(q, "ok")
  /\ UNCHANGED <<database, granted, history, faults>>
-----------------------------------------------------------------------------
(* The m2m selection: one source row's junction rows become the selection. *)

\* The grant is checked again, the current links are fetched once.  Nobody looks
\* whether the selection names rows that are there, as checkFKValues does for fks.
StartSync(q) ==
  LET sources == IF req[q].kind = "insert" THEN {req[q].row} ELSE req[q].old IN
  /\ req[q].pc = "sync"
  /\ \/ ~req[q].identified /\ Reply(q, "VALIDATION") /\ UNCHANGED faults
     \/ req[q].identified /\ ~granted /\ Reply(q, "FORBIDDEN") /\ UNCHANGED faults
     \/ /\ req[q].identified /\ granted /\ UNCHANGED faults
        /\ \E r \in sources, want \in SUBSET Tags :
             req' = [req EXCEPT ![q].row = r, ![q].want = want, ![q].cur = {t \in Tags : links[r, t] > 0},
                                ![q].pc = "links"]
     \/ Fault /\ Reply(q, "LINK_FAILED")
  /\ UNCHANGED <<database, granted, effects, history>>

\* The junction's before-hook, or the database, turns the link change down.
LinkFails(q) ==
  /\ req[q].pc = "links" /\ req[q].cur # req[q].want
  /\ Reply(q, "LINK_FAILED")
  /\ UNCHANGED <<database, granted, effects, history, faults>>

AddLink(q, t) ==
  LET r == req[q].row  C == {LinkChange("link", req[q].row, t)} IN
  /\ req[q].pc = "links" /\ t \in req[q].want \ req[q].cur
  /\ enforced => r \in live /\ t \in targets
  /\ links' = [links EXCEPT ![<<r, t>>] = @ + 1]
  /\ req' = [req EXCEPT ![q].cur = @ \cup {t}]
  /\ Effect(q, C, C, C)
  /\ UNCHANGED <<live, ref, config, granted, history, faults>>

\* Additions come first; all junction rows of the pair go.
RemoveLink(q, t) ==
  LET r == req[q].row  C == {LinkChange("unlink", req[q].row, t)} IN
  /\ req[q].pc = "links" /\ req[q].want \subseteq req[q].cur /\ t \in req[q].cur \ req[q].want
  /\ links' = [links EXCEPT ![<<r, t>>] = 0]
  /\ req' = [req EXCEPT ![q].cur = @ \ {t}]
  /\ Effect(q, IF links[r, t] > 0 THEN C ELSE {}, C, C)
  /\ UNCHANGED <<live, ref, config, granted, history, faults>>

\* Mutation: no link is removed.
EndAfterAdding(q) ==
  /\ req[q].pc = "links" /\ req[q].want \subseteq req[q].cur
  /\ IF req[q].kind = "insert" THEN Goto(q, "record") ELSE Reply(q, "ok")
  /\ UNCHANGED <<database, granted, effects, history, faults>>

EndSync(q) ==
  /\ req[q].pc = "links" /\ req[q].cur = req[q].want
  /\ IF req[q].kind = "insert" THEN Goto(q, "record") ELSE Reply(q, "ok")
  /\ UNCHANGED <<database, granted, effects, history, faults>>

Step(q) ==
  \/ Fetch(q) \/ CheckRefs(q) \/ CheckFK(q) \/ BeforeHook(q)
  \/ InsertRow(q) \/ UpdateRows(q) \/ DeleteRows(q) \/ Record(q)
  \/ StartSync(q) \/ LinkFails(q) \/ EndSync(q)
  \/ \E t \in Tags : AddLink(q, t) \/ RemoveLink(q, t)

Next ==
  \/ \E q \in Requests : Insert(q) \/ Update(q) \/ Delete(q) \/ BulkDelete(q) \/ Step(q)
  \/ Revoke

Spec == Init /\ [][Next]_vars
-----------------------------------------------------------------------------
(* Properties.                                                             *)

TypeOK ==
  /\ live \in SUBSET Rows /\ ref \in [Rows -> Row] /\ links \in [Rows \X Tags -> Nat]
  /\ keyOf \in [Rows -> Keys] /\ enforced \in BOOLEAN /\ targets \subseteq Tags
  /\ granted \in BOOLEAN /\ req \in [Requests -> Request]
  /\ wrote \in [Requests -> SUBSET Change] /\ audit \in [Requests -> SUBSET Change]
  /\ after \in [Requests -> SUBSET Change]
  /\ overlapped \in SUBSET Requests /\ rewritten \in SUBSET Requests
  /\ revoked \in BOOLEAN /\ faults \in Nat
  /\ \A r \in Rows \ live : ref[r] = None
  /\ \A q \in Requests : req[q].key \notin req[q].todo /\ req[q].todo \subseteq req[q].keys

\* A junction row that refers to no target is one that a request was asked to
\* create, on a database that lets it: nothing else makes one.
StrayLinksWereAskedFor ==
  \A r \in Rows, t \in Tags : links[r, t] > 0 =>
    t \in targets \/ (~enforced /\ \E q \in Requests : LinkChange("link", r, t) \in wrote[q])

\* No sequence of inserts, updates, deletes and link changes leaves a row or a
\* junction row that refers to a row that is gone: references are checked, and
\* deletes refused, however the requests follow each other.  With a database
\* that does not enforce the keys this needs requests that do not overlap, no
\* update hook that replaces a checked value, and reference checks that work.  A
\* junction row without its target is there only if a selection named one that is
\* not there and the database did not refuse.
ReferencesHold ==
  /\ StrayLinksWereAskedFor
  /\ \/ Sound
     \/ ~enforced /\ (overlapped # {} \/ rewritten # {})
     \/ ~enforced /\ faults > 0 /\ \E q \in Requests : req[q].kind = "bulk"

Answered(q) == req[q].pc = "done" /\ q \notin overlapped

\* A request on its own that succeeds has put exactly the changes it made on
\* the audit trail and before the after-hooks, those of its links included; an
\* update of several rows schedules its after-hooks once.  One that fails has
\* recorded no change that it did not make.
TrailMatchesChanges ==
  \A q \in Requests : Answered(q) =>
    /\ audit[q] \subseteq wrote[q] /\ after[q] \subseteq audit[q]
    /\ req[q].reply = "ok" =>
         /\ audit[q] = wrote[q]
         /\ \A c \in audit[q] \ after[q] : c.op = "update"
         /\ req[q].kind = "update" => Cardinality({c \in after[q] : c.op = "update"}) = 1

\* A request that is refused has changed nothing, in any interleaving, unless
\* its links could not be written for want of a source value, or for grants
\* taken away while it ran.
RefusedWritesNothing ==
  \A q \in Requests :
    /\ req[q].reply \in {"VALIDATION", "FORBIDDEN", "NOT_FOUND", "CONFLICT", "HOOK_REJECTED", "CONN"}
    /\ req[q].identified /\ ~revoked
    => wrote[q] = {}

\* The reply to a bulk delete accounts for each key exactly once: deleted or
\* failed, whatever other requests do to the rows meanwhile.
BulkReportsEachKey ==
  \A q \in Requests :
    req[q].kind = "bulk" /\ req[q].pc = "done" /\ faults = 0 =>
      req[q].deleted \cup req[q].failed = req[q].keys /\ req[q].deleted \cap req[q].failed = {}

\* When a request on its own with an m2m selection succeeds, the row is linked
\* to the selection and nothing else.
LinksBecomeSelection ==
  [][\A q \in Requests :
       /\ req[q].reply = "none" /\ req'[q].reply = "ok" /\ req[q].asked /\ q \notin overlapped
       => {t \in Tags : links'[req[q].row, t] > 0} = req[q].want]_vars

\* README: "Deleting a row that other defined tables reference is blocked".
\* This must hold of requests one after the other even if a check fails.
ReferencedRowsStay == overlapped = {} /\ rewritten = {} => Sound

\* README: "every insert/update/delete writes best-effort audit rows".
EveryInsertAudited ==
  \A q \in Requests : req[q].pc = "done" /\ req[q].kind = "insert" =>
    \A c \in wrote[q] : c \in audit[q]
=============================================================================
