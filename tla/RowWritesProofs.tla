--------------------------- MODULE RowWritesProofs ---------------------------
(***************************************************************************)
(* Proofs about RowWrites, for any rows, keys, keyings, tags, requests and *)
(* faults.  Each request carries what its phase knows of itself, and, as   *)
(* long as no other request has run beside it, what its phase knows of the *)
(* database: nobody else writes it then.                                   *)
(***************************************************************************)
EXTENDS RowWrites, FiniteSetTheorems, TLAPS

Refusals == {"VALIDATION", "FORBIDDEN", "NOT_FOUND", "CONFLICT", "HOOK_REJECTED", "CONN"}
Linked(r) == {t \in Tags : links[r, t] > 0}

\* Which phases a request of each kind goes through, and what it has in hand there.
Phase(r) ==
  /\ r.pc = "idle" => r = Fresh
  /\ r.pc # "idle" => r.kind # "none"
  /\ r.pc = "done" <=> r.reply # "none"
  /\ r.kind = "insert" => r.pc \in {"hook", "check", "write", "sync", "links", "record", "done"}
  /\ r.kind = "update" => r.pc \in {"fetch", "check", "hook", "write", "record", "sync", "links", "done"}
  /\ r.kind \in {"delete", "bulk"} =>
       r.pc \in {"fetch", "refs", "hook", "write", "record", "done"} /\ ~r.asked
  /\ r.pc \in {"sync", "links"} => r.asked
  /\ (r.kind = "insert" /\ r.pc # "done") \/ r.pc = "links" => r.row \in Rows
  /\ r.kind # "insert" /\ r.pc \in {"refs", "check", "hook", "write"} => r.key \in Keys
  /\ r.kind = "update" /\ r.pc \in {"check", "hook", "write", "record", "sync"} => r.old # {}
  /\ r.pc = "idle" => r.reply = "none"

\* A request for one row has no effect before its write.
NoEffectYet(r, W, A, B) ==
  r.kind # "bulk" /\ r.pc \in {"idle", "fetch", "refs", "check", "hook", "write"} =>
    W = {} /\ A = {} /\ B = {}

\* The keys of a bulk delete are deleted, failed, or still to be done.
Counted(r) ==
  LET rest == r.todo \cup (IF r.pc \in {"refs", "hook", "write"} THEN {r.key} ELSE {}) IN
  r.kind = "bulk" =>
    /\ r.pc \in {"record", "done"} => r.todo = {}
    /\ faults = 0 =>
         /\ r.keys = rest \cup r.deleted \cup r.failed
         /\ rest \cap r.deleted = {} /\ rest \cap r.failed = {} /\ r.deleted \cap r.failed = {}

\* Who asked for links had the grants, and what is refused has written nothing.
Entitled(r, W) ==
  /\ r.asked /\ ~revoked => granted
  /\ r.reply \in Refusals /\ r.identified /\ ~revoked => W = {}

Own(r, W, A, B) == Phase(r) /\ NoEffectYet(r, W, A, B) /\ Counted(r) /\ Entitled(r, W)

\* What a request that runs alone knows of the rows it works on.
Fetched(r) ==
  /\ r.kind # "insert" /\ r.pc \in {"refs", "check", "hook", "write"} => r.old = Matching(r.key)
  /\ r.kind = "update" /\ r.pc \in {"record", "sync"} => r.old = Matching(r.key)
  /\ (r.kind = "insert" /\ r.pc \in {"sync", "links", "record"}) \/ r.pc = "links" => r.row \in live
  /\ r.pc = "links" => r.cur = Linked(r.row)
  /\ r.kind = "insert" /\ r.pc = "record" /\ r.asked => r.want = Linked(r.row)

\* The requests for which references hold without a database that enforces them.
Careful == /\ overlapped = {} /\ rewritten = {}
           /\ faults = 0 \/ \A q \in Requests : req[q].kind # "bulk"

\* A write that has been checked for such a request keeps references sound.
Ready(r) ==
  /\ r.kind = "insert" /\ r.pc = "write" => r.ref \in live \cup {None}
  /\ r.kind = "update" /\ r.pc \in {"hook", "write"} => r.ref \in live \cup {None}
  /\ r.kind \in {"delete", "bulk"} /\ r.pc \in {"hook", "write"} => \A x \in r.old : ~Referenced(x)

\* One of the updates is scheduled, and every other change.
Scheduled(A, B) ==
  /\ B \subseteq A /\ \A c \in A \ B : c.op = "update"
  /\ \E c \in B : {d \in B : d.op = "update"} = {c}

\* How the changes made, recorded and scheduled are related in each phase.
Trail(r, W, A, B) ==
  /\ r.kind = "insert" /\ r.pc \in {"sync", "links", "record"} =>
       A = B /\ W = A \cup Changes("insert", {r.row})
  /\ r.kind \in {"update", "delete"} /\ r.pc = "record" =>
       W = Changes(r.kind, r.old) /\ A = {} /\ B = {}
  /\ r.kind = "update" /\ r.pc \in {"sync", "links"} => A = W /\ Scheduled(A, B)
  /\ r.kind = "bulk" /\ r.pc # "done" => A = W /\ B = {}
  /\ r.pc = "done" =>
       /\ A \subseteq W /\ B \subseteq A
       /\ r.reply = "ok" =>
            /\ A = W
            /\ IF r.kind = "update" THEN Scheduled(A, B) ELSE A = B

Alone(r, W, A, B) == Fetched(r) /\ (Careful => Ready(r)) /\ Trail(r, W, A, B)

Requested(q) ==
  /\ Own(req[q], wrote[q], audit[q], after[q])
  /\ q \notin overlapped => Alone(req[q], wrote[q], audit[q], after[q])
  /\ q \in Running /\ q \notin overlapped => Running = {q}

IInv ==
  /\ TypeOK
  /\ \A q \in Requests : Requested(q)
  /\ enforced \/ Careful => Sound
-----------------------------------------------------------------------------
(* A step of one request leaves the others as they are.                    *)

Others(q) ==
  \A p \in Requests \ {q} :
    req'[p] = req[p] /\ wrote'[p] = wrote[p] /\ audit'[p] = audit[p] /\ after'[p] = after[p]

LEMMA FreshTyped == Fresh \in Request
BY DEF Fresh, Request, Phases, Replies, Row, None

\* A request that was answered.
LEMMA FinalIs ==
  ASSUME NEW s \in Request, NEW code \in Replies
  PROVE  /\ Final(s, code) \in Request
         /\ Final(s, code).pc = "done" /\ Final(s, code).reply = code /\ Final(s, code).kind = s.kind
         /\ Final(s, code).identified = s.identified /\ Final(s, code).keys = s.keys
         /\ Final(s, code).deleted = s.deleted /\ Final(s, code).failed = s.failed
         /\ Final(s, code).asked = FALSE /\ Final(s, code).key = None /\ Final(s, code).todo = {}
BY FreshTyped DEF Final, Fresh, Request, Phases

\* What the handlers do to the request they serve.
LEMMA ReqSet ==
  ASSUME TypeOK, NEW q \in Requests, NEW r \in Request, req' = [req EXCEPT ![q] = r]
  PROVE  /\ req' \in [Requests -> Request] /\ req'[q] = r
         /\ \A p \in Requests \ {q} : req'[p] = req[p]
BY DEF TypeOK

\* No effects: the others' too.
LEMMA NoEffect ==
  ASSUME TypeOK, NEW q \in Requests, NEW r \in Request, req' = [req EXCEPT ![q] = r], UNCHANGED effects
  PROVE  /\ Others(q) /\ wrote'[q] = wrote[q] /\ audit'[q] = audit[q] /\ after'[q] = after[q]
         /\ wrote' \in [Requests -> SUBSET Change] /\ audit' \in [Requests -> SUBSET Change]
         /\ after' \in [Requests -> SUBSET Change]
BY DEF TypeOK, Others, effects

\* The effects of a step on the changes of its own request.
LEMMA EffectSets ==
  ASSUME TypeOK, NEW q \in Requests, NEW r \in Request, req' = [req EXCEPT ![q] = r],
         NEW C \in SUBSET Change, NEW A \in SUBSET Change, NEW B \in SUBSET Change, Effect(q, C, A, B)
  PROVE  /\ Others(q)
         /\ wrote'[q] = wrote[q] \cup C /\ audit'[q] = audit[q] \cup A /\ after'[q] = after[q] \cup B
         /\ wrote' \in [Requests -> SUBSET Change] /\ audit' \in [Requests -> SUBSET Change]
         /\ after' \in [Requests -> SUBSET Change]
<1>1. /\ wrote \in [Requests -> SUBSET Change] /\ audit \in [Requests -> SUBSET Change]
      /\ after \in [Requests -> SUBSET Change] /\ req \in [Requests -> Request]
  BY DEF TypeOK
<1>2. /\ wrote' = [wrote EXCEPT ![q] = @ \cup C] /\ audit' = [audit EXCEPT ![q] = @ \cup A]
      /\ after' = [after EXCEPT ![q] = @ \cup B]
  BY DEF Effect
<1>3. wrote'[q] = wrote[q] \cup C /\ wrote' \in [Requests -> SUBSET Change]
      /\ \A p \in Requests \ {q} : wrote'[p] = wrote[p]
  BY <1>1, <1>2
<1>4. audit'[q] = audit[q] \cup A /\ audit' \in [Requests -> SUBSET Change]
      /\ \A p \in Requests \ {q} : audit'[p] = audit[p]
  BY <1>1, <1>2
<1>5. after'[q] = after[q] \cup B /\ after' \in [Requests -> SUBSET Change]
      /\ \A p \in Requests \ {q} : after'[p] = after[p]
  BY <1>1, <1>2
<1>6. \A p \in Requests \ {q} : req'[p] = req[p]
  BY <1>1
<1> QED
  BY <1>3, <1>4, <1>5, <1>6 DEF Others

\* Care is never regained.
LEMMA CarefulBefore ==
  ASSUME TypeOK, NEW q \in Requests, \A p \in Requests \ {q} : req'[p] = req[p],
         req[q].kind = "bulk" => req'[q].kind = "bulk",
         overlapped \subseteq overlapped', rewritten \subseteq rewritten',
         faults' \in {faults, faults + 1}, Careful'
  PROVE  Careful
<1>1. faults' = 0 => faults = 0
  BY DEF TypeOK
<1>2. overlapped = {} /\ rewritten = {}
  BY DEF Careful
<1>3. (\A p \in Requests : req'[p].kind # "bulk") => \A p \in Requests : req[p].kind # "bulk"
  OBVIOUS
<1> QED
  BY <1>1, <1>2, <1>3 DEF Careful

\* A running request keeps the invariant when it keeps its own part of it: what the
\* others know is of themselves, unless they have never run beside it.
LEMMA Frame ==
  ASSUME IInv, NEW q \in Requests, req[q].pc \notin {"idle", "done"}, Others(q),
         req' \in [Requests -> Request], req'[q].kind = req[q].kind,
         req'[q].key \notin req'[q].todo, req'[q].todo \subseteq req'[q].keys,
         wrote' \in [Requests -> SUBSET Change], audit' \in [Requests -> SUBSET Change],
         after' \in [Requests -> SUBSET Change],
         live' \in SUBSET Rows, ref' \in [Rows -> Row], links' \in [Rows \X Tags -> Nat],
         \A r \in Rows \ live' : ref'[r] = None,
         UNCHANGED <<config, granted, overlapped, revoked>>,
         rewritten \subseteq rewritten', rewritten' \subseteq Requests, faults' \in {faults, faults + 1},
         Own(req[q], wrote[q], audit[q], after[q])',
         q \notin overlapped => Alone(req[q], wrote[q], audit[q], after[q])',
         enforced \/ Careful' => Sound'
  PROVE  IInv'
<1>0. TypeOK
  BY DEF IInv
<1>1. TypeOK'
  <2>1. keyOf' \in [Rows -> Keys] /\ enforced' \in BOOLEAN /\ targets' \subseteq Tags /\ granted' \in BOOLEAN
        /\ overlapped' \in SUBSET Requests /\ rewritten' \in SUBSET Requests
        /\ revoked' \in BOOLEAN /\ faults' \in Nat
    BY <1>0 DEF TypeOK, config
  <2>2. \A p \in Requests : req'[p].key \notin req'[p].todo /\ req'[p].todo \subseteq req'[p].keys
    BY <1>0 DEF TypeOK, Others
  <2> QED
    BY <2>1, <2>2 DEF TypeOK
<1>2. q \in Running
  BY DEF Running
<1>3. ASSUME NEW p \in Requests, p # q PROVE Requested(p)'
  <2>1. /\ req'[p] = req[p] /\ wrote'[p] = wrote[p] /\ audit'[p] = audit[p] /\ after'[p] = after[p]
    BY <1>3 DEF Others
  <2>2. Requested(p)
    BY DEF IInv
  <2>3. Own(req[p], wrote[p], audit[p], after[p])'
    <3>1. faults' = 0 => faults = 0
      BY <1>0 DEF TypeOK
    <3>2. Phase(req[p])' /\ NoEffectYet(req[p], wrote[p], audit[p], after[p])' /\ Entitled(req[p], wrote[p])'
      BY <2>1, <2>2 DEF Requested, Own, Phase, NoEffectYet, Entitled
    <3>3. Counted(req[p])'
      BY <2>1, <2>2, <3>1 DEF Requested, Own, Counted
    <3> QED
      BY <3>2, <3>3 DEF Own
  <2>4. CASE p \in overlapped
    BY <2>3, <2>4 DEF Requested
  <2>5. CASE p \notin overlapped
    <3>1. req[p].pc \in {"idle", "done"}
      BY <1>2, <1>3, <2>2, <2>5 DEF Requested, Running
    <3>2. req[p].pc = "idle" => req[p].kind = "none"
      BY <2>2 DEF Requested, Own, Phase, Fresh
    <3>3. Trail(req[p], wrote[p], audit[p], after[p])
      BY <2>2, <2>5 DEF Requested, Alone
    <3>4. Trail(req[p], wrote[p], audit[p], after[p])'
      BY <2>1, <3>3 DEF Trail, Scheduled, Changes
    <3>5. Fetched(req[p])' /\ Ready(req[p])'
      BY <2>1, <3>1, <3>2 DEF Fetched, Ready
    <3>6. p \notin Running'
      BY <2>1, <3>1 DEF Running
    <3> QED
      BY <2>3, <3>4, <3>5, <3>6 DEF Requested, Alone
  <2> QED
    BY <2>4, <2>5
<1>4. Requested(q)'
  <2>1. q \in Running' /\ q \notin overlapped' => Running' = {q}
    <3>1. SUFFICES ASSUME q \in Running', q \notin overlapped PROVE Running' = {q}
      OBVIOUS
    <3>2. Running = {q}
      BY <1>2, <3>1 DEF IInv, Requested
    <3>3. ASSUME NEW p \in Requests, p # q PROVE p \notin Running'
      BY <3>2, <3>3 DEF Running, Others
    <3> QED
      BY <3>1, <3>3 DEF Running
  <2> QED
    BY <2>1 DEF Requested
<1> QED
  BY <1>1, <1>3, <1>4 DEF IInv, config

\* A step that changes nothing but its own request.
LEMMA QuietStep ==
  ASSUME IInv, NEW q \in Requests, req[q].pc \notin {"idle", "done"},
         NEW r \in Request, req' = [req EXCEPT ![q] = r],
         r.kind = req[q].kind, r.key \notin r.todo, r.todo \subseteq r.keys,
         UNCHANGED <<database, granted, effects, overlapped, revoked>>,
         rewritten \subseteq rewritten', rewritten' \subseteq Requests, faults' \in {faults, faults + 1},
         Phase(r), NoEffectYet(r, wrote[q], audit[q], after[q]), Entitled(r, wrote[q]), Counted(req[q])',
         q \notin overlapped =>
           Fetched(r) /\ (Careful /\ Careful' => Ready(r)) /\ Trail(r, wrote[q], audit[q], after[q])
  PROVE  IInv'
<1>0. TypeOK
  BY DEF IInv
<1>1. req' \in [Requests -> Request] /\ req'[q] = r /\ \A p \in Requests \ {q} : req'[p] = req[p]
  BY <1>0, ReqSet
<1>2. /\ Others(q) /\ wrote'[q] = wrote[q] /\ audit'[q] = audit[q] /\ after'[q] = after[q]
      /\ wrote' \in [Requests -> SUBSET Change] /\ audit' \in [Requests -> SUBSET Change]
      /\ after' \in [Requests -> SUBSET Change]
  BY <1>0, NoEffect
<1>3. live' = live /\ ref' = ref /\ links' = links /\ keyOf' = keyOf /\ enforced' = enforced
      /\ targets' = targets
  BY DEF database, config
<1>4. Own(req[q], wrote[q], audit[q], after[q])'
  <2>1. Phase(req[q])' /\ NoEffectYet(req[q], wrote[q], audit[q], after[q])'
    BY <1>1, <1>2 DEF Phase, NoEffectYet
  <2>2. Entitled(req[q], wrote[q])'
    BY <1>1, <1>2 DEF Entitled
  <2> QED
    BY <2>1, <2>2 DEF Own
<1>5. Careful' => Careful
  BY <1>0, <1>1, CarefulBefore
<1>6. q \notin overlapped => Alone(req[q], wrote[q], audit[q], after[q])'
  <2>1. SUFFICES ASSUME q \notin overlapped PROVE Alone(req[q], wrote[q], audit[q], after[q])'
    OBVIOUS
  <2>2. Fetched(req[q])'
    BY <1>1, <1>3, <2>1 DEF Fetched, Matching, Linked
  <2>3. Careful' => Ready(req[q])'
    BY <1>1, <1>3, <1>5, <2>1 DEF Ready, Referenced
  <2>4. Trail(req[q], wrote[q], audit[q], after[q])'
    BY <1>1, <1>2, <2>1 DEF Trail, Scheduled, Changes
  <2> QED
    BY <2>2, <2>3, <2>4 DEF Alone
<1>7. enforced \/ Careful' => Sound'
  BY <1>3, <1>5 DEF IInv, Sound
<1>8. /\ live' \in SUBSET Rows /\ ref' \in [Rows -> Row] /\ links' \in [Rows \X Tags -> Nat]
      /\ \A x \in Rows \ live' : ref'[x] = None
  BY <1>0, <1>3 DEF TypeOK
<1>9. UNCHANGED <<config, granted, overlapped, revoked>>
  BY DEF database
<1>10. req'[q].kind = req[q].kind /\ req'[q].key \notin req'[q].todo /\ req'[q].todo \subseteq req'[q].keys
  BY <1>1
<1> QED
  BY <1>1, <1>2, <1>4, <1>6, <1>7, <1>8, <1>9, <1>10, Frame

\* A request that is refused before its write has had no effect.
LEMMA Refuse ==
  ASSUME IInv, NEW q \in Requests, req[q].pc \in {"fetch", "refs", "check", "hook", "write"},
         req[q].kind # "bulk", NEW code \in Refusals, Reply(q, code),
         UNCHANGED <<database, granted, effects, history>>, faults' \in {faults, faults + 1}
  PROVE  IInv'
<1> DEFINE r == Final(req[q], code)
<1>1. /\ req[q] \in Request /\ req \in [Requests -> Request] /\ code \in Replies /\ code # "none"
      /\ code # "ok"
  BY DEF IInv, TypeOK, Refusals, Replies
<1>2. /\ r \in Request /\ r.pc = "done" /\ r.kind = req[q].kind /\ r.reply = code /\ r.asked = FALSE
      /\ r.key = None /\ r.todo = {} /\ r.keys = req[q].keys
  BY ZenonT(60), <1>1, FinalIs
<1>3. req' = [req EXCEPT ![q] = r]
  BY DEF Reply
<1> HIDE DEF r
<1>4. Requested(q)
  BY DEF IInv
<1>5. wrote[q] = {} /\ audit[q] = {} /\ after[q] = {}
  BY <1>4 DEF Requested, Own, NoEffectYet
<1>6. Phase(r)
  BY <1>1, <1>2, <1>4 DEF Phase, Requested, Own
<1>7. NoEffectYet(r, wrote[q], audit[q], after[q]) /\ Entitled(r, wrote[q])
  BY <1>2, <1>5 DEF NoEffectYet, Entitled
<1>8. Counted(req[q])'
  <2>1. req'[q] = r
    BY <1>1, <1>3
  <2> QED
    BY <1>2, <2>1 DEF Counted
<1>9. Fetched(r) /\ Ready(r) /\ Trail(r, wrote[q], audit[q], after[q])
  BY <1>1, <1>2, <1>5 DEF Fetched, Ready, Trail
<1>10. UNCHANGED <<database, granted, effects, overlapped, revoked>> /\ rewritten' = rewritten
       /\ rewritten \subseteq Requests
  BY DEF history, IInv, TypeOK
<1> QED
  BY <1>2, <1>3, <1>6, <1>7, <1>8, <1>9, <1>10, QuietStep

\* A bulk delete that gives one key up counts it as failed.
LEMMA GiveUp ==
  ASSUME IInv, NEW q \in Requests, req[q].pc \in {"refs", "hook", "write"}, req[q].kind = "bulk",
         NextKey(q, {}, {req[q].key}),
         UNCHANGED <<database, granted, effects, history>>, faults' \in {faults, faults + 1}
  PROVE  IInv'
<1> DEFINE r == [req[q] EXCEPT !.deleted = @ \cup {}, !.failed = @ \cup {req[q].key},
                               !.pc = IF req[q].todo = {} THEN "record" ELSE "fetch"]
<1>1. req[q] \in Request /\ req \in [Requests -> Request] /\ Requested(q) /\ req[q].key \in Keys
  BY DEF IInv, TypeOK, Requested, Own, Phase
<1>2. /\ r \in Request /\ r.pc = (IF req[q].todo = {} THEN "record" ELSE "fetch") /\ r.kind = "bulk"
      /\ r.key = req[q].key /\ r.todo = req[q].todo /\ r.keys = req[q].keys /\ r.asked = req[q].asked
      /\ r.deleted = req[q].deleted /\ r.failed = req[q].failed \cup {req[q].key} /\ r.reply = req[q].reply
      /\ r.identified = req[q].identified
  BY <1>1 DEF Request, Phases
<1>3. req' = [req EXCEPT ![q] = r]
  BY <1>1 DEF NextKey
<1> HIDE DEF r
<1>4. Phase(r)
  BY <1>1, <1>2 DEF Phase, Requested, Own
<1>5. NoEffectYet(r, wrote[q], audit[q], after[q]) /\ Entitled(r, wrote[q])
  BY <1>1, <1>2 DEF NoEffectYet, Entitled, Requested, Own
<1>6. r.key \notin r.todo /\ r.todo \subseteq r.keys
  BY <1>2 DEF IInv, TypeOK
<1>7. Counted(req[q])'
  <2>1. req'[q] = r
    BY <1>1, <1>3
  <2>2. faults' = 0 => faults = 0
    BY DEF IInv, TypeOK
  <2>3. Counted(req[q])
    BY <1>1 DEF Requested, Own
  <2> QED
    BY <1>2, <1>6, <2>1, <2>2, <2>3 DEF Counted
<1>8. q \notin overlapped => Fetched(r) /\ Ready(r) /\ Trail(r, wrote[q], audit[q], after[q])
  BY <1>1, <1>2 DEF Fetched, Ready, Trail, Requested, Alone
<1>9. UNCHANGED <<database, granted, effects, overlapped, revoked>> /\ rewritten' = rewritten
      /\ rewritten \subseteq Requests
  BY DEF history, IInv, TypeOK
<1> QED
  BY <1>2, <1>3, <1>4, <1>5, <1>6, <1>7, <1>8, <1>9, QuietStep

\* Either way a check that fails keeps the invariant.
LEMMA FailKeeps ==
  ASSUME IInv, NEW q \in Requests, req[q].pc \in {"refs", "check", "hook", "write"},
         NEW code \in Refusals, Fail(q, code),
         UNCHANGED <<database, granted, effects, history>>, faults' \in {faults, faults + 1}
  PROVE  IInv'
<1>1. CASE req[q].kind # "bulk"
  BY <1>1, Refuse DEF Fail
<1>2. CASE req[q].kind = "bulk"
  <2>1. req[q].pc # "check"
    BY <1>2 DEF IInv, Requested, Own, Phase
  <2> QED
    BY <1>2, <2>1, GiveUp DEF Fail
<1> QED
  BY <1>1, <1>2
-----------------------------------------------------------------------------
(* The invariant holds at first, and as requests arrive.                   *)

LEMMA IInvInit == Init => IInv
<1> SUFFICES ASSUME Init PROVE IInv
  OBVIOUS
<1>1. TypeOK
  <2>0. links \in [Rows \X Tags -> {0, 1}] /\ keyOf \in Keyings /\ targets \subseteq Tags
    BY DEF Init
  <2>1. links \in [Rows \X Tags -> Nat] /\ keyOf \in [Rows -> Keys]
    BY <2>0, RowWritesAssumption
  <2>2. req \in [Requests -> Request]
    BY FreshTyped DEF Init
  <2>3. \A q \in Requests : req[q].key \notin req[q].todo /\ req[q].todo \subseteq req[q].keys
    BY DEF Init, Fresh
  <2> QED
    BY <2>0, <2>1, <2>2, <2>3 DEF Init, TypeOK
<1>2. ASSUME NEW q \in Requests PROVE Requested(q)
  <2>1. /\ req[q] = Fresh /\ Fresh.pc = "idle" /\ Fresh.kind = "none" /\ Fresh.reply = "none"
        /\ Fresh.asked = FALSE /\ wrote[q] = {} /\ audit[q] = {} /\ after[q] = {}
    BY DEF Init, Fresh
  <2>2. Phase(req[q]) /\ Counted(req[q]) /\ Entitled(req[q], wrote[q])
    BY <2>1 DEF Phase, Counted, Entitled, Refusals
  <2>3. NoEffectYet(req[q], wrote[q], audit[q], after[q])
    BY <2>1 DEF NoEffectYet
  <2>4. Alone(req[q], wrote[q], audit[q], after[q])
    BY <2>1 DEF Alone, Fetched, Ready, Trail
  <2>5. q \notin Running
    BY <2>1 DEF Running
  <2> QED
    BY <2>2, <2>3, <2>4, <2>5 DEF Requested, Own
<1> QED
  BY <1>1, <1>2 DEF IInv, Init

\* A request arrives, and either is answered at once or starts.  It makes every
\* request that runs, and itself, overlap with another.
LEMMA ArriveKeeps ==
  ASSUME IInv, NEW q \in Requests, NEW r \in Request, Arrive(q, r),
         r.key \notin r.todo, r.todo \subseteq r.keys,
         r.kind = "insert" => r.pc \in {"hook", "done"},
         r.kind # "insert" => r.pc \in {"fetch", "done"}, r.kind # "none",
         r.kind = "bulk" => r.pc = "fetch" /\ r.keys = r.todo /\ r.deleted = {} /\ r.failed = {},
         Phase(r), Entitled(r, {}), r.reply # "ok"
  PROVE  IInv'
<1>0. TypeOK
  BY DEF IInv
<1>1. /\ req[q].pc = "idle" /\ req' = [req EXCEPT ![q] = r]
      /\ overlapped' = IF Running = {} \/ r.pc = "done" THEN overlapped
                       ELSE overlapped \cup Running \cup {q}
      /\ UNCHANGED <<database, granted, effects, rewritten, revoked, faults>>
  BY DEF Arrive
<1>2. req' \in [Requests -> Request] /\ req'[q] = r /\ \A p \in Requests \ {q} : req'[p] = req[p]
  BY <1>0, <1>1, ReqSet
<1>3. live' = live /\ ref' = ref /\ links' = links /\ keyOf' = keyOf /\ enforced' = enforced
      /\ targets' = targets
  BY <1>1 DEF database, config
<1>4. wrote' = wrote /\ audit' = audit /\ after' = after
  BY <1>1 DEF effects
<1>5. overlapped \subseteq overlapped' /\ overlapped' \in SUBSET Requests
  BY <1>0, <1>1 DEF TypeOK, Running
<1>6. TypeOK'
  <2>1. \A p \in Requests : req'[p].key \notin req'[p].todo /\ req'[p].todo \subseteq req'[p].keys
    BY <1>0, <1>2 DEF TypeOK
  <2> QED
    BY <1>0, <1>1, <1>2, <1>3, <1>4, <1>5, <2>1 DEF TypeOK
<1>7. Requested(q) /\ req[q].kind = "none"
  <2>1. Requested(q)
    BY DEF IInv
  <2>2. req[q] = Fresh
    BY <1>1, <2>1 DEF Requested, Own, Phase
  <2> QED
    BY <2>1, <2>2 DEF Fresh
<1>8. wrote[q] = {} /\ audit[q] = {} /\ after[q] = {}
  BY <1>1, <1>7 DEF Requested, Own, NoEffectYet
<1>9. Careful' => Careful
  <2>1. (\A p \in Requests : req'[p].kind # "bulk") => \A p \in Requests : req[p].kind # "bulk"
    BY <1>2, <1>7
  <2> QED
    BY <1>1, <1>5, <2>1 DEF Careful
<1>10. Requested(q)'
  <2>1. Own(req[q], wrote[q], audit[q], after[q])'
    <3>1. Phase(req[q])' /\ NoEffectYet(req[q], wrote[q], audit[q], after[q])' /\ Entitled(req[q], wrote[q])'
      BY <1>1, <1>2, <1>4, <1>8 DEF Phase, NoEffectYet, Entitled
    <3>2. Counted(req[q])'
      BY <1>2 DEF Counted
    <3> QED
      BY <3>1, <3>2 DEF Own
  <2>2. Alone(req[q], wrote[q], audit[q], after[q])'
    <3>1. Fetched(req[q])' /\ Ready(req[q])'
      BY <1>2 DEF Fetched, Ready
    <3>2. Trail(req[q], wrote[q], audit[q], after[q])'
      BY <1>2, <1>4, <1>8 DEF Trail
    <3> QED
      BY <3>1, <3>2 DEF Alone
  <2>3. q \in Running' /\ q \notin overlapped' => Running' = {q}
    <3>1. SUFFICES ASSUME q \in Running', q \notin overlapped' PROVE Running' = {q}
      OBVIOUS
    <3>2. Running = {}
      BY <1>1, <1>2, <3>1 DEF Running
    <3> QED
      BY <1>2, <3>1, <3>2 DEF Running
  <2> QED
    BY <2>1, <2>2, <2>3 DEF Requested
<1>11. ASSUME NEW p \in Requests, p # q PROVE Requested(p)'
  <2>1. Requested(p) /\ req'[p] = req[p]
    BY <1>2, <1>11 DEF IInv
  <2>2. Own(req[p], wrote[p], audit[p], after[p])'
    BY <1>1, <1>4, <2>1 DEF Requested, Own, Phase, NoEffectYet, Counted, Entitled
  <2>3. p \notin overlapped' => Alone(req[p], wrote[p], audit[p], after[p])'
    <3>1. SUFFICES ASSUME p \notin overlapped PROVE Alone(req[p], wrote[p], audit[p], after[p])'
      BY <1>5
    <3>2. Fetched(req[p])'
      BY <1>3, <2>1, <3>1 DEF Requested, Alone, Fetched, Matching, Linked
    <3>3. Careful' => Ready(req[p])'
      BY <1>3, <1>9, <2>1, <3>1 DEF Requested, Alone, Ready, Referenced
    <3>4. Trail(req[p], wrote[p], audit[p], after[p])'
      BY <1>4, <2>1, <3>1 DEF Requested, Alone, Trail, Scheduled, Changes
    <3> QED
      BY <3>2, <3>3, <3>4 DEF Alone
  <2>4. p \in Running' /\ p \notin overlapped' => Running' = {p}
    <3>1. SUFFICES ASSUME p \in Running', p \notin overlapped' PROVE Running' = {p}
      OBVIOUS
    <3>2. p \in Running
      BY <2>1, <3>1 DEF Running
    <3>3. r.pc = "done" /\ p \notin overlapped
      BY <1>1, <3>1, <3>2
    <3>4. Running = {p}
      BY <2>1, <3>2, <3>3 DEF Requested
    <3> QED
      BY <1>2, <3>1, <3>3, <3>4 DEF Running
  <2> QED
    BY <2>2, <2>3, <2>4 DEF Requested
<1>12. enforced' \/ Careful' => Sound'
  BY <1>3, <1>9 DEF IInv, Sound
<1> QED
  BY <1>6, <1>10, <1>11, <1>12 DEF IInv

LEMMA InsertKeeps ==
  ASSUME IInv, NEW q \in Requests, Insert(q)
  PROVE  IInv'
<1>1. PICK x \in Rows, identified \in BOOLEAN, asked \in BOOLEAN :
        /\ asked \/ identified
        /\ Arrive(q, Checked([Fresh EXCEPT !.kind = "insert", !.row = x, !.asked = asked,
                                           !.identified = identified], "hook"))
  BY DEF Insert
<1> DEFINE b == [Fresh EXCEPT !.kind = "insert", !.row = x, !.asked = asked, !.identified = identified]
           r == Checked(b, "hook")
<1>2. /\ b \in Request /\ b.kind = "insert" /\ b.row = x /\ b.asked = asked /\ b.todo = {} /\ b.reply = "none"
      /\ b.key = None
  BY ZenonT(60), FreshTyped DEF Fresh, Request, Row
<1> HIDE DEF b
<1>3. CASE asked /\ ~granted
  <2>1. r = Final(b, "FORBIDDEN")
    BY <1>2, <1>3 DEF Checked
  <2> HIDE DEF r
  <2>2. /\ r \in Request /\ r.pc = "done" /\ r.kind = "insert" /\ r.reply = "FORBIDDEN" /\ r.asked = FALSE
        /\ r.todo = {} /\ r.key = None
    <3>1. "FORBIDDEN" \in Replies
      BY DEF Replies
    <3> QED
      BY <1>2, <2>1, <3>1, FinalIs
  <2>3. Phase(r) /\ Entitled(r, {})
    BY <2>2 DEF Phase, Entitled
  <2> QED
    BY <1>1, <2>2, <2>3, ArriveKeeps DEF r, b
<1>4. CASE ~(asked /\ ~granted)
  <2>1. r = [b EXCEPT !.pc = "hook"]
    BY <1>2, <1>4 DEF Checked
  <2>2. /\ r \in Request /\ r.pc = "hook" /\ r.kind = "insert" /\ r.reply = "none" /\ r.asked = asked
        /\ r.todo = {} /\ r.key = None /\ r.row = x
    BY <1>2, <2>1 DEF Request, Phases
  <2>3. Phase(r) /\ Entitled(r, {})
    BY <1>4, <2>2 DEF Phase, Entitled, Refusals
  <2> HIDE DEF r
  <2> QED
    BY <1>1, <2>2, <2>3, ArriveKeeps DEF r, b
<1> QED
  BY <1>3, <1>4

\* The keys a request names are in use.
LEMMA KeysTyped == ASSUME TypeOK PROVE KeysInUse \subseteq Keys
BY DEF TypeOK, KeysInUse

LEMMA UpdateKeeps ==
  ASSUME IInv, NEW q \in Requests, Update(q)
  PROVE  IInv'
<1>1. PICK k \in KeysInUse, asked \in BOOLEAN :
        Arrive(q, Checked([Fresh EXCEPT !.kind = "update", !.keys = {k}, !.todo = {k}, !.asked = asked],
                          "fetch"))
  BY DEF Update
<1> DEFINE b == [Fresh EXCEPT !.kind = "update", !.keys = {k}, !.todo = {k}, !.asked = asked]
           r == Checked(b, "fetch")
<1>0. k \in Keys /\ None \notin Keys
  BY KeysTyped, RowWritesAssumption DEF IInv, None
<1>2. /\ b \in Request /\ b.kind = "update" /\ b.asked = asked /\ b.todo = {k} /\ b.keys = {k}
      /\ b.reply = "none" /\ b.key = None
  BY <1>0, FreshTyped DEF Fresh, Request
<1> HIDE DEF b
<1>3. CASE asked /\ ~granted
  <2>1. r = Final(b, "FORBIDDEN")
    BY <1>2, <1>3 DEF Checked
  <2> HIDE DEF r
  <2>2. /\ r \in Request /\ r.pc = "done" /\ r.kind = "update" /\ r.reply = "FORBIDDEN" /\ r.asked = FALSE
        /\ r.todo = {} /\ r.key = None
    <3>1. "FORBIDDEN" \in Replies
      BY DEF Replies
    <3> QED
      BY <1>2, <2>1, <3>1, FinalIs
  <2>3. Phase(r) /\ Entitled(r, {})
    BY <2>2 DEF Phase, Entitled
  <2> QED
    BY <1>1, <2>2, <2>3, ArriveKeeps DEF r, b
<1>4. CASE ~(asked /\ ~granted)
  <2>1. r = [b EXCEPT !.pc = "fetch"]
    BY <1>2, <1>4 DEF Checked
  <2> HIDE DEF r
  <2>2. /\ r \in Request /\ r.pc = "fetch" /\ r.kind = "update" /\ r.reply = "none" /\ r.asked = asked
        /\ r.todo = {k} /\ r.keys = {k} /\ r.key = None
    BY <1>2, <2>1 DEF Request, Phases
  <2>3. Phase(r) /\ Entitled(r, {})
    BY <1>4, <2>2 DEF Phase, Entitled, Refusals
  <2> QED
    BY <1>0, <1>1, <2>2, <2>3, ArriveKeeps DEF r, b
<1> QED
  BY <1>3, <1>4

LEMMA DeletesKeep ==
  ASSUME IInv, NEW q \in Requests, Delete(q) \/ BulkDelete(q)
  PROVE  IInv'
<1>1. PICK kind \in {"delete", "bulk"}, S \in SUBSET KeysInUse :
        Arrive(q, [Fresh EXCEPT !.kind = kind, !.keys = S, !.todo = S, !.pc = "fetch"])
  <2>1. ASSUME NEW k \in KeysInUse PROVE {k} \in SUBSET KeysInUse
    OBVIOUS
  <2> QED
    BY <2>1 DEF Delete, BulkDelete
<1> DEFINE r == [Fresh EXCEPT !.kind = kind, !.keys = S, !.todo = S, !.pc = "fetch"]
<1>0. S \subseteq Keys /\ None \notin Keys
  BY KeysTyped, RowWritesAssumption DEF IInv, None
<1>2. /\ r \in Request /\ r.pc = "fetch" /\ r.kind = kind /\ r.keys = S /\ r.todo = S /\ r.key = None
      /\ r.deleted = {} /\ r.failed = {} /\ r.reply = "none" /\ r.asked = FALSE
  BY <1>0, FreshTyped DEF Fresh, Request, Phases
<1> HIDE DEF r
<1>3. Phase(r) /\ Entitled(r, {})
  BY <1>2 DEF Phase, Entitled, Refusals
<1> QED
  BY <1>0, <1>1, <1>2, <1>3, ArriveKeeps DEF r

\* Grants are only ever taken away.
LEMMA RevokeKeeps ==
  ASSUME IInv, Revoke
  PROVE  IInv'
<1>1. /\ granted' = FALSE /\ revoked' = TRUE
      /\ UNCHANGED <<database, req, effects, overlapped, rewritten, faults>>
  BY DEF Revoke
<1>2. live' = live /\ ref' = ref /\ links' = links /\ keyOf' = keyOf /\ enforced' = enforced
      /\ targets' = targets
  BY <1>1 DEF database, config
<1>3. wrote' = wrote /\ audit' = audit /\ after' = after
  BY <1>1 DEF effects
<1>4. TypeOK'
  BY <1>1, <1>2, <1>3 DEF IInv, TypeOK
<1>5. ASSUME NEW p \in Requests PROVE Requested(p)'
  <2>1. Requested(p)
    BY DEF IInv
  <2>2. Own(req[p], wrote[p], audit[p], after[p])'
    BY <1>1, <1>3, <2>1 DEF Requested, Own, Phase, NoEffectYet, Counted, Entitled
  <2>3. p \notin overlapped' => Alone(req[p], wrote[p], audit[p], after[p])'
    <3>1. SUFFICES ASSUME p \notin overlapped PROVE Alone(req[p], wrote[p], audit[p], after[p])'
      BY <1>1
    <3>2. Fetched(req[p])'
      BY <1>1, <1>2, <2>1, <3>1 DEF Requested, Alone, Fetched, Matching, Linked
    <3>3. Careful' => Ready(req[p])'
      BY <1>1, <1>2, <2>1, <3>1 DEF Requested, Alone, Careful, Ready, Referenced
    <3>4. Trail(req[p], wrote[p], audit[p], after[p])'
      BY <1>1, <1>3, <2>1, <3>1 DEF Requested, Alone, Trail, Scheduled, Changes
    <3> QED
      BY <3>2, <3>3, <3>4 DEF Alone
  <2>4. p \in Running' /\ p \notin overlapped' => Running' = {p}
    BY <1>1, <2>1 DEF Requested, Running
  <2> QED
    BY <2>2, <2>3, <2>4 DEF Requested
<1>6. enforced' \/ Careful' => Sound'
  BY <1>1, <1>2 DEF IInv, Careful, Sound
<1> QED
  BY <1>4, <1>5, <1>6 DEF IInv
-----------------------------------------------------------------------------
(* The checks before the write.                                            *)

LEMMA FaultCounted == ASSUME Fault PROVE faults' \in {faults, faults + 1}
BY DEF Fault

\* The key at hand is off the list; what it means is fetched.
LEMMA TakeIs ==
  ASSUME TypeOK, NEW q \in Requests, NEW k \in req[q].todo
  PROVE  /\ Take(q, k) \in Request /\ Take(q, k).todo = req[q].todo \ {k} /\ Take(q, k).key = k
         /\ Take(q, k).old = Matching(k) /\ k \in Keys /\ Take(q, k).kind = req[q].kind
         /\ Take(q, k).pc = req[q].pc /\ Take(q, k).asked = req[q].asked /\ Take(q, k).keys = req[q].keys
         /\ Take(q, k).identified = req[q].identified /\ Take(q, k).deleted = req[q].deleted
         /\ Take(q, k).failed = req[q].failed /\ Take(q, k).reply = req[q].reply
         /\ Take(q, k).row = req[q].row /\ Take(q, k).ref = req[q].ref
<1>1. req[q] \in Request /\ k \in Keys
  BY DEF TypeOK, Request
<1>2. Matching(k) \in SUBSET Rows
  BY DEF Matching, TypeOK
<1> QED
  BY <1>1, <1>2 DEF Take, Request

\* A key that cannot be fetched ends the request, or is one more failure of a bulk delete.
LEMMA MissKeeps ==
  ASSUME IInv, NEW q \in Requests, At(q, {"update", "delete", "bulk"}, "fetch"), NEW k \in req[q].todo,
         NEW code \in Refusals, req' = [req EXCEPT ![q] = Miss(Take(q, k), code)],
         UNCHANGED <<database, granted, effects, history>>, faults' \in {faults, faults + 1}
  PROVE  IInv'
<1>0. TypeOK /\ Requested(q) /\ req[q] \in Request /\ req[q].pc = "fetch"
  BY DEF IInv, TypeOK, At
<1> DEFINE s == Take(q, k)
<1>1. /\ s \in Request /\ s.todo = req[q].todo \ {k} /\ s.key = k /\ s.kind = req[q].kind
      /\ s.asked = req[q].asked /\ s.keys = req[q].keys /\ s.identified = req[q].identified
      /\ s.deleted = req[q].deleted /\ s.failed = req[q].failed /\ s.reply = req[q].reply /\ k \in Keys
  BY <1>0, TakeIs
<1> HIDE DEF s
<1>2. CASE req[q].kind # "bulk"
  <2>1. Miss(s, code) = Final(req[q], code)
    BY <1>1, <1>2 DEF Miss, Final
  <2> QED
    BY <1>0, <1>2, <2>1, Refuse DEF Reply, s
<1>3. CASE req[q].kind = "bulk"
  <2> DEFINE r == Miss(s, code)
  <2>1. /\ r \in Request /\ r.pc = (IF s.todo = {} THEN "record" ELSE "fetch") /\ r.kind = "bulk"
        /\ r.key = k /\ r.todo = s.todo /\ r.keys = s.keys /\ r.asked = s.asked
        /\ r.deleted = s.deleted /\ r.failed = s.failed \cup {k} /\ r.reply = s.reply
        /\ r.identified = s.identified
    BY <1>1, <1>3 DEF Miss, Request, Phases
  <2>2. req' = [req EXCEPT ![q] = r]
    BY DEF s
  <2> HIDE DEF r
  <2>3. Phase(r)
    BY <1>0, <1>1, <1>3, <2>1 DEF Phase, Requested, Own
  <2>4. NoEffectYet(r, wrote[q], audit[q], after[q]) /\ Entitled(r, wrote[q])
    BY <1>0, <1>1, <2>1 DEF NoEffectYet, Entitled, Requested, Own
  <2>5. r.key \notin r.todo /\ r.todo \subseteq r.keys
    BY <1>0, <1>1, <2>1 DEF TypeOK
  <2>6. Counted(req[q])'
    <3>1. req'[q] = r
      BY <1>0, <2>2 DEF TypeOK
    <3>2. faults' = 0 => faults = 0
      BY <1>0 DEF TypeOK
    <3>3. Counted(req[q])
      BY <1>0 DEF Requested, Own
    <3>4. r.pc \in {"record", "done"} => r.todo = {}
      BY <2>1
    <3>5. ASSUME faults = 0
          PROVE  /\ r.keys = r.todo \cup r.deleted \cup r.failed
                 /\ r.todo \cap r.deleted = {} /\ r.todo \cap r.failed = {} /\ r.deleted \cap r.failed = {}
      <4>1. /\ req[q].keys = req[q].todo \cup req[q].deleted \cup req[q].failed
            /\ req[q].todo \cap req[q].deleted = {} /\ req[q].todo \cap req[q].failed = {}
            /\ req[q].deleted \cap req[q].failed = {}
        BY <1>0, <1>3, <3>3, <3>5 DEF Counted
      <4> QED
        BY <1>1, <2>1, <4>1
    <3> QED
      BY <2>1, <3>1, <3>2, <3>4, <3>5 DEF Counted
  <2>7. q \notin overlapped => Fetched(r) /\ Ready(r) /\ Trail(r, wrote[q], audit[q], after[q])
    BY <1>0, <1>3, <2>1 DEF Fetched, Ready, Trail, Requested, Alone
  <2>8. UNCHANGED <<database, granted, effects, overlapped, revoked>> /\ rewritten' = rewritten
        /\ rewritten \subseteq Requests
    BY <1>0 DEF history, TypeOK
  <2> QED
    BY <1>0, <1>3, <2>1, <2>2, <2>3, <2>4, <2>5, <2>6, <2>7, <2>8, QuietStep
<1> QED
  BY <1>2, <1>3

LEMMA FetchKeeps ==
  ASSUME IInv, NEW q \in Requests, Fetch(q)
  PROVE  IInv'
<1>0. TypeOK /\ Requested(q) /\ req[q] \in Request /\ req[q].pc = "fetch"
      /\ req[q].kind \in {"update", "delete", "bulk"} /\ At(q, {"update", "delete", "bulk"}, "fetch")
      /\ UNCHANGED <<database, granted, effects, history>>
  BY DEF IInv, TypeOK, At, Fetch
<1>1. PICK k \in req[q].todo :
        \/ Fault /\ req' = [req EXCEPT ![q] = Miss(Take(q, k), "CONN")]
        \/ UNCHANGED faults /\ req' = [req EXCEPT ![q] = Miss(Take(q, k), "NOT_FOUND")]
        \/ /\ Matching(k) # {} /\ UNCHANGED faults
           /\ req' = [req EXCEPT ![q] =
                [Take(q, k) EXCEPT !.pc = IF req[q].kind = "update" THEN "check" ELSE "refs"]]
  BY DEF Fetch
<1>2. CASE Fault /\ req' = [req EXCEPT ![q] = Miss(Take(q, k), "CONN")]
  BY <1>0, <1>2, FaultCounted, MissKeeps DEF Refusals
<1>3. CASE UNCHANGED faults /\ req' = [req EXCEPT ![q] = Miss(Take(q, k), "NOT_FOUND")]
  BY <1>0, <1>3, MissKeeps DEF Refusals
<1>4. CASE /\ Matching(k) # {} /\ UNCHANGED faults
           /\ req' = [req EXCEPT ![q] =
                [Take(q, k) EXCEPT !.pc = IF req[q].kind = "update" THEN "check" ELSE "refs"]]
  <2> DEFINE s == Take(q, k)
             r == [s EXCEPT !.pc = IF req[q].kind = "update" THEN "check" ELSE "refs"]
  <2>1. /\ s \in Request /\ s.todo = req[q].todo \ {k} /\ s.key = k /\ s.kind = req[q].kind
        /\ s.asked = req[q].asked /\ s.keys = req[q].keys /\ s.identified = req[q].identified
        /\ s.deleted = req[q].deleted /\ s.failed = req[q].failed /\ s.reply = req[q].reply
        /\ s.old = Matching(k) /\ k \in Keys
    BY <1>0, TakeIs
  <2> HIDE DEF s
  <2>2. /\ r \in Request /\ r.pc = (IF req[q].kind = "update" THEN "check" ELSE "refs")
        /\ r.kind = req[q].kind /\ r.key = k /\ r.todo = req[q].todo \ {k} /\ r.keys = req[q].keys
        /\ r.asked = req[q].asked /\ r.old = Matching(k) /\ r.identified = req[q].identified
        /\ r.deleted = req[q].deleted /\ r.failed = req[q].failed /\ r.reply = req[q].reply
    BY <2>1 DEF Request, Phases
  <2>3. req' = [req EXCEPT ![q] = r]
    BY <1>4 DEF s
  <2> HIDE DEF r
  <2>4. Phase(r)
    BY <1>0, <1>4, <2>1, <2>2 DEF Phase, Requested, Own
  <2>5. NoEffectYet(r, wrote[q], audit[q], after[q]) /\ Entitled(r, wrote[q])
    BY <1>0, <2>2 DEF NoEffectYet, Entitled, Requested, Own
  <2>6. r.key \notin r.todo /\ r.todo \subseteq r.keys
    BY <1>0, <2>2 DEF TypeOK
  <2>7. Counted(req[q])'
    <3>1. req'[q] = r /\ faults' = faults
      BY <1>0, <1>4, <2>3 DEF TypeOK
    <3>2. Counted(req[q])
      BY <1>0 DEF Requested, Own
    <3> QED
      BY <1>0, <2>2, <3>1, <3>2 DEF Counted
  <2>8. q \notin overlapped => Fetched(r) /\ Ready(r) /\ Trail(r, wrote[q], audit[q], after[q])
    <3>1. Fetched(r) /\ Ready(r)
      BY <1>0, <2>2 DEF Fetched, Ready
    <3>2. q \notin overlapped => Trail(r, wrote[q], audit[q], after[q])
      BY <1>0, <2>2 DEF Trail, Requested, Alone
    <3> QED
      BY <3>1, <3>2
  <2>9. UNCHANGED <<database, granted, effects, overlapped, revoked>> /\ rewritten' = rewritten
        /\ rewritten \subseteq Requests /\ faults' = faults
    BY <1>0, <1>4 DEF history, TypeOK
  <2> QED
    BY <1>0, <2>2, <2>3, <2>4, <2>5, <2>6, <2>7, <2>8, <2>9, QuietStep
<1> QED
  BY <1>1, <1>2, <1>3, <1>4

\* A request that only goes on to another phase keeps its own part of the invariant,
\* but for what that phase knows more.
LEMMA GotoKeeps ==
  ASSUME IInv, NEW q \in Requests, NEW pc \in Phases \ {"idle", "done"}, Goto(q, pc),
         req[q].pc \notin {"idle", "done"},
         Phase([req[q] EXCEPT !.pc = pc]),
         req[q].kind # "bulk" /\ pc \in {"fetch", "refs", "check", "hook", "write"} =>
           req[q].pc \in {"fetch", "refs", "check", "hook", "write"},
         req[q].kind = "bulk" => req[q].pc \in {"refs", "hook", "write"} /\ pc \in {"refs", "hook", "write"},
         q \notin overlapped =>
           /\ Fetched([req[q] EXCEPT !.pc = pc])
           /\ Careful => Ready([req[q] EXCEPT !.pc = pc])
           /\ Trail([req[q] EXCEPT !.pc = pc], wrote[q], audit[q], after[q]),
         UNCHANGED <<database, granted, effects, history, faults>>
  PROVE  IInv'
<1> DEFINE r == [req[q] EXCEPT !.pc = pc]
<1>0. TypeOK /\ Requested(q) /\ req[q] \in Request
  BY DEF IInv, TypeOK
<1>1. /\ r \in Request /\ r.pc = pc /\ r.kind = req[q].kind /\ r.key = req[q].key /\ r.todo = req[q].todo
      /\ r.keys = req[q].keys /\ r.asked = req[q].asked /\ r.reply = req[q].reply
      /\ r.identified = req[q].identified /\ r.deleted = req[q].deleted /\ r.failed = req[q].failed
  BY <1>0 DEF Request
<1>2. req' = [req EXCEPT ![q] = r]
  BY <1>0 DEF Goto, TypeOK
<1>3. Phase(r) /\ (q \notin overlapped =>
        Fetched(r) /\ (Careful => Ready(r)) /\ Trail(r, wrote[q], audit[q], after[q]))
  OBVIOUS
<1> HIDE DEF r
<1>4. NoEffectYet(r, wrote[q], audit[q], after[q])
  BY <1>0, <1>1 DEF NoEffectYet, Requested, Own
<1>5. Entitled(r, wrote[q])
  BY <1>0, <1>1 DEF Entitled, Requested, Own
<1>6. Counted(req[q])'
  <2>1. req'[q] = r /\ faults' = faults
    BY <1>0, <1>2 DEF TypeOK
  <2>2. Counted(req[q])
    BY <1>0 DEF Requested, Own
  <2> QED
    BY <1>1, <2>1, <2>2 DEF Counted
<1>7. r.key \notin r.todo /\ r.todo \subseteq r.keys
  BY <1>0, <1>1 DEF TypeOK
<1>8. UNCHANGED <<database, granted, effects, overlapped, revoked>> /\ rewritten' = rewritten
      /\ rewritten \subseteq Requests /\ faults' \in {faults, faults + 1}
  BY <1>0 DEF history, TypeOK
<1> QED
  BY <1>1, <1>2, <1>3, <1>4, <1>5, <1>6, <1>7, <1>8, QuietStep

LEMMA CheckRefsKeeps ==
  ASSUME IInv, NEW q \in Requests, CheckRefs(q)
  PROVE  IInv'
<1>0. /\ TypeOK /\ Requested(q) /\ req[q] \in Request /\ req[q].pc = "refs"
      /\ req[q].kind \in {"delete", "bulk"} /\ req[q].key \in Keys
      /\ UNCHANGED <<database, granted, effects, history>>
  BY DEF IInv, TypeOK, At, CheckRefs, Requested, Own, Phase
<1>1. CASE (\E x \in req[q].old : Referenced(x)) /\ Fail(q, "CONFLICT") /\ UNCHANGED faults
  BY <1>0, <1>1, FailKeeps DEF Refusals
<1>2. CASE ~(\E x \in req[q].old : Referenced(x)) /\ Goto(q, "hook") /\ UNCHANGED faults
  <2> DEFINE r == [req[q] EXCEPT !.pc = "hook"]
  <2>1. /\ r.pc = "hook" /\ r.kind = req[q].kind /\ r.key = req[q].key /\ r.old = req[q].old
        /\ r.asked = req[q].asked /\ r.reply = req[q].reply
    BY <1>0 DEF Request
  <2> HIDE DEF r
  <2>2. Phase(r)
    BY <1>0, <2>1 DEF Phase, Requested, Own
  <2>3. Ready(r) /\ (q \notin overlapped => Fetched(r) /\ Trail(r, wrote[q], audit[q], after[q]))
    BY <1>0, <1>2, <2>1 DEF Ready, Fetched, Trail, Requested, Alone
  <2> QED
    BY <1>0, <1>2, <2>2, <2>3, GotoKeeps DEF r, Phases
<1>3. CASE req[q].kind = "delete" /\ Fault /\ Reply(q, "CONN")
  BY <1>0, <1>3, FaultCounted, Refuse DEF Refusals
<1>4. CASE req[q].kind = "bulk" /\ Fault
           /\ req' = [req EXCEPT ![q].pc = "hook", ![q].failed = @ \cup {req[q].key}]
  <2> DEFINE r == [req[q] EXCEPT !.pc = "hook", !.failed = req[q].failed \cup {req[q].key}]
  <2>1. /\ r \in Request /\ r.pc = "hook" /\ r.kind = req[q].kind /\ r.key = req[q].key
        /\ r.old = req[q].old /\ r.asked = req[q].asked /\ r.reply = req[q].reply
        /\ r.todo = req[q].todo /\ r.keys = req[q].keys /\ r.identified = req[q].identified
    BY <1>0 DEF Request, Phases
  <2>2. req' = [req EXCEPT ![q] = r]
    BY <1>0, <1>4 DEF TypeOK
  <2> HIDE DEF r
  <2>3. req'[q] = r /\ faults' # 0 /\ ~Careful'
    <3>1. req'[q] = r
      BY <1>0, <2>2 DEF TypeOK
    <3>2. faults' # 0
      BY <1>0, <1>4 DEF TypeOK, Fault
    <3> QED
      BY <1>4, <2>1, <3>1, <3>2 DEF Careful
  <2>4. Phase(r)
    BY <1>0, <2>1 DEF Phase, Requested, Own
  <2>5. NoEffectYet(r, wrote[q], audit[q], after[q]) /\ Entitled(r, wrote[q])
    BY <1>0, <1>4, <2>1 DEF NoEffectYet, Entitled, Requested, Own
  <2>6. Counted(req[q])'
    BY <2>1, <2>3 DEF Counted
  <2>7. q \notin overlapped => Fetched(r) /\ Trail(r, wrote[q], audit[q], after[q])
    BY <1>0, <1>4, <2>1 DEF Fetched, Trail, Requested, Alone
  <2>8. r.key \notin r.todo /\ r.todo \subseteq r.keys
    BY <1>0, <2>1 DEF TypeOK
  <2>9. UNCHANGED <<database, granted, effects, overlapped, revoked>> /\ rewritten' = rewritten
        /\ rewritten \subseteq Requests /\ faults' \in {faults, faults + 1}
    BY <1>0, <1>4, FaultCounted DEF history, TypeOK
  <2> QED
    BY <1>0, <2>1, <2>2, <2>3, <2>4, <2>5, <2>6, <2>7, <2>8, <2>9, QuietStep
<1> QED
  BY <1>1, <1>2, <1>3, <1>4 DEF CheckRefs

LEMMA CheckFKKeeps ==
  ASSUME IInv, NEW q \in Requests, CheckFK(q)
  PROVE  IInv'
<1>0. /\ TypeOK /\ Requested(q) /\ req[q] \in Request /\ req[q].pc = "check"
      /\ req[q].kind \in {"insert", "update"}
      /\ UNCHANGED <<database, granted, effects, history>>
  BY DEF IInv, TypeOK, At, CheckFK
<1>1. CASE /\ req[q].kind = "insert" /\ req[q].ref \in live \cup {None}
           /\ Goto(q, "write") /\ UNCHANGED faults
  <2> DEFINE r == [req[q] EXCEPT !.pc = "write"]
  <2>1. /\ r.pc = "write" /\ r.kind = "insert" /\ r.row = req[q].row /\ r.ref = req[q].ref
        /\ r.asked = req[q].asked /\ r.reply = req[q].reply
    BY <1>0, <1>1 DEF Request
  <2> HIDE DEF r
  <2>2. Phase(r)
    BY <1>0, <1>1, <2>1 DEF Phase, Requested, Own
  <2>3. Ready(r) /\ Fetched(r) /\ Trail(r, wrote[q], audit[q], after[q])
    BY <1>1, <2>1 DEF Ready, Fetched, Trail
  <2> QED
    BY <1>0, <1>1, <2>2, <2>3, GotoKeeps DEF r, Phases
<1>2. CASE Reply(q, "VALIDATION") /\ UNCHANGED faults
  BY <1>0, <1>2, Refuse DEF Refusals
<1>3. ASSUME req[q].kind = "update", UNCHANGED faults, NEW f \in live \cup {None},
             req' = [req EXCEPT ![q].ref = f, ![q].pc = "hook"]
      PROVE  IInv'
  <2> DEFINE r == [req[q] EXCEPT !.ref = f, !.pc = "hook"]
  <2>1. /\ r \in Request /\ r.pc = "hook" /\ r.kind = "update" /\ r.ref = f /\ r.key = req[q].key
        /\ r.old = req[q].old /\ r.asked = req[q].asked /\ r.reply = req[q].reply
        /\ r.todo = req[q].todo /\ r.keys = req[q].keys /\ r.identified = req[q].identified
    BY <1>0, <1>3 DEF Request, Phases, Row, TypeOK
  <2>2. req' = [req EXCEPT ![q] = r]
    BY <1>0, <1>3 DEF TypeOK
  <2> HIDE DEF r
  <2>3. Phase(r)
    BY <1>0, <1>3, <2>1 DEF Phase, Requested, Own
  <2>4. NoEffectYet(r, wrote[q], audit[q], after[q]) /\ Entitled(r, wrote[q])
    BY <1>0, <1>3, <2>1 DEF NoEffectYet, Entitled, Requested, Own
  <2>5. Counted(req[q])'
    <3>1. req'[q] = r
      BY <1>0, <2>2 DEF TypeOK
    <3> QED
      BY <2>1, <3>1 DEF Counted
  <2>6. q \notin overlapped => Fetched(r) /\ Ready(r) /\ Trail(r, wrote[q], audit[q], after[q])
    BY <1>0, <1>3, <2>1 DEF Fetched, Ready, Trail, Requested, Alone
  <2>7. r.key \notin r.todo /\ r.todo \subseteq r.keys
    BY <1>0, <2>1 DEF TypeOK
  <2>8. UNCHANGED <<database, granted, effects, overlapped, revoked>> /\ rewritten' = rewritten
        /\ rewritten \subseteq Requests /\ faults' \in {faults, faults + 1}
    BY <1>0, <1>3 DEF history, TypeOK
  <2> QED
    BY <1>0, <1>3, <2>1, <2>2, <2>3, <2>4, <2>5, <2>6, <2>7, <2>8, QuietStep
<1>4. CASE Fault /\ Reply(q, "CONN")
  BY <1>0, <1>4, FaultCounted, Refuse DEF Refusals
<1> QED
  BY <1>1, <1>2, <1>3, <1>4 DEF CheckFK, At

LEMMA BeforeHookKeeps ==
  ASSUME IInv, NEW q \in Requests, BeforeHook(q)
  PROVE  IInv'
<1>0. /\ TypeOK /\ Requested(q) /\ req[q] \in Request /\ req[q].pc = "hook"
      /\ UNCHANGED <<database, granted, effects, overlapped, revoked, faults>>
  BY DEF IInv, TypeOK, BeforeHook
<1>1. CASE Fail(q, "HOOK_REJECTED") /\ UNCHANGED rewritten
  BY <1>0, <1>1, FailKeeps DEF Refusals, history
<1>2. CASE req[q].kind \in {"delete", "bulk"} /\ Goto(q, "write") /\ UNCHANGED rewritten
  <2> DEFINE r == [req[q] EXCEPT !.pc = "write"]
  <2>1. /\ r.pc = "write" /\ r.kind = req[q].kind /\ r.key = req[q].key /\ r.old = req[q].old
        /\ r.asked = req[q].asked /\ r.reply = req[q].reply
    BY <1>0 DEF Request
  <2> HIDE DEF r
  <2>2. Phase(r)
    BY <1>0, <1>2, <2>1 DEF Phase, Requested, Own
  <2>3. q \notin overlapped => Fetched(r) /\ (Careful => Ready(r)) /\ Trail(r, wrote[q], audit[q], after[q])
    BY <1>0, <1>2, <2>1 DEF Ready, Fetched, Trail, Requested, Alone
  <2> QED
    BY <1>0, <1>2, <2>2, <2>3, GotoKeeps DEF r, Phases, history
<1>3. ASSUME NEW f \in Row, req[q].kind \in {"insert", "update"},
             req' = [req EXCEPT ![q].ref = f,
                                ![q].pc = IF req[q].kind = "insert" THEN "check" ELSE "write"],
             rewritten' = IF req[q].kind = "update" /\ f # req[q].ref
                            THEN rewritten \cup {q} ELSE rewritten
      PROVE  IInv'
  <2> DEFINE r == [req[q] EXCEPT !.ref = f, !.pc = IF req[q].kind = "insert" THEN "check" ELSE "write"]
  <2>1. /\ r \in Request /\ r.pc = (IF req[q].kind = "insert" THEN "check" ELSE "write")
        /\ r.kind = req[q].kind /\ r.ref = f /\ r.key = req[q].key /\ r.row = req[q].row
        /\ r.old = req[q].old /\ r.asked = req[q].asked /\ r.reply = req[q].reply
        /\ r.todo = req[q].todo /\ r.keys = req[q].keys /\ r.identified = req[q].identified
    BY <1>0 DEF Request, Phases
  <2>2. req' = [req EXCEPT ![q] = r]
    BY <1>0, <1>3 DEF TypeOK
  <2> HIDE DEF r
  <2>3. Phase(r)
    BY <1>0, <1>3, <2>1 DEF Phase, Requested, Own
  <2>4. NoEffectYet(r, wrote[q], audit[q], after[q]) /\ Entitled(r, wrote[q])
    BY <1>0, <1>3, <2>1 DEF NoEffectYet, Entitled, Requested, Own
  <2>5. Counted(req[q])'
    <3>1. req'[q] = r
      BY <1>0, <2>2 DEF TypeOK
    <3> QED
      BY <1>3, <2>1, <3>1 DEF Counted
  <2>6. q \notin overlapped => Fetched(r) /\ Trail(r, wrote[q], audit[q], after[q])
    BY <1>0, <1>3, <2>1 DEF Fetched, Trail, Requested, Alone
  <2>7. q \notin overlapped /\ Careful /\ Careful' => Ready(r)
    <3>1. SUFFICES ASSUME q \notin overlapped, Careful, Careful' PROVE Ready(r)
      OBVIOUS
    <3>2. req[q].kind = "update" => f = req[q].ref
      BY <1>3, <3>1 DEF Careful
    <3> QED
      BY <1>0, <1>3, <2>1, <3>1, <3>2 DEF Ready, Requested, Alone
  <2>8. r.key \notin r.todo /\ r.todo \subseteq r.keys
    BY <1>0, <2>1 DEF TypeOK
  <2>9. UNCHANGED <<database, granted, effects, overlapped, revoked>> /\ rewritten \subseteq rewritten'
        /\ rewritten' \subseteq Requests /\ faults' \in {faults, faults + 1}
    BY <1>0, <1>3 DEF TypeOK
  <2> QED
    BY <1>0, <1>3, <2>1, <2>2, <2>3, <2>4, <2>5, <2>6, <2>7, <2>8, <2>9, QuietStep
<1> QED
  BY <1>1, <1>2, <1>3 DEF BeforeHook, At
-----------------------------------------------------------------------------
(* The writes.                                                             *)

\* The changes a request may note are changes.
LEMMA ChangesTyped ==
  ASSUME NEW S \in SUBSET Rows
  PROVE  /\ Changes("insert", S) \in SUBSET Change /\ Changes("update", S) \in SUBSET Change
         /\ Changes("delete", S) \in SUBSET Change
         /\ \A c \in Changes("update", S) : c.op = "update"
BY DEF Changes, Change

\* A new row whose reference was checked, or is enforced, keeps references sound.
LEMMA SoundWithRow ==
  ASSUME TypeOK, Sound, NEW x \in Rows, x \notin live, NEW f \in live \cup {None, x},
         live' = live \cup {x}, ref' = [ref EXCEPT ![x] = f], links' = links
  PROVE  Sound'
<1>1. /\ ref'[x] = f /\ \A y \in Rows \ {x} : ref'[y] = ref[y]
  BY DEF TypeOK
<1>2. ASSUME NEW y \in live' PROVE ref'[y] \in live' \cup {None}
  BY ZenonT(60), <1>1 DEF TypeOK, Sound
<1>3. ASSUME NEW y \in Rows, NEW t \in Tags, links'[y, t] > 0 PROVE y \in live'
  BY <1>3 DEF Sound
<1> QED
  BY <1>2, <1>3 DEF Sound

LEMMA InsertRowKeeps ==
  ASSUME IInv, NEW q \in Requests, InsertRow(q)
  PROVE  IInv'
<1> DEFINE x == req[q].row
           f == req[q].ref
<1>0. /\ TypeOK /\ Requested(q) /\ req[q] \in Request /\ req[q].pc = "write" /\ req[q].kind = "insert"
      /\ x \in Rows /\ f \in Row
      /\ UNCHANGED <<links, config, granted, history>>
  BY DEF IInv, TypeOK, At, InsertRow, Requested, Own, Phase, Request
<1>1. CASE UNCHANGED <<live, ref, effects>> /\ faults' \in {faults, faults + 1}
           /\ (Reply(q, "CONN") \/ Reply(q, "CONFLICT"))
  BY <1>0, <1>1, Refuse DEF Refusals, database
<1>2. CASE /\ x \notin live /\ (enforced => f \in live \cup {None, x})
           /\ live' = live \cup {x} /\ ref' = [ref EXCEPT ![x] = f]
           /\ Goto(q, IF req[q].asked THEN "sync" ELSE "record")
           /\ Effect(q, Changes("insert", {x}), {}, {})
           /\ UNCHANGED faults
  <2> DEFINE r == [req[q] EXCEPT !.pc = IF req[q].asked THEN "sync" ELSE "record"]
  <2>1. /\ r \in Request /\ r.pc = (IF req[q].asked THEN "sync" ELSE "record")
        /\ r.kind = "insert" /\ r.key = req[q].key /\ r.row = req[q].row
        /\ r.asked = req[q].asked /\ r.reply = req[q].reply
        /\ r.todo = req[q].todo /\ r.keys = req[q].keys /\ r.identified = req[q].identified
    BY <1>0 DEF Request, Phases
  <2>2. req' = [req EXCEPT ![q] = r]
    BY <1>0, <1>2 DEF TypeOK, Goto
  <2> HIDE DEF r
  <2>3. req' \in [Requests -> Request] /\ req'[q] = r /\ \A p \in Requests \ {q} : req'[p] = req[p]
    BY <1>0, <2>1, <2>2, ReqSet
  <2>4. /\ Others(q) /\ wrote'[q] = wrote[q] \cup Changes("insert", {x})
        /\ audit'[q] = audit[q] \cup {} /\ after'[q] = after[q] \cup {}
        /\ wrote' \in [Requests -> SUBSET Change] /\ audit' \in [Requests -> SUBSET Change]
        /\ after' \in [Requests -> SUBSET Change]
    <3>1. Changes("insert", {x}) \in SUBSET Change /\ {} \in SUBSET Change
      <4>1. {x} \in SUBSET Rows
        BY <1>0
      <4> QED
        BY <4>1, ChangesTyped
    <3>2. Effect(q, Changes("insert", {x}), {}, {})
      BY <1>2
    <3> HIDE DEF x
    <3> QED
      BY <1>0, <2>1, <2>2, <3>1, <3>2, EffectSets
  <2>5. wrote'[q] = Changes("insert", {x}) /\ audit'[q] = {} /\ after'[q] = {}
    BY <1>0, <2>4 DEF Requested, Own, NoEffectYet
  <2>6. Own(req[q], wrote[q], audit[q], after[q])'
    <3>1. Phase(r)
      <4>1. r.pc \in {"sync", "record"} /\ (r.pc = "sync" => r.asked) /\ r.row \in Rows /\ r.reply = "none"
        BY <1>0, <2>1 DEF Phase, Requested, Own
      <4> QED
        BY <2>1, <4>1 DEF Phase
    <3>2. Phase(req[q])' /\ Entitled(req[q], wrote[q])'
      BY <1>0, <2>1, <2>3, <3>1 DEF Phase, Entitled, Requested, Own, Refusals, history
    <3>3. NoEffectYet(req[q], wrote[q], audit[q], after[q])' /\ Counted(req[q])'
      BY <2>1, <2>3 DEF NoEffectYet, Counted
    <3> QED
      BY <3>2, <3>3 DEF Own
  <2>7. q \notin overlapped => Alone(req[q], wrote[q], audit[q], after[q])'
    <3>1. Fetched(req[q])'
      <4>1. r.asked => r.pc = "sync"
        BY <2>1
      <4> QED
        BY <1>2, <2>1, <2>3, <4>1 DEF Fetched
    <3>2. Ready(req[q])'
      BY <2>1, <2>3 DEF Ready
    <3>3. Trail(req[q], wrote[q], audit[q], after[q])'
      BY <2>1, <2>3, <2>5 DEF Trail, Changes
    <3> QED
      BY <3>1, <3>2, <3>3 DEF Alone
  <2>8. /\ live' \in SUBSET Rows /\ ref' \in [Rows -> Row] /\ links' \in [Rows \X Tags -> Nat]
        /\ \A y \in Rows \ live' : ref'[y] = None
    BY <1>0, <1>2 DEF TypeOK
  <2>9. Careful' => Careful
    BY <1>0, <1>2, <2>1, <2>3, CarefulBefore DEF history
  <2>10. enforced \/ Careful' => Sound'
    <3>1. SUFFICES ASSUME enforced \/ Careful PROVE Sound'
      BY <2>9
    <3>2. Careful => f \in live \cup {None}
      BY <1>0 DEF Requested, Alone, Ready, Careful
    <3>3. f \in live \cup {None, x} /\ Sound
      BY <1>2, <3>1, <3>2 DEF IInv
    <3> QED
      BY <1>0, <1>2, <3>3, SoundWithRow
  <2>11. /\ UNCHANGED <<config, granted, overlapped, revoked>> /\ rewritten' = rewritten
         /\ rewritten \subseteq Requests /\ faults' \in {faults, faults + 1}
         /\ r.key \notin r.todo /\ r.todo \subseteq r.keys
    BY <1>0, <1>2, <2>1 DEF history, TypeOK
  <2> QED
    BY <1>0, <2>1, <2>3, <2>4, <2>6, <2>7, <2>8, <2>10, <2>11, Frame
<1> QED
  BY <1>0, <1>1, <1>2, FaultCounted DEF InsertRow

LEMMA UpdateRowsKeeps ==
  ASSUME IInv, NEW q \in Requests, UpdateRows(q)
  PROVE  IInv'
<1> DEFINE hit == Matching(req[q].key)
           f == req[q].ref
<1>0. /\ TypeOK /\ Requested(q) /\ req[q] \in Request /\ req[q].pc = "write" /\ req[q].kind = "update"
      /\ hit \in SUBSET Rows /\ hit \subseteq live /\ f \in Row
      /\ UNCHANGED <<live, links, config, granted, history>>
  BY DEF IInv, TypeOK, At, UpdateRows, Request, Matching
<1>1. CASE UNCHANGED <<ref, effects>> /\ faults' \in {faults, faults + 1}
           /\ (Reply(q, "CONN") \/ Reply(q, "CONFLICT"))
  BY <1>0, <1>1, Refuse DEF Refusals, database
<1>2. CASE /\ enforced => f \in live \cup {None} \/ hit = {}
           /\ ref' = [y \in Rows |-> IF y \in hit THEN f ELSE ref[y]]
           /\ Goto(q, "record")
           /\ Effect(q, Changes("update", hit), {}, {})
           /\ UNCHANGED faults
  <2> DEFINE r == [req[q] EXCEPT !.pc = "record"]
  <2>1. /\ r \in Request /\ r.pc = "record" /\ r.kind = "update" /\ r.key = req[q].key
        /\ r.old = req[q].old /\ r.asked = req[q].asked /\ r.reply = req[q].reply
        /\ r.todo = req[q].todo /\ r.keys = req[q].keys /\ r.identified = req[q].identified
    BY <1>0 DEF Request, Phases
  <2>2. req' = [req EXCEPT ![q] = r]
    BY <1>0, <1>2 DEF TypeOK, Goto
  <2> HIDE DEF r, hit
  <2>3. req' \in [Requests -> Request] /\ req'[q] = r /\ \A p \in Requests \ {q} : req'[p] = req[p]
    BY <1>0, <2>1, <2>2, ReqSet
  <2>4. /\ Others(q) /\ wrote'[q] = wrote[q] \cup Changes("update", hit)
        /\ audit'[q] = audit[q] \cup {} /\ after'[q] = after[q] \cup {}
        /\ wrote' \in [Requests -> SUBSET Change] /\ audit' \in [Requests -> SUBSET Change]
        /\ after' \in [Requests -> SUBSET Change]
    <3>1. Changes("update", hit) \in SUBSET Change /\ {} \in SUBSET Change
      BY <1>0, ChangesTyped
    <3>2. Effect(q, Changes("update", hit), {}, {})
      BY <1>2
    <3> QED
      BY <1>0, <2>1, <2>2, <3>1, <3>2, EffectSets
  <2>5. wrote'[q] = Changes("update", hit) /\ audit'[q] = {} /\ after'[q] = {}
    BY <1>0, <2>4 DEF Requested, Own, NoEffectYet
  <2>6. Own(req[q], wrote[q], audit[q], after[q])'
    <3>1. Phase(r)
      BY <1>0, <2>1 DEF Phase, Requested, Own
    <3>2. Phase(req[q])' /\ Entitled(req[q], wrote[q])'
      BY <1>0, <2>1, <2>3, <3>1 DEF Phase, Entitled, Requested, Own, Refusals, history
    <3>3. NoEffectYet(req[q], wrote[q], audit[q], after[q])' /\ Counted(req[q])'
      BY <2>1, <2>3 DEF NoEffectYet, Counted
    <3> QED
      BY <3>2, <3>3 DEF Own
  <2>7. q \notin overlapped => Alone(req[q], wrote[q], audit[q], after[q])'
    <3>1. SUFFICES ASSUME q \notin overlapped PROVE Alone(req[q], wrote[q], audit[q], after[q])'
      OBVIOUS
    <3>2. req[q].old = hit
      BY <1>0, <3>1 DEF Requested, Alone, Fetched, hit
    <3>3. Fetched(req[q])'
      <4>1. Matching(req[q].key)' = hit
        BY <1>0, <2>1, <2>3 DEF Matching, config, hit
      <4> QED
        BY <2>1, <2>3, <3>2, <4>1 DEF Fetched
    <3>4. Ready(req[q])'
      BY <2>1, <2>3 DEF Ready
    <3>5. Trail(req[q], wrote[q], audit[q], after[q])'
      BY <2>1, <2>3, <2>5, <3>2 DEF Trail, Changes
    <3> QED
      BY <3>3, <3>4, <3>5 DEF Alone
  <2>8. /\ live' \in SUBSET Rows /\ ref' \in [Rows -> Row] /\ links' \in [Rows \X Tags -> Nat]
        /\ \A y \in Rows \ live' : ref'[y] = None
    BY <1>0, <1>2 DEF TypeOK
  <2>9. Careful' => Careful
    BY <1>0, <1>2, <2>1, <2>3, CarefulBefore DEF history
  <2>10. enforced \/ Careful' => Sound'
    <3>1. SUFFICES ASSUME enforced \/ Careful PROVE Sound'
      BY <2>9
    <3>2. Careful => f \in live \cup {None}
      BY <1>0 DEF Requested, Alone, Ready, Careful
    <3>3. (f \in live \cup {None} \/ hit = {}) /\ Sound
      BY <1>2, <3>1, <3>2 DEF IInv
    <3>4. \A y \in live : ref'[y] \in live \cup {None}
      BY <1>0, <1>2, <3>3 DEF TypeOK, Sound
    <3> QED
      BY <1>0, <3>3, <3>4 DEF Sound
  <2>11. /\ UNCHANGED <<config, granted, overlapped, revoked>> /\ rewritten' = rewritten
         /\ rewritten \subseteq Requests /\ faults' \in {faults, faults + 1}
         /\ r.key \notin r.todo /\ r.todo \subseteq r.keys
    BY <1>0, <1>2, <2>1 DEF history, TypeOK
  <2> QED
    BY <1>0, <2>1, <2>3, <2>4, <2>6, <2>7, <2>8, <2>10, <2>11, Frame
<1> QED
  BY <1>0, <1>1, <1>2, FaultCounted DEF UpdateRows

\* Rows that nothing refers to can go.
LEMMA SoundWithout ==
  ASSUME TypeOK, Sound, NEW S \in SUBSET Rows, ~Held(S),
         live' = live \ S, ref' = [y \in Rows |-> IF y \in S THEN None ELSE ref[y]], links' = links
  PROVE  Sound'
<1>1. ASSUME NEW y \in live' PROVE ref'[y] \in live' \cup {None}
  BY <1>1 DEF TypeOK, Sound, Held
<1>2. ASSUME NEW y \in Rows, NEW t \in Tags, links'[y, t] > 0 PROVE y \in live'
  BY <1>2 DEF Sound, Held
<1> QED
  BY <1>1, <1>2 DEF Sound

LEMMA DeleteRowsKeeps ==
  ASSUME IInv, NEW q \in Requests, DeleteRows(q)
  PROVE  IInv'
<1> DEFINE hit == Matching(req[q].key)
           bulk == req[q].kind = "bulk"
           A == IF bulk THEN Changes("delete", req[q].old) ELSE {}
<1>0. /\ TypeOK /\ Requested(q) /\ req[q] \in Request /\ req[q].pc = "write"
      /\ req[q].kind \in {"delete", "bulk"}
      /\ hit \in SUBSET Rows /\ req[q].old \in SUBSET Rows /\ req[q].key \in Keys
      /\ UNCHANGED <<links, config, granted, history>>
  BY DEF IInv, TypeOK, At, DeleteRows, Request, Matching, Requested, Own, Phase
<1>1. CASE UNCHANGED <<live, ref, effects>> /\ faults' \in {faults, faults + 1}
           /\ (Fail(q, "CONN") \/ Fail(q, "CONFLICT"))
  BY <1>0, <1>1, FailKeeps DEF Refusals, database
<1>2. CASE /\ enforced => ~Held(hit)
           /\ live' = live \ hit
           /\ ref' = [y \in Rows |-> IF y \in hit THEN None ELSE ref[y]]
           /\ Effect(q, Changes("delete", hit), A, {})
           /\ IF bulk THEN NextKey(q, {req[q].key}, {}) ELSE Goto(q, "record")
           /\ UNCHANGED faults
  <2> DEFINE r == IF bulk
                    THEN [req[q] EXCEPT !.deleted = req[q].deleted \cup {req[q].key},
                                        !.pc = IF req[q].todo = {} THEN "record" ELSE "fetch"]
                    ELSE [req[q] EXCEPT !.pc = "record"]
  <2>1. /\ r \in Request /\ r.kind = req[q].kind /\ r.key = req[q].key
        /\ r.pc = (IF bulk /\ req[q].todo # {} THEN "fetch" ELSE "record")
        /\ r.old = req[q].old /\ r.asked = req[q].asked /\ r.reply = req[q].reply
        /\ r.todo = req[q].todo /\ r.keys = req[q].keys /\ r.identified = req[q].identified
        /\ r.failed = req[q].failed /\ (bulk => r.deleted = req[q].deleted \cup {req[q].key})
    <3>1. CASE bulk
      BY <1>0, <3>1 DEF Request, Phases
    <3>2. CASE ~bulk
      BY <1>0, <3>2 DEF Request, Phases
    <3> QED
      BY <3>1, <3>2
  <2>2. req' = [req EXCEPT ![q] = r]
    <3>1. CASE bulk
      <4>1. req[q].failed \cup {} = req[q].failed
        OBVIOUS
      <4>2. r = [req[q] EXCEPT !.deleted = req[q].deleted \cup {req[q].key}, !.failed = req[q].failed \cup {},
                               !.pc = IF req[q].todo = {} THEN "record" ELSE "fetch"]
        BY <1>0, <3>1, <4>1 DEF Request
      <4>3. NextKey(q, {req[q].key}, {})
        BY <1>2, <3>1
      <4> QED
        BY <1>0, <4>2, <4>3 DEF TypeOK, NextKey
    <3>2. CASE ~bulk
      BY <1>0, <1>2, <3>2 DEF TypeOK, Goto
    <3> QED
      BY <3>1, <3>2
  <2> HIDE DEF r, hit, A
  <2>3. req' \in [Requests -> Request] /\ req'[q] = r /\ \A p \in Requests \ {q} : req'[p] = req[p]
    BY <1>0, <2>1, <2>2, ReqSet
  <2>4. /\ Others(q) /\ wrote'[q] = wrote[q] \cup Changes("delete", hit)
        /\ audit'[q] = audit[q] \cup A /\ after'[q] = after[q] \cup {}
        /\ wrote' \in [Requests -> SUBSET Change] /\ audit' \in [Requests -> SUBSET Change]
        /\ after' \in [Requests -> SUBSET Change]
    <3>1. Changes("delete", hit) \in SUBSET Change /\ A \in SUBSET Change /\ {} \in SUBSET Change
      BY <1>0, ChangesTyped DEF A
    <3>2. Effect(q, Changes("delete", hit), A, {})
      BY <1>2
    <3> QED
      BY ZenonT(60), <1>0, <2>1, <2>2, <3>1, <3>2, EffectSets
  <2>5. Own(req[q], wrote[q], audit[q], after[q])'
    <3>1. Phase(r)
      <4>1. r.pc \in {"fetch", "record"} /\ (r.pc = "fetch" => bulk) /\ r.reply = "none" /\ ~r.asked
        BY <1>0, <2>1 DEF Phase, Requested, Own
      <4> QED
        BY <1>0, <2>1, <4>1 DEF Phase
    <3>2. r.reply = "none"
      BY <1>0, <2>1 DEF Phase, Requested, Own
    <3>3. Phase(req[q])' /\ Entitled(req[q], wrote[q])'
      BY <1>0, <2>1, <2>3, <3>1, <3>2 DEF Phase, Entitled, Requested, Own, Refusals, history
    <3>4. NoEffectYet(req[q], wrote[q], audit[q], after[q])'
      BY <2>1, <2>3 DEF NoEffectYet
    <3>5. Counted(req[q])'
      <4>1. CASE bulk
        <5>1. Counted(req[q]) /\ faults' = faults /\ req[q].key \notin req[q].todo
          BY <1>0, <1>2 DEF Requested, Own, TypeOK
        <5>2. r.pc = "record" => r.todo = {}
          BY <2>1, <4>1
        <5>3. ASSUME faults = 0
              PROVE  /\ r.keys = r.todo \cup r.deleted \cup r.failed
                     /\ r.todo \cap r.deleted = {} /\ r.todo \cap r.failed = {} /\ r.deleted \cap r.failed = {}
          <6>1. LET rest == req[q].todo \cup {req[q].key} IN
                /\ req[q].keys = rest \cup req[q].deleted \cup req[q].failed
                /\ rest \cap req[q].deleted = {} /\ rest \cap req[q].failed = {}
                /\ req[q].deleted \cap req[q].failed = {}
            BY <1>0, <4>1, <5>1, <5>3 DEF Counted
          <6> QED
            BY <2>1, <4>1, <5>1, <6>1
        <5> QED
          BY <2>1, <2>3, <4>1, <5>1, <5>2, <5>3 DEF Counted
      <4>2. CASE ~bulk
        BY <1>0, <2>1, <2>3, <4>2 DEF Counted
      <4> QED
        BY <4>1, <4>2
    <3> QED
      BY <3>3, <3>4, <3>5 DEF Own
  <2>6. q \notin overlapped => Alone(req[q], wrote[q], audit[q], after[q])'
    <3>1. SUFFICES ASSUME q \notin overlapped PROVE Alone(req[q], wrote[q], audit[q], after[q])'
      OBVIOUS
    <3>2. req[q].old = hit
      BY <1>0, <3>1 DEF Requested, Alone, Fetched, hit
    <3>3. Fetched(req[q])' /\ Ready(req[q])'
      BY <1>0, <2>1, <2>3 DEF Fetched, Ready
    <3>4. Trail(req[q], wrote[q], audit[q], after[q])'
      <4>1. CASE bulk
        <5>1. audit[q] = wrote[q] /\ after[q] = {}
          BY <1>0, <3>1, <4>1 DEF Requested, Alone, Trail
        <5>2. audit'[q] = wrote'[q] /\ after'[q] = {}
          BY <2>4, <3>2, <4>1, <5>1 DEF A
        <5> QED
          BY <2>1, <2>3, <4>1, <5>2 DEF Trail
      <4>2. CASE ~bulk
        <5>1. wrote[q] = {} /\ audit[q] = {} /\ after[q] = {}
          BY <1>0, <4>2 DEF Requested, Own, NoEffectYet
        <5>2. wrote'[q] = Changes("delete", req[q].old) /\ audit'[q] = {} /\ after'[q] = {}
          BY <2>4, <3>2, <4>2, <5>1 DEF A
        <5> QED
          BY <1>0, <2>1, <2>3, <4>2, <5>2 DEF Trail, Changes
      <4> QED
        BY <4>1, <4>2
    <3> QED
      BY <3>3, <3>4 DEF Alone
  <2>7. /\ live' \in SUBSET Rows /\ ref' \in [Rows -> Row] /\ links' \in [Rows \X Tags -> Nat]
        /\ \A y \in Rows \ live' : ref'[y] = None
    BY <1>0, <1>2 DEF TypeOK, Row
  <2>8. Careful' => Careful
    BY <1>0, <1>2, <2>1, <2>3, CarefulBefore DEF history
  <2>9. enforced \/ Careful' => Sound'
    <3>1. SUFFICES ASSUME enforced \/ Careful PROVE Sound'
      BY <2>8
    <3>2. Careful => ~Held(hit)
      <4>1. SUFFICES ASSUME Careful PROVE ~Held(hit)
        OBVIOUS
      <4>2. req[q].old = hit /\ \A y \in req[q].old : ~Referenced(y)
        BY <1>0, <4>1 DEF Requested, Alone, Fetched, Ready, Careful, hit
      <4> QED
        BY <4>2 DEF Held, Referenced
    <3> QED
      BY <1>0, <1>2, <3>1, <3>2, SoundWithout DEF IInv
  <2>10. /\ UNCHANGED <<config, granted, overlapped, revoked>> /\ rewritten' = rewritten
         /\ rewritten \subseteq Requests /\ faults' \in {faults, faults + 1}
         /\ r.key \notin r.todo /\ r.todo \subseteq r.keys
    BY <1>0, <1>2, <2>1 DEF history, TypeOK
  <2> QED
    BY <1>0, <2>1, <2>3, <2>4, <2>5, <2>6, <2>7, <2>9, <2>10, Frame
<1> QED
  BY <1>0, <1>1, <1>2, FaultCounted DEF DeleteRows

\* The changes are recorded and scheduled; only an update with a selection goes on.
LEMMA RecordKeeps ==
  ASSUME IInv, NEW q \in Requests, Record(q)
  PROVE  IInv'
<1> DEFINE sync == req[q].kind = "update" /\ req[q].asked
<1>0. /\ TypeOK /\ Requested(q) /\ req[q] \in Request /\ req[q].pc = "record"
      /\ req[q].kind \in {"insert", "update", "delete", "bulk"}
      /\ UNCHANGED <<database, granted, history, faults>>
  BY DEF IInv, TypeOK, Record, Requested, Own, Phase, Request
<1>1. PICK A \in SUBSET Change, B \in SUBSET Change :
        /\ Effect(q, {}, A, B)
        /\ req[q].kind = "insert" => A = Changes("insert", {req[q].row}) /\ B = A
        /\ req[q].kind = "update" => A = Changes("update", req[q].old)
                                     /\ \E y \in req[q].old : B = Changes("update", {y})
        /\ req[q].kind = "delete" => A = Changes("delete", req[q].old) /\ B = A
        /\ req[q].kind = "bulk" => A = {} /\ B = audit[q]
  <2>1. CASE req[q].kind = "insert"
    <3>1. Effect(q, {}, Changes("insert", {req[q].row}), Changes("insert", {req[q].row}))
      BY <1>0, <2>1 DEF Record, At
    <3>2. {req[q].row} \in SUBSET Rows
      BY <1>0, <2>1 DEF Requested, Own, Phase
    <3> QED
      BY <2>1, <3>1, <3>2, ChangesTyped
  <2>2. CASE req[q].kind = "update"
    <3>1. PICK y \in req[q].old : Effect(q, {}, Changes("update", req[q].old), Changes("update", {y}))
      BY <1>0, <2>2 DEF Record, At
    <3>2. {y} \in SUBSET Rows /\ req[q].old \in SUBSET Rows
      BY <1>0 DEF Request
    <3> QED
      BY <2>2, <3>1, <3>2, ChangesTyped
  <2>3. CASE req[q].kind = "delete"
    <3>1. Effect(q, {}, Changes("delete", req[q].old), Changes("delete", req[q].old))
      BY <1>0, <2>3 DEF Record, At
    <3>2. req[q].old \in SUBSET Rows
      BY <1>0 DEF Request
    <3> QED
      BY <2>3, <3>1, <3>2, ChangesTyped
  <2>4. CASE req[q].kind = "bulk"
    <3>1. Effect(q, {}, {}, audit[q])
      BY <1>0, <2>4 DEF Record, At
    <3>2. audit[q] \in SUBSET Change /\ {} \in SUBSET Change
      BY <1>0 DEF TypeOK
    <3> QED
      BY <2>4, <3>1, <3>2
  <2> QED
    BY <1>0, <2>1, <2>2, <2>3, <2>4
<1> DEFINE r == IF sync THEN [req[q] EXCEPT !.pc = "sync"] ELSE Final(req[q], "ok")
<1>2. /\ r \in Request /\ r.kind = req[q].kind /\ r.keys = req[q].keys /\ r.identified = req[q].identified
      /\ r.deleted = req[q].deleted /\ r.failed = req[q].failed
      /\ r.key \notin r.todo /\ r.todo \subseteq r.keys
      /\ sync => r.pc = "sync" /\ r.key = req[q].key /\ r.old = req[q].old /\ r.asked /\ r.reply = req[q].reply
      /\ ~sync => r.pc = "done" /\ r.asked = FALSE /\ r.reply = "ok" /\ r.todo = {}
  <2>1. CASE sync
    BY <1>0, <2>1 DEF Request, Phases, TypeOK
  <2>2. CASE ~sync
    <3>1. "ok" \in Replies
      BY DEF Replies
    <3> QED
      BY ZenonT(60), <1>0, <2>2, <3>1, FinalIs
  <2> QED
    BY <2>1, <2>2
<1>3. req' = [req EXCEPT ![q] = r]
  <2>1. CASE sync
    BY <1>0, <2>1 DEF Record, At, Goto, TypeOK
  <2>2. CASE ~sync
    BY <1>0, <2>2 DEF Record, At, Reply
  <2> QED
    BY <2>1, <2>2
<1> HIDE DEF r
<1>4. req' \in [Requests -> Request] /\ req'[q] = r /\ \A p \in Requests \ {q} : req'[p] = req[p]
  BY <1>0, <1>2, <1>3, ReqSet
<1>5. /\ Others(q) /\ wrote'[q] = wrote[q] \cup {} /\ audit'[q] = audit[q] \cup A /\ after'[q] = after[q] \cup B
      /\ wrote' \in [Requests -> SUBSET Change] /\ audit' \in [Requests -> SUBSET Change]
      /\ after' \in [Requests -> SUBSET Change]
  <2>1. {} \in SUBSET Change /\ r \in Request /\ Effect(q, {}, A, B)
    BY <1>1, <1>2
  <2> QED
    BY <1>0, <1>3, <2>1, EffectSets
<1>6. Own(req[q], wrote[q], audit[q], after[q])'
  <2>1. Phase(req[q])'
    BY <1>0, <1>2, <1>4 DEF Phase, Requested, Own
  <2>2. Entitled(req[q], wrote[q])'
    <3>1. r.reply \notin Refusals
      BY <1>0, <1>2 DEF Phase, Requested, Own, Refusals
    <3>2. r.asked => req[q].asked
      BY <1>2
    <3> QED
      BY <1>0, <1>4, <3>1, <3>2 DEF Entitled, Requested, Own, history
  <2>3. NoEffectYet(req[q], wrote[q], audit[q], after[q])'
    BY <1>2, <1>4 DEF NoEffectYet
  <2>4. Counted(req[q])'
    <3>1. Counted(req[q]) /\ faults' = faults
      BY <1>0 DEF Requested, Own
    <3> QED
      BY <1>0, <1>2, <1>4, <3>1 DEF Counted
  <2> QED
    BY <2>1, <2>2, <2>3, <2>4 DEF Own
<1>7. q \notin overlapped => Alone(req[q], wrote[q], audit[q], after[q])'
  <2>1. SUFFICES ASSUME q \notin overlapped PROVE Alone(req[q], wrote[q], audit[q], after[q])'
    OBVIOUS
  <2>2. Fetched(req[q]) /\ Trail(req[q], wrote[q], audit[q], after[q])
    BY <1>0, <2>1 DEF Requested, Alone
  <2>3. Fetched(req[q])'
    <3>1. live' = live /\ keyOf' = keyOf
      BY <1>0 DEF database, config
    <3>2. CASE sync
      <4>1. r.pc = "sync" /\ r.kind = "update" /\ r.old = Matching(r.key)
        BY <1>0, <1>2, <2>2, <3>2 DEF Fetched
      <4> QED
        BY <1>4, <3>1, <4>1 DEF Fetched, Matching
    <3>3. CASE ~sync
      BY <1>2, <1>4, <3>3 DEF Fetched
    <3> QED
      BY <3>2, <3>3
  <2>4. Ready(req[q])'
    BY <1>2, <1>4 DEF Ready
  <2>5. CASE req[q].kind = "update"
    <3>1. wrote'[q] = A /\ audit'[q] = A /\ after'[q] = B
      BY <1>0, <1>1, <1>5, <2>2, <2>5 DEF Trail
    <3>2. Scheduled(A, B)
      <4>1. PICK y \in req[q].old : B = Changes("update", {y})
        BY <1>1, <2>5
      <4>2. B = {[op |-> "update", row |-> y, tag |-> None]}
        BY <4>1 DEF Changes
      <4>3. B \subseteq A /\ \A c \in A : c.op = "update"
        BY <1>1, <2>5, <4>2 DEF Changes
      <4> QED
        BY <4>2, <4>3 DEF Scheduled
    <3>3. Scheduled(audit[q], after[q])'
      BY <3>1, <3>2 DEF Scheduled
    <3>4. Trail(req[q], wrote[q], audit[q], after[q])'
      BY <1>2, <1>4, <2>5, <3>1, <3>3 DEF Trail, Scheduled
    <3> QED
      BY <2>3, <2>4, <3>4 DEF Alone
  <2>6. CASE req[q].kind # "update"
    <3>1. wrote'[q] = audit'[q] /\ audit'[q] = after'[q]
      <4>1. CASE req[q].kind = "insert"
        <5>1. audit[q] = after[q] /\ wrote[q] = audit[q] \cup A
          BY <1>0, <1>1, <2>2, <4>1 DEF Trail
        <5> QED
          BY <1>1, <1>5, <4>1, <5>1
      <4>2. CASE req[q].kind = "delete"
        <5>1. audit[q] = {} /\ after[q] = {} /\ wrote[q] = A
          BY <1>0, <1>1, <2>2, <4>2 DEF Trail
        <5> QED
          BY <1>1, <1>5, <4>2, <5>1
      <4>3. CASE req[q].kind = "bulk"
        <5>1. audit[q] = wrote[q] /\ after[q] = {}
          BY <1>0, <2>2, <4>3 DEF Trail
        <5> QED
          BY <1>1, <1>5, <4>3, <5>1
      <4> QED
        BY <1>0, <2>6, <4>1, <4>2, <4>3
    <3>2. Trail(req[q], wrote[q], audit[q], after[q])'
      BY <1>2, <1>4, <2>6, <3>1 DEF Trail
    <3> QED
      BY <2>3, <2>4, <3>2 DEF Alone
  <2> QED
    BY <2>5, <2>6
<1>8. /\ live' = live /\ ref' = ref /\ links' = links /\ enforced' = enforced
      /\ live' \in SUBSET Rows /\ ref' \in [Rows -> Row] /\ links' \in [Rows \X Tags -> Nat]
      /\ \A y \in Rows \ live' : ref'[y] = None
  BY <1>0 DEF TypeOK, database, config
<1>9. enforced \/ Careful' => Sound'
  <2>1. Careful' => Careful
    BY <1>0, <1>2, <1>4, CarefulBefore DEF history
  <2> QED
    BY <1>8, <2>1 DEF IInv, Sound
<1>10. /\ UNCHANGED <<config, granted, overlapped, revoked>> /\ rewritten' = rewritten
       /\ rewritten \subseteq Requests /\ faults' \in {faults, faults + 1}
  BY <1>0 DEF history, database, TypeOK
<1> QED
  BY <1>0, <1>2, <1>4, <1>5, <1>6, <1>7, <1>8, <1>9, <1>10, Frame
-----------------------------------------------------------------------------
(* The m2m selection.                                                      *)

\* A request that ends among its links has recorded no change it did not make; it is
\* not refused, unless it has no source value or lost its grants.
LEMMA EndKeeps ==
  ASSUME IInv, NEW q \in Requests, req[q].pc \in {"sync", "links"}, NEW code \in Replies \ {"none"},
         Reply(q, code), code \in Refusals => ~req[q].identified \/ revoked,
         code = "ok" => req[q].kind = "update" /\ req[q].pc = "links",
         UNCHANGED <<database, granted, effects, history>>, faults' \in {faults, faults + 1}
  PROVE  IInv'
<1> DEFINE r == Final(req[q], code)
<1>1. req[q] \in Request /\ req \in [Requests -> Request] /\ Requested(q) /\ TypeOK
  BY DEF IInv, TypeOK
<1>2. /\ r \in Request /\ r.pc = "done" /\ r.kind = req[q].kind /\ r.reply = code /\ r.asked = FALSE
      /\ r.key = None /\ r.todo = {} /\ r.keys = req[q].keys /\ r.identified = req[q].identified
  BY ZenonT(60), <1>1, FinalIs
<1>3. req' = [req EXCEPT ![q] = r]
  BY DEF Reply
<1>4. req[q].kind \in {"insert", "update"}
  BY <1>1 DEF Requested, Own, Phase, Request
<1> HIDE DEF r
<1>5. Phase(r)
  BY <1>1, <1>2, <1>4 DEF Phase
<1>6. NoEffectYet(r, wrote[q], audit[q], after[q]) /\ Entitled(r, wrote[q])
  BY <1>2 DEF NoEffectYet, Entitled
<1>7. Counted(req[q])'
  <2>1. req'[q] = r
    BY <1>1, <1>3
  <2> QED
    BY <1>2, <1>4, <2>1 DEF Counted
<1>8. q \notin overlapped => Fetched(r) /\ Ready(r) /\ Trail(r, wrote[q], audit[q], after[q])
  <2>1. SUFFICES ASSUME q \notin overlapped
                 PROVE  Fetched(r) /\ Ready(r) /\ Trail(r, wrote[q], audit[q], after[q])
    OBVIOUS
  <2>2. Trail(req[q], wrote[q], audit[q], after[q])
    BY <1>1, <2>1 DEF Requested, Alone
  <2>3. CASE req[q].kind = "insert"
    <3>1. audit[q] = after[q] /\ audit[q] \subseteq wrote[q] /\ code # "ok"
      BY <2>2, <2>3 DEF Trail
    <3> QED
      BY <1>2, <2>3, <3>1 DEF Trail, Fetched, Ready
  <2>4. CASE req[q].kind = "update"
    <3>1. audit[q] = wrote[q] /\ Scheduled(audit[q], after[q]) /\ after[q] \subseteq audit[q]
      BY <2>2, <2>4 DEF Trail, Scheduled
    <3> QED
      BY <1>2, <2>4, <3>1 DEF Trail, Fetched, Ready
  <2> QED
    BY <1>4, <2>3, <2>4
<1>9. UNCHANGED <<database, granted, effects, overlapped, revoked>> /\ rewritten' = rewritten
      /\ rewritten \subseteq Requests
  BY <1>1 DEF history, TypeOK
<1> QED
  BY <1>2, <1>3, <1>5, <1>6, <1>7, <1>8, <1>9, QuietStep

LEMMA StartSyncKeeps ==
  ASSUME IInv, NEW q \in Requests, StartSync(q)
  PROVE  IInv'
<1>0. /\ TypeOK /\ Requested(q) /\ req[q] \in Request /\ req[q].pc = "sync" /\ req[q].asked
      /\ req[q].kind \in {"insert", "update"}
      /\ UNCHANGED <<database, granted, effects, history>>
  BY DEF IInv, TypeOK, StartSync, Requested, Own, Phase, Request
<1>1. CASE ~req[q].identified /\ Reply(q, "VALIDATION") /\ UNCHANGED faults
  BY <1>0, <1>1, EndKeeps DEF Replies
<1>2. CASE ~granted /\ Reply(q, "FORBIDDEN") /\ UNCHANGED faults
  <2>1. revoked
    BY <1>0, <1>2 DEF Requested, Own, Entitled
  <2> QED
    BY <1>0, <1>2, <2>1, EndKeeps DEF Replies
<1>3. CASE Fault /\ Reply(q, "LINK_FAILED")
  BY <1>0, <1>3, FaultCounted, EndKeeps DEF Replies, Refusals
<1>4. ASSUME granted, UNCHANGED faults,
             NEW x \in IF req[q].kind = "insert" THEN {req[q].row} ELSE req[q].old, NEW want \in SUBSET Tags,
             req' = [req EXCEPT ![q].row = x, ![q].want = want, ![q].cur = {t \in Tags : links[x, t] > 0},
                                ![q].pc = "links"]
      PROVE  IInv'
  <2> DEFINE r == [req[q] EXCEPT !.row = x, !.want = want, !.cur = Linked(x), !.pc = "links"]
  <2>1. x \in Rows /\ Linked(x) \in SUBSET Tags
    BY <1>0, <1>4 DEF Requested, Own, Phase, Request, Linked
  <2>2. /\ r \in Request /\ r.pc = "links" /\ r.kind = req[q].kind /\ r.row = x /\ r.want = want
        /\ r.cur = Linked(x) /\ r.asked = req[q].asked /\ r.reply = req[q].reply /\ r.key = req[q].key
        /\ r.todo = req[q].todo /\ r.keys = req[q].keys /\ r.identified = req[q].identified
    BY <1>0, <2>1 DEF Request, Phases, Row
  <2>3. req' = [req EXCEPT ![q] = r]
    BY <1>0, <1>4 DEF TypeOK, Linked
  <2> HIDE DEF r
  <2>4. Phase(r)
    BY <1>0, <2>1, <2>2 DEF Phase, Requested, Own
  <2>5. NoEffectYet(r, wrote[q], audit[q], after[q]) /\ Entitled(r, wrote[q])
    BY <1>0, <2>2 DEF NoEffectYet, Entitled, Requested, Own
  <2>6. Counted(req[q])'
    <3>1. req'[q] = r
      BY <1>0, <2>3 DEF TypeOK
    <3> QED
      BY <1>0, <2>2, <3>1 DEF Counted
  <2>7. q \notin overlapped => Fetched(r) /\ Ready(r) /\ Trail(r, wrote[q], audit[q], after[q])
    <3>1. SUFFICES ASSUME q \notin overlapped
                   PROVE  Fetched(r) /\ Ready(r) /\ Trail(r, wrote[q], audit[q], after[q])
      OBVIOUS
    <3>2. Fetched(req[q]) /\ Trail(req[q], wrote[q], audit[q], after[q])
      BY <1>0, <3>1 DEF Requested, Alone
    <3>3. x \in live
      BY <1>0, <1>4, <3>2 DEF Fetched, Matching
    <3>4. Trail(r, wrote[q], audit[q], after[q])
      <4>1. CASE req[q].kind = "insert"
        BY <1>0, <1>4, <2>2, <3>2, <4>1 DEF Trail
      <4>2. CASE req[q].kind = "update"
        BY <1>0, <2>2, <3>2, <4>2 DEF Trail
      <4> QED
        BY <1>0, <4>1, <4>2
    <3> QED
      BY <2>2, <3>3, <3>4 DEF Fetched, Ready
  <2>8. r.key \notin r.todo /\ r.todo \subseteq r.keys
    BY <1>0, <2>2 DEF TypeOK
  <2>9. UNCHANGED <<database, granted, effects, overlapped, revoked>> /\ rewritten' = rewritten
        /\ rewritten \subseteq Requests /\ faults' \in {faults, faults + 1}
    BY <1>0, <1>4 DEF history, TypeOK
  <2> QED
    BY <1>0, <2>2, <2>3, <2>4, <2>5, <2>6, <2>7, <2>8, <2>9, QuietStep
<1> QED
  BY <1>1, <1>2, <1>3, <1>4 DEF StartSync

LEMMA LinkFailsKeeps ==
  ASSUME IInv, NEW q \in Requests, LinkFails(q)
  PROVE  IInv'
BY EndKeeps DEF LinkFails, Replies, Refusals

LEMMA EndSyncKeeps ==
  ASSUME IInv, NEW q \in Requests, EndSync(q)
  PROVE  IInv'
<1>0. /\ TypeOK /\ Requested(q) /\ req[q] \in Request /\ req[q].pc = "links" /\ req[q].cur = req[q].want
      /\ req[q].kind \in {"insert", "update"}
      /\ UNCHANGED <<database, granted, effects, history, faults>>
  BY DEF IInv, TypeOK, EndSync, Requested, Own, Phase, Request
<1>1. CASE req[q].kind = "update"
  BY <1>0, <1>1, EndKeeps DEF EndSync, Replies, Refusals
<1>2. CASE req[q].kind = "insert"
  <2>1. Goto(q, "record")
    BY <1>2 DEF EndSync
  <2> DEFINE r == [req[q] EXCEPT !.pc = "record"]
  <2>2. /\ r.pc = "record" /\ r.kind = "insert" /\ r.row = req[q].row /\ r.want = req[q].want
        /\ r.asked = req[q].asked /\ r.reply = req[q].reply
    BY <1>0, <1>2 DEF Request
  <2> HIDE DEF r
  <2>3. Phase(r)
    BY <1>0, <1>2, <2>2 DEF Phase, Requested, Own
  <2>4. q \notin overlapped => Fetched(r) /\ Ready(r) /\ Trail(r, wrote[q], audit[q], after[q])
    BY <1>0, <1>2, <2>2 DEF Fetched, Ready, Trail, Requested, Alone
  <2> QED
    BY <1>0, <1>2, <2>1, <2>3, <2>4, GotoKeeps DEF r, Phases
<1> QED
  BY <1>0, <1>1, <1>2

\* One more change that is no update stays scheduled with the others.
LEMMA ScheduledWith ==
  ASSUME NEW A, NEW B, Scheduled(A, B), NEW c, c.op # "update"
  PROVE  Scheduled(A \cup {c}, B \cup {c})
<1>1. PICK u \in B : {d \in B : d.op = "update"} = {u}
  BY DEF Scheduled
<1>2. {d \in B \cup {c} : d.op = "update"} = {u}
  BY <1>1
<1> QED
  BY <1>1, <1>2 DEF Scheduled

\* A link that is added or removed is recorded and scheduled with its own change.
LEMMA LinkKeeps ==
  ASSUME IInv, NEW q \in Requests, req[q].pc = "links", NEW t \in Tags, NEW n \in Nat,
         NEW op \in {"link", "unlink"}, NEW cur \in SUBSET Tags, NEW W \in SUBSET Change,
         links' = [links EXCEPT ![<<req[q].row, t>>] = n],
         n > 0 /\ enforced => req[q].row \in live,
         cur = IF n > 0 THEN req[q].cur \cup {t} ELSE req[q].cur \ {t},
         req' = [req EXCEPT ![q].cur = cur],
         Effect(q, W, {LinkChange(op, req[q].row, t)}, {LinkChange(op, req[q].row, t)}),
         q \notin overlapped => W = {LinkChange(op, req[q].row, t)},
         UNCHANGED <<live, ref, config, granted, history, faults>>
  PROVE  IInv'
<1> DEFINE x == req[q].row
           c == LinkChange(op, x, t)
           r == [req[q] EXCEPT !.cur = cur]
<1>0. /\ TypeOK /\ Requested(q) /\ req[q] \in Request /\ x \in Rows /\ req[q].kind \in {"insert", "update"}
  BY DEF IInv, TypeOK, Requested, Own, Phase, Request
<1>1. /\ r \in Request /\ r.pc = "links" /\ r.kind = req[q].kind /\ r.row = x /\ r.cur = cur
      /\ r.asked = req[q].asked /\ r.reply = req[q].reply /\ r.key = req[q].key
      /\ r.todo = req[q].todo /\ r.keys = req[q].keys /\ r.identified = req[q].identified
  BY <1>0 DEF Request
<1>2. req' = [req EXCEPT ![q] = r]
  BY <1>0 DEF TypeOK
<1>3. c \in Change /\ c.op # "update"
  BY <1>0 DEF Change, LinkChange
<1>4. Effect(q, W, {c}, {c})
  OBVIOUS
<1>5. q \notin overlapped => W = {c}
  OBVIOUS
<1>6. /\ \A y \in Rows, u \in Tags : links'[y, u] = IF y = x /\ u = t THEN n ELSE links[y, u]
      /\ links' \in [Rows \X Tags -> Nat]
  <2>1. links \in [Rows \X Tags -> Nat] /\ x \in Rows
    BY Zenon, <1>0 DEF TypeOK
  <2> HIDE DEF x
  <2> QED
    BY Zenon, <2>1 DEF x
<1> HIDE DEF r, c
<1>7. req' \in [Requests -> Request] /\ req'[q] = r /\ \A p \in Requests \ {q} : req'[p] = req[p]
  BY <1>0, <1>1, <1>2, ReqSet
<1>8. /\ Others(q) /\ wrote'[q] = wrote[q] \cup W /\ audit'[q] = audit[q] \cup {c} /\ after'[q] = after[q] \cup {c}
      /\ wrote' \in [Requests -> SUBSET Change] /\ audit' \in [Requests -> SUBSET Change]
      /\ after' \in [Requests -> SUBSET Change]
  <2>1. {c} \in SUBSET Change
    BY <1>3
  <2> QED
    BY ZenonT(60), <1>0, <1>1, <1>2, <1>4, <2>1, EffectSets
<1>9. Own(req[q], wrote[q], audit[q], after[q])'
  <2>1. Phase(req[q])'
    BY <1>0, <1>1, <1>7 DEF Phase, Requested, Own
  <2>2. Entitled(req[q], wrote[q])'
    <3>1. r.reply \notin Refusals
      BY <1>0, <1>1 DEF Phase, Requested, Own, Refusals
    <3> QED
      BY <1>0, <1>1, <1>7, <3>1 DEF Entitled, Requested, Own, history
  <2>3. NoEffectYet(req[q], wrote[q], audit[q], after[q])' /\ Counted(req[q])'
    BY <1>0, <1>1, <1>7 DEF NoEffectYet, Counted
  <2> QED
    BY <2>1, <2>2, <2>3 DEF Own
<1>10. q \notin overlapped => Alone(req[q], wrote[q], audit[q], after[q])'
  <2>1. SUFFICES ASSUME q \notin overlapped PROVE Alone(req[q], wrote[q], audit[q], after[q])'
    OBVIOUS
  <2>2. Fetched(req[q]) /\ Trail(req[q], wrote[q], audit[q], after[q])
    BY <1>0, <2>1 DEF Requested, Alone
  <2>3. x \in live /\ cur = {u \in Tags : links'[req'[q].row, u] > 0}
    <3>1. req[q].cur = {u \in Tags : links[x, u] > 0} /\ x \in live
      BY <2>2 DEF Fetched, Linked
    <3>2. req'[q].row = x
      BY <1>1, <1>7
    <3>3. ASSUME NEW u \in Tags PROVE links'[req'[q].row, u] > 0 <=> u \in cur
      BY <1>0, <1>6, <3>1, <3>2
    <3> QED
      BY <3>1, <3>3
  <2>4. Fetched(req[q])'
    <3>1. req'[q].pc = "links" /\ req'[q].cur = cur /\ req'[q].row = x /\ live' = live
      BY <1>1, <1>7
    <3> QED
      BY <2>3, <3>1 DEF Fetched, Linked
  <2>5. Ready(req[q])'
    BY <1>1, <1>7 DEF Ready
  <2>6. wrote'[q] = wrote[q] \cup {c}
    BY <1>5, <1>8, <2>1
  <2>7. CASE req[q].kind = "insert"
    <3>1. audit[q] = after[q] /\ wrote[q] = audit[q] \cup Changes("insert", {x})
      BY <2>2, <2>7 DEF Trail
    <3>2. audit'[q] = after'[q] /\ wrote'[q] = audit'[q] \cup Changes("insert", {x})
      BY <1>8, <2>6, <3>1
    <3>3. Trail(req[q], wrote[q], audit[q], after[q])'
      BY <1>1, <1>7, <2>7, <3>2 DEF Trail, Changes
    <3> QED
      BY <2>4, <2>5, <3>3 DEF Alone
  <2>8. CASE req[q].kind = "update"
    <3>1. audit[q] = wrote[q] /\ Scheduled(audit[q], after[q])
      BY <2>2, <2>8 DEF Trail
    <3>2. audit'[q] = wrote'[q] /\ Scheduled(audit'[q], after'[q])
      <4>1. Scheduled(audit[q] \cup {c}, after[q] \cup {c})
        BY Zenon, <1>3, <3>1, ScheduledWith
      <4> QED
        BY <1>8, <2>6, <3>1, <4>1
    <3>3. Scheduled(audit[q], after[q])'
      BY <3>2 DEF Scheduled
    <3>4. Trail(req[q], wrote[q], audit[q], after[q])'
      BY <1>1, <1>7, <2>8, <3>2, <3>3 DEF Trail, Scheduled
    <3> QED
      BY <2>4, <2>5, <3>4 DEF Alone
  <2> QED
    BY <1>0, <2>7, <2>8
<1>11. enforced \/ Careful' => Sound'
  <2>1. Careful' => Careful
    BY <1>0, <1>1, <1>7, CarefulBefore DEF history
  <2>2. SUFFICES ASSUME enforced \/ Careful PROVE Sound'
    BY <2>1
  <2>3. Careful => x \in live
    BY <1>0 DEF Requested, Alone, Fetched, Careful
  <2>4. Sound
    BY <2>2 DEF IInv
  <2>5. ASSUME NEW y \in Rows, NEW u \in Tags, links'[y, u] > 0 PROVE y \in live
    BY <1>6, <2>2, <2>3, <2>4, <2>5 DEF Sound
  <2> QED
    BY <2>4, <2>5 DEF Sound
<1>12. /\ live' \in SUBSET Rows /\ ref' \in [Rows -> Row] /\ \A y \in Rows \ live' : ref'[y] = None
       /\ UNCHANGED <<config, granted, overlapped, revoked>> /\ rewritten' = rewritten
       /\ rewritten \subseteq Requests /\ faults' \in {faults, faults + 1}
       /\ r.key \notin r.todo /\ r.todo \subseteq r.keys
  BY <1>0, <1>1 DEF history, TypeOK
<1> QED
  BY <1>0, <1>1, <1>6, <1>7, <1>8, <1>9, <1>10, <1>11, <1>12, Frame

LEMMA AddLinkKeeps ==
  ASSUME IInv, NEW q \in Requests, NEW t \in Tags, AddLink(q, t)
  PROVE  IInv'
<1> DEFINE C == {LinkChange("link", req[q].row, t)}
           n == links[req[q].row, t] + 1
           cur == req[q].cur \cup {t}
<1>0. /\ req[q] \in Request /\ req[q].pc = "links" /\ req[q].row \in Rows /\ t # None
      /\ links \in [Rows \X Tags -> Nat] /\ req \in [Requests -> Request]
  BY RowWritesAssumption DEF IInv, TypeOK, AddLink, Requested, Own, Phase, None
<1>1. links' = [links EXCEPT ![<<req[q].row, t>>] = n] /\ n \in Nat /\ n > 0
  <2>1. links' = [links EXCEPT ![<<req[q].row, t>>] = n]
    BY Zenon DEF AddLink
  <2>2. links[req[q].row, t] \in Nat
    BY Zenon, <1>0
  <2>3. \A m \in Nat : m + 1 \in Nat /\ m + 1 > 0
    OBVIOUS
  <2> QED
    BY <2>1, <2>2, <2>3
<1>2. req' = [req EXCEPT ![q].cur = cur] /\ cur \in SUBSET Tags
  <2>1. req' = [req EXCEPT ![q].cur = cur]
    BY Zenon DEF AddLink
  <2> QED
    BY <1>0, <2>1 DEF Request
<1>3. C \in SUBSET Change
  BY <1>0 DEF Change, LinkChange
<1>4. /\ Effect(q, C, C, C) /\ (enforced => req[q].row \in live)
      /\ UNCHANGED <<live, ref, config, granted, history, faults>>
  BY DEF AddLink
<1>5. cur = IF n > 0 THEN req[q].cur \cup {t} ELSE req[q].cur \ {t}
  BY <1>1
<1> HIDE DEF n, cur
<1> QED
  BY <1>0, <1>1, <1>2, <1>3, <1>4, <1>5, LinkKeeps

LEMMA RemoveLinkKeeps ==
  ASSUME IInv, NEW q \in Requests, NEW t \in Tags, RemoveLink(q, t)
  PROVE  IInv'
<1> DEFINE C == {LinkChange("unlink", req[q].row, t)}
           W == IF links[req[q].row, t] > 0 THEN C ELSE {}
           cur == req[q].cur \ {t}
<1>0. /\ req[q] \in Request /\ req[q].pc = "links" /\ req[q].row \in Rows /\ links \in [Rows \X Tags -> Nat]
      /\ req \in [Requests -> Request] /\ Requested(q) /\ t \in req[q].cur
  BY DEF IInv, TypeOK, RemoveLink, Requested, Own, Phase
<1>1. links' = [links EXCEPT ![<<req[q].row, t>>] = 0]
  BY <1>0 DEF RemoveLink
<1>2. req' = [req EXCEPT ![q].cur = cur] /\ cur \in SUBSET Tags
  <2>1. req' = [req EXCEPT ![q].cur = cur]
    BY Zenon DEF RemoveLink
  <2> QED
    BY <1>0, <2>1 DEF Request
<1>3. C \in SUBSET Change /\ W \in SUBSET Change
  <2>1. C \in SUBSET Change
    BY <1>0 DEF Change, LinkChange
  <2> HIDE DEF C
  <2> QED
    BY <2>1
<1>4. q \notin overlapped => W = C
  BY <1>0 DEF Requested, Alone, Fetched, Linked
<1>5. Effect(q, W, C, C) /\ UNCHANGED <<live, ref, config, granted, history, faults>>
  BY DEF RemoveLink
<1>6. cur = IF 0 > 0 THEN req[q].cur \cup {t} ELSE req[q].cur \ {t}
  OBVIOUS
<1>7. ~(0 > 0) /\ 0 \in Nat
  OBVIOUS
<1> HIDE DEF W, cur
<1> QED
  BY <1>0, <1>1, <1>2, <1>3, <1>4, <1>5, <1>6, <1>7, LinkKeeps
-----------------------------------------------------------------------------
(* Every step, and every stutter, keeps the invariant.                     *)

LEMMA IInvStep == IInv /\ [Next]_vars => IInv'
<1> SUFFICES ASSUME IInv, [Next]_vars PROVE IInv'
  OBVIOUS
<1>1. ASSUME NEW q \in Requests, Step(q) PROVE IInv'
  BY <1>1, FetchKeeps, CheckRefsKeeps, CheckFKKeeps, BeforeHookKeeps, InsertRowKeeps, UpdateRowsKeeps,
     DeleteRowsKeeps, RecordKeeps, StartSyncKeeps, LinkFailsKeeps, EndSyncKeeps, AddLinkKeeps,
     RemoveLinkKeeps DEF Step
<1>2. ASSUME NEW q \in Requests, Insert(q) \/ Update(q) \/ Delete(q) \/ BulkDelete(q) PROVE IInv'
  BY <1>2, InsertKeeps, UpdateKeeps, DeletesKeep
<1>3. CASE Revoke
  BY <1>3, RevokeKeeps
<1>4. CASE UNCHANGED vars
  <2>1. TypeOK' /\ (enforced' \/ Careful' => Sound')
    BY <1>4 DEF IInv, TypeOK, Careful, Sound, vars, database, config, effects, history
  <2>2. ASSUME NEW q \in Requests PROVE Requested(q)'
    <3>1. Requested(q)
      BY DEF IInv
    <3>2. Own(req[q], wrote[q], audit[q], after[q])'
      BY <1>4, <3>1 DEF Requested, Own, Phase, NoEffectYet, Counted, Entitled, vars, effects, history
    <3>3. q \notin overlapped => Alone(req[q], wrote[q], audit[q], after[q])'
      <4>1. SUFFICES ASSUME q \notin overlapped PROVE Alone(req[q], wrote[q], audit[q], after[q])'
        OBVIOUS
      <4>2. Alone(req[q], wrote[q], audit[q], after[q])
        BY <3>1, <4>1 DEF Requested
      <4>3. Fetched(req[q])'
        BY <1>4, <4>2 DEF Alone, Fetched, Matching, Linked, vars, database, config
      <4>4. Careful' => Ready(req[q])'
        BY <1>4, <4>2 DEF Alone, Careful, Ready, Referenced, vars, database, history
      <4>5. Trail(req[q], wrote[q], audit[q], after[q])'
        BY <1>4, <4>2 DEF Alone, Trail, Scheduled, Changes, vars, effects
      <4> QED
        BY <4>3, <4>4, <4>5 DEF Alone
    <3> QED
      BY <1>4, <3>1, <3>2, <3>3 DEF Requested, Running, vars, history
  <2> QED
    BY <2>1, <2>2 DEF IInv
<1> QED
  BY <1>1, <1>2, <1>3, <1>4 DEF Next
-----------------------------------------------------------------------------
(* The theorems.                                                           *)

\* The inductive invariant holds throughout.
THEOREM Invariant == Spec => []IInv
BY IInvInit, IInvStep, PTL DEF Spec

\* Rows, links, requests and their effects are of their types, an absent row
\* refers to none, and the key at hand is off the list of those to do.
THEOREM TypeCorrect == Spec => []TypeOK
<1>1. IInv => TypeOK
  BY DEF IInv
<1> QED
  BY <1>1, Invariant, PTL

\* What links are there, and what requests wrote, after a step that creates no link.
LEMMA StrayLinksStay ==
  ASSUME StrayLinksWereAskedFor, UNCHANGED config,
         \A p \in Requests : wrote[p] \subseteq wrote'[p],
         \A r \in Rows, t \in Tags : links'[r, t] > 0 => links[r, t] > 0
  PROVE  StrayLinksWereAskedFor'
BY DEF StrayLinksWereAskedFor, config

\* What a request wrote is not forgotten.
LEMMA EffectAdds ==
  ASSUME TypeOK, NEW q \in Requests, NEW C, NEW A, NEW B, Effect(q, C, A, B)
  PROVE  /\ wrote'[q] = wrote[q] \cup C
         /\ \A p \in Requests : wrote[p] \subseteq wrote'[p]
BY DEF TypeOK, Effect

\* A link that is created for a tag that is no target is one the request has written.
LEMMA AddLinkStray ==
  ASSUME IInv, StrayLinksWereAskedFor, NEW q \in Requests, NEW u \in Tags, AddLink(q, u)
  PROVE  StrayLinksWereAskedFor'
<1> DEFINE x == req[q].row
           C == {LinkChange("link", req[q].row, u)}
<1>1. x \in Rows /\ TypeOK
  BY DEF IInv, Requested, Own, Phase, AddLink
<1>2. /\ links' = [links EXCEPT ![<<x, u>>] = @ + 1] /\ Effect(q, C, C, C)
      /\ enforced => u \in targets
      /\ UNCHANGED config
  BY DEF AddLink
<1>3. LinkChange("link", x, u) \in wrote'[q] /\ \A p \in Requests : wrote[p] \subseteq wrote'[p]
  <2> HIDE DEF C
  <2>1. wrote'[q] = wrote[q] \cup C /\ \A p \in Requests : wrote[p] \subseteq wrote'[p]
    BY <1>1, <1>2, EffectAdds
  <2>2. LinkChange("link", x, u) \in C
    BY DEF C
  <2> QED
    BY <2>1, <2>2
<1> HIDE DEF C, x
<1>4. SUFFICES ASSUME NEW r \in Rows, NEW t \in Tags, links'[r, t] > 0, t \notin targets
               PROVE  ~enforced /\ \E p \in Requests : LinkChange("link", r, t) \in wrote'[p]
  BY <1>2 DEF StrayLinksWereAskedFor, config
<1>5. CASE r = x /\ t = u
  BY <1>2, <1>3, <1>4, <1>5
<1>6. CASE ~(r = x /\ t = u)
  <2>1. links'[r, t] = links[r, t]
    <3>1. links \in [Rows \X Tags -> Nat]
      BY <1>1 DEF TypeOK
    <3>2. \A y \in Rows, w \in Tags : ~(y = x /\ w = u) => links'[y, w] = links[y, w]
      BY Zenon, <1>2, <3>1
    <3> QED
      BY Zenon, <1>4, <1>6, <3>2
  <2>2. t \in targets \/ (~enforced /\ \E p \in Requests : LinkChange("link", r, t) \in wrote[p])
    BY <1>4, <2>1 DEF StrayLinksWereAskedFor
  <2> QED
    BY <1>3, <1>4, <2>2
<1> QED
  BY <1>5, <1>6

LEMMA StrayLinksStep ==
  IInv /\ StrayLinksWereAskedFor /\ [Next]_vars => StrayLinksWereAskedFor'
<1> SUFFICES ASSUME IInv, StrayLinksWereAskedFor, [Next]_vars PROVE StrayLinksWereAskedFor'
  OBVIOUS
<1>0. TypeOK
  BY DEF IInv
<1>1. CASE UNCHANGED vars \/ Revoke
  BY <1>1, StrayLinksStay DEF vars, database, effects, Revoke
<1>2. ASSUME NEW q \in Requests, Insert(q) \/ Update(q) \/ Delete(q) \/ BulkDelete(q)
      PROVE  StrayLinksWereAskedFor'
  <2>1. UNCHANGED <<database, effects>>
    BY <1>2 DEF Insert, Update, Delete, BulkDelete, Arrive
  <2> QED
    BY <2>1, StrayLinksStay DEF database, effects
<1>3. ASSUME NEW q \in Requests,
             \/ Fetch(q) \/ CheckRefs(q) \/ CheckFK(q) \/ BeforeHook(q)
             \/ StartSync(q) \/ LinkFails(q) \/ EndSync(q)
      PROVE  StrayLinksWereAskedFor'
  <2>1. UNCHANGED <<database, effects>>
    BY <1>3 DEF Fetch, CheckRefs, CheckFK, BeforeHook, StartSync, LinkFails, EndSync
  <2> QED
    BY <2>1, StrayLinksStay DEF database, effects
<1>4. ASSUME NEW q \in Requests, InsertRow(q) \/ UpdateRows(q) \/ DeleteRows(q) \/ Record(q)
      PROVE  StrayLinksWereAskedFor'
  <2>1. UNCHANGED <<links, config>>
    BY <1>4 DEF InsertRow, UpdateRows, DeleteRows, Record, database
  <2>2. UNCHANGED effects \/ \E C, A, B : Effect(q, C, A, B)
    BY <1>4 DEF InsertRow, UpdateRows, DeleteRows, Record, effects
  <2>3. \A p \in Requests : wrote[p] \subseteq wrote'[p]
    BY <1>0, <2>2, EffectAdds DEF effects
  <2> QED
    BY <2>1, <2>3, StrayLinksStay
<1>5. ASSUME NEW q \in Requests, NEW t \in Tags, RemoveLink(q, t)
      PROVE  StrayLinksWereAskedFor'
  <2>1. links' = [links EXCEPT ![<<req[q].row, t>>] = 0] /\ UNCHANGED config
    BY <1>5 DEF RemoveLink
  <2> DEFINE x == req[q].row
  <2>2. \A r \in Rows, u \in Tags : links'[r, u] > 0 => links[r, u] > 0
    <3>1. links \in [Rows \X Tags -> Nat]
      BY <1>0 DEF TypeOK
    <3>2. x \in Rows
      BY <1>5 DEF RemoveLink, IInv, Requested, Own, Phase
    <3> HIDE DEF x
    <3>3. \A y \in Rows, w \in Tags : links'[y, w] = IF y = x /\ w = t THEN 0 ELSE links[y, w]
      BY Zenon, <2>1, <3>1, <3>2 DEF x
    <3>4. ~(0 > 0)
      OBVIOUS
    <3> QED
      BY Zenon, <3>3, <3>4
  <2>3. \E C, A, B : Effect(q, C, A, B)
    BY <1>5 DEF RemoveLink
  <2>4. \A p \in Requests : wrote[p] \subseteq wrote'[p]
    BY <1>0, <2>3, EffectAdds
  <2> QED
    BY <2>1, <2>2, <2>4, StrayLinksStay
<1> QED
  BY <1>1, <1>2, <1>3, <1>4, <1>5, AddLinkStray DEF Next, Step

\* References hold: always where the database enforces them, and else for requests
\* that do not overlap, whose hooks keep the checked value and whose checks work.  A
\* junction row that refers to no target was asked for.
THEOREM ReferencesHoldAlways == Spec => []ReferencesHold
<1>1. Init => StrayLinksWereAskedFor
  <2> SUFFICES ASSUME Init, NEW r \in Rows, NEW t \in Tags, links[r, t] > 0 PROVE t \in targets
    BY DEF StrayLinksWereAskedFor
  <2>1. \A x \in Rows, u \in Tags : links[x, u] > 0 => u \in targets
    BY DEF Init
  <2> QED
    BY <2>1
<1>2. IInv /\ StrayLinksWereAskedFor => ReferencesHold
  <2> SUFFICES ASSUME IInv, StrayLinksWereAskedFor, ~Sound PROVE ReferencesHold
    BY DEF ReferencesHold
  <2>1. ~enforced /\ ~Careful
    BY DEF IInv
  <2>2. faults # 0 => faults > 0
    BY DEF IInv, TypeOK
  <2> QED
    BY <2>1, <2>2 DEF ReferencesHold, Careful
<1> QED
  BY <1>1, <1>2, StrayLinksStep, Invariant, PTL DEF Spec

\* A request on its own records and schedules exactly the changes it made, when it
\* succeeds, and none that it did not make, when it fails.
THEOREM TrailMatchesChangesAlways == Spec => []TrailMatchesChanges
<1>1. IInv => TrailMatchesChanges
  <2> SUFFICES ASSUME IInv, NEW q \in Requests, Answered(q)
               PROVE  /\ audit[q] \subseteq wrote[q] /\ after[q] \subseteq audit[q]
                      /\ req[q].reply = "ok" =>
                           /\ audit[q] = wrote[q]
                           /\ \A c \in audit[q] \ after[q] : c.op = "update"
                           /\ req[q].kind = "update" =>
                                Cardinality({c \in after[q] : c.op = "update"}) = 1
    BY DEF TrailMatchesChanges
  <2>1. Trail(req[q], wrote[q], audit[q], after[q]) /\ req[q].pc = "done"
    BY DEF IInv, Requested, Alone, Answered
  <2>2. CASE req[q].kind = "update"
    <3>1. ASSUME req[q].reply = "ok" PROVE Cardinality({c \in after[q] : c.op = "update"}) = 1
      <4>1. PICK u \in after[q] : {c \in after[q] : c.op = "update"} = {u}
        BY <2>1, <2>2, <3>1 DEF Trail, Scheduled
      <4> QED
        BY <4>1, FS_Singleton
    <3> QED
      BY <2>1, <2>2, <3>1 DEF Trail, Scheduled
  <2>3. CASE req[q].kind # "update"
    BY <2>1, <2>3 DEF Trail
  <2> QED
    BY <2>2, <2>3
<1> QED
  BY <1>1, Invariant, PTL

\* A request that is refused has written nothing, in any interleaving, but for links
\* that lacked a source value or grants.
THEOREM RefusedWritesNothingAlways == Spec => []RefusedWritesNothing
<1>1. IInv => RefusedWritesNothing
  BY DEF IInv, Requested, Own, Entitled, Refusals, RefusedWritesNothing
<1> QED
  BY <1>1, Invariant, PTL

\* The reply to a bulk delete accounts for each of its keys once.
THEOREM BulkReportsEachKeyAlways == Spec => []BulkReportsEachKey
<1>1. IInv => BulkReportsEachKey
  BY DEF IInv, Requested, Own, Counted, BulkReportsEachKey
<1> QED
  BY <1>1, Invariant, PTL

\* A request succeeds where it records its changes, or an update where its links are done.
LEMMA OkWhere ==
  ASSUME IInv, Next, NEW q \in Requests, req[q].reply = "none", req'[q].reply = "ok"
  PROVE  Record(q) \/ (EndSync(q) /\ req[q].kind # "insert")
<1>0. TypeOK /\ req \in [Requests -> Request] /\ req[q] \in Request /\ req' # req
  BY DEF IInv, TypeOK
<1>1. ASSUME NEW p \in Requests, NEW code \in Replies, Reply(p, code) PROVE p = q /\ code = "ok"
  <2>1. req[p] \in Request
    BY <1>0
  <2>2. Final(req[p], code).reply = code
    BY <2>1, FinalIs
  <2> QED
    BY <1>0, <1>1, <2>2 DEF Reply
<1>2. ASSUME NEW p \in Requests, NEW pc, Goto(p, pc) PROVE FALSE
  BY <1>0, <1>2 DEF Goto, Request
<1>3. ASSUME NEW p \in Requests, NEW D, NEW F, NextKey(p, D, F) PROVE FALSE
  BY <1>0, <1>3 DEF NextKey, Request
<1>4. ASSUME NEW p \in Requests, NEW code \in Refusals, Fail(p, code) PROVE FALSE
  <2>1. code \in Replies /\ code # "ok"
    BY DEF Refusals, Replies
  <2> QED
    BY <1>1, <1>3, <1>4, <2>1 DEF Fail
<1>5. ASSUME NEW p \in Requests, NEW r, r.reply # "ok", req' = [req EXCEPT ![p] = r] PROVE FALSE
  BY <1>0, <1>5
<1>6. /\ {"VALIDATION", "FORBIDDEN", "CONN", "CONFLICT", "LINK_FAILED"} \subseteq Replies \ {"ok"}
      /\ {"CONFLICT", "HOOK_REJECTED", "CONN"} \subseteq Refusals
  BY DEF Replies, Refusals
<1>7. ASSUME NEW p \in Requests, Insert(p) \/ Update(p) \/ Delete(p) \/ BulkDelete(p) PROVE FALSE
  <2>1. Fresh.reply = "none"
    BY DEF Fresh
  <2>2. ASSUME NEW b \in Request, b.reply = "none", NEW pc PROVE Checked(b, pc).reply # "ok"
    <3>1. "FORBIDDEN" \in Replies
      BY DEF Replies
    <3>2. Final(b, "FORBIDDEN").reply = "FORBIDDEN"
      BY <2>2, <3>1, FinalIs
    <3>3. [b EXCEPT !.pc = pc].reply = "none"
      BY <2>2 DEF Request
    <3> QED
      BY <3>2, <3>3 DEF Checked
  <2>3. CASE Insert(p)
    <3>1. PICK x \in Rows, identified \in BOOLEAN, asked \in BOOLEAN :
            Arrive(p, Checked([Fresh EXCEPT !.kind = "insert", !.row = x, !.asked = asked,
                                           !.identified = identified], "hook"))
      BY <2>3 DEF Insert
    <3> DEFINE b == [Fresh EXCEPT !.kind = "insert", !.row = x, !.asked = asked, !.identified = identified]
    <3>2. b \in Request /\ b.reply = "none"
      BY ZenonT(60), FreshTyped DEF Fresh, Request, Row
    <3> HIDE DEF b
    <3> QED
      BY <1>5, <2>2, <3>1, <3>2 DEF Arrive, b
  <2>4. CASE Update(p)
    <3>1. PICK k \in KeysInUse, asked \in BOOLEAN :
            Arrive(p, Checked([Fresh EXCEPT !.kind = "update", !.keys = {k}, !.todo = {k}, !.asked = asked],
                              "fetch"))
      BY <2>4 DEF Update
    <3> DEFINE b == [Fresh EXCEPT !.kind = "update", !.keys = {k}, !.todo = {k}, !.asked = asked]
    <3>2. b \in Request /\ b.reply = "none"
      <4>1. k \in Keys
        BY <1>0, KeysTyped
      <4>2. {k} \in SUBSET Keys
        BY <4>1
      <4> QED
        BY <4>2, FreshTyped DEF Fresh, Request
    <3> HIDE DEF b
    <3> QED
      BY <1>5, <2>2, <3>1, <3>2 DEF Arrive, b
  <2>5. CASE Delete(p) \/ BulkDelete(p)
    <3>1. PICK kind \in {"delete", "bulk"}, S \in SUBSET KeysInUse :
            Arrive(p, [Fresh EXCEPT !.kind = kind, !.keys = S, !.todo = S, !.pc = "fetch"])
      <4>1. ASSUME NEW k \in KeysInUse PROVE {k} \in SUBSET KeysInUse
        OBVIOUS
      <4> QED
        BY <2>5, <4>1 DEF Delete, BulkDelete
    <3> DEFINE r == [Fresh EXCEPT !.kind = kind, !.keys = S, !.todo = S, !.pc = "fetch"]
    <3>2. r.reply = "none"
      BY DEF Fresh
    <3> HIDE DEF r
    <3> QED
      BY <1>5, <3>1, <3>2 DEF Arrive, r
  <2> QED
    BY <1>7, <2>3, <2>4, <2>5
<1>8. ~Revoke
  BY <1>0 DEF Revoke
<1>9. ASSUME NEW p \in Requests, Fetch(p) PROVE FALSE
  <2>1. PICK k \in req[p].todo :
          \/ req' = [req EXCEPT ![p] = Miss(Take(p, k), "CONN")]
          \/ req' = [req EXCEPT ![p] = Miss(Take(p, k), "NOT_FOUND")]
          \/ req' = [req EXCEPT ![p] =
               [Take(p, k) EXCEPT !.pc = IF req[p].kind = "update" THEN "check" ELSE "refs"]]
    BY <1>9 DEF Fetch
  <2>2. Take(p, k) \in Request /\ Take(p, k).reply = req[p].reply
    BY <1>0, TakeIs
  <2>3. ASSUME NEW code \in {"CONN", "NOT_FOUND"} PROVE p = q => Miss(Take(p, k), code).reply # "ok"
    <3>1. code \in Replies
      BY DEF Replies
    <3>2. Final(Take(p, k), code).reply # "ok"
      BY <2>2, <2>3, <3>1, FinalIs
    <3> DEFINE s == Take(p, k)
    <3>3. p = q => [s EXCEPT !.failed = @ \cup {s.key},
                             !.pc = IF s.todo = {} THEN "record" ELSE "fetch"].reply # "ok"
      BY <2>2 DEF Request
    <3> QED
      BY <3>2, <3>3 DEF Miss
  <2> DEFINE s == Take(p, k)
  <2>4. p = q => [s EXCEPT !.pc = IF req[p].kind = "update" THEN "check" ELSE "refs"].reply # "ok"
    BY <2>2 DEF Request
  <2> QED
    BY <1>0, <2>1, <2>3, <2>4
<1>10. ASSUME NEW p \in Requests, CheckRefs(p) \/ CheckFK(p) \/ BeforeHook(p) PROVE FALSE
  <2>1. CASE CheckRefs(p)
    <3>1. ~(req' = [req EXCEPT ![p].pc = "hook", ![p].failed = @ \cup {req[p].key}])
      BY <1>0 DEF Request
    <3> QED
      BY <1>1, <1>2, <1>4, <1>6, <2>1, <3>1 DEF CheckRefs
  <2>2. CASE CheckFK(p)
    <3>1. \A f : ~(req' = [req EXCEPT ![p].ref = f, ![p].pc = "hook"])
      BY <1>0 DEF Request
    <3> QED
      BY <1>1, <1>2, <1>6, <2>2, <3>1 DEF CheckFK
  <2>3. CASE BeforeHook(p)
    <3>1. \A f, pc : ~(req' = [req EXCEPT ![p].ref = f, ![p].pc = pc])
      BY <1>0 DEF Request
    <3> QED
      BY <1>2, <1>4, <1>6, <2>3, <3>1 DEF BeforeHook
  <2> QED
    BY <1>10, <2>1, <2>2, <2>3
<1>11. ASSUME NEW p \in Requests, InsertRow(p) \/ UpdateRows(p) \/ DeleteRows(p) PROVE FALSE
  BY <1>1, <1>2, <1>3, <1>4, <1>6, <1>11 DEF InsertRow, UpdateRows, DeleteRows
<1>12. ASSUME NEW p \in Requests, Record(p) PROVE Record(q)
  BY <1>1, <1>2, <1>12 DEF Record, Replies
<1>13. ASSUME NEW p \in Requests, StartSync(p) \/ LinkFails(p) PROVE FALSE
  <2>1. \A x, want, cur : ~(req' = [req EXCEPT ![p].row = x, ![p].want = want, ![p].cur = cur, ![p].pc = "links"])
    BY <1>0 DEF Request
  <2> QED
    <3>1. "VALIDATION" \in Replies /\ "FORBIDDEN" \in Replies /\ "LINK_FAILED" \in Replies
      BY DEF Replies
    <3>2. ~Reply(p, "VALIDATION") /\ ~Reply(p, "FORBIDDEN") /\ ~Reply(p, "LINK_FAILED")
      BY <1>1, <3>1
    <3>3. ~LinkFails(p)
      BY <3>2 DEF LinkFails
    <3>4. ASSUME NEW x \in IF req[p].kind = "insert" THEN {req[p].row} ELSE req[p].old,
                 NEW want \in SUBSET Tags,
                 req' = [req EXCEPT ![p].row = x, ![p].want = want,
                                    ![p].cur = {t \in Tags : links[x, t] > 0}, ![p].pc = "links"]
          PROVE  FALSE
      <4> DEFINE C == {t \in Tags : links[x, t] > 0}
      <4>1. req' = [req EXCEPT ![p].row = x, ![p].want = want, ![p].cur = C, ![p].pc = "links"]
        BY <3>4
      <4> HIDE DEF C
      <4> QED
        BY <2>1, <4>1
    <3>5. ~StartSync(p)
      BY <3>2, <3>4 DEF StartSync
    <3> QED
      BY <1>13, <3>3, <3>5
<1>14. ASSUME NEW p \in Requests, EndSync(p) PROVE EndSync(q) /\ req[q].kind # "insert"
  BY <1>1, <1>2, <1>14 DEF EndSync, Replies
<1>15. ASSUME NEW p \in Requests, NEW t \in Tags, AddLink(p, t) \/ RemoveLink(p, t) PROVE FALSE
  <2>1. \A cur : ~(req' = [req EXCEPT ![p].cur = cur])
    BY <1>0 DEF Request
  <2> QED
    BY <1>15, <2>1 DEF AddLink, RemoveLink
<1> QED
  BY <1>7, <1>8, <1>9, <1>10, <1>11, <1>12, <1>13, <1>14, <1>15 DEF Next, Step

\* When a request on its own that brings a selection succeeds, its row is linked to
\* exactly the tags of the selection.
THEOREM LinksBecomeSelectionAlways == Spec => LinksBecomeSelection
<1> DEFINE A == \A q \in Requests :
                  /\ req[q].reply = "none" /\ req'[q].reply = "ok" /\ req[q].asked /\ q \notin overlapped
                  => {t \in Tags : links'[req[q].row, t] > 0} = req[q].want
<1>1. IInv /\ [Next]_vars => [A]_vars
  <2> SUFFICES ASSUME IInv, Next, NEW q \in Requests, req[q].reply = "none", req'[q].reply = "ok",
                      req[q].asked, q \notin overlapped
               PROVE  {t \in Tags : links'[req[q].row, t] > 0} = req[q].want
    BY DEF vars
  <2>1. /\ req[q] \in Request /\ Phase(req[q]) /\ Fetched(req[q]) /\ req \in [Requests -> Request]
    BY DEF IInv, TypeOK, Requested, Own, Alone
  <2>2. CASE Record(q)
    <3>1. req[q].kind # "update"
      BY <2>1, <2>2 DEF Record, At, Goto, Request
    <3>2. req[q].kind = "insert" /\ req[q].pc = "record"
      BY <2>1, <2>2, <3>1 DEF Record, Phase, Request
    <3>3. links' = links
      BY <2>2 DEF Record, database
    <3> QED
      BY <2>1, <3>2, <3>3 DEF Fetched, Linked
  <2>3. CASE EndSync(q)
    <3>1. links' = links /\ req[q].pc = "links" /\ req[q].cur = req[q].want
      BY <2>3 DEF EndSync, database
    <3> QED
      BY <2>1, <3>1 DEF Fetched, Linked
  <2> QED
    BY <2>2, <2>3, OkWhere
<1> QED
  BY <1>1, Invariant, PTL DEF Spec, LinksBecomeSelection
==============================================================================
