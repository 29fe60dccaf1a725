-------------------------- MODULE HookOutboxProofs --------------------------
(***************************************************************************)
(* Type correctness and safety of the after-hook outbox, for any number of *)
(* definitions, writes, entries, retries and faults, and that it           *)
(* implements AfterHookDelivery: the initial states map to initial states, *)
(* and every step of a request, the worker, an administrator or the        *)
(* process maps to a step of the abstract delivery or leaves it as it is;  *)
(* and how often a hook may be executed.                                   *)
(*                                                                         *)
(* IInv is inductive: it ties what the worker holds (the snapshot of a     *)
(* batch, the entry at hand) to the rows and to the history of executions. *)
(***************************************************************************)
EXTENDS HookOutbox, FiniteSetTheorems, TLAPS
-----------------------------------------------------------------------------
(* The invariant.                                                          *)

Busy == worker.pc \in {"running", "succeeded", "failed"}

\* The side effect of entry i has completed and is not yet recorded.
Unrecorded(i) == worker.pc = "succeeded" /\ worker.cur = i

\* Identifiers below the sequence are in use, the others never were.
IdsInv ==
  \A i \in Ids : outbox[i].status = "none" => i >= nextId /\ fired[i] = 0 /\ i \notin tried

FreshInv == \A i \in Ids : i >= nextId => outbox[i] = Absent

\* While an entry is in the batch nobody but the worker settles it.
BatchInv ==
  /\ \A i \in worker.batch : outbox[i].status \in {"pending", "deleted"}
  /\ Busy => worker.cur \in worker.batch
  /\ worker.pc = "idle" => worker.batch = {}

\* No count of attempts, stored or remembered, exceeds the failures there were.
BudgetInv ==
  /\ \A i \in Ids : outbox[i].status = "pending" => outbox[i].attempts <= failures[i]
  /\ \A i \in worker.batch : worker.snap[i] <= failures[i]
  /\ worker.pc = "failed" => worker.snap[worker.cur] < failures[worker.cur]
  /\ DeadOnlyWhenSpent

\* Each completion beyond the faults is either recorded or about to be.
FiredInv ==
  /\ FiredOncePerFault
  /\ \A i \in Ids : outbox[i].status = "dead" => fired[i] <= faults
  /\ \A i \in Ids : (outbox[i].status = "pending" \/ i \in worker.batch) /\ ~Unrecorded(i)
                       => fired[i] <= faults

\* The batch has no gaps: what is older than one of its entries and not in it
\* has had its turn.
TurnInv ==
  /\ FirstTurnsInOrder
  /\ \A i \in Ids : outbox[i].status \in {"done", "dead"} => i \in tried
  /\ \A i \in Ids : outbox[i].status = "pending" /\ i \notin tried => outbox[i].due
  /\ \A j \in worker.batch, i \in Ids :
       i < j => i \in worker.batch \/ i \in tried \/ outbox[i].status = "deleted"
  /\ Busy => worker.cur \in tried

\* A request that enqueues points at an assignment or past the last one.
RequestInv ==
  \A w \in Writes : request[w].pc = "committed" => request[w].def \in Defs /\ request[w].pos >= 1

TInv == TypeOK /\ BatchInv /\ RequestInv

HInv == IdsInv /\ FreshInv /\ BudgetInv /\ FiredInv /\ TurnInv

IInv == TInv /\ HInv

-----------------------------------------------------------------------------
(* What the store and worker helpers do, field by field.                   *)

LEMMA MarkFacts ==
  ASSUME outbox \in [Ids -> Entry], NEW i \in Ids, NEW n \in Nat,
         NEW s \in {"pending", "done", "dead"}, Mark(i, s, n)
  PROVE  /\ outbox' \in [Ids -> Entry]
         /\ \A k \in Ids : k # i => outbox'[k] = outbox[k]
         /\ outbox[i].status = "deleted" => outbox'[i] = outbox[i]
         /\ outbox[i].status # "deleted" =>
              outbox'[i].status = s /\ outbox'[i].attempts = n /\ ~outbox'[i].due
         /\ outbox'[i].def = outbox[i].def
<1>1. CASE outbox[i].status = "deleted"
  BY <1>1 DEF Mark
<1>2. CASE outbox[i].status # "deleted"
  <2> DEFINE row == [outbox[i] EXCEPT !.status = s, !.attempts = n, !.due = FALSE]
  <2>1. outbox[i] \in Entry
    OBVIOUS
  <2>2. row \in Entry /\ row.status = s /\ row.attempts = n /\ row.due = FALSE
        /\ row.def = outbox[i].def
    BY <2>1 DEF Entry
  <2>3. outbox' = [outbox EXCEPT ![i] = row]
    BY <1>2 DEF Mark
  <2> QED
    BY <1>2, <2>2, <2>3
<1> QED
  BY <1>1, <1>2

LEMMA PassOnFacts ==
  ASSUME worker \in Worker, NEW i \in Ids, PassOn(i)
  PROVE  /\ worker' \in Worker
         /\ worker'.batch = worker.batch \ {i}
         /\ worker'.pc = IF worker.batch = {i} THEN "idle" ELSE "picking"
         /\ worker'.cur = NoEntry
         /\ \A k \in Ids : k # i => worker'.snap[k] = worker.snap[k]
BY DEF PassOn, Worker, NoEntry
-----------------------------------------------------------------------------
(* Type correctness, and what the batch may contain.                       *)

LEMMA InitTyped == Init => TInv
BY HookOutboxAssumption DEF Init, TInv, TypeOK, BatchInv, RequestInv, Busy, IdleWorker, Worker,
   Request, Entry, Absent, Ids, NoEntry

LEMMA RequestTyped ==
  ASSUME TInv, NEW w \in Writes, (\E d \in Defs : CommitWrite(w, d)) \/ Reply(w)
  PROVE  TInv'
<1>1. ASSUME NEW d \in Defs, CommitWrite(w, d) PROVE TInv'
  BY <1>1 DEF CommitWrite, TInv, TypeOK, BatchInv, RequestInv, Busy, Request, storeVars, history,
     bounds
<1>2. ASSUME Reply(w) PROVE TInv'
  BY <1>2 DEF Reply, TInv, TypeOK, BatchInv, RequestInv, Busy, Request, storeVars, history, bounds
<1> QED
  BY <1>1, <1>2

LEMMA EnqueueFacts ==
  ASSUME TInv, NEW w \in Writes, EnqueueAfter(w)
  PROVE  \/ outbox' = outbox /\ nextId' = nextId
         \/ /\ nextId \in Ids /\ nextId' = nextId + 1
            /\ \E e \in Entry : /\ outbox' = [outbox EXCEPT ![nextId] = e]
                               /\ e.status = "pending" /\ e.attempts = 0
                               /\ e.due /\ e.def \in defs
<1> DEFINE r == request[w]
<1> DEFINE row == [status |-> "pending", attempts |-> 0, due |-> TRUE, def |-> r.def,
                   hook |-> AfterHooks[r.def][r.pos], write |-> w, pos |-> r.pos]
<1>1. r \in Request /\ r.def \in Defs /\ r.pos \in 1..Len(AfterHooks[r.def])
  <2>1. r \in Request /\ r.pc = "committed"
    BY DEF EnqueueAfter, TInv, TypeOK
  <2>2. r.def \in Defs /\ r.pos >= 1 /\ r.pos \in Nat
    BY <2>1 DEF TInv, RequestInv, Request
  <2>3. Len(AfterHooks[r.def]) \in Nat
    BY <2>2, HookOutboxAssumption
  <2> QED
    BY <2>1, <2>2, <2>3 DEF EnqueueAfter
<1>2. row \in Entry /\ row.status = "pending" /\ row.attempts = 0 /\ row.due /\ row.def = r.def
  <2>1. row.hook \in Hooks
    BY <1>1, HookOutboxAssumption
  <2> QED
    BY <1>1, <2>1 DEF Entry, Request
<1>3. CASE r.def \in defs /\ nextId <= MaxEntries /\ outbox' = [outbox EXCEPT ![nextId] = row]
           /\ nextId' = nextId + 1
  <2>1. nextId \in Ids
    BY <1>3, HookOutboxAssumption DEF TInv, TypeOK, Ids
  <2> QED
    BY <1>2, <1>3, <2>1
<1>4. CASE UNCHANGED <<outbox, nextId>>
  BY <1>4
<1> QED
  BY <1>3, <1>4 DEF EnqueueAfter

LEMMA EnqueueTyped ==
  ASSUME TInv, NEW w \in Writes, EnqueueAfter(w)
  PROVE  TInv'
<1>1. /\ request' \in [Writes -> Request] /\ RequestInv'
      /\ UNCHANGED <<defs, up, registered, worker, history, retries>>
      /\ faults' \in Nat
  <2>1. request' = [request EXCEPT ![w].pos = @ + 1]
    BY DEF EnqueueAfter
  <2>2. request' \in [Writes -> Request] /\ RequestInv'
    BY <2>1 DEF TInv, TypeOK, RequestInv, Request
  <2> QED
    BY <2>2 DEF EnqueueAfter, TInv, TypeOK, Fault
<1>2. CASE outbox' = outbox /\ nextId' = nextId
  BY <1>1, <1>2 DEF TInv, TypeOK, BatchInv, Busy, history
<1>3. ASSUME NEW e \in Entry, nextId \in Ids, nextId' = nextId + 1,
             outbox' = [outbox EXCEPT ![nextId] = e], e.status = "pending", e.def \in defs
      PROVE  TInv'
  <2>1. nextId' \in 1..MaxEntries + 1
    BY <1>3, HookOutboxAssumption DEF Ids
  <2>2. outbox' \in [Ids -> Entry]
    BY <1>3 DEF TInv, TypeOK
  <2>3. TypeOK'
    BY <1>1, <1>3, <2>1, <2>2 DEF TInv, TypeOK, history
  <2>4. BatchInv'
    BY <1>1, <1>3 DEF TInv, TypeOK, BatchInv, Busy, Worker
  <2> QED
    BY <1>1, <2>3, <2>4 DEF TInv
<1> QED
  BY <1>2, <1>3, EnqueueFacts

LEMMA PollFacts ==
  ASSUME TInv, Poll
  PROVE  /\ worker' \in Worker /\ worker'.pc = "picking" /\ worker.pc = "idle"
         /\ worker'.batch = OldestOf(Due) /\ worker'.batch \subseteq Due
         /\ \A i \in worker'.batch : worker'.snap[i] = outbox[i].attempts
BY DEF Poll, TInv, TypeOK, Worker, OldestOf, Due, NoEntry, Entry

LEMMA MarkTyped ==
  ASSUME TInv, NEW i \in worker.batch, NEW n \in Nat, NEW s \in {"pending", "done", "dead"},
         Mark(i, s, n), PassOn(i), UNCHANGED <<defs, nextId, up, registered, request>>,
         failures' = failures, fired' = fired, excused' \in SUBSET Ids, tried' \in SUBSET Ids,
         owed' \in SUBSET Ids, retries' = retries, faults' \in Nat
  PROVE  TInv'
<1>1. i \in Ids
  BY DEF TInv, TypeOK, Worker
<1>2. outbox[i].status \in {"pending", "deleted"}
  BY DEF TInv, BatchInv
<1>3. TypeOK'
  BY <1>1, <1>2, MarkFacts, PassOnFacts DEF TInv, TypeOK
<1>4. BatchInv'
  BY <1>1, MarkFacts, PassOnFacts DEF TInv, TypeOK, BatchInv, Busy, Worker
<1>5. RequestInv'
  BY DEF TInv, RequestInv
<1> QED
  BY <1>3, <1>4, <1>5 DEF TInv

LEMMA WorkerTyped ==
  ASSUME TInv, WorkerStep
  PROVE  TInv'
<1>1. CASE Poll
  <2>1. TypeOK'
    BY <1>1, PollFacts DEF Poll, TInv, TypeOK, storeVars, history, bounds
  <2>2. BatchInv'
    BY <1>1, PollFacts DEF Poll, TInv, TypeOK, BatchInv, Busy, Due, storeVars
  <2> QED
    BY <1>1, <2>1, <2>2 DEF Poll, TInv, RequestInv
<1>2. ASSUME NEW i \in Ids, Begin(i) PROVE TInv'
  BY <1>2 DEF Begin, IsHead, TInv, TypeOK, BatchInv, RequestInv, Busy, Worker, storeVars, bounds
<1>3. ASSUME NEW i \in Ids, GiveUp(i) PROVE TInv'
  <2>1. faults' \in Nat /\ MaxFailures \in Nat
    BY <1>3, HookOutboxAssumption DEF GiveUp, Fault, TInv, TypeOK
  <2> QED
    BY <1>3, <2>1, MarkTyped DEF GiveUp, IsHead, TInv, TypeOK
<1>4. ASSUME NEW i \in Ids, HookReturns(i) PROVE TInv'
  BY <1>4 DEF HookReturns, TInv, TypeOK, BatchInv, RequestInv, Busy, Worker, storeVars, bounds
<1>5. ASSUME NEW i \in Ids, MarkDone(i) PROVE TInv'
  <2>1. i \in worker.batch /\ outbox[i].attempts \in Nat
    BY <1>5 DEF MarkDone, TInv, TypeOK, BatchInv, Busy, Entry
  <2> QED
    BY <1>5, <2>1, MarkTyped DEF MarkDone, TInv, TypeOK, history, bounds
<1>6. ASSUME NEW i \in Ids, MarkFailed(i) PROVE TInv'
  <2>1. i \in worker.batch /\ worker.snap[i] + 1 \in Nat
    BY <1>6 DEF MarkFailed, TInv, TypeOK, BatchInv, Busy, Worker
  <2> QED
    BY <1>6, <2>1, MarkTyped DEF MarkFailed, TInv, TypeOK, history, bounds
<1> QED
  BY <1>1, <1>2, <1>3, <1>4, <1>5, <1>6 DEF WorkerStep

LEMMA RowTyped ==
  ASSUME TInv, NEW i \in Ids, NEW row \in Entry, outbox' = [outbox EXCEPT ![i] = row],
         row.status = "pending", row.def = outbox[i].def, outbox[i].status \in {"pending", "dead"},
         UNCHANGED <<defs, nextId, up, registered, request, worker, failures, fired, excused, tried>>,
         owed' \in SUBSET Ids, retries' \in Nat, faults' = faults
  PROVE  TInv'
<1>1. outbox' \in [Ids -> Entry]
  BY DEF TInv, TypeOK
<1>2. /\ outbox'[i] = row
      /\ \A k \in Ids : k # i => outbox'[k] = outbox[k]
  BY DEF TInv, TypeOK
<1>3. TypeOK'
  BY <1>1, <1>2 DEF TInv, TypeOK
<1>4. BatchInv'
  BY <1>2 DEF TInv, TypeOK, BatchInv, Busy, Worker
<1> QED
  BY <1>3, <1>4 DEF TInv, RequestInv

LEMMA StoreTyped ==
  ASSUME TInv, NEW i \in Ids, MarkLost(i) \/ BackoffElapses(i) \/ RetryOutbox(i)
  PROVE  TInv'
<1>1. CASE MarkLost(i)
  <2>1. worker' \in Worker /\ worker'.batch = worker.batch \ {i} /\ faults' \in Nat
        /\ worker'.pc = (IF worker.batch = {i} THEN "idle" ELSE "picking")
        /\ tried' \in SUBSET Ids /\ owed' \in SUBSET Ids
    BY <1>1, PassOnFacts DEF MarkLost, Fault, TInv, TypeOK
  <2>2. UNCHANGED <<storeVars, up, registered, request, failures, fired, excused, retries>>
    BY <1>1 DEF MarkLost
  <2>3. TypeOK'
    BY <2>1, <2>2 DEF TInv, TypeOK, storeVars
  <2>4. BatchInv'
    BY <2>1, <2>2 DEF TInv, TypeOK, BatchInv, Busy, storeVars
  <2> QED
    BY <2>2, <2>3, <2>4 DEF TInv, RequestInv
<1>2. CASE BackoffElapses(i)
  <2> DEFINE row == [outbox[i] EXCEPT !.due = TRUE]
  <2>1. outbox[i] \in Entry /\ outbox \in [Ids -> Entry]
    BY DEF TInv, TypeOK
  <2>2. row \in Entry /\ row.status = "pending" /\ row.def = outbox[i].def
    BY <1>2, <2>1 DEF BackoffElapses, Entry
  <2>3. outbox' = [outbox EXCEPT ![i] = row]
    BY <1>2 DEF BackoffElapses
  <2> QED
    BY <1>2, <2>1, <2>2, <2>3, RowTyped DEF BackoffElapses, TInv, TypeOK, history, bounds
<1>3. CASE RetryOutbox(i)
  <2> DEFINE row == [outbox[i] EXCEPT !.status = "pending", !.attempts = 0, !.due = TRUE]
  <2>1. outbox[i] \in Entry /\ outbox \in [Ids -> Entry]
    BY DEF TInv, TypeOK
  <2>2. row \in Entry /\ row.status = "pending" /\ row.def = outbox[i].def
    BY <1>3, <2>1 DEF RetryOutbox, Entry
  <2>3. outbox' = [outbox EXCEPT ![i] = row]
    BY <1>3 DEF RetryOutbox
  <2>4. owed' \in SUBSET Ids /\ retries' \in Nat
    BY <1>3 DEF RetryOutbox, TInv, TypeOK
  <2> QED
    BY <1>3, <2>2, <2>3, <2>4, RowTyped DEF RetryOutbox
<1> QED
  BY <1>1, <1>2, <1>3

LEMMA ProcessTyped ==
  ASSUME TInv, (\E d \in Defs : DeleteTableDef(d)) \/ Crash \/ Restart
  PROVE  TInv'
<1>1. ASSUME NEW d \in Defs, DeleteTableDef(d) PROVE TInv'
  <2>1. \A i \in Ids : outbox'[i] = IF outbox[i].def = d
                                      THEN [outbox[i] EXCEPT !.status = "deleted"] ELSE outbox[i]
    BY <1>1 DEF DeleteTableDef
  <2>2. outbox' \in [Ids -> Entry]
    <3>1. \A i \in Ids : [outbox[i] EXCEPT !.status = "deleted"] \in Entry
      BY DEF TInv, TypeOK, Entry
    <3> QED
      BY <1>1, <3>1 DEF DeleteTableDef, TInv, TypeOK
  <2>3. \A i \in Ids : outbox'[i].def = outbox[i].def
           /\ outbox'[i].status = IF outbox[i].def = d THEN "deleted" ELSE outbox[i].status
    BY <2>1 DEF TInv, TypeOK, Entry
  <2>4. TypeOK'
    BY <1>1, <2>2, <2>3 DEF DeleteTableDef, TInv, TypeOK, history, bounds
  <2>5. BatchInv'
    BY <1>1, <2>3 DEF DeleteTableDef, TInv, TypeOK, BatchInv, Busy, Worker
  <2> QED
    BY <1>1, <2>4, <2>5 DEF DeleteTableDef, TInv, RequestInv
<1>2. CASE Crash
  <2>1. IdleWorker \in Worker
    BY DEF IdleWorker, Worker
  <2>2. request' \in [Writes -> Request] /\ RequestInv'
    BY <1>2 DEF Crash, TInv, TypeOK, Request, RequestInv
  <2>3. up' \in BOOLEAN
    BY <1>2, Zenon DEF Crash
  <2>4. faults' \in Nat /\ worker' \in Worker
    BY <1>2, <2>1 DEF Crash, Fault, TInv, TypeOK
  <2>5. UNCHANGED <<defs, outbox, nextId, registered, failures, fired, excused, tried, owed, retries>>
    BY <1>2 DEF Crash, storeVars, history
  <2>6. TypeOK'
    BY <2>2, <2>3, <2>4, <2>5 DEF TInv, TypeOK
  <2>7. BatchInv'
    BY <1>2 DEF Crash, BatchInv, Busy, IdleWorker
  <2> QED
    BY <2>2, <2>6, <2>7 DEF TInv
<1>3. CASE Restart
  BY <1>3, HookOutboxAssumption DEF Restart, TInv, TypeOK, BatchInv, RequestInv, Busy, storeVars,
     history, bounds
<1> QED
  BY <1>1, <1>2, <1>3

LEMMA NextTyped == TInv /\ [Next]_vars => TInv'
<1> SUFFICES ASSUME TInv, [Next]_vars PROVE TInv'
  OBVIOUS
<1>1. CASE UNCHANGED vars
  BY <1>1 DEF vars, storeVars, history, bounds, TInv, TypeOK, BatchInv, RequestInv, Busy
<1> QED
  BY <1>1, RequestTyped, EnqueueTyped, WorkerTyped, StoreTyped, ProcessTyped DEF Next

\* Every variable of the outbox keeps its type, and no entry outlives its
\* table definition except as deleted: ON DELETE CASCADE, for every instance.
THEOREM TypeCorrect == Spec => []TypeOK
<1>1. Spec => []TInv
  BY InitTyped, NextTyped, PTL DEF Spec
<1> QED
  BY <1>1, PTL DEF TInv
-----------------------------------------------------------------------------
(* The counts and the turns.                                               *)

LEMMA InitHistory == Init => HInv
BY HookOutboxAssumption DEF Init, HInv, IdsInv, FreshInv, BudgetInv, DeadOnlyWhenSpent, FiredInv,
   FiredOncePerFault, Unrecorded, TurnInv, FirstTurnsInOrder, Busy, IdleWorker, Ids, Absent

\* Nothing but requests, the process or the clock changes.
LEMMA QuietHistory ==
  ASSUME IInv, UNCHANGED <<outbox, nextId, worker, failures, fired, excused, tried, faults>>
  PROVE  HInv'
BY DEF IInv, HInv, IdsInv, FreshInv, BudgetInv, DeadOnlyWhenSpent, FiredInv, FiredOncePerFault,
   Unrecorded, TurnInv, FirstTurnsInOrder, Busy

\* A row of the outbox is as typed, and so are the counts of its executions.
LEMMA RowFacts ==
  ASSUME TInv, NEW i \in Ids
  PROVE  /\ i \in Nat /\ nextId \in Nat /\ faults \in Nat /\ MaxFailures \in Nat
         /\ outbox[i] \in Entry /\ outbox[i].attempts \in Nat
         /\ failures[i] \in Nat /\ fired[i] \in Nat /\ worker.snap[i] \in Nat
         /\ worker.batch \subseteq Ids /\ worker.cur \in Ids \cup {NoEntry}
BY HookOutboxAssumption DEF TInv, TypeOK, Ids, Entry, Worker

LEMMA EnqueueHistory ==
  ASSUME IInv, NEW w \in Writes, EnqueueAfter(w)
  PROVE  HInv'
<1>1. UNCHANGED <<worker, failures, fired, excused, tried>> /\ faults' \in {faults, faults + 1}
  BY DEF EnqueueAfter, history, Fault
<1>2. CASE outbox' = outbox /\ nextId' = nextId
  BY <1>1, <1>2, RowFacts DEF IInv, HInv, IdsInv, FreshInv, BudgetInv, DeadOnlyWhenSpent, FiredInv,
     FiredOncePerFault, Unrecorded, TurnInv, FirstTurnsInOrder, Busy
<1>3. ASSUME NEW e \in Entry, nextId \in Ids, nextId' = nextId + 1,
             outbox' = [outbox EXCEPT ![nextId] = e], e.status = "pending", e.attempts = 0, e.due
      PROVE  HInv'
  <2>1. /\ outbox'[nextId] = e
        /\ \A k \in Ids : k # nextId => outbox'[k] = outbox[k]
    BY <1>3 DEF IInv, TInv, TypeOK
  <2>2. \A k \in Ids : k >= nextId => outbox[k].status = "none" /\ fired[k] = 0 /\ k \notin tried
                                      /\ k \notin worker.batch
    BY RowFacts DEF IInv, HInv, FreshInv, IdsInv, Absent, TInv, BatchInv
  <2>3. IdsInv' /\ FreshInv'
    BY <1>1, <1>3, <2>1, <2>2, RowFacts DEF IInv, HInv, IdsInv, FreshInv
  <2>4. BudgetInv'
    BY <1>1, <1>3, <2>1, <2>2, RowFacts DEF IInv, HInv, BudgetInv, DeadOnlyWhenSpent
  <2>5. FiredInv'
    BY <1>1, <1>3, <2>1, <2>2, RowFacts DEF IInv, HInv, FiredInv, FiredOncePerFault, Unrecorded
  <2>6. TurnInv'
    BY <1>1, <1>3, <2>1, <2>2, RowFacts DEF IInv, HInv, TurnInv, FirstTurnsInOrder, Busy
  <2> QED
    BY <2>3, <2>4, <2>5, <2>6 DEF HInv
<1> QED
  BY <1>2, <1>3, EnqueueFacts DEF IInv

\* A batch is taken from the old end: LIMIT leaves out only younger entries.
LEMMA OldestFirst ==
  ASSUME MaxEntries \in Nat, NEW S \in SUBSET Ids, NEW j \in OldestOf(S), NEW i \in S, i < j
  PROVE  i \in OldestOf(S)
<1> DEFINE Before(n) == {k \in S : k < n}
<1>1. IsFiniteSet(S)
  <2>1. 1 \in Int /\ MaxEntries \in Int
    OBVIOUS
  <2>2. IsFiniteSet(1..MaxEntries)
    BY <2>1, FS_Interval
  <2> QED
    BY <2>2, FS_Subset DEF Ids
<1>2. IsFiniteSet(Before(j)) /\ Before(i) \subseteq Before(j)
  <2>1. Before(j) \subseteq S /\ S \subseteq Nat /\ j \in Nat
    BY DEF Ids, OldestOf
  <2>2. \A k \in S : k < i => k < j
    BY <2>1
  <2>3. IsFiniteSet(Before(j))
    BY <1>1, <2>1, FS_Subset
  <2> QED
    BY <2>2, <2>3, Zenon
<1>3. Cardinality(Before(i)) <= Cardinality(Before(j)) /\ IsFiniteSet(Before(i))
  BY <1>2, FS_Subset
<1>4. Cardinality(Before(i)) \in Nat /\ Cardinality(Before(j)) \in Nat
  BY <1>2, <1>3, FS_CardinalityType
<1>5. Cardinality(Before(j)) < BatchSize
  BY DEF OldestOf
<1>6. Cardinality(Before(i)) < BatchSize
  BY <1>3, <1>4, <1>5, HookOutboxAssumption
<1> QED
  BY <1>6 DEF OldestOf

LEMMA PollHistory ==
  ASSUME IInv, Poll
  PROVE  HInv'
<1>1. /\ UNCHANGED <<outbox, nextId, failures, fired, excused, tried, faults>>
      /\ worker'.pc = "picking" /\ worker.pc = "idle" /\ worker'.batch = OldestOf(Due)
      /\ worker'.batch \subseteq Due
      /\ \A i \in worker'.batch : worker'.snap[i] = outbox[i].attempts
  BY PollFacts DEF IInv, Poll, storeVars, history, bounds
<1>2. IdsInv' /\ FreshInv'
  BY <1>1 DEF IInv, HInv, IdsInv, FreshInv
<1>3. BudgetInv'
  BY <1>1 DEF IInv, HInv, BudgetInv, DeadOnlyWhenSpent, Due
<1>4. FiredInv'
  BY <1>1 DEF IInv, HInv, FiredInv, FiredOncePerFault, Unrecorded, Due
<1>5. ASSUME NEW j \in worker'.batch, NEW i \in Ids, i < j, i \notin worker'.batch
      PROVE  i \in tried \/ outbox[i].status = "deleted"
  <2>1. i \notin Due
    BY <1>1, <1>5, OldestFirst, HookOutboxAssumption DEF Due
  <2>2. j < nextId
    BY <1>1, RowFacts DEF Due, IInv, HInv, FreshInv, Absent
  <2>3. outbox[i].status # "none"
    BY <1>1, <1>5, <2>2, RowFacts DEF Due, IInv, HInv, IdsInv
  <2>4. outbox[i].status \in {"none", "pending", "done", "dead", "deleted"}
    BY RowFacts DEF IInv, Entry
  <2> QED
    BY <2>1, <2>3, <2>4 DEF Due, IInv, HInv, TurnInv
<1>6. TurnInv'
  BY <1>1, <1>5 DEF IInv, HInv, TurnInv, FirstTurnsInOrder, Busy
<1> QED
  BY <1>2, <1>3, <1>4, <1>6 DEF HInv

LEMMA BeginHistory ==
  ASSUME IInv, NEW i \in Ids, Begin(i)
  PROVE  HInv'
<1>1. /\ UNCHANGED <<outbox, nextId, failures, fired, excused, faults>> /\ tried' = tried \cup {i}
      /\ worker.pc = "picking" /\ worker' = [worker EXCEPT !.pc = "running", !.cur = i]
      /\ i \in worker.batch /\ \A j \in worker.batch : i <= j
  BY DEF Begin, IsHead, storeVars, bounds
<1>2. worker'.pc = "running" /\ worker'.cur = i /\ worker'.batch = worker.batch
      /\ worker'.snap = worker.snap
  BY <1>1 DEF IInv, TInv, TypeOK, Worker
<1>3. IdsInv' /\ FreshInv'
  BY <1>1 DEF IInv, HInv, IdsInv, FreshInv, TInv, BatchInv
<1>4. BudgetInv'
  BY <1>1, <1>2 DEF IInv, HInv, BudgetInv, DeadOnlyWhenSpent
<1>5. FiredInv'
  BY <1>1, <1>2 DEF IInv, HInv, FiredInv, FiredOncePerFault, Unrecorded
<1>6. TurnInv'
  BY <1>1, <1>2, RowFacts DEF IInv, HInv, TurnInv, FirstTurnsInOrder, Busy
<1> QED
  BY <1>3, <1>4, <1>5, <1>6 DEF HInv

LEMMA ReturnHistory ==
  ASSUME IInv, NEW i \in Ids, HookReturns(i)
  PROVE  HInv'
<1>1. /\ UNCHANGED <<outbox, nextId, excused, tried, faults>>
      /\ worker.pc = "running" /\ worker.cur = i /\ i \in worker.batch
  BY DEF HookReturns, storeVars, bounds, IInv, TInv, BatchInv, Busy
<1>2. /\ worker'.cur = i /\ worker'.batch = worker.batch /\ worker'.snap = worker.snap
      /\ \/ worker'.pc = "succeeded" /\ fired' = [fired EXCEPT ![i] = @ + 1] /\ failures' = failures
         \/ worker'.pc = "failed" /\ failures' = [failures EXCEPT ![i] = @ + 1] /\ fired' = fired
  BY <1>1 DEF HookReturns, IInv, TInv, TypeOK, Worker
<1>3. outbox[i].status \in {"pending", "deleted"} /\ fired[i] <= faults
  BY <1>1 DEF IInv, HInv, TInv, BatchInv, FiredInv, Unrecorded
<1>4. /\ \A k \in Ids : k # i => fired'[k] = fired[k]
      /\ \A k \in Ids : failures'[k] \in Nat /\ failures'[k] >= failures[k]
      /\ worker'.pc = "failed" => failures'[i] = failures[i] + 1 /\ fired' = fired
      /\ worker'.pc # "failed" => fired'[i] = fired[i] + 1
  BY <1>2 DEF IInv, TInv, TypeOK
<1>5. IdsInv' /\ FreshInv'
  BY <1>1, <1>3, <1>4 DEF IInv, HInv, IdsInv, FreshInv
<1>6. BudgetInv'
  BY <1>1, <1>2, <1>4, RowFacts DEF IInv, HInv, BudgetInv, DeadOnlyWhenSpent
<1>7. FiredInv'
  BY <1>1, <1>2, <1>3, <1>4, RowFacts DEF IInv, HInv, FiredInv, FiredOncePerFault, Unrecorded
<1>8. TurnInv'
  BY <1>1, <1>2 DEF IInv, HInv, TurnInv, FirstTurnsInOrder, Busy
<1> QED
  BY <1>5, <1>6, <1>7, <1>8 DEF HInv

\* The worker records what came of entry i and goes on.
LEMMA SettleHistory ==
  ASSUME IInv, NEW i \in worker.batch, NEW n \in Nat, NEW s \in {"pending", "done", "dead"},
         Mark(i, s, n), PassOn(i), UNCHANGED <<nextId, failures, fired>>,
         tried' = tried \cup {i}, excused \subseteq excused', faults' \in {faults, faults + 1},
         s = "pending" => n <= failures[i],
         s = "dead" => i \in excused' \/ failures[i] >= MaxFailures,
         s \in {"pending", "dead"} => fired[i] <= faults',
         worker.pc = "succeeded" => worker.cur = i,
         i \in tried \/ \A k \in worker.batch : i <= k
  PROVE  HInv'
<1>1. i \in Ids /\ outbox[i].status \in {"pending", "deleted"}
  BY DEF IInv, TInv, TypeOK, BatchInv, Worker
<1>2. /\ \A k \in Ids : k # i => outbox'[k] = outbox[k]
      /\ outbox[i].status = "deleted" => outbox'[i] = outbox[i]
      /\ outbox[i].status # "deleted" => outbox'[i].status = s /\ outbox'[i].attempts = n
  BY <1>1, MarkFacts DEF IInv, TInv, TypeOK
<1>3. /\ worker'.batch = worker.batch \ {i} /\ worker'.pc \in {"idle", "picking"}
      /\ \A k \in Ids : k # i => worker'.snap[k] = worker.snap[k]
  BY <1>1, PassOnFacts DEF IInv, TInv, TypeOK
<1>4. i < nextId
  BY <1>1, RowFacts DEF IInv, HInv, FreshInv, Absent
<1>5. IdsInv' /\ FreshInv'
  BY <1>1, <1>2, <1>4, RowFacts DEF IInv, HInv, IdsInv, FreshInv
<1>6. BudgetInv'
  BY <1>1, <1>2, <1>3, RowFacts DEF IInv, HInv, BudgetInv, DeadOnlyWhenSpent
<1>7. FiredInv'
  BY <1>1, <1>2, <1>3, RowFacts DEF IInv, HInv, FiredInv, FiredOncePerFault, Unrecorded
<1>8. TurnInv'
  BY <1>1, <1>2, <1>3, RowFacts DEF IInv, HInv, TurnInv, FirstTurnsInOrder, Busy
<1> QED
  BY <1>5, <1>6, <1>7, <1>8 DEF HInv

LEMMA MarksHistory ==
  ASSUME IInv, NEW i \in Ids, GiveUp(i) \/ MarkDone(i) \/ MarkFailed(i)
  PROVE  HInv'
<1>1. CASE GiveUp(i)
  <2>1. /\ worker.pc = "picking" /\ i \in worker.batch /\ \A k \in worker.batch : i <= k
        /\ Mark(i, "dead", MaxFailures) /\ PassOn(i)
        /\ tried' = tried \cup {i} /\ excused' = excused \cup {i}
        /\ UNCHANGED <<nextId, failures, fired>> /\ faults' \in {faults, faults + 1}
    BY <1>1 DEF GiveUp, IsHead, Fault
  <2>2. fired[i] <= faults' /\ MaxFailures \in Nat
    BY <2>1, RowFacts DEF IInv, HInv, FiredInv, Unrecorded
  <2> QED
    BY <2>1, <2>2, SettleHistory
<1>2. CASE MarkDone(i)
  <2>1. /\ worker.pc = "succeeded" /\ worker.cur = i /\ i \in worker.batch /\ i \in tried
        /\ outbox[i].attempts \in Nat
        /\ Mark(i, "done", outbox[i].attempts) /\ PassOn(i)
        /\ UNCHANGED <<nextId, failures, fired, tried, excused, faults>>
    BY <1>2, RowFacts DEF MarkDone, history, bounds, IInv, HInv, TInv, BatchInv, TurnInv, Busy
  <2> QED
    BY <2>1, SettleHistory
<1>3. CASE MarkFailed(i)
  <2> DEFINE n == worker.snap[i] + 1
  <2>1. /\ worker.pc = "failed" /\ worker.cur = i /\ i \in worker.batch /\ i \in tried
        /\ Mark(i, IF n >= MaxFailures THEN "dead" ELSE "pending", n) /\ PassOn(i)
        /\ UNCHANGED <<nextId, failures, fired, tried, excused, faults>>
    BY <1>3 DEF MarkFailed, history, bounds, IInv, HInv, TInv, BatchInv, TurnInv, Busy
  <2>2. n \in Nat /\ n <= failures[i] /\ fired[i] <= faults'
    BY <2>1, RowFacts DEF IInv, HInv, BudgetInv, FiredInv, Unrecorded
  <2>3. n >= MaxFailures => failures[i] >= MaxFailures
    BY <2>2, RowFacts DEF IInv
  <2>4. CASE n >= MaxFailures
    BY <2>1, <2>2, <2>3, <2>4, SettleHistory
  <2>5. CASE ~(n >= MaxFailures)
    BY <2>1, <2>2, <2>5, SettleHistory
  <2> QED
    BY <2>4, <2>5
<1> QED
  BY <1>1, <1>2, <1>3

LEMMA LostHistory ==
  ASSUME IInv, NEW i \in Ids, MarkLost(i)
  PROVE  HInv'
<1>1. /\ UNCHANGED <<outbox, nextId, failures, fired, excused>> /\ faults' = faults + 1
      /\ worker'.batch = worker.batch \ {i} /\ worker'.pc \in {"idle", "picking"}
      /\ \A k \in Ids : k # i => worker'.snap[k] = worker.snap[k]
      /\ i \in worker.batch /\ tried' = tried \cup {i}
      /\ worker.pc = "succeeded" => worker.cur = i
      /\ i \in tried \/ \A k \in worker.batch : i <= k
  BY PassOnFacts DEF MarkLost, IsHead, Fault, storeVars, IInv, HInv, TInv, TypeOK, BatchInv,
     TurnInv, Busy
<1>2. outbox[i].status \in {"pending", "deleted"}
  BY <1>1 DEF IInv, TInv, BatchInv
<1>3. IdsInv' /\ FreshInv'
  BY <1>1, <1>2 DEF IInv, HInv, IdsInv, FreshInv
<1>4. BudgetInv'
  BY <1>1, RowFacts DEF IInv, HInv, BudgetInv, DeadOnlyWhenSpent
<1>5. FiredInv'
  BY <1>1, RowFacts DEF IInv, HInv, FiredInv, FiredOncePerFault, Unrecorded
<1>6. TurnInv'
  BY <1>1, <1>2, RowFacts DEF IInv, HInv, TurnInv, FirstTurnsInOrder, Busy
<1> QED
  BY <1>3, <1>4, <1>5, <1>6 DEF HInv

\* A row that stays or becomes pending, its attempts not raised.
LEMMA RowHistory ==
  ASSUME IInv, NEW i \in Ids, NEW row \in Entry, outbox' = [outbox EXCEPT ![i] = row],
         row.status = "pending", row.due, row.attempts \in {0, outbox[i].attempts},
         outbox[i].status \in {"pending", "dead"},
         UNCHANGED <<nextId, worker, failures, fired, excused, tried, faults>>,
         row.attempts = 0 \/ outbox[i].status = "pending"
  PROVE  HInv'
<1>1. /\ outbox'[i] = row
      /\ \A k \in Ids : k # i => outbox'[k] = outbox[k]
  BY DEF IInv, TInv, TypeOK
<1>2. i < nextId
  BY RowFacts DEF IInv, HInv, FreshInv, Absent
<1>3. IdsInv' /\ FreshInv'
  BY <1>1, <1>2, RowFacts DEF IInv, HInv, IdsInv, FreshInv
<1>4. BudgetInv'
  BY <1>1, RowFacts DEF IInv, HInv, BudgetInv, DeadOnlyWhenSpent
<1>5. FiredInv'
  BY <1>1 DEF IInv, HInv, FiredInv, FiredOncePerFault, Unrecorded
<1>6. TurnInv'
  BY <1>1 DEF IInv, HInv, TurnInv, FirstTurnsInOrder, Busy
<1> QED
  BY <1>3, <1>4, <1>5, <1>6 DEF HInv

LEMMA StoreHistory ==
  ASSUME IInv, NEW i \in Ids, BackoffElapses(i) \/ RetryOutbox(i)
  PROVE  HInv'
<1>1. outbox[i] \in Entry /\ outbox \in [Ids -> Entry]
  BY DEF IInv, TInv, TypeOK
<1>2. CASE BackoffElapses(i)
  <2> DEFINE row == [outbox[i] EXCEPT !.due = TRUE]
  <2>1. row \in Entry /\ row.status = "pending" /\ row.attempts = outbox[i].attempts /\ row.due
    BY <1>1, <1>2 DEF BackoffElapses, Entry
  <2>2. outbox' = [outbox EXCEPT ![i] = row]
    BY <1>2 DEF BackoffElapses
  <2> QED
    BY <1>2, <2>1, <2>2, RowHistory DEF BackoffElapses, history, bounds
<1>3. CASE RetryOutbox(i)
  <2> DEFINE row == [outbox[i] EXCEPT !.status = "pending", !.attempts = 0, !.due = TRUE]
  <2>1. row \in Entry /\ row.status = "pending" /\ row.attempts = 0 /\ row.due
    BY <1>1 DEF Entry
  <2>2. outbox' = [outbox EXCEPT ![i] = row]
    BY <1>3 DEF RetryOutbox
  <2> QED
    BY <1>3, <2>1, <2>2, RowHistory DEF RetryOutbox
<1> QED
  BY <1>2, <1>3

LEMMA DeleteHistory ==
  ASSUME IInv, NEW d \in Defs, DeleteTableDef(d)
  PROVE  HInv'
<1>1. /\ UNCHANGED <<nextId, worker, failures, fired, excused, tried, faults>>
      /\ \A i \in Ids : outbox'[i] = IF outbox[i].def = d
                           THEN [outbox[i] EXCEPT !.status = "deleted"] ELSE outbox[i]
  BY DEF DeleteTableDef, history, bounds
<1>2. \A i \in Ids :
        \/ outbox'[i] = outbox[i]
        \/ outbox'[i].status = "deleted" /\ outbox[i] # Absent
  <2>1. ASSUME NEW i \in Ids, outbox[i].def = d
        PROVE  outbox'[i].status = "deleted" /\ outbox[i] # Absent
    <3>1. outbox[i] \in Entry
      BY DEF IInv, TInv, TypeOK
    <3>2. [outbox[i] EXCEPT !.status = "deleted"].status = "deleted"
      BY <3>1 DEF Entry
    <3>3. outbox'[i].status = "deleted"
      BY <1>1, <2>1, <3>2
    <3>4. Absent.def = NoEntry /\ d # NoEntry
      BY HookOutboxAssumption DEF Absent, NoEntry
    <3> QED
      BY <2>1, <3>3, <3>4
  <2>2. ASSUME NEW i \in Ids, outbox[i].def # d
        PROVE  outbox'[i] = outbox[i]
    BY <1>1, <2>2
  <2> QED
    BY <2>1, <2>2
<1>3. IdsInv' /\ FreshInv'
  BY <1>1, <1>2 DEF IInv, HInv, IdsInv, FreshInv
<1>4. BudgetInv'
  BY <1>1, <1>2 DEF IInv, HInv, BudgetInv, DeadOnlyWhenSpent
<1>5. FiredInv'
  BY <1>1, <1>2 DEF IInv, HInv, FiredInv, FiredOncePerFault, Unrecorded
<1>6. TurnInv'
  BY <1>1, <1>2 DEF IInv, HInv, TurnInv, FirstTurnsInOrder, Busy
<1> QED
  BY <1>3, <1>4, <1>5, <1>6 DEF HInv

LEMMA CrashHistory ==
  ASSUME IInv, Crash
  PROVE  HInv'
<1>1. /\ UNCHANGED <<outbox, nextId, failures, fired, excused, tried>> /\ faults' = faults + 1
      /\ worker'.batch = {} /\ worker'.pc = "idle"
  BY DEF Crash, Fault, IdleWorker, storeVars, history
<1>2. IdsInv' /\ FreshInv' /\ BudgetInv'
  BY <1>1 DEF IInv, HInv, IdsInv, FreshInv, BudgetInv, DeadOnlyWhenSpent
<1>3. FiredInv'
  BY <1>1, RowFacts DEF IInv, HInv, FiredInv, FiredOncePerFault, Unrecorded
<1>4. TurnInv'
  BY <1>1 DEF IInv, HInv, TurnInv, FirstTurnsInOrder, Busy
<1> QED
  BY <1>2, <1>3, <1>4 DEF HInv

LEMMA NextInv == IInv /\ [Next]_vars => IInv'
<1> SUFFICES ASSUME IInv, [Next]_vars PROVE IInv'
  OBVIOUS
<1>1. TInv'
  BY NextTyped DEF IInv
<1>2. CASE UNCHANGED vars
  <2>1. UNCHANGED <<outbox, nextId, worker, failures, fired, excused, tried, faults>>
    BY <1>2 DEF vars, storeVars, history, bounds
  <2> QED
    BY <1>1, <2>1, QuietHistory DEF IInv
<1>3. ASSUME (\E w \in Writes, d \in Defs : CommitWrite(w, d)) \/ (\E w \in Writes : Reply(w)) \/ Restart
      PROVE  IInv'
  <2>1. UNCHANGED <<outbox, nextId, worker, failures, fired, excused, tried, faults>>
    BY <1>3 DEF CommitWrite, Reply, Restart, storeVars, history, bounds
  <2> QED
    BY <1>1, <2>1, QuietHistory DEF IInv
<1>4. ASSUME NEW w \in Writes, EnqueueAfter(w) PROVE IInv'
  BY <1>1, <1>4, EnqueueHistory DEF IInv
<1>5. CASE Poll
  BY <1>1, <1>5, PollHistory DEF IInv
<1>6. ASSUME NEW i \in Ids, Begin(i) PROVE IInv'
  BY <1>1, <1>6, BeginHistory DEF IInv
<1>7. ASSUME NEW i \in Ids, HookReturns(i) PROVE IInv'
  BY <1>1, <1>7, ReturnHistory DEF IInv
<1>8. ASSUME NEW i \in Ids, GiveUp(i) \/ MarkDone(i) \/ MarkFailed(i) PROVE IInv'
  BY <1>1, <1>8, MarksHistory DEF IInv
<1>9. ASSUME NEW i \in Ids, MarkLost(i) PROVE IInv'
  BY <1>1, <1>9, LostHistory DEF IInv
<1>10. ASSUME NEW i \in Ids, BackoffElapses(i) \/ RetryOutbox(i) PROVE IInv'
  BY <1>1, <1>10, StoreHistory DEF IInv
<1>11. ASSUME NEW d \in Defs, DeleteTableDef(d) PROVE IInv'
  BY <1>1, <1>11, DeleteHistory DEF IInv
<1>12. CASE Crash
  BY <1>1, <1>12, CrashHistory DEF IInv
<1> QED
  BY <1>2, <1>3, <1>4, <1>5, <1>6, <1>7, <1>8, <1>9, <1>10, <1>11, <1>12 DEF Next, WorkerStep

LEMMA Invariance == Spec => []IInv
<1>1. Init => IInv
  BY InitTyped, InitHistory DEF IInv
<1> QED
  BY <1>1, NextInv, PTL DEF Spec

\* An entry is dead only after MaxFailures failed executions, or because its
\* hook or definition was unavailable, whatever crashes, lost marks, stale
\* snapshots and manual retries come in between.
THEOREM DeadOnlyWhenSpentAlways == Spec => []DeadOnlyWhenSpent
<1>1. IInv => DeadOnlyWhenSpent
  BY DEF IInv, HInv, BudgetInv
<1> QED
  BY <1>1, Invariance, PTL

\* The side effect of an entry completes at most once per fault, plus one.
THEOREM FiredOncePerFaultAlways == Spec => []FiredOncePerFault
<1>1. IInv => FiredOncePerFault
  BY DEF IInv, HInv, FiredInv
<1> QED
  BY <1>1, Invariance, PTL

\* Entries get their first turn in the order they were recorded, for every
\* batch size and any number of entries.
THEOREM FirstTurnsInOrderAlways == Spec => []FirstTurnsInOrder
<1>1. IInv => FirstTurnsInOrder
  BY DEF IInv, HInv, TurnInv
<1> QED
  BY <1>1, Invariance, PTL
-----------------------------------------------------------------------------
(* The refinement.                                                         *)

\* What is marked done has fired.
SuccessInv == worker.pc = "succeeded" => fired[worker.cur] > 0

MInv == IInv /\ SuccessInv
-----------------------------------------------------------------------------
(* The fate of an entry follows its status.                                *)

LEMMA FateValues ==
  ASSUME outbox \in [Ids -> Entry], NEW i \in Ids
  PROVE  /\ outbox[i].status = "none" => Fate[i] = "none"
         /\ outbox[i].status = "pending" => Fate[i] = "owed"
         /\ outbox[i].status = "done" => Fate[i] = "delivered"
         /\ outbox[i].status = "dead" => Fate[i] = "abandoned"
         /\ outbox[i].status = "deleted" => Fate[i] = "withdrawn"
         /\ outbox[i].status # "none" => Fate[i] # "none"
BY DEF Fate, FateOf, Entry

LEMMA NextFateValues ==
  ASSUME NEW i \in Ids
  PROVE  /\ outbox'[i].status = "pending" => Fate'[i] = "owed"
         /\ outbox'[i].status = "done" => Fate'[i] = "delivered"
         /\ outbox'[i].status = "dead" => Fate'[i] = "abandoned"
         /\ outbox'[i].status = "deleted" => Fate'[i] = "withdrawn"
BY DEF Fate, FateOf

LEMMA FateIsFunction ==
  /\ Fate = [k \in Ids |-> Fate[k]]
  /\ Fate' = [k \in Ids |-> Fate'[k]]
BY DEF Fate

LEMMA SameFate ==
  ASSUME NEW i \in Ids, outbox'[i].status = outbox[i].status
  PROVE  Fate'[i] = Fate[i]
BY DEF Fate

LEMMA FateStays ==
  ASSUME \A i \in Ids : outbox'[i].status = outbox[i].status
  PROVE  Fate' = Fate
<1>1. \A i \in Ids : Fate'[i] = Fate[i]
  BY SameFate
<1> QED
  BY <1>1, FateIsFunction

LEMMA FateChanges ==
  ASSUME NEW i \in Ids, \A k \in Ids : k # i => outbox'[k].status = outbox[k].status
  PROVE  Fate' = [Fate EXCEPT ![i] = Fate'[i]]
<1>1. \A k \in Ids : k # i => Fate'[k] = Fate[k]
  BY SameFate
<1> QED
  BY <1>1, FateIsFunction

LEMMA Stutters ==
  ASSUME \A i \in Ids : outbox'[i].status = outbox[i].status, fired' = fired
  PROVE  UNCHANGED Delivery!vars
BY FateStays DEF Delivery!vars
-----------------------------------------------------------------------------
LEMMA InitImplements == Init => Delivery!Init
BY DEF Init, Delivery!Init, Fate, FateOf, Absent

LEMMA InitSuccess == Init => SuccessInv
BY DEF Init, SuccessInv, IdleWorker

\* Only the return of a hook makes the worker's state "succeeded", and nothing
\* takes a completion back.
LEMMA NextSuccess == IInv /\ SuccessInv /\ [Next]_vars => SuccessInv'
<1> SUFFICES ASSUME IInv, SuccessInv, [Next]_vars PROVE SuccessInv'
  OBVIOUS
<1>t. worker \in Worker /\ fired \in [Ids -> Nat]
  BY DEF IInv, TInv, TypeOK
<1>1. ASSUME UNCHANGED <<worker, fired>> PROVE SuccessInv'
  BY <1>1 DEF SuccessInv
<1>2. ASSUME worker'.pc # "succeeded" PROVE SuccessInv'
  BY <1>2 DEF SuccessInv
<1>3. ASSUME NEW i \in Ids, HookReturns(i) PROVE SuccessInv'
  <2>1. worker.cur = i
    BY <1>3 DEF HookReturns
  <2>2. CASE /\ worker' = [worker EXCEPT !.pc = "succeeded"]
             /\ fired' = [fired EXCEPT ![i] = @ + 1]
    BY <1>t, <2>1, <2>2 DEF SuccessInv, Worker
  <2>3. CASE worker' = [worker EXCEPT !.pc = "failed"]
    BY <1>t, <2>3, <1>2 DEF Worker
  <2> QED
    BY <1>3, <2>2, <2>3 DEF HookReturns
<1>4. ASSUME NEW i \in Ids, PassOn(i) PROVE SuccessInv'
  BY <1>t, <1>4, <1>2, PassOnFacts
<1>5. CASE Poll
  BY <1>5, <1>2 DEF Poll
<1>6. ASSUME NEW i \in Ids, Begin(i) PROVE SuccessInv'
  BY <1>t, <1>6, <1>2 DEF Begin, Worker
<1>7. CASE Crash
  BY <1>7, <1>2 DEF Crash, IdleWorker
<1>8. CASE UNCHANGED vars
  BY <1>8, <1>1 DEF vars, history
<1>9. ASSUME NEW w \in Writes, NEW d \in Defs, CommitWrite(w, d) PROVE SuccessInv'
  BY <1>9, <1>1 DEF CommitWrite, history
<1>10. ASSUME NEW w \in Writes, EnqueueAfter(w) \/ Reply(w) PROVE SuccessInv'
  BY <1>10, <1>1 DEF EnqueueAfter, Reply, history
<1>11. ASSUME NEW i \in Ids, BackoffElapses(i) \/ RetryOutbox(i) PROVE SuccessInv'
  BY <1>11, <1>1 DEF BackoffElapses, RetryOutbox, history
<1>12. ASSUME NEW d \in Defs, DeleteTableDef(d) PROVE SuccessInv'
  BY <1>12, <1>1 DEF DeleteTableDef, history
<1>13. CASE Restart
  BY <1>13, <1>1 DEF Restart, history
<1>14. ASSUME NEW i \in Ids, GiveUp(i) \/ MarkDone(i) \/ MarkFailed(i) \/ MarkLost(i)
       PROVE SuccessInv'
  BY <1>14, <1>4 DEF GiveUp, MarkDone, MarkFailed, MarkLost
<1> QED
  BY <1>3, <1>5, <1>6, <1>7, <1>8, <1>9, <1>10, <1>11, <1>12, <1>13, <1>14 DEF Next, WorkerStep

\* The worker has fired what it is about to mark done.
LEMMA MapInvariance == Spec => []MInv
<1>1. Init => SuccessInv
  BY InitSuccess
<1>2. IInv /\ SuccessInv /\ [Next]_vars => SuccessInv'
  BY NextSuccess
<1>3. Spec => []IInv
  BY Invariance
<1> QED
  BY <1>1, <1>2, <1>3, PTL DEF Spec, MInv
-----------------------------------------------------------------------------
(* Each step is a step of the delivery, or none.                           *)

LEMMA EnqueueImplements ==
  ASSUME MInv, NEW w \in Writes, EnqueueAfter(w)
  PROVE  [Delivery!Next]_(Delivery!vars)
<1>t. outbox \in [Ids -> Entry] /\ nextId \in 1..MaxEntries + 1
  BY DEF MInv, IInv, TInv, TypeOK
<1>1. fired' = fired
  BY DEF EnqueueAfter, history
<1>2. CASE UNCHANGED outbox
  BY <1>1, <1>2, Stutters
<1>3. CASE outbox' # outbox
  <2>1. nextId \in Ids /\ outbox[nextId].status = "none"
    BY <1>3, <1>t, HookOutboxAssumption DEF EnqueueAfter, MInv, IInv, HInv, FreshInv, Absent, Ids
  <2>2. /\ outbox'[nextId].status = "pending"
        /\ \A k \in Ids : k # nextId => outbox'[k].status = outbox[k].status
    BY <1>3, <1>t, <2>1 DEF EnqueueAfter
  <2>3. Fate[nextId] = "none" /\ Fate'[nextId] = "owed"
    BY <1>t, <2>1, <2>2, FateValues, NextFateValues
  <2>4. Fate' = [Fate EXCEPT ![nextId] = "owed"]
    BY <2>1, <2>2, <2>3, FateChanges
  <2>5. Delivery!Owe(nextId)
    BY <1>1, <2>3, <2>4 DEF Delivery!Owe, Delivery!Become
  <2> QED
    BY <2>1, <2>5 DEF Delivery!Next
<1> QED
  BY <1>2, <1>3

\* A mark moves an owed entry to where it says, and a deleted one nowhere.
LEMMA MarkMoves ==
  ASSUME MInv, NEW i \in worker.batch, NEW n \in Nat, NEW s \in {"pending", "done", "dead"},
         Mark(i, s, n)
  PROVE  \/ \A k \in Ids : outbox'[k].status = outbox[k].status
         \/ /\ Fate[i] = "owed" /\ s # "pending"
            /\ Fate' = [Fate EXCEPT ![i] = IF s = "done" THEN "delivered" ELSE "abandoned"]
<1>t. outbox \in [Ids -> Entry] /\ i \in Ids /\ outbox[i].status \in {"pending", "deleted"}
  BY DEF MInv, IInv, TInv, TypeOK, BatchInv, Worker
<1>1. /\ \A k \in Ids : k # i => outbox'[k] = outbox[k]
      /\ outbox[i].status = "deleted" => outbox'[i] = outbox[i]
      /\ outbox[i].status # "deleted" => outbox'[i].status = s
  BY <1>t, MarkFacts
<1>2. CASE outbox[i].status = "deleted" \/ s = "pending"
  BY <1>t, <1>1, <1>2
<1>3. CASE outbox[i].status = "pending" /\ s # "pending"
  <2>1. Fate[i] = "owed"
    BY <1>t, <1>3, FateValues
  <2>2. Fate'[i] = IF s = "done" THEN "delivered" ELSE "abandoned"
    BY <1>t, <1>1, <1>3, NextFateValues
  <2>3. Fate' = [Fate EXCEPT ![i] = Fate'[i]]
    BY <1>t, <1>1, FateChanges
  <2> QED
    BY <1>3, <2>1, <2>2, <2>3
<1> QED
  BY <1>t, <1>2, <1>3

LEMMA WorkerImplements ==
  ASSUME MInv, NEW i \in Ids,
         GiveUp(i) \/ MarkDone(i) \/ MarkFailed(i) \/ HookReturns(i)
  PROVE  [Delivery!Next]_(Delivery!vars)
<1>t. /\ outbox \in [Ids -> Entry] /\ worker \in Worker /\ fired \in [Ids -> Nat]
      /\ MaxFailures \in Nat
  BY HookOutboxAssumption DEF MInv, IInv, TInv, TypeOK
<1>b. \A k \in Ids : worker.pc \in {"running", "succeeded", "failed"} /\ worker.cur = k
                       => k \in worker.batch
  BY DEF MInv, IInv, TInv, BatchInv, Busy
<1>1. CASE GiveUp(i)
  <2>1. i \in worker.batch /\ Mark(i, "dead", MaxFailures) /\ fired' = fired
    BY <1>1 DEF GiveUp, IsHead
  <2>2. CASE \A k \in Ids : outbox'[k].status = outbox[k].status
    BY <2>1, <2>2, Stutters
  <2>3. CASE Fate[i] = "owed" /\ Fate' = [Fate EXCEPT ![i] = "abandoned"]
    BY <2>1, <2>3 DEF Delivery!Next, Delivery!GiveUp, Delivery!Become
  <2> QED
    BY <1>t, <2>1, <2>2, <2>3, MarkMoves
<1>2. CASE MarkDone(i)
  <2>1. /\ i \in worker.batch /\ Mark(i, "done", outbox[i].attempts) /\ fired' = fired
        /\ outbox[i].attempts \in Nat /\ fired[i] > 0
    BY <1>t, <1>b, <1>2 DEF MarkDone, history, MInv, SuccessInv, Entry
  <2>2. CASE \A k \in Ids : outbox'[k].status = outbox[k].status
    BY <2>1, <2>2, Stutters
  <2>3. CASE Fate[i] = "owed" /\ Fate' = [Fate EXCEPT ![i] = "delivered"]
    BY <2>1, <2>3 DEF Delivery!Next, Delivery!Settle, Delivery!Become
  <2> QED
    BY <1>t, <2>1, <2>2, <2>3, MarkMoves
<1>3. CASE MarkFailed(i)
  <2> DEFINE n == worker.snap[i] + 1
             s == IF n >= MaxFailures THEN "dead" ELSE "pending"
  <2>1. i \in worker.batch /\ Mark(i, s, n) /\ fired' = fired
    BY <1>b, <1>3 DEF MarkFailed, history
  <2>2. n \in Nat /\ s \in {"pending", "done", "dead"} /\ s # "done"
    BY <1>t DEF Worker
  <2>3. CASE \A k \in Ids : outbox'[k].status = outbox[k].status
    BY <2>1, <2>3, Stutters
  <2>4. CASE Fate[i] = "owed" /\ Fate' = [Fate EXCEPT ![i] = "abandoned"]
    BY <2>1, <2>4 DEF Delivery!Next, Delivery!GiveUp, Delivery!Become
  <2> HIDE DEF n, s
  <2> QED
    BY <2>1, <2>2, <2>3, <2>4, MarkMoves
<1>4. CASE HookReturns(i)
  <2>1. outbox' = outbox /\ i \in worker.batch
    BY <1>b, <1>4 DEF HookReturns, storeVars
  <2>2. CASE fired' = fired
    BY <2>1, <2>2, Stutters
  <2>3. CASE fired' = [fired EXCEPT ![i] = @ + 1]
    <3>1. outbox[i].status \in {"pending", "deleted"}
      BY <2>1 DEF MInv, IInv, TInv, BatchInv
    <3>2. Fate[i] \in {"owed", "withdrawn"}
      BY <1>t, <3>1, FateValues
    <3>3. Fate' = Fate
      BY <2>1, FateStays
    <3>4. Delivery!Fire(i)
      BY <2>3, <3>2, <3>3 DEF Delivery!Fire
    <3> QED
      BY <3>4 DEF Delivery!Next
  <2> QED
    BY <1>4, <2>2, <2>3 DEF HookReturns
<1> QED
  BY <1>1, <1>2, <1>3, <1>4

LEMMA RowImplements ==
  ASSUME MInv, NEW i \in Ids, BackoffElapses(i) \/ RetryOutbox(i)
  PROVE  [Delivery!Next]_(Delivery!vars)
<1>t. outbox \in [Ids -> Entry]
  BY DEF MInv, IInv, TInv, TypeOK
<1>1. fired' = fired
  BY DEF BackoffElapses, RetryOutbox, history
<1>2. /\ \A k \in Ids : k # i => outbox'[k] = outbox[k]
      /\ outbox[i].status \in {"pending", "dead"} /\ outbox'[i].status = "pending"
  BY <1>t DEF BackoffElapses, RetryOutbox, Entry
<1>3. CASE outbox[i].status = "pending"
  BY <1>1, <1>2, <1>3, Stutters
<1>4. CASE outbox[i].status = "dead"
  <2>1. Fate[i] = "abandoned" /\ Fate'[i] = "owed"
    BY <1>t, <1>2, <1>4, FateValues, NextFateValues
  <2>2. Fate' = [Fate EXCEPT ![i] = "owed"]
    BY <1>2, <2>1, FateChanges
  <2> QED
    BY <1>1, <2>1, <2>2 DEF Delivery!Next, Delivery!Reopen, Delivery!Become
<1> QED
  BY <1>2, <1>3, <1>4

\* The cascade withdraws the definition's entries, all of which exist.
LEMMA DeleteImplements ==
  ASSUME MInv, NEW d \in Defs, DeleteTableDef(d)
  PROVE  [Delivery!Next]_(Delivery!vars)
<1> DEFINE S == {i \in Ids : outbox[i].def = d}
<1>t. outbox \in [Ids -> Entry]
  BY DEF MInv, IInv, TInv, TypeOK
<1>1. fired' = fired
  BY DEF DeleteTableDef, history
<1>2. \A i \in S : outbox[i].status # "none"
  BY HookOutboxAssumption DEF MInv, IInv, HInv, IdsInv, FreshInv, Absent, NoEntry
<1>3. \A i \in S : Fate[i] # "none"
  BY <1>t, <1>2, FateValues
<1>4. Fate' = [i \in Ids |-> IF i \in S THEN "withdrawn" ELSE Fate[i]]
  <2>1. \A i \in Ids : outbox'[i].status = IF i \in S THEN "deleted" ELSE outbox[i].status
    BY <1>t DEF DeleteTableDef, Entry
  <2>2. \A i \in Ids : Fate'[i] = IF i \in S THEN "withdrawn" ELSE Fate[i]
    BY <2>1, SameFate, NextFateValues
  <2> QED
    BY <2>2, FateIsFunction
<1>5. Delivery!Withdraw(S)
  BY <1>1, <1>3, <1>4 DEF Delivery!Withdraw
<1>6. S \in SUBSET Ids
  OBVIOUS
<1> QED
  BY <1>5, <1>6 DEF Delivery!Next

LEMMA NextImplements == MInv /\ [Next]_vars => [Delivery!Next]_(Delivery!vars)
<1> SUFFICES ASSUME MInv, [Next]_vars PROVE [Delivery!Next]_(Delivery!vars)
  OBVIOUS
<1>1. ASSUME UNCHANGED <<outbox, fired>> PROVE [Delivery!Next]_(Delivery!vars)
  BY <1>1, Stutters
<1>2. ASSUME NEW w \in Writes, EnqueueAfter(w) PROVE [Delivery!Next]_(Delivery!vars)
  BY <1>2, EnqueueImplements
<1>3. ASSUME NEW i \in Ids, GiveUp(i) \/ MarkDone(i) \/ MarkFailed(i) \/ HookReturns(i)
      PROVE [Delivery!Next]_(Delivery!vars)
  BY <1>3, WorkerImplements
<1>4. ASSUME NEW i \in Ids, BackoffElapses(i) \/ RetryOutbox(i)
      PROVE [Delivery!Next]_(Delivery!vars)
  BY <1>4, RowImplements
<1>5. ASSUME NEW d \in Defs, DeleteTableDef(d) PROVE [Delivery!Next]_(Delivery!vars)
  BY <1>5, DeleteImplements
<1>6. ASSUME NEW w \in Writes, Reply(w) \/ \E d \in Defs : CommitWrite(w, d)
      PROVE [Delivery!Next]_(Delivery!vars)
  BY <1>6, <1>1 DEF Reply, CommitWrite, storeVars, history
<1>7. ASSUME NEW i \in Ids, Begin(i) \/ MarkLost(i) PROVE [Delivery!Next]_(Delivery!vars)
  BY <1>7, <1>1 DEF Begin, MarkLost, storeVars
<1>8. CASE Poll \/ Crash \/ Restart \/ UNCHANGED vars
  BY <1>8, <1>1 DEF Poll, Crash, Restart, vars, storeVars, history
<1> QED
  BY <1>2, <1>3, <1>4, <1>5, <1>6, <1>7, <1>8 DEF Next, WorkerStep

\* Whatever faults, retries, deletions and rebuilt binaries there are, the
\* outbox never does what the abstract delivery forbids: a delivered entry stays
\* delivered, is delivered only after its side effect fired, and only one given
\* up is reopened.
THEOREM ImplementsDeliveryAlways == Spec => ImplementsDelivery
<1>1. Init => Delivery!Init
  BY InitImplements
<1>2. MInv /\ [Next]_vars => [Delivery!Next]_(Delivery!vars)
  BY NextImplements
<1>3. Spec => []MInv
  BY MapInvariance
<1> QED
  BY <1>1, <1>2, <1>3, PTL DEF Spec, ImplementsDelivery, Delivery!Spec
-----------------------------------------------------------------------------
(* The entries of one assignment of a definition.                          *)

\* The entries of a write stand for assignments its request is past, in their order;
\* each has one, unless there was a fault or the definition is gone.
EntriesInv ==
  /\ \A w \in Writes, i \in Ids : outbox[i].write = w => outbox[i].pos \in 1..request[w].pos - 1
  /\ \A w \in Writes : request[w].pc = "idle" => request[w].pos = 0
  /\ \A w \in Writes : request[w].pc = "replied" => request[w].pos > Len(AfterHooks[request[w].def])
  /\ \A w \in Writes, i, j \in Ids :
       outbox[i].write = w /\ outbox[j].write = w /\ outbox[j].pos < outbox[i].pos => j < i
  /\ \A w \in Writes : request[w].pc \in {"committed", "replied"} /\ request[w].def \in defs /\ faults = 0 =>
       \A k \in 1..request[w].pos - 1 : \E i \in Ids : EntriesOf(w, k) = {i}

EInv == IInv /\ EntriesInv

LEMMA EntriesInit == Init => EntriesInv
<1> SUFFICES ASSUME Init PROVE EntriesInv
  OBVIOUS
<1>1. \A i \in Ids : outbox[i].write = NoEntry
  BY DEF Init, Absent
<1>2. \A w \in Writes : request[w].pc = "idle" /\ request[w].pos = 0 /\ w # NoEntry
  BY HookOutboxAssumption DEF Init, NoEntry
<1> QED
  BY <1>1, <1>2 DEF EntriesInv

\* What a request has counted is a number; the count of a write's assignments is one.
LEMMA RequestFacts ==
  ASSUME TInv, NEW w \in Writes
  PROVE  /\ request[w] \in Request /\ request[w].pos \in Nat
         /\ request[w].pc = "committed" =>
              request[w].def \in Defs /\ request[w].pos >= 1 /\ Len(AfterHooks[request[w].def]) \in Nat
<1>1. request[w] \in Request
  BY DEF TInv, TypeOK
<1> QED
  BY <1>1, HookOutboxAssumption DEF Request, TInv, RequestInv

\* The rows keep what they are for, and requests go no further than to be answered or
\* lost.
LEMMA EntriesKept ==
  ASSUME EInv,
         \A i \in Ids : outbox'[i].write = outbox[i].write /\ outbox'[i].pos = outbox[i].pos,
         defs' \subseteq defs, faults' = 0 => faults = 0,
         \A w \in Writes :
           \/ request'[w] = request[w]
           \/ /\ request'[w].pos = request[w].pos /\ request'[w].def = request[w].def
              /\ \/ request'[w].pc = "lost"
                 \/ /\ request[w].pc = "committed" /\ request'[w].pc = "replied"
                    /\ request[w].pos > Len(AfterHooks[request[w].def])
  PROVE  EntriesInv'
<1>1. \A w \in Writes : \A k : EntriesOf(w, k)' = EntriesOf(w, k)
  BY DEF EntriesOf
<1>2. \A w \in Writes : request'[w].pos = request[w].pos /\ request'[w].def = request[w].def
  OBVIOUS
<1>3. \A w \in Writes : request'[w].pc \in {"committed", "replied"} => request[w].pc \in {"committed", "replied"}
  OBVIOUS
<1>4. \A w \in Writes : request'[w].pc \in {"committed", "replied"} /\ request'[w].def \in defs' /\ faults' = 0 =>
        \A k \in 1..request'[w].pos - 1 : \E i \in Ids : EntriesOf(w, k)' = {i}
  BY <1>1, <1>2, <1>3 DEF EInv, EntriesInv
<1>5. \A w \in Writes : /\ request'[w].pc = "idle" => request'[w].pos = 0
                        /\ request'[w].pc = "replied" => request'[w].pos > Len(AfterHooks[request'[w].def])
  BY <1>2 DEF EInv, EntriesInv
<1>6. /\ \A w \in Writes, i \in Ids : outbox'[i].write = w => outbox'[i].pos \in 1..request'[w].pos - 1
      /\ \A w \in Writes, i, j \in Ids :
           outbox'[i].write = w /\ outbox'[j].write = w /\ outbox'[j].pos < outbox'[i].pos => j < i
  BY <1>2 DEF EInv, EntriesInv
<1> QED
  BY <1>4, <1>5, <1>6 DEF EntriesInv

LEMMA CommitEntries ==
  ASSUME EInv, NEW w \in Writes, NEW d \in Defs, CommitWrite(w, d)
  PROVE  EntriesInv'
<1>1. /\ UNCHANGED <<outbox, defs, faults>> /\ request[w].pos = 0
      /\ request' = [request EXCEPT ![w] = [pc |-> "committed", def |-> d, pos |-> 1]]
  BY DEF CommitWrite, storeVars, bounds, EInv, EntriesInv
<1>2. /\ request'[w].pc = "committed" /\ request'[w].pos = 1
      /\ \A v \in Writes : v # w => request'[v] = request[v]
  BY <1>1 DEF EInv, IInv, TInv, TypeOK
<1>3. \A i \in Ids : outbox[i].write # w
  BY <1>1 DEF EInv, EntriesInv
<1>4. \A v \in Writes : \A k : EntriesOf(v, k)' = EntriesOf(v, k)
  BY <1>1 DEF EntriesOf
<1>5. 1..0 = {} /\ 1..1 - 1 = {}
  OBVIOUS
<1>6. \A v \in Writes : request'[v].pc \in {"committed", "replied"} /\ request'[v].def \in defs' /\ faults' = 0 =>
        \A k \in 1..request'[v].pos - 1 : \E i \in Ids : EntriesOf(v, k)' = {i}
  BY <1>1, <1>2, <1>4, <1>5 DEF EInv, EntriesInv
<1> QED
  BY <1>1, <1>2, <1>3, <1>6 DEF EInv, EntriesInv

LEMMA EnqueueEntries ==
  ASSUME EInv, NEW w \in Writes, EnqueueAfter(w)
  PROVE  EntriesInv'
<1> DEFINE n == request[w].pos
           row == [status |-> "pending", attempts |-> 0, due |-> TRUE, def |-> request[w].def,
                   hook |-> AfterHooks[request[w].def][n], write |-> w, pos |-> n]
<1>0. TInv /\ FreshInv /\ EntriesInv
  BY DEF EInv, IInv, HInv
<1>1. /\ n \in Nat /\ n >= 1 /\ request[w].pc = "committed" /\ faults \in Nat
      /\ request' = [request EXCEPT ![w].pos = n + 1] /\ defs' = defs
  BY <1>0, RequestFacts DEF EnqueueAfter, TInv, TypeOK
<1>2. /\ request'[w].pos = n + 1 /\ request'[w].pc = "committed" /\ request'[w].def = request[w].def
      /\ \A v \in Writes : v # w => request'[v] = request[v]
  BY <1>0, <1>1 DEF TInv, TypeOK
<1>3. CASE UNCHANGED outbox /\ (request[w].def \notin defs \/ faults' # 0) /\ (faults' = 0 => faults = 0)
  <2>1. \A v \in Writes : \A k : EntriesOf(v, k)' = EntriesOf(v, k)
    BY <1>3 DEF EntriesOf
  <2>2. \A v \in Writes : request'[v].pc \in {"committed", "replied"} /\ request'[v].def \in defs' /\ faults' = 0 =>
          \A k \in 1..request'[v].pos - 1 : \E i \in Ids : EntriesOf(v, k)' = {i}
    BY <1>0, <1>1, <1>2, <1>3, <2>1 DEF EntriesInv
  <2>3. \A v \in Writes, i \in Ids : outbox'[i].write = v => outbox'[i].pos \in 1..request'[v].pos - 1
    <3> SUFFICES ASSUME NEW v \in Writes, NEW i \in Ids, outbox[i].write = v
                 PROVE  outbox[i].pos \in 1..request'[v].pos - 1
      BY <1>3
    <3>1. outbox[i].pos \in 1..request[v].pos - 1
      BY <1>0 DEF EntriesInv
    <3> QED
      BY <1>1, <1>2, <3>1
  <2> QED
    BY <1>0, <1>2, <1>3, <2>2, <2>3 DEF EntriesInv
<1>4. CASE nextId <= MaxEntries /\ outbox' = [outbox EXCEPT ![nextId] = row] /\ UNCHANGED faults
  <2> DEFINE new == nextId
  <2>1. new \in Ids /\ outbox \in [Ids -> Entry] /\ \A i \in Ids : i \in Nat
    BY <1>0, <1>4, HookOutboxAssumption DEF TInv, TypeOK, Ids
  <2>2. /\ outbox'[new].write = w /\ outbox'[new].pos = n
        /\ \A i \in Ids \ {new} : outbox'[i] = outbox[i]
    BY <1>4, <2>1
  <2>3. \A i \in Ids : i >= new => outbox[i].write \notin Writes
    BY <1>0, HookOutboxAssumption DEF FreshInv, Absent, NoEntry
  <2>4. \A i \in Ids, v \in Writes : outbox[i].write = v => outbox[i].pos \in 1..request[v].pos - 1 /\ i < new
    BY <1>0, <2>1, <2>3 DEF EntriesInv
  <2>5. \A v \in Writes, i \in Ids : outbox'[i].write = v => outbox'[i].pos \in 1..request'[v].pos - 1
    <3> SUFFICES ASSUME NEW v \in Writes, NEW i \in Ids, outbox'[i].write = v
                 PROVE  outbox'[i].pos \in 1..request'[v].pos - 1
      OBVIOUS
    <3>1. CASE i = new
      BY <1>1, <1>2, <2>2, <3>1
    <3>2. CASE i # new
      <4>1. outbox[i].pos \in 1..request[v].pos - 1
        BY <2>2, <2>4, <3>2
      <4> QED
        BY <1>1, <1>2, <2>2, <3>2, <4>1
    <3> QED
      BY <3>1, <3>2
  <2>6. \A v \in Writes, i, j \in Ids :
          outbox'[i].write = v /\ outbox'[j].write = v /\ outbox'[j].pos < outbox'[i].pos => j < i
    <3> SUFFICES ASSUME NEW v \in Writes, NEW i \in Ids, NEW j \in Ids, outbox'[i].write = v,
                        outbox'[j].write = v, outbox'[j].pos < outbox'[i].pos
                 PROVE  j < i
      OBVIOUS
    <3>1. CASE i # new /\ j # new
      BY <1>0, <2>2, <3>1 DEF EntriesInv
    <3>2. CASE i = new /\ j # new
      BY <2>2, <2>4, <3>2
    <3>3. CASE i # new /\ j = new
      <4>1. v = w /\ outbox'[j].pos = n /\ outbox'[i].pos \in 1..n - 1
        BY <2>2, <2>4, <3>3
      <4> QED
        BY <1>1, <4>1
    <3>4. CASE i = new /\ j = new
      BY <1>1, <2>2, <3>4
    <3> QED
      BY <3>1, <3>2, <3>3, <3>4
  <2>7. \A v \in Writes : \A k : EntriesOf(v, k)' = IF v = w /\ k = n THEN {new} ELSE EntriesOf(v, k)
    <3> SUFFICES ASSUME NEW v \in Writes, NEW k
                 PROVE  EntriesOf(v, k)' = IF v = w /\ k = n THEN {new} ELSE EntriesOf(v, k)
      OBVIOUS
    <3>1. new \notin EntriesOf(v, k)
      BY <2>1, <2>3 DEF EntriesOf
    <3>2. \A i \in Ids \ {new} : ~(outbox[i].write = w /\ outbox[i].pos = n)
      BY <1>1, <2>4
    <3>3. EntriesOf(v, k)' = {i \in Ids : outbox'[i].write = v /\ outbox'[i].pos = k}
      BY DEF EntriesOf
    <3> QED
      BY <2>1, <2>2, <3>1, <3>2, <3>3 DEF EntriesOf
  <2>8. ASSUME NEW v \in Writes, request'[v].pc \in {"committed", "replied"}, request'[v].def \in defs', faults' = 0,
               NEW k \in 1..request'[v].pos - 1
        PROVE  \E i \in Ids : EntriesOf(v, k)' = {i}
    <3>1. CASE v = w /\ k = n
      BY <2>1, <2>7, <3>1
    <3>2. CASE ~(v = w /\ k = n)
      <4>1. k \in 1..request[v].pos - 1
        BY <1>1, <1>2, <2>8, <3>2
      <4>2. request[v].pc \in {"committed", "replied"} /\ request[v].def \in defs /\ faults = 0
        BY <1>1, <1>2, <1>4, <2>8
      <4>3. \E i \in Ids : EntriesOf(v, k) = {i}
        BY <1>0, <4>1, <4>2 DEF EntriesInv
      <4> QED
        BY <2>7, <3>2, <4>3
    <3> QED
      BY <3>1, <3>2
  <2> QED
    BY <1>0, <1>2, <2>5, <2>6, <2>8 DEF EntriesInv
<1> QED
  BY <1>0, <1>1, <1>3, <1>4 DEF EnqueueAfter, Fault

\* Nothing but an INSERT says which write and assignment a row is for.
LEMMA RowsKeepTheirWrite ==
  ASSUME TInv, NEW i \in Ids,
         \/ GiveUp(i) \/ MarkDone(i) \/ MarkFailed(i) \/ BackoffElapses(i) \/ RetryOutbox(i)
         \/ \E d \in Defs : DeleteTableDef(d)
  PROVE  \A k \in Ids : outbox'[k].write = outbox[k].write /\ outbox'[k].pos = outbox[k].pos
<1>1. outbox \in [Ids -> Entry] /\ \A k \in Ids : outbox[k] \in Entry
  BY DEF TInv, TypeOK
<1>2. ASSUME NEW s, NEW n, Mark(i, s, n)
      PROVE  \A k \in Ids : outbox'[k].write = outbox[k].write /\ outbox'[k].pos = outbox[k].pos
  BY <1>1, <1>2 DEF Mark, Entry
<1>3. CASE GiveUp(i) \/ MarkDone(i) \/ MarkFailed(i)
  BY <1>2, <1>3 DEF GiveUp, MarkDone, MarkFailed
<1>4. CASE BackoffElapses(i) \/ RetryOutbox(i)
  BY <1>1, <1>4 DEF BackoffElapses, RetryOutbox, Entry
<1>5. ASSUME NEW d \in Defs, DeleteTableDef(d)
      PROVE  \A k \in Ids : outbox'[k].write = outbox[k].write /\ outbox'[k].pos = outbox[k].pos
  BY <1>1, <1>5 DEF DeleteTableDef, Entry
<1> QED
  BY <1>3, <1>4, <1>5

LEMMA NextEntries == EInv /\ [Next]_vars => EntriesInv'
<1> SUFFICES ASSUME EInv, [Next]_vars PROVE EntriesInv'
  OBVIOUS
<1>0. TInv /\ faults \in Nat /\ request \in [Writes -> Request]
  BY DEF EInv, IInv, TInv, TypeOK
<1>1. ASSUME NEW w \in Writes, NEW d \in Defs, CommitWrite(w, d) PROVE EntriesInv'
  BY <1>1, CommitEntries
<1>2. ASSUME NEW w \in Writes, EnqueueAfter(w) PROVE EntriesInv'
  BY <1>2, EnqueueEntries
<1>3. ASSUME NEW w \in Writes, Reply(w) PROVE EntriesInv'
  <2>1. /\ UNCHANGED <<outbox, defs, faults>> /\ request[w].pc = "committed"
        /\ request[w].pos > Len(AfterHooks[request[w].def])
        /\ request' = [request EXCEPT ![w].pc = "replied"]
    BY <1>3 DEF Reply, storeVars, bounds
  <2> QED
    BY <1>0, <2>1, EntriesKept DEF Request
<1>4. CASE Crash
  <2>1. UNCHANGED <<outbox, defs>> /\ faults' = faults + 1
        /\ request' = [w \in Writes |-> IF request[w].pc = "committed"
                                          THEN [request[w] EXCEPT !.pc = "lost"] ELSE request[w]]
    BY <1>4 DEF Crash, storeVars, Fault
  <2>2. \A w \in Writes : request'[w] = request[w] \/
          (request'[w].pos = request[w].pos /\ request'[w].def = request[w].def /\ request'[w].pc = "lost")
    BY <1>0, <2>1 DEF Request
  <2> QED
    BY <1>0, <2>1, <2>2, EntriesKept
<1>5. ASSUME NEW i \in Ids,
             \/ GiveUp(i) \/ MarkDone(i) \/ MarkFailed(i) \/ BackoffElapses(i) \/ RetryOutbox(i)
             \/ \E d \in Defs : DeleteTableDef(d)
      PROVE  EntriesInv'
  <2>1. \A k \in Ids : outbox'[k].write = outbox[k].write /\ outbox'[k].pos = outbox[k].pos
    BY <1>0, <1>5, RowsKeepTheirWrite
  <2>2. request' = request /\ defs' \subseteq defs /\ (faults' = 0 => faults = 0)
    BY <1>0, <1>5 DEF GiveUp, MarkDone, MarkFailed, BackoffElapses, RetryOutbox, DeleteTableDef, bounds, Fault
  <2> QED
    BY <2>1, <2>2, EntriesKept
<1>6. ASSUME NEW d \in Defs, DeleteTableDef(d), Ids = {} PROVE EntriesInv'
  <2>1. UNCHANGED <<request, faults>> /\ defs' \subseteq defs
    BY <1>6 DEF DeleteTableDef, bounds
  <2> QED
    BY <1>6, <2>1, EntriesKept
<1>7. ASSUME \/ Poll \/ Restart \/ UNCHANGED vars
             \/ \E i \in Ids : Begin(i) \/ HookReturns(i) \/ MarkLost(i)
      PROVE  EntriesInv'
  <2>1. CASE Poll \/ Restart \/ UNCHANGED vars \/ \E i \in Ids : Begin(i) \/ HookReturns(i)
    <3>1. UNCHANGED <<outbox, request, defs, faults>>
      BY <2>1 DEF Poll, Restart, vars, Begin, HookReturns, storeVars, bounds
    <3> QED
      BY <3>1, EntriesKept
  <2>2. ASSUME NEW i \in Ids, MarkLost(i) PROVE EntriesInv'
    <3>1. UNCHANGED <<outbox, request, defs>> /\ faults' = faults + 1
      BY <2>2 DEF MarkLost, storeVars, Fault
    <3> QED
      BY <1>0, <3>1, EntriesKept
  <2> QED
    BY <1>7, <2>1, <2>2
<1> QED
  BY <1>1, <1>2, <1>3, <1>4, <1>5, <1>6, <1>7 DEF Next, WorkerStep

\* A write answered with success has one entry for each after-assignment of its
\* definition, in their order, for any number of writes, assignments and entries: unless
\* there was a fault or the definition is gone.
THEOREM OneEntryPerAssignmentAlways == Spec => []OneEntryPerAssignment
<1>1. Init => EInv
  BY InitTyped, InitHistory, EntriesInit DEF EInv, IInv
<1>2. EInv /\ [Next]_vars => EInv'
  BY NextInv, NextEntries DEF EInv
<1>3. EInv => OneEntryPerAssignment
  <2> SUFFICES ASSUME EInv, NEW w \in Writes, request[w].pc = "replied", request[w].def \in defs, faults = 0,
                      NEW k \in DOMAIN AfterHooks[request[w].def]
               PROVE  /\ Cardinality(EntriesOf(w, k)) = 1
                      /\ \A m \in 1..k - 1 : \A i \in EntriesOf(w, k), j \in EntriesOf(w, m) : j < i
    BY DEF OneEntryPerAssignment
  <2>0. TInv /\ EntriesInv
    BY DEF EInv, IInv
  <2>1. request[w].pos \in Nat /\ Len(AfterHooks[request[w].def]) \in Nat
        /\ DOMAIN AfterHooks[request[w].def] = 1..Len(AfterHooks[request[w].def])
    BY <2>0, RequestFacts, HookOutboxAssumption DEF TInv, TypeOK
  <2>2. k \in 1..request[w].pos - 1
    BY <2>0, <2>1 DEF EntriesInv
  <2>3. PICK i \in Ids : EntriesOf(w, k) = {i}
    BY <2>0, <2>2 DEF EntriesInv
  <2>4. Cardinality(EntriesOf(w, k)) = 1
    BY <2>3, FS_Singleton
  <2>5. \A m \in 1..k - 1 : \A n \in EntriesOf(w, k), j \in EntriesOf(w, m) : j < n
    <3>1. k \in Nat
      BY <2>1
    <3> QED
      BY <2>0, <3>1 DEF EntriesInv, EntriesOf
  <2> QED
    BY <2>4, <2>5
<1> QED
  BY <1>1, <1>2, <1>3, PTL DEF Spec
-----------------------------------------------------------------------------
(* How often an entry may fail.                                            *)

\* What the failures of an entry may come to: MaxFailures for each time it is to be
\* executed, which a retry by hand asks for again, and those of which a fault took the mark.
Budget == MaxFailures * (1 + retries) + faults

\* Entry i has failed and the failure is not yet marked.
Unmarked(i) == worker.pc = "failed" /\ worker.cur = i

\* The attempts of a row account for its failures; a row of the batch has no more of
\* them than its snapshot says, so that the mark raises them.  An entry whose definition
\* went away in the middle of a batch may be failing once more.
Accounted(i) ==
  /\ outbox[i].attempts <= MaxFailures
  /\ outbox[i].status = "pending" => outbox[i].attempts < MaxFailures
  /\ i \in worker.batch => worker.snap[i] < MaxFailures
  /\ i \in worker.batch /\ outbox[i].status = "pending" => outbox[i].attempts <= worker.snap[i]
  /\ outbox[i].status # "deleted" =>
       failures[i] + MaxFailures <= Budget + outbox[i].attempts + (IF Unmarked(i) THEN 1 ELSE 0)
  /\ outbox[i].status = "deleted" =>
       failures[i] + (IF i \in worker.batch /\ ~Unmarked(i) THEN 1 ELSE 0) <= Budget

SpendInv == \A i \in Ids : Accounted(i)

FailuresWithinBudget == \A i \in Ids : failures[i] <= Budget

LEMMA BudgetFacts ==
  ASSUME TInv
  PROVE  /\ Budget \in Nat /\ MaxFailures \in Nat \ {0}
         /\ retries' = retries /\ faults' = faults => Budget' = Budget
         /\ retries' = retries /\ faults' = faults + 1 => Budget' = Budget + 1
         /\ retries' = retries + 1 /\ faults' = faults => Budget' = Budget + MaxFailures
<1>1. retries \in Nat /\ faults \in Nat /\ MaxFailures \in Nat \ {0}
  BY HookOutboxAssumption DEF TInv, TypeOK
<1>2. MaxFailures * (1 + (retries + 1)) = MaxFailures * (1 + retries) + MaxFailures
  BY <1>1
<1>3. MaxFailures * (1 + retries) \in Nat
  BY <1>1
<1> QED
  BY <1>1, <1>2, <1>3 DEF Budget

\* What a row's account depends on.
LEMMA AccountKept ==
  ASSUME TInv, NEW i \in Ids, Accounted(i), outbox'[i] = outbox[i],
         failures' = failures, retries' = retries, faults' \in {faults, faults + 1},
         i \in worker'.batch => i \in worker.batch /\ worker'.snap[i] = worker.snap[i],
         Unmarked(i)' <=> Unmarked(i)
  PROVE  Accounted(i)'
<1>1. /\ Budget \in Nat /\ Budget' \in {Budget, Budget + 1} /\ failures[i] \in Nat
      /\ outbox[i].attempts \in Nat /\ MaxFailures \in Nat
  BY BudgetFacts, RowFacts
<1> QED
  BY <1>1 DEF Accounted

LEMMA SpendInit == Init => SpendInv
<1> SUFFICES ASSUME Init PROVE SpendInv
  OBVIOUS
<1>1. TInv
  BY InitTyped
<1>2. retries = 0 /\ faults = 0 /\ MaxFailures \in Nat \ {0}
  BY BudgetFacts, <1>1 DEF Init
<1>3. Budget = MaxFailures
  BY <1>2 DEF Budget
<1> QED
  BY <1>2, <1>3 DEF Init, SpendInv, Accounted, IdleWorker, Absent, Unmarked

LEMMA EnqueueSpends ==
  ASSUME IInv, SpendInv, NEW w \in Writes, EnqueueAfter(w)
  PROVE  SpendInv'
<1>1. UNCHANGED <<worker, failures, retries>> /\ faults' \in {faults, faults + 1}
  BY DEF EnqueueAfter, history, Fault
<1>2. CASE outbox' = outbox
  BY <1>1, <1>2, AccountKept DEF IInv, SpendInv, Unmarked
<1>3. ASSUME NEW e \in Entry, NEW n \in Ids, n = nextId, outbox' = [outbox EXCEPT ![n] = e],
             e.status = "pending", e.attempts = 0
      PROVE  SpendInv'
  <2>1. /\ outbox'[n] = e
        /\ \A k \in Ids : k # n => outbox'[k] = outbox[k]
    BY <1>3 DEF IInv, TInv, TypeOK
  <2>2. outbox[n].status = "none" /\ outbox[n].attempts = 0
    BY <1>3, RowFacts DEF IInv, HInv, FreshInv, Absent
  <2>3. n \notin worker.batch /\ ~Unmarked(n)
    BY <2>2 DEF IInv, TInv, BatchInv, Busy, Unmarked
  <2>4. /\ Budget \in Nat /\ Budget' \in {Budget, Budget + 1} /\ failures[n] \in Nat
        /\ MaxFailures \in Nat \ {0}
    BY <1>1, BudgetFacts, RowFacts DEF IInv
  <2>5. failures[n] + MaxFailures <= Budget
    BY <2>2, <2>3, <2>4 DEF SpendInv, Accounted
  <2>6. Accounted(n)'
    BY <1>1, <1>3, <2>1, <2>3, <2>4, <2>5 DEF Accounted, Unmarked
  <2>7. ASSUME NEW k \in Ids, k # n PROVE Accounted(k)'
    BY <1>1, <2>1, <2>7, AccountKept DEF IInv, SpendInv, Unmarked
  <2> QED
    BY <2>6, <2>7 DEF SpendInv
<1> QED
  BY <1>2, <1>3, EnqueueFacts DEF IInv

LEMMA PollSpends ==
  ASSUME IInv, SpendInv, Poll
  PROVE  SpendInv'
<1>1. /\ UNCHANGED <<outbox, failures, retries, faults>>
      /\ worker'.pc = "picking" /\ worker.pc = "idle" /\ worker'.batch \subseteq Due
      /\ \A i \in worker'.batch : worker'.snap[i] = outbox[i].attempts
  BY PollFacts DEF IInv, Poll, storeVars, history, bounds
<1>2. SUFFICES ASSUME NEW i \in Ids PROVE Accounted(i)'
  BY DEF SpendInv
<1>3. Budget' = Budget /\ ~Unmarked(i) /\ ~Unmarked(i)'
  BY <1>1, BudgetFacts DEF IInv, Unmarked
<1>4. outbox[i].attempts \in Nat /\ worker.batch = {}
  BY <1>1, RowFacts DEF IInv, TInv, BatchInv
<1>5. i \in worker'.batch => outbox[i].status = "pending"
  BY <1>1 DEF Due
<1> QED
  BY <1>1, <1>3, <1>4, <1>5 DEF SpendInv, Accounted

LEMMA BeginSpends ==
  ASSUME IInv, SpendInv, NEW i \in Ids, Begin(i)
  PROVE  SpendInv'
<1>1. /\ UNCHANGED <<outbox, failures, retries, faults>>
      /\ worker.pc = "picking" /\ worker' = [worker EXCEPT !.pc = "running", !.cur = i]
  BY DEF Begin, storeVars, bounds
<1>2. worker'.pc = "running" /\ worker'.batch = worker.batch /\ worker'.snap = worker.snap
  BY <1>1 DEF IInv, TInv, TypeOK, Worker
<1> QED
  BY <1>1, <1>2, AccountKept DEF IInv, SpendInv, Unmarked

LEMMA ReturnSpends ==
  ASSUME IInv, SpendInv, NEW i \in Ids, HookReturns(i)
  PROVE  SpendInv'
<1>1. /\ UNCHANGED <<outbox, retries, faults>>
      /\ worker.pc = "running" /\ worker.cur = i /\ i \in worker.batch
  BY DEF HookReturns, storeVars, bounds, IInv, TInv, BatchInv, Busy
<1>2. /\ worker'.cur = i /\ worker'.batch = worker.batch /\ worker'.snap = worker.snap
      /\ \/ worker'.pc = "succeeded" /\ failures' = failures
         \/ worker'.pc = "failed" /\ failures' = [failures EXCEPT ![i] = @ + 1]
  BY <1>1 DEF HookReturns, IInv, TInv, TypeOK, Worker
<1>3. /\ \A k \in Ids : k # i => failures'[k] = failures[k]
      /\ worker'.pc = "failed" => failures'[i] = failures[i] + 1
      /\ worker'.pc # "failed" => failures'[i] = failures[i]
  BY <1>2 DEF IInv, TInv, TypeOK
<1>4. SUFFICES ASSUME NEW k \in Ids PROVE Accounted(k)'
  BY DEF SpendInv
<1>5. /\ Budget' = Budget /\ Budget \in Nat /\ MaxFailures \in Nat /\ failures[k] \in Nat
      /\ outbox[k].attempts \in Nat
  BY <1>1, BudgetFacts, RowFacts DEF IInv
<1>6. ~Unmarked(k) /\ (Unmarked(k)' <=> k = i /\ worker'.pc = "failed")
  BY <1>1, <1>2 DEF Unmarked
<1>7. Accounted(k)
  BY DEF SpendInv
<1> QED
  BY <1>1, <1>2, <1>3, <1>5, <1>6, <1>7 DEF Accounted

\* The worker marks entry i, raising its attempts if it had failed, and goes on.
LEMMA MarksSpend ==
  ASSUME IInv, SpendInv, NEW i \in Ids, GiveUp(i) \/ MarkDone(i) \/ MarkFailed(i)
  PROVE  SpendInv'
<1>1. /\ failures' = failures /\ retries' = retries /\ faults' \in {faults, faults + 1}
      /\ PassOn(i) /\ i \in worker.batch /\ (worker.pc # "picking" => worker.cur = i)
  BY DEF GiveUp, MarkDone, MarkFailed, IsHead, Fault, history, bounds, IInv, TInv, BatchInv, Busy
<1>2. outbox[i].status \in {"pending", "deleted"} /\ Accounted(i)
  BY <1>1 DEF IInv, TInv, BatchInv, SpendInv
<1>3. PICK s \in {"pending", "done", "dead"}, n \in Nat :
        /\ Mark(i, s, n) /\ n <= MaxFailures /\ (s = "pending" => n < MaxFailures)
        /\ outbox[i].status = "pending" =>
             n >= outbox[i].attempts + (IF Unmarked(i) THEN 1 ELSE 0)
  <2>1. /\ outbox[i].attempts \in Nat /\ MaxFailures \in Nat \ {0} /\ worker.snap[i] \in Nat
        /\ outbox[i].attempts <= MaxFailures /\ worker.snap[i] < MaxFailures
        /\ outbox[i].status = "pending" => outbox[i].attempts <= worker.snap[i]
    BY <1>1, <1>2, RowFacts, BudgetFacts DEF IInv, Accounted
  <2>2. CASE GiveUp(i)
    <3>1. Mark(i, "dead", MaxFailures) /\ ~Unmarked(i)
      BY <2>2 DEF GiveUp, Unmarked
    <3> QED
      BY <2>1, <3>1
  <2>3. CASE MarkDone(i)
    <3>1. Mark(i, "done", outbox[i].attempts) /\ ~Unmarked(i)
      BY <2>3 DEF MarkDone, Unmarked
    <3> QED
      BY <2>1, <3>1
  <2>4. CASE MarkFailed(i)
    <3> DEFINE n == worker.snap[i] + 1
    <3>1. Mark(i, IF n >= MaxFailures THEN "dead" ELSE "pending", n)
      BY <2>4 DEF MarkFailed
    <3>2. n \in Nat /\ n <= MaxFailures
          /\ (outbox[i].status = "pending" => n >= outbox[i].attempts + 1)
      BY <2>1
    <3>3. n >= MaxFailures \/ n < MaxFailures
      BY <2>1
    <3> QED
      BY <2>1, <3>1, <3>2, <3>3
  <2> QED
    BY <2>2, <2>3, <2>4
<1>4. /\ \A k \in Ids : k # i => outbox'[k] = outbox[k]
      /\ outbox[i].status = "deleted" => outbox'[i] = outbox[i]
      /\ outbox[i].status # "deleted" => outbox'[i].status = s /\ outbox'[i].attempts = n
  BY <1>3, MarkFacts DEF IInv, TInv, TypeOK
<1>5. /\ worker'.batch = worker.batch \ {i} /\ worker'.pc \in {"idle", "picking"}
      /\ \A k \in Ids : k # i => worker'.snap[k] = worker.snap[k]
  BY <1>1, PassOnFacts DEF IInv, TInv, TypeOK
<1>6. Accounted(i)'
  <2>1. /\ Budget \in Nat /\ Budget' \in {Budget, Budget + 1} /\ failures[i] \in Nat
        /\ outbox[i].attempts \in Nat /\ MaxFailures \in Nat
    BY <1>1, BudgetFacts, RowFacts DEF IInv
  <2>2. ~Unmarked(i)' /\ i \notin worker'.batch
    BY <1>5 DEF Unmarked
  <2>3. CASE outbox[i].status = "deleted"
    BY <1>1, <1>2, <1>4, <2>1, <2>2, <2>3 DEF Accounted
  <2>4. CASE outbox[i].status = "pending"
    <3>1. failures[i] + MaxFailures <= Budget' + n
      BY <1>2, <1>3, <2>1, <2>4 DEF Accounted
    <3> QED
      BY <1>1, <1>3, <1>4, <2>1, <2>2, <2>4, <3>1 DEF Accounted
  <2> QED
    BY <1>2, <2>3, <2>4
<1>7. ASSUME NEW k \in Ids, k # i PROVE Accounted(k)'
  <2>1. ~Unmarked(k) /\ ~Unmarked(k)'
    <3>1. worker.pc # "picking" => worker.cur = i
      BY <1>1
    <3> QED
      BY <1>5, <1>7, <3>1 DEF Unmarked
  <2> QED
    BY <1>1, <1>4, <1>5, <1>7, <2>1, AccountKept DEF IInv, SpendInv
<1> QED
  BY <1>6, <1>7 DEF SpendInv

\* A mark that is lost leaves a failure without an attempt, and counts as a fault.
LEMMA LostSpends ==
  ASSUME IInv, SpendInv, NEW i \in Ids, MarkLost(i) \/ Crash
  PROVE  SpendInv'
<1>1. /\ UNCHANGED <<outbox, failures, retries>> /\ faults' = faults + 1
      /\ worker'.batch \subseteq worker.batch /\ worker'.pc \in {"idle", "picking"}
      /\ \A k \in worker'.batch : worker'.snap[k] = worker.snap[k] /\ ~Unmarked(k)
  <2>1. CASE MarkLost(i)
    <3>1. /\ UNCHANGED <<outbox, failures, retries>> /\ faults' = faults + 1 /\ PassOn(i)
          /\ worker.pc = "failed" => worker.cur = i
      BY <2>1 DEF MarkLost, Fault, storeVars
    <3>2. /\ worker'.batch = worker.batch \ {i} /\ worker'.pc \in {"idle", "picking"}
          /\ \A k \in Ids : k # i => worker'.snap[k] = worker.snap[k]
          /\ worker.batch \subseteq Ids
      BY <3>1, PassOnFacts, RowFacts DEF IInv, TInv, TypeOK
    <3> QED
      BY <3>1, <3>2 DEF Unmarked
  <2>2. CASE Crash
    BY <2>2 DEF Crash, Fault, IdleWorker, storeVars, history
  <2> QED
    BY <2>1, <2>2
<1>2. SUFFICES ASSUME NEW k \in Ids PROVE Accounted(k)'
  BY DEF SpendInv
<1>3. /\ Budget' = Budget + 1 /\ Budget \in Nat /\ MaxFailures \in Nat /\ failures[k] \in Nat
      /\ outbox[k].attempts \in Nat /\ ~Unmarked(k)' /\ Accounted(k)
  BY <1>1, BudgetFacts, RowFacts DEF IInv, Unmarked, SpendInv
<1> QED
  BY <1>1, <1>3 DEF Accounted

\* A retry by hand takes the attempts back and asks for as many again.
LEMMA RetrySpends ==
  ASSUME IInv, SpendInv, NEW i \in Ids, BackoffElapses(i) \/ RetryOutbox(i)
  PROVE  SpendInv'
<1>1. outbox[i] \in Entry /\ outbox \in [Ids -> Entry] /\ UNCHANGED <<worker, failures, faults>>
  BY DEF BackoffElapses, RetryOutbox, history, bounds, IInv, TInv, TypeOK
<1>2. CASE BackoffElapses(i)
  <2>1. /\ \A k \in Ids : outbox'[k].status = outbox[k].status
                          /\ outbox'[k].attempts = outbox[k].attempts
        /\ retries' = retries
    BY <1>1, <1>2 DEF BackoffElapses, bounds, Entry
  <2>2. Budget' = Budget
    BY <1>1, <2>1, BudgetFacts DEF IInv
  <2> QED
    BY <1>1, <2>1, <2>2 DEF SpendInv, Accounted, Unmarked
<1>3. CASE RetryOutbox(i)
  <2>1. /\ outbox'[i].status = "pending" /\ outbox'[i].attempts = 0
        /\ outbox[i].status \in {"pending", "dead"}
        /\ \A k \in Ids : k # i => outbox'[k] = outbox[k]
        /\ retries' = retries + 1
    BY <1>1, <1>3 DEF RetryOutbox, Entry
  <2>2. SUFFICES ASSUME NEW k \in Ids PROVE Accounted(k)'
    BY DEF SpendInv
  <2>3. /\ Budget' = Budget + MaxFailures /\ Budget \in Nat /\ MaxFailures \in Nat \ {0}
        /\ failures[k] \in Nat /\ outbox[k].attempts \in Nat /\ worker.snap[k] \in Nat
    BY <1>1, <2>1, BudgetFacts, RowFacts DEF IInv
  <2>4. (Unmarked(k)' <=> Unmarked(k)) /\ Accounted(k)
    BY <1>1 DEF Unmarked, SpendInv
  <2>5. CASE k = i
    BY <1>1, <2>1, <2>3, <2>4, <2>5 DEF Accounted
  <2>6. CASE k # i
    BY <1>1, <2>1, <2>3, <2>4, <2>6 DEF Accounted
  <2> QED
    BY <2>5, <2>6
<1> QED
  BY <1>2, <1>3

LEMMA DeleteSpends ==
  ASSUME IInv, SpendInv, NEW d \in Defs, DeleteTableDef(d)
  PROVE  SpendInv'
<1>1. /\ UNCHANGED <<worker, failures, retries, faults>>
      /\ \A k \in Ids : outbox'[k] = IF outbox[k].def = d
                           THEN [outbox[k] EXCEPT !.status = "deleted"] ELSE outbox[k]
  BY DEF DeleteTableDef, history, bounds
<1>2. SUFFICES ASSUME NEW k \in Ids PROVE Accounted(k)'
  BY DEF SpendInv
<1>3. CASE outbox[k].def # d
  <2>1. outbox'[k] = outbox[k]
    BY <1>1, <1>3
  <2> QED
    BY <1>1, <2>1, AccountKept DEF IInv, SpendInv, Unmarked
<1>4. CASE outbox[k].def = d
  <2>1. outbox'[k].status = "deleted" /\ outbox'[k].attempts = outbox[k].attempts
    BY <1>1, <1>4, RowFacts DEF IInv, Entry
  <2>2. /\ Budget' = Budget /\ Budget \in Nat /\ MaxFailures \in Nat /\ failures[k] \in Nat
        /\ outbox[k].attempts \in Nat
    BY <1>1, BudgetFacts, RowFacts DEF IInv
  <2>3. k \in worker.batch => outbox[k].status \in {"pending", "deleted"}
    BY DEF IInv, TInv, BatchInv
  <2>4. Unmarked(k) => k \in worker.batch
    BY DEF IInv, TInv, BatchInv, Busy, Unmarked
  <2>5. (Unmarked(k)' <=> Unmarked(k)) /\ Accounted(k)
    BY <1>1 DEF Unmarked, SpendInv
  <2> QED
    BY <1>1, <2>1, <2>2, <2>3, <2>4, <2>5 DEF Accounted
<1> QED
  BY <1>3, <1>4

LEMMA SpendStep == IInv /\ SpendInv /\ [Next]_vars => SpendInv'
<1> SUFFICES ASSUME IInv, SpendInv, [Next]_vars PROVE SpendInv'
  OBVIOUS
<1>1. ASSUME \/ UNCHANGED vars \/ (\E w \in Writes, d \in Defs : CommitWrite(w, d))
             \/ (\E w \in Writes : Reply(w)) \/ Restart
      PROVE  SpendInv'
  <2>1. UNCHANGED <<outbox, worker, failures, retries, faults>>
    BY <1>1 DEF CommitWrite, Reply, Restart, vars, storeVars, history, bounds
  <2> QED
    BY <2>1, AccountKept DEF IInv, SpendInv, Unmarked
<1>2. ASSUME NEW w \in Writes, EnqueueAfter(w) PROVE SpendInv'
  BY <1>2, EnqueueSpends
<1>3. CASE Poll
  BY <1>3, PollSpends
<1>4. ASSUME NEW i \in Ids, Begin(i) PROVE SpendInv'
  BY <1>4, BeginSpends
<1>5. ASSUME NEW i \in Ids, HookReturns(i) PROVE SpendInv'
  BY <1>5, ReturnSpends
<1>6. ASSUME NEW i \in Ids, GiveUp(i) \/ MarkDone(i) \/ MarkFailed(i) PROVE SpendInv'
  BY <1>6, MarksSpend
<1>7. ASSUME NEW i \in Ids, MarkLost(i) PROVE SpendInv'
  BY <1>7, LostSpends
<1>8. ASSUME NEW i \in Ids, BackoffElapses(i) \/ RetryOutbox(i) PROVE SpendInv'
  BY <1>8, RetrySpends
<1>9. ASSUME NEW d \in Defs, DeleteTableDef(d) PROVE SpendInv'
  BY <1>9, DeleteSpends
<1>10. CASE Crash
  <2>1. CASE Ids = {}
    BY <2>1 DEF SpendInv
  <2>2. CASE Ids # {}
    BY <1>10, <2>2, LostSpends
  <2> QED
    BY <2>1, <2>2
<1> QED
  BY <1>1, <1>2, <1>3, <1>4, <1>5, <1>6, <1>7, <1>8, <1>9, <1>10 DEF Next, WorkerStep

\* A hook is not called for ever: an entry fails at most MaxFailures times, and as many
\* again for each retry by hand, plus once for every crash and lost mark, although stale
\* snapshots overwrite what a retry wrote and deleted definitions are not looked up again
\* in the middle of a batch (worker.go, outbox.go).  DeadOnlyWhenSpent is the other
\* direction: no entry goes dead before.
THEOREM FailuresStayWithinBudget == Spec => []FailuresWithinBudget
<1>1. Spec => []SpendInv
  BY SpendInit, SpendStep, Invariance, PTL DEF Spec
<1>2. IInv /\ SpendInv => FailuresWithinBudget
  <2> SUFFICES ASSUME IInv, SpendInv, NEW i \in Ids PROVE failures[i] <= Budget
    BY DEF FailuresWithinBudget
  <2>1. /\ Budget \in Nat /\ MaxFailures \in Nat /\ failures[i] \in Nat
        /\ outbox[i].attempts \in Nat /\ Accounted(i)
    BY BudgetFacts, RowFacts DEF IInv, SpendInv
  <2>2. Unmarked(i) => outbox[i].status \in {"pending", "deleted"}
    BY DEF Unmarked, IInv, TInv, BatchInv, Busy
  <2> QED
    BY <2>1, <2>2 DEF Accounted
<1> QED
  BY <1>1, <1>2, Invariance, PTL
==============================================================================
