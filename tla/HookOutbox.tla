----------------------------- MODULE HookOutbox -----------------------------
(***************************************************************************)
(* The durable after-hook outbox: write requests enqueue one entry per     *)
(* after-assignment once their row is committed (internal/api/             *)
(* hooksexec.go), one worker goroutine per process drains the entries with *)
(* backoff (internal/hooks/worker.go) through the metadata store           *)
(* (internal/meta/outbox.go), an administrator may retry an entry, and     *)
(* deleting a table definition deletes its entries.                        *)
(*                                                                         *)
(* Time is abstract: next_retry_at is the flag "due", which a failed       *)
(* execution clears and the passing of the backoff sets again.             *)
(***************************************************************************)
EXTENDS Naturals, FiniteSets, Sequences

CONSTANTS
  Defs,          \* table definitions
  Hooks,         \* hook names
  Binaries,      \* the sets of hooks compiled into the builds that get deployed
  AfterHooks,    \* [Defs -> Seq(Hooks)]: after-assignments, in Order
  Writes,        \* row writes the clients make
  MaxFailures,   \* len(backoff) + 1: the failure that exhausts an entry
  BatchSize,     \* entries one pass of the worker loads
  MaxEntries,    \* bound: entries ever enqueued
  MaxRetries,    \* bound: administrator retries
  MaxFaults      \* bound: crashes and store errors

ASSUME HookOutboxAssumption ==
  /\ 0 \notin Defs /\ 0 \notin Hooks /\ 0 \notin Writes    \* NoEntry names none of them
  /\ AfterHooks \in [Defs -> Seq(Hooks)] /\ Binaries \subseteq SUBSET Hooks
  /\ MaxFailures \in Nat \ {0} /\ BatchSize \in Nat \ {0}
  /\ MaxEntries \in Nat /\ MaxRetries \in Nat /\ MaxFaults \in Nat

VARIABLES
  defs,          \* table definitions that exist
  outbox,        \* the hook_outbox table
  nextId,        \* its AUTOINCREMENT sequence
  up,            \* is the process running?
  registered,    \* hooks compiled into the running binary
  request,       \* the write requests' progress
  worker         \* the worker goroutine: batch loaded, entry at hand

\* History, read by no guard except the bounds.
VARIABLES
  failures,      \* failed executions of each entry
  fired,         \* completed executions of each entry
  excused,       \* entries given up for a reason other than failures
  tried,         \* entries whose turn has come at least once
  owed,          \* entries retried by hand and not executed since
  retries, faults

storeVars == <<defs, outbox, nextId>>
bounds == <<retries, faults>>
history == <<failures, fired, excused, tried, owed>>
vars == <<storeVars, up, registered, request, worker, history, bounds>>

Ids == 1..MaxEntries
NoEntry == 0

\* A row of hook_outbox; of names the write and the assignment it is for.
Entry == [status : {"none", "pending", "done", "dead", "deleted"},
          attempts : Nat, due : BOOLEAN,
          def : Defs \cup {NoEntry}, hook : Hooks \cup {NoEntry},
          write : Writes \cup {NoEntry}, pos : Nat]

Absent == [status |-> "none", attempts |-> 0, due |-> FALSE, def |-> NoEntry,
           hook |-> NoEntry, write |-> NoEntry, pos |-> 0]

Request == [pc : {"idle", "committed", "replied", "lost"},
            def : Defs \cup {NoEntry}, pos : Nat]

Worker == [pc : {"idle", "picking", "running", "succeeded", "failed"},
           batch : SUBSET Ids,            \* snapshot of DueOutbox, not yet done
           snap : [Ids -> Nat],           \* attempts as the snapshot read them
           cur : Ids \cup {NoEntry}]

IdleWorker == [pc |-> "idle", batch |-> {}, snap |-> [i \in Ids |-> 0], cur |-> NoEntry]

Init ==
  /\ defs = Defs /\ outbox = [i \in Ids |-> Absent] /\ nextId = 1
  /\ up = TRUE /\ registered \in Binaries
  /\ request = [w \in Writes |-> [pc |-> "idle", def |-> NoEntry, pos |-> 0]]
  /\ worker = IdleWorker
  /\ failures = [i \in Ids |-> 0] /\ fired = [i \in Ids |-> 0]
  /\ excused = {} /\ tried = {} /\ owed = {}
  /\ retries = 0 /\ faults = 0

\* A fault is the process dying or a statement on the metadata store failing.
Fault == faults < MaxFaults /\ faults' = faults + 1
-----------------------------------------------------------------------------
(* Row writes: guard, commit, then one entry per assignment.               *)

\* The guard turns a write away when the binary lacks an assigned hook.
HookGuard(d) == \A k \in DOMAIN AfterHooks[d] : AfterHooks[d][k] \in registered

CommitWrite(w, d) ==
  /\ up /\ request[w].pc = "idle" /\ d \in defs /\ HookGuard(d)
  /\ request' = [request EXCEPT ![w] = [pc |-> "committed", def |-> d, pos |-> 1]]
  /\ UNCHANGED <<storeVars, up, registered, worker, history, bounds>>

\* Mutation: the loop over the assignments ends after the first.
EnqueueFirstOnly(w) ==
  LET r == request[w] IN
  /\ up /\ r.pc = "committed" /\ r.pos <= Len(AfterHooks[r.def])
  /\ r.def \in defs /\ nextId <= MaxEntries
  /\ request' = [request EXCEPT ![w].pos = Len(AfterHooks[r.def]) + 1]
  /\ outbox' = [outbox EXCEPT ![nextId] =
       [status |-> "pending", attempts |-> 0, due |-> TRUE, def |-> r.def,
        hook |-> AfterHooks[r.def][r.pos], write |-> w, pos |-> r.pos]]
  /\ nextId' = nextId + 1
  /\ UNCHANGED <<defs, up, registered, worker, history, bounds>>

\* EnqueueOutbox: the row's foreign key needs the definition to exist; an
\* INSERT that fails, for that reason or another, is logged and skipped.
EnqueueAfter(w) ==
  LET r == request[w] IN
  /\ up /\ r.pc = "committed" /\ r.pos <= Len(AfterHooks[r.def])
  /\ request' = [request EXCEPT ![w].pos = @ + 1]
  /\ \/ /\ r.def \in defs /\ nextId <= MaxEntries
        /\ outbox' = [outbox EXCEPT ![nextId] =
             [status |-> "pending", attempts |-> 0, due |-> TRUE, def |-> r.def,
              hook |-> AfterHooks[r.def][r.pos], write |-> w, pos |-> r.pos]]
        /\ nextId' = nextId + 1
        /\ UNCHANGED faults
     \/ /\ r.def \notin defs
        /\ UNCHANGED <<outbox, nextId, faults>>
     \/ /\ Fault
        /\ UNCHANGED <<outbox, nextId>>
  /\ UNCHANGED <<defs, up, registered, worker, history, retries>>

Reply(w) ==
  /\ up /\ request[w].pc = "committed"
  /\ request[w].pos > Len(AfterHooks[request[w].def])
  /\ request' = [request EXCEPT ![w].pc = "replied"]
  /\ UNCHANGED <<storeVars, up, registered, worker, history, bounds>>
-----------------------------------------------------------------------------
(* The worker: ExecuteDue loads a batch, execOne runs each entry of it.    *)

\* Mutation: WHERE lacks "OR next_retry_at<=?".
NeverTried == {i \in Ids : outbox[i].status = "pending" /\ outbox[i].attempts = 0}

Due == {i \in Ids : outbox[i].status = "pending" /\ outbox[i].due}

\* ORDER BY id LIMIT BatchSize.
OldestOf(S) == {i \in S : Cardinality({j \in S : j < i}) < BatchSize}

Poll ==
  /\ up /\ worker.pc = "idle" /\ Due # {}
  /\ worker' = [pc |-> "picking", batch |-> OldestOf(Due),
                snap |-> [i \in Ids |-> IF i \in OldestOf(Due) THEN outbox[i].attempts ELSE 0],
                cur |-> NoEntry]
  /\ UNCHANGED <<storeVars, up, registered, request, history, bounds>>

\* Mutation: no ORDER BY.
IsAny(i) == i \in worker.batch

IsHead(i) == i \in worker.batch /\ \A j \in worker.batch : i <= j

\* The worker is through with entry i and goes on with the rest of the batch.
PassOn(i) ==
  worker' = [worker EXCEPT !.pc = IF worker.batch = {i} THEN "idle" ELSE "picking",
                           !.batch = @ \ {i}, !.snap[i] = 0, !.cur = NoEntry]

\* UPDATE hook_outbox ... WHERE id=i: nothing happens when the row is gone.
Mark(i, status, attempts) ==
  outbox' = IF outbox[i].status = "deleted" THEN outbox
            ELSE [outbox EXCEPT ![i].status = status, ![i].attempts = attempts, ![i].due = FALSE]

\* Mutation: the entry is marked done before its hook runs.
BeginMarksDone(i) ==
  /\ up /\ worker.pc = "picking" /\ IsHead(i)
  /\ outbox[i].def \in defs /\ outbox[i].hook \in registered
  /\ Mark(i, "done", outbox[i].attempts)
  /\ worker' = [worker EXCEPT !.pc = "running", !.cur = i]
  /\ tried' = tried \cup {i} /\ owed' = owed \ {i}
  /\ UNCHANGED <<defs, nextId, up, registered, request, failures, fired, excused, bounds>>

\* execOne up to the call of the hook.
Begin(i) ==
  /\ up /\ worker.pc = "picking" /\ IsHead(i)
  /\ outbox[i].def \in defs /\ outbox[i].hook \in registered
  /\ worker' = [worker EXCEPT !.pc = "running", !.cur = i]
  /\ tried' = tried \cup {i} /\ owed' = owed \ {i}
  /\ UNCHANGED <<storeVars, up, registered, request, failures, fired, excused, bounds>>

\* GetTableDef or RunOne says the entry can never succeed: it is dead at once.
\* A store error of GetTableDef is taken for a missing definition.
GiveUp(i) ==
  /\ up /\ worker.pc = "picking" /\ IsHead(i)
  /\ \/ outbox[i].def \notin defs /\ UNCHANGED faults
     \/ outbox[i].def \in defs /\ outbox[i].hook \notin registered /\ UNCHANGED faults
     \/ Fault
  /\ Mark(i, "dead", MaxFailures) /\ PassOn(i)
  /\ tried' = tried \cup {i} /\ owed' = owed \ {i} /\ excused' = excused \cup {i}
  /\ UNCHANGED <<defs, nextId, up, registered, request, failures, fired, retries>>

\* The hook returns, panics or times out (runGuarded).
HookReturns(i) ==
  /\ up /\ worker.pc = "running" /\ worker.cur = i
  /\ \/ /\ worker' = [worker EXCEPT !.pc = "succeeded"]
        /\ fired' = [fired EXCEPT ![i] = @ + 1] /\ UNCHANGED failures
     \/ /\ worker' = [worker EXCEPT !.pc = "failed"]
        /\ failures' = [failures EXCEPT ![i] = @ + 1] /\ UNCHANGED fired
  /\ UNCHANGED <<storeVars, up, registered, request, excused, tried, owed, bounds>>

MarkDone(i) ==
  /\ up /\ worker.pc = "succeeded" /\ worker.cur = i
  /\ Mark(i, "done", outbox[i].attempts) /\ PassOn(i)
  /\ UNCHANGED <<defs, nextId, up, registered, request, history, bounds>>

\* Mutation: one retry too few, the fifth failure kills the entry.
OneRetryShort(i) ==
  /\ up /\ worker.pc = "failed" /\ worker.cur = i
  /\ Mark(i, IF worker.snap[i] + 2 >= MaxFailures THEN "dead" ELSE "pending", worker.snap[i] + 1)
  /\ PassOn(i)
  /\ UNCHANGED <<defs, nextId, up, registered, request, history, bounds>>

\* attempts is the snapshot's plus one, whatever the row holds by now.
MarkFailed(i) ==
  LET attempts == worker.snap[i] + 1 IN
  /\ up /\ worker.pc = "failed" /\ worker.cur = i
  /\ Mark(i, IF attempts >= MaxFailures THEN "dead" ELSE "pending", attempts)
  /\ PassOn(i)
  /\ UNCHANGED <<defs, nextId, up, registered, request, history, bounds>>

\* The error of a mark is ignored; the row stays as it was.
MarkLost(i) ==
  /\ up /\ Fault /\ PassOn(i)
  /\ \/ /\ worker.pc \in {"succeeded", "failed"} /\ worker.cur = i
        /\ UNCHANGED <<tried, owed>>
     \/ /\ worker.pc = "picking" /\ IsHead(i) /\ outbox[i].hook \notin registered
        /\ tried' = tried \cup {i} /\ owed' = owed \ {i}
  /\ UNCHANGED <<storeVars, up, registered, request, failures, fired, excused, retries>>

\* next_retry_at is reached.
BackoffElapses(i) ==
  /\ outbox[i].status = "pending" /\ ~outbox[i].due
  /\ outbox' = [outbox EXCEPT ![i].due = TRUE]
  /\ UNCHANGED <<defs, nextId, up, registered, request, worker, history, bounds>>
-----------------------------------------------------------------------------
(* Administrators, and the life of the process.                            *)

\* Mutation: the status is not checked.
RetryAnything(i) ==
  /\ up /\ outbox[i].status \in {"pending", "dead", "done"} /\ retries < MaxRetries
  /\ outbox' = [outbox EXCEPT ![i].status = "pending", ![i].attempts = 0, ![i].due = TRUE]
  /\ retries' = retries + 1 /\ owed' = owed \cup {i}
  /\ UNCHANGED <<defs, nextId, up, registered, request, worker, failures, fired, excused,
                 tried, faults>>

RetryOutbox(i) ==
  /\ up /\ outbox[i].status \in {"pending", "dead"} /\ retries < MaxRetries
  /\ outbox' = [outbox EXCEPT ![i].status = "pending", ![i].attempts = 0, ![i].due = TRUE]
  /\ retries' = retries + 1 /\ owed' = owed \cup {i}
  /\ UNCHANGED <<defs, nextId, up, registered, request, worker, failures, fired, excused,
                 tried, faults>>

\* Mutation: the entries stay behind.
DeleteWithoutCascade(d) ==
  /\ up /\ d \in defs
  /\ defs' = defs \ {d}
  /\ UNCHANGED <<outbox, nextId, up, registered, request, worker, history, bounds>>

\* ON DELETE CASCADE takes the definition's entries along.
DeleteTableDef(d) ==
  /\ up /\ d \in defs
  /\ defs' = defs \ {d}
  /\ outbox' = [i \in Ids |-> IF outbox[i].def = d
                                THEN [outbox[i] EXCEPT !.status = "deleted"] ELSE outbox[i]]
  /\ UNCHANGED <<nextId, up, registered, request, worker, history, bounds>>

\* The process dies at any point: requests and the loaded batch are lost, the
\* store is not.
Crash ==
  /\ up /\ Fault
  /\ up' = FALSE /\ worker' = IdleWorker
  /\ request' = [w \in Writes |-> IF request[w].pc = "committed"
                                    THEN [request[w] EXCEPT !.pc = "lost"] ELSE request[w]]
  /\ UNCHANGED <<storeVars, registered, history, retries>>

\* A restart may bring a rebuilt binary, with other hooks.
Restart ==
  /\ ~up
  /\ up' = TRUE /\ registered' \in Binaries
  /\ UNCHANGED <<storeVars, request, worker, history, bounds>>

WorkerStep ==
  \/ Poll
  \/ \E i \in Ids : Begin(i) \/ GiveUp(i) \/ HookReturns(i) \/ MarkDone(i) \/ MarkFailed(i)

Next ==
  \/ \E w \in Writes, d \in Defs : CommitWrite(w, d)
  \/ \E w \in Writes : EnqueueAfter(w) \/ Reply(w)
  \/ WorkerStep
  \/ \E i \in Ids : MarkLost(i) \/ BackoffElapses(i) \/ RetryOutbox(i)
  \/ \E d \in Defs : DeleteTableDef(d)
  \/ Crash \/ Restart

\* The goroutine is scheduled, hooks return within AfterTimeout, clocks run,
\* and the service manager restarts the process.
Spec ==
  /\ Init /\ [][Next]_vars
  /\ WF_vars(WorkerStep) /\ WF_vars(Restart)
  /\ \A i \in Ids : WF_vars(BackoffElapses(i))
-----------------------------------------------------------------------------
(* Properties.                                                             *)

TypeOK ==
  /\ defs \in SUBSET Defs /\ outbox \in [Ids -> Entry] /\ nextId \in 1..MaxEntries + 1
  /\ up \in BOOLEAN /\ registered \in SUBSET Hooks
  /\ request \in [Writes -> Request] /\ worker \in Worker
  /\ failures \in [Ids -> Nat] /\ fired \in [Ids -> Nat]
  /\ excused \in SUBSET Ids /\ tried \in SUBSET Ids /\ owed \in SUBSET Ids
  /\ retries \in Nat /\ faults \in Nat
  /\ \A i \in Ids : outbox[i].status \in {"pending", "done", "dead"} => outbox[i].def \in defs

\* The 6th failure, and no earlier one, marks an entry dead, however crashes,
\* lost marks, stale snapshots and manual retries interleave with executions;
\* unless its hook or definition was unavailable.
DeadOnlyWhenSpent ==
  \A i \in Ids : outbox[i].status = "dead" /\ i \notin excused => failures[i] >= MaxFailures

\* An after-hook completes at most once, plus once for every crash or lost
\* mark: retries by hand and by the worker never double a side effect.
FiredOncePerFault == \A i \in Ids : fired[i] <= 1 + faults

EntriesOf(w, k) == {i \in Ids : outbox[i].write = w /\ outbox[i].pos = k}

\* A write answered with success has exactly one entry per after-assignment
\* of its definition, ordered as the assignments are, when nothing failed.
OneEntryPerAssignment ==
  \A w \in Writes :
    request[w].pc = "replied" /\ request[w].def \in defs /\ faults = 0 =>
      \A k \in DOMAIN AfterHooks[request[w].def] :
        /\ Cardinality(EntriesOf(w, k)) = 1
        /\ \A m \in 1..k - 1 : \A i \in EntriesOf(w, k), j \in EntriesOf(w, m) : j < i

\* No entry is executed for the first time before every older one had its
\* turn: neither batches nor crashes let later writes overtake earlier ones.
FirstTurnsInOrder ==
  \A i, j \in Ids : i < j /\ j \in tried => i \in tried \/ outbox[i].status = "deleted"

FateOf(status) ==
  CASE status = "none" -> "none"
    [] status = "pending" -> "owed"
    [] status = "done" -> "delivered"
    [] status = "dead" -> "abandoned"
    [] status = "deleted" -> "withdrawn"

Fate == [i \in Ids |-> FateOf(outbox[i].status)]

Delivery == INSTANCE AfterHookDelivery WITH fate <- Fate

\* The outbox implements the abstract delivery of after-hooks: done entries
\* stay done, only dead ones are reopened, done follows the side effect.
ImplementsDelivery == Delivery!Spec

\* Every recorded after-hook is eventually done, dead or deleted with its
\* definition.
EventuallySettled == Delivery!EventuallySettled

\* outbox.go says a retry "resets a dead/failed entry for immediate
\* re-execution": an entry must not be dead while it is owed one.
RetryIsExecuted == \A i \in owed : outbox[i].status # "dead"
=============================================================================
