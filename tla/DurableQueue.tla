---------------------------- MODULE DurableQueue ----------------------------
(***************************************************************************)
(* The durable task queue of durable_queue.py: one row per task in the     *)
(* table `entries`, an append-only `journal`, and leases that expire on    *)
(* the wall clock.  Every operation of the class is one IMMEDIATE SQLite   *)
(* transaction, so it is one action here: a crash leaves either all of it  *)
(* or none of it in the file.  What is NOT atomic is the time an operation *)
(* works with: `at = time.time()` is read before the transaction begins,   *)
(* and the write lock may make the call wait, so every operation acts on   *)
(* a time up to Lag behind the clock.                                      *)
(*                                                                         *)
(* The callers of the queue (worker processes) hold at most one LeaseGrant *)
(* at a time, may stall for as long as they like, report a result late, or *)
(* die.  The column `updated_at` is never read and is left out; a recipe   *)
(* value stands for the recipe, its revision and its fingerprint.          *)
(***************************************************************************)
EXTENDS Naturals, Sequences

CONSTANTS
    Tasks,        \* task ids: naturals, in the text order of the real ids
    Callers,      \* processes that use the queue
    IdOf,         \* IdOf[c]: the worker_id the process c presents
    Recipes,      \* recipes, as told apart by recipe_fingerprint
    Bases,        \* base fingerprints
    None,         \* SQL NULL
    MaxAttempts,  \* max_attempts; 0 means no limit
    TTL,          \* ttl_seconds of a lease
    Lag,          \* how far `at` may lie behind the clock when a call commits
    KeepRows,     \* keep_last_n_per_task of prune_journal
    MaxRenewals,  \* bound: renewals of one grant
    IdleTime      \* bound: time that may pass while no lease is running

WorkerIds == {IdOf[c] : c \in Callers}

ASSUME QueueAssumption ==
    /\ Tasks \subseteq Nat
    /\ IdOf \in [Callers -> WorkerIds]
    /\ None \notin WorkerIds /\ None \notin Tasks
    /\ MaxAttempts \in Nat
    /\ TTL \in Nat \ {0}
    /\ Lag \in Nat
    /\ KeepRows \in Nat
    /\ MaxRenewals \in Nat
    /\ IdleTime \in Nat

VARIABLES
    entries,  \* the table `entries`, one row per task id
    journal,  \* the table `journal`, the rows of each task in id order
    grants,   \* the LeaseGrant each caller is working on
    now       \* time.time()

vars == <<entries, journal, grants, now>>

-----------------------------------------------------------------------------
(* Rows *)

Terminal == {"succeeded", "failed", "cancelled", "dead-letter"}
States == {"queued", "leased"} \cup Terminal
Events == {"enqueued", "leased", "lease-expired", "dead-lettered",
           "cancelled", "completed", "result-rejected"}

NoEntry == [state |-> "absent", attempt |-> 0, leased_by |-> None,
            lease_expires_at |-> 0, enqueued_at |-> 0,
            recipe |-> None, base |-> None]

NewEntry(r, b, at) ==
    [state |-> "queued", attempt |-> 0, leased_by |-> None,
     lease_expires_at |-> 0, enqueued_at |-> at, recipe |-> r, base |-> b]

Exists(t) == entries[t].state # "absent"

(* A LeaseGrant, with the number of times it has been renewed. *)
NoGrant == [task |-> None, attempt |-> 0, lease_expires_at |-> 0, renewals |-> 0]

HasGrant(c) == grants[c] # NoGrant

Granted(t, at) ==
    [task |-> t, attempt |-> entries[t].attempt + 1, lease_expires_at |-> at + TTL, renewals |-> 0]

Extended(grant, at) ==
    [task |-> grant.task, attempt |-> grant.attempt, lease_expires_at |-> at + TTL,
     renewals |-> grant.renewals + 1]

(* One journal row; `final` and `recipe` are the detail of a completed row. *)
Row(event, attempt) ==
    [event |-> event, attempt |-> attempt, final |-> None, recipe |-> None]
CompletedRow(entry, final) ==
    [event |-> "completed", attempt |-> entry.attempt, final |-> final,
     recipe |-> entry.recipe]

(* The entry as every operation that ends a lease writes it. *)
Released(entry, state) ==
    [entry EXCEPT !.state = state, !.leased_by = None, !.lease_expires_at = 0]

(* The times an operation that commits now may have read before it waited. *)
At == {at \in 0 .. now : now <= at + Lag}

-----------------------------------------------------------------------------
(* The operations of DurableQueue *)

enqueue(t, r, b, at) ==
    \/ /\ ~Exists(t)
       /\ entries' = [entries EXCEPT ![t] = NewEntry(r, b, at)]
       /\ journal' = [journal EXCEPT ![t] = Append(@, Row("enqueued", 0))]
    \/ /\ Exists(t)     \* ON CONFLICT(task_id) DO NOTHING
       /\ UNCHANGED <<entries, journal>>

(* ORDER BY enqueued_at, task_id *)
Before(t, u) ==
    \/ entries[t].enqueued_at < entries[u].enqueued_at
    \/ entries[t].enqueued_at = entries[u].enqueued_at /\ t < u

Queued == {t \in Tasks : entries[t].state = "queued"}

Oldest(t) == t \in Queued /\ \A u \in Queued : ~Before(u, t)

(* Mutant: the attempt is not counted when the lease is taken. *)
LeasedSameAttempt(entry, id, at) ==
    [entry EXCEPT !.state = "leased", !.leased_by = id, !.lease_expires_at = at + TTL]

Leased(entry, id, at) ==
    [state |-> "leased", attempt |-> entry.attempt + 1, leased_by |-> id,
     lease_expires_at |-> at + TTL, enqueued_at |-> entry.enqueued_at,
     recipe |-> entry.recipe, base |-> entry.base]

lease(id, t, at) ==
    /\ Oldest(t)
    /\ entries' = [entries EXCEPT ![t] = Leased(entries[t], id, at)]
    /\ journal' = [journal EXCEPT ![t] =
                     Append(@, Row("leased", entries[t].attempt + 1))]

(* Mutant: any worker of a leased task passes for its holder. *)
HeldByAnyone(t, id) == entries[t].state = "leased"

HeldBy(t, id) == entries[t].state = "leased" /\ entries[t].leased_by = id

Renewed(entry, at) == [entry EXCEPT !.lease_expires_at = at + TTL]

(* The UPDATE of renew_lease matches the row: it answers TRUE. *)
renew_lease(t, id, at) ==
    /\ HeldBy(t, id)
    /\ entries' = [entries EXCEPT ![t] = Renewed(entries[t], at)]
    /\ UNCHANGED journal

ValidLease(t, id, at) == HeldBy(t, id) /\ ~(entries[t].lease_expires_at < at)

FinalState(t, ran_ok, observed) ==
    IF ran_ok /\ observed = entries[t].base THEN "succeeded" ELSE "failed"

record_result(t, id, ran_ok, observed, at) ==
    \/ /\ ~ValidLease(t, id, at)
       /\ journal' = [journal EXCEPT ![t] =
                        Append(@, Row("result-rejected", entries[t].attempt))]
       /\ UNCHANGED entries
    \/ /\ ValidLease(t, id, at)
       /\ LET final == FinalState(t, ran_ok, observed)
          IN  /\ entries' = [entries EXCEPT ![t] = Released(entries[t], final)]
              /\ journal' = [journal EXCEPT ![t] =
                               Append(@, CompletedRow(entries[t], final))]

(* Mutant: a cancellation leaves no journal row. *)
cancelSilently(t) ==
    /\ entries[t].state \in {"queued", "leased"}
    /\ entries' = [entries EXCEPT ![t] = Released(entries[t], "cancelled")]
    /\ UNCHANGED journal

cancel(t) ==
    /\ entries[t].state \in {"queued", "leased"}
    /\ entries' = [entries EXCEPT ![t] = Released(entries[t], "cancelled")]
    /\ journal' = [journal EXCEPT ![t] =
                     Append(@, Row("cancelled", entries[t].attempt))]

(* Mutant: a lease is treated as expired at the instant it ends. *)
ExpiredAtTheEdge(t, at) ==
    entries[t].state = "leased" /\ entries[t].lease_expires_at <= at

(* Mutant: a task out of attempts is skipped instead of parked. *)
ExpiredUnlessExhausted(t, at) ==
    /\ entries[t].state = "leased" /\ entries[t].lease_expires_at < at
    /\ ~(MaxAttempts > 0 /\ entries[t].attempt >= MaxAttempts)

Expired(t, at) ==
    entries[t].state = "leased" /\ entries[t].lease_expires_at < at

(* Mutant: one attempt too many. *)
ParkedTooLate(t) == MaxAttempts > 0 /\ entries[t].attempt > MaxAttempts

Parked(t) == MaxAttempts > 0 /\ entries[t].attempt >= MaxAttempts

(* reconcile treats every expired lease in one transaction. *)
reconcile(at) ==
    /\ entries' = [t \in Tasks |->
                     IF Expired(t, at)
                     THEN Released(entries[t],
                            IF Parked(t) THEN "dead-letter" ELSE "queued")
                     ELSE entries[t]]
    /\ journal' = [t \in Tasks |->
                     IF Expired(t, at)
                     THEN Append(journal[t],
                            Row(IF Parked(t) THEN "dead-lettered" ELSE "lease-expired",
                                entries[t].attempt))
                     ELSE journal[t]]

(* The newest KeepRows rows of every task survive. *)
Pruned(rows) ==
    IF Len(rows) > KeepRows THEN SubSeq(rows, Len(rows) - KeepRows + 1, Len(rows))
                            ELSE rows

prune_journal ==
    /\ journal' = [t \in Tasks |-> Pruned(journal[t])]
    /\ UNCHANGED entries

-----------------------------------------------------------------------------
(* The queue with its callers and the clock *)

Init ==
    /\ entries = [t \in Tasks |-> NoEntry]
    /\ journal = [t \in Tasks |-> <<>>]
    /\ grants = [c \in Callers |-> NoGrant]
    /\ now = 0

Enqueue(t, r, b) ==
    /\ \E at \in At : enqueue(t, r, b, at)
    /\ UNCHANGED <<grants, now>>

Lease(c) ==
    /\ ~HasGrant(c)
    /\ \E t \in Tasks, at \in At :
         /\ lease(IdOf[c], t, at)
         /\ grants' = [grants EXCEPT ![c] = Granted(t, at)]
    /\ UNCHANGED now

Renew(c) ==
    /\ HasGrant(c) /\ grants[c].renewals < MaxRenewals
    /\ \E at \in At :
         /\ renew_lease(grants[c].task, IdOf[c], at)
         /\ grants' = [grants EXCEPT ![c] = Extended(grants[c], at)]
    /\ UNCHANGED now

RecordResult(c) ==
    /\ HasGrant(c)
    /\ \E ran_ok \in BOOLEAN, observed \in Bases, at \in At :
         record_result(grants[c].task, IdOf[c], ran_ok, observed, at)
    /\ grants' = [grants EXCEPT ![c] = NoGrant]
    /\ UNCHANGED now

(* The process dies: what it was working on survives only in the file. *)
Crash(c) ==
    /\ HasGrant(c)
    /\ grants' = [grants EXCEPT ![c] = NoGrant]
    /\ UNCHANGED <<entries, journal, now>>

Cancel(t) == cancel(t) /\ UNCHANGED <<grants, now>>

Reconcile == (\E at \in At : reconcile(at)) /\ UNCHANGED <<grants, now>>

PruneJournal == prune_journal /\ UNCHANGED <<grants, now>>

(* Time passes freely up to IdleTime, and after that while a lease runs:   *)
(* nothing but the expiry of a lease depends on how late it is.            *)
Tick ==
    /\ \/ now < IdleTime
       \/ \E t \in Tasks : /\ entries[t].state = "leased"
                           /\ now <= entries[t].lease_expires_at + Lag
    /\ now' = now + 1
    /\ UNCHANGED <<entries, journal, grants>>

Next ==
    \/ \E t \in Tasks, r \in Recipes, b \in Bases : Enqueue(t, r, b)
    \/ \E c \in Callers : Lease(c) \/ Renew(c) \/ RecordResult(c) \/ Crash(c)
    \/ \E t \in Tasks : Cancel(t)
    \/ Reconcile
    \/ PruneJournal
    \/ Tick

Spec == Init /\ [][Next]_vars

(* A caller that is free takes work, a caller that has work ends it (the   *)
(* run has a timeout), somebody runs reconcile and the clock does not stop. *)
FairSpec ==
    /\ Spec
    /\ \A c \in Callers : WF_vars(Lease(c)) /\ WF_vars(RecordResult(c))
    /\ WF_vars(Reconcile)
    /\ WF_vars(Tick)

-----------------------------------------------------------------------------
(* Properties *)

Entry == [state : States \cup {"absent"}, attempt : Nat, leased_by : WorkerIds \cup {None},
          lease_expires_at : Nat, enqueued_at : Nat,
          recipe : Recipes \cup {None}, base : Bases \cup {None}]

Grant == [task : Tasks, attempt : Nat, lease_expires_at : Nat, renewals : Nat]

JournalRow == [event : Events, attempt : Nat, final : Terminal \cup {None},
               recipe : Recipes \cup {None}]

(* Types of the tables, and the two columns that make a lease: `leased_by` *)
(* is set exactly while the state is `leased` (durable_queue.py:254-257,   *)
(* 322-326, 344-348, 365-369).                                             *)
TypeOK ==
    /\ entries \in [Tasks -> Entry]
    /\ \A t \in Tasks : entries[t].state = "leased" <=> entries[t].leased_by # None
    /\ journal \in [Tasks -> Seq(JournalRow)]
    /\ grants \in [Callers -> Grant \cup {NoGrant}]
    /\ now \in Nat

DistinctIds == \A c, d \in Callers : IdOf[c] = IdOf[d] => c = d

(* Until the lease_expires_at it was told, a caller that has not reported  *)
(* really is the holder of its task, whatever the other callers, reconcile *)
(* and stale reads of the clock do; only `cancel` may take the task away.  *)
(* It needs worker ids that are not shared.                                *)
LeaseHonoured ==
    \A c \in Callers :
        LET g == grants[c] IN
        (g # NoGrant /\ now <= g.lease_expires_at) =>
            \/ /\ HeldBy(g.task, IdOf[c])
               /\ entries[g.task].attempt = g.attempt
            \/ entries[g.task].state = "cancelled"

ResultTaken(t) ==
    entries[t].state = "leased" /\ entries[t]'.state \in {"succeeded", "failed"}

(* "a late record_result() from a worker that no longer holds the lease is *)
(* rejected, not accepted as done" (durable_queue.py:14-16): a result      *)
(* closes a task only when it comes from the caller that was granted the   *)
(* attempt that is running.                                                *)
LateResultRejected ==
    [][\A t \in Tasks : ResultTaken(t) =>
         \E c \in Callers : /\ grants[c].task = t /\ grants'[c] = NoGrant
                            /\ grants[c].attempt = entries[t].attempt]_vars

(* The state an entry is in once a journal row has been written. *)
StateAfter(row) ==
    CASE row.event \in {"enqueued", "lease-expired"} -> "queued"
      [] row.event = "dead-lettered" -> "dead-letter"
      [] row.event = "completed" -> row.final
      [] OTHER -> row.event

(* i is the newest row of t that is not a refused result. *)
LastTransition(t, i) ==
    /\ i \in DOMAIN journal[t]
    /\ journal[t][i].event # "result-rejected"
    /\ \A j \in DOMAIN journal[t] : i < j => journal[t][j].event = "result-rejected"

(* "a state change and its journal row are saved together or not at all"   *)
(* (durable_queue.py:192-194): whatever prune_journal has deleted, the     *)
(* newest transition still in the journal is the state the entry is in, of *)
(* the same attempt, and a completed row names the recipe of the entry.    *)
JournalExplainsEntry ==
    \A t \in Tasks : \A i \in DOMAIN journal[t] :
        LastTransition(t, i) =>
            /\ StateAfter(journal[t][i]) = entries[t].state
            /\ journal[t][i].attempt = entries[t].attempt
            /\ journal[t][i].event = "completed" => journal[t][i].recipe = entries[t].recipe

Final == {"completed", "cancelled", "dead-lettered"}

(* The journal of a task reads as one history (durable_queue.py:204-208,   *)
(* 252-258): attempts never go back, every lease is a new attempt, and     *)
(* after the row that closed the task there are only refused results.      *)
JournalIsOneHistory ==
    \A t \in Tasks : \A i, j \in DOMAIN journal[t] :
        i < j =>
            LET a == journal[t][i]  b == journal[t][j] IN
            /\ a.attempt <= b.attempt
            /\ b.event = "leased" => a.attempt < b.attempt
            /\ a.event \in Final => b.event = "result-rejected"

(* The queue as its submitters see it: leases, time, the journal and the   *)
(* callers are hidden, `queued` and `leased` are the same open job.        *)
JobOf(entry) ==
    [phase |-> IF entry.state \in {"queued", "leased"} THEN "open" ELSE entry.state,
     recipe |-> entry.recipe, base |-> entry.base, tries |-> entry.attempt]

JobsView == [t \in Tasks |-> JobOf(entries[t])]

Ledger == INSTANCE TaskLedger WITH jobs <- JobsView

(* "a duplicate enqueue never creates a second job", a closed task stays   *)
(* closed, and no task is tried more than max_attempts times               *)
(* (durable_queue.py:11-16, 51-53): the queue implements TaskLedger.       *)
ImplementsLedger == Ledger!Spec

(* A task that is accepted does not stay open for ever: a worker that dies *)
(* or stalls costs one lease, and there are max_attempts of them           *)
(* (durable_queue.py:354-376, worker.py:173-181).                          *)
EventuallyClosed ==
    \A t \in Tasks : Exists(t) ~> (entries[t].state \in Terminal)
=============================================================================
