------------------------- MODULE DurableQueueProofs -------------------------
(***************************************************************************)
(* Proofs about DurableQueue, and about the worker loop over it, for every *)
(* set of tasks and callers and every value of the bounds.                 *)
(*                                                                         *)
(* The lemmas come in two groups: what the operators that build a row or a *)
(* grant return, and what each action does to the tables.  The proofs of   *)
(* the theorems use the second group and never look inside a record.       *)
(***************************************************************************)
EXTENDS Worker, SequenceTheorems, TLAPS

-----------------------------------------------------------------------------
(* Rows, entries and grants *)

(* Whatever row is written is a journal row (the _journal helper).         *)
LEMMA RowType ==
    ASSUME NEW event \in Events, NEW attempt \in Nat
    PROVE  Row(event, attempt) \in JournalRow
  BY DEF Row, JournalRow

(* The row of a taken result is a journal row (durable_queue.py:327-338).  *)
LEMMA CompletedRowType ==
    ASSUME NEW entry \in Entry, NEW final \in Terminal
    PROVE  CompletedRow(entry, final) \in JournalRow
  BY DEF CompletedRow, JournalRow, Entry, Events

(* A new entry is queued, without attempts and without a holder.           *)
LEMMA NewEntryType ==
    ASSUME NEW r \in Recipes, NEW b \in Bases, NEW at \in Nat
    PROVE  /\ NewEntry(r, b, at) \in Entry
           /\ NewEntry(r, b, at).state = "queued"
           /\ NewEntry(r, b, at).leased_by = None
           /\ NewEntry(r, b, at).attempt = 0
           /\ NewEntry(r, b, at).recipe = r
           /\ NewEntry(r, b, at).base = b
  BY DEF NewEntry, Entry, States

(* Ending a lease gives a well-typed entry without a holder.               *)
LEMMA ReleasedType ==
    ASSUME NEW entry \in Entry, NEW state \in States
    PROVE  /\ Released(entry, state) \in Entry
           /\ Released(entry, state).state = state
           /\ Released(entry, state).leased_by = None
           /\ Released(entry, state).attempt = entry.attempt
           /\ Released(entry, state).recipe = entry.recipe
           /\ Released(entry, state).base = entry.base
  BY DEF Released, Entry, States, Terminal

(* Taking a lease names the holder and counts the attempt.                 *)
LEMMA LeasedType ==
    ASSUME NEW entry \in Entry, NEW id \in WorkerIds, NEW at \in Nat
    PROVE  /\ Leased(entry, id, at) \in Entry
           /\ Leased(entry, id, at).state = "leased"
           /\ Leased(entry, id, at).leased_by = id
           /\ Leased(entry, id, at).attempt = entry.attempt + 1
           /\ Leased(entry, id, at).lease_expires_at = at + TTL
           /\ Leased(entry, id, at).recipe = entry.recipe
           /\ Leased(entry, id, at).base = entry.base
  BY QueueAssumption DEF Leased, Entry, States

(* Renewing a lease changes nothing but its end.                           *)
LEMMA RenewedType ==
    ASSUME NEW entry \in Entry, NEW at \in Nat
    PROVE  /\ Renewed(entry, at) \in Entry
           /\ Renewed(entry, at).state = entry.state
           /\ Renewed(entry, at).leased_by = entry.leased_by
           /\ Renewed(entry, at).attempt = entry.attempt
           /\ Renewed(entry, at).lease_expires_at = at + TTL
           /\ Renewed(entry, at).recipe = entry.recipe
           /\ Renewed(entry, at).base = entry.base
  BY QueueAssumption DEF Renewed, Entry

(* A fresh grant repeats what `lease` wrote in the entry.                  *)
LEMMA GrantedType ==
    ASSUME NEW t \in Tasks, NEW at \in Nat, entries[t] \in Entry
    PROVE  /\ Granted(t, at) \in Grant
           /\ Granted(t, at).task = t
           /\ Granted(t, at).attempt = entries[t].attempt + 1
           /\ Granted(t, at).lease_expires_at = at + TTL
  <1>1. entries[t].attempt \in Nat
    BY DEF Entry
  <1>2. QED
    BY <1>1, QueueAssumption DEF Granted, Grant

(* A renewed grant is the same grant with a later end.                     *)
LEMMA ExtendedType ==
    ASSUME NEW grant \in Grant, NEW at \in Nat
    PROVE  /\ Extended(grant, at) \in Grant
           /\ Extended(grant, at).task = grant.task
           /\ Extended(grant, at).attempt = grant.attempt
           /\ Extended(grant, at).lease_expires_at = at + TTL
  BY QueueAssumption DEF Extended, Grant

(* No grant of a task is the empty grant.                                  *)
LEMMA GrantIsNotEmpty ==
    ASSUME NEW grant \in Grant
    PROVE  grant # NoGrant
  <1>1. grant.task \in Tasks
    BY DEF Grant
  <1>2. NoGrant.task = None
    BY DEF NoGrant
  <1>3. QED
    BY <1>1, <1>2, QueueAssumption

(* The time an operation works with lies between now - Lag and now.        *)
LEMMA AtType ==
    ASSUME TypeOK, NEW at \in At
    PROVE  at \in Nat /\ at <= now
  BY DEF At, TypeOK

(* Every id a caller presents is a worker id and not NULL.                 *)
LEMMA IdType ==
    ASSUME NEW c \in Callers
    PROVE  IdOf[c] \in WorkerIds /\ IdOf[c] # None
  BY QueueAssumption DEF WorkerIds

-----------------------------------------------------------------------------
(* The tables *)

(* Writing one well-typed row of `entries` keeps the table well typed.     *)
LEMMA PutEntry ==
    ASSUME TypeOK, NEW t \in Tasks, NEW e \in Entry,
           e.state = "leased" <=> e.leased_by # None,
           entries' = [entries EXCEPT ![t] = e]
    PROVE  /\ entries' \in [Tasks -> Entry]
           /\ \A u \in Tasks : entries'[u].state = "leased" <=> entries'[u].leased_by # None
           /\ entries'[t] = e
           /\ \A u \in Tasks : u # t => entries'[u] = entries[u]
  BY DEF TypeOK

(* Appending a row to the journal of one task keeps the table well typed.  *)
LEMMA PutRow ==
    ASSUME TypeOK, NEW t \in Tasks, NEW row \in JournalRow,
           journal' = [journal EXCEPT ![t] = Append(@, row)]
    PROVE  journal' \in [Tasks -> Seq(JournalRow)]
  BY DEF TypeOK

(* Changing what one caller holds leaves the other callers alone.          *)
LEMMA PutGrant ==
    ASSUME TypeOK, NEW c \in Callers, NEW g \in Grant \cup {NoGrant},
           grants' = [grants EXCEPT ![c] = g]
    PROVE  /\ grants' \in [Callers -> Grant \cup {NoGrant}]
           /\ grants'[c] = g
           /\ \A d \in Callers : d # c => grants'[d] = grants[d]
  BY DEF TypeOK

-----------------------------------------------------------------------------
(* What each action does *)

(* A grant that is not the empty one names a task, and an action of its    *)
(* caller finds the entry of that task well typed.                         *)
LEMMA GrantType ==
    ASSUME TypeOK, NEW c \in Callers, HasGrant(c)
    PROVE  grants[c] \in Grant /\ grants[c].task \in Tasks /\ entries[grants[c].task] \in Entry
  <1>1. grants[c] \in Grant
    BY DEF TypeOK, HasGrant
  <1>2. grants[c].task \in Tasks
    BY <1>1 DEF Grant
  <1>3. QED
    BY <1>1, <1>2 DEF TypeOK

(* enqueue inserts a new entry or changes nothing.                         *)
LEMMA EnqueueEffect ==
    ASSUME TypeOK, NEW t \in Tasks, NEW r \in Recipes, NEW b \in Bases, Enqueue(t, r, b)
    PROVE  /\ TypeOK' /\ UNCHANGED <<grants, now>>
           /\ \A u \in Tasks : u # t => entries'[u] = entries[u]
           /\ \/ UNCHANGED entries
              \/ /\ entries[t].state = "absent"
                 /\ \E at \in Nat : entries'[t] = NewEntry(r, b, at)
  <1>1. PICK at \in At : enqueue(t, r, b, at)
    BY DEF Enqueue
  <1>2. UNCHANGED <<grants, now>>
    BY DEF Enqueue
  <1>3. CASE Exists(t)
    BY <1>1, <1>2, <1>3 DEF enqueue, TypeOK
  <1>4. CASE ~Exists(t)
    <2>1. at \in Nat
      BY AtType
    <2>2. /\ NewEntry(r, b, at) \in Entry
          /\ NewEntry(r, b, at).state = "leased" <=> NewEntry(r, b, at).leased_by # None
      BY <2>1, NewEntryType
    <2>3. Row("enqueued", 0) \in JournalRow
      BY RowType DEF Events
    <2>4. /\ entries' = [entries EXCEPT ![t] = NewEntry(r, b, at)]
          /\ journal' = [journal EXCEPT ![t] = Append(@, Row("enqueued", 0))]
      BY <1>1, <1>4 DEF enqueue
    <2>5. /\ entries' \in [Tasks -> Entry]
          /\ \A u \in Tasks : entries'[u].state = "leased" <=> entries'[u].leased_by # None
          /\ entries'[t] = NewEntry(r, b, at)
          /\ \A u \in Tasks : u # t => entries'[u] = entries[u]
      BY <2>2, <2>4, PutEntry
    <2>6. journal' \in [Tasks -> Seq(JournalRow)]
      BY <2>3, <2>4, PutRow
    <2>7. TypeOK'
      BY <1>2, <2>5, <2>6 DEF TypeOK
    <2>8. QED
      BY <1>2, <1>4, <2>1, <2>5, <2>7 DEF Exists
  <1>5. QED
    BY <1>3, <1>4

(* lease turns one queued task into a leased one and hands out its grant.  *)
LEMMA LeaseEffect ==
    ASSUME TypeOK, NEW c \in Callers, Lease(c)
    PROVE  /\ TypeOK' /\ now' = now /\ ~HasGrant(c)
           /\ \A d \in Callers : d # c => grants'[d] = grants[d]
           /\ \E t \in Tasks, at \in Nat :
                /\ entries[t].state = "queued"
                /\ entries'[t] = Leased(entries[t], IdOf[c], at)
                /\ grants'[c] = Granted(t, at)
                /\ \A u \in Tasks : u # t => entries'[u] = entries[u]
  <1>1. PICK t \in Tasks, at \in At :
          lease(IdOf[c], t, at) /\ grants' = [grants EXCEPT ![c] = Granted(t, at)]
    BY DEF Lease
  <1>2. ~HasGrant(c) /\ now' = now
    BY DEF Lease
  <1>3. at \in Nat /\ entries[t] \in Entry /\ entries[t].attempt + 1 \in Nat
    <2>1. entries[t] \in Entry
      BY DEF TypeOK
    <2>2. QED
      BY <2>1, AtType DEF Entry
  <1>4. entries[t].state = "queued"
    BY <1>1 DEF lease, Oldest, Queued
  <1>5. IdOf[c] \in WorkerIds /\ IdOf[c] # None
    BY IdType
  <1> DEFINE e == Leased(entries[t], IdOf[c], at)
             row == Row("leased", entries[t].attempt + 1)
  <1>6. e \in Entry /\ (e.state = "leased" <=> e.leased_by # None)
    BY <1>3, <1>5, LeasedType
  <1>7. row \in JournalRow
    BY <1>3, RowType DEF Events
  <1>8. entries' = [entries EXCEPT ![t] = e] /\ journal' = [journal EXCEPT ![t] = Append(@, row)]
    BY <1>1 DEF lease
  <1>9. Granted(t, at) \in Grant \cup {NoGrant}
    BY <1>3, GrantedType
  <1> HIDE DEF e, row
  <1>10. /\ entries' \in [Tasks -> Entry]
         /\ \A u \in Tasks : entries'[u].state = "leased" <=> entries'[u].leased_by # None
         /\ entries'[t] = e
         /\ \A u \in Tasks : u # t => entries'[u] = entries[u]
    BY <1>6, <1>8, PutEntry
  <1>11. journal' \in [Tasks -> Seq(JournalRow)]
    BY <1>7, <1>8, PutRow
  <1>12. /\ grants' \in [Callers -> Grant \cup {NoGrant}]
         /\ grants'[c] = Granted(t, at)
         /\ \A d \in Callers : d # c => grants'[d] = grants[d]
    BY <1>1, <1>9, PutGrant
  <1>13. TypeOK'
    BY <1>2, <1>10, <1>11, <1>12 DEF TypeOK
  <1>14. QED
    BY <1>2, <1>3, <1>4, <1>10, <1>12, <1>13 DEF e

(* renew_lease moves the end of the lease of a task its caller holds.      *)
LEMMA RenewEffect ==
    ASSUME TypeOK, NEW c \in Callers, Renew(c)
    PROVE  /\ TypeOK' /\ now' = now /\ HasGrant(c)
           /\ HeldBy(grants[c].task, IdOf[c])
           /\ \A d \in Callers : d # c => grants'[d] = grants[d]
           /\ \A u \in Tasks : u # grants[c].task => entries'[u] = entries[u]
           /\ \E at \in Nat :
                /\ entries'[grants[c].task] = Renewed(entries[grants[c].task], at)
                /\ grants'[c] = Extended(grants[c], at)
  <1> DEFINE t == grants[c].task
  <1>1. PICK at \in At :
          renew_lease(t, IdOf[c], at) /\ grants' = [grants EXCEPT ![c] = Extended(grants[c], at)]
    BY DEF Renew
  <1>2. HasGrant(c) /\ now' = now
    BY DEF Renew
  <1>3. grants[c] \in Grant /\ t \in Tasks /\ entries[t] \in Entry /\ at \in Nat
    BY <1>2, GrantType, AtType
  <1>4. HeldBy(t, IdOf[c]) /\ journal' = journal
    BY <1>1 DEF renew_lease
  <1>5. /\ Renewed(entries[t], at) \in Entry
        /\ Renewed(entries[t], at).state = "leased" <=> Renewed(entries[t], at).leased_by # None
    <2>1. entries[t].state = "leased" <=> entries[t].leased_by # None
      BY <1>3 DEF TypeOK
    <2>2. QED
      BY <1>3, <2>1, RenewedType
  <1>6. entries' = [entries EXCEPT ![t] = Renewed(entries[t], at)]
    BY <1>1 DEF renew_lease
  <1>7. Extended(grants[c], at) \in Grant \cup {NoGrant}
    BY <1>3, ExtendedType
  <1> HIDE DEF t
  <1>8. /\ entries' \in [Tasks -> Entry]
        /\ \A u \in Tasks : entries'[u].state = "leased" <=> entries'[u].leased_by # None
        /\ entries'[t] = Renewed(entries[t], at)
        /\ \A u \in Tasks : u # t => entries'[u] = entries[u]
    BY <1>3, <1>5, <1>6, PutEntry
  <1>9. /\ grants' \in [Callers -> Grant \cup {NoGrant}]
        /\ grants'[c] = Extended(grants[c], at)
        /\ \A d \in Callers : d # c => grants'[d] = grants[d]
    BY <1>1, <1>7, PutGrant
  <1>10. TypeOK'
    BY <1>2, <1>4, <1>8, <1>9 DEF TypeOK
  <1>11. QED
    BY <1>2, <1>3, <1>4, <1>8, <1>9, <1>10 DEF t

(* record_result closes the task of a valid lease, or changes no entry.    *)
LEMMA RecordEffect ==
    ASSUME TypeOK, NEW c \in Callers, RecordResult(c)
    PROVE  /\ TypeOK' /\ now' = now /\ HasGrant(c) /\ grants'[c] = NoGrant
           /\ \A d \in Callers : d # c => grants'[d] = grants[d]
           /\ \A u \in Tasks : u # grants[c].task => entries'[u] = entries[u]
           /\ \/ UNCHANGED entries
              \/ /\ HeldBy(grants[c].task, IdOf[c])
                 /\ \E final \in {"succeeded", "failed"} :
                      entries'[grants[c].task] = Released(entries[grants[c].task], final)
  <1> DEFINE t == grants[c].task
  <1>1. PICK ran_ok \in BOOLEAN, observed \in Bases, at \in At :
          record_result(t, IdOf[c], ran_ok, observed, at)
    BY DEF RecordResult
  <1>2. HasGrant(c) /\ now' = now /\ grants' = [grants EXCEPT ![c] = NoGrant]
    BY DEF RecordResult
  <1>3. t \in Tasks /\ entries[t] \in Entry /\ entries[t].attempt \in Nat
    <2>1. t \in Tasks /\ entries[t] \in Entry
      BY <1>2, GrantType
    <2>2. QED
      BY <2>1 DEF Entry
  <1>4. /\ grants' \in [Callers -> Grant \cup {NoGrant}]
        /\ grants'[c] = NoGrant
        /\ \A d \in Callers : d # c => grants'[d] = grants[d]
    BY <1>2, PutGrant
  <1>5. CASE ~ValidLease(t, IdOf[c], at)
    <2> DEFINE row == Row("result-rejected", entries[t].attempt)
    <2>1. entries' = entries /\ journal' = [journal EXCEPT ![t] = Append(@, row)]
      BY <1>1, <1>5 DEF record_result
    <2>2. row \in JournalRow
      BY <1>3, RowType DEF Events
    <2> HIDE DEF t, row
    <2>3. journal' \in [Tasks -> Seq(JournalRow)]
      BY <1>3, <2>1, <2>2, PutRow
    <2>4. TypeOK'
      BY <1>2, <1>4, <2>1, <2>3 DEF TypeOK
    <2>5. QED
      BY <1>2, <1>4, <2>1, <2>4
  <1>6. CASE ValidLease(t, IdOf[c], at)
    <2> DEFINE final == FinalState(t, ran_ok, observed)
               e == Released(entries[t], final)
               row == CompletedRow(entries[t], final)
    <2>1. entries' = [entries EXCEPT ![t] = e] /\ journal' = [journal EXCEPT ![t] = Append(@, row)]
      BY <1>1, <1>6 DEF record_result
    <2>2. final \in {"succeeded", "failed"}
      BY DEF FinalState
    <2>3. HeldBy(t, IdOf[c])
      BY <1>6 DEF ValidLease
    <2>4. final \in Terminal /\ final \in States /\ final # "leased"
      BY <2>2 DEF Terminal, States
    <2> HIDE DEF t, final
    <2>5. row \in JournalRow
      BY <1>3, <2>4, CompletedRowType
    <2>6. e \in Entry /\ (e.state = "leased" <=> e.leased_by # None)
      BY <1>3, <2>4, ReleasedType
    <2> HIDE DEF e, row
    <2>7. /\ entries' \in [Tasks -> Entry]
          /\ \A u \in Tasks : entries'[u].state = "leased" <=> entries'[u].leased_by # None
          /\ entries'[t] = e
          /\ \A u \in Tasks : u # t => entries'[u] = entries[u]
      BY <1>3, <2>1, <2>6, PutEntry
    <2>8. journal' \in [Tasks -> Seq(JournalRow)]
      BY <1>3, <2>1, <2>5, PutRow
    <2>9. TypeOK'
      BY <1>2, <1>4, <2>7, <2>8 DEF TypeOK
    <2>10. QED
      BY <1>2, <1>4, <2>2, <2>3, <2>7, <2>9 DEF t, e
  <1>7. QED
    BY <1>5, <1>6

(* cancel closes one open task.                                            *)
LEMMA CancelEffect ==
    ASSUME TypeOK, NEW t \in Tasks, Cancel(t)
    PROVE  /\ TypeOK' /\ UNCHANGED <<grants, now>>
           /\ entries[t].state \in {"queued", "leased"}
           /\ entries'[t] = Released(entries[t], "cancelled")
           /\ \A u \in Tasks : u # t => entries'[u] = entries[u]
  <1> DEFINE e == Released(entries[t], "cancelled")
             row == Row("cancelled", entries[t].attempt)
  <1>1. /\ entries[t].state \in {"queued", "leased"}
        /\ entries' = [entries EXCEPT ![t] = e]
        /\ journal' = [journal EXCEPT ![t] = Append(@, row)]
    BY DEF Cancel, cancel
  <1>2. UNCHANGED <<grants, now>>
    BY DEF Cancel
  <1>3. entries[t] \in Entry /\ entries[t].attempt \in Nat
    <2>1. entries[t] \in Entry
      BY DEF TypeOK
    <2>2. QED
      BY <2>1 DEF Entry
  <1>4. "cancelled" \in States
    BY DEF States, Terminal
  <1>5. e \in Entry /\ (e.state = "leased" <=> e.leased_by # None)
    BY <1>3, <1>4, ReleasedType
  <1>6. row \in JournalRow
    BY <1>3, RowType DEF Events
  <1> HIDE DEF e, row
  <1>7. /\ entries' \in [Tasks -> Entry]
        /\ \A u \in Tasks : entries'[u].state = "leased" <=> entries'[u].leased_by # None
        /\ entries'[t] = e
        /\ \A u \in Tasks : u # t => entries'[u] = entries[u]
    BY <1>1, <1>5, PutEntry
  <1>8. journal' \in [Tasks -> Seq(JournalRow)]
    BY <1>1, <1>6, PutRow
  <1>9. TypeOK'
    BY <1>2, <1>7, <1>8 DEF TypeOK
  <1>10. QED
    BY <1>1, <1>2, <1>7, <1>9 DEF e

(* reconcile releases exactly the tasks whose lease has run out.           *)
LEMMA ReconcileEffect ==
    ASSUME TypeOK, Reconcile
    PROVE  /\ TypeOK' /\ UNCHANGED <<grants, now>>
           /\ \E at \in Nat :
                /\ at <= now
                /\ \A t \in Tasks :
                     entries'[t] =
                       IF Expired(t, at)
                       THEN Released(entries[t], IF Parked(t) THEN "dead-letter" ELSE "queued")
                       ELSE entries[t]
  <1>1. PICK at \in At : reconcile(at)
    BY DEF Reconcile
  <1>2. UNCHANGED <<grants, now>>
    BY DEF Reconcile
  <1>3. at \in Nat /\ at <= now
    BY AtType
  <1> DEFINE to(t) == IF Parked(t) THEN "dead-letter" ELSE "queued"
             row(t) == Row(IF Parked(t) THEN "dead-lettered" ELSE "lease-expired", entries[t].attempt)
  <1>4. /\ entries' = [t \in Tasks |-> IF Expired(t, at) THEN Released(entries[t], to(t)) ELSE entries[t]]
        /\ journal' = [t \in Tasks |-> IF Expired(t, at) THEN Append(journal[t], row(t)) ELSE journal[t]]
    BY <1>1 DEF reconcile
  <1>5. ASSUME NEW t \in Tasks
        PROVE  /\ to(t) \in States /\ to(t) # "leased"
               /\ Released(entries[t], to(t)) \in Entry
               /\ Released(entries[t], to(t)).state # "leased"
               /\ Released(entries[t], to(t)).leased_by = None
    <2>1. to(t) \in States /\ to(t) # "leased"
      BY DEF States, Terminal
    <2>2. entries[t] \in Entry
      BY DEF TypeOK
    <2> HIDE DEF to
    <2>3. QED
      BY <2>1, <2>2, ReleasedType
  <1>6. ASSUME NEW t \in Tasks
        PROVE  row(t) \in JournalRow
    <2>1. entries[t] \in Entry
      BY DEF TypeOK
    <2>2. entries[t].attempt \in Nat
      BY <2>1 DEF Entry
    <2>3. QED
      BY <2>2, RowType DEF Events
  <1> HIDE DEF to, row
  <1>7. entries' \in [Tasks -> Entry]
    BY <1>4, <1>5 DEF TypeOK
  <1>8. \A t \in Tasks : entries'[t].state = "leased" <=> entries'[t].leased_by # None
    BY <1>4, <1>5 DEF TypeOK
  <1>9. journal' \in [Tasks -> Seq(JournalRow)]
    <2>1. ASSUME NEW t \in Tasks
          PROVE  Append(journal[t], row(t)) \in Seq(JournalRow) /\ journal[t] \in Seq(JournalRow)
      BY <1>6 DEF TypeOK
    <2>2. QED
      BY <1>4, <2>1
  <1>10. TypeOK'
    BY <1>2, <1>7, <1>8, <1>9 DEF TypeOK
  <1>11. QED
    BY <1>2, <1>3, <1>4, <1>10 DEF to

(* A crash costs a caller its grant and nothing else.                      *)
LEMMA CrashEffect ==
    ASSUME TypeOK, NEW c \in Callers, Crash(c)
    PROVE  /\ TypeOK' /\ UNCHANGED <<entries, now>> /\ grants'[c] = NoGrant
           /\ \A d \in Callers : d # c => grants'[d] = grants[d]
  <1>1. UNCHANGED <<entries, journal, now>> /\ grants' = [grants EXCEPT ![c] = NoGrant]
    BY DEF Crash
  <1>2. /\ grants' \in [Callers -> Grant \cup {NoGrant}]
        /\ grants'[c] = NoGrant
        /\ \A d \in Callers : d # c => grants'[d] = grants[d]
    BY <1>1, PutGrant
  <1>3. QED
    BY <1>1, <1>2 DEF TypeOK

(* prune_journal touches the journal only.                                 *)
LEMMA PruneEffect ==
    ASSUME TypeOK, PruneJournal
    PROVE  TypeOK' /\ UNCHANGED <<entries, grants, now>>
  <1>1. ASSUME NEW rows \in Seq(JournalRow)
        PROVE  Pruned(rows) \in Seq(JournalRow)
    BY SubSeqProperties, QueueAssumption DEF Pruned
  <1>2. /\ UNCHANGED <<entries, grants, now>>
        /\ journal' = [t \in Tasks |-> Pruned(journal[t])]
    BY DEF PruneJournal, prune_journal
  <1>3. journal' \in [Tasks -> Seq(JournalRow)]
    BY <1>1, <1>2 DEF TypeOK
  <1>4. QED
    BY <1>2, <1>3 DEF TypeOK

(* The clock moves alone.                                                  *)
LEMMA TickEffect ==
    ASSUME TypeOK, Tick
    PROVE  TypeOK' /\ UNCHANGED <<entries, grants>> /\ now' = now + 1
  BY DEF Tick, TypeOK

-----------------------------------------------------------------------------
(* Type correctness *)

(* The tables are well typed in every reachable state, and `leased_by` is  *)
(* set exactly while an entry is leased.                                   *)
THEOREM TypeCorrect == Spec => []TypeOK
<1>1. Init => TypeOK
  BY QueueAssumption DEF Init, TypeOK, NoEntry, Entry
<1>2. TypeOK /\ [Next]_vars => TypeOK'
  <2> SUFFICES ASSUME TypeOK, [Next]_vars PROVE TypeOK'
    OBVIOUS
  <2>1. CASE \E t \in Tasks, r \in Recipes, b \in Bases : Enqueue(t, r, b)
    BY <2>1, EnqueueEffect
  <2>2. CASE \E c \in Callers : Lease(c)
    BY <2>2, LeaseEffect
  <2>3. CASE \E c \in Callers : Renew(c)
    BY <2>3, RenewEffect
  <2>4. CASE \E c \in Callers : RecordResult(c)
    BY <2>4, RecordEffect
  <2>5. CASE \E c \in Callers : Crash(c)
    BY <2>5, CrashEffect
  <2>6. CASE \E t \in Tasks : Cancel(t)
    BY <2>6, CancelEffect
  <2>7. CASE Reconcile
    BY <2>7, ReconcileEffect
  <2>8. CASE PruneJournal
    BY <2>8, PruneEffect
  <2>9. CASE Tick
    BY <2>9, TickEffect
  <2>10. CASE UNCHANGED vars
    BY <2>10 DEF vars, TypeOK
  <2>11. QED
    BY <2>1, <2>2, <2>3, <2>4, <2>5, <2>6, <2>7, <2>8, <2>9, <2>10 DEF Next
<1>3. QED
  BY <1>1, <1>2, PTL DEF Spec
-----------------------------------------------------------------------------
(* Leases are honoured *)

(* The inductive invariant behind LeaseHonoured and LateResultRejected, for *)
(* one caller.  LeaseHonoured alone says nothing of a grant whose time is   *)
(* over, and nothing of the end of the lease that the entry records, which  *)
(* is what reconcile reads.                                                 *)
GrantAgrees(c) ==
    LET g == grants[c] IN
    HasGrant(c) =>
        /\ HeldBy(g.task, IdOf[c]) =>
             /\ entries[g.task].attempt = g.attempt
             /\ entries[g.task].lease_expires_at = g.lease_expires_at
        /\ now <= g.lease_expires_at =>
             HeldBy(g.task, IdOf[c]) \/ entries[g.task].state = "cancelled"

GrantInv == \A c \in Callers : GrantAgrees(c)

(* A caller that the step leaves alone, on a task that the step leaves     *)
(* alone, still agrees: time only goes forward.                            *)
LEMMA GrantKept ==
    ASSUME TypeOK, TypeOK', NEW c \in Callers, GrantAgrees(c),
           grants'[c] = grants[c], now <= now',
           HasGrant(c) => entries'[grants[c].task] = entries[grants[c].task]
    PROVE  GrantAgrees(c)'
  <1> SUFFICES ASSUME HasGrant(c)' PROVE GrantAgrees(c)'
    BY DEF GrantAgrees
  <1>1. HasGrant(c)
    BY DEF HasGrant
  <1>2. grants[c].lease_expires_at \in Nat /\ now \in Nat /\ now' \in Nat
    BY <1>1, GrantType DEF Grant, TypeOK
  <1>3. QED
    BY <1>1, <1>2 DEF GrantAgrees, HasGrant, HeldBy

(* The step of one action; ids are not shared.                             *)
LEMMA GrantInvStep ==
    ASSUME DistinctIds, TypeOK, GrantInv, [Next]_vars
    PROVE  GrantInv'
<1> SUFFICES ASSUME NEW c \in Callers PROVE GrantAgrees(c)'
  BY DEF GrantInv
<1>0. GrantAgrees(c)
  BY DEF GrantInv
<1>a. HasGrant(c) => /\ grants[c] \in Grant /\ grants[c].task \in Tasks
                     /\ grants[c].lease_expires_at \in Nat
                     /\ entries[grants[c].task] \in Entry
  BY GrantType DEF Grant
<1>b. now \in Nat /\ now <= now
  BY DEF TypeOK
<1>1. ASSUME NEW t \in Tasks, NEW r \in Recipes, NEW b \in Bases, Enqueue(t, r, b)
      PROVE  GrantAgrees(c)'
  <2>1. /\ TypeOK' /\ UNCHANGED <<grants, now>>
        /\ \A u \in Tasks : u # t => entries'[u] = entries[u]
        /\ \/ UNCHANGED entries
           \/ /\ entries[t].state = "absent"
              /\ \E at \in Nat : entries'[t] = NewEntry(r, b, at)
    BY <1>1, EnqueueEffect
  <2>2. CASE UNCHANGED entries \/ ~HasGrant(c) \/ grants[c].task # t
    BY <1>0, <1>a, <1>b, <2>1, <2>2, GrantKept
  <2>3. CASE ~UNCHANGED entries /\ HasGrant(c) /\ grants[c].task = t
    <3>1. entries[t].state = "absent" /\ entries'[t].state = "queued"
      BY <2>1, <2>3, NewEntryType
    <3>2. ~(now <= grants[c].lease_expires_at)
      BY <1>0, <2>3, <3>1 DEF GrantAgrees, HeldBy
    <3>3. QED
      BY <2>1, <2>3, <3>1, <3>2 DEF GrantAgrees, HeldBy, HasGrant
  <2>4. QED
    BY <2>2, <2>3
<1>2. ASSUME NEW d \in Callers, Lease(d)
      PROVE  GrantAgrees(c)'
  <2>1. /\ TypeOK' /\ now' = now /\ ~HasGrant(d)
        /\ \A x \in Callers : x # d => grants'[x] = grants[x]
    BY <1>2, LeaseEffect
  <2>2. PICK t \in Tasks, at \in Nat :
          /\ entries[t].state = "queued"
          /\ entries'[t] = Leased(entries[t], IdOf[d], at)
          /\ grants'[d] = Granted(t, at)
          /\ \A u \in Tasks : u # t => entries'[u] = entries[u]
    BY <1>2, LeaseEffect
  <2>3. entries[t] \in Entry /\ IdOf[d] \in WorkerIds
    BY IdType DEF TypeOK
  <2>4. /\ entries'[t].state = "leased" /\ entries'[t].leased_by = IdOf[d]
        /\ entries'[t].attempt = entries[t].attempt + 1
        /\ entries'[t].lease_expires_at = at + TTL
    BY <2>2, <2>3, LeasedType
  <2>5. CASE c = d
    <3>1. /\ grants'[c].task = t /\ grants'[c].attempt = entries[t].attempt + 1
          /\ grants'[c].lease_expires_at = at + TTL
      BY <2>2, <2>3, <2>5, GrantedType
    <3>2. QED
      BY <2>4, <2>5, <3>1 DEF GrantAgrees, HeldBy
  <2>6. CASE c # d /\ (~HasGrant(c) \/ grants[c].task # t)
    BY <1>0, <1>a, <1>b, <2>1, <2>2, <2>6, GrantKept
  <2>7. CASE c # d /\ HasGrant(c) /\ grants[c].task = t
    <3>1. IdOf[c] # IdOf[d]
      BY <2>7 DEF DistinctIds
    <3>2. ~(now <= grants[c].lease_expires_at)
      BY <1>0, <2>2, <2>7 DEF GrantAgrees, HeldBy
    <3>3. grants'[c] = grants[c]
      BY <2>1, <2>7
    <3>4. QED
      BY <2>1, <2>4, <2>7, <3>1, <3>2, <3>3 DEF GrantAgrees, HeldBy, HasGrant
  <2>8. QED
    BY <2>5, <2>6, <2>7
<1>3. ASSUME NEW d \in Callers, Renew(d)
      PROVE  GrantAgrees(c)'
  <2> DEFINE t == grants[d].task
  <2>1. /\ TypeOK' /\ now' = now /\ HasGrant(d) /\ HeldBy(t, IdOf[d])
        /\ \A x \in Callers : x # d => grants'[x] = grants[x]
        /\ \A u \in Tasks : u # t => entries'[u] = entries[u]
    BY <1>3, RenewEffect
  <2>2. PICK at \in Nat : /\ entries'[t] = Renewed(entries[t], at)
                          /\ grants'[d] = Extended(grants[d], at)
    BY <1>3, RenewEffect
  <2>3. grants[d] \in Grant /\ t \in Tasks /\ entries[t] \in Entry
    BY <2>1, GrantType
  <2>4. /\ entries'[t].state = entries[t].state /\ entries'[t].leased_by = entries[t].leased_by
        /\ entries'[t].attempt = entries[t].attempt
        /\ entries'[t].lease_expires_at = at + TTL
    BY <2>2, <2>3, RenewedType
  <2>5. CASE c = d
    <3>1. /\ grants'[c].task = t /\ grants'[c].attempt = grants[c].attempt
          /\ grants'[c].lease_expires_at = at + TTL
      BY <2>2, <2>3, <2>5, ExtendedType
    <3>2. entries[t].attempt = grants[c].attempt
      BY <1>0, <2>1, <2>5 DEF GrantAgrees
    <3>3. entries'[t].state = "leased" /\ entries'[t].leased_by = IdOf[c]
      BY <2>1, <2>4, <2>5 DEF HeldBy
    <3> HIDE DEF t
    <3>4. QED
      BY <2>4, <3>1, <3>2, <3>3 DEF GrantAgrees, HeldBy
  <2>6. CASE c # d /\ (~HasGrant(c) \/ grants[c].task # t)
    BY <1>0, <1>a, <1>b, <2>1, <2>6, GrantKept
  <2>7. CASE c # d /\ HasGrant(c) /\ grants[c].task = t
    <3>1. IdOf[c] # IdOf[d] /\ entries[t].state = "leased" /\ entries[t].leased_by = IdOf[d]
      BY <2>1, <2>7 DEF DistinctIds, HeldBy
    <3>2. ~(now <= grants[c].lease_expires_at)
      BY <1>0, <2>7, <3>1 DEF GrantAgrees, HeldBy
    <3>3. grants'[c] = grants[c]
      BY <2>1, <2>7
    <3>4. QED
      BY <2>1, <2>4, <2>7, <3>1, <3>2, <3>3 DEF GrantAgrees, HeldBy, HasGrant
  <2>8. QED
    BY <2>5, <2>6, <2>7
<1>4. ASSUME NEW d \in Callers, RecordResult(d)
      PROVE  GrantAgrees(c)'
  <2> DEFINE t == grants[d].task
  <2>1. /\ TypeOK' /\ now' = now /\ HasGrant(d) /\ grants'[d] = NoGrant
        /\ \A x \in Callers : x # d => grants'[x] = grants[x]
        /\ \A u \in Tasks : u # t => entries'[u] = entries[u]
        /\ UNCHANGED entries \/ /\ HeldBy(t, IdOf[d])
                                /\ \E final \in {"succeeded", "failed"} :
                                     entries'[t] = Released(entries[t], final)
    BY <1>4, RecordEffect
  <2>2. CASE c = d
    BY <2>1, <2>2 DEF GrantAgrees, HasGrant
  <2>3. CASE c # d /\ (UNCHANGED entries \/ ~HasGrant(c) \/ grants[c].task # t)
    BY <1>0, <1>a, <1>b, <2>1, <2>3, GrantKept
  <2>4. CASE c # d /\ ~UNCHANGED entries /\ HasGrant(c) /\ grants[c].task = t
    <3>1. IdOf[c] # IdOf[d] /\ entries[t].state = "leased" /\ entries[t].leased_by = IdOf[d]
      BY <2>1, <2>4 DEF DistinctIds, HeldBy
    <3>2. ~(now <= grants[c].lease_expires_at)
      BY <1>0, <2>4, <3>1 DEF GrantAgrees, HeldBy
    <3>3. entries'[t].state # "leased"
      <4>1. PICK final \in {"succeeded", "failed"} : entries'[t] = Released(entries[t], final)
        BY <2>1, <2>4
      <4>2. final \in States /\ final # "leased"
        BY DEF States, Terminal
      <4>3. entries[t] \in Entry
        BY <2>1, GrantType
      <4>4. QED
        BY <4>1, <4>2, <4>3, ReleasedType
    <3>4. grants'[c] = grants[c]
      BY <2>1, <2>4
    <3>5. QED
      BY <2>1, <2>4, <3>2, <3>3, <3>4 DEF GrantAgrees, HeldBy, HasGrant
  <2>5. QED
    BY <2>2, <2>3, <2>4
<1>5. ASSUME NEW d \in Callers, Crash(d)
      PROVE  GrantAgrees(c)'
  <2>1. /\ TypeOK' /\ UNCHANGED <<entries, now>> /\ grants'[d] = NoGrant
        /\ \A x \in Callers : x # d => grants'[x] = grants[x]
    BY <1>5, CrashEffect
  <2>2. CASE c = d
    BY <2>1, <2>2 DEF GrantAgrees, HasGrant
  <2>3. CASE c # d
    BY <1>0, <1>b, <2>1, <2>3, GrantKept
  <2>4. QED
    BY <2>2, <2>3
<1>6. ASSUME NEW t \in Tasks, Cancel(t)
      PROVE  GrantAgrees(c)'
  <2>1. /\ TypeOK' /\ UNCHANGED <<grants, now>>
        /\ entries'[t] = Released(entries[t], "cancelled")
        /\ \A u \in Tasks : u # t => entries'[u] = entries[u]
    BY <1>6, CancelEffect
  <2>2. entries'[t].state = "cancelled"
    <3>1. entries[t] \in Entry /\ "cancelled" \in States
      BY DEF TypeOK, States, Terminal
    <3>2. QED
      BY <2>1, <3>1, ReleasedType
  <2>3. CASE ~HasGrant(c) \/ grants[c].task # t
    BY <1>0, <1>a, <1>b, <2>1, <2>3, GrantKept
  <2>4. CASE HasGrant(c) /\ grants[c].task = t
    BY <2>1, <2>2, <2>4 DEF GrantAgrees, HeldBy, HasGrant
  <2>5. QED
    BY <2>3, <2>4
<1>7. ASSUME Reconcile
      PROVE  GrantAgrees(c)'
  <2>1. TypeOK' /\ UNCHANGED <<grants, now>>
    BY <1>7, ReconcileEffect
  <2>2. PICK at \in Nat :
          /\ at <= now
          /\ \A t \in Tasks :
               entries'[t] = IF Expired(t, at)
                             THEN Released(entries[t], IF Parked(t) THEN "dead-letter" ELSE "queued")
                             ELSE entries[t]
    BY <1>7, ReconcileEffect
  <2> DEFINE t == grants[c].task
  <2>3. CASE ~HasGrant(c) \/ ~Expired(t, at)
    BY <1>0, <1>a, <1>b, <2>1, <2>2, <2>3, GrantKept
  <2>4. CASE HasGrant(c) /\ Expired(t, at)
    <3>1. t \in Tasks /\ entries[t] \in Entry /\ grants[c].lease_expires_at \in Nat
      BY <1>a, <2>4
    <3>2. entries'[t].state # "leased"
      <4>1. PICK to \in {"dead-letter", "queued"} : entries'[t] = Released(entries[t], to)
        BY <2>2, <2>4, <3>1
      <4>2. to \in States /\ to # "leased"
        BY DEF States, Terminal
      <4>3. QED
        BY <3>1, <4>1, <4>2, ReleasedType
    <3>3. entries[t].state = "leased" /\ entries[t].lease_expires_at < at
      BY <2>4 DEF Expired
    <3>4. entries[t].lease_expires_at \in Nat
      BY <3>1 DEF Entry
    <3>5. ~(now <= grants[c].lease_expires_at)
      <4>1. CASE HeldBy(t, IdOf[c])
        <5>1. entries[t].lease_expires_at = grants[c].lease_expires_at
          BY <1>0, <2>4, <4>1 DEF GrantAgrees
        <5> HIDE DEF t
        <5>2. QED
          BY <1>b, <2>2, <3>1, <3>3, <3>4, <5>1
      <4>2. CASE ~HeldBy(t, IdOf[c])
        BY <1>0, <2>4, <3>3, <4>2 DEF GrantAgrees
      <4>3. QED
        BY <4>1, <4>2
    <3>6. QED
      BY <2>1, <2>4, <3>2, <3>5 DEF GrantAgrees, HeldBy, HasGrant
  <2>5. QED
    BY <2>3, <2>4
<1>8. ASSUME PruneJournal
      PROVE  GrantAgrees(c)'
  BY <1>0, <1>b, <1>8, PruneEffect, GrantKept
<1>9. ASSUME Tick
      PROVE  GrantAgrees(c)'
  <2>1. TypeOK' /\ UNCHANGED <<entries, grants>> /\ now' = now + 1
    BY <1>9, TickEffect
  <2>2. now <= now'
    BY <1>b, <2>1
  <2>3. QED
    BY <1>0, <2>1, <2>2, GrantKept
<1>10. CASE UNCHANGED vars
  BY <1>0, <1>10 DEF vars, GrantAgrees, HasGrant, HeldBy
<1>11. QED
  BY <1>1, <1>2, <1>3, <1>4, <1>5, <1>6, <1>7, <1>8, <1>9, <1>10 DEF Next

(* The inductive invariant holds in every reachable state.                 *)
LEMMA GrantInvariance ==
    ASSUME DistinctIds
    PROVE  Spec => []GrantInv
<1>1. Init => GrantInv
  BY DEF Init, GrantInv, GrantAgrees, HasGrant
<1>2. TypeOK /\ GrantInv /\ [Next]_vars => GrantInv'
  BY GrantInvStep
<1>3. QED
  BY <1>1, <1>2, TypeCorrect, PTL DEF Spec

(* With worker ids that are not shared, a caller holds its task until the   *)
(* time it was told, unless the task is cancelled: no reconcile, no other   *)
(* caller and no late result takes it away.                                *)
THEOREM LeaseSafety ==
    ASSUME DistinctIds
    PROVE  Spec => []LeaseHonoured
<1>1. GrantInv => LeaseHonoured
  BY DEF GrantInv, GrantAgrees, LeaseHonoured, HasGrant
<1>2. QED
  BY <1>1, GrantInvariance, PTL
(* With worker ids that are not shared, a result closes a task only when   *)
(* it comes from the caller that was granted the attempt that is running.  *)
THEOREM LateResultSafety ==
    ASSUME DistinctIds
    PROVE  Spec => LateResultRejected
<1> DEFINE Accepted(t) == \E c \in Callers : /\ grants[c].task = t /\ grants'[c] = NoGrant
                                             /\ grants[c].attempt = entries[t].attempt
<1>1. ASSUME TypeOK, GrantInv, [Next]_vars, NEW t \in Tasks, ResultTaken(t)
      PROVE  Accepted(t)
  <2>0. entries[t].state = "leased" /\ entries'[t].state \in {"succeeded", "failed"}
    BY <1>1 DEF ResultTaken
  <2>a. entries[t] \in Entry
    BY <1>1 DEF TypeOK
  <2>1. ASSUME NEW u \in Tasks, NEW r \in Recipes, NEW b \in Bases, Enqueue(u, r, b)
        PROVE  FALSE
    <3>1. \/ entries'[t] = entries[t]
          \/ entries[t].state = "absent"
      BY <1>1, <2>1, EnqueueEffect
    <3>2. QED
      BY <2>0, <3>1
  <2>2. ASSUME NEW d \in Callers, Lease(d)
        PROVE  FALSE
    <3>1. entries'[t] = entries[t] \/ entries[t].state = "queued"
      BY <1>1, <2>2, LeaseEffect
    <3>2. QED
      BY <2>0, <3>1
  <2>3. ASSUME NEW d \in Callers, Renew(d)
        PROVE  FALSE
    <3>1. entries'[t] = entries[t] \/ \E at \in Nat : entries'[t] = Renewed(entries[t], at)
      BY <1>1, <2>3, RenewEffect
    <3>2. entries'[t].state = entries[t].state
      BY <2>a, <3>1, RenewedType
    <3>3. QED
      BY <2>0, <3>2
  <2>4. ASSUME NEW d \in Callers, RecordResult(d)
        PROVE  Accepted(t)
    <3>1. /\ HasGrant(d) /\ grants'[d] = NoGrant
          /\ \A u \in Tasks : u # grants[d].task => entries'[u] = entries[u]
          /\ UNCHANGED entries \/ HeldBy(grants[d].task, IdOf[d])
      BY <1>1, <2>4, RecordEffect
    <3>2. entries'[t] # entries[t]
      BY <2>0
    <3>3. grants[d].task = t /\ HeldBy(t, IdOf[d])
      BY <3>1, <3>2
    <3>4. grants[d].attempt = entries[t].attempt
      BY <1>1, <3>1, <3>3 DEF GrantInv, GrantAgrees
    <3>5. QED
      BY <3>1, <3>3, <3>4
  <2>5. ASSUME NEW d \in Callers, Crash(d)
        PROVE  FALSE
    BY <1>1, <2>0, <2>5, CrashEffect
  <2>6. ASSUME NEW u \in Tasks, Cancel(u)
        PROVE  FALSE
    <3>1. entries'[t] = entries[t] \/ entries'[t] = Released(entries[t], "cancelled")
      BY <1>1, <2>6, CancelEffect
    <3>2. "cancelled" \in States
      BY DEF States, Terminal
    <3>3. QED
      BY <2>0, <2>a, <3>1, <3>2, ReleasedType
  <2>7. ASSUME Reconcile
        PROVE  FALSE
    <3>1. \/ entries'[t] = entries[t]
          \/ \E to \in {"dead-letter", "queued"} : entries'[t] = Released(entries[t], to)
      BY <1>1, <2>7, ReconcileEffect
    <3>2. \A to \in {"dead-letter", "queued"} : to \in States
      BY DEF States, Terminal
    <3>3. QED
      BY <2>0, <2>a, <3>1, <3>2, ReleasedType
  <2>8. ASSUME PruneJournal
        PROVE  FALSE
    BY <1>1, <2>0, <2>8, PruneEffect
  <2>9. ASSUME Tick
        PROVE  FALSE
    BY <1>1, <2>0, <2>9, TickEffect
  <2>10. CASE UNCHANGED vars
    BY <2>0, <2>10 DEF vars
  <2>11. QED
    BY <1>1, <2>1, <2>2, <2>3, <2>4, <2>5, <2>6, <2>7, <2>8, <2>9, <2>10 DEF Next
<1>2. TypeOK /\ GrantInv /\ [Next]_vars =>
        [\A t \in Tasks : ResultTaken(t) => Accepted(t)]_vars
  BY <1>1
<1>3. QED
  BY <1>2, TypeCorrect, GrantInvariance, PTL DEF Spec, LateResultRejected
-----------------------------------------------------------------------------
(* The queue implements TaskLedger: seen through JobsView, every step is a *)
(* step of the ledger or leaves it alone.                                  *)

(* What the steps of the ledger need to know of the attempts: a queued     *)
(* task has one left (lease never looks), a leased task has used one.      *)
AttemptsRight(t) ==
    /\ entries[t].state = "queued" => ~Parked(t)
    /\ entries[t].state = "leased" => entries[t].attempt > 0

AttemptInv == \A t \in Tasks : AttemptsRight(t)

(* An entry that a step leaves alone keeps its attempts.                   *)
LEMMA AttemptsKept ==
    ASSUME NEW t \in Tasks, AttemptsRight(t), entries'[t] = entries[t]
    PROVE  AttemptsRight(t)'
  BY DEF AttemptsRight, Parked

(* Every step keeps the invariant.                                         *)
LEMMA AttemptInvStep ==
    ASSUME TypeOK, AttemptInv, [Next]_vars
    PROVE  AttemptInv'
<1> SUFFICES ASSUME NEW t \in Tasks PROVE AttemptsRight(t)'
  BY DEF AttemptInv
<1>0. AttemptsRight(t) /\ entries[t] \in Entry /\ entries[t].attempt \in Nat
  <2>1. AttemptsRight(t) /\ entries[t] \in Entry
    BY DEF AttemptInv, TypeOK
  <2>2. QED
    BY <2>1 DEF Entry
<1>1. ASSUME NEW u \in Tasks, NEW r \in Recipes, NEW b \in Bases, Enqueue(u, r, b)
      PROVE  AttemptsRight(t)'
  <2>1. entries'[t] = entries[t] \/ \E at \in Nat : entries'[t] = NewEntry(r, b, at)
    BY <1>1, EnqueueEffect
  <2>2. CASE \E at \in Nat : entries'[t] = NewEntry(r, b, at)
    <3>1. entries'[t].state = "queued" /\ entries'[t].attempt = 0
      BY <2>2, NewEntryType
    <3>2. QED
      BY <3>1, QueueAssumption DEF AttemptsRight, Parked
  <2>3. QED
    BY <1>0, <2>1, <2>2, AttemptsKept
<1>2. ASSUME NEW d \in Callers, Lease(d)
      PROVE  AttemptsRight(t)'
  <2>1. entries'[t] = entries[t] \/ \E at \in Nat : entries'[t] = Leased(entries[t], IdOf[d], at)
    BY <1>2, LeaseEffect
  <2>2. CASE \E at \in Nat : entries'[t] = Leased(entries[t], IdOf[d], at)
    <3>1. entries'[t].state = "leased" /\ entries'[t].attempt = entries[t].attempt + 1
      BY <1>0, <2>2, IdType, LeasedType
    <3>2. QED
      BY <1>0, <3>1 DEF AttemptsRight
  <2>3. QED
    BY <1>0, <2>1, <2>2, AttemptsKept
<1>3. ASSUME NEW d \in Callers, Renew(d)
      PROVE  AttemptsRight(t)'
  <2>1. entries'[t] = entries[t] \/ \E at \in Nat : entries'[t] = Renewed(entries[t], at)
    BY <1>3, RenewEffect
  <2>2. entries'[t].state = entries[t].state /\ entries'[t].attempt = entries[t].attempt
    BY <1>0, <2>1, RenewedType
  <2>3. QED
    BY <1>0, <2>2 DEF AttemptsRight, Parked
<1>4. ASSUME NEW d \in Callers, RecordResult(d)
      PROVE  AttemptsRight(t)'
  <2>1. \/ entries'[t] = entries[t]
        \/ \E final \in {"succeeded", "failed"} : entries'[t] = Released(entries[t], final)
    BY <1>4, RecordEffect
  <2>2. CASE \E final \in {"succeeded", "failed"} : entries'[t] = Released(entries[t], final)
    <3>1. \A final \in {"succeeded", "failed"} : final \in States
      BY DEF States, Terminal
    <3>2. entries'[t].state \in {"succeeded", "failed"}
      BY <1>0, <2>2, <3>1, ReleasedType
    <3>3. QED
      BY <3>2 DEF AttemptsRight
  <2>3. QED
    BY <1>0, <2>1, <2>2, AttemptsKept
<1>5. ASSUME NEW d \in Callers, Crash(d)
      PROVE  AttemptsRight(t)'
  BY <1>0, <1>5, CrashEffect, AttemptsKept
<1>6. ASSUME NEW u \in Tasks, Cancel(u)
      PROVE  AttemptsRight(t)'
  <2>1. entries'[t] = entries[t] \/ entries'[t] = Released(entries[t], "cancelled")
    BY <1>6, CancelEffect
  <2>2. CASE entries'[t] = Released(entries[t], "cancelled")
    <3>1. "cancelled" \in States
      BY DEF States, Terminal
    <3>2. entries'[t].state = "cancelled"
      BY <1>0, <2>2, <3>1, ReleasedType
    <3>3. QED
      BY <3>2 DEF AttemptsRight
  <2>3. QED
    BY <1>0, <2>1, <2>2, AttemptsKept
<1>7. ASSUME Reconcile
      PROVE  AttemptsRight(t)'
  <2>1. \/ entries'[t] = entries[t]
        \/ entries'[t] = Released(entries[t], IF Parked(t) THEN "dead-letter" ELSE "queued")
    BY <1>7, ReconcileEffect
  <2>2. CASE Parked(t) /\ entries'[t] = Released(entries[t], "dead-letter")
    <3>1. "dead-letter" \in States
      BY DEF States, Terminal
    <3>2. entries'[t].state = "dead-letter"
      BY <1>0, <2>2, <3>1, ReleasedType
    <3>3. QED
      BY <3>2 DEF AttemptsRight
  <2>3. CASE ~Parked(t) /\ entries'[t] = Released(entries[t], "queued")
    <3>1. "queued" \in States
      BY DEF States
    <3>2. entries'[t].state = "queued" /\ entries'[t].attempt = entries[t].attempt
      BY <1>0, <2>3, <3>1, ReleasedType
    <3>3. QED
      BY <2>3, <3>2 DEF AttemptsRight, Parked
  <2>4. QED
    BY <1>0, <2>1, <2>2, <2>3, AttemptsKept
<1>8. ASSUME PruneJournal
      PROVE  AttemptsRight(t)'
  BY <1>0, <1>8, PruneEffect, AttemptsKept
<1>9. ASSUME Tick
      PROVE  AttemptsRight(t)'
  BY <1>0, <1>9, TickEffect, AttemptsKept
<1>10. CASE UNCHANGED vars
  BY <1>0, <1>10, AttemptsKept DEF vars
<1>11. QED
  BY <1>1, <1>2, <1>3, <1>4, <1>5, <1>6, <1>7, <1>8, <1>9, <1>10 DEF Next

(* The attempts invariant holds in every reachable state.                  *)
LEMMA AttemptInvariance == Spec => []AttemptInv
<1>1. Init => AttemptInv
  <2>1. NoEntry.state = "absent"
    BY DEF NoEntry
  <2>2. QED
    BY <2>1 DEF Init, AttemptInv, AttemptsRight
<1>2. TypeOK /\ AttemptInv /\ [Next]_vars => AttemptInv'
  BY AttemptInvStep
<1>3. QED
  BY <1>1, <1>2, TypeCorrect, PTL DEF Spec

-----------------------------------------------------------------------------
(* The view *)

(* The job of an entry has the entry's recipe, base and attempts.          *)
LEMMA JobFields ==
    ASSUME NEW e
    PROVE  /\ JobOf(e).recipe = e.recipe /\ JobOf(e).base = e.base /\ JobOf(e).tries = e.attempt
           /\ JobOf(e).phase = IF e.state \in {"queued", "leased"} THEN "open" ELSE e.state
  BY DEF JobOf

(* Two entries that differ in lease columns only are the same job.         *)
LEMMA SameJob ==
    ASSUME NEW e, NEW f, f.recipe = e.recipe, f.base = e.base, f.attempt = e.attempt,
           \/ f.state = e.state
           \/ f.state \in {"queued", "leased"} /\ e.state \in {"queued", "leased"}
    PROVE  JobOf(f) = JobOf(e)
  BY DEF JobOf

(* The view of a step that changes one entry changes one job.              *)
LEMMA ViewPut ==
    ASSUME NEW t \in Tasks, \A u \in Tasks : u # t => entries'[u] = entries[u]
    PROVE  JobsView' = [JobsView EXCEPT ![t] = JobOf(entries'[t])]
  BY DEF JobsView

(* A step that changes no job leaves the view alone.                       *)
LEMMA ViewKept ==
    ASSUME \A t \in Tasks : JobOf(entries'[t]) = JobOf(entries[t])
    PROVE  JobsView' = JobsView
  BY DEF JobsView

(* Closing a job is writing its verdict.                                   *)
LEMMA JobClosed ==
    ASSUME NEW e \in Entry, NEW verdict \in Terminal
    PROVE  JobOf(Released(e, verdict)) = [JobOf(e) EXCEPT !.phase = verdict]
  <1>1. verdict \in States /\ verdict \notin {"queued", "leased"}
    BY DEF States, Terminal
  <1>2. /\ Released(e, verdict).state = verdict
        /\ Released(e, verdict).attempt = e.attempt
        /\ Released(e, verdict).recipe = e.recipe
        /\ Released(e, verdict).base = e.base
    BY <1>1, ReleasedType
  <1>3. QED
    BY <1>1, <1>2 DEF JobOf
-----------------------------------------------------------------------------
(* The steps *)

(* The view of the empty tables is the empty ledger.                       *)
LEMMA LedgerInit ==
    ASSUME Init
    PROVE  Ledger!Init
  <1>1. JobOf(NoEntry) = Ledger!NoJob
    BY DEF JobOf, NoEntry, Ledger!NoJob
  <1>2. \A t \in Tasks : entries[t] = NoEntry
    BY DEF Init
  <1>3. QED
    BY <1>1, <1>2 DEF Ledger!Init, JobsView

(* A step of the queue is a step of the ledger or leaves it alone.         *)
LEMMA LedgerStep ==
    ASSUME TypeOK, AttemptInv, [Next]_vars
    PROVE  Ledger!Next \/ UNCHANGED JobsView
<1>a. \A t \in Tasks : /\ entries[t] \in Entry /\ entries[t].attempt \in Nat
                       /\ AttemptsRight(t) /\ JobsView[t] = JobOf(entries[t])
  <2>1. \A t \in Tasks : entries[t] \in Entry /\ AttemptsRight(t) /\ JobsView[t] = JobOf(entries[t])
    BY DEF TypeOK, AttemptInv, JobsView
  <2>2. QED
    BY <2>1 DEF Entry
<1>b. UNCHANGED entries => UNCHANGED JobsView
  BY DEF JobsView
<1>1. ASSUME NEW t \in Tasks, NEW r \in Recipes, NEW b \in Bases, Enqueue(t, r, b)
      PROVE  Ledger!Next \/ UNCHANGED JobsView
  <2>1. /\ \A u \in Tasks : u # t => entries'[u] = entries[u]
        /\ \/ UNCHANGED entries
           \/ /\ entries[t].state = "absent"
              /\ \E at \in Nat : entries'[t] = NewEntry(r, b, at)
    BY <1>1, EnqueueEffect
  <2>2. CASE UNCHANGED entries
    BY <1>b, <2>2
  <2>3. CASE ~UNCHANGED entries
    <3>1. PICK at \in Nat : entries'[t] = NewEntry(r, b, at)
      BY <2>1, <2>3
    <3>2. JobOf(entries'[t]) = [phase |-> "open", recipe |-> r, base |-> b, tries |-> 0]
      BY <3>1, NewEntryType DEF JobOf
    <3>3. JobsView[t].phase = "absent"
      BY <1>a, <2>1, <2>3, JobFields
    <3>4. Ledger!Submit(t, r, b)
      BY <2>1, <3>2, <3>3, ViewPut DEF Ledger!Submit
    <3>5. QED
      BY <3>4 DEF Ledger!Next
  <2>4. QED
    BY <2>2, <2>3
<1>2. ASSUME NEW d \in Callers, Lease(d)
      PROVE  Ledger!Next \/ UNCHANGED JobsView
  <2>1. PICK t \in Tasks, at \in Nat :
          /\ entries[t].state = "queued"
          /\ entries'[t] = Leased(entries[t], IdOf[d], at)
          /\ \A u \in Tasks : u # t => entries'[u] = entries[u]
    BY <1>2, LeaseEffect
  <2>2. /\ entries'[t].state = "leased" /\ entries'[t].attempt = entries[t].attempt + 1
        /\ entries'[t].recipe = entries[t].recipe /\ entries'[t].base = entries[t].base
    BY <1>a, <2>1, IdType, LeasedType
  <2>3. JobOf(entries'[t]) = [JobOf(entries[t]) EXCEPT !.tries = JobOf(entries[t]).tries + 1]
    BY <2>1, <2>2 DEF JobOf
  <2>4. JobsView[t].phase = "open" /\ ~Ledger!Exhausted(t)
    <3>1. JobOf(entries[t]).phase = "open" /\ JobOf(entries[t]).tries = entries[t].attempt
      BY <2>1, JobFields
    <3>2. ~Parked(t)
      BY <1>a, <2>1 DEF AttemptsRight
    <3>3. QED
      BY <1>a, <3>1, <3>2 DEF Ledger!Exhausted, Parked
  <2>5. Ledger!Try(t)
    BY <1>a, <2>1, <2>3, <2>4, ViewPut DEF Ledger!Try, Ledger!Open
  <2>6. QED
    BY <2>5 DEF Ledger!Next
<1>3. ASSUME NEW d \in Callers, Renew(d)
      PROVE  UNCHANGED JobsView
  <2>1. ASSUME NEW t \in Tasks
        PROVE  JobOf(entries'[t]) = JobOf(entries[t])
    <3>1. entries'[t] = entries[t] \/ \E at \in Nat : entries'[t] = Renewed(entries[t], at)
      BY <1>3, RenewEffect
    <3>2. /\ entries'[t].state = entries[t].state /\ entries'[t].attempt = entries[t].attempt
          /\ entries'[t].recipe = entries[t].recipe /\ entries'[t].base = entries[t].base
      <4>1. entries[t] \in Entry
        BY <1>a
      <4>2. ASSUME NEW at \in Nat, entries'[t] = Renewed(entries[t], at)
            PROVE  /\ entries'[t].state = entries[t].state /\ entries'[t].attempt = entries[t].attempt
                   /\ entries'[t].recipe = entries[t].recipe /\ entries'[t].base = entries[t].base
        BY <4>1, <4>2, RenewedType
      <4> QED
        BY <3>1, <4>2
    <3>3. QED
      BY <3>2, SameJob
  <2>2. QED
    BY <2>1, ViewKept
<1>4. ASSUME NEW d \in Callers, RecordResult(d)
      PROVE  Ledger!Next \/ UNCHANGED JobsView
  <2> DEFINE t == grants[d].task
  <2>1. /\ HasGrant(d)
        /\ \A u \in Tasks : u # t => entries'[u] = entries[u]
        /\ \/ UNCHANGED entries
           \/ /\ HeldBy(t, IdOf[d])
              /\ \E final \in {"succeeded", "failed"} : entries'[t] = Released(entries[t], final)
    BY <1>4, RecordEffect
  <2>2. CASE UNCHANGED entries
    BY <1>b, <2>2
  <2>3. CASE ~UNCHANGED entries
    <3>1. t \in Tasks
      BY <2>1, GrantType
    <3>2. PICK final \in {"succeeded", "failed"} : entries'[t] = Released(entries[t], final)
      BY <2>1, <2>3
    <3>3. entries[t].state = "leased"
      BY <2>1, <2>3 DEF HeldBy
    <3> HIDE DEF t
    <3>4. final \in Terminal
      BY DEF Terminal
    <3>5. JobOf(entries'[t]) = [JobsView[t] EXCEPT !.phase = final]
      BY <1>a, <3>1, <3>2, <3>4, JobClosed
    <3>6. JobsView[t].phase = "open" /\ JobsView[t].tries > 0
      <4>1. JobOf(entries[t]).phase = "open" /\ JobOf(entries[t]).tries = entries[t].attempt
        BY <3>3, JobFields
      <4>2. entries[t].attempt > 0
        BY <1>a, <3>1, <3>3 DEF AttemptsRight
      <4>3. QED
        BY <1>a, <3>1, <4>1, <4>2
    <3>7. Ledger!Close(t, final)
      BY <2>1, <3>1, <3>5, <3>6, ViewPut DEF Ledger!Close, Ledger!Open
    <3>8. QED
      BY <3>1, <3>7 DEF Ledger!Next
  <2>4. QED
    BY <2>2, <2>3
<1>5. ASSUME NEW d \in Callers, Crash(d)
      PROVE  UNCHANGED JobsView
  BY <1>b, <1>5, CrashEffect
<1>6. ASSUME NEW t \in Tasks, Cancel(t)
      PROVE  Ledger!Next
  <2>1. /\ entries[t].state \in {"queued", "leased"}
        /\ entries'[t] = Released(entries[t], "cancelled")
        /\ \A u \in Tasks : u # t => entries'[u] = entries[u]
    BY <1>6, CancelEffect
  <2>2. "cancelled" \in Terminal
    BY DEF Terminal
  <2>3. JobOf(entries'[t]) = [JobsView[t] EXCEPT !.phase = "cancelled"]
    BY <1>a, <2>1, <2>2, JobClosed
  <2>4. JobsView[t].phase = "open"
    BY <1>a, <2>1, JobFields
  <2>5. Ledger!Close(t, "cancelled")
    BY <2>1, <2>3, <2>4, ViewPut DEF Ledger!Close, Ledger!Open
  <2>6. QED
    BY <2>5 DEF Ledger!Next
<1>7. ASSUME Reconcile
      PROVE  Ledger!Next
  <2>1. PICK at \in Nat :
          \A t \in Tasks :
            entries'[t] = IF Expired(t, at)
                          THEN Released(entries[t], IF Parked(t) THEN "dead-letter" ELSE "queued")
                          ELSE entries[t]
    BY <1>7, ReconcileEffect
  <2> DEFINE S == {t \in Tasks : Expired(t, at) /\ Parked(t)}
  <2>2. ASSUME NEW t \in S
        PROVE  /\ Ledger!Open(t) /\ Ledger!Exhausted(t)
               /\ JobOf(entries'[t]) = [JobsView[t] EXCEPT !.phase = "dead-letter"]
    <3>1. t \in Tasks /\ entries[t].state = "leased" /\ Parked(t)
      BY DEF Expired
    <3>2. "dead-letter" \in Terminal
      BY DEF Terminal
    <3>3. entries'[t] = Released(entries[t], "dead-letter")
      BY <2>1
    <3>4. JobOf(entries[t]).phase = "open" /\ JobOf(entries[t]).tries = entries[t].attempt
      BY <3>1, JobFields
    <3>5. Ledger!Open(t) /\ Ledger!Exhausted(t)
      BY <1>a, <3>1, <3>4 DEF Ledger!Open, Ledger!Exhausted, Parked
    <3>6. QED
      BY <1>a, <3>1, <3>2, <3>3, <3>5, JobClosed
  <2>3. ASSUME NEW t \in Tasks \ S
        PROVE  JobOf(entries'[t]) = JobsView[t]
    <3>1. CASE ~Expired(t, at)
      BY <1>a, <2>1, <3>1
    <3>2. CASE Expired(t, at)
      <4>1. entries[t].state = "leased" /\ entries'[t] = Released(entries[t], "queued")
        BY <2>1, <3>2 DEF Expired
      <4>2. "queued" \in States
        BY DEF States
      <4>3. /\ entries'[t].state = "queued" /\ entries'[t].attempt = entries[t].attempt
            /\ entries'[t].recipe = entries[t].recipe /\ entries'[t].base = entries[t].base
        BY <1>a, <4>1, <4>2, ReleasedType
      <4>4. JobOf(entries'[t]) = JobOf(entries[t])
        BY <4>1, <4>3, SameJob
      <4>5. QED
        BY <1>a, <4>4
    <3>3. QED
      BY <3>1, <3>2
  <2>4. S \subseteq Tasks
    OBVIOUS
  <2>5. JobsView' = [t \in Tasks |-> JobOf(entries'[t])]
    BY DEF JobsView
  <2> HIDE DEF S
  <2>6. Ledger!GiveUp(S)
    BY <2>2, <2>3, <2>4, <2>5 DEF Ledger!GiveUp
  <2>7. QED
    BY <2>4, <2>6 DEF Ledger!Next
<1>8. ASSUME PruneJournal
      PROVE  UNCHANGED JobsView
  BY <1>b, <1>8, PruneEffect
<1>9. ASSUME Tick
      PROVE  UNCHANGED JobsView
  BY <1>b, <1>9, TickEffect
<1>10. CASE UNCHANGED vars
  BY <1>b, <1>10 DEF vars
<1>11. QED
  BY <1>1, <1>2, <1>3, <1>4, <1>5, <1>6, <1>7, <1>8, <1>9, <1>10 DEF Next

(* The durable queue implements the ledger: whatever workers, crashes,      *)
(* expiries and late results do, a task id is one job for ever, it is       *)
(* tried at most MaxAttempts times and closed at most once.                *)
THEOREM Refinement == Spec => ImplementsLedger
<1>1. Init => Ledger!Init
  BY LedgerInit
<1>2. TypeOK /\ AttemptInv /\ [Next]_vars => [Ledger!Next]_JobsView
  BY LedgerStep
<1>3. QED
  BY <1>1, <1>2, TypeCorrect, AttemptInvariance, PTL DEF Spec, ImplementsLedger, Ledger!Spec
-----------------------------------------------------------------------------
(* The journal tells the story of the entry *)

(* The rows of one task read as one history. *)
OneHistory(rows) ==
    \A i, j \in 1..Len(rows) :
        i < j => /\ rows[i].attempt <= rows[j].attempt
                 /\ rows[j].event = "leased" => rows[i].attempt < rows[j].attempt
                 /\ rows[i].event \in Final => rows[j].event = "result-rejected"

(* The newest transition among the rows is the state the entry e is in. *)
Explain(rows, e) ==
    \A i \in 1..Len(rows) :
        /\ rows[i].event # "result-rejected"
        /\ \A j \in 1..Len(rows) : i < j => rows[j].event = "result-rejected"
        => /\ StateAfter(rows[i]) = e.state
           /\ rows[i].attempt = e.attempt
           /\ rows[i].event = "completed" => rows[i].recipe = e.recipe

(* The inductive invariant: no row is of a later attempt than the entry,   *)
(* and once a row has closed the task the entry is closed, which is what   *)
(* keeps every operation but a refused result from adding another.         *)
Story(rows, e) ==
    /\ \A i \in 1..Len(rows) :
          /\ rows[i].attempt <= e.attempt
          /\ rows[i].event \in Final => e.state \in Terminal
    /\ e.state = "absent" => e.attempt = 0
    /\ OneHistory(rows)
    /\ Explain(rows, e)

JournalInv == \A t \in Tasks : Story(journal[t], entries[t])

(* `row` is the row of the transition from the entry e to the entry f.     *)
Turn(e, row, f) ==
    /\ e.state \notin Terminal /\ f.state # "absent"
    /\ row.event # "result-rejected" /\ StateAfter(row) = f.state
    /\ row.attempt = f.attempt /\ e.attempt <= f.attempt
    /\ row.event = "leased" => e.attempt < f.attempt
    /\ row.event \in Final => f.state \in Terminal
    /\ row.event = "completed" => row.recipe = f.recipe

(* The four things a step can do to the row and the journal of a task. *)
Unmoved(t) ==
    /\ journal'[t] = journal[t]
    /\ entries'[t].state = entries[t].state
    /\ entries'[t].attempt = entries[t].attempt
    /\ entries'[t].recipe = entries[t].recipe

Refused(t) ==
    /\ entries'[t] = entries[t]
    /\ journal'[t] = Append(journal[t], Row("result-rejected", entries[t].attempt))

Turned(t) ==
    \E row \in JournalRow :
        Turn(entries[t], row, entries'[t]) /\ journal'[t] = Append(journal[t], row)

Shortened(t) == entries'[t] = entries[t] /\ journal'[t] = Pruned(journal[t])

(* The rows after one has been added. *)
LEMMA RowsAppended ==
    ASSUME NEW rows \in Seq(JournalRow), NEW row \in JournalRow
    PROVE  /\ Len(Append(rows, row)) = Len(rows) + 1 /\ Len(rows) \in Nat
           /\ Append(rows, row)[Len(rows) + 1] = row
           /\ \A i \in 1..Len(rows) : Append(rows, row)[i] = rows[i] /\ rows[i].attempt \in Nat
           /\ \A i \in 1..(Len(rows) + 1) : i \in 1..Len(rows) \/ i = Len(rows) + 1
  <1>1. \A i \in 1..Len(rows) : rows[i] \in JournalRow
    OBVIOUS
  <1>2. \A r \in JournalRow : r.attempt \in Nat
    BY DEF JournalRow
  <1>3. Len(rows) \in Nat
    OBVIOUS
  <1>4. \A i \in 1..(Len(rows) + 1) : i \in 1..Len(rows) \/ i = Len(rows) + 1
    BY <1>3
  <1> QED
    BY <1>1, <1>2, <1>3, <1>4, AppendProperties

(* A refused result is told of the attempt the entry is in.                *)
LEMMA RefusedTold ==
    ASSUME NEW rows \in Seq(JournalRow), NEW e \in Entry, Story(rows, e)
    PROVE  Story(Append(rows, Row("result-rejected", e.attempt)), e)
  <1> DEFINE row == Row("result-rejected", e.attempt)
             more == Append(rows, row)
  <1>1. row.event = "result-rejected" /\ row.attempt = e.attempt /\ e.attempt \in Nat
    BY DEF Row, Entry
  <1>2. row \in JournalRow
    BY <1>1, RowType DEF Events
  <1> HIDE DEF row
  <1>3. /\ Len(more) = Len(rows) + 1 /\ Len(rows) \in Nat /\ more[Len(rows) + 1] = row
        /\ \A i \in 1..Len(rows) : more[i] = rows[i] /\ rows[i].attempt \in Nat
    BY <1>2, RowsAppended
  <1> HIDE DEF more
  <1>4. row.event # "leased" /\ row.event \notin Final
    BY <1>1 DEF Final
  <1>5. OneHistory(more)
    <2> SUFFICES ASSUME NEW i \in 1..(Len(rows) + 1), NEW j \in 1..(Len(rows) + 1), i < j
                 PROVE  /\ more[i].attempt <= more[j].attempt
                        /\ more[j].event = "leased" => more[i].attempt < more[j].attempt
                        /\ more[i].event \in Final => more[j].event = "result-rejected"
      BY <1>3 DEF OneHistory
    <2>1. i \in 1..Len(rows) /\ (j \in 1..Len(rows) \/ j = Len(rows) + 1)
      BY <1>3
    <2>2. CASE j \in 1..Len(rows)
      BY <1>3, <2>1, <2>2 DEF OneHistory, Story
    <2>3. CASE j = Len(rows) + 1
      BY <1>1, <1>3, <1>4, <2>1, <2>3 DEF Story
    <2> QED
      BY <2>1, <2>2, <2>3
  <1>6. Explain(more, e)
    <2> SUFFICES ASSUME NEW i \in 1..(Len(rows) + 1), more[i].event # "result-rejected",
                        \A j \in 1..(Len(rows) + 1) : i < j => more[j].event = "result-rejected"
                 PROVE  /\ StateAfter(more[i]) = e.state
                        /\ more[i].attempt = e.attempt
                        /\ more[i].event = "completed" => more[i].recipe = e.recipe
      BY <1>3 DEF Explain
    <2>1. i \in 1..Len(rows) /\ more[i] = rows[i]
      BY <1>1, <1>3
    <2>2. ASSUME NEW j \in 1..Len(rows), i < j PROVE rows[j].event = "result-rejected"
      <3>1. j \in 1..(Len(rows) + 1)
        BY <1>3
      <3> QED
        BY <1>3, <2>2, <3>1
    <2> QED
      BY <2>1, <2>2 DEF Explain, Story
  <1> QED
    BY <1>1, <1>3, <1>4, <1>5, <1>6 DEF Story, more, row

(* A transition is told of an entry that was not closed.                   *)
LEMMA TurnTold ==
    ASSUME NEW rows \in Seq(JournalRow), NEW e \in Entry, NEW f \in Entry, NEW row \in JournalRow,
           Story(rows, e), Turn(e, row, f)
    PROVE  Story(Append(rows, row), f)
  <1> DEFINE more == Append(rows, row)
  <1>1. e.attempt \in Nat /\ f.attempt \in Nat
    BY DEF Entry
  <1>2. /\ Len(more) = Len(rows) + 1 /\ Len(rows) \in Nat /\ more[Len(rows) + 1] = row
        /\ \A i \in 1..Len(rows) : more[i] = rows[i] /\ rows[i].attempt \in Nat
    BY RowsAppended
  <1> HIDE DEF more
  <1>3. \A i \in 1..Len(rows) : rows[i].event \notin Final /\ rows[i].attempt <= e.attempt
    BY DEF Story, Turn
  <1>4. OneHistory(more)
    BY <1>1, <1>2, <1>3 DEF OneHistory, Story, Turn
  <1>5. Explain(more, f)
    BY <1>2 DEF Explain, Turn
  <1>6. \A i \in 1..Len(more) :
           more[i].attempt <= f.attempt /\ (more[i].event \in Final => f.state \in Terminal)
    <2>1. ASSUME NEW i \in 1..Len(rows)
          PROVE  more[i].attempt <= f.attempt /\ more[i].event \notin Final
      BY <1>1, <1>2, <1>3 DEF Turn
    <2>2. /\ more[Len(rows) + 1].attempt <= f.attempt
          /\ more[Len(rows) + 1].event \in Final => f.state \in Terminal
      BY <1>1, <1>2 DEF Turn
    <2> QED
      BY <1>2, <2>1, <2>2, RowsAppended
  <1> QED
    BY <1>4, <1>5, <1>6 DEF Story, Turn, more

(* prune_journal deletes the oldest rows: what is left still tells it.     *)
LEMMA PrunedTold ==
    ASSUME NEW rows \in Seq(JournalRow), NEW e, Story(rows, e)
    PROVE  Story(Pruned(rows), e)
  <1>1. CASE Len(rows) <= KeepRows
    BY <1>1, QueueAssumption DEF Pruned
  <1>2. CASE Len(rows) > KeepRows
    <2> DEFINE less == Pruned(rows)
               cut == Len(rows) - KeepRows
    <2>1. Len(rows) \in Nat /\ KeepRows \in Nat /\ cut \in Nat /\ cut + KeepRows = Len(rows)
      BY <1>2, QueueAssumption
    <2>2. less = SubSeq(rows, cut + 1, Len(rows))
      BY <1>2 DEF Pruned
    <2> HIDE DEF less, cut
    <2>3. \A i \in (cut + 1) .. Len(rows) : rows[i] \in JournalRow
      BY <2>1
    <2>4. Len(less) = KeepRows /\ \A i \in 1..KeepRows : less[i] = rows[cut + i]
      BY <2>1, <2>2, <2>3, SubSeqProperties
    <2>5. \A i \in 1..KeepRows : cut + i \in 1..Len(rows)
      BY <2>1
    <2>6. OneHistory(less)
      BY <2>1, <2>4, <2>5 DEF OneHistory, Story
    <2>7. Explain(less, e)
      <3> SUFFICES ASSUME NEW i \in 1..KeepRows, less[i].event # "result-rejected",
                          \A j \in 1..KeepRows : i < j => less[j].event = "result-rejected"
                   PROVE  /\ StateAfter(less[i]) = e.state
                          /\ less[i].attempt = e.attempt
                          /\ less[i].event = "completed" => less[i].recipe = e.recipe
        BY <2>4 DEF Explain
      <3>1. ASSUME NEW j \in 1..Len(rows), cut + i < j
            PROVE  rows[j].event = "result-rejected"
        <4>1. j - cut \in 1..KeepRows /\ i < j - cut /\ cut + (j - cut) = j
          BY <2>1, <3>1
        <4> QED
          BY <2>4, <4>1
      <3> QED
        BY <2>4, <2>5, <3>1 DEF Story, Explain
    <2> QED
      BY <2>4, <2>5, <2>6, <2>7 DEF Story, less
  <1> QED
    BY <1>1, <1>2, QueueAssumption

(* The fields of the rows the operations write, and what they tell. *)
LEMMA RowTells ==
    ASSUME NEW event \in Events, NEW attempt \in Nat
    PROVE  /\ Row(event, attempt) \in JournalRow
           /\ Row(event, attempt).event = event /\ Row(event, attempt).attempt = attempt
           /\ event \in {"enqueued", "lease-expired"} => StateAfter(Row(event, attempt)) = "queued"
           /\ event = "dead-lettered" => StateAfter(Row(event, attempt)) = "dead-letter"
           /\ event \in {"leased", "cancelled"} => StateAfter(Row(event, attempt)) = event
  <1>1. Row(event, attempt).event = event /\ Row(event, attempt).attempt = attempt
    BY DEF Row
  <1> QED
    BY <1>1, RowType DEF StateAfter

LEMMA CompletedTells ==
    ASSUME NEW e \in Entry, NEW final \in Terminal
    PROVE  LET row == CompletedRow(e, final) IN
           /\ row \in JournalRow /\ row.event = "completed"
           /\ row.attempt = e.attempt /\ row.recipe = e.recipe /\ StateAfter(row) = final
  <1>1. LET row == CompletedRow(e, final) IN
          /\ row.event = "completed" /\ row.final = final
          /\ row.attempt = e.attempt /\ row.recipe = e.recipe
    BY DEF CompletedRow
  <1> QED
    BY <1>1, CompletedRowType DEF StateAfter

(* Appending to the journal of one task leaves the others alone. *)
LEMMA OneJournal ==
    ASSUME TypeOK, NEW u \in Tasks, NEW row, journal' = [journal EXCEPT ![u] = Append(@, row)]
    PROVE  /\ journal'[u] = Append(journal[u], row)
           /\ \A t \in Tasks : t # u => journal'[t] = journal[t]
  BY DEF TypeOK

LEMMA OneEntry ==
    ASSUME TypeOK, NEW u \in Tasks, NEW e, entries' = [entries EXCEPT ![u] = e]
    PROVE  entries'[u] = e /\ \A t \in Tasks : t # u => entries'[t] = entries[t]
  BY DEF TypeOK

Told(t) == Unmoved(t) \/ Refused(t) \/ Turned(t) \/ Shortened(t)

LEMMA EnqueueTold ==
    ASSUME TypeOK, NEW t \in Tasks, entries[t].state = "absent" => entries[t].attempt = 0,
           NEW u \in Tasks, NEW r \in Recipes, NEW b \in Bases, Enqueue(u, r, b)
    PROVE  Told(t)
  <1>1. PICK at \in At : enqueue(u, r, b, at)
    BY DEF Enqueue
  <1>2. CASE Exists(u) \/ t # u
    <2>1. journal'[t] = journal[t] /\ entries'[t] = entries[t]
      BY <1>1, <1>2 DEF enqueue, TypeOK
    <2> QED
      BY <2>1 DEF Told, Unmoved
  <1>3. CASE ~Exists(u) /\ t = u
    <2> DEFINE row == Row("enqueued", 0)
               e == NewEntry(r, b, at)
    <2>1. row \in JournalRow /\ row.event = "enqueued" /\ row.attempt = 0 /\ StateAfter(row) = "queued"
      BY RowTells DEF Events
    <2>2. e.state = "queued" /\ e.attempt = 0
      BY AtType, NewEntryType
    <2>3. journal'[t] = Append(journal[t], row) /\ entries'[t] = e /\ entries[t].state = "absent"
      BY <1>1, <1>3, OneJournal, OneEntry DEF enqueue, Exists
    <2> HIDE DEF row, e
    <2>4. Turn(entries[t], row, entries'[t])
      BY <2>1, <2>2, <2>3 DEF Turn, Terminal, Final
    <2> QED
      BY <2>1, <2>3, <2>4 DEF Told, Turned
  <1> QED
    BY <1>2, <1>3

LEMMA LeaseTold ==
    ASSUME TypeOK, NEW t \in Tasks, NEW c \in Callers, Lease(c)
    PROVE  Told(t)
  <1>1. PICK u \in Tasks, at \in At : lease(IdOf[c], u, at)
    BY DEF Lease
  <1>2. CASE t # u
    <2>1. journal'[t] = journal[t] /\ entries'[t] = entries[t]
      BY <1>1, <1>2 DEF lease, TypeOK
    <2> QED
      BY <2>1 DEF Told, Unmoved
  <1>3. CASE t = u
    <2> DEFINE row == Row("leased", entries[t].attempt + 1)
               e == Leased(entries[t], IdOf[c], at)
    <2>1. entries[t] \in Entry
      BY DEF TypeOK
    <2>2. entries[t].attempt \in Nat
      BY <2>1 DEF Entry
    <2>3. /\ row \in JournalRow /\ row.event = "leased" /\ row.attempt = entries[t].attempt + 1
          /\ StateAfter(row) = "leased"
      BY <2>2, RowTells DEF Events
    <2>4. e.state = "leased" /\ e.attempt = entries[t].attempt + 1
      BY <2>1, AtType, IdType, LeasedType
    <2>5. journal'[t] = Append(journal[t], row) /\ entries'[t] = e /\ entries[t].state = "queued"
      BY <1>1, <1>3 DEF lease, Oldest, Queued, TypeOK
    <2> HIDE DEF row, e
    <2>6. Turn(entries[t], row, entries'[t])
      BY <2>2, <2>3, <2>4, <2>5 DEF Turn, Terminal, Final
    <2> QED
      BY <2>3, <2>5, <2>6 DEF Told, Turned
  <1> QED
    BY <1>2, <1>3

LEMMA RenewTold ==
    ASSUME TypeOK, NEW t \in Tasks, NEW c \in Callers, Renew(c)
    PROVE  Told(t)
  <1>1. entries[t] \in Entry
    BY DEF TypeOK
  <1>2. entries'[t] = entries[t] \/ \E at \in Nat : entries'[t] = Renewed(entries[t], at)
    BY RenewEffect
  <1>3. journal' = journal
    BY DEF Renew, renew_lease
  <1> QED
    BY <1>1, <1>2, <1>3, RenewedType DEF Told, Unmoved

LEMMA RecordTold ==
    ASSUME TypeOK, NEW t \in Tasks, NEW c \in Callers, RecordResult(c)
    PROVE  Told(t)
  <1> DEFINE u == grants[c].task
  <1>1. PICK ran_ok \in BOOLEAN, observed \in Bases, at \in At :
          record_result(u, IdOf[c], ran_ok, observed, at)
    BY DEF RecordResult
  <1>2. u \in Tasks
    BY GrantType DEF RecordResult
  <1> HIDE DEF u
  <1>3. CASE t # u
    <2>1. journal'[t] = journal[t] /\ entries'[t] = entries[t]
      BY <1>1, <1>2, <1>3 DEF record_result, TypeOK
    <2> QED
      BY <2>1 DEF Told, Unmoved
  <1>4. CASE t = u /\ ~ValidLease(u, IdOf[c], at)
    BY <1>1, <1>2, <1>4, OneJournal DEF record_result, Told, Refused
  <1>5. CASE t = u /\ ValidLease(u, IdOf[c], at)
    <2> DEFINE final == FinalState(t, ran_ok, observed)
               row == CompletedRow(entries[t], final)
               e == Released(entries[t], final)
    <2>1. entries[t] \in Entry
      BY DEF TypeOK
    <2>2. final \in Terminal /\ final \in States /\ final # "absent"
      BY DEF FinalState, Terminal, States
    <2>3. journal'[t] = Append(journal[t], row) /\ entries'[t] = e /\ entries[t].state = "leased"
      BY <1>1, <1>2, <1>5 DEF record_result, ValidLease, HeldBy, TypeOK
    <2> HIDE DEF final
    <2>4. /\ row \in JournalRow /\ row.event = "completed" /\ row.recipe = entries[t].recipe
          /\ row.attempt = entries[t].attempt /\ StateAfter(row) = final
      BY <2>1, <2>2, CompletedTells
    <2>5. e.state = final /\ e.attempt = entries[t].attempt /\ e.recipe = entries[t].recipe
      BY <2>1, <2>2, ReleasedType
    <2>6. entries[t].attempt \in Nat
      BY <2>1 DEF Entry
    <2> HIDE DEF row, e
    <2>7. Turn(entries[t], row, entries'[t])
      <3>1. "leased" \notin Terminal
        BY DEF Terminal
      <3> QED
        BY <2>2, <2>3, <2>4, <2>5, <2>6, <3>1 DEF Turn
    <2> QED
      BY <2>3, <2>4, <2>7 DEF Told, Turned
  <1> QED
    BY <1>3, <1>4, <1>5

LEMMA CancelTold ==
    ASSUME TypeOK, NEW t \in Tasks, NEW u \in Tasks, Cancel(u)
    PROVE  Told(t)
  <1>1. CASE t # u
    <2>1. journal'[t] = journal[t] /\ entries'[t] = entries[t]
      BY <1>1 DEF Cancel, cancel, TypeOK
    <2> QED
      BY <2>1 DEF Told, Unmoved
  <1>2. CASE t = u
    <2> DEFINE row == Row("cancelled", entries[t].attempt)
               e == Released(entries[t], "cancelled")
    <2>1. entries[t] \in Entry /\ "cancelled" \in States
      BY DEF TypeOK, States, Terminal
    <2>2. entries[t].attempt \in Nat
      BY <2>1 DEF Entry
    <2>3. /\ journal'[t] = Append(journal[t], row) /\ entries'[t] = e
          /\ entries[t].state \in {"queued", "leased"}
      BY <1>2, OneJournal, OneEntry DEF Cancel, cancel
    <2>4. /\ row \in JournalRow /\ row.event = "cancelled" /\ row.attempt = entries[t].attempt
          /\ StateAfter(row) = "cancelled"
      BY <2>2, RowTells DEF Events
    <2>5. e.state = "cancelled" /\ e.attempt = entries[t].attempt
      BY <2>1, ReleasedType
    <2> HIDE DEF row, e
    <2>6. Turn(entries[t], row, entries'[t])
      BY <2>2, <2>3, <2>4, <2>5 DEF Turn, Terminal
    <2> QED
      BY <2>3, <2>4, <2>6 DEF Told, Turned
  <1> QED
    BY <1>1, <1>2

LEMMA ReconcileTold ==
    ASSUME TypeOK, NEW t \in Tasks, Reconcile
    PROVE  Told(t)
  <1>1. PICK at \in At : reconcile(at)
    BY DEF Reconcile
  <1>2. CASE ~Expired(t, at)
    BY <1>1, <1>2 DEF reconcile, Told, Unmoved
  <1>3. CASE Expired(t, at)
    <2> DEFINE event == IF Parked(t) THEN "dead-lettered" ELSE "lease-expired"
               to == IF Parked(t) THEN "dead-letter" ELSE "queued"
               row == Row(event, entries[t].attempt)
               e == Released(entries[t], to)
    <2>1. entries[t] \in Entry
      BY DEF TypeOK
    <2>2. entries[t].attempt \in Nat
      BY <2>1 DEF Entry
    <2>3. journal'[t] = Append(journal[t], row) /\ entries'[t] = e /\ entries[t].state = "leased"
      BY <1>1, <1>3 DEF reconcile, Expired
    <2>4. /\ event \in Events /\ to \in States
          /\ \/ event = "dead-lettered" /\ to = "dead-letter"
             \/ event = "lease-expired" /\ to = "queued"
      BY DEF Events, States, Terminal
    <2> HIDE DEF event, to
    <2>5. /\ row \in JournalRow /\ row.event = event /\ row.attempt = entries[t].attempt
          /\ StateAfter(row) = to
      BY <2>2, <2>4, RowTells
    <2>6. e.state = to /\ e.attempt = entries[t].attempt
      BY <2>1, <2>4, ReleasedType
    <2> HIDE DEF row, e
    <2>7. Turn(entries[t], row, entries'[t])
      BY <2>2, <2>3, <2>4, <2>5, <2>6 DEF Turn, Terminal, Final
    <2> QED
      BY <2>3, <2>5, <2>7 DEF Told, Turned
  <1> QED
    BY <1>2, <1>3

(* Every step tells of what it did to the entry. *)
LEMMA StepTold ==
    ASSUME TypeOK, NEW t \in Tasks, entries[t].state = "absent" => entries[t].attempt = 0,
           [Next]_vars
    PROVE  Told(t)
  <1>1. ASSUME PruneJournal PROVE Told(t)
    BY <1>1 DEF PruneJournal, prune_journal, Told, Shortened
  <1>2. CASE (\E c \in Callers : Crash(c)) \/ Tick \/ UNCHANGED vars
    BY <1>2 DEF Crash, Tick, vars, Told, Unmoved
  <1> QED
    BY <1>1, <1>2, EnqueueTold, LeaseTold, RenewTold, RecordTold, CancelTold, ReconcileTold DEF Next

LEMMA JournalStep == TypeOK /\ TypeOK' /\ JournalInv /\ [Next]_vars => JournalInv'
  <1> SUFFICES ASSUME TypeOK, TypeOK', JournalInv, [Next]_vars, NEW t \in Tasks
               PROVE  Story(journal'[t], entries'[t])
    BY DEF JournalInv
  <1>1. /\ Story(journal[t], entries[t]) /\ journal[t] \in Seq(JournalRow)
        /\ entries[t] \in Entry /\ entries'[t] \in Entry
    BY DEF JournalInv, TypeOK
  <1>2. Told(t)
    BY <1>1, StepTold DEF Story
  <1>3. CASE Unmoved(t)
    BY <1>1, <1>3 DEF Unmoved, Story, Explain
  <1>4. CASE Refused(t)
    BY <1>1, <1>4, RefusedTold DEF Refused
  <1>5. CASE Turned(t)
    BY <1>1, <1>5, TurnTold DEF Turned
  <1>6. CASE Shortened(t)
    BY <1>1, <1>6, PrunedTold DEF Shortened
  <1> QED
    BY <1>2, <1>3, <1>4, <1>5, <1>6 DEF Told

LEMMA JournalInvariance == Spec => []JournalInv
  <1>1. Init => JournalInv
    <2> SUFFICES ASSUME Init, NEW t \in Tasks PROVE Story(journal[t], entries[t])
      BY DEF JournalInv
    <2>1. journal[t] = << >> /\ entries[t].attempt = 0
      BY DEF Init, NoEntry
    <2>2. 1..Len(journal[t]) = {}
      BY <2>1
    <2> QED
      BY <2>1, <2>2 DEF Story, OneHistory, Explain
  <1> QED
    BY <1>1, JournalStep, TypeCorrect, PTL DEF Spec

(* "a state change and its journal row are saved together": each operation *)
(* of durable_queue.py writes them in one transaction, and prune_journal   *)
(* deletes from the old end, so the newest transition in the journal is    *)
(* the state of the entry.                                                 *)
THEOREM JournalExplains == Spec => []JournalExplainsEntry
  <1>1. TypeOK /\ JournalInv => JournalExplainsEntry
    <2> SUFFICES ASSUME TypeOK, JournalInv, NEW t \in Tasks, NEW i \in DOMAIN journal[t],
                        LastTransition(t, i)
                 PROVE  /\ StateAfter(journal[t][i]) = entries[t].state
                        /\ journal[t][i].attempt = entries[t].attempt
                        /\ journal[t][i].event = "completed" => journal[t][i].recipe = entries[t].recipe
      BY DEF JournalExplainsEntry
    <2>1. DOMAIN journal[t] = 1..Len(journal[t])
      BY DEF TypeOK
    <2> QED
      BY <2>1 DEF JournalInv, Story, Explain, LastTransition
  <1> QED
    BY <1>1, TypeCorrect, JournalInvariance, PTL

(* The journal of a task never goes back: attempts only grow, every lease  *)
(* is a new attempt, and after the closing row there are only refused      *)
(* results (durable_queue.py:204-208, 252-258).                            *)
THEOREM JournalHistory == Spec => []JournalIsOneHistory
  <1>1. TypeOK /\ JournalInv => JournalIsOneHistory
    <2> SUFFICES ASSUME TypeOK, JournalInv, NEW t \in Tasks,
                        NEW i \in DOMAIN journal[t], NEW j \in DOMAIN journal[t], i < j
                 PROVE  /\ journal[t][i].attempt <= journal[t][j].attempt
                        /\ journal[t][j].event = "leased" =>
                              journal[t][i].attempt < journal[t][j].attempt
                        /\ journal[t][i].event \in Final => journal[t][j].event = "result-rejected"
      BY DEF JournalIsOneHistory
    <2>1. DOMAIN journal[t] = 1..Len(journal[t])
      BY DEF TypeOK
    <2>2. OneHistory(journal[t])
      BY DEF JournalInv, Story
    <2> QED
      BY <2>1, <2>2 DEF OneHistory
  <1> QED
    BY <1>1, TypeCorrect, JournalInvariance, PTL
-----------------------------------------------------------------------------
(* The worker loop *)

WorkType ==
    /\ TypeOK
    /\ pc \in [Callers -> {"idle", "allocate", "mkdir", "stage", "spawn", "run", "record", "retain"}]
    /\ dirs \in [Tasks -> Callers \cup {None, Leftover}]
    /\ made \in [Callers -> BOOLEAN] /\ lost \in [Callers -> BOOLEAN]
    /\ child \in [Callers -> {"none", "running", "exit-0", "exit-1"}]
    /\ result \in [Callers -> {"none", "rejected", "exit-0", "exit-1", "cancelled", "timed-out"}]
    /\ recorded \in [Callers -> {"none", "succeeded", "failed", "rejected"}]
    /\ orphan \subseteq Tasks /\ told \subseteq Tasks

(* What a worker in the middle of work_once may rely on.  Its directory is *)
(* its own from the mkdir to the retention; a run it calls good was seen   *)
(* to exit 0 in the attempt of its grant; and if the queue still has it as *)
(* the holder, that attempt is the running one, unless ids are shared.     *)
Passing(c) ==
    /\ pc[c] = "idle" <=> ~HasGrant(c)
    /\ child[c] # "none" => pc[c] = "run"
    /\ pc[c] \in {"stage", "spawn", "run"} => made[c]
    /\ pc[c] # "idle" /\ made[c] => dirs[Task(c)] = c
    /\ pc[c] \in {"record", "retain"} /\ result[c] = "exit-0" =>
          <<Task(c), grants[c].attempt>> \in exited0
    /\ pc[c] = "retain" /\ recorded[c] = "succeeded" => entries[Task(c)].state = "succeeded"
    /\ DistinctIds /\ HasGrant(c) /\ HeldBy(Task(c), IdOf[c]) =>
          entries[Task(c)].attempt = grants[c].attempt

(* A command that outlived its worker is in a directory nobody removes.    *)
WorkInv ==
    /\ \A c \in Callers : Passing(c)
    /\ \A t \in orphan : dirs[t] = Leftover
    /\ (DistinctIds => NoFalseSuccess) /\ ToldTheTruth

(* What a step of the worker c leaves alone, for the other workers d. *)
Untouched(d) ==
    /\ pc'[d] = pc[d] /\ made'[d] = made[d] /\ child'[d] = child[d]
    /\ result'[d] = result[d] /\ recorded'[d] = recorded[d] /\ grants'[d] = grants[d]

(* The directories c may create, rename the use of, or remove. *)
DirsBy(c) == \A t \in Tasks : dirs'[t] = dirs[t] \/ dirs[t] \in {None, c}

(* A success is final, and is one that was seen. *)
SuccessesBy ==
    \A t \in Tasks :
        /\ entries[t].state = "succeeded" => entries'[t] = entries[t]
        /\ DistinctIds /\ entries'[t].state = "succeeded" =>
              entries[t].state = "succeeded" \/ <<t, entries'[t].attempt>> \in exited0'

(* Nobody but c becomes the holder of a task. *)
HoldersBy(c) ==
    DistinctIds => \A t \in Tasks, d \in Callers \ {c} :
        HeldBy(t, IdOf[d])' => HeldBy(t, IdOf[d]) /\ entries'[t].attempt = entries[t].attempt

MovesBy(c) ==
    /\ \A d \in Callers \ {c} : Untouched(d)
    /\ DirsBy(c) /\ SuccessesBy /\ HoldersBy(c)
    /\ exited0 \subseteq exited0'
    /\ \A t \in orphan' : t \in orphan \/ dirs'[t] = Leftover
    /\ \A t \in told' : t \in told \/ entries'[t].state = "succeeded"

(* Steps that leave the entries alone.                                     *)
LEMMA EntriesAlone ==
    ASSUME NEW c, UNCHANGED entries PROVE SuccessesBy /\ HoldersBy(c)
  BY DEF SuccessesBy, HoldersBy, HeldBy

(* Passing of a worker that another one's step leaves alone.               *)
LEMMA OtherPasses ==
    ASSUME WorkType, WorkInv, NEW c, MovesBy(c), NEW d \in Callers \ {c}
    PROVE  Passing(d)'
  <1>0. Passing(d) /\ Untouched(d) /\ (HasGrant(d)' <=> HasGrant(d)) /\ Task(d)' = Task(d)
    BY DEF WorkInv, MovesBy, Untouched, HasGrant, Task
  <1>1. HasGrant(d) => Task(d) \in Tasks
    BY GrantType DEF WorkType, Task
  <1>2. pc[d] # "idle" /\ made[d] => dirs'[Task(d)] = d
    <2>1. d # None /\ d # c
      BY WorkerAssumption
    <2> QED
      BY <1>0, <1>1, <2>1 DEF Passing, MovesBy, DirsBy
  <1>3. pc[d] = "retain" /\ recorded[d] = "succeeded" => entries'[Task(d)].state = "succeeded"
    BY <1>0, <1>1 DEF Passing, MovesBy, SuccessesBy
  <1>4. DistinctIds /\ HasGrant(d) /\ HeldBy(Task(d), IdOf[d])' => entries'[Task(d)].attempt = grants[d].attempt
    BY <1>0, <1>1 DEF Passing, MovesBy, HoldersBy, HeldBy
  <1>5. exited0 \subseteq exited0'
    BY DEF MovesBy
  <1> QED
    BY <1>0, <1>2, <1>3, <1>4, <1>5 DEF Passing, Untouched, HeldBy, DistinctIds

(* The invariant after a step of the worker c, once c passes; c is None    *)
(* for a step of nobody's.                                                 *)
LEMMA WorkerMoves ==
    ASSUME WorkType, WorkInv, NEW c \in Callers \cup {None}, MovesBy(c),
           c \in Callers => Passing(c)'
    PROVE  WorkInv'
  <1>1. \A d \in Callers : Passing(d)'
    BY OtherPasses
  <1>2. \A t \in orphan' : dirs'[t] = Leftover
    <2> SUFFICES ASSUME NEW t \in orphan PROVE dirs'[t] = Leftover
      BY DEF MovesBy
    <2>1. dirs[t] = Leftover /\ t \in Tasks
      BY DEF WorkInv, WorkType
    <2> QED
      BY <2>1, WorkerAssumption DEF MovesBy, DirsBy
  <1>3. (DistinctIds => NoFalseSuccess)'
    BY DEF DistinctIds, WorkInv, NoFalseSuccess, MovesBy, SuccessesBy
  <1>4. ToldTheTruth'
    BY DEF WorkInv, WorkType, ToldTheTruth, MovesBy, SuccessesBy
  <1> QED
    BY <1>1, <1>2, <1>3, <1>4 DEF WorkInv

(* Between lease and retention a worker has a task of the queue. *)
LEMMA AtTask ==
    ASSUME WorkType, WorkInv, NEW c \in Callers, pc[c] # "idle"
    PROVE  HasGrant(c) /\ Task(c) \in Tasks /\ entries[Task(c)] \in Entry /\ Passing(c)
  <1>1. Passing(c) /\ HasGrant(c)
    BY DEF WorkInv, Passing
  <1> QED
    BY <1>1, GrantType DEF WorkType, Task

(* lease, as work_once takes it. *)
LEMMA TakeWorks ==
    ASSUME WorkType, WorkInv, NEW c \in Callers, Take(c)
    PROVE  WorkType' /\ MovesBy(c) /\ Passing(c)'
  <1>1. /\ TypeOK' /\ Lease(c) /\ pc[c] = "idle"
        /\ \A d \in Callers : d # c => grants'[d] = grants[d]
    BY LeaseEffect DEF Take, WorkType
  <1>2. PICK t \in Tasks, at \in Nat :
          /\ entries[t].state = "queued"
          /\ entries'[t] = Leased(entries[t], IdOf[c], at)
          /\ grants'[c] = Granted(t, at)
          /\ \A u \in Tasks : u # t => entries'[u] = entries[u]
    BY <1>1, LeaseEffect DEF WorkType
  <1>3. entries[t] \in Entry /\ IdOf[c] \in WorkerIds
    BY IdType DEF WorkType, TypeOK
  <1>4. /\ entries'[t].state = "leased" /\ entries'[t].leased_by = IdOf[c]
        /\ entries'[t].attempt = entries[t].attempt + 1
    BY <1>2, <1>3, LeasedType
  <1>5. /\ grants'[c].task = t /\ grants'[c].attempt = entries[t].attempt + 1
        /\ HasGrant(c)' /\ Task(c)' = t
    BY <1>2, <1>3, GrantedType, GrantIsNotEmpty DEF HasGrant, Task
  <1>6. /\ pc'[c] = "allocate" /\ made'[c] = FALSE /\ child'[c] = "none"
        /\ UNCHANGED <<dirs, child, orphan, exited0, told>>
    <2>1. child[c] = "none"
      BY <1>1 DEF WorkInv, Passing
    <2> QED
      BY <2>1 DEF Take, WorkType
  <1>7. WorkType'
    BY <1>1 DEF Take, WorkType
  <1>8. SuccessesBy
    BY <1>2, <1>4 DEF SuccessesBy
  <1>9. HoldersBy(c)
    <2> SUFFICES ASSUME DistinctIds, NEW u \in Tasks, NEW d \in Callers \ {c}, HeldBy(u, IdOf[d])'
                 PROVE  HeldBy(u, IdOf[d]) /\ entries'[u].attempt = entries[u].attempt
      BY DEF HoldersBy
    <2>1. entries'[u].state = "leased" /\ entries'[u].leased_by = IdOf[d]
      BY DEF HeldBy
    <2>2. u # t
      BY <1>4, <2>1 DEF DistinctIds
    <2> QED
      BY <1>2, <2>1, <2>2 DEF HeldBy
  <1>10. \A d \in Callers \ {c} : Untouched(d)
    BY <1>1 DEF Take, WorkType, Untouched
  <1>11. Passing(c)'
    BY <1>4, <1>5, <1>6 DEF Passing
  <1> QED
    BY <1>6, <1>7, <1>8, <1>9, <1>10, <1>11 DEF MovesBy, DirsBy

(* The steps of a worker outside the queue.                                *)
LEMMA OutsideWorks ==
    ASSUME WorkType, OutsideQueue, NEW c \in Callers,
           \A d \in Callers \ {c} : Untouched(d),
           DirsBy(c), exited0 \subseteq exited0', UNCHANGED <<orphan, told>>
    PROVE  MovesBy(c) /\ TypeOK'
  <1>1. UNCHANGED <<entries, journal, grants, now>>
    BY DEF OutsideQueue, vars
  <1>2. TypeOK'
    BY <1>1 DEF WorkType, TypeOK
  <1> QED
    BY <1>1, <1>2, EntriesAlone DEF MovesBy

LEMMA CheckWorks ==
    ASSUME WorkType, WorkInv, NEW c \in Callers, CheckWorkspace(c)
    PROVE  WorkType' /\ MovesBy(c) /\ Passing(c)'
  <1>1. /\ UNCHANGED <<entries, journal, grants, now>> /\ OutsideQueue
        /\ UNCHANGED <<dirs, made, child, orphan, lost, recorded, exited0, told>>
    BY DEF CheckWorkspace, OutsideQueue, vars, Reject
  <1>2. pc[c] = "allocate" /\ HasGrant(c) /\ Task(c) \in Tasks /\ Passing(c)
    BY AtTask DEF CheckWorkspace
  <1>3. \A d \in Callers \ {c} : Untouched(d)
    BY <1>1 DEF CheckWorkspace, Reject, Untouched, WorkType
  <1>4. pc'[c] = "mkdir" \/ (pc'[c] = "record" /\ result'[c] = "rejected")
    BY DEF CheckWorkspace, Reject, WorkType
  <1>5. MovesBy(c) /\ TypeOK'
    BY <1>1, <1>3, OutsideWorks DEF DirsBy
  <1>6. WorkType'
    BY <1>1, <1>5 DEF WorkType, CheckWorkspace, Reject
  <1> QED
    BY <1>1, <1>2, <1>4, <1>5, <1>6 DEF Passing, HasGrant, Task, HeldBy, DistinctIds

(* The pass ends without a result and leaves its directory to nobody.      *)
LEMMA EscapeWorks ==
    ASSUME WorkType, WorkInv, NEW c \in Callers, pc[c] # "idle", child[c] = "none", Escape(c)
    PROVE  WorkType' /\ MovesBy(c) /\ Passing(c)'
  <1>1. /\ grants' = [grants EXCEPT ![c] = NoGrant] /\ pc' = [pc EXCEPT ![c] = "idle"]
        /\ dirs' = [t \in Tasks |-> IF dirs[t] = c THEN Leftover ELSE dirs[t]]
        /\ UNCHANGED <<made, entries, journal, now, child, orphan, lost, result, recorded, exited0, told>>
    BY DEF Escape
  <1>2. /\ grants' \in [Callers -> Grant \cup {NoGrant}] /\ grants'[c] = NoGrant
        /\ \A d \in Callers : d # c => grants'[d] = grants[d]
    BY <1>1, PutGrant DEF WorkType
  <1>3. TypeOK'
    BY <1>1, <1>2 DEF WorkType, TypeOK
  <1>4. WorkType'
    BY <1>1, <1>3 DEF WorkType
  <1>5. \A d \in Callers \ {c} : Untouched(d)
    BY <1>1, <1>2 DEF Untouched, WorkType
  <1>6. MovesBy(c)
    BY <1>1, <1>5, EntriesAlone DEF MovesBy, DirsBy
  <1>7. pc'[c] = "idle" /\ ~HasGrant(c)' /\ child'[c] = "none"
    BY <1>1, <1>2 DEF HasGrant, WorkType
  <1> QED
    BY <1>4, <1>6, <1>7 DEF Passing

LEMMA MakeWorks ==
    ASSUME WorkType, WorkInv, NEW c \in Callers, MakeWorkspace(c)
    PROVE  WorkType' /\ MovesBy(c) /\ Passing(c)'
  <1>1. pc[c] = "mkdir" /\ HasGrant(c) /\ Task(c) \in Tasks /\ Passing(c) /\ child[c] = "none"
    BY AtTask DEF MakeWorkspace, Passing
  <1>2. CASE Escape(c)
    BY <1>1, <1>2, EscapeWorks
  <1>3. CASE ~Escape(c)
    <2>1. /\ dirs[Task(c)] = None /\ dirs' = [dirs EXCEPT ![Task(c)] = c]
          /\ made' = [made EXCEPT ![c] = TRUE] /\ pc' = [pc EXCEPT ![c] = "stage"]
          /\ OutsideQueue /\ UNCHANGED <<child, orphan, lost, result, recorded, exited0, told>>
      BY <1>3 DEF MakeWorkspace
    <2>2. UNCHANGED <<entries, journal, grants, now>>
      BY <2>1 DEF OutsideQueue, vars
    <2>3. \A d \in Callers \ {c} : Untouched(d)
      BY <2>1, <2>2 DEF Untouched, WorkType
    <2>4. DirsBy(c)
      BY <1>1, <2>1 DEF DirsBy, WorkType
    <2>5. MovesBy(c) /\ TypeOK'
      BY <2>1, <2>3, <2>4, OutsideWorks
    <2>6. WorkType'
      BY <1>1, <2>1, <2>5 DEF WorkType
    <2>7. pc'[c] = "stage" /\ made'[c] /\ dirs'[Task(c)] = c /\ child'[c] = "none"
      BY <1>1, <2>1 DEF WorkType
    <2> QED
      BY <1>1, <2>2, <2>5, <2>6, <2>7 DEF Passing, HasGrant, Task, HeldBy, DistinctIds
  <1> QED
    BY <1>2, <1>3

LEMMA StageWorks ==
    ASSUME WorkType, WorkInv, NEW c \in Callers, Stage(c) \/ Spawn(c)
    PROVE  WorkType' /\ MovesBy(c) /\ Passing(c)'
  <1>1. /\ pc[c] \in {"stage", "spawn"} /\ HasGrant(c) /\ Task(c) \in Tasks /\ Passing(c)
        /\ child[c] = "none" /\ made[c] /\ dirs[Task(c)] = c
    BY AtTask DEF Stage, Spawn, Passing
  <1>2. CASE Escape(c)
    BY <1>1, <1>2, EscapeWorks
  <1>3. CASE ~Escape(c)
    <2>1. OutsideQueue /\ UNCHANGED <<dirs, made, orphan, lost, recorded, exited0, told>>
      BY <1>3 DEF Stage, Spawn, Reject
    <2>2. UNCHANGED <<entries, journal, grants, now>>
      BY <2>1 DEF OutsideQueue, vars
    <2>3. \/ /\ pc' = [pc EXCEPT ![c] = "record"] /\ result' = [result EXCEPT ![c] = "rejected"]
             /\ child' = child
          \/ pc' = [pc EXCEPT ![c] = "spawn"] /\ UNCHANGED <<child, result>>
          \/ /\ pc' = [pc EXCEPT ![c] = "run"] /\ child' = [child EXCEPT ![c] = "running"]
             /\ result' = result
      BY <1>3 DEF Stage, Spawn, Reject
    <2>4. \A d \in Callers \ {c} : Untouched(d)
      BY <2>1, <2>2, <2>3 DEF Untouched, WorkType
    <2>5. MovesBy(c) /\ TypeOK'
      BY <2>1, <2>4, OutsideWorks DEF DirsBy
    <2>6. WorkType'
      BY <2>1, <2>3, <2>5 DEF WorkType
    <2>7. \/ pc'[c] = "record" /\ result'[c] = "rejected" /\ child'[c] = "none"
          \/ pc'[c] = "spawn" /\ child'[c] = "none"
          \/ pc'[c] = "run"
      BY <1>1, <2>3 DEF WorkType
    <2> QED
      BY <1>1, <2>1, <2>2, <2>5, <2>6, <2>7 DEF Passing, HasGrant, Task, HeldBy, DistinctIds
  <1> QED
    BY <1>2, <1>3

(* The command ends by itself, or the poll loop ends it: a good run was    *)
(* seen to exit 0 in the attempt of the grant.                             *)
LEMMA PollWorks ==
    ASSUME WorkType, WorkInv, NEW c \in Callers, Poll(c) \/ ChildExit(c)
    PROVE  WorkType' /\ MovesBy(c) /\ Passing(c)'
  <1>1. child[c] # "none" \/ pc[c] = "run"
    BY DEF Poll, ChildExit
  <1>2. /\ pc[c] = "run" /\ HasGrant(c) /\ Task(c) \in Tasks /\ Passing(c)
        /\ made[c] /\ dirs[Task(c)] = c
    <2>1. pc[c] = "run"
      BY <1>1 DEF WorkInv, Passing
    <2> QED
      BY <2>1, AtTask DEF Passing
  <1>3. OutsideQueue /\ UNCHANGED <<dirs, made, orphan, lost, recorded, told>>
    BY DEF Poll, ChildExit, KillTree
  <1>4. UNCHANGED <<entries, journal, grants, now>>
    BY <1>3 DEF OutsideQueue, vars
  <1>5. CASE Poll(c)
    <2>1. /\ child' = [child EXCEPT ![c] = "none"] /\ pc' = [pc EXCEPT ![c] = "record"]
          /\ exited0 \subseteq exited0'
      BY <1>5 DEF Poll
    <2>2. PICK r \in {"none", "exit-0", "exit-1", "cancelled", "timed-out"} :
            /\ result' = [result EXCEPT ![c] = r]
            /\ r = "exit-0" => <<Task(c), grants[c].attempt>> \in exited0'
      <3>1. CASE child[c] # "running"
        BY <1>5, <3>1 DEF Poll, WorkType
      <3>2. CASE child[c] = "running"
        BY <1>5, <3>2 DEF Poll
      <3> QED
        BY <3>1, <3>2
    <2>3. \A d \in Callers \ {c} : Untouched(d)
      BY <1>3, <1>4, <2>1, <2>2 DEF Untouched, WorkType
    <2>4. MovesBy(c) /\ TypeOK'
      BY <1>3, <2>1, <2>3, OutsideWorks DEF DirsBy
    <2>5. WorkType'
      BY <1>3, <2>1, <2>2, <2>4 DEF WorkType
    <2>6. pc'[c] = "record" /\ child'[c] = "none" /\ result'[c] = r
      BY <2>1, <2>2 DEF WorkType
    <2> QED
      BY <1>2, <1>3, <1>4, <2>2, <2>4, <2>5, <2>6 DEF Passing, HasGrant, Task, HeldBy, DistinctIds
  <1>6. CASE ChildExit(c)
    <2>1. UNCHANGED <<pc, result, exited0>>
      BY <1>6 DEF ChildExit
    <2>2. PICK how \in {"exit-0", "exit-1"} : child' = [child EXCEPT ![c] = how]
      BY <1>6 DEF ChildExit
    <2>3. \A d \in Callers \ {c} : Untouched(d)
      BY <1>3, <1>4, <2>1, <2>2 DEF Untouched, WorkType
    <2>4. MovesBy(c) /\ TypeOK'
      BY <1>3, <2>1, <2>3, OutsideWorks DEF DirsBy
    <2>5. WorkType'
      BY <1>3, <2>1, <2>2, <2>4 DEF WorkType
    <2> QED
      BY <1>2, <1>3, <1>4, <2>1, <2>4, <2>5 DEF Passing, HasGrant, Task, HeldBy, DistinctIds
  <1> QED
    BY <1>5, <1>6

(* _RenewingClock keeps the grant for the same task and attempt. *)
LEMMA RenewWorks ==
    ASSUME WorkType, WorkInv, NEW c \in Callers, RenewInRun(c)
    PROVE  WorkType' /\ MovesBy(c) /\ Passing(c)'
  <1>1. /\ pc[c] = "run" /\ HasGrant(c) /\ Task(c) \in Tasks /\ Passing(c)
        /\ entries[Task(c)] \in Entry /\ made[c] /\ dirs[Task(c)] = c
    BY AtTask DEF RenewInRun, Passing
  <1>2. UNCHANGED <<pc, dirs, made, child, orphan, result, recorded, exited0, told>>
    BY DEF RenewInRun
  <1>3. CASE Renew(c)
    <2>1. /\ TypeOK' /\ \A d \in Callers : d # c => grants'[d] = grants[d]
          /\ \A u \in Tasks : u # Task(c) => entries'[u] = entries[u]
          /\ HeldBy(Task(c), IdOf[c])
      BY <1>3, RenewEffect DEF WorkType, Task
    <2>2. PICK at \in Nat : /\ entries'[Task(c)] = Renewed(entries[Task(c)], at)
                            /\ grants'[c] = Extended(grants[c], at)
      BY <1>3, RenewEffect DEF WorkType, Task
    <2>3. /\ entries'[Task(c)].state = entries[Task(c)].state
          /\ entries'[Task(c)].leased_by = entries[Task(c)].leased_by
          /\ entries'[Task(c)].attempt = entries[Task(c)].attempt
          /\ entries[Task(c)].state = "leased"
      BY <1>1, <2>1, <2>2, RenewedType DEF HeldBy
    <2>4. /\ HasGrant(c)' /\ grants'[c].task = grants[c].task /\ grants'[c].attempt = grants[c].attempt
      <3>1. grants[c] \in Grant
        BY <1>1, GrantType DEF WorkType
      <3> QED
        BY <2>2, <3>1, ExtendedType, GrantIsNotEmpty DEF HasGrant
    <2>5. Task(c)' = Task(c)
      BY <2>4 DEF Task
    <2>6. lost' = lost
      BY <1>3, <2>1 DEF RenewInRun, Task
    <2>7. WorkType'
      BY <1>2, <2>1, <2>6 DEF WorkType
    <2>8. SuccessesBy /\ HoldersBy(c)
      BY <2>1, <2>3 DEF SuccessesBy, HoldersBy, HeldBy
    <2>9. MovesBy(c)
      BY <1>2, <2>1, <2>8 DEF MovesBy, DirsBy, Untouched
    <2> QED
      BY <1>1, <1>2, <2>1, <2>3, <2>4, <2>5, <2>7, <2>9 DEF Passing, HeldBy, DistinctIds
  <1>4. CASE ~Renew(c)
    <2>1. OutsideQueue /\ lost' = [lost EXCEPT ![c] = TRUE]
      BY <1>4 DEF RenewInRun
    <2>2. UNCHANGED <<entries, journal, grants, now>>
      BY <2>1 DEF OutsideQueue, vars
    <2>3. MovesBy(c) /\ TypeOK'
      BY <1>2, <2>1, <2>2, OutsideWorks DEF DirsBy, Untouched
    <2>4. WorkType'
      BY <1>2, <2>1, <2>3 DEF WorkType
    <2> QED
      BY <1>1, <1>2, <2>2, <2>3, <2>4 DEF Passing, HasGrant, Task, HeldBy, DistinctIds
  <1> QED
    BY <1>3, <1>4

(* record_result by a worker: a success is recorded of the attempt of its  *)
(* own grant, whose command it saw exit 0.                                 *)
LEMMA RecordWorks ==
    ASSUME WorkType, WorkInv, NEW c \in Callers, Record(c)
    PROVE  WorkType' /\ MovesBy(c) /\ Passing(c)'
  <1> DEFINE t == Task(c)
  <1>1. /\ pc[c] = "record" /\ HasGrant(c) /\ t \in Tasks /\ Passing(c)
        /\ entries[t] \in Entry /\ child[c] = "none"
    BY AtTask DEF Record, Passing
  <1>2. /\ pc' = [pc EXCEPT ![c] = "retain"]
        /\ UNCHANGED <<grants, now, dirs, made, child, orphan, lost, result, exited0, told>>
    BY DEF Record
  <1>3. PICK observed \in Bases, at \in At :
          /\ record_result(t, IdOf[c], RanOk(c), observed, at)
          /\ recorded' = [recorded EXCEPT ![c] =
                IF ValidLease(t, IdOf[c], at) THEN FinalState(t, RanOk(c), observed) ELSE "rejected"]
    BY DEF Record
  <1>4. entries[t].attempt \in Nat /\ Task(c)' = t /\ (HasGrant(c)' <=> HasGrant(c))
    BY <1>1, <1>2 DEF Entry, Task, HasGrant
  <1>5. pc'[c] = "retain"
    BY <1>2 DEF WorkType
  <1>6. CASE ~ValidLease(t, IdOf[c], at)
    <2> DEFINE row == Row("result-rejected", entries[t].attempt)
    <2>1. entries' = entries /\ journal' = [journal EXCEPT ![t] = Append(@, row)]
      BY <1>3, <1>6 DEF record_result
    <2>2. row \in JournalRow
      BY <1>4, RowType DEF Events
    <2>3. recorded' = [recorded EXCEPT ![c] = "rejected"]
      BY <1>3, <1>6
    <2> HIDE DEF t, row
    <2>4. journal' \in [Tasks -> Seq(JournalRow)]
      BY <1>1, <2>1, <2>2, PutRow DEF WorkType
    <2>5. TypeOK'
      BY <1>2, <2>1, <2>4 DEF WorkType, TypeOK
    <2>6. WorkType'
      BY <1>2, <2>3, <2>5 DEF WorkType
    <2>7. \A d \in Callers \ {c} : Untouched(d)
      BY <1>2, <2>3 DEF Untouched, WorkType
    <2>8. MovesBy(c)
      BY <1>2, <2>1, <2>7, EntriesAlone DEF MovesBy, DirsBy
    <2>9. recorded'[c] = "rejected"
      BY <2>3 DEF WorkType
    <2> QED
      BY <1>1, <1>2, <1>4, <1>5, <2>1, <2>6, <2>8, <2>9 DEF Passing, HeldBy, DistinctIds, t
  <1>7. CASE ValidLease(t, IdOf[c], at)
    <2> DEFINE final == FinalState(t, RanOk(c), observed)
               e == Released(entries[t], final)
               row == CompletedRow(entries[t], final)
    <2>1. /\ entries' = [entries EXCEPT ![t] = e] /\ journal' = [journal EXCEPT ![t] = Append(@, row)]
          /\ recorded' = [recorded EXCEPT ![c] = final]
      BY <1>3, <1>7 DEF record_result
    <2>2. /\ final \in {"succeeded", "failed"} /\ final \in Terminal /\ final \in States
          /\ final = "succeeded" => result[c] = "exit-0"
      BY DEF FinalState, RanOk, Terminal, States
    <2>3. HeldBy(t, IdOf[c]) /\ entries[t].state = "leased"
      BY <1>7 DEF ValidLease, HeldBy
    <2> HIDE DEF final
    <2>4. row \in JournalRow
      BY <1>1, <2>2, CompletedRowType
    <2>5. /\ e \in Entry /\ (e.state = "leased" <=> e.leased_by # None)
          /\ e.state = final /\ e.attempt = entries[t].attempt
      BY <1>1, <2>2, ReleasedType
    <2>6. final = "succeeded" /\ DistinctIds => <<t, e.attempt>> \in exited0
      BY <1>1, <2>2, <2>3, <2>5 DEF Passing
    <2> HIDE DEF t, e, row
    <2>7. /\ entries' \in [Tasks -> Entry]
          /\ \A u \in Tasks : entries'[u].state = "leased" <=> entries'[u].leased_by # None
          /\ entries'[t] = e
          /\ \A u \in Tasks : u # t => entries'[u] = entries[u]
      BY <1>1, <2>1, <2>5, PutEntry DEF WorkType
    <2>8. journal' \in [Tasks -> Seq(JournalRow)]
      BY <1>1, <2>1, <2>4, PutRow DEF WorkType
    <2>9. TypeOK'
      BY <1>2, <2>7, <2>8 DEF WorkType, TypeOK
    <2>10. WorkType'
      BY <1>2, <2>1, <2>2, <2>9 DEF WorkType
    <2>11. \A d \in Callers \ {c} : Untouched(d)
      BY <1>2, <2>1 DEF Untouched, WorkType
    <2>12. SuccessesBy
      BY <1>2, <2>3, <2>5, <2>6, <2>7 DEF SuccessesBy
    <2>13. HoldersBy(c)
      BY <2>2, <2>5, <2>7 DEF HoldersBy, HeldBy
    <2>14. MovesBy(c)
      BY <1>2, <2>11, <2>12, <2>13 DEF MovesBy, DirsBy
    <2>15. recorded'[c] = final /\ entries'[t].state = final
      BY <2>1, <2>5, <2>7 DEF WorkType
    <2>16. entries'[t].state # "leased"
      BY <2>2, <2>15
    <2>17. Task(c) = t /\ Task(c)' = t
      BY <1>4 DEF t
    <2>18. ~HeldBy(Task(c), IdOf[c])'
      BY <2>16, <2>17 DEF HeldBy
    <2>19. pc'[c] = "retain" /\ made'[c] = made[c] /\ dirs' = dirs /\ child'[c] = "none"
           /\ result'[c] = result[c] /\ exited0' = exited0 /\ grants' = grants
      BY <1>1, <1>2, <1>5
    <2>20. (recorded[c] = "succeeded")' => (entries[Task(c)].state = "succeeded")'
      BY <2>15, <2>17
    <2>21. Passing(c)'
      BY <1>1, <1>4, <2>17, <2>18, <2>19, <2>20 DEF Passing
    <2> QED
      BY <2>10, <2>14, <2>21
  <1> QED
    BY <1>6, <1>7

(* Retention: the directory that goes or stays is the worker's own, and a  *)
(* success it answers is in the queue.                                     *)
LEMMA FinishWorks ==
    ASSUME WorkType, WorkInv, NEW c \in Callers, Finish(c)
    PROVE  WorkType' /\ MovesBy(c) /\ Passing(c)'
  <1>1. /\ pc[c] = "retain" /\ HasGrant(c) /\ Task(c) \in Tasks /\ Passing(c) /\ child[c] = "none"
    BY AtTask DEF Finish, Passing
  <1>2. /\ told' = IF ReportsSuccess(c) THEN told \cup {Task(c)} ELSE told
        /\ grants' = [grants EXCEPT ![c] = NoGrant] /\ pc' = [pc EXCEPT ![c] = "idle"]
        /\ UNCHANGED <<made, entries, journal, now, child, orphan, lost, result, recorded, exited0>>
    BY DEF Finish
  <1>3. dirs' = dirs \/ (dirs[Task(c)] = c /\ \E use \in {None, Leftover} :
                             dirs' = [dirs EXCEPT ![Task(c)] = use])
    <2>1. Owns(c) => dirs[Task(c)] = c
      BY <1>1 DEF Passing, Owns
    <2> QED
      BY <2>1 DEF Finish
  <1>4. dirs' \in [Tasks -> Callers \cup {None, Leftover}] /\ DirsBy(c)
    BY <1>1, <1>3 DEF WorkType, DirsBy
  <1>5. /\ grants' \in [Callers -> Grant \cup {NoGrant}] /\ grants'[c] = NoGrant
        /\ \A d \in Callers : d # c => grants'[d] = grants[d]
    BY <1>2, PutGrant DEF WorkType
  <1>6. TypeOK'
    BY <1>2, <1>5 DEF WorkType, TypeOK
  <1>7. WorkType'
    BY <1>1, <1>2, <1>4, <1>6 DEF WorkType
  <1>8. \A d \in Callers \ {c} : Untouched(d)
    BY <1>2, <1>5 DEF Untouched, WorkType
  <1>9. \A t \in told' : t \in told \/ entries'[t].state = "succeeded"
    BY <1>1, <1>2 DEF Passing, ReportsSuccess
  <1>10. MovesBy(c)
    BY <1>2, <1>4, <1>8, <1>9, EntriesAlone DEF MovesBy
  <1>11. pc'[c] = "idle" /\ ~HasGrant(c)' /\ child'[c] = "none"
    BY <1>1, <1>2, <1>5 DEF HasGrant, WorkType
  <1> QED
    BY <1>7, <1>10, <1>11 DEF Passing

(* A killed worker: a command that lives on keeps its directory from being *)
(* used again.                                                             *)
LEMMA KillWorks ==
    ASSUME WorkType, WorkInv, NEW c \in Callers, Kill(c)
    PROVE  WorkType' /\ MovesBy(c) /\ Passing(c)'
  <1>1. /\ pc[c] # "idle" /\ HasGrant(c) /\ Task(c) \in Tasks /\ Passing(c)
    BY AtTask DEF Kill
  <1>2. /\ orphan' = IF child[c] = "running" THEN orphan \cup {Task(c)} ELSE orphan
        /\ child' = [child EXCEPT ![c] = "none"]
        /\ dirs' = [t \in Tasks |-> IF dirs[t] = c THEN Leftover ELSE dirs[t]]
        /\ grants' = [grants EXCEPT ![c] = NoGrant] /\ pc' = [pc EXCEPT ![c] = "idle"]
        /\ UNCHANGED <<made, entries, journal, now, lost, result, recorded, exited0, told>>
    BY DEF Kill
  <1>3. /\ grants' \in [Callers -> Grant \cup {NoGrant}] /\ grants'[c] = NoGrant
        /\ \A d \in Callers : d # c => grants'[d] = grants[d]
    BY <1>2, PutGrant DEF WorkType
  <1>4. TypeOK'
    BY <1>2, <1>3 DEF WorkType, TypeOK
  <1>5. dirs' \in [Tasks -> Callers \cup {None, Leftover}] /\ DirsBy(c)
    BY <1>2 DEF WorkType, DirsBy
  <1>6. WorkType'
    BY <1>1, <1>2, <1>4, <1>5 DEF WorkType
  <1>7. \A d \in Callers \ {c} : Untouched(d)
    BY <1>2, <1>3 DEF Untouched, WorkType
  <1>8. child[c] = "running" => dirs'[Task(c)] = Leftover
    BY <1>1, <1>2 DEF Passing
  <1>9. \A t \in orphan' : t \in orphan \/ dirs'[t] = Leftover
    BY <1>2, <1>8
  <1>10. MovesBy(c)
    BY <1>2, <1>5, <1>7, <1>9, EntriesAlone DEF MovesBy
  <1>11. pc'[c] = "idle" /\ ~HasGrant(c)' /\ child'[c] = "none"
    BY <1>2, <1>3 DEF HasGrant, WorkType
  <1> QED
    BY <1>6, <1>10, <1>11 DEF Passing

(* The rest of the world may end a lease or requeue a task, never make a   *)
(* holder or a success.                                                    *)
LEMMA QueueMoves ==
    ASSUME TypeOK, QueueStep
    PROVE  /\ TypeOK' /\ UNCHANGED grants
           /\ \A t \in Tasks : \/ entries'[t] = entries[t]
                              \/ /\ entries[t].state # "succeeded"
                                 /\ entries'[t].state \notin {"succeeded", "leased"}
  <1> DEFINE Moves == /\ TypeOK' /\ UNCHANGED grants
                      /\ \A t \in Tasks : \/ entries'[t] = entries[t]
                                         \/ /\ entries[t].state # "succeeded"
                                            /\ entries'[t].state \notin {"succeeded", "leased"}
  <1>0. \A t \in Tasks : entries[t] \in Entry
    BY DEF TypeOK
  <1>1. ASSUME NEW t \in Tasks, NEW r \in Recipes, NEW b \in Bases, Enqueue(t, r, b) PROVE Moves
    BY <1>1, EnqueueEffect, NewEntryType
  <1>2. ASSUME NEW t \in Tasks, Cancel(t) PROVE Moves
    <2>1. "cancelled" \in States
      BY DEF States, Terminal
    <2>2. entries'[t].state = "cancelled" /\ entries[t].state \in {"queued", "leased"}
      BY <1>0, <1>2, <2>1, CancelEffect, ReleasedType
    <2> QED
      BY <1>2, <2>2, CancelEffect
  <1>3. ASSUME Reconcile PROVE Moves
    <2>1. PICK at \in Nat : \A t \in Tasks :
            entries'[t] = IF Expired(t, at)
                          THEN Released(entries[t], IF Parked(t) THEN "dead-letter" ELSE "queued")
                          ELSE entries[t]
      BY <1>3, ReconcileEffect
    <2>2. ASSUME NEW t \in Tasks, Expired(t, at)
          PROVE  entries[t].state = "leased" /\ entries'[t].state \in {"dead-letter", "queued"}
      <3> DEFINE to == IF Parked(t) THEN "dead-letter" ELSE "queued"
      <3>1. to \in {"dead-letter", "queued"} /\ to \in States
        BY DEF States, Terminal
      <3>2. entries'[t] = Released(entries[t], to)
        BY <2>1, <2>2
      <3> HIDE DEF to
      <3> QED
        BY <1>0, <2>2, <3>1, <3>2, ReleasedType DEF Expired
    <2>3. ASSUME NEW t \in Tasks, ~Expired(t, at) PROVE entries'[t] = entries[t]
      BY <2>1, <2>3
    <2>4. TypeOK' /\ UNCHANGED grants
      BY <1>3, ReconcileEffect
    <2> QED
      BY <2>2, <2>3, <2>4
  <1>4. ASSUME Tick PROVE Moves
    BY <1>4, TickEffect
  <1> QED
    BY <1>1, <1>2, <1>3, <1>4 DEF QueueStep

(* Steps of nobody's: the queue, a command that outlived its worker, none. *)
LEMMA WorldWorks ==
    ASSUME WorkType, WorkInv, QueueStep \/ OrphanExit \/ UNCHANGED allVars
    PROVE  WorkType' /\ MovesBy(None)
  <1>1. /\ TypeOK' /\ UNCHANGED grants
        /\ \A t \in Tasks : \/ entries'[t] = entries[t]
                           \/ /\ entries[t].state # "succeeded"
                              /\ entries'[t].state \notin {"succeeded", "leased"}
    <2>1. CASE QueueStep
      BY <2>1, QueueMoves DEF WorkType
    <2>2. CASE OrphanExit \/ UNCHANGED allVars
      <3>1. UNCHANGED <<entries, journal, grants, now>>
        BY <2>2 DEF OrphanExit, OutsideQueue, allVars, vars
      <3> QED
        BY <3>1 DEF WorkType, TypeOK
    <2> QED
      BY <2>1, <2>2
  <1>2. /\ UNCHANGED <<pc, dirs, made, child, lost, result, recorded, exited0, told>>
        /\ orphan' \subseteq orphan
    BY DEF QueueStep, OrphanExit, allVars, workVars
  <1>3. WorkType'
    BY <1>1, <1>2 DEF WorkType
  <1>4. SuccessesBy
    BY <1>1 DEF SuccessesBy
  <1>5. HoldersBy(None)
    BY <1>1 DEF HoldersBy, HeldBy
  <1>6. \A d \in Callers \ {None} : Untouched(d)
    BY <1>1, <1>2 DEF Untouched
  <1> QED
    BY <1>2, <1>3, <1>4, <1>5, <1>6 DEF MovesBy, DirsBy

LEMMA WorkStep == WorkType /\ WorkInv /\ [WorkNext]_allVars => WorkType' /\ WorkInv'
  <1> SUFFICES ASSUME WorkType, WorkInv, [WorkNext]_allVars PROVE WorkType' /\ WorkInv'
    OBVIOUS
  <1>1. ASSUME NEW c \in Callers, Step(c) \/ ChildExit(c) \/ Kill(c) PROVE WorkType' /\ WorkInv'
    <2>1. WorkType' /\ MovesBy(c) /\ Passing(c)'
      BY <1>1, TakeWorks, CheckWorks, MakeWorks, StageWorks, PollWorks, RenewWorks, RecordWorks,
         FinishWorks, KillWorks DEF Step
    <2> QED
      BY <2>1, WorkerMoves
  <1>2. ASSUME QueueStep \/ OrphanExit \/ UNCHANGED allVars PROVE WorkType' /\ WorkInv'
    <2>1. WorkType' /\ MovesBy(None)
      BY <1>2, WorldWorks
    <2> QED
      BY <2>1, WorkerMoves, WorkerAssumption
  <1> QED
    BY <1>1, <1>2 DEF WorkNext

LEMMA WorkInvariance == WorkSpec => [](WorkType /\ WorkInv)
  <1>1. WorkInit => WorkType /\ WorkInv
    <2> SUFFICES ASSUME WorkInit PROVE WorkType /\ WorkInv
      OBVIOUS
    <2>1. TypeOK
      BY QueueAssumption DEF WorkInit, Init, TypeOK, NoEntry, Entry
    <2>2. WorkType
      BY <2>1 DEF WorkInit, WorkType
    <2>3. \A c \in Callers : ~HasGrant(c) /\ pc[c] = "idle" /\ child[c] = "none"
      BY DEF WorkInit, Init, HasGrant
    <2>4. \A c \in Callers : Passing(c)
      BY <2>3 DEF Passing
    <2>5. NoFalseSuccess /\ ToldTheTruth /\ orphan = {}
      BY DEF WorkInit, Init, NoEntry, NoFalseSuccess, ToldTheTruth
    <2> QED
      BY <2>2, <2>4, <2>5 DEF WorkInv
  <1> QED
    BY <1>1, WorkStep, PTL DEF WorkSpec

(* "an interruption never produces a false success" (durable_queue.py:13): *)
(* kills, lost leases, cancellations and late reports included, a task is  *)
(* succeeded only if the command of its last attempt was seen to exit 0.   *)
(* It takes worker ids that are not shared: work_once reports by id.       *)
THEOREM NoSuccessUnseen == ASSUME DistinctIds PROVE WorkSpec => []NoFalseSuccess
  <1>1. WorkInv => NoFalseSuccess
    BY DEF WorkInv
  <1> QED
    BY <1>1, WorkInvariance, PTL

(* The directory of a task keeps a second command of it from starting,     *)
(* also beside one that outlived its worker, and whatever the worker ids   *)
(* are (workspace.py:112-125, worker.py:132).                              *)
THEOREM OneRun == WorkSpec => []OneRunPerTask
  <1>1. WorkType /\ WorkInv => OneRunPerTask
    <2> SUFFICES ASSUME WorkType, WorkInv, NEW t \in Tasks
                 PROVE  /\ \A c, d \in RunsOf(t) : c = d
                        /\ t \in orphan => RunsOf(t) = {}
      BY DEF OneRunPerTask
    <2>1. \A c \in RunsOf(t) : c \in Callers /\ dirs[t] = c
      BY DEF RunsOf, WorkInv, Passing
    <2>2. t \in orphan => dirs[t] = Leftover
      BY DEF WorkInv
    <2> QED
      BY <2>1, <2>2, WorkerAssumption
  <1> QED
    BY <1>1, WorkInvariance, PTL

(* A command runs in the directory its own worker made (worker.py:132):    *)
(* no collision, kill or retention takes it away (worker.py:145-146).      *)
THEOREM OwnWorkspace == WorkSpec => []WorkspaceIsOwn
  <1>1. WorkInv => WorkspaceIsOwn
    BY DEF WorkInv, Passing, WorkspaceIsOwn
  <1> QED
    BY <1>1, WorkInvariance, PTL

(* An answer "succeeded" of work_once (worker.py:147-150) is what the      *)
(* queue has, then and from then on, whatever the worker ids are.          *)
THEOREM AnswersHold == WorkSpec => []ToldTheTruth
  <1>1. WorkInv => ToldTheTruth
    BY DEF WorkInv
  <1> QED
    BY <1>1, WorkInvariance, PTL
=============================================================================
