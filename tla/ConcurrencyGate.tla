-------------------------- MODULE ConcurrencyGate --------------------------
(***************************************************************************)
(* ConcurrencyGate of taskflow.py: `hold` admits a process when fewer than *)
(* `limit` live lock files lie in <base>/.running, and keeps one lock file *)
(* there while the process works.  Nothing but the file system is shared,  *)
(* so every system call is a step of its own: listing the directory,       *)
(* reading one lock, unlinking it, creating one's own with O_EXCL, writing *)
(* the pid into it, unlinking it at the end.                               *)
(*                                                                         *)
(* A lock file remembers which process created it, because a name may be   *)
(* unlinked and created again: a pid written through an old handle does    *)
(* not reach the new file.                                                 *)
(***************************************************************************)
EXTENDS Naturals, FiniteSets

CONSTANTS
    Procs,   \* processes that call hold; each is one pid for its whole life
    LockOf,  \* LockOf[p]: the lock name p uses (a task id or worker-<id>)
    Limit,   \* TaskPolicy.max_concurrent_tasks
    None

Names == {LockOf[p] : p \in Procs}

ASSUME GateAssumption ==
    /\ IsFiniteSet(Procs)
    /\ LockOf \in [Procs -> Names]
    /\ Limit \in Nat \ {0}
    /\ None \notin Procs /\ None \notin Names

VARIABLES
    locks,       \* the directory: locks[n] is the file n.lock, or NoFile
    pc,          \* where each process is in hold
    unread,      \* lock names of the listing that _live_locks has not read yet
    live,        \* the locks _live_locks has found alive
    reaping,     \* the lock it is about to unlink
    overlapped   \* observer: two processes have been in the entry at once

vars == <<locks, pc, unread, live, reaping, overlapped>>

NoFile == [owner |-> None, pid |-> None]

Present(n) == locks[n] # NoFile

(* A process that has finished or was killed. *)
Alive(pid) == pid # None /\ pc[pid] # "dead"

Entry == {"scan", "reap", "create", "opened"}

Entering == {p \in Procs : pc[p] \in Entry}
Holding == {p \in Procs : pc[p] = "held"}

-----------------------------------------------------------------------------
Init ==
    /\ locks = [n \in Names |-> NoFile]
    /\ pc = [p \in Procs |-> "idle"]
    /\ unread = [p \in Procs |-> {}]
    /\ live = [p \in Procs |-> {}]
    /\ reaping = [p \in Procs |-> None]
    /\ overlapped = FALSE

(* hold is called: mkdir, then _live_locks lists the directory. *)
Start(p) ==
    /\ pc[p] = "idle"
    /\ pc' = [pc EXCEPT ![p] = "scan"]
    /\ unread' = [unread EXCEPT ![p] = {n \in Names : Present(n)}]
    /\ live' = [live EXCEPT ![p] = {}]
    /\ overlapped' = (overlapped \/ Entering # {})
    /\ UNCHANGED <<locks, reaping>>

(* Mutant: a lock counts as live as long as its file exists. *)
ReadsAlivePresent(n) == Present(n)

(* The pid in the lock names a live process; an empty or missing file is pid 0. *)
ReadsAlive(n) == Present(n) /\ Alive(locks[n].pid)

ReadLock(p, n) ==
    /\ pc[p] = "scan" /\ n \in unread[p]
    /\ unread' = [unread EXCEPT ![p] = @ \ {n}]
    /\ \/ /\ ReadsAlive(n)
          /\ live' = [live EXCEPT ![p] = @ \cup {n}]
          /\ UNCHANGED <<pc, reaping>>
       \/ /\ ~ReadsAlive(n)
          /\ pc' = [pc EXCEPT ![p] = "reap"]
          /\ reaping' = [reaping EXCEPT ![p] = n]
          /\ UNCHANGED live
    /\ UNCHANGED <<locks, overlapped>>

(* unlink goes by name: it removes whatever file has the name by now. *)
UnlinkDead(p) ==
    /\ pc[p] = "reap"
    /\ locks' = [locks EXCEPT ![reaping[p]] = NoFile]
    /\ reaping' = [reaping EXCEPT ![p] = None]
    /\ pc' = [pc EXCEPT ![p] = "scan"]
    /\ UNCHANGED <<unread, live, overlapped>>

(* Mutant: one slot too many. *)
FullOffByOne(p) == Cardinality(live[p]) > Limit

Full(p) == Cardinality(live[p]) >= Limit

(* The listing is done: TooManyTasksError, or on to the own lock. *)
Count(p) ==
    /\ pc[p] = "scan" /\ unread[p] = {}
    /\ pc' = [pc EXCEPT ![p] = IF Full(p) THEN "idle" ELSE "create"]
    /\ UNCHANGED <<locks, unread, live, reaping, overlapped>>

(* O_CREAT | O_EXCL: FileExistsError is TooManyTasksError. *)
Create(p) ==
    /\ pc[p] = "create"
    /\ \/ /\ Present(LockOf[p])
          /\ pc' = [pc EXCEPT ![p] = "idle"]
          /\ UNCHANGED locks
       \/ /\ ~Present(LockOf[p])
          /\ pc' = [pc EXCEPT ![p] = "opened"]
          /\ locks' = [locks EXCEPT ![LockOf[p]] = [owner |-> p, pid |-> None]]
    /\ UNCHANGED <<unread, live, reaping, overlapped>>

(* The pid reaches the directory only if the file is still the one opened. *)
WritePid(p) ==
    /\ pc[p] = "opened"
    /\ pc' = [pc EXCEPT ![p] = "held"]
    /\ locks' = IF locks[LockOf[p]].owner = p
                THEN [locks EXCEPT ![LockOf[p]] = [owner |-> p, pid |-> p]]
                ELSE locks
    /\ UNCHANGED <<unread, live, reaping, overlapped>>

(* Mutant: the lock file stays behind. *)
ReleaseLeaks(p) ==
    /\ pc[p] = "held"
    /\ pc' = [pc EXCEPT ![p] = "idle"]
    /\ UNCHANGED <<locks, unread, live, reaping, overlapped>>

(* The finally of hold: unlink by name. *)
Release(p) ==
    /\ pc[p] = "held"
    /\ pc' = [pc EXCEPT ![p] = "idle"]
    /\ locks' = [locks EXCEPT ![LockOf[p]] = NoFile]
    /\ UNCHANGED <<unread, live, reaping, overlapped>>

(* The process is killed; its files stay. *)
Crash(p) ==
    /\ pc[p] \in Entry \cup {"held"}
    /\ pc' = [pc EXCEPT ![p] = "dead"]
    /\ reaping' = [reaping EXCEPT ![p] = None]
    /\ UNCHANGED <<locks, unread, live, overlapped>>

Step(p) ==
    \/ Start(p) \/ (\E n \in Names : ReadLock(p, n)) \/ UnlinkDead(p)
    \/ Count(p) \/ Create(p) \/ WritePid(p) \/ Release(p)

Next == \E p \in Procs : Step(p) \/ Crash(p)

Spec == Init /\ [][Next]_vars

(* A process that is refused is started again, and every process that is   *)
(* not killed keeps running: the task it holds the slot for ends.          *)
FairSpec == Spec /\ \A p \in Procs : WF_vars(Step(p))

-----------------------------------------------------------------------------
(* Properties *)

(* Types, and a lock is being unlinked exactly in the reaping step of the  *)
(* scan (taskflow.py:145-156).                                             *)
TypeOK ==
    /\ locks \in [Names -> [owner : Procs \cup {None}, pid : Procs \cup {None}]]
    /\ pc \in [Procs -> Entry \cup {"idle", "held", "dead"}]
    /\ unread \in [Procs -> SUBSET Names]
    /\ live \in [Procs -> SUBSET Names]
    /\ reaping \in [Procs -> Names \cup {None}]
    /\ \A p \in Procs : pc[p] = "reap" <=> reaping[p] # None
    /\ overlapped \in BOOLEAN

(* "At most `limit` tasks at once under one workspace base, across         *)
(* processes." (taskflow.py:134)                                           *)
AtMostLimit == Cardinality(Holding) <= Limit

(* The limit does hold as long as no two processes have been inside the    *)
(* entry of `hold` (taskflow.py:161-170) at the same time, whoever crashed *)
(* where.                                                                  *)
LimitUnlessOverlap == ~overlapped => AtMostLimit

(* A slot is never lost: a lock file in the directory belongs to a process *)
(* that is inside hold or dead, even when processes have unlinked each     *)
(* other's locks (taskflow.py:154, 175).                                   *)
NoLeakedLock ==
    \A n \in Names : Present(n) =>
        pc[locks[n].owner] \in {"opened", "held", "dead"}

(* "a lock whose process is gone is taken over" (taskflow.py:14): when     *)
(* every other process has died, wherever, the last one gets in.           *)
TakeOver ==
    \A p \in Procs :
        (\A q \in Procs \ {p} : pc[q] = "dead") ~> (pc[p] \in {"held", "dead"})
=============================================================================
