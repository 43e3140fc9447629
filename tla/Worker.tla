------------------------------- MODULE Worker -------------------------------
(***************************************************************************)
(* The worker loop of worker.py over the durable queue: a caller of the    *)
(* queue is a worker process that carries one leased task through          *)
(*                                                                         *)
(*   lease -> allocate_workspace -> stage_repo -> run_task -> record_result *)
(*         -> retention of the workspace                                   *)
(*                                                                         *)
(* with the pieces it uses: allocate_workspace of workspace.py (a check    *)
(* and a mkdir, two system calls), the poll loop of runner.py, and         *)
(* remove_workspace / should_remove of taskflow.py.  The process may be    *)
(* killed at every step; the command it had started is in a session of its *)
(* own and goes on, and its directory stays.                               *)
(*                                                                         *)
(* The slot of the ConcurrencyGate is not modelled here: the gate does not *)
(* keep two workers from overlapping (ConcurrencyGate.tla), so every       *)
(* overlap is allowed; a worker that is refused leaves the queue alone.    *)
(***************************************************************************)
EXTENDS DurableQueue

CONSTANT Retentions    \* values of workspace_retention in use

Leftover == "leftover"    \* a directory no worker is using

ASSUME WorkerAssumption ==
    /\ Retentions \subseteq {"keep", "delete", "delete-on-success"}
    /\ None \notin Callers /\ Leftover \notin Callers \cup {None}

VARIABLES
    pc,        \* the step of work_once each worker is at
    dirs,      \* workspaces: None, the worker using it, or Leftover
    made,      \* `workspace is not None`: this pass has created its directory
    child,     \* the command each worker has started
    orphan,    \* tasks whose command outlived the worker that started it
    lost,      \* _RenewingClock.lost
    result,    \* outcome of run_task (exit_code folded in)
    recorded,  \* RecordOutcome of record_result
    exited0,   \* observer: attempts whose command was seen to exit 0
    told       \* observer: tasks some work_once answered "succeeded" for

workVars == <<pc, dirs, made, child, orphan, lost, result, recorded, exited0, told>>
allVars == <<vars, workVars>>

Task(c) == grants[c].task

(* The entry and the journal are untouched by steps outside the queue. *)
OutsideQueue == UNCHANGED vars

WorkInit ==
    /\ Init
    /\ pc = [c \in Callers |-> "idle"]
    /\ dirs = [t \in Tasks |-> None]
    /\ made = [c \in Callers |-> FALSE]
    /\ child = [c \in Callers |-> "none"]
    /\ orphan = {}
    /\ lost = [c \in Callers |-> FALSE]
    /\ result = [c \in Callers |-> "none"]
    /\ recorded = [c \in Callers |-> "none"]
    /\ exited0 = {}
    /\ told = {}

-----------------------------------------------------------------------------
(* work_once *)

Take(c) ==
    /\ pc[c] = "idle" /\ Lease(c)
    /\ pc' = [pc EXCEPT ![c] = "allocate"]
    /\ lost' = [lost EXCEPT ![c] = FALSE]
    /\ result' = [result EXCEPT ![c] = "none"]
    /\ recorded' = [recorded EXCEPT ![c] = "none"]
    /\ made' = [made EXCEPT ![c] = FALSE]
    /\ UNCHANGED <<dirs, child, orphan, exited0, told>>

(* ConfigValidationError before the command runs: the result is _failed_run. *)
Reject(c) ==
    /\ result' = [result EXCEPT ![c] = "rejected"]
    /\ pc' = [pc EXCEPT ![c] = "record"]
    /\ UNCHANGED <<dirs, child>>

Collides(t) == dirs[t] # None

(* allocate_workspace, the exists check. *)
CheckWorkspace(c) ==
    /\ pc[c] = "allocate"
    /\ \/ Collides(Task(c)) /\ Reject(c)
       \/ /\ ~Collides(Task(c))
          /\ pc' = [pc EXCEPT ![c] = "mkdir"]
          /\ UNCHANGED <<dirs, child, result>>
    /\ OutsideQueue
    /\ UNCHANGED <<made, orphan, lost, recorded, exited0, told>>

(* An OSError leaves work_once without a result: the process ends, the     *)
(* lease runs out on its own.                                              *)
Escape(c) ==
    /\ grants' = [grants EXCEPT ![c] = NoGrant]
    /\ pc' = [pc EXCEPT ![c] = "idle"]
    /\ dirs' = [t \in Tasks |-> IF dirs[t] = c THEN Leftover ELSE dirs[t]]
    /\ UNCHANGED <<made, entries, journal, now, child, orphan, lost, result, recorded,
                   exited0, told>>

(* allocate_workspace, os.mkdir: the directory may have appeared since. *)
MakeWorkspace(c) ==
    /\ pc[c] = "mkdir"
    /\ \/ /\ dirs[Task(c)] = None
          /\ dirs' = [dirs EXCEPT ![Task(c)] = c]
          /\ made' = [made EXCEPT ![c] = TRUE]
          /\ pc' = [pc EXCEPT ![c] = "stage"]
          /\ OutsideQueue
          /\ UNCHANGED <<child, orphan, lost, result, recorded, exited0, told>>
       \/ Escape(c)    \* FileExistsError, no space, no base directory

(* stage_repo, if the policy has a source: it may take longer than the lease. *)
Stage(c) ==
    /\ pc[c] = "stage"
    /\ \/ /\ \/ pc' = [pc EXCEPT ![c] = "spawn"] /\ UNCHANGED <<dirs, child, result>>
             \/ Reject(c)
          /\ OutsideQueue
          /\ UNCHANGED <<made, orphan, lost, recorded, exited0, told>>
       \/ Escape(c)    \* git could not be executed

(* run_task up to the spawn: the recipe is rejected or the command starts. *)
Spawn(c) ==
    /\ pc[c] = "spawn"
    /\ \/ Reject(c)
       \/ /\ child' = [child EXCEPT ![c] = "running"]
          /\ pc' = [pc EXCEPT ![c] = "run"]
          /\ UNCHANGED <<dirs, result>>
    /\ OutsideQueue
    /\ UNCHANGED <<made, orphan, lost, recorded, exited0, told>>

(* The command ends by itself. *)
ChildExit(c) ==
    /\ child[c] = "running"
    /\ \E how \in {"exit-0", "exit-1"} : child' = [child EXCEPT ![c] = how]
    /\ OutsideQueue
    /\ UNCHANGED <<pc, dirs, made, orphan, lost, result, recorded, exited0, told>>

(* Mutant: only the direct child is killed. *)
KillTreeChildOnly(c) == orphan' = orphan \cup {Task(c)}

(* kill_tree and _drain end the whole process group: nothing lives on. *)
KillTree(c) == UNCHANGED orphan

(* The poll loop: an exit code first, then the cancel token, then the      *)
(* timeout; the last two kill the process group.                           *)
Poll(c) ==
    /\ pc[c] = "run"
    /\ \/ /\ child[c] # "running"
          /\ result' = [result EXCEPT ![c] = child[c]]
          /\ exited0' = IF child[c] = "exit-0"
                        THEN exited0 \cup {<<Task(c), grants[c].attempt>>} ELSE exited0
       \/ /\ child[c] = "running" /\ lost[c]
          /\ result' = [result EXCEPT ![c] = "cancelled"]
          /\ UNCHANGED exited0
       \/ /\ child[c] = "running" /\ ~lost[c]
          /\ result' = [result EXCEPT ![c] = "timed-out"]
          /\ UNCHANGED exited0
    /\ KillTree(c)
    /\ child' = [child EXCEPT ![c] = "none"]
    /\ pc' = [pc EXCEPT ![c] = "record"]
    /\ OutsideQueue
    /\ UNCHANGED <<dirs, made, lost, recorded, told>>

(* _RenewingClock.sleep between two polls: renewed, or lost for good. *)
RenewInRun(c) ==
    /\ pc[c] = "run" /\ ~lost[c]
    /\ \/ Renew(c) /\ UNCHANGED lost
       \/ /\ ~HeldBy(Task(c), IdOf[c])
          /\ lost' = [lost EXCEPT ![c] = TRUE]
          /\ OutsideQueue
    /\ UNCHANGED <<pc, dirs, made, child, orphan, result, recorded, exited0, told>>

(* Mutant: whatever did not fail counts as a good run. *)
RanOkUnlessFailed(c) == result[c] # "exit-1" /\ result[c] # "rejected"

RanOk(c) == result[c] = "exit-0"

(* observe_base, then record_result.  The answer is kept for the report. *)
Record(c) ==
    /\ pc[c] = "record"
    /\ \E observed \in Bases, at \in At :
         /\ record_result(Task(c), IdOf[c], RanOk(c), observed, at)
         /\ recorded' = [recorded EXCEPT ![c] =
                IF ValidLease(Task(c), IdOf[c], at)
                THEN FinalState(Task(c), RanOk(c), observed) ELSE "rejected"]
    /\ pc' = [pc EXCEPT ![c] = "retain"]
    /\ UNCHANGED <<grants, now, dirs, made, child, orphan, lost, result, exited0, told>>

should_remove(retention, completed_ok) ==
    retention = "delete" \/ (retention = "delete-on-success" /\ completed_ok)

(* Mutant: the directory of the task goes, whoever made it. *)
OwnsAny(c) == dirs[Task(c)] # None

Owns(c) == made[c]

(* Mutant: the report looks at the run only. *)
ReportsSuccessOfRun(c) == RanOk(c)

ReportsSuccess(c) == ~lost[c] /\ recorded[c] = "succeeded"

(* Retention, and the WorkResult is returned. *)
Finish(c) ==
    /\ pc[c] = "retain"
    /\ \E retention \in Retentions :
         dirs' = IF ~Owns(c) THEN dirs
                 ELSE [dirs EXCEPT ![Task(c)] =
                         IF should_remove(retention, RanOk(c)) THEN None ELSE Leftover]
    /\ told' = IF ReportsSuccess(c) THEN told \cup {Task(c)} ELSE told
    /\ grants' = [grants EXCEPT ![c] = NoGrant]
    /\ pc' = [pc EXCEPT ![c] = "idle"]
    /\ UNCHANGED <<made, entries, journal, now, child, orphan, lost, result, recorded, exited0>>

(* The process is killed: its command is in its own session and lives on. *)
Kill(c) ==
    /\ pc[c] # "idle"
    /\ orphan' = IF child[c] = "running" THEN orphan \cup {Task(c)} ELSE orphan
    /\ child' = [child EXCEPT ![c] = "none"]
    /\ dirs' = [t \in Tasks |-> IF dirs[t] = c THEN Leftover ELSE dirs[t]]
    /\ grants' = [grants EXCEPT ![c] = NoGrant]
    /\ pc' = [pc EXCEPT ![c] = "idle"]
    /\ UNCHANGED <<made, entries, journal, now, lost, result, recorded, exited0, told>>

OrphanExit ==
    /\ \E t \in orphan : orphan' = orphan \ {t}
    /\ OutsideQueue
    /\ UNCHANGED <<pc, dirs, made, child, lost, result, recorded, exited0, told>>

Step(c) ==
    \/ Take(c) \/ CheckWorkspace(c) \/ MakeWorkspace(c) \/ Stage(c) \/ Spawn(c)
    \/ Poll(c) \/ RenewInRun(c) \/ Record(c) \/ Finish(c)

(* What the rest of the world does to the queue. *)
QueueStep ==
    /\ \/ \E t \in Tasks, r \in Recipes, b \in Bases : Enqueue(t, r, b)
       \/ \E t \in Tasks : Cancel(t)
       \/ Reconcile
       \/ Tick
    /\ UNCHANGED workVars

WorkNext ==
    \/ \E c \in Callers : Step(c) \/ ChildExit(c) \/ Kill(c)
    \/ OrphanExit
    \/ QueueStep

WorkSpec == WorkInit /\ [][WorkNext]_allVars

(* A worker that is not killed goes on (the command has a timeout), an     *)
(* idle worker or an operator reconciles, the clock does not stop.         *)
FairWorkSpec ==
    /\ WorkSpec
    /\ \A c \in Callers : WF_allVars(Step(c))
    /\ WF_allVars(Reconcile /\ UNCHANGED workVars)
    /\ WF_allVars(Tick /\ UNCHANGED workVars)

-----------------------------------------------------------------------------
(* Properties *)

(* "an interruption never produces a false success" (durable_queue.py:13): *)
(* a task is succeeded only if the command of its last attempt was seen to *)
(* exit 0, whatever was killed, lost, cancelled or reported late.          *)
NoFalseSuccess ==
    \A t \in Tasks : entries[t].state = "succeeded" => <<t, entries[t].attempt>> \in exited0

RunsOf(t) == {c \in Callers : Task(c) = t /\ child[c] = "running"}

(* Two commands of one task never run at the same time under one base,     *)
(* not even a retry beside the command that outlived a killed worker: the  *)
(* leases alone do not give this, the collision check of                   *)
(* allocate_workspace does (workspace.py:112-125, worker.py:132).          *)
OneRunPerTask ==
    \A t \in Tasks :
        /\ \A c, d \in RunsOf(t) : c = d
        /\ t \in orphan => RunsOf(t) = {}

(* A command runs in a directory that is there and that its own worker     *)
(* created, and what a pass removes is what it created (worker.py:145-146).*)
WorkspaceIsOwn ==
    \A c \in Callers : child[c] # "none" => dirs[Task(c)] = c

(* A worker that answers "succeeded" has it in the queue, and a lost lease *)
(* never answers so (worker.py:147-150): `queue work` exits 0 only for     *)
(* tasks that are recorded as succeeded.                                   *)
ToldTheTruth ==
    \A t \in told : entries[t].state = "succeeded"

=============================================================================
