# HYDRA-UMC-DEV-SERVER in TLA+

A verification project for the Python package `src/hydra_umc_dev_server`: TLA+ modules that model
its stateful parts, TLC runs that check them on small instances, and theorems that TLAPS proves for
every instance. Paths such as `worker.py:139` are relative to the package. `PROJECT.json` lists the
components, the runs, the hazards, the findings, the mutations each property is known to catch, and,
for every definition, the lines it models.

## 1. The system

The server runs development tasks in isolated workspaces and carries failures of nodes through a
gated repair. It is a set of command line programs and one small HTTP server that share files:
SQLite databases, lock files, JSON documents. There is no central process, so most of what is hard
is about *processes* that meet in files, each of which may be killed at any moment.

| Component | State it keeps | Operations | Meets |
|---|---|---|---|
| Durable queue (`durable_queue.py`) | tables `entries` and `journal` in SQLite | enqueue, lease, renew_lease, record_result, cancel, reconcile, prune_journal; one transaction each | every worker process and the operator's commands |
| Worker loop (`worker.py`) | one leased task, its clock | work_once, work_loop | queue, gate, workspaces, runner |
| Concurrency gate (`taskflow.py`) | a directory of `.lock` files holding pids | hold (scan, reap, count, create, write pid), release | worker and `task run` processes |
| Workspaces and staging (`workspace.py`, `taskflow.py`) | a directory per task | allocate (check, then mkdir), stage_repo, retention | worker, orphaned commands |
| Runner and sandbox (`runner.py`, `sandbox.py`) | a child process in its own session | run_task poll loop, kill_tree | worker |
| Incident transport (`incident_transport.py`) | nonces and message times of the verifier; sessions with unacknowledged messages | verify_message, submit, pump, reconcile | nodes, over an unreliable channel |
| Node channel (`node_channel.py`) | tokens file, inbox directory | handle, issue_token, revoke_token | HTTP threads, operator's commands |
| Trust store and signing (`trust_store.py`, `signing.py`) | alias to public key, revoked aliases | add, revoke, save, identify | operator's commands, repair cycle |
| Repair cycle (`repair_cycle.py`) | state, candidate, signer | eight steps, each a gate | trust store, installer, outcome sink |
| AI provider (`ai_provider.py`) | budget of calls, tokens and cost; usage so far | run_provider_step with a timeout | a remote model |
| Plugin host (`plugins.py`) | registry under a lock, slots, stuck threads | discover, enable, disable; run a check, report or generator with a timeout | plugin files, plugin threads and child processes |
| HTTP API (`api.py`, `health_route.py`, `server_identity.py`) | slots of requests, roles of callers | routes | clients, node channel, plugins |
| Operations (`operations.py`) | backups, their manifests and signatures | backup, sign, verify, restore, health | the running service, trust store |
| Migration (`migration.py`) | a scan and its plan | `migrate plan` | git, a developer who goes on working |
| Station (`remote_station.py`, `preflight.py`, `provision.py`) | profile, plan | `station plan` | a host and the operator who carries the plan out |
| Scenario ingest (`scenario_ingest.py`) | settings, token | login, post of an outcome | HYDRA-UMC-SERVER |
| Recipes, policies, sandbox, `task run` (`recipe.py`, `config.py`, `sandbox.py`, `cli.py`) | documents | validate, detect, launch | gate, workspaces, runner |
| Benchmark, delivery, inventory (`bench.py`, `delivery.py`, `inventory.py`) | reports | read-only | services of other repositories |

Behaviours that are hard to test, and where they bite:

* **Time that is read too early.** Queue and verifier read the clock *before* they wait for the
  database lock (up to 30 s), so every decision about leases, windows and rates uses a time that may
  be past.
* **Late workers.** A lease runs out while its worker stages, runs, or is stopped; the task is
  leased again; both report.
* **Kills between two system calls**: lock created but without a pid, inbox file created but not
  written, `<file>.tmp` left behind, a command that outlives its worker.
* **Check, then act** on a directory: the gate, the collision check of workspaces, and the documents
  rewritten by commands without a lock.
* **Messages** repeated, delayed, altered or lost, and retries with a fresh nonce.
* **Steps in any order** on a state machine that holds an installed candidate.
* **A world that moves under a reader**: plugin files edited between discovery, approval and call;
  files written while they are copied; a checkout committed while it is scanned; a host that changes
  between preflight and work.
* **Cuts half way** through a restore that replaces file by file, and answers lost after the other
  side acted.
* **Limits passed together**: slots, overrun threads and budgets that are checked in one step and
  used in another.

What makes each component correct is stated as the properties of section 3.

## 2. The modules

### DurableQueue, TaskLedger (`durable_queue.py`)

`entries` is the table `entries`, `journal` the table `journal` kept per task, `grants` what each
caller remembers of its lease, `now` the clock. Every method is one action, because every method is
one `BEGIN IMMEDIATE` transaction; the operators with the names of the methods (`enqueue`, `lease`,
`record_result` ...) say what the transaction does at the time `at`, and the actions choose the
caller and an `at` up to `Lag` behind `now` (`At`). `IdOf` gives the worker id that a caller
presents: two callers may present the same one. `Crash` is the death of a caller that forgets its
grant. `record_result` journals a refused result (the row `result-rejected`), as the code does.

Left out: read-only queries, the JSON of recipes (a recipe is a value of `Recipes`), the truncated
output tails.

`TaskLedger` is what submitters are promised: a task id names one job for ever, tried at most
`MaxAttempts` times and closed at most once. `Ledger` in DurableQueue is the refinement mapping:
`queued` and `leased` are one open phase, an attempt is a try, everything else is hidden.

### ConcurrencyGate (`taskflow.py:113-177`)

One action per system call of `hold`: listing the directory, reading one lock, unlinking one that
looks dead, counting, creating with `O_EXCL`, writing the pid, unlinking on exit. `locks[n]` has an
owner (who created it, known to the observer) and a pid (what is written in it, `None` until
`WritePid`). `LockOf` lets two processes use one name (two workers with the same id). A pid is never
given to another process (not modelled: that needs the table of the operating system).

### Worker (`worker.py`, with `workspace.py`, `runner.py`, `taskflow.py`)

Extends DurableQueue: a caller is a worker process whose `pc` walks through `work_once`. It *uses*
the queue's own actions (`Take` is `Lease`, `Record` is `RecordResult`, the renewing clock is
`Renew`), so that the queue it runs on is the one checked alone. The check and the mkdir of
`allocate_workspace` are two steps; `Stage` does not renew the lease; the command may end, time out,
be cancelled by a lost lease, or outlive a killed worker (`orphan`); an exception that `work_once`
does not catch ends the worker (`Escape`). The gate is not composed in: it does not keep two workers
from overlapping, so the module allows every overlap.

### MessageVerifier, NodeChannel (`incident_transport.py`, `node_channel.py`)

MessageVerifier holds the decision and the update of `verify_message` as operators on a value
`store` (nonces and message times). NodeChannel is `NodeChannel.handle`: `Receive` (authenticated
and parsed), `Verify` (the transaction), `Create` (`os.open` with `O_EXCL`, or the answer
"duplicate"), `Write`, and `Refuse`, which is every other way out (403, 503, an exception). `Post`
is a node that posts and posts again with a fresh nonce until it has a 200. The network is the set
`posted`, from which a thread may take any message at any time, also altered (`Variants`): that is
delay, repetition, reordering and loss in one. Clocks of nodes are off by up to `Skew`. `Crash`
kills the server with all its threads.

A message is a record; `signer` is the node whose secret made the mac, so that the HMAC is "the
field equals the node". Posts that fail before verification (400, 401, 413) change nothing and are
the same as posts never taken up; `Nodes` are the nodes of the registry. `FileOf` gives the file
name that a message id becomes. `Verify` takes an `at` up to `Lag` behind `now`: the code reads the
clock first and waits for the transaction afterwards, and both freshness and purge go by that
reading. The table `messages` is a set whose rows carry the nonce, so that
two messages of one moment are two rows, as they are in the table. The clock does not go backwards.

### OperatorStores (`node_channel.py`, `trust_store.py`, `cli.py`)

The tokens file and the trust store are rewritten the same way: read the document, change one entry,
write `<file>.tmp`, rename. The module follows inodes, because two commands that open `<file>.tmp`
at once share one, and a rename takes along whoever still has it open. A behaviour is about one of
the two stores (chosen by `StoresInit`): they have no state in common, and `issue_token`, `with_key`
and `with_revoked` differ in what they do to an entry. `Broken` is a file that does not parse.

### RepairCycle (`repair_cycle.py`, `trust_store.py`, `signing.py`)

The class with its installer and its sink. Every step is an action that follows its gates in order;
a step called in any other state is `OutOfOrder`, which is `_block`. Candidates and approvals range
over every combination of matching and not matching incident, base, target, patch, id, expiry and
signing key; a key is an Ed25519 public key or a shared secret; both settings
(`allow_symmetric_keys`, `require_bound_approval`) are chosen by `Init`. Around the cycle the clock
runs, aliases are revoked and the base moves. A signature is the key that made it: the arithmetic of
`signing.py` is not modelled. `handed` is what the sink was told: the run before the fix, and the
run after it with its outcome. An installer or a sink that raises changes nothing in the cycle and
is a stuttering step.

### IncidentSession (`incident_transport.py:337-445`)

`IncidentSession` with `submit_incident`, `reconcile` and `pump`, and the two sides of an unreliable
channel: `out` and `in` are sets from which copies are taken, kept, or lost, and strangers may put
anything in. A session begins in `submitted`, as in the code, with neither `incident_id` (`named`)
nor `last_sent` (`sent`). `submit_incident` is refused in no state; its send may raise, with the
message on its way or not, and then sets neither `last_sent` nor the state (`extra` counts these and
the repeated submits, up to `MaxExtra`). A restart begins the session anew with an empty memory of
nonces. Clocks are left to NodeChannel: here a message may be refused at any moment, and a nonce is
forgotten once no copy of its message is left, which is what `NonceKept` says of the clock; `pump`
judges one message after the other, so no reading of the clock is overtaken. The peer is another
service and external: it keeps an incident once, by its id, and acknowledges every copy, which is
what `reconcile` relies on.

### PluginHost, ApiServer (`plugins.py`, `api.py`, `server_identity.py`)

PluginHost is `PluginRegistry`: what happens under its lock is one step, except `_enable`, which
holds the lock over the plugin's `register`. A call is `Lookup`, `Acquire` or `CountStuck`, `Spawn`
or `StartThread`, and its end, because `record.source` is read after the lock is free. A rescan may
replace the record a call still holds (`orphan`, `kept`). A child that overran is killed with its
group and then waited for without a timeout (`plugins.py:550`): a process that left the group keeps
the call in `hanging`, with its slot (`ChildHangs`), and in `register` the lock (`RegisterHangs`,
which in thread isolation needs no such process). A `register` that raises a `BaseException` which
is no `Exception` leaves the record as it was. `Edit` is anybody who changes the files. Both
isolations are chosen by `Init`. The digest is the pair of manifest and code; one plugin name is
modelled.

ApiServer extends it with the request threads: a slot is taken, the thread started (or not:
`faults`), the caller authorized, and the route carried out step by step by the actions of
PluginHost; `Release` is the `finally` that gives the slot back. HTTP parsing and the bytes of the
signed token are left out: a caller *is* `nobody`, the service's own token, or a role.

### BackupRestore (`operations.py`)

`create_backup` copies file by file while `LiveWrite` is the service at work, and `WriteManifest` is
its end; `SignManifest` is the command `ops sign-backup`, given later over whatever manifest is
there; `restore_backup` verifies everything, then writes each file through a temporary one
(`WriteTemporary`, `Rename`). `Stop` is a kill at any step, `Tamper` somebody who can write the
backup's directory. The restore modelled is the one with a key and a signature; without a key the
code checks the hashes only. `moved` and `altered` are observers: the service wrote during a backup,
the backup was changed under a running job.

### CommandLine = Migration + Station + ProviderStep + ScenarioIngest + TaskCommand (`cli.py`)

These commands share no state, so one system of them is their *sum*: `Main` picks one command and
only that machine moves. Each has a world that moves with it:

* **Migration** (`migration.py`): five git processes and then the hashes, one step each, while the
  developer edits, adds, commits and pushes; a git that fails has given an empty answer, as the code
  reads it. Paths are members of `Files`, contents numbers, roots sequences of names.
* **Station** (`remote_station.py`, `preflight.py`, `provision.py`): profile, checks and plan over
  every host of `Hosts`, each probe of `SystemHostInspector` an operator; `Effect` is what the
  command of a step does to the host, `HostChanges` somebody else.
* **ProviderStep** (`ai_provider.py`): steps against one budget, with answers that overspend or
  report nonsense, failures and timeouts.
* **ScenarioIngest** (`scenario_ingest.py`): login and post, with requests and answers lost, and the
  command run again; what `http.client` raises besides `OSError` escapes as a traceback (`raised`).
* **TaskCommand** (`recipe.py`, `config.py`, `sandbox.py`, `runner.py`, `cli.py`): every recipe
  against every policy and machine of the instance, through gate, workspace, staging, run and
  retention. An argument is one of seven kinds, by where a path or a
  denied option sits in its word; a script has two spellings.

## 3. What the runs show

| Run | Instance | Shows |
|---|---|---|
| `queue` | 1 task, 2 callers with own ids, 2 recipes and bases, 2 attempts, lease of 1, lag of 1, 1 renewal | leases honoured, late results refused, the journal explains the entry and is one history, refinement of TaskLedger |
| `gate` | 3 processes, 2 lock names, limit 1 | limit while nobody overlaps, no slot lost, takeover from the dead |
| `worker` | 1 task, 2 workers, 2 attempts, all retentions | no false success, one command per task, workspaces used by their makers, the pass tells the truth, tasks end |
| `channel` | 2 nodes, 2 escalations (2 posts and 1), 2 threads, window, rate, skew and lag of 1, 1 kill | accepted messages are remembered, rate limit, acknowledged is on file, stored once |
| `replay` | same | **violated**: AcceptedOnce |
| `operator` | 2 names, 2 commands at once, 2 keys; 2 files, 2 contents and a forged one, 2 signed backups | nothing lost without overlap, revocation sticks; targets hold signed files only, a successful restore is whole, a quiet service is copied at one moment |
| `repair` | 2 ids, patches and aliases, clock 0..2 | installed means passed every gate, failures leave nothing in place, reports match runs |
| `session` | 2 incidents, 3 nonces in use at once, 1 restart, 1 send that raises or repeats, 1 message about another incident | states are earned from the peer, only forward, an incident is acknowledged in the end |
| `host` | 2 request threads, 2 versions of a plugin and a broken one, both isolations, 1 slot, 1 overrun, 2 connections, 4 kinds of callers, 1 thread that does not start | only approved bytes run, no slot lost, overruns bounded, only writers change plugins, every request is answered but for what a plugin keeps for ever |
| `host_stale_manifest` | same | **violated**: OffersDeclared |
| `commands` | see `MCCommandLine` | published means published, every file in its place, a plan makes a host ready, the budget holds, "kept" means kept, started as allowed, the exit code tells the run |
| `script_spelling` | same | **violated**: SameScriptSameRule |

**Bounds.** `Lag`, `TTL` and the windows are 1 because the code only compares times: "before, at,
after" the limit are the cases, and a lag of 1 puts a stale read on the other side of each. Two
attempts give one retry and one dead letter; two callers give a holder and a late one. Tasks of the
queue only meet in the order of `lease`, so one task is checked (the theorems hold for any number).
Three processes are needed in the gate: two that overlap and one that reaps. Two request threads are
a call and whoever rescans, disables or enables between its steps; limits of 1 are reached by one
call and passed by the second. Two files are one restored and one not when a restore is cut; two
signed backups are what a mixture needs. Three nonces are a message, a copy and its answer; they are
taken up again when forgotten, so their number bounds the messages in flight and not the behaviour.
In the commands, one move of the developer (`MaxMoves`) falls between any two steps of the scan; a
budget of 3 calls, 4 tokens and 3 units of cost with answers of -1 to 2 is met, passed and missed in
each; two runs of `report-outcome` are a lost answer and its retry. `MaxCrashes`, `MaxTries`,
`MaxKeys`, `MaxTime`, `MaxRenewals`, `MaxAsked`, `MaxRestarts`, `MaxExtra`, `MaxOthers`, `MaxFaults`
and `IdleTime` only cut off repetition; each lets the interesting case happen at least once (the
mutations in PROJECT.json show that each property can fail within them). The run `operator` is about
the stores or about the backups in each behaviour, since they share no state; it has the constraint
`Undisturbed`: states in which the backup was changed under a running job are reached and not
followed, because nothing is promised from there on. Deadlock is not checked, because all these
systems may come to rest: all tasks closed, all processes dead, all posts used up, the command done.

**Fairness.** Liveness is checked for the worker, the gate, the API and the session. `FairWorkSpec`
assumes weak fairness of: a worker's own steps, unless it is killed (`run_task` has a timeout, git
has one, `work_loop` goes round); `reconcile`, which `work_loop` calls at its start and again after
idle passes (`worker.py:173-181`), and an operator may; and the clock. A kill is never fair, nor are
a renewal, a cancellation and the end of a command. The gate assumes that a process that is refused
is started again. ApiServer assumes *strong* fairness of each request thread, because the steps that
need the registry's lock are enabled and disabled again as others take it: a `threading.Lock` does
not pass one waiter over for ever. Plugins are not fair: an overrunning call ends by its timeout or
hangs past its kill, and so does `register`, which in thread isolation has no timeout at all; these
are the exceptions `Answered` states. The session assumes that its caller submits again after a send
that raised or a restart, as `reconcile` does not, that it goes on calling `reconcile` and `pump`,
that the channel does not lose every message of the incident for ever (strong fairness of delivery),
and that no copy stays fresh and no nonce is remembered for ever.

**Findings** (each a run that TLC refutes):

1. `_enable` approves the manifest on disk but holds the registered kinds against the manifest of
   the last discovery (`plugins.py:286`): a plugin may offer a kind its approved manifest does not
   declare (`docs/PLUGINS.md:30-31`).
2. `validate_against` looks up argument patterns under the key and, if that gives nothing, under the
   spelling (`recipe.py:79`): an empty entry for `build.sh` does not bind `./build.sh`
   (`config.py:136-138`).
3. `verify_message` reads the clock and judges freshness before it waits for the transaction
   (`incident_transport.py:289`, `:319`), and the accept of another message with a later reading
   purges the nonce (`:270`): the overtaken verifier accepts a copy again, although "two processes
   verifying the same message cannot both accept it" (`:229-230`, `:318`). The inbox still stores it
   once. `NonceKept` is what holds: every verifier that was not overtaken finds the nonce.

**Observed, without a run.** In the queue, the worker and the files:

* `record_result` compares worker ids and not attempts (`durable_queue.py:301`); with the default id
  of `queue work` (`cli.py:843`) a late result of attempt 1 can close attempt 2. `DistinctIds` is
  therefore a hypothesis of the theorems.
* The gate counts and creates in two steps and takes a lock without a pid for dead
  (`taskflow.py:147-166`): two processes can hold the only slot. `LimitUnlessOverlap` is what is
  left of the limit.
* `work_once` catches `ConfigValidationError` only (`worker.py:139`): an `OSError` of mkdir or git
  leaves the task leased until the lease runs out, which the module's docstring excludes
  (`worker.py:17`).
* An inbox file whose write was cut short is empty, and every retry is then acknowledged as its
  duplicate (`node_channel.py:202-208`): `AckedIsOnFile` names this case.
* When two commands on one store *overlap*, a finished revocation may be undone and the file may be
  left empty or mixed.
* An approval that expires between `apply_approval` and `install_isolated` still installs; a step
  called out of order after the install blocks the cycle with the candidate in place;
  `check_candidate` is described as the gate of `receive_candidate` but does not refuse a shared
  secret.
* A `verify` that finds the base moved, or evidence of another case, blocks without telling the sink
  (`repair_cycle.py:342-347`), where `docs/REPAIR_CYCLE.md:60` has `verify` passed on "whatever its
  result" and `repair_cycle.py:199` "each run of the repro case". `ReportsMatchRuns` states what is
  reported.
* A send that raises leaves the session without `last_sent` and not in `pending-ack`, and
  `reconcile` then does nothing (`incident_transport.py:389`, `:435`), where the docstring has "a
  dropped connection" leave it in `pending-ack` to be sent again (`:23-25`). A second
  `submit_incident` reopens a closed session (`:381-392`): `OnlyForward` is about messages.
* A message dated ahead of the server's clock stays fresh longer than its nonce is remembered, so
  that it can be accepted twice; the inbox still stores it once. Message ids of a session restart
  from 1 (`incident_transport.py:373`), and the inbox names files by them: `DistinctFiles` is a
  hypothesis.

In the host, the operations and the commands:

* A `register` that hangs in thread isolation keeps the registry's lock (`plugins.py:308`). In
  process isolation the wait after the kill has no timeout (`plugins.py:550`): a process that left
  the child's group and holds its pipe keeps the request and its slot, in `register` the lock too. A
  `register` that raises `SystemExit` in thread isolation passes both handlers (`plugins.py:309`,
  `api.py:318`): the caller gets no answer. `docs/PLUGINS.md:133-134` has no new call start once
  eight are still running; calls that are let in together pass that (`StuckBounded`). A request
  whose thread cannot be started loses its slot (`api.py:140`); `NoSlotLost` counts these.
* `ops keygen` may write the private file and fail on the public one. A restore without a key checks
  the hashes only.
* The lists of a destinations document replace the defaults of `PrivacyPolicy`, where its docstring
  says that a document can "never silently narrow" them (`migration.py:47`). On a branch without an
  upstream, committed files count as published and there is no bundle (`migration.py:513-526`); a
  failing git reads as an empty answer (`migration.py:408-418`); a `git add` between two of the
  questions makes a file that was never committed "tracked-clean". `ReferenceIsPublished` states
  these exceptions.
* `load_json_document` lets a `UnicodeDecodeError` through (`config.py:257-266`), as a traceback
  instead of an error line.
* `station plan` without `--preflight` accepts `0.0.0.0` (`remote_station.py:145-148`): only the
  preflight refuses it.
* `task run --replace-workspace` removes the old workspace before the recipe is held against the
  policy (`cli.py:303`), and holds another lock than a worker: it may remove the directory of a
  running one.
* The rules for arguments look into a word that begins with `-` only after its `=`, and for denied
  options only at its beginning (`recipe.py:84-93`): a path attached to a short option, and a denied
  letter behind another one, are let through unless the command has patterns of its own.
  `docs/WORKSPACE_AND_RUNNER.md:115-119` knows no such exception. `StartedAsAllowed` states what is
  refused.
* `post_scenario_outcome` says "Never raises for the network or the answer"
  (`scenario_ingest.py:142`); an `http.client` exception that is no `OSError` is not caught
  (`:112-116`).
* A provider's timeout is not counted against `max_calls`: the budget bounds the answers that are
  used, not the calls that are made.

## 4. What is proved

Proved by TLAPS, for all values of the constants that satisfy the assumptions:

| Theorem | Module | Statement |
|---|---|---|
| `TypeCorrect` | DurableQueueProofs | `Spec => []TypeOK` |
| `LeaseSafety` | DurableQueueProofs | `DistinctIds` and `Spec` imply `[]LeaseHonoured` |
| `LateResultSafety` | DurableQueueProofs | `DistinctIds` and `Spec` imply `LateResultRejected` |
| `Refinement` | DurableQueueProofs | `Spec => ImplementsLedger` |
| `JournalExplains` | DurableQueueProofs | `Spec => []JournalExplainsEntry` |
| `JournalHistory` | DurableQueueProofs | `Spec => []JournalIsOneHistory` |
| `NoSuccessUnseen` | DurableQueueProofs | `DistinctIds` and `WorkSpec` imply `[]NoFalseSuccess` |
| `OneRun` | DurableQueueProofs | `WorkSpec => []OneRunPerTask` |
| `OwnWorkspace` | DurableQueueProofs | `WorkSpec => []WorkspaceIsOwn` |
| `AnswersHold` | DurableQueueProofs | `WorkSpec => []ToldTheTruth` |
| `GateTypeCorrect` | ConcurrencyGateProofs | `Spec => []TypeOK` |
| `NoSlotIsLost` | ConcurrencyGateProofs | `Spec => []NoLeakedLock` |
| `LimitHolds` | ConcurrencyGateProofs | `Spec => []LimitUnlessOverlap` |
| `ChannelTypeCorrect` | NodeChannelProofs | `Spec => []TypeOK` |
| `NoReplay` | NodeChannelProofs | `Spec => []NonceKept` |
| `StoredForGood` | NodeChannelProofs | `Spec => StoredOnce` |
| `AcknowledgedOnFile` | NodeChannelProofs | `DistinctFiles` and `Spec` imply `[]AckedIsOnFile` |
| `RateIsHonoured` | NodeChannelProofs | `Spec => []RateHonoured` |
| `StoresInvariant` | OperatorProofs | `StoresSpec => []StoresInv`, one command at a time |
| `SettledIsStored` | OperatorProofs | `StoresSpec => []SettledUnlessOverlap` |
| `RevocationsHold` | OperatorProofs | `StoresSpec => RevocationSticks` |
| `RestoreInvariant` | OperatorProofs | `BackupSpec => []IInv`, honest signatures and restores |
| `OnlySignedRestored` | OperatorProofs | `BackupSpec => []TargetIsSigned` |
| `RestoresWhole` | OperatorProofs | `BackupSpec => []RestoredWhole` |
| `BackupsOnTime` | OperatorProofs | `BackupSpec => []BackupIsOneMoment` |
| `CycleTypeCorrect` | RepairCycleProofs | `Spec => []CycleTypeOK` |
| `OnlyApprovedInstalled` | RepairCycleProofs | `Spec => []InstalledPassedGates` |
| `FailureLeavesNothing` | RepairCycleProofs | `Spec => []CleanUnlessMisstep` |
| `ReportsAreRuns` | RepairCycleProofs | `Spec => []ReportsMatchRuns` |
| `SessionInvariant` | IncidentSessionProofs | `Spec => []IInv`, types and an honest channel |
| `StateEarned` | IncidentSessionProofs | `Spec => []StateIsEarned` |
| `MovesForward` | IncidentSessionProofs | `Spec => OnlyForward` |
| `OnlyApprovedRuns` | ApiServerProofs | `Spec => []RunsApproved` |
| `SlotsAccountedFor` | ApiServerProofs | `Spec => []NoSlotLost` |
| `OverrunsBounded` | ApiServerProofs | `Spec => []StuckBounded` |
| `WritersChange` | ApiServerProofs | `Spec => OnlyWritersChange` |
| `BudgetIsHonoured` | CommandLineProofs | `ProviderSpec => []BudgetHonoured` |
| `CommandsHonourBudget` | CommandLineProofs | `LineSpec => []BudgetHonoured` |
| `SaidKeptIsKept` | CommandLineProofs | `LineSpec => []KeptMeansKept` |
| `StartsAsAllowed` | CommandLineProofs | `LineSpec => []StartedAsAllowed` |
| `ExitTruth` | CommandLineProofs | `LineSpec => []ExitTellsTheRun` |
| `PlansSuffice` | CommandLineProofs | `LineSpec => []PlanMakesReady` |
| `PublishedIsUpstream` | CommandLineProofs | `LineSpec => []ReferenceIsPublished` |
| `PlacedOnce` | CommandLineProofs | `LineSpec => []EachInItsPlace` |

These are all the safety properties of the passing runs, as invariants or as action properties. Type
correctness is proved and not repeated in the runs.

Assumptions. The ASSUMEs of the modules (`QueueAssumption`, `WorkerAssumption`, `GateAssumption`,
`VerifierAssumption`, `ChannelAssumption`, `StoresAssumption`, `CycleAssumption`,
`SessionAssumption`, `HostAssumption`, `ApiAssumption`, `BackupAssumption`, `ProviderAssumption`,
`IngestAssumption`, `TaskAssumption`, `MigrationAssumption`) are about types only: tasks are numbers
in the order `lease` breaks ties by; `None`, `Null`, `Broken` and `Leftover` are no task, id,
process, node, document, content or key; windows, limits and budgets are positive; bounds are
naturals; processes, threads, commands and the files of a backup are finitely many; a destination is
a sequence of names. TLC evaluates them on the instances. `DistinctIds` is a real condition on the
deployment, a hypothesis of the three theorems that need it. `DistinctFiles` (no two message ids
become one file name) is the hypothesis of `AcknowledgedOnFile`; ids that restart with a process
break it.

Arguments.

* Every action of the queue has a lemma (`EnqueueEffect`, `LeaseEffect`, ...) that says what it does
  to types, entries, grants and the clock; the invariants are then argued from these lemmas and not
  from the actions.
* `LeaseHonoured` is not inductive: it says nothing of a grant whose time is over, and nothing of
  the expiry in the table, which is what `reconcile` reads. `GrantInv` does: while the entry is held
  under the caller's id, entry and grant agree on attempt and expiry, and until that expiry the
  entry is so held or cancelled. `LateResultRejected` follows from the same invariant, as a step
  property.
* The refinement needs `AttemptInv`: a queued entry has an attempt left (`lease` never looks), and a
  leased one has used at least one. Steps that touch only leases, journal or clock are stutters of
  the ledger; `reconcile` is a `GiveUp` of the set it parks.
* The journal is argued one task at a time. Whatever an operation does to a task is one of four
  things (`Told`): nothing, a refused result, a turn (one row and one new entry that fit), or a
  pruning. `Story` is what each of them keeps: the rows that are left are one history, and the last
  transition among them explains the entry. That a pruning keeps it is a fact about suffixes.
* The worker runs on the queue, so its invariant `WorkInv` is argued from the same effect lemmas.
  Each worker in the middle of a pass relies on `Passing`: from mkdir to retention the directory of
  its task is its own, a run it calls good was seen to exit 0 in the attempt of its grant, and if
  the queue still has it as the holder, that attempt is the one that runs. `MovesBy(c)` is what a
  step of `c` may do to the others (take directories nobody has, never undo a success, never make
  another one the holder), and is enough for them to keep `Passing`. `OneRunPerTask` follows from
  the owner of the directory alone: two commands of a task would both own it, and that of a dead
  worker is in a directory that is a leftover. It therefore holds with shared worker ids too, which
  `NoFalseSuccess` does not.
* `NoLeakedLock` is inductive only with `Owned`: a lock's owner is the process whose lock name it
  is, at or past its `Create`; an unlink by somebody else only removes locks.
* The limit rests on the scan of the one process in the entry (`Orderly`): whoever holds a slot has
  its pid in its own lock file, and that file is still to be read or already counted. When the scan
  ends, the files counted are at least as many as the holders (an injection, counted by pigeonhole).
* `NonceKept` speaks of the date of a message; a purge compares the time in the row. `RowKept` joins
  them: until a message is accepted with a reading more than a window later, the row of an
  acceptance is on file *with its time*. A verifier that finds the message fresh and was overtaken
  by nobody is within that window, because the message was not dated ahead.
* `StoredOnce` needs `OneWriter`: the file a thread writes is empty and no other thread writes it,
  which is what `O_EXCL` gives. `AckedIsOnFile` needs in addition that each file is absent, empty
  with a writer or a torn write, or whole with a message of that name, and that what was
  acknowledged is not absent (`AckInv`).
* `RateHonoured` counts acceptances, the code counts rows. `RateInv` has the row of every acceptance
  of the last window on file; `NoncesDiffer` and `AcceptedPosted` make the rows of two acceptances
  different, so that the rows counted are no fewer than the acceptances, whatever time the thread
  counts at.
* The stores: as long as no two commands overlapped, `Alone` says that at most one command is at
  work, that it holds the settled document with one entry changed, and that `<file>.tmp` is not the
  file and, once opened, is this command's. A killed command leaves only a `<file>.tmp` that the
  next one truncates. `Follows` and `KeysMade` (keys are made in order) give the two halves of
  `RevocationSticks`.
* `CycleInv` joins to each state of the repair cycle what has to be true when it is reached: the
  candidate fits, the runs are green, the approval fits, nothing is in place before the install. The
  last part also speaks of the *blocked* states, where the state no longer says what happened
  before. `ReportsInv` adds the two states before a candidate is held.
* `StateIsEarned` depends on messages still under way: `ChannelHonest` says that whatever is on the
  channel in the peer's name about this incident is true of the peer, and stays so, because the peer
  neither forgets an incident nor changes its verdict. A restart keeps it, since the new session has
  earned nothing yet, and so does a repeated submit, which gives up what was earned. `OnlyForward`
  is then a property of the one action `pump`: the steps that set `sent`, `extra` or `restarts` are
  submits and restarts.
* A restore is argued with `SignatureHonest` (what the signature file vouches for was signed,
  although the manifest beside it may not be) and `RestoreHonest` (a restore at work copies a signed
  backup, has written every file not in `job.left`, and is about to rename the next one). That there
  is a next file rests on the least element of a finite set of numbers.
* A backup is argued with `BackupOnTime`: while nobody wrote, every file not in `job.left` is the
  one of the moment it began.
* The plugin host: every place that keeps code (the record, a call, what an orphaned call kept) is
  typed by `Allowed`, the code somebody approved, so that `HostTypeOK` is the argument for
  `RunsApproved` and has to follow the source through every handover. Slots and overruns are
  counted: each step moves one thread (`Moves`), whose contribution before and after is 0 or 1, and
  a sum over finitely many threads changes by that. `OnlyWritersChange` needs `WritersAdmitted`
  (whoever is past authorization to a changing route was a writer) and `UnderLock` (nobody replaces
  the record while `register` runs).
* The commands share no variable, so each machine has its own invariant (`BudgetInv`, `ReportInv`,
  `TaskInv`, `StationInv`, `AnswersStand` with `ScanStands`) that the steps of the others leave
  alone. `OnTheWay` says of a plan under way that a step no longer to do has been done.
  `AnswersStand` says what each answer of git still means later: commits and pushes move files
  towards upstream only, so that an answer given before them stays true of the files it called
  clean.
* For the budget, `usage` itself is no bound: it may pass the budget by the answer that is thrown
  away. `BudgetInv` says that what was used is part of `usage` and separately within the budget, and
  `RemainingBound` that an answer which fits what is left keeps it so.

Only model-checked: the liveness properties (`EventuallyClosed`, `TakeOver`, `Answered`,
`EventuallyAcknowledged`), because fairness and ENABLED are outside the prover. What a recursive
definition computes for every input is outside the prover too; the modules with theorems have none.
The three properties that TLC refutes have no theorem, of course.

## 5. Not modelled

* The arithmetic of Ed25519 and HMAC (`signing.py`): a signature is the key that made it; the
  numbers are out of TLC's reach.
* `bench.py` starts and measures services of other repositories; `delivery.py` and `inventory.py`
  read files and print; `check_operational_health` compares numbers with limits. None keeps state
  between two calls.
* The argument parser, the wording of errors and reports, `identifiers.py`, and the text of the
  systemd unit and of the sandbox option lists: formatting of documents, of which the models keep
  the decisions.
* The tail reader of the runner, the resolution of a path (an input is inside its workspace or not),
  and HTTP parsing.
* The reuse of a pid by the operating system (`taskflow.py:125`), and `task run` beside a worker
  (each is modelled alone).
* The tolerance of 1e-12 in the cost comparison of the provider: costs are integers here.
* `tools/` of the repository: checks and generators of its own documents, no part of the running
  system.

`PROJECT.json` has a line for each part.

## 6. Plan

Done: queue and ledger, gate, worker, verifier and node channel, operator stores, repair cycle,
incident session, plugin host and API, backup and restore, and the commands. Left, in this order:

1. `task run` beside a worker, as a composition of gate, worker and TaskCommand.
2. Proofs: more of the abstract behaviour of the worker and the host as refinements.
3. The scoring of `bench.py` and the limits of `check_operational_health` as operators checked over
   all inputs.
