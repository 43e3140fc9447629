----------------------------- MODULE TaskCommand -----------------------------
(***************************************************************************)
(* `task run` (cli.py) with what it goes through: the recipe and the       *)
(* policy (recipe.py, config.py), the sandbox that is found on the host    *)
(* (sandbox.py), the workspace and the runner.                             *)
(*                                                                         *)
(* A script has two spellings, "build.sh" and "./build.sh".  An argument   *)
(* is one of a few kinds: "plain"; a path out of the workspace (absolute,  *)
(* home or '..') as a word of its own, "path-out", after the '=' of an     *)
(* option, "value-out", or attached to a short option, "attached-out"; an  *)
(* option of _DENIED_OPTIONS in a word that begins with it, "loads-code",  *)
(* or behind another letter of its word, "clustered"; and "nul".  The      *)
(* policy's allowed_arguments maps a spelling to the kinds its patterns    *)
(* match.                                                                  *)
(***************************************************************************)
EXTENDS Naturals, FiniteSets

CONSTANTS Recipes, TaskPolicies, Machines    \* the documents and hosts in use

Spellings == {"build.sh", "./build.sh", "pytest"}
ArgumentKinds ==
    {"plain", "path-out", "value-out", "attached-out", "loads-code", "clustered", "nul"}

ASSUME TaskAssumption ==
    /\ Recipes \subseteq [command : Spellings, arguments : SUBSET ArgumentKinds, loads : BOOLEAN,
                          inputs : {"inside", "outside"}]
    /\ \A m \in Machines : m.bwrap \in BOOLEAN /\ m.systemd_run \in BOOLEAN /\ m.base \in {"/srv", "/home"}
    /\ \A p \in TaskPolicies :
         /\ p.allowed_commands \subseteq Spellings
         /\ DOMAIN p.allowed_arguments \subseteq Spellings
         /\ \A s \in DOMAIN p.allowed_arguments : p.allowed_arguments[s] \subseteq ArgumentKinds
         /\ p.sandbox \in {"auto", "bubblewrap", "systemd-run", "none"}

VARIABLES
    order,        \* what the command was given, or NoOrder
    step,         \* where it is
    directory,    \* the workspace: "none", "old" (of an earlier run) or "new"
    sandbox,      \* SandboxedLauncher.used
    child,        \* the command: "none", "running", or how it ended
    exit          \* "success" (0) or "failure" (1), "none" before

taskVars == <<order, step, directory, sandbox, child, exit>>

NoOrder == [replace |-> FALSE]

TaskInit ==
    /\ order = NoOrder /\ step = "idle" /\ directory = "none"
    /\ sandbox = "none" /\ child = "none" /\ exit = "none"

-----------------------------------------------------------------------------
(* recipe.py *)

command_key(spelling) == IF spelling = "./build.sh" THEN "build.sh" ELSE spelling

(* The patterns in force: those of the key, and when there are none those  *)
(* of the spelling.  "None" is a command without an entry.                 *)
PatternsOf(recipe, policy) ==
    LET entry(name) == IF name \in DOMAIN policy.allowed_arguments
                       THEN policy.allowed_arguments[name] ELSE {"None"}
        key == command_key(recipe.command)
    IN  IF entry(key) \notin {{}, {"None"}} THEN entry(key) ELSE entry(recipe.command)

(* Mutant: a pattern of the policy lifts every other rule. *)
ArgumentOkIfListed(argument, patterns) ==
    argument \in patterns \/ (patterns = {"None"} /\ argument = "plain")

(* argument_problems, for one argument.  Of a word that begins with '-'    *)
(* only what follows a '=' is looked at as a path, and a denied option is  *)
(* found at its beginning only.                                            *)
ArgumentOk(argument, patterns) ==
    /\ argument \notin {"nul", "path-out", "value-out"}
    /\ patterns # {"None"} => argument \in patterns
    /\ argument = "loads-code" => argument \in patterns

validate_against(recipe, policy) ==
    /\ command_key(recipe.command) \in {command_key(c) : c \in policy.allowed_commands}
    /\ \A a \in recipe.arguments : ArgumentOk(a, PatternsOf(recipe, policy))

-----------------------------------------------------------------------------
(* sandbox.py *)

(* detect_sandbox; "missing" when a named sandbox is not installed. *)
detect_sandbox(mode, machine) ==
    CASE mode = "none" -> "none"
      [] mode \in {"auto", "bubblewrap"} /\ machine.bwrap -> "bubblewrap"
      [] mode \in {"auto", "systemd-run"} /\ machine.systemd_run -> "systemd-run"
      [] mode = "auto" -> "none"
      [] OTHER -> "missing"

(* SandboxedLauncher.__init__ *)
LauncherOk(policy, used) == used # "missing" /\ ~(policy.sandbox_required /\ used = "none")

(* systemd_run_argv: ProtectHome hides a workspace under /home. *)
Reachable(used, machine) == used = "systemd-run" => machine.base # "/home"

-----------------------------------------------------------------------------
(* _cmd_task_run *)

Exits(code) == exit' = code /\ step' = "done"

Goes(next) == step' = next /\ UNCHANGED exit

StartTask ==
    /\ step = "idle"
    /\ \E recipe \in Recipes, policy \in TaskPolicies, machine \in Machines, replace \in BOOLEAN :
         \E found \in {"none", "old"} :
           /\ order' = [recipe |-> recipe, policy |-> policy, machine |-> machine, replace |-> replace,
                        found |-> found]
           /\ directory' = found
    /\ IF order'.recipe.loads THEN Goes("sandbox") ELSE Exits("failure")
    /\ UNCHANGED <<sandbox, child>>

FindSandbox ==
    /\ step = "sandbox"
    /\ LET used == detect_sandbox(order.policy.sandbox, order.machine)
       IN  IF LauncherOk(order.policy, used)
           THEN sandbox' = used /\ Goes("gate")
           ELSE Exits("failure") /\ UNCHANGED sandbox
    /\ UNCHANGED <<order, directory, child>>

(* The gate is full or the task runs already, or the slot is taken. *)
TakeSlot ==
    /\ step = "gate"
    /\ Exits("failure") \/ Goes("workspace")
    /\ UNCHANGED <<order, directory, sandbox, child>>

(* Mutant: a leftover directory always gives way. *)
GivesWayAlways == TRUE

GivesWay == order.replace

(* --replace-workspace removes what is there; allocate_workspace refuses a *)
(* directory that is still there.  The recipe is not yet held against the  *)
(* policy.                                                                 *)
MakeWorkspace ==
    /\ step = "workspace"
    /\ IF directory = "none" \/ GivesWay
       THEN directory' = "new" /\ Goes("stage")
       ELSE Exits("failure") /\ UNCHANGED directory
    /\ UNCHANGED <<order, sandbox, child>>

(* stage_repo: the source may be missing, or git may fail. *)
StageRepo ==
    /\ step = "stage"
    /\ Exits("failure") \/ Goes("run")
    /\ UNCHANGED <<order, directory, sandbox, child>>

(* resolved_input_paths: every input resolves inside the workspace, links  *)
(* followed.                                                               *)
InputsInside(recipe) == recipe.inputs = "inside"

MayRun == validate_against(order.recipe, order.policy) /\ InputsInside(order.recipe)

(* run_task up to the spawn.  It is rejected if the recipe does not fit    *)
(* the policy or an input leaves the workspace, if the script is not found *)
(* in the workspace, or if the command cannot be started (OSError).  A     *)
(* workspace the sandbox hides raises through it: the command ends with    *)
(* the workspace in place.                                                 *)
RunTask ==
    /\ step = "run"
    /\ \/ child' = "rejected" /\ Goes("retain")
       \/ MayRun /\ Reachable(sandbox, order.machine) /\ child' = "running" /\ Goes("poll")
       \/ MayRun /\ ~Reachable(sandbox, order.machine) /\ Exits("failure") /\ UNCHANGED child
    /\ UNCHANGED <<order, directory, sandbox>>

(* The poll loop ends with an exit code or with the timeout. *)
PollTask ==
    /\ step = "poll"
    /\ child' \in {"exit-0", "exit-1", "timed-out"}
    /\ Goes("retain")
    /\ UNCHANGED <<order, directory, sandbox>>

TaskOk == child = "exit-0"

(* should_remove, and the exit code. *)
Retain ==
    /\ step = "retain"
    /\ directory' = IF \/ order.policy.retention = "delete"
                       \/ (order.policy.retention = "delete-on-success" /\ TaskOk)
                    THEN "none" ELSE directory
    /\ Exits(IF TaskOk THEN "success" ELSE "failure")
    /\ UNCHANGED <<order, sandbox, child>>

TaskStep ==
    FindSandbox \/ TakeSlot \/ MakeWorkspace \/ StageRepo \/ RunTask \/ PollTask \/ Retain

-----------------------------------------------------------------------------
(* Properties *)

(* Patterns an operator wrote for this script, under either spelling. *)
EntriesFor(recipe, policy) ==
    {policy.allowed_arguments[name] :
        name \in {n \in DOMAIN policy.allowed_arguments : command_key(n) = command_key(recipe.command)}}

(* The look-up of argument_problems finds an entry: one that is not empty  *)
(* under the key, or any under the spelling of the recipe.                 *)
Ruled(recipe, policy) ==
    LET entries == policy.allowed_arguments
        key == command_key(recipe.command)
    IN  (key \in DOMAIN entries /\ entries[key] # {}) \/ recipe.command \in DOMAIN entries

(* A command that was started runs in the sandbox the policy asks for, and *)
(* the sandbox does not hide its workspace.  Every argument matches what   *)
(* the operator wrote for this script, under either spelling, if he wrote  *)
(* something that is found; in any case no word is, or has after its '=',  *)
(* a path out of the workspace, and a denied option that begins a word is  *)
(* one he listed.  docs/WORKSPACE_AND_RUNNER.md:115-119 says more: it      *)
(* knows no exception for a path attached to a short option, nor for a     *)
(* denied letter behind another one.                                       *)
StartedAsAllowed ==
    child \in {"running", "exit-0", "exit-1", "timed-out"} =>
        /\ order.policy.sandbox_required => sandbox # "none"
        /\ order.policy.sandbox \in {"auto", sandbox}
        /\ Reachable(sandbox, order.machine)
        /\ Ruled(order.recipe, order.policy) =>
             order.recipe.arguments \subseteq UNION EntriesFor(order.recipe, order.policy)
        /\ order.recipe.arguments \cap {"path-out", "value-out"} = {}
        /\ "loads-code" \in order.recipe.arguments =>
             \E e \in EntriesFor(order.recipe, order.policy) : "loads-code" \in e

(* `task run` exits 0 only after the command itself did, and without       *)
(* --replace-workspace the directory of an earlier run is still there and  *)
(* unused at the end, however late the command was refused.                *)
ExitTellsTheRun ==
    /\ exit = "success" => child = "exit-0"
    /\ step = "done" /\ order.found = "old" /\ ~order.replace
         => directory = "old" /\ child = "none"

(* A script has one rule under both its spellings: it is passed no         *)
(* argument but those that every entry of the operator for that script,    *)
(* under either spelling, matches.                                         *)
SameScriptSameRule ==
    child = "running" =>
        \A e \in EntriesFor(order.recipe, order.policy) : order.recipe.arguments \subseteq e
=============================================================================
