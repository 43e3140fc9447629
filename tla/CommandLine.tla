---------------------------- MODULE CommandLine ----------------------------
(***************************************************************************)
(* The command line (cli.py): one invocation runs one command, and the     *)
(* commands below share no state, so the system of them is the sum of      *)
(* their machines and not the product: main() picks a handler and only     *)
(* that machine moves.  Every handler first loads its documents; one that  *)
(* cannot be loaded ends the command.                                      *)
(***************************************************************************)
EXTENDS Migration, Station, ProviderStep, ScenarioIngest, TaskCommand

VARIABLES
    command,    \* the command that runs, "none" before
    loaded      \* what load_json_document made of its first document

commandVars == <<command, loaded>>

lineVars == <<commandVars, migrationVars, stationVars, providerVars, ingestVars, taskVars>>

LineInit ==
    /\ command = "none" /\ loaded = "none"
    /\ MigrationInit /\ StationInit /\ ProviderInit /\ IngestInit /\ TaskInit

Others(name) ==
    /\ name # "migrate" => UNCHANGED migrationVars
    /\ name # "station" => UNCHANGED stationVars
    /\ name # "provider" => UNCHANGED providerVars
    /\ name # "report" => UNCHANGED ingestVars
    /\ name # "task" => UNCHANGED taskVars

(* load_json_document: a file that cannot be read, is no JSON or holds no  *)
(* object is reported; bytes that are no UTF-8 raise through the handler.  *)
load_json_document(bytes) ==
    CASE bytes = "object" -> "ok"
      [] bytes \in {"unreadable", "no-json", "no-object"} -> "invalid"
      [] bytes = "no-utf-8" -> "traceback"

Commands == {"migrate", "station", "provider", "report", "task"}

(* main() *)
Main ==
    /\ command = "none"
    /\ command' \in Commands
    /\ \E bytes \in {"object", "unreadable", "no-json", "no-object", "no-utf-8"} :
         loaded' = load_json_document(bytes)
    /\ Others("none")

Runs(name) == command = name /\ loaded = "ok" /\ UNCHANGED commandVars /\ Others(name)

(* _cmd_migrate_plan *)
Migrate == Runs("migrate") /\ (StartMigrate \/ MigrationStep)

(* _cmd_station_plan, and the operator who carries its plan out *)
StationCommand == Runs("station") /\ (StationPlan \/ StationStep)

(* _cmd_provider_suggest runs one step with no usage so far; a caller that  *)
(* takes several hands the usage of each to the next.                      *)
Provider == Runs("provider") /\ ProviderNext

(* _cmd_repair_report_outcome *)
ReportOutcome == Runs("report") /\ IngestStep

(* _cmd_task_run *)
TaskRun == Runs("task") /\ (StartTask \/ TaskStep)

LineNext == Main \/ Migrate \/ StationCommand \/ Provider \/ ReportOutcome \/ TaskRun

LineSpec == LineInit /\ [][LineNext]_lineVars
=============================================================================
