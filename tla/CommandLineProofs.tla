------------------------- MODULE CommandLineProofs -------------------------
(***************************************************************************)
(* The machines behind the command line, for any documents, hosts,         *)
(* checkouts and budgets.  One invocation moves one machine (OneMoves), so *)
(* each has an invariant of its own.                                       *)
(***************************************************************************)
EXTENDS CommandLine, SequenceTheorems, FiniteSetTheorems, TLAPS

(* main() picks one command: a machine takes a step of its own or none.    *)
LEMMA OneMoves ==
    ASSUME [LineNext]_lineVars
    PROVE  /\ StartMigrate \/ MigrationStep \/ UNCHANGED migrationVars
           /\ StationPlan \/ StationStep \/ UNCHANGED stationVars
           /\ ProviderNext \/ UNCHANGED providerVars
           /\ IngestStep \/ UNCHANGED ingestVars
           /\ StartTask \/ TaskStep \/ UNCHANGED taskVars
  <1>1. CASE Main
    BY <1>1 DEF Main, Others
  <1>2. CASE Migrate
    BY <1>2 DEF Migrate, Runs, Others
  <1>3. CASE StationCommand
    BY <1>3 DEF StationCommand, Runs, Others
  <1>4. CASE Provider
    BY <1>4 DEF Provider, Runs, Others
  <1>5. CASE ReportOutcome
    BY <1>5 DEF ReportOutcome, Runs, Others
  <1>6. CASE TaskRun
    BY <1>6 DEF TaskRun, Runs, Others
  <1>7. CASE UNCHANGED lineVars
    BY <1>7 DEF lineVars
  <1> QED
    BY <1>1, <1>2, <1>3, <1>4, <1>5, <1>6, <1>7 DEF LineNext

-----------------------------------------------------------------------------
(* AI provider *)

Totals == [calls : Nat, tokens : Nat, cost : Nat]

(* The answers used are some of the answers paid for; they fit what was    *)
(* left when they came, and a call is only made while there was something  *)
(* left.  usage itself may pass the budget, by the answer thrown away.     *)
BudgetInv ==
    /\ usage \in Totals /\ used \in Totals
    /\ used.calls <= usage.calls /\ used.tokens <= usage.tokens /\ used.cost <= usage.cost
    /\ usage.calls <= MaxCalls
    /\ used.tokens <= MaxTokens /\ used.cost <= MaxCost
    /\ waiting => usage.calls < MaxCalls

LEMMA InitBudget == ProviderInit => BudgetInv
  <1> SUFFICES ASSUME ProviderInit PROVE BudgetInv
    OBVIOUS
  <1>1. ~waiting
    BY Zenon DEF ProviderInit
  <1>2. usage = NoUsage /\ used = NoUsage /\ NoUsage \in Totals
    BY DEF ProviderInit, NoUsage, Totals
  <1> QED
    BY <1>1, <1>2, ProviderAssumption DEF BudgetInv, NoUsage

(* An answer that fits what is left of max after spent keeps the answers   *)
(* used before it, which are some of spent, within max.                    *)
LEMMA RemainingBound ==
    ASSUME NEW max \in Nat, NEW spent \in Nat, NEW before \in Nat, NEW more \in Nat,
           before <= spent, before <= max, more <= _remaining(max, spent)
    PROVE  before + more <= max
  BY DEF _remaining

LEMMA AskKeeps == ASSUME BudgetInv, Ask PROVE BudgetInv'
  <1>1. CASE _budget_headroom
    BY <1>1, ProviderAssumption DEF Ask, BudgetInv, _budget_headroom, Totals
  <1>2. CASE ~_budget_headroom
    BY <1>2 DEF Ask, BudgetInv
  <1> QED
    BY <1>1, <1>2

LEMMA FailsKeeps == ASSUME BudgetInv, Fails PROVE BudgetInv'
  BY DEF Fails, BudgetInv

(* plus adds one call and what the answer cost. *)
LEMMA PlusType ==
    ASSUME NEW u \in Totals, NEW t \in Nat, NEW c \in Nat
    PROVE  /\ plus(u, t, c) \in Totals
           /\ plus(u, t, c).calls = u.calls + 1
           /\ plus(u, t, c).tokens = u.tokens + t
           /\ plus(u, t, c).cost = u.cost + c
  BY DEF Totals, plus

LEMMA AnswersKeeps ==
    ASSUME BudgetInv, NEW tokens \in Costs, NEW cost \in Costs, Answers(tokens, cost)
    PROVE  BudgetInv'
  <1>1. tokens \in Int /\ cost \in Int
    BY ProviderAssumption
  <1>2. CASE _usage_problem(tokens, cost)
    BY <1>2 DEF Answers, BudgetInv
  <1>3. CASE ~_usage_problem(tokens, cost)
    <2>1. tokens \in Nat /\ cost \in Nat
      BY <1>1, <1>3 DEF _usage_problem
    <2>2. usage' = plus(usage, tokens, cost) /\ usage.calls < MaxCalls
      BY <1>3 DEF Answers, BudgetInv
    <2>6. ~waiting'
      BY Zenon DEF Answers
    <2>3. /\ usage' \in Totals /\ usage'.calls = usage.calls + 1
          /\ usage'.tokens = usage.tokens + tokens /\ usage'.cost = usage.cost + cost
      <3>1. usage \in Totals
        BY DEF BudgetInv
      <3> DEFINE sum == plus(usage, tokens, cost)
      <3>2. /\ sum \in Totals /\ sum.calls = usage.calls + 1
            /\ sum.tokens = usage.tokens + tokens /\ sum.cost = usage.cost + cost
        BY <2>1, <3>1, PlusType
      <3> HIDE DEF sum
      <3> QED
        BY <2>2, <3>2 DEF sum
    <2>4. CASE Fits(tokens, cost)
      <3>1. used' = plus(used, tokens, cost)
        BY <1>3, <2>4 DEF Answers
      <3>2. /\ used' \in Totals /\ used'.calls = used.calls + 1
            /\ used'.tokens = used.tokens + tokens /\ used'.cost = used.cost + cost
        <4>1. used \in Totals
          BY DEF BudgetInv
        <4> DEFINE sum == plus(used, tokens, cost)
        <4>2. /\ sum \in Totals /\ sum.calls = used.calls + 1
              /\ sum.tokens = used.tokens + tokens /\ sum.cost = used.cost + cost
          BY <2>1, <4>1, PlusType
        <4> HIDE DEF sum
        <4> QED
          BY <3>1, <4>2 DEF sum
      <3>3. used.tokens + tokens <= MaxTokens
        <4>1. tokens <= _remaining(MaxTokens, usage.tokens)
          BY <2>4 DEF Fits
        <4>2. usage.tokens \in Nat /\ used.tokens \in Nat /\ used.tokens <= usage.tokens
              /\ used.tokens <= MaxTokens /\ MaxTokens \in Nat
          BY ProviderAssumption DEF BudgetInv, Totals
        <4> QED
          BY <2>1, <4>1, <4>2, RemainingBound
      <3>4. used.cost + cost <= MaxCost
        <4>1. cost <= _remaining(MaxCost, usage.cost)
          BY <2>4 DEF Fits
        <4>2. usage.cost \in Nat /\ used.cost \in Nat /\ used.cost <= usage.cost
              /\ used.cost <= MaxCost /\ MaxCost \in Nat
          BY ProviderAssumption DEF BudgetInv, Totals
        <4> QED
          BY <2>1, <4>1, <4>2, RemainingBound
      <3> QED
        BY <2>1, <2>2, <2>3, <2>6, <3>2, <3>3, <3>4, ProviderAssumption DEF BudgetInv, Totals
    <2>5. CASE ~Fits(tokens, cost)
      <3>1. used' = used
        BY <1>3, <2>5 DEF Answers
      <3> QED
        BY <2>1, <2>2, <2>3, <2>6, <3>1, ProviderAssumption DEF BudgetInv, Totals
    <2> QED
      BY <2>4, <2>5
  <1> QED
    BY <1>2, <1>3

LEMMA BudgetStep ==
    ASSUME BudgetInv, ProviderNext \/ UNCHANGED providerVars
    PROVE  BudgetInv'
  <1>1. CASE Ask
    BY <1>1, AskKeeps
  <1>2. CASE Fails
    BY <1>2, FailsKeeps
  <1>3. ASSUME NEW tokens \in Costs, NEW cost \in Costs, Answers(tokens, cost)
        PROVE  BudgetInv'
    BY <1>3, AnswersKeeps
  <1>4. CASE UNCHANGED providerVars
    BY <1>4 DEF BudgetInv, providerVars
  <1> QED
    BY <1>1, <1>2, <1>3, <1>4 DEF ProviderNext

(* The answers used stay within the budget, whatever they report and       *)
(* however often the provider fails or does not answer (ai_provider.py,    *)
(* run_provider_step).                                                     *)
THEOREM BudgetIsHonoured == ProviderSpec => []BudgetHonoured
  <1>1. BudgetInv /\ [ProviderNext]_providerVars => BudgetInv'
    BY BudgetStep
  <1>2. BudgetInv => BudgetHonoured
    BY ProviderAssumption DEF BudgetInv, BudgetHonoured, Totals
  <1> QED
    BY <1>1, <1>2, InitBudget, PTL DEF ProviderSpec

(* The same of the provider command among the others.                      *)
THEOREM CommandsHonourBudget == LineSpec => []BudgetHonoured
  <1>1. LineInit => BudgetInv
    BY InitBudget DEF LineInit
  <1>2. BudgetInv /\ [LineNext]_lineVars => BudgetInv'
    BY OneMoves, BudgetStep
  <1>3. BudgetInv => BudgetHonoured
    BY ProviderAssumption DEF BudgetInv, BudgetHonoured, Totals
  <1> QED
    BY <1>1, <1>2, <1>3, PTL DEF LineSpec

-----------------------------------------------------------------------------
(* `repair report-outcome` *)

Reports ==
    [pc : {"idle", "login", "post", "201", "another-answer", "no-answer", "done"},
     result : {"none", "refused", "kept", "failed", "raised"}]

(* A 201 is of the run that is under way; a request is only prepared for a *)
(* line the document allows, and the document does not change after.       *)
ReportInv ==
    /\ report \in Reports /\ reports \in Nat
    /\ settings = NoSettings => sent = {} /\ report.pc = "idle"
    /\ settings # NoSettings => settings \in IngestDocuments
    /\ report.pc = "201" => reports \in kept
    /\ report.pc \in {"login", "post"} => settings # NoSettings /\ MayCarry(settings)
    /\ KeptMeansKept

LEMMA ReportStep ==
    ASSUME ReportInv, IngestStep \/ UNCHANGED ingestVars
    PROVE  ReportInv'
  <1>1. CASE Report
    <2>1. settings' \in IngestDocuments /\ reports' \in Nat /\ UNCHANGED <<kept, sent>>
      BY <1>1 DEF Report, ReportInv
    <2>2. settings' # NoSettings
      <3>1. DOMAIN settings' = {"enabled", "line", "allow_plain_http", "token", "login"}
        BY <2>1 DEF IngestDocuments
      <3>2. DOMAIN NoSettings = {"enabled"}
        BY DEF NoSettings
      <3> QED
        BY <3>1, <3>2
    <2>3. sent = {} \/ settings' = settings
      BY <1>1 DEF Report, ReportInv
    <2>4. \/ report' = [pc |-> "done", result |-> "refused"]
          \/ /\ MayCarry(settings')
             /\ report' = [pc |-> "post", result |-> "none"] \/ report' = [pc |-> "login", result |-> "none"]
      BY <1>1 DEF Report, Ends
    <2>5. /\ report' \in Reports /\ report'.pc \in {"done", "post", "login"}
          /\ report'.result # "kept" /\ (report'.pc # "done" => MayCarry(settings'))
      BY <2>4 DEF Reports
    <2>6. KeptMeansKept'
      <3>1. \A line \in sent' : line = "plain-http" => settings'.allow_plain_http
        BY <2>1, <2>3 DEF ReportInv, KeptMeansKept
      <3> QED
        BY <2>5, <3>1 DEF KeptMeansKept
    <2> QED
      BY <2>1, <2>2, <2>5, <2>6 DEF ReportInv, MayCarry
  <1>2. CASE Login
    <2>1. /\ UNCHANGED <<settings, reports, kept>> /\ report.pc = "login"
          /\ sent' \in {sent, sent \cup {settings.line}}
          /\ \/ report' = [pc |-> "done", result |-> "refused"]
             \/ report' = [pc |-> "done", result |-> "raised"]
             \/ report' = [report EXCEPT !.pc = "post"]
      BY <1>2 DEF Login, Ends
    <2>2. /\ report' \in Reports /\ report'.pc \in {"done", "post"}
          /\ report'.result = "kept" => report.result = "kept"
      <3>1. report \in Reports
        BY DEF ReportInv
      <3> QED
        BY <2>1, <3>1 DEF Reports
    <2>3. settings.line = "plain-http" => settings.allow_plain_http
      BY <2>1 DEF ReportInv, MayCarry
    <2> QED
      BY <2>1, <2>2, <2>3 DEF ReportInv, KeptMeansKept, MayCarry
  <1>3. CASE Post
    <2>1. /\ UNCHANGED <<settings, reports>> /\ report.pc = "post"
          /\ sent' = sent \cup {settings.line}
          /\ kept \subseteq kept'
          /\ \/ report' = [report EXCEPT !.pc = "201"] /\ reports \in kept'
             \/ report' = [report EXCEPT !.pc = "another-answer"]
             \/ report' = [report EXCEPT !.pc = "no-answer"]
      BY <1>3 DEF Post
    <2>2. /\ report' \in Reports /\ report'.pc \in {"201", "another-answer", "no-answer"}
          /\ report'.pc = "201" => reports \in kept'
          /\ report'.result = "kept" => report.result = "kept"
      <3>1. report \in Reports
        BY DEF ReportInv
      <3> QED
        BY <2>1, <3>1 DEF Reports
    <2>3. settings.line = "plain-http" => settings.allow_plain_http
      BY <2>1 DEF ReportInv, MayCarry
    <2> QED
      BY <2>1, <2>2, <2>3 DEF ReportInv, KeptMeansKept, MayCarry
  <1>4. CASE Receive
    <2>1. /\ UNCHANGED <<settings, reports, kept, sent>>
          /\ \/ report' = [pc |-> "done", result |-> "kept"] /\ report.pc = "201"
             \/ report' = [pc |-> "done", result |-> "failed"]
             \/ report' = [pc |-> "done", result |-> "raised"]
      BY <1>4 DEF Receive, Ends, KeptBy
    <2>2. report' \in Reports /\ report'.pc = "done" /\ (report'.result = "kept" => report.pc = "201")
      BY <2>1 DEF Reports
    <2>3. report.pc # "idle"
      BY <1>4 DEF Receive
    <2> QED
      BY <2>1, <2>2, <2>3 DEF ReportInv, KeptMeansKept
  <1>5. CASE UNCHANGED ingestVars
    BY <1>5 DEF ingestVars, ReportInv, KeptMeansKept, MayCarry
  <1> QED
    BY <1>1, <1>2, <1>3, <1>4, <1>5 DEF IngestStep

(* scenario_ingest.py, post_scenario_outcome: "kept" is said of the run    *)
(* the server has, and a credential went over allowed lines only, however  *)
(* often the command is run and whatever is lost.                          *)
THEOREM SaidKeptIsKept == LineSpec => []KeptMeansKept
  <1>1. LineInit => ReportInv
    BY DEF LineInit, IngestInit, NoReport, ReportInv, Reports, KeptMeansKept
  <1>2. ReportInv /\ [LineNext]_lineVars => ReportInv'
    BY OneMoves, ReportStep
  <1>3. ReportInv => KeptMeansKept
    BY DEF ReportInv
  <1> QED
    BY <1>1, <1>2, <1>3, PTL DEF LineSpec
-----------------------------------------------------------------------------
(* `task run` *)

Started == {"running", "exit-0", "exit-1", "timed-out"}

(* The sandbox was found for this policy on this machine, and is allowed.  *)
SandboxFound ==
    /\ sandbox = detect_sandbox(order.policy.sandbox, order.machine)
    /\ LauncherOk(order.policy, sandbox)

(* What was checked on the way holds after: nothing changes the order, and *)
(* the directory of an earlier run stops the command before the run.       *)
TaskInv ==
    /\ step = "idle" => child = "none"
    /\ step # "idle" => order.policy \in TaskPolicies
    /\ step \in {"gate", "workspace", "stage", "run", "poll", "retain"} => SandboxFound
    /\ child \in Started =>
         /\ SandboxFound /\ Reachable(sandbox, order.machine)
         /\ validate_against(order.recipe, order.policy)
    /\ step = "poll" => child \in Started
    /\ child # "none" => step \in {"poll", "retain", "done"}
    /\ exit = "success" => child = "exit-0" /\ step = "done"
    /\ step # "idle" /\ order.found = "old" /\ ~order.replace =>
         directory = "old" /\ child = "none" /\ step \in {"sandbox", "gate", "workspace", "done"}

LEMMA TaskStart == ASSUME TaskInv, StartTask PROVE TaskInv'
  <1>1. PICK recipe \in Recipes, policy \in TaskPolicies, machine \in Machines, replace \in BOOLEAN,
             found \in {"none", "old"} :
          /\ order' = [recipe |-> recipe, policy |-> policy, machine |-> machine,
                       replace |-> replace, found |-> found]
          /\ directory' = found
    BY DEF StartTask
  <1>2. order'.policy \in TaskPolicies /\ order'.found = directory'
    BY <1>1
  <1>3. child' = "none" /\ step' \in {"sandbox", "done"} /\ exit' # "success"
    BY DEF StartTask, TaskInv, Goes, Exits
  <1> QED
    BY <1>2, <1>3 DEF TaskInv, Started

(* Nothing but StartTask changes the order. *)
LEMMA TaskGoesOn == ASSUME TaskInv, TaskStep PROVE TaskInv'
  <1>0. order' = order
    BY DEF TaskStep, FindSandbox, TakeSlot, MakeWorkspace, StageRepo, RunTask, PollTask, Retain
  <1>1. CASE FindSandbox
    <2>1. UNCHANGED <<directory, child>> /\ step = "sandbox" /\ exit' # "success"
      BY <1>1 DEF FindSandbox, Goes, Exits, TaskInv
    <2>2. (SandboxFound' /\ step' = "gate") \/ step' = "done"
      BY <1>0, <1>1 DEF FindSandbox, Goes, Exits, SandboxFound
    <2>3. child = "none"
      BY <2>1 DEF TaskInv
    <2> QED
      BY <1>0, <2>1, <2>2, <2>3 DEF TaskInv, Started
  <1>2. CASE TakeSlot \/ StageRepo
    <2>1. /\ UNCHANGED <<directory, sandbox, child>> /\ step \in {"gate", "stage"} /\ exit' # "success"
          /\ step' \in {IF step = "gate" THEN "workspace" ELSE "run", "done"}
      BY <1>2 DEF TakeSlot, StageRepo, Goes, Exits, TaskInv
    <2>2. child = "none" /\ SandboxFound /\ (SandboxFound)'
      BY <1>0, <2>1 DEF TaskInv, SandboxFound
    <2> QED
      BY <1>0, <2>1, <2>2 DEF TaskInv, Started
  <1>3. CASE MakeWorkspace
    <2>1. /\ UNCHANGED <<sandbox, child>> /\ step = "workspace" /\ exit' # "success"
      BY <1>3 DEF MakeWorkspace, Goes, Exits, TaskInv
    <2>2. child = "none" /\ SandboxFound /\ (SandboxFound)'
      BY <1>0, <2>1 DEF TaskInv, SandboxFound
    <2>3. \/ step' = "done" /\ directory' = directory
          \/ step' = "stage" /\ (directory = "none" \/ order.replace)
      BY <1>3 DEF MakeWorkspace, Goes, Exits, GivesWay
    <2> QED
      BY <1>0, <2>1, <2>2, <2>3 DEF TaskInv, Started
  <1>4. CASE RunTask
    <2>1. UNCHANGED <<sandbox, directory>> /\ step = "run" /\ exit' # "success"
      BY <1>4 DEF RunTask, Goes, Exits, TaskInv
    <2>2. child = "none" /\ SandboxFound /\ (SandboxFound)'
      BY <1>0, <2>1 DEF TaskInv, SandboxFound
    <2>3. \/ step' = "done" /\ child' = child
          \/ step' = "retain" /\ child' = "rejected"
          \/ /\ step' = "poll" /\ child' = "running" /\ Reachable(sandbox, order.machine)
             /\ validate_against(order.recipe, order.policy)
      BY <1>4 DEF RunTask, MayRun, Goes, Exits
    <2> QED
      BY <1>0, <2>1, <2>2, <2>3 DEF TaskInv, Started
  <1>5. CASE PollTask
    <2>1. /\ UNCHANGED <<sandbox, directory>> /\ step = "poll" /\ exit' # "success"
          /\ child' \in Started /\ step' = "retain"
      BY <1>5 DEF PollTask, Goes, TaskInv, Started
    <2> QED
      BY <1>0, <2>1 DEF TaskInv, Started, SandboxFound
  <1>6. CASE Retain
    <2>1. /\ UNCHANGED <<sandbox, child>> /\ step = "retain" /\ step' = "done"
          /\ exit' = "success" => child = "exit-0"
      BY <1>6 DEF Retain, Exits, TaskOk
    <2> QED
      BY <1>0, <2>1 DEF TaskInv, Started, SandboxFound
  <1> QED
    BY <1>1, <1>2, <1>3, <1>4, <1>5, <1>6 DEF TaskStep

LEMMA TaskInvariant == LineSpec => []TaskInv
  <1>1. LineInit => TaskInv
    BY DEF LineInit, TaskInit, TaskInv, Started
  <1>2. TaskInv /\ [LineNext]_lineVars => TaskInv'
    <2> SUFFICES ASSUME TaskInv, [LineNext]_lineVars PROVE TaskInv'
      OBVIOUS
    <2>1. CASE UNCHANGED taskVars
      BY <2>1 DEF taskVars, TaskInv, SandboxFound
    <2> QED
      BY <2>1, OneMoves, TaskStart, TaskGoesOn
  <1> QED
    BY <1>1, <1>2, PTL DEF LineSpec

(* A sandbox that was found is the one the policy names, or any for auto.  *)
LEMMA FoundAsAsked ==
    ASSUME SandboxFound, order.policy \in TaskPolicies
    PROVE  order.policy.sandbox \in {"auto", sandbox}
  <1>1. order.policy.sandbox \in {"auto", "bubblewrap", "systemd-run", "none"}
    BY TaskAssumption
  <1> QED
    BY <1>1 DEF SandboxFound, LauncherOk, detect_sandbox

(* Whatever PatternsOf takes is an entry for this script, but for the mark *)
(* of a script without one.                                                *)
LEMMA PatternsAreEntries ==
    ASSUME NEW recipe, NEW policy
    PROVE  PatternsOf(recipe, policy) \in EntriesFor(recipe, policy) \cup {{"None"}}
  <1>1. \A c : command_key(command_key(c)) = command_key(c)
    BY DEF command_key
  <1> QED
    BY <1>1 DEF PatternsOf, EntriesFor

(* Where the look-up finds an entry, PatternsOf is one.                    *)
LEMMA RuledByEntry ==
    ASSUME NEW recipe, NEW policy, Ruled(recipe, policy),
           \A name \in DOMAIN policy.allowed_arguments : "None" \notin policy.allowed_arguments[name]
    PROVE  PatternsOf(recipe, policy) \in EntriesFor(recipe, policy) \ {{"None"}}
  <1>1. \A c : command_key(command_key(c)) = command_key(c)
    BY DEF command_key
  <1> QED
    BY <1>1 DEF PatternsOf, EntriesFor, Ruled

(* `task run` (cli.py, recipe.py, sandbox.py): a command that was started  *)
(* is in the sandbox the policy asks for and can be seen by it, and its    *)
(* arguments are the ones the operator's entries match, if any is found,   *)
(* for any recipes, policies and hosts.                                    *)
THEOREM StartsAsAllowed == LineSpec => []StartedAsAllowed
  <1>1. TaskInv => StartedAsAllowed
    <2> SUFFICES ASSUME TaskInv, child \in Started PROVE StartedAsAllowed
      BY DEF StartedAsAllowed, Started
    <2> DEFINE patterns == PatternsOf(order.recipe, order.policy)
               entries == EntriesFor(order.recipe, order.policy)
    <2>1. /\ SandboxFound /\ Reachable(sandbox, order.machine)
          /\ validate_against(order.recipe, order.policy)
          /\ order.policy \in TaskPolicies
      BY DEF TaskInv, Started
    <2>2. order.policy.sandbox_required => sandbox # "none"
      BY <2>1 DEF SandboxFound, LauncherOk
    <2>3. order.policy.sandbox \in {"auto", sandbox}
      BY <2>1, FoundAsAsked
    <2>4. \A a \in order.recipe.arguments : ArgumentOk(a, patterns)
      BY <2>1 DEF validate_against
    <2>5. patterns \in entries \cup {{"None"}}
      BY PatternsAreEntries
    <2>6. order.recipe.arguments \cap {"path-out", "value-out"} = {}
      BY <2>4 DEF ArgumentOk
    <2>7. ASSUME "loads-code" \in order.recipe.arguments
          PROVE  \E e \in entries : "loads-code" \in e
      <3>1. "loads-code" \in patterns
        BY <2>4, <2>7 DEF ArgumentOk
      <3>2. patterns # {"None"}
        BY <3>1
      <3> QED
        BY <2>5, <3>1, <3>2
    <2>8. ASSUME Ruled(order.recipe, order.policy)
          PROVE  order.recipe.arguments \subseteq UNION entries
      <3>1. \A name \in DOMAIN order.policy.allowed_arguments :
              "None" \notin order.policy.allowed_arguments[name]
        BY <2>1, TaskAssumption DEF ArgumentKinds
      <3>2. patterns \in entries \ {{"None"}}
        BY <2>8, <3>1, RuledByEntry
      <3>3. order.recipe.arguments \subseteq patterns
        BY <2>4, <3>2 DEF ArgumentOk
      <3> QED
        BY <3>2, <3>3
    <2> QED
      BY <2>1, <2>2, <2>3, <2>6, <2>7, <2>8 DEF StartedAsAllowed
  <1> QED
    BY <1>1, TaskInvariant, PTL

(* `task run` exits 0 only after the command did, and without              *)
(* --replace-workspace it leaves the directory of an earlier run alone.    *)
THEOREM ExitTruth == LineSpec => []ExitTellsTheRun
  <1>1. TaskInv => ExitTellsTheRun
    BY DEF TaskInv, ExitTellsTheRun
  <1> QED
    BY <1>1, TaskInvariant, PTL

-----------------------------------------------------------------------------
(* `station plan` *)

StepNames ==
    {"create-system-user", "create-home", "create-workspace", "ensure-tool",
     "install-code-server", "create-editor-state",
     "set-editor-password", "write-systemd-unit", "prepare-ssh-access", "reuse-sshd"}

HostType ==
    [account : {"none", "service", "shell", "login", "root"}, keys : BOOLEAN,
     home : {"none", "own", "other"}, workspace : {"none", "own", "other"},
     tool : BOOLEAN, able : BOOLEAN, port_free : BOOLEAN, password : BOOLEAN, unit : BOOLEAN]

Visits ==
    [pc : {"idle", "refused", "planned"}, checked : BOOLEAN, todo : Seq(StepNames), alien : BOOLEAN]

Todo(name) == \E i \in 1..Len(visit.todo) : visit.todo[i] = name

(* While the plan is carried out: what the preflight asked and no step     *)
(* changes still holds, the account is the plan's or not there yet, and a  *)
(* step that is no longer to do has been done.                             *)
OnTheWay ==
    /\ host.able /\ (profile.tool_required => host.tool) /\ BindOk
    /\ host.account \in {"none", ShellOf(profile)}
    /\ Todo("write-systemd-unit") => profile.kind = "code-server"
    /\ profile.kind = "code-server" \/ host.port_free
    /\ Todo("create-system-user") \/ host.account # "none"
    /\ Todo("create-workspace") \/ host.workspace = "own"

StationInv ==
    /\ visit \in Visits
    /\ visit.pc = "planned" =>
         /\ profile \in Documents /\ host \in HostType
         /\ visit.checked /\ ~visit.alien => OnTheWay

(* The steps of a plan, and what is left of them after the first.          *)
LEMMA PlanSteps ==
    ASSUME NEW p \in Documents
    PROVE  /\ Steps(p) \in Seq(StepNames)
           /\ \E i \in 1..Len(Steps(p)) : Steps(p)[i] = "create-system-user"
           /\ \E i \in 1..Len(Steps(p)) : Steps(p)[i] = "create-workspace"
           /\ (\E i \in 1..Len(Steps(p)) : Steps(p)[i] = "write-systemd-unit")
                => p.kind = "code-server"
  <1> DEFINE base == <<"create-system-user", "create-home", "create-workspace", ToolStep(p)>>
  <1>1. base \in Seq(StepNames) /\ EditorSteps \in Seq(StepNames) /\ SshSteps \in Seq(StepNames)
    BY DEF StepNames, ToolStep, EditorSteps, SshSteps
  <1>2. /\ Len(base) = 4 /\ base[1] = "create-system-user" /\ base[3] = "create-workspace"
        /\ \A i \in 1..4 : base[i] # "write-systemd-unit"
        /\ Len(SshSteps) = 2 /\ \A i \in 1..2 : SshSteps[i] # "write-systemd-unit"
    BY DEF ToolStep, SshSteps
  <1> DEFINE rest == IF p.kind = "code-server" THEN EditorSteps ELSE SshSteps
  <1>3. Steps(p) = base \o rest /\ rest \in Seq(StepNames) /\ Len(rest) \in Nat
        /\ (p.kind # "code-server" => rest = SshSteps)
    BY <1>1 DEF Steps
  <1> HIDE DEF base, rest
  <1>4. /\ Steps(p) \in Seq(StepNames) /\ Len(Steps(p)) = 4 + Len(rest)
        /\ \A i \in 1..(4 + Len(rest)) : Steps(p)[i] = IF i <= 4 THEN base[i] ELSE rest[i - 4]
    <2>1. /\ base \o rest \in Seq(StepNames) /\ Len(base \o rest) = Len(base) + Len(rest)
          /\ \A i \in 1..(Len(base) + Len(rest)) :
               (base \o rest)[i] = IF i <= Len(base) THEN base[i] ELSE rest[i - Len(base)]
      BY <1>1, <1>3, ConcatProperties, Zenon
    <2> QED
      BY <1>2, <1>3, <2>1
  <1>5. 1 \in 1..Len(Steps(p)) /\ 3 \in 1..Len(Steps(p))
        /\ Steps(p)[1] = "create-system-user" /\ Steps(p)[3] = "create-workspace"
    BY <1>2, <1>3, <1>4
  <1>6. ASSUME p.kind # "code-server", NEW i \in 1..Len(Steps(p))
        PROVE  Steps(p)[i] # "write-systemd-unit"
    <2>1. CASE i <= 4
      BY <1>2, <1>3, <1>4, <2>1
    <2>2. CASE i > 4
      <3>1. i - 4 \in 1..2 /\ Steps(p)[i] = rest[i - 4]
        BY <1>2, <1>3, <1>4, <1>6, <2>2
      <3> QED
        BY <1>2, <1>3, <1>6, <3>1
    <2> QED
      BY <1>3, <1>4, <2>1, <2>2
  <1> QED
    BY <1>4, <1>5, <1>6

LEMMA PlanStart == ASSUME StationInv, StationPlan PROVE StationInv'
  <1>1. NoVisit \in Visits
    BY DEF NoVisit, Visits
  <1>2. CASE visit' = [NoVisit EXCEPT !.pc = "refused"]
    BY <1>1, <1>2 DEF StationInv, Visits
  <1>3. ASSUME NEW checked \in BOOLEAN, profile' \in Documents, host' \in Hosts,
               visit' = [NoVisit EXCEPT !.pc = IF Refuses(checked)' THEN "refused" ELSE "planned",
                                        !.checked = checked, !.todo = Steps(profile')]
        PROVE  StationInv'
    <2>1. /\ visit' \in Visits /\ visit'.checked = checked /\ visit'.todo = Steps(profile')
          /\ (visit'.pc = "planned" => ~Refuses(checked)')
      BY <1>1, <1>3, PlanSteps DEF Visits
    <2>2. host' \in HostType
      BY <1>3 DEF Hosts, HostType
    <2>3. ASSUME visit'.pc = "planned", checked PROVE OnTheWay'
      <3>1. Failures' = {}
        BY <2>1, <2>3 DEF Refuses
      <3>2. host'.able /\ (profile'.tool_required => host'.tool) /\ host'.port_free /\ BindOk'
            /\ IdentityOk' /\ WorkspaceOk'
        BY <3>1 DEF Failures, ToolOk, python_and_disk_ok, has_executable,
                        tcp_port_is_free
      <3>3. host'.account \in {"none", ShellOf(profile')}
        BY <3>2 DEF IdentityOk, ShellOf, user_exists, user_is_system_account, user_has_shell_and_keys
      <3>4. /\ Todo("create-system-user")' /\ Todo("create-workspace")'
            /\ Todo("write-systemd-unit")' => profile'.kind = "code-server"
        BY <1>3, <2>1, PlanSteps DEF Todo
      <3> QED
        BY <3>2, <3>3, <3>4 DEF OnTheWay
    <2> QED
      BY <1>3, <2>1, <2>2, <2>3 DEF StationInv
  <1> QED
    BY <1>2, <1>3 DEF StationPlan

(* A step of the plan that is carried out is the first; the others stay.   *)
LEMMA FirstStep ==
    ASSUME visit \in Visits, visit.todo # <<>>, visit' = [visit EXCEPT !.todo = Tail(@)]
    PROVE  /\ visit' \in Visits /\ visit'.pc = visit.pc /\ visit'.checked = visit.checked
           /\ visit'.alien = visit.alien
           /\ \A name : Todo(name)' => Todo(name)
           /\ \A name : Todo(name) => Todo(name)' \/ name = Head(visit.todo)
           /\ Todo(Head(visit.todo))
  <1>1. visit.todo \in Seq(StepNames)
    BY DEF Visits
  <1>2. /\ Tail(visit.todo) \in Seq(StepNames) /\ Len(Tail(visit.todo)) = Len(visit.todo) - 1
        /\ \A i \in 1..Len(Tail(visit.todo)) : Tail(visit.todo)[i] = visit.todo[i + 1]
        /\ Head(visit.todo) = visit.todo[1] /\ Len(visit.todo) \in Nat /\ Len(visit.todo) >= 1
    BY <1>1, HeadTailProperties, EmptySeq
  <1>3. /\ visit' \in Visits /\ visit'.pc = visit.pc /\ visit'.checked = visit.checked
        /\ visit'.alien = visit.alien /\ visit'.todo = Tail(visit.todo)
    BY <1>2 DEF Visits
  <1>4. ASSUME NEW name, Todo(name)' PROVE Todo(name)
    <2>1. PICK i \in 1..Len(Tail(visit.todo)) : Tail(visit.todo)[i] = name
      BY <1>3, <1>4 DEF Todo
    <2>2. i + 1 \in 1..Len(visit.todo) /\ visit.todo[i + 1] = name
      BY <1>2, <2>1
    <2> QED
      BY <2>2 DEF Todo
  <1>5. ASSUME NEW name, Todo(name), name # Head(visit.todo) PROVE Todo(name)'
    <2>1. PICK i \in 1..Len(visit.todo) : visit.todo[i] = name
      BY <1>5 DEF Todo
    <2>2. i - 1 \in 1..Len(Tail(visit.todo)) /\ i = (i - 1) + 1
      BY <1>2, <1>5, <2>1
    <2>3. Tail(visit.todo)[i - 1] = name
      BY <1>2, <2>1, <2>2
    <2> QED
      BY <1>3, <2>2, <2>3 DEF Todo
  <1>6. Todo(Head(visit.todo))
    BY <1>2 DEF Todo
  <1> QED
    BY <1>3, <1>4, <1>5, <1>6

(* What a step leaves: a host still, and of what OnTheWay asks only what   *)
(* the step is for.                                                        *)
LEMMA StepEffect ==
    ASSUME NEW carried \in StepNames, host \in HostType, profile \in Documents, host' = Effect(carried)
    PROVE  /\ host' \in HostType
           /\ host'.able = host.able /\ (host.tool => host'.tool)
           /\ host'.account = IF carried = "create-system-user" /\ host.account = "none"
                              THEN ShellOf(profile) ELSE host.account
           /\ carried # "write-systemd-unit" => host'.port_free = host.port_free
           /\ carried = "create-workspace" => host'.workspace = "own"
           /\ carried # "create-workspace" => host'.workspace = host.workspace
  <1>1. ShellOf(profile) \in {"shell", "service"}
    BY DEF ShellOf
  <1>2. CASE carried \in {"create-system-user", "create-home", "create-workspace"}
    BY <1>1, <1>2 DEF Effect, HostType
  <1>3. CASE carried \in {"ensure-tool", "install-code-server", "set-editor-password"}
    BY <1>3 DEF Effect, HostType
  <1>4. CASE carried = "write-systemd-unit"
    <2>1. host' = [host EXCEPT !.unit = TRUE, !.port_free = host.port_free /\ ~host.password]
      BY <1>4 DEF Effect
    <2> QED
      BY <1>4, <2>1 DEF HostType
  <1>5. CASE carried \in {"create-editor-state", "prepare-ssh-access", "reuse-sshd"}
    BY <1>5 DEF Effect
  <1> QED
    BY <1>2, <1>3, <1>4, <1>5 DEF StepNames

LEMMA PlanGoesOn == ASSUME StationInv, StationStep PROVE StationInv'
  <1>0. /\ visit \in Visits /\ visit.pc = "planned" /\ profile \in Documents /\ host \in HostType
        /\ profile' = profile
    BY DEF StationInv, StationStep, CarryOut, AddKey, HostChanges
  <1>1. CASE CarryOut
    <2> DEFINE first == Head(visit.todo)
    <2>1. /\ visit.todo # <<>> /\ visit' = [visit EXCEPT !.todo = Tail(@)]
          /\ host' = Effect(first)
      BY <1>1 DEF CarryOut
    <2>2. first \in StepNames
      BY <1>0, <2>1 DEF Visits
    <2> HIDE DEF first
    <2>3. /\ visit' \in Visits /\ visit'.pc = visit.pc /\ visit'.checked = visit.checked
          /\ visit'.alien = visit.alien
          /\ \A name : Todo(name)' => Todo(name)
          /\ \A name : Todo(name) => Todo(name)' \/ name = first
          /\ Todo(first)
      BY <1>0, <2>1, FirstStep DEF first
    <2>4. /\ host' \in HostType
          /\ host'.able = host.able /\ (host.tool => host'.tool)
          /\ host'.account = IF first = "create-system-user" /\ host.account = "none"
                             THEN ShellOf(profile) ELSE host.account
          /\ first # "write-systemd-unit" => host'.port_free = host.port_free
          /\ first = "create-workspace" => host'.workspace = "own"
          /\ first # "create-workspace" => host'.workspace = host.workspace
      BY <1>0, <2>1, <2>2, StepEffect
    <2>5. ASSUME OnTheWay PROVE OnTheWay'
      <3>1. ShellOf(profile) # "none" /\ ShellOf(profile)' = ShellOf(profile) /\ BindOk' = BindOk
        BY <1>0 DEF ShellOf, BindOk, is_loopback_or_private
      <3>2. host'.able /\ (profile'.tool_required => host'.tool)
        BY <1>0, <2>4, <2>5 DEF OnTheWay
      <3>3. host'.account \in {"none", ShellOf(profile')}
        BY <1>0, <2>4, <2>5 DEF OnTheWay
      <3>4. Todo("write-systemd-unit")' => profile'.kind = "code-server"
        BY <1>0, <2>3, <2>5 DEF OnTheWay
      <3>5. profile'.kind = "code-server" \/ host'.port_free
        BY <1>0, <2>3, <2>4, <2>5 DEF OnTheWay
      <3>6. Todo("create-system-user")' \/ host'.account # "none"
        BY <2>3, <2>4, <2>5, <3>1 DEF OnTheWay
      <3>7. Todo("create-workspace")' \/ host'.workspace = "own"
        BY <2>3, <2>4, <2>5 DEF OnTheWay
      <3> QED
        BY <2>5, <3>1, <3>2, <3>3, <3>4, <3>5, <3>6, <3>7 DEF OnTheWay
    <2> QED
      BY <1>0, <2>3, <2>4, <2>5 DEF StationInv
  <1>2. CASE AddKey
    <2>1. /\ UNCHANGED <<profile, visit>> /\ host' \in HostType
          /\ host'.able = host.able /\ host'.tool = host.tool /\ host'.account = host.account
          /\ host'.port_free = host.port_free /\ host'.workspace = host.workspace
      BY <1>0, <1>2 DEF AddKey, HostType
    <2> QED
      BY <2>1 DEF StationInv, OnTheWay, BindOk, is_loopback_or_private, ShellOf, Todo
  <1>3. CASE HostChanges
    <2>1. visit' \in Visits /\ visit'.alien
      BY <1>0, <1>3 DEF HostChanges, Visits
    <2>2. host' \in HostType
      BY <1>0, <1>3 DEF HostChanges, HostType
    <2> QED
      BY <1>0, <2>1, <2>2 DEF StationInv
  <1> QED
    BY <1>1, <1>2, <1>3 DEF StationStep

(* provision.py, preflight.py: a plan that was built over a passing        *)
(* preflight, carried out to its end on a host nobody else touches, leaves *)
(* a host that passes again, for every profile and every host; the port    *)
(* the station now uses and the key left to the operator apart.            *)
THEOREM PlansSuffice == LineSpec => []PlanMakesReady
  <1>1. LineInit => StationInv
    BY DEF LineInit, StationInit, NoVisit, StationInv, Visits
  <1>2. StationInv /\ [LineNext]_lineVars => StationInv'
    <2> SUFFICES ASSUME StationInv, [LineNext]_lineVars PROVE StationInv'
      OBVIOUS
    <2>1. CASE UNCHANGED stationVars
      BY <2>1 DEF stationVars, StationInv, OnTheWay, BindOk, is_loopback_or_private, ShellOf, Todo
    <2> QED
      BY <2>1, OneMoves, PlanStart, PlanGoesOn
  <1>3. StationInv => PlanMakesReady
    <2> SUFFICES ASSUME StationInv, visit.pc = "planned", visit.checked, visit.todo = <<>>,
                        ~visit.alien, NEW c \in Failures
                 PROVE  /\ c \in {"remote-port-free", "identity-user"}
                        /\ IF c = "remote-port-free" THEN profile.kind = "code-server"
                           ELSE profile.kind = "ssh-remote" /\ ~host.keys
      BY DEF PlanMakesReady
    <2>1. OnTheWay /\ profile \in Documents /\ host \in HostType
      BY DEF StationInv
    <2>2. \A name : ~Todo(name)
      BY DEF Todo
    <2>3. host.account = ShellOf(profile) /\ host.workspace = "own"
      BY <2>1, <2>2 DEF OnTheWay
    <2>4. WorkspaceOk
      BY <2>3 DEF WorkspaceOk, WritableByAccount
    <2>5. ~IdentityOk => profile.kind = "ssh-remote" /\ ~host.keys
      BY <2>1, <2>3 DEF IdentityOk, ShellOf, Documents, user_is_system_account,
                        user_has_shell_and_keys
    <2>6. ~host.port_free => profile.kind = "code-server"
      BY <2>1 DEF OnTheWay
    <2>7. host.able /\ (profile.tool_required => host.tool) /\ BindOk
      BY <2>1 DEF OnTheWay
    <2> QED
      BY <2>4, <2>5, <2>6, <2>7 DEF Failures, ToolOk, python_and_disk_ok, has_executable,
                        tcp_port_is_free
  <1> QED
    BY <1>1, <1>2, <1>3, PTL DEF LineSpec

-----------------------------------------------------------------------------
(* `migrate plan` *)

Versions == Contents \cup {Absent}

Repos ==
    [git : BOOLEAN, upstream : BOOLEAN, ahead : BOOLEAN, tracked : SUBSET Files,
     work : [Files -> Versions], head : [Files -> Versions], origin : [Files -> Versions]]

ScanSteps ==
    {"modified", "untracked", "commits", "unpushed", "list", "hash", "planned", "refused", "failed"}

Classes == {"private", "untracked", "tracked-modified", "tracked-clean"}

(* Names on a path; the provers do not know a literal for a STRING. *)
Names == STRING \cup Files \cup {"repo"}

Copies == [path : Files, content : Versions, class : Classes, at : Seq(Names)]

Scans ==
    [pc : ScanSteps, roots : Destinations, private : SUBSET Files, modified : SUBSET Files,
     untracked : SUBSET Files, bundle : BOOLEAN, left : SUBSET Files, hashes : [Files -> Versions],
     copies : SUBSET Copies, moves : Nat, disturbed : BOOLEAN]

Hashed == {f \in Files : scan.hashes[f] # Absent}

(* What the answers so far still mean, however often the developer         *)
(* committed and pushed since: only an edit or a git add disturbs it.      *)
AnswersStand ==
    /\ scan.pc \notin {"modified"} =>
         \A f \in repo.tracked \ scan.modified : repo.work[f] = repo.head[f]
    /\ scan.pc \notin {"modified", "untracked"} => scan.untracked = Untracked
    /\ scan.pc \in {"list", "hash", "planned"} =>
         \A f \in repo.tracked \ scan.modified : repo.upstream => repo.head[f] = repo.origin[f]
    /\ scan.pc \in {"hash", "planned"} =>
         /\ scan.left \subseteq Listed
         /\ \A f \in Files : scan.hashes[f] = IF f \in Listed \ scan.left THEN repo.work[f] ELSE Absent

(* Of the scan alone. *)
ScanStands ==
    /\ scan.pc # "refused" => Separate(scan.roots)
    /\ scan.pc \in {"modified", "untracked", "commits", "unpushed", "list"} => Hashed = {}
    /\ scan.pc = "planned" => scan.left = {} /\ scan.copies = {PlannedCopy(f) : f \in Hashed}

MigrationInv ==
    \/ scan = NoScan
    \/ /\ scan \in Scans /\ repo \in Repos
       /\ ScanStands
       /\ ~scan.disturbed /\ scan.pc \notin {"refused", "failed"} => AnswersStand

LEMMA MigrateStart == ASSUME StartMigrate PROVE MigrationInv'
  <1>1. repo' \in Repos
    BY DEF StartMigrate, Repos, Versions
  <1>2. PICK roots \in Destinations, stated \in Policies \cup {NoPolicy} :
         scan' = [pc |-> IF Separate(roots) /\ repo'.git THEN "modified" ELSE "refused",
                  roots |-> roots, private |-> PrivacyPolicy(stated),
                  modified |-> {}, untracked |-> {}, bundle |-> FALSE,
                  left |-> {}, hashes |-> [f \in Files |-> Absent], copies |-> {},
                  moves |-> 0, disturbed |-> FALSE]
    BY DEF StartMigrate
  <1>3. PrivacyPolicy(stated) \in SUBSET Files
    BY MigrationAssumption DEF PrivacyPolicy
  <1>4. [f \in Files |-> Absent] \in [Files -> Versions]
    BY DEF Versions
  <1>5. scan' \in Scans
    BY <1>2, <1>3, <1>4 DEF Scans, ScanSteps
  <1>6. /\ scan'.pc \in {"modified", "refused"} /\ scan'.hashes = [f \in Files |-> Absent]
        /\ scan'.roots = roots /\ (scan'.pc = "modified" => Separate(roots))
    BY <1>2
  <1>7. ScanStands'
    BY <1>6 DEF ScanStands, Hashed, Separate
  <1>8. scan'.pc \notin {"refused", "failed"} => AnswersStand'
    BY <1>6 DEF AnswersStand
  <1> QED
    BY <1>1, <1>5, <1>7, <1>8 DEF MigrationInv

(* A scan that is under way is a scan of a checkout. *)
LEMMA ScanTyped ==
    ASSUME MigrationInv, scan.pc # "idle"
    PROVE  /\ scan \in Scans /\ repo \in Repos /\ ScanStands
           /\ ~scan.disturbed /\ scan.pc \notin {"refused", "failed"} => AnswersStand
  BY DEF MigrationInv, NoScan

Questions == {"modified", "untracked", "commits", "unpushed", "list"}

(* A question moves the scan on and touches neither roots nor hashes.      *)
LEMMA AskKeepsScan ==
    ASSUME MigrationInv, scan.pc \in Questions, repo' = repo,
           scan' \in Scans, scan'.pc \in Questions \cup {"hash"},
           scan'.roots = scan.roots, scan'.hashes = scan.hashes
    PROVE  repo' \in Repos /\ ScanStands'
  <1>1. scan \in Scans /\ repo \in Repos /\ ScanStands
    BY ScanTyped DEF Questions
  <1>2. Hashed' = Hashed
    BY DEF Hashed
  <1> QED
    BY <1>1, <1>2 DEF ScanStands, Questions

(* git said nothing: the scan goes on without the answer.                  *)
LEMMA NoAnswer ==
    ASSUME MigrationInv, NEW next \in Questions \cup {"hash"}, scan.pc \in Questions,
           repo' = repo, scan' = [scan EXCEPT !.pc = next, !.disturbed = TRUE]
    PROVE  MigrationInv'
  <1>1. scan \in Scans
    BY ScanTyped DEF Questions
  <1>2. /\ scan' \in Scans /\ scan'.pc = next /\ scan'.disturbed
        /\ scan'.roots = scan.roots /\ scan'.hashes = scan.hashes
    BY <1>1 DEF Scans, ScanSteps, Questions
  <1>3. repo' \in Repos /\ ScanStands'
    BY <1>2, AskKeepsScan
  <1> QED
    BY <1>2, <1>3 DEF MigrationInv

LEMMA AsksStep ==
    ASSUME MigrationInv, AskModified \/ AskUntracked \/ AskCommits \/ AskUnpushed \/ AskFiles
    PROVE  MigrationInv'
  <1>0. scan.pc \in Questions /\ repo' = repo
    BY DEF AskModified, AskUntracked, AskCommits, AskUnpushed, AskFiles, Asks, Questions
  <1>1. /\ scan \in Scans /\ repo \in Repos /\ ScanStands
        /\ ~scan.disturbed => AnswersStand
    BY <1>0, ScanTyped DEF Questions
  <1>2. ASSUME scan.pc = "modified",
               scan' = [scan EXCEPT !.pc = "untracked", !.modified = ModifiedTracked]
        PROVE  MigrationInv'
    <2>1. /\ scan' \in Scans /\ scan'.pc = "untracked" /\ scan'.modified = ModifiedTracked
          /\ scan'.roots = scan.roots /\ scan'.hashes = scan.hashes
      BY <1>1, <1>2 DEF Scans, ScanSteps, ModifiedTracked
    <2>2. repo' \in Repos /\ ScanStands'
      BY <1>0, <2>1, AskKeepsScan DEF Questions
    <2>3. \A f \in repo.tracked \ ModifiedTracked : repo.work[f] = repo.head[f]
      BY <1>1 DEF ModifiedTracked, Repos
    <2>4. AnswersStand'
      BY <1>0, <2>1, <2>3 DEF AnswersStand
    <2> QED
      BY <2>1, <2>2, <2>4 DEF MigrationInv
  <1>3. ASSUME scan.pc = "untracked",
               scan' = [scan EXCEPT !.pc = "commits", !.untracked = Untracked]
        PROVE  MigrationInv'
    <2>1. /\ scan' \in Scans /\ scan'.pc = "commits" /\ scan'.modified = scan.modified
          /\ scan'.untracked = Untracked /\ scan'.disturbed = scan.disturbed
          /\ scan'.roots = scan.roots /\ scan'.hashes = scan.hashes
      BY <1>1, <1>3 DEF Scans, ScanSteps, Untracked
    <2>2. repo' \in Repos /\ ScanStands'
      BY <1>0, <2>1, AskKeepsScan DEF Questions
    <2>3. Untracked' = Untracked
      BY <1>0 DEF Untracked
    <2>4. ~scan.disturbed => AnswersStand'
      BY <1>0, <1>1, <1>3, <2>1, <2>3 DEF AnswersStand
    <2> QED
      BY <2>1, <2>2, <2>4 DEF MigrationInv
  <1>4. ASSUME scan.pc = "commits",
               scan' = [scan EXCEPT !.pc = "unpushed", !.bundle = repo.upstream /\ repo.ahead]
        PROVE  MigrationInv'
    <2>1. /\ scan' \in Scans /\ scan'.pc = "unpushed" /\ scan'.modified = scan.modified
          /\ scan'.untracked = scan.untracked /\ scan'.disturbed = scan.disturbed
          /\ scan'.roots = scan.roots /\ scan'.hashes = scan.hashes
      BY <1>1, <1>4 DEF Scans, ScanSteps, Repos
    <2>2. repo' \in Repos /\ ScanStands'
      BY <1>0, <2>1, AskKeepsScan DEF Questions
    <2>3. Untracked' = Untracked
      BY <1>0 DEF Untracked
    <2>4. ~scan.disturbed => AnswersStand'
      BY <1>0, <1>1, <1>4, <2>1, <2>3 DEF AnswersStand
    <2> QED
      BY <2>1, <2>2, <2>4 DEF MigrationInv
  <1>5. ASSUME scan.pc = "unpushed",
               scan' = [scan EXCEPT !.pc = "list", !.modified = @ \cup UnpushedFiles]
        PROVE  MigrationInv'
    <2>1. /\ scan' \in Scans /\ scan'.pc = "list" /\ scan'.modified = scan.modified \cup UnpushedFiles
          /\ scan'.untracked = scan.untracked /\ scan'.disturbed = scan.disturbed
          /\ scan'.roots = scan.roots /\ scan'.hashes = scan.hashes
      BY <1>1, <1>5 DEF Scans, ScanSteps, UnpushedFiles
    <2>2. repo' \in Repos /\ ScanStands'
      BY <1>0, <2>1, AskKeepsScan DEF Questions
    <2>3. Untracked' = Untracked
      BY <1>0 DEF Untracked
    <2>4. \A f \in repo.tracked \ UnpushedFiles : repo.upstream => repo.head[f] = repo.origin[f]
      BY <1>1 DEF UnpushedFiles, Repos
    <2>5. ~scan.disturbed => AnswersStand'
      BY <1>0, <1>1, <1>5, <2>1, <2>3, <2>4 DEF AnswersStand
    <2> QED
      BY <2>1, <2>2, <2>5 DEF MigrationInv
  <1>6. ASSUME scan.pc = "list",
               scan' = [scan EXCEPT !.pc = "hash", !.left = Listed]
        PROVE  MigrationInv'
    <2>1. /\ scan' \in Scans /\ scan'.pc = "hash" /\ scan'.modified = scan.modified
          /\ scan'.untracked = scan.untracked /\ scan'.disturbed = scan.disturbed
          /\ scan'.roots = scan.roots /\ scan'.hashes = scan.hashes /\ scan'.left = Listed
      BY <1>1, <1>6 DEF Scans, ScanSteps, Listed, Untracked, Repos
    <2>2. repo' \in Repos /\ ScanStands'
      BY <1>0, <2>1, AskKeepsScan DEF Questions
    <2>3. Untracked' = Untracked /\ Listed' = Listed
      BY <1>0 DEF Untracked, Listed
    <2>4. \A f \in Files : scan.hashes[f] = Absent
      BY <1>1, <1>6 DEF ScanStands, Hashed
    <2>5. ~scan.disturbed => AnswersStand'
      BY <1>0, <1>1, <1>6, <2>1, <2>3, <2>4 DEF AnswersStand
    <2> QED
      BY <2>1, <2>2, <2>5 DEF MigrationInv
  <1>7. ASSUME NEW next \in Questions \cup {"hash"},
               scan' = [scan EXCEPT !.pc = next, !.disturbed = TRUE]
        PROVE  MigrationInv'
    BY <1>0, <1>7, NoAnswer
  <1> QED
    BY <1>2, <1>3, <1>4, <1>5, <1>6, <1>7
    DEF AskModified, AskUntracked, AskCommits, AskUnpushed, AskFiles, Asks, Questions

(* The developer: a commit makes head the tracked work, a push makes origin *)
(* head; neither takes from what was answered.                             *)
LEMMA DeveloperStep ==
    ASSUME MigrationInv, (\E f \in Files : Edit(f) \/ AddFile(f)) \/ Commit \/ Push
    PROVE  MigrationInv'
  <1>0. /\ Scanning
        /\ \E d \in BOOLEAN : scan' = [scan EXCEPT !.moves = @ + 1, !.disturbed = @ \/ d]
    BY DEF Edit, AddFile, Commit, Push, Moves
  <1>1. /\ scan \in Scans /\ repo \in Repos /\ ScanStands
        /\ ~scan.disturbed => AnswersStand
    BY <1>0, ScanTyped DEF Scanning
  <1>2. /\ scan' \in Scans /\ scan'.pc = scan.pc /\ scan'.roots = scan.roots
        /\ scan'.private = scan.private /\ scan'.modified = scan.modified
        /\ scan'.untracked = scan.untracked /\ scan'.left = scan.left /\ scan'.hashes = scan.hashes
        /\ scan'.copies = scan.copies /\ (~scan'.disturbed => ~scan.disturbed)
    <2>1. PICK d \in BOOLEAN :
            scan' = [scan EXCEPT !.moves = scan.moves + 1, !.disturbed = scan.disturbed \/ d]
      BY <1>0
    <2>2. scan.moves + 1 \in Nat /\ (scan.disturbed \/ d) \in BOOLEAN
      BY <1>1 DEF Scans
    <2> QED
      BY <1>1, <2>1, <2>2 DEF Scans
  <1>3. scan.pc \notin {"planned", "refused", "failed"}
    BY <1>0 DEF Scanning
  <1>4. ScanStands'
    BY <1>1, <1>2, <1>3 DEF ScanStands, Hashed
  <1>5. CASE \E f \in Files : Edit(f) \/ AddFile(f)
    <2>1. scan'.disturbed
      BY <1>1, <1>5 DEF Edit, AddFile, Moves, Scans
    <2>2. repo' \in Repos
      <3>1. ASSUME NEW f \in Files, Edit(f) PROVE repo' \in Repos
        <4>1. PICK c \in Versions : repo' = [repo EXCEPT !.work[f] = c]
          BY <3>1 DEF Edit, Versions
        <4>2. [repo.work EXCEPT ![f] = c] \in [Files -> Versions]
          BY <1>1 DEF Repos
        <4>3. repo' = [repo EXCEPT !.work = [repo.work EXCEPT ![f] = c]]
          BY <4>1
        <4> QED
          BY <1>1, <4>2, <4>3 DEF Repos
      <3>2. ASSUME NEW f \in Files, AddFile(f) PROVE repo' \in Repos
        BY <1>1, <3>2 DEF AddFile, Repos
      <3> QED
        BY <1>5, <3>1, <3>2
    <2> QED
      BY <1>2, <1>4, <2>1, <2>2 DEF MigrationInv
  <1>6. CASE Commit
    <2>1. /\ repo' \in Repos /\ repo'.work = repo.work /\ repo'.tracked = repo.tracked
          /\ repo'.origin = repo.origin /\ repo'.upstream = repo.upstream
          /\ \A f \in repo.tracked : repo'.head[f] = repo.work[f]
      BY <1>1, <1>6 DEF Commit, Repos, Versions
    <2>2. Untracked' = Untracked /\ Listed' = Listed
      BY <2>1 DEF Untracked, Listed
    <2>3. ~scan.disturbed => AnswersStand'
      BY <1>1, <1>2, <2>1, <2>2 DEF AnswersStand
    <2> QED
      BY <1>2, <1>4, <2>1, <2>3 DEF MigrationInv
  <1>7. CASE Push
    <2>1. /\ repo' \in Repos /\ repo'.work = repo.work /\ repo'.tracked = repo.tracked
          /\ repo'.origin = repo.head /\ repo'.head = repo.head
      BY <1>1, <1>7 DEF Push, Repos
    <2>2. Untracked' = Untracked /\ Listed' = Listed
      BY <2>1 DEF Untracked, Listed
    <2>3. ~scan.disturbed => AnswersStand'
      BY <1>1, <1>2, <2>1, <2>2 DEF AnswersStand
    <2> QED
      BY <1>2, <1>4, <2>1, <2>3 DEF MigrationInv
  <1> QED
    BY <1>5, <1>6, <1>7

LEMMA HashStep == ASSUME MigrationInv, NEW f \in Files, Hash(f) PROVE MigrationInv'
  <1>0. scan.pc = "hash" /\ f \in scan.left /\ repo' = repo
    BY DEF Hash
  <1>1. /\ scan \in Scans /\ repo \in Repos /\ ScanStands
        /\ ~scan.disturbed => AnswersStand
    BY <1>0, ScanTyped
  <1>2. CASE repo.work[f] = Absent
    <2>1. scan' = [scan EXCEPT !.pc = "failed"]
      BY <1>2 DEF Hash
    <2>2. scan' \in Scans /\ scan'.pc = "failed" /\ scan'.roots = scan.roots
      BY <1>1, <2>1 DEF Scans, ScanSteps
    <2>3. ScanStands'
      BY <1>0, <1>1, <2>2 DEF ScanStands
    <2> QED
      BY <1>0, <1>1, <2>2, <2>3 DEF MigrationInv
  <1>3. CASE repo.work[f] # Absent
    <2> DEFINE hashes == [scan.hashes EXCEPT ![f] = repo.work[f]]
    <2>1. hashes \in [Files -> Versions]
          /\ \A g \in Files : hashes[g] = IF g = f THEN repo.work[f] ELSE scan.hashes[g]
      BY <1>1 DEF Scans, Repos
    <2>2. scan' = [scan EXCEPT !.hashes = hashes, !.left = scan.left \ {f}]
      BY <1>3 DEF Hash
    <2> HIDE DEF hashes
    <2>3. /\ scan' \in Scans /\ scan'.pc = "hash" /\ scan'.modified = scan.modified
          /\ scan'.untracked = scan.untracked /\ scan'.disturbed = scan.disturbed
          /\ scan'.roots = scan.roots /\ scan'.hashes = hashes /\ scan'.left = scan.left \ {f}
      BY <1>0, <1>1, <2>1, <2>2 DEF Scans
    <2>4. ScanStands'
      BY <1>0, <1>1, <2>3 DEF ScanStands
    <2>5. Untracked' = Untracked /\ Listed' = Listed
      BY <1>0 DEF Untracked, Listed
    <2>7. ASSUME ~scan.disturbed PROVE AnswersStand'
      <3>1. f \in Listed /\ scan.left \ {f} \subseteq Listed
        BY <1>0, <1>1, <2>7 DEF AnswersStand
      <3>2. \A g \in Files : hashes[g] = IF g \in Listed \ (scan.left \ {f}) THEN repo.work[g] ELSE Absent
        BY <1>0, <1>1, <2>1, <2>7, <3>1 DEF AnswersStand
      <3> QED
        BY <1>0, <1>1, <2>3, <2>5, <2>7, <3>1, <3>2 DEF AnswersStand
    <2> QED
      BY <1>0, <1>1, <2>3, <2>4, <2>7 DEF MigrationInv
  <1> QED
    BY <1>2, <1>3

LEMMA WiderSeq == ASSUME NEW S, NEW T, NEW s \in Seq(S), S \subseteq T PROVE s \in Seq(T)
  <1>1. Len(s) \in Nat /\ s \in [1..Len(s) -> S]
    BY LenProperties
  <1>2. s \in [1..Len(s) -> T]
    BY <1>1
  <1> QED
    BY <1>1, <1>2, SeqDef

(* A planned copy is under the root of its class. *)
LEMMA CopyTyped ==
    ASSUME scan \in Scans, NEW f \in Files
    PROVE  /\ PlannedCopy(f) \in Copies /\ PlannedCopy(f).path = f
           /\ PlannedCopy(f).content = scan.hashes[f] /\ PlannedCopy(f).class = _classify(f)
           /\ PlannedCopy(f).at = scan.roots[DestinationOf(_classify(f))] \o <<"repo", f>>
           /\ DestinationOf(_classify(f)) \in Roots
  <1>1. _classify(f) \in Classes
    BY DEF _classify, Classes
  <1>2. DestinationOf(_classify(f)) \in Roots
    BY <1>1 DEF DestinationOf, Classes, Roots
  <1>3. scan.roots \in [Roots -> Seq(STRING)] /\ scan.hashes[f] \in Versions
    BY MigrationAssumption DEF Scans
  <1>4. scan.roots[DestinationOf(_classify(f))] \in Seq(STRING)
    BY <1>2, <1>3
  <1>5. scan.roots[DestinationOf(_classify(f))] \in Seq(Names)
        /\ <<"repo", f>> \in Seq(Names)
    <2>1. STRING \subseteq Names /\ "repo" \in Names /\ f \in Names
      BY Zenon DEF Names
    <2>2. scan.roots[DestinationOf(_classify(f))] \in Seq(Names)
      BY <1>4, <2>1, WiderSeq
    <2>3. <<"repo", f>> \in Seq(Names)
      BY <2>1
    <2> QED
      BY <2>2, <2>3
  <1>6. scan.roots[DestinationOf(_classify(f))] \o <<"repo", f>> \in Seq(Names)
    BY <1>5, ConcatProperties
  <1>7. PlannedCopy(f) = [path |-> f, content |-> scan.hashes[f], class |-> _classify(f),
                          at |-> scan.roots[DestinationOf(_classify(f))] \o <<"repo", f>>]
    BY DEF PlannedCopy
  <1> HIDE DEF PlannedCopy
  <1> QED
    BY <1>1, <1>2, <1>3, <1>6, <1>7 DEF Copies

LEMMA PlanStep == ASSUME MigrationInv, Plan PROVE MigrationInv'
  <1>0. scan.pc = "hash" /\ scan.left = {} /\ repo' = repo
    BY DEF Plan
  <1>1. /\ scan \in Scans /\ repo \in Repos /\ ScanStands
        /\ ~scan.disturbed => AnswersStand
    BY <1>0, ScanTyped
  <1> DEFINE copies == {PlannedCopy(f) : f \in Hashed}
  <1>2. CASE scan' = [scan EXCEPT !.pc = "refused"]
    <2>1. scan' \in Scans /\ scan'.pc = "refused"
      BY <1>1, <1>2 DEF Scans, ScanSteps
    <2> QED
      BY <1>0, <1>1, <2>1 DEF MigrationInv, ScanStands
  <1>3. CASE scan' = [scan EXCEPT !.pc = "planned", !.copies = copies]
    <2>1. copies \in SUBSET Copies
      BY <1>1, CopyTyped DEF Hashed
    <2> HIDE DEF copies
    <2>2. /\ scan' \in Scans /\ scan'.pc = "planned" /\ scan'.modified = scan.modified
          /\ scan'.untracked = scan.untracked /\ scan'.disturbed = scan.disturbed
          /\ scan'.roots = scan.roots /\ scan'.hashes = scan.hashes /\ scan'.left = scan.left
          /\ scan'.private = scan.private /\ scan'.copies = copies
      BY <1>1, <1>3, <2>1 DEF Scans, ScanSteps
    <2>3. Hashed' = Hashed /\ Untracked' = Untracked /\ Listed' = Listed
      BY <1>0, <2>2 DEF Hashed, Untracked, Listed
    <2>4. \A f : PlannedCopy(f)' = PlannedCopy(f)
      BY <2>2 DEF PlannedCopy, _classify
    <2>5. copies = {PlannedCopy(f)' : f \in Hashed'}
      BY <2>3, <2>4 DEF copies
    <2>6. ScanStands'
      BY <1>0, <1>1, <2>2, <2>5 DEF ScanStands
    <2>7. ~scan.disturbed => AnswersStand'
      BY <1>0, <1>1, <2>2, <2>3 DEF AnswersStand
    <2> QED
      BY <1>0, <1>1, <2>2, <2>6, <2>7 DEF MigrationInv
  <1> QED
    BY <1>2, <1>3 DEF Plan, Hashed

LEMMA MigrationInvariant == LineSpec => []MigrationInv
  <1>1. LineInit => MigrationInv
    BY DEF LineInit, MigrationInit, MigrationInv
  <1>2. MigrationInv /\ [LineNext]_lineVars => MigrationInv'
    <2> SUFFICES ASSUME MigrationInv, [LineNext]_lineVars PROVE MigrationInv'
      OBVIOUS
    <2>1. CASE UNCHANGED migrationVars
      <3>1. UNCHANGED <<repo, scan>>
        BY <2>1 DEF migrationVars
      <3>2. /\ Untracked' = Untracked /\ Listed' = Listed /\ Hashed' = Hashed
            /\ \A f : PlannedCopy(f)' = PlannedCopy(f)
        BY <3>1 DEF Untracked, Listed, Hashed, PlannedCopy, _classify
      <3>3. {PlannedCopy(f)' : f \in Hashed'} = {PlannedCopy(f) : f \in Hashed}
        BY <3>2
      <3>4. (ScanStands => ScanStands') /\ (AnswersStand => AnswersStand')
        BY <3>1, <3>2, <3>3 DEF ScanStands, AnswersStand
      <3> QED
        BY <3>1, <3>4 DEF MigrationInv
    <2>2. CASE StartMigrate
      BY <2>2, MigrateStart
    <2>3. CASE MigrationStep
      BY <2>3, AsksStep, HashStep, PlanStep, DeveloperStep DEF MigrationStep
    <2> QED
      BY <2>1, <2>2, <2>3, OneMoves
  <1> QED
    BY <1>1, <1>2, PTL DEF LineSpec

(* migration.py, _classify over the answers of git: a file the plan calls  *)
(* published is on the upstream branch with the content that was hashed,   *)
(* however the developer commits and pushes between the questions.         *)
THEOREM PublishedIsUpstream == LineSpec => []ReferenceIsPublished
  <1>1. MigrationInv => ReferenceIsPublished
    <2> SUFFICES ASSUME MigrationInv, scan # NoScan, Undisturbed, repo.upstream,
                        NEW c \in scan.copies, c.class = "tracked-clean"
                 PROVE  c.content = repo.origin[c.path]
      BY DEF ReferenceIsPublished
    <2>1. /\ scan \in Scans /\ repo \in Repos /\ ScanStands /\ AnswersStand
          /\ scan.pc = "planned"
      BY DEF MigrationInv, Undisturbed
    <2>2. PICK f \in Hashed : c = PlannedCopy(f)
      BY <2>1 DEF ScanStands
    <2>3. f \in Files /\ scan.hashes[f] # Absent
      BY <2>2 DEF Hashed
    <2>4. c.path = f /\ c.content = scan.hashes[f] /\ _classify(f) = "tracked-clean"
      BY <2>1, <2>2, <2>3, CopyTyped
    <2>5. f \notin scan.untracked /\ f \notin scan.modified
      BY <2>4 DEF _classify
    <2>6. f \in Listed /\ scan.hashes[f] = repo.work[f]
      BY <2>1, <2>3 DEF AnswersStand
    <2>7. f \in repo.tracked
      BY <2>1, <2>5, <2>6 DEF Listed, AnswersStand
    <2> QED
      BY <2>1, <2>4, <2>5, <2>6, <2>7 DEF AnswersStand
  <1> QED
    BY <1>1, MigrationInvariant, PTL

(* Of two prefixes of one sequence one is a prefix of the other.           *)
LEMMA PrefixesCompare ==
    ASSUME NEW S, NEW a \in Seq(S), NEW b \in Seq(S), NEW c \in Seq(S),
           IsPrefix(a, c), IsPrefix(b, c)
    PROVE  IsPrefix(a, b) \/ IsPrefix(b, a)
  <1>1. Len(a) \in Nat /\ Len(b) \in Nat /\ Len(c) \in Nat
    BY LenProperties
  <1>2. ASSUME NEW d \in Seq(S), NEW e \in Seq(S), IsPrefix(d, c), IsPrefix(e, c), Len(d) <= Len(e)
        PROVE  IsPrefix(d, e)
    <2>1. Len(d) \in Nat /\ Len(e) \in Nat /\ Len(e) <= Len(c)
      BY <1>2, LenProperties DEF IsPrefix
    <2>2. \A i \in 1..Len(d) : d[i] = c[i]
      BY <1>1, <1>2, <2>1, SubSeqProperties DEF IsPrefix
    <2>3. \A i \in 1..Len(e) : e[i] = c[i]
      BY <1>1, <1>2, <2>1, SubSeqProperties DEF IsPrefix
    <2>4. SubSeq(d, 1, Len(d)) = SubSeq(e, 1, Len(d))
      BY <1>2, <2>1, <2>2, <2>3
    <2> QED
      BY <1>2, <2>4 DEF IsPrefix
  <1> QED
    BY <1>1, <1>2

LEMMA PrefixOfConcat ==
    ASSUME NEW S, NEW a \in Seq(S), NEW b \in Seq(S)
    PROVE  IsPrefix(a, a \o b)
  <1>1. Len(a) \in Nat /\ Len(b) \in Nat /\ a \o b \in Seq(S) /\ Len(a \o b) = Len(a) + Len(b)
        /\ \A i \in 1..Len(a) : (a \o b)[i] = a[i]
    BY LenProperties, ConcatProperties
  <1>2. SubSeq(a, 1, Len(a)) = SubSeq(a \o b, 1, Len(a))
    BY <1>1
  <1> QED
    BY <1>1, <1>2 DEF IsPrefix

(* A path under one of four separate roots is under that one alone.        *)
LEMMA OneRoot ==
    ASSUME scan \in Scans, Separate(scan.roots), NEW d \in Roots, NEW f \in Files
    PROVE  {r \in Roots : _is_within(scan.roots[d] \o <<"repo", f>>, scan.roots[r])} = {d}
  <1> DEFINE at == scan.roots[d] \o <<"repo", f>>
  <1>1. "repo" \in Names /\ f \in Names /\ STRING \subseteq Names
    BY Zenon DEF Names
  <1>2. scan.roots \in [Roots -> Seq(STRING)]
    BY MigrationAssumption DEF Scans
  <1>3. \A r \in Roots : scan.roots[r] \in Seq(Names)
    BY <1>1, <1>2, WiderSeq
  <1>4. <<"repo", f>> \in Seq(Names)
    BY <1>1
  <1>5. at \in Seq(Names) /\ IsPrefix(scan.roots[d], at)
    BY <1>3, <1>4, ConcatProperties, PrefixOfConcat
  <1>6. ASSUME NEW r \in Roots, IsPrefix(scan.roots[r], at), r # d PROVE FALSE
    <2>1. IsPrefix(scan.roots[r], scan.roots[d]) \/ IsPrefix(scan.roots[d], scan.roots[r])
      <3> HIDE DEF at
      <3> QED
        BY <1>3, <1>5, <1>6, PrefixesCompare
    <2> QED
      BY <1>6, <2>1 DEF Separate, _is_within
  <1> QED
    BY <1>5, <1>6 DEF _is_within

(* migration.py, MigrationDestinations and build_migration_plan: every     *)
(* file of an undisturbed checkout is planned once, and every copy is      *)
(* under the root of its class and no other, private ones in particular.   *)
THEOREM PlacedOnce == LineSpec => []EachInItsPlace
  <1>1. MigrationInv => EachInItsPlace
    <2> SUFFICES ASSUME MigrationInv, scan # NoScan, scan.pc = "planned" PROVE EachInItsPlace
      BY DEF EachInItsPlace
    <2>1. /\ scan \in Scans /\ repo \in Repos /\ ScanStands
          /\ ~scan.disturbed => AnswersStand
      BY DEF MigrationInv
    <2>2. Separate(scan.roots) /\ scan.left = {} /\ scan.copies = {PlannedCopy(f) : f \in Hashed}
      BY <2>1 DEF ScanStands
    <2>3. ASSUME NEW c \in scan.copies
          PROVE  /\ c.path \in scan.private => _is_within(c.at, scan.roots["private"])
                 /\ Cardinality({r \in Roots : _is_within(c.at, scan.roots[r])}) = 1
      <3>1. PICK f \in Hashed : c = PlannedCopy(f)
        BY <2>2
      <3>2. f \in Files
        BY <3>1 DEF Hashed
      <3> DEFINE d == DestinationOf(_classify(f))
      <3>3. c.path = f /\ c.at = scan.roots[d] \o <<"repo", f>> /\ d \in Roots
        BY <2>1, <3>1, <3>2, CopyTyped
      <3>4. f \in scan.private => d = "private"
        BY DEF _classify, DestinationOf
      <3> HIDE DEF d
      <3>5. {r \in Roots : _is_within(c.at, scan.roots[r])} = {d}
        BY <2>1, <2>2, <3>2, <3>3, OneRoot
      <3>6. _is_within(c.at, scan.roots[d])
        BY <3>3, <3>5
      <3>7. Cardinality({d}) = 1
        BY FS_Singleton
      <3> QED
        BY <3>3, <3>4, <3>5, <3>6, <3>7
    <2>4. ASSUME Undisturbed, NEW f \in Listed
          PROVE  /\ \E c \in scan.copies : c.path = f /\ c.content = repo.work[f]
                 /\ Cardinality({c \in scan.copies : c.path = f}) = 1
      <3>1. f \in Files /\ repo.work[f] # Absent
        BY <2>1 DEF Listed, Untracked, Repos
      <3>2. scan.hashes[f] = repo.work[f]
        BY <2>1, <2>2, <2>4, <3>1 DEF AnswersStand, Undisturbed
      <3>3. f \in Hashed
        BY <3>1, <3>2 DEF Hashed
      <3>4. \A g \in Hashed : PlannedCopy(g).path = g /\ PlannedCopy(g).content = scan.hashes[g]
        BY <2>1, CopyTyped DEF Hashed
      <3>5. PlannedCopy(f) \in scan.copies
        BY <2>2, <3>3
      <3>6. {c \in scan.copies : c.path = f} = {PlannedCopy(f)}
        BY <2>2, <3>3, <3>4, <3>5
      <3>7. Cardinality({PlannedCopy(f)}) = 1
        BY FS_Singleton
      <3> QED
        BY <3>2, <3>3, <3>4, <3>5, <3>6, <3>7
    <2> QED
      BY <2>3, <2>4 DEF EachInItsPlace
  <1> QED
    BY <1>1, MigrationInvariant, PTL

=============================================================================
