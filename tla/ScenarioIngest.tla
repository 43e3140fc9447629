--------------------------- MODULE ScenarioIngest ---------------------------
(***************************************************************************)
(* `repair report-outcome` (scenario_ingest.py, cli.py): one outcome goes  *)
(* to HYDRA-UMC-SERVER in one request, after a login when no token is on   *)
(* file.  Requests and answers may be lost and the operator may run the    *)
(* command again; the server is external and keeps what it answers 201 to. *)
(***************************************************************************)
EXTENDS Naturals

CONSTANT MaxReports    \* times the command is run

ASSUME IngestAssumption == MaxReports \in Nat

VARIABLES
    settings,    \* the scenario-ingest document
    report,      \* [pc, result] of the command
    reports,     \* commands run so far
    kept,        \* observer: the runs of the command whose outcome the server has
    sent         \* observer: lines credentials went over

ingestVars == <<settings, report, reports, kept, sent>>

NoReport == [pc |-> "idle", result |-> "none"]

IngestDocuments ==
    [enabled : BOOLEAN, line : {"https", "loopback", "plain-http", "other"},
     allow_plain_http : BOOLEAN, token : {"none", "file", "unreadable-file"}, login : BOOLEAN]

NoSettings == [enabled |-> FALSE]

IngestInit ==
    settings = NoSettings /\ report = NoReport /\ reports = 0 /\ kept = {} /\ sent = {}

(* load_ingest_settings: off, refused, or settings with some credential. *)
Usable(s) == s.enabled /\ (s.token # "none" \/ s.login)

(* _url_for: the addresses a credential may be sent to. *)
MayCarry(s) ==
    \/ s.line \in {"https", "loopback"}
    \/ s.line = "plain-http" /\ s.allow_plain_http

Ends(result) == report' = [pc |-> "done", result |-> result]

(* outcome_problem and _url_for, before any request. *)
Report ==
    /\ report.pc \in {"idle", "done"} /\ reports < MaxReports
    /\ reports' = reports + 1
    /\ settings' \in IF settings = NoSettings THEN IngestDocuments ELSE {settings}
    /\ \/ Ends("refused")    \* the outcome is no ScenarioOutcome 1.0
       \/ ~Usable(settings') /\ Ends("refused")
       \/ Usable(settings') /\ ~MayCarry(settings') /\ Ends("refused")
       \/ /\ Usable(settings') /\ MayCarry(settings')
          /\ report' = [pc |-> IF settings'.token = "file" THEN "post" ELSE "login", result |-> "none"]
    /\ UNCHANGED <<kept, sent>>

(* _login, when no token could be read: no name or password, no answer, a *)
(* refusal, an answer http.client cannot read, or a token.                *)
Login ==
    /\ report.pc = "login"
    /\ \/ Ends("refused") /\ UNCHANGED sent
       \/ /\ settings.login
          /\ sent' = sent \cup {settings.line}
          /\ Ends("refused") \/ Ends("raised") \/ report' = [report EXCEPT !.pc = "post"]
    /\ UNCHANGED <<settings, reports, kept>>

(* The request reaches the server or not; the server keeps it or not. *)
Post ==
    /\ report.pc = "post"
    /\ sent' = sent \cup {settings.line}
    /\ \/ kept' = kept \cup {reports} /\ report' = [report EXCEPT !.pc = "201"]
       \/ UNCHANGED kept /\ report' = [report EXCEPT !.pc = "another-answer"]
       \/ UNCHANGED kept /\ report' = [report EXCEPT !.pc = "no-answer"]
    /\ UNCHANGED <<settings, reports>>

(* Mutant: any answer of the server is a success. *)
KeptIfAnswered(answer) == answer # "no-answer"

KeptBy(answer) == answer = "201"

(* _send and the end of post_scenario_outcome: an answer may be lost, and  *)
(* http.client may raise over one it cannot read (HTTPException is not     *)
(* among what _send catches), which ends the command with no result.       *)
Receive ==
    /\ report.pc \in {"201", "another-answer", "no-answer"}
    /\ \/ \E answer \in {report.pc, "no-answer"} : Ends(IF KeptBy(answer) THEN "kept" ELSE "failed")
       \/ Ends("raised")
    /\ UNCHANGED <<settings, reports, kept, sent>>

IngestStep == Report \/ Login \/ Post \/ Receive

-----------------------------------------------------------------------------
(* Properties *)

(* The command says "kept" only when the server has the outcome of this    *)
(* very run, whatever earlier runs did and whichever answers were lost,    *)
(* and a credential only went over a line the document allows.             *)
KeptMeansKept ==
    /\ report.result = "kept" => reports \in kept
    /\ \A line \in sent : line = "plain-http" => settings.allow_plain_http
=============================================================================
