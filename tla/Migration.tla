------------------------------ MODULE Migration ------------------------------
(***************************************************************************)
(* `migrate plan` (migration.py, cli.py): a read-only scan of one checkout *)
(* while its developer goes on working.  The scan asks git five questions, *)
(* one process each, and then opens the files one by one; a plan sends     *)
(* every file to one of four roots by its class.                           *)
(*                                                                         *)
(* A path is a member of Files, a content a number (0: the file is not     *)
(* there), a root a sequence of directory names.  `origin` is the upstream *)
(* branch, `head` the last commit, `work` the working tree.                *)
(***************************************************************************)
EXTENDS Integers, FiniteSets, SequencesExt

CONSTANTS
    Files,          \* paths of the checkout
    Contents,       \* contents in use, besides 0
    Private,        \* paths the default PrivacyPolicy covers
    Ignored,        \* paths .gitignore covers
    Policies,       \* sets of private paths a destinations document may state
    Destinations,   \* documents: functions from Roots to paths
    MaxMoves        \* steps of the developer during the scan

Roots == {"reference", "local-changes", "private", "work-in-progress"}
Absent == 0
NoPolicy == {"not-stated"}    \* the document states no privacy policy

ASSUME MigrationAssumption ==
    /\ Contents \subseteq Nat \ {Absent}
    /\ Private \subseteq Files /\ Ignored \subseteq Files
    /\ Policies \subseteq SUBSET Files
    /\ Destinations \subseteq [Roots -> Seq(STRING)]
    /\ MaxMoves \in Nat

VARIABLES
    repo,    \* the checkout, or NoRepo before the command starts
    scan     \* what build_repo_inventory and build_migration_plan have so far

migrationVars == <<repo, scan>>

NoRepo == [git |-> FALSE]
NoScan == [pc |-> "idle"]

MigrationInit == repo = NoRepo /\ scan = NoScan

-----------------------------------------------------------------------------
(* MigrationDestinations and PrivacyPolicy *)

_is_within(child, parent) == IsPrefix(parent, child)

(* Mutant: only equal roots are refused. *)
SeparateIfDifferent(roots) == \A a, b \in Roots : a # b => roots[a] # roots[b]

(* MigrationDestinations.from_dict: no two roots equal or nested. *)
Separate(roots) ==
    \A a, b \in Roots : a # b => ~_is_within(roots[a], roots[b])

(* PrivacyPolicy.from_dict: without lists in the document the default, and *)
(* a list that is stated takes the place of the default one.               *)
PrivacyPolicy(stated) == IF stated = NoPolicy THEN Private ELSE stated

(* The command starts on a checkout that is in any state git allows. *)
StartMigrate ==
    /\ scan = NoScan
    /\ \E upstream, ahead, git \in BOOLEAN, tracked \in SUBSET Files,
          work, head, origin \in [Files -> Contents \cup {Absent}] :
         /\ ahead => upstream
         /\ \A f \in Files : origin[f] \in {Absent, Min(Contents)}
         /\ repo' = [git |-> git, upstream |-> upstream, ahead |-> ahead, tracked |-> tracked,
                     work |-> work, head |-> head, origin |-> origin]
    /\ \E roots \in Destinations, stated \in Policies \cup {NoPolicy} :
         scan' = [pc |-> IF Separate(roots) /\ repo'.git THEN "modified" ELSE "refused",
                  roots |-> roots, private |-> PrivacyPolicy(stated),
                  modified |-> {}, untracked |-> {}, bundle |-> FALSE,
                  left |-> {}, hashes |-> [f \in Files |-> Absent], copies |-> {},
                  moves |-> 0, disturbed |-> FALSE]

-----------------------------------------------------------------------------
(* SystemSourceInspector: one git process per question.  A git that fails  *)
(* has said nothing, which the scan reads as an empty answer.              *)

Scanning == scan.pc \in {"modified", "untracked", "commits", "unpushed", "list", "hash"}

(* Tracked files that differ from the last commit, deletions included. *)
ModifiedTracked ==
    {f \in Files : IF f \in repo.tracked THEN repo.work[f] # repo.head[f] ELSE repo.head[f] # Absent}

Untracked == {f \in Files \ (repo.tracked \cup Ignored) : repo.work[f] # Absent}

(* iter_files: tracked files that are there, and untracked ones. *)
Listed == {f \in repo.tracked : repo.work[f] # Absent} \cup Untracked

UnpushedFiles == IF repo.upstream THEN {f \in Files : repo.head[f] # repo.origin[f]} ELSE {}

Asks(question, next, answer) ==
    /\ scan.pc = question
    /\ \/ scan' = answer
       \/ scan' = [scan EXCEPT !.pc = next, !.disturbed = TRUE]
    /\ UNCHANGED repo

AskModified ==
    Asks("modified", "untracked",
         [scan EXCEPT !.pc = "untracked", !.modified = ModifiedTracked])

AskUntracked ==
    Asks("untracked", "commits", [scan EXCEPT !.pc = "commits", !.untracked = Untracked])

AskCommits ==
    Asks("commits", "unpushed",
         [scan EXCEPT !.pc = "unpushed", !.bundle = repo.upstream /\ repo.ahead])

(* Mutant: a commit that was never pushed counts as published. *)
AskUnpushedNot == Asks("unpushed", "list", [scan EXCEPT !.pc = "list"])

(* Files of commits that were never pushed count as modified. *)
AskUnpushed ==
    Asks("unpushed", "list", [scan EXCEPT !.pc = "list", !.modified = @ \cup UnpushedFiles])

AskFiles == Asks("list", "hash", [scan EXCEPT !.pc = "hash", !.left = Listed])

(* file_size and file_sha256; a file that went away ends the command. *)
Hash(f) ==
    /\ scan.pc = "hash" /\ f \in scan.left
    /\ scan' = IF repo.work[f] = Absent THEN [scan EXCEPT !.pc = "failed"]
               ELSE [scan EXCEPT !.hashes[f] = repo.work[f], !.left = @ \ {f}]
    /\ UNCHANGED repo

-----------------------------------------------------------------------------
(* Classes and plan *)

_classify(f) ==
    IF f \in scan.private THEN "private"
    ELSE IF f \in scan.untracked THEN "untracked"
    ELSE IF f \in scan.modified THEN "tracked-modified"
    ELSE "tracked-clean"

DestinationOf(class) ==
    CASE class = "tracked-clean" -> "reference"
      [] class = "private" -> "private"
      [] OTHER -> "local-changes"

(* <root>/<repository>/<path> *)
PlannedCopy(f) ==
    LET class == _classify(f)
    IN  [path |-> f, content |-> scan.hashes[f], class |-> class,
         at |-> scan.roots[DestinationOf(class)] \o <<"repo", f>>]

Shareable(copy) ==
    \E r \in {"reference", "work-in-progress"} : _is_within(copy.at, scan.roots[r])

(* build_migration_plan, over the files that were hashed. *)
Plan ==
    /\ scan.pc = "hash" /\ scan.left = {}
    /\ LET copies == {PlannedCopy(f) : f \in {g \in Files : scan.hashes[g] # Absent}}
       IN  scan' = IF \E c \in copies : c.class = "private" /\ Shareable(c)
                   THEN [scan EXCEPT !.pc = "refused"]
                   ELSE [scan EXCEPT !.pc = "planned", !.copies = copies]
    /\ UNCHANGED repo

-----------------------------------------------------------------------------
(* The developer: edits, additions, commits and pushes during the scan. *)

Moves(disturbs) ==
    /\ Scanning /\ scan.moves < MaxMoves
    /\ scan' = [scan EXCEPT !.moves = @ + 1, !.disturbed = @ \/ disturbs]

Edit(f) ==
    /\ Moves(TRUE)
    /\ \E c \in (Contents \cup {Absent}) \ {repo.work[f]} : repo' = [repo EXCEPT !.work[f] = c]

AddFile(f) ==
    /\ Moves(TRUE) /\ f \notin repo.tracked
    /\ repo' = [repo EXCEPT !.tracked = @ \cup {f}]

Commit ==
    /\ Moves(FALSE)
    /\ repo' = [repo EXCEPT !.head = [f \in Files |-> IF f \in repo.tracked THEN repo.work[f] ELSE Absent],
                            !.ahead = repo.upstream]

Push ==
    /\ Moves(FALSE)
    /\ repo' = [repo EXCEPT !.origin = repo.head, !.upstream = TRUE, !.ahead = FALSE]

MigrationStep ==
    \/ AskModified \/ AskUntracked \/ AskCommits \/ AskUnpushed \/ AskFiles
    \/ \E f \in Files : Hash(f) \/ Edit(f) \/ AddFile(f)
    \/ Plan \/ Commit \/ Push

-----------------------------------------------------------------------------
(* Properties *)

Undisturbed == scan.pc = "planned" /\ ~scan.disturbed

(* A file the plan calls published is on the upstream branch with the very *)
(* content that was hashed, commits and pushes during the scan included,   *)
(* as long as no file or index entry changed under the scan, git answered  *)
(* every question and the branch has an upstream.                          *)
ReferenceIsPublished ==
    scan # NoScan /\ Undisturbed /\ repo.upstream
        => \A c \in scan.copies : c.class = "tracked-clean" => c.content = repo.origin[c.path]

(* Every file of an undisturbed checkout is in the plan, once, with its    *)
(* content, under its own root and under no other: private files in        *)
(* particular land nowhere near the reference, the local changes or the    *)
(* work in progress.  Private is what the policy in effect calls so: a     *)
(* document's own lists take the place of the default ones, so it may also *)
(* narrow them, which migration.py:45-47 rules out.                        *)
EachInItsPlace ==
    scan # NoScan /\ scan.pc = "planned" =>
        /\ \A c \in scan.copies :
             /\ c.path \in scan.private => _is_within(c.at, scan.roots["private"])
             /\ Cardinality({r \in Roots : _is_within(c.at, scan.roots[r])}) = 1
        /\ Undisturbed => \A f \in Listed :
             /\ \E c \in scan.copies : c.path = f /\ c.content = repo.work[f]
             /\ Cardinality({c \in scan.copies : c.path = f}) = 1
=============================================================================
