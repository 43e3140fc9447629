----------------------------- MODULE TaskLedger -----------------------------
(***************************************************************************)
(* What the durable queue promises to whoever submits tasks, with leases,  *)
(* workers, time and the journal left out: a task id names one job for     *)
(* ever, the job is tried a bounded number of times, and it is closed at   *)
(* most once, with one verdict that never changes.                         *)
(***************************************************************************)
EXTENDS Naturals

CONSTANTS Tasks, Recipes, Bases, None, MaxAttempts

VARIABLE jobs

NoJob == [phase |-> "absent", recipe |-> None, base |-> None, tries |-> 0]

Verdicts == {"succeeded", "failed", "cancelled", "dead-letter"}

Init == jobs = [t \in Tasks |-> NoJob]

Open(t) == jobs[t].phase = "open"

(* No attempt is left for the job; MaxAttempts = 0 means they never run out. *)
Exhausted(t) == MaxAttempts > 0 /\ jobs[t].tries >= MaxAttempts

Submit(t, r, b) ==
    /\ jobs[t].phase = "absent"
    /\ jobs' = [jobs EXCEPT ![t] = [phase |-> "open", recipe |-> r, base |-> b, tries |-> 0]]

Try(t) ==
    /\ Open(t) /\ ~Exhausted(t)
    /\ jobs' = [jobs EXCEPT ![t] = [jobs[t] EXCEPT !.tries = jobs[t].tries + 1]]

(* A verdict on a result needs an attempt; a cancellation does not. *)
Close(t, verdict) ==
    /\ Open(t)
    /\ verdict = "cancelled" \/ jobs[t].tries > 0
    /\ jobs' = [jobs EXCEPT ![t] = [jobs[t] EXCEPT !.phase = verdict]]

(* Several exhausted jobs may be given up at once. *)
GiveUp(S) ==
    /\ \A t \in S : Open(t) /\ Exhausted(t)
    /\ jobs' = [t \in Tasks |->
                  IF t \in S THEN [jobs[t] EXCEPT !.phase = "dead-letter"] ELSE jobs[t]]

Next ==
    \/ \E t \in Tasks, r \in Recipes, b \in Bases : Submit(t, r, b)
    \/ \E t \in Tasks : Try(t)
    \/ \E t \in Tasks, verdict \in {"succeeded", "failed", "cancelled"} : Close(t, verdict)
    \/ \E S \in SUBSET Tasks : GiveUp(S)

Spec == Init /\ [][Next]_jobs
=============================================================================
