---------------------------- MODULE ProviderStep ----------------------------
(***************************************************************************)
(* run_provider_step of ai_provider.py: calls to an AI provider, one after *)
(* another, against one budget.  The usage of a step goes into the next    *)
(* one.  A provider answers with a text and what it cost, fails, or does   *)
(* not answer in time: its thread is then abandoned and what it brings     *)
(* later goes nowhere.                                                     *)
(***************************************************************************)
EXTENDS Integers

CONSTANTS
    MaxCalls, MaxTokens, MaxCost,    \* ProviderBudget
    Costs,                           \* what one answer may report
    MaxAsked                         \* bound on the calls of a behaviour

ASSUME ProviderAssumption ==
    /\ MaxCalls \in Nat \ {0} /\ MaxTokens \in Nat \ {0} /\ MaxCost \in Nat \ {0}
    /\ Costs \subseteq Int
    /\ MaxAsked \in Nat

VARIABLES
    usage,      \* ProviderUsage
    outcome,    \* outcome of the last step
    waiting,    \* a call is under way
    asked,      \* observer: calls that reached the provider
    used        \* observer: calls, tokens and cost of the answers that were used

providerVars == <<usage, outcome, waiting, asked, used>>

NoUsage == [calls |-> 0, tokens |-> 0, cost |-> 0]

ProviderInit ==
    /\ usage = NoUsage /\ outcome = "none" /\ waiting = FALSE
    /\ asked = 0 /\ used = NoUsage

plus(u, tokens, cost) ==
    [calls |-> u.calls + 1, tokens |-> u.tokens + tokens, cost |-> u.cost + cost]

_budget_headroom ==
    usage.calls < MaxCalls /\ usage.tokens < MaxTokens /\ usage.cost < MaxCost

(* Mutant: every call may use the whole budget. *)
RemainingOfAll(max, spent) == max

_remaining(max, spent) == IF max >= spent THEN max - spent ELSE 0

(* The step before the call: the budget may already be gone. *)
Ask ==
    /\ ~waiting /\ asked < MaxAsked
    /\ IF _budget_headroom
       THEN waiting' = TRUE /\ asked' = asked + 1 /\ UNCHANGED outcome
       ELSE outcome' = "budget-exhausted" /\ UNCHANGED <<waiting, asked>>
    /\ UNCHANGED <<usage, used>>

(* _call_with_timeout gives up, or the provider raises: no usage is kept. *)
Fails ==
    /\ waiting
    /\ waiting' = FALSE
    /\ outcome' \in {"timed-out", "budget-exhausted", "rejected"}
    /\ UNCHANGED <<usage, asked, used>>

_usage_problem(tokens, cost) == tokens < 0 \/ cost < 0

Fits(tokens, cost) ==
    tokens <= _remaining(MaxTokens, usage.tokens) /\ cost <= _remaining(MaxCost, usage.cost)

(* An answer: unusable, over what was left, or a suggestion. *)
Answers(tokens, cost) ==
    /\ waiting
    /\ waiting' = FALSE
    /\ IF _usage_problem(tokens, cost)
       THEN outcome' = "rejected" /\ UNCHANGED <<usage, used>>
       ELSE /\ usage' = plus(usage, tokens, cost)
            /\ IF Fits(tokens, cost)
               THEN outcome' = "suggested" /\ used' = plus(used, tokens, cost)
               ELSE outcome' = "budget-exhausted" /\ UNCHANGED used
    /\ UNCHANGED asked

ProviderNext ==
    \/ Ask
    \/ Fails
    \/ \E tokens, cost \in Costs : Answers(tokens, cost)

ProviderSpec == ProviderInit /\ [][ProviderNext]_providerVars

-----------------------------------------------------------------------------
(* Properties *)

(* The answers that were used stay within the budget, all of them          *)
(* together: an answer that would pass it is paid for and thrown away.     *)
BudgetHonoured ==
    used.calls <= MaxCalls /\ used.tokens <= MaxTokens /\ used.cost <= MaxCost
=============================================================================
