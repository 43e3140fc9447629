---------------------------- MODULE RepairCycle ----------------------------
(***************************************************************************)
(* One controlled repair: the class RepairCycle of repair_cycle.py with    *)
(* the installer it drives, the sink it reports to and the trust store it  *)
(* asks.  The steps are methods of one object and are called by a driver   *)
(* that may call any of them at any time, twice or out of order: a call in *)
(* the wrong state blocks the cycle.  Meanwhile the clock runs, an alias   *)
(* of the trust store may be revoked and the base may move.                *)
(*                                                                         *)
(* A candidate or an approval says, for incident, base and target, whether *)
(* it names this cycle's; `signer` is the key that made its signature, or  *)
(* None when it does not verify under any.  An installer or a sink that    *)
(* raises leaves the cycle as it is.                                       *)
(***************************************************************************)
EXTENDS Naturals, Sequences

CONSTANTS
    Ids,       \* candidate ids
    Patches,   \* patch_ref values
    Aliases,   \* signers and approvers
    None,
    MaxTime    \* bound: the clock

Times == 0..MaxTime

(* An Ed25519 public key, or a shared HMAC secret. *)
Keys == [owner : Aliases, public : BOOLEAN]

Candidates ==
    [id : Ids, patch : Patches, signer : Keys \cup {None},
     incident : BOOLEAN, base : BOOLEAN, target : BOOLEAN]

Approvals ==
    [id : Ids, patch : Patches \cup {None}, expires : Times \cup {None},
     by : Aliases, signer : Keys \cup {None}, base : BOOLEAN, target : BOOLEAN]

ASSUME CycleAssumption ==
    /\ None \notin Ids \cup Patches \cup Aliases \cup Keys \cup Candidates \cup Approvals
    /\ None \notin Nat
    /\ MaxTime \in Nat

VARIABLES
    state, candidate, candidate_signer,   \* attributes of the cycle
    allow_symmetric_keys, require_bound_approval,
    trusted,     \* aliases of the trust store that are not revoked
    baseMoved,   \* the base is no longer the one the cycle was opened for
    clock,
    installed,   \* what the isolated installer has in place, or None
    handed,      \* the ScenarioOutcomes given to the sink
    approval,    \* observer: the approval that was applied, or None
    green,       \* observer: the run results that were given and passed
    misstep      \* observer: a step was called in the wrong state

settings == <<allow_symmetric_keys, require_bound_approval>>
world == <<trusted, baseMoved, clock>>
observers == <<approval, green, misstep>>
vars == <<state, candidate, candidate_signer, settings, world, installed, handed, observers>>

Init ==
    /\ state = "not-started"
    /\ candidate = None
    /\ candidate_signer = None
    /\ allow_symmetric_keys \in BOOLEAN
    /\ require_bound_approval \in BOOLEAN
    /\ trusted = Aliases
    /\ baseMoved = FALSE
    /\ clock = 0
    /\ installed = None
    /\ handed = <<>>
    /\ approval = None
    /\ green = {}
    /\ misstep = FALSE

-----------------------------------------------------------------------------
(* Steps.  A gate that fails blocks the cycle. *)

Block == state' = "blocked"

Gate(passes, next) == state' = IF passes THEN next ELSE "blocked"

confirm_repro(reproduced, sameCase) ==
    /\ state = "not-started"
    /\ Gate(reproduced /\ sameCase, "repro-confirmed")
    /\ handed' = IF reproduced /\ sameCase THEN Append(handed, "before") ELSE handed
    /\ UNCHANGED <<candidate, candidate_signer, settings, world, installed, observers>>

raise_incident ==
    /\ state = "repro-confirmed"
    /\ state' = "incident-raised"
    /\ UNCHANGED <<candidate, candidate_signer, settings, world, installed, handed, observers>>

(* The key may be used, and the document is signed with it. *)
SignedBy(doc, key) ==
    /\ key.public \/ allow_symmetric_keys
    /\ doc.signer = key

CandidateOk(c, key) == SignedBy(c, key) /\ c.incident /\ c.base /\ c.target

receive_candidate(c, key, alias) ==
    /\ state = "incident-raised"
    /\ Gate(CandidateOk(c, key), "candidate-received")
    /\ candidate' = IF CandidateOk(c, key) THEN c ELSE candidate
    /\ candidate_signer' = IF CandidateOk(c, key) THEN alias ELSE candidate_signer
    /\ UNCHANGED <<settings, world, installed, handed, observers>>

(* TrustStore.key_for: the public key of a trusted alias that is not revoked. *)
key_for(alias) == [owner |-> alias, public |-> TRUE]

(* receive_candidate_trusted, with the alias given as `signer` or found by *)
(* TrustStore.identify; a revoked one, or none, blocks.                    *)
receive_candidate_trusted(c) ==
    \/ \E alias \in trusted : receive_candidate(c, key_for(alias), alias)
    \/ /\ state = "incident-raised"
       /\ trusted # Aliases \/ \A alias \in trusted : c.signer # key_for(alias)
       /\ Block
       /\ UNCHANGED <<candidate, candidate_signer, settings, world, installed, handed, observers>>

(* run_regression and run_build_test: completed with exit code 0. *)
RunStep(from, to, ok) ==
    /\ state = from
    /\ Gate(ok, to)
    /\ green' = IF ok THEN green \cup {to} ELSE green
    /\ UNCHANGED <<candidate, candidate_signer, settings, world, installed, handed,
                   approval, misstep>>

run_regression(ok) == RunStep("candidate-received", "regression-passed", ok)
run_build_test(ok) == RunStep("regression-passed", "build-test-passed", ok)

(* Mutant: an approval without a patch is taken for one that fits. *)
PatchOkUnbound(a) == a.patch \in {None, candidate.patch}

PatchOk(a) ==
    \/ a.patch = candidate.patch
    \/ a.patch = None /\ ~require_bound_approval

NotExpired(a) ==
    \/ a.expires # None /\ clock < a.expires
    \/ a.expires = None /\ ~require_bound_approval

ApprovalOk(a, key) ==
    /\ key # None
    /\ SignedBy(a, key)
    /\ a.id = candidate.id
    /\ PatchOk(a)
    /\ NotExpired(a)
    /\ a.base /\ a.target

(* The key is that of a registered approver, or None. *)
apply_approval(a, key) ==
    /\ state = "build-test-passed"
    /\ Gate(ApprovalOk(a, key), "approved")
    /\ approval' = IF ApprovalOk(a, key) THEN a ELSE approval
    /\ UNCHANGED <<candidate, candidate_signer, settings, world, installed, handed,
                   green, misstep>>

apply_approval_trusted(a) ==
    apply_approval(a, IF a.by \in trusted THEN key_for(a.by) ELSE None)

(* installer.install answers whether the candidate is in place. *)
install_isolated(ok) ==
    /\ state = "approved"
    /\ Gate(ok, "installed")
    /\ installed' = IF ok THEN candidate ELSE installed
    /\ UNCHANGED <<candidate, candidate_signer, settings, world, handed, approval, green, misstep>>

(* Mutant: the rollback is left out when the evidence is of another case. *)
RolledBackSameCaseOnly(observedMoved, sameCase, fixed) == observedMoved \/ (sameCase /\ ~fixed)

RolledBack(observedMoved, sameCase, fixed) == observedMoved \/ ~sameCase \/ ~fixed

(* Mutant: a run is reported before it is known to be about this case. *)
AfterReportedAlways(observedMoved, sameCase) == TRUE

AfterReported(observedMoved, sameCase) == ~observedMoved /\ sameCase

(* The outcome of the run after the fix: "not-reproduced" or "reproduced". *)
Outcome(fixed) == IF fixed THEN "after-fixed" ELSE "after-failed"

(* verify: the base that was observed, then the case, then the evidence. *)
verify(sameCase, fixed) ==
    /\ state = "installed"
    /\ installed' = IF RolledBack(baseMoved, sameCase, fixed) THEN None ELSE installed
    /\ handed' = IF AfterReported(baseMoved, sameCase) THEN Append(handed, Outcome(fixed)) ELSE handed
    /\ state' = IF baseMoved \/ ~sameCase THEN "blocked" ELSE IF fixed THEN "verified" ELSE "recovered"
    /\ UNCHANGED <<candidate, candidate_signer, settings, world, observers>>

StartOf ==
    [confirm_repro |-> "not-started", raise_incident |-> "repro-confirmed",
     receive_candidate |-> "incident-raised", run_regression |-> "candidate-received",
     run_build_test |-> "regression-passed", apply_approval |-> "build-test-passed",
     install_isolated |-> "approved", verify |-> "installed"]

(* A step called in another state than the one it starts from: _block. *)
OutOfOrder(step) ==
    /\ state # StartOf[step]
    /\ Block
    /\ misstep' = (misstep \/ state # "blocked")
    /\ UNCHANGED <<candidate, candidate_signer, settings, world, installed, handed,
                   approval, green>>

-----------------------------------------------------------------------------
(* The world around the cycle *)

RevokeAlias(alias) ==
    /\ alias \in trusted
    /\ trusted' = trusted \ {alias}
    /\ UNCHANGED <<state, candidate, candidate_signer, settings, baseMoved, clock, installed, handed, observers>>

MoveBase ==
    /\ ~baseMoved
    /\ baseMoved' = TRUE
    /\ UNCHANGED <<state, candidate, candidate_signer, settings, trusted, clock, installed, handed, observers>>

Tick ==
    /\ clock < MaxTime
    /\ clock' = clock + 1
    /\ UNCHANGED <<state, candidate, candidate_signer, settings, trusted, baseMoved, installed, handed, observers>>

Next ==
    \/ \E reproduced, sameCase \in BOOLEAN : confirm_repro(reproduced, sameCase)
    \/ raise_incident
    \/ \E c \in Candidates : \/ \E key \in Keys : receive_candidate(c, key, None)
                             \/ receive_candidate_trusted(c)
    \/ \E ok \in BOOLEAN : run_regression(ok) \/ run_build_test(ok) \/ install_isolated(ok)
    \/ \E a \in Approvals : \/ \E key \in Keys \cup {None} : apply_approval(a, key)
                            \/ apply_approval_trusted(a)
    \/ \E sameCase, fixed \in BOOLEAN : verify(sameCase, fixed)
    \/ \E step \in DOMAIN StartOf : OutOfOrder(step)
    \/ \E alias \in Aliases : RevokeAlias(alias)
    \/ MoveBase
    \/ Tick

Spec == Init /\ [][Next]_vars

-----------------------------------------------------------------------------
(* The states from which a candidate is held, and in which it is in place. *)
Held == {"candidate-received", "regression-passed", "build-test-passed", "approved", "installed",
         "verified", "recovered"}

(* The attributes are well typed; past incident-raised the cycle holds a   *)
(* candidate, so the `candidate is None` checks of apply_approval and      *)
(* install_isolated are never what stops it.                               *)
CycleTypeOK ==
    /\ state \in {"not-started", "repro-confirmed", "incident-raised", "blocked"} \cup Held
    /\ candidate \in Candidates \cup {None}
    /\ state \in Held => candidate # None
    /\ candidate_signer \in Aliases \cup {None}
    /\ trusted \subseteq Aliases
    /\ installed \in {None, candidate}
    /\ approval \in Approvals \cup {None}
    /\ green \subseteq {"regression-passed", "build-test-passed"}
    /\ clock \in Times

(* Whatever is in place has passed every gate: it is the candidate that    *)
(* was received, for this incident, base and target and signed by a known  *)
(* key, both runs were green for it, and the approval that was applied is  *)
(* signed and for this candidate, base and target, and by default for this *)
(* very patch.                                                             *)
InstalledPassedGates ==
    installed # None =>
        /\ installed = candidate
        /\ installed.signer # None /\ installed.incident /\ installed.base /\ installed.target
        /\ green = {"regression-passed", "build-test-passed"}
        /\ approval # None /\ approval.signer # None
        /\ approval.id = installed.id /\ approval.base /\ approval.target
        /\ require_bound_approval => approval.patch = installed.patch

(* A cycle that ended blocked or recovered has nothing in place: every     *)
(* failure after the install is rolled back, unless it is a step called in *)
(* the wrong state that ended it.                                          *)
CleanUnlessMisstep ==
    (state \in {"blocked", "recovered"} /\ ~misstep) => installed = None

(* The sink is told of the run before the fix once, when it is confirmed,  *)
(* and of the run after it once, when it has decided the cycle and with    *)
(* the outcome that decided it: the server never sees a run after a fix    *)
(* that was not tried on this case and base.  A verify that finds the base *)
(* moved, or evidence of another case, blocks without a report             *)
(* (repair_cycle.py:342-347), where docs/REPAIR_CYCLE.md:60 has every      *)
(* verify passed on "whatever its result" and repair_cycle.py:199 "each    *)
(* run of the repro case".                                                 *)
ReportsMatchRuns ==
    /\ state = "not-started" => handed = <<>>
    /\ state \in Held \ {"verified", "recovered"} => handed = <<"before">>
    /\ state = "verified" => handed = <<"before", "after-fixed">>
    /\ state = "recovered" => handed = <<"before", "after-failed">>
    /\ (state = "blocked" /\ ~misstep) => handed \in {<<>>, <<"before">>}

=============================================================================
