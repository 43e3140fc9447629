------------------------- MODULE RepairCycleProofs -------------------------
(***************************************************************************)
(* What a repair cycle has in place has passed every gate, and nothing     *)
(* stays in place after a failure: proofs about RepairCycle for any        *)
(* candidates, approvals, aliases and times.                               *)
(***************************************************************************)
EXTENDS RepairCycle, TLAPS

-----------------------------------------------------------------------------
(* The inductive invariant *)

BeforeInstall ==
    {"not-started", "repro-confirmed", "incident-raised", "candidate-received",
     "regression-passed", "build-test-passed", "approved"}

AfterApproval == {"approved", "installed", "verified", "recovered"}

(* Whatever candidate is held was accepted by receive_candidate. *)
CandidateFits ==
    candidate # None =>
        candidate.signer # None /\ candidate.incident /\ candidate.base /\ candidate.target

(* The runs a state stands for were green. *)
RunsGreen ==
    /\ state \in {"regression-passed", "build-test-passed"} \cup AfterApproval =>
          "regression-passed" \in green
    /\ state \in {"build-test-passed"} \cup AfterApproval => "build-test-passed" \in green

(* The approval is signed and for the candidate that is held. *)
ApprovalFits ==
    /\ approval # None /\ approval.signer # None
    /\ approval.id = candidate.id /\ approval.base /\ approval.target
    /\ require_bound_approval => approval.patch = candidate.patch

(* Nothing is in place before the install; what is in place later has      *)
(* both runs and its approval behind it, also when the cycle is blocked.   *)
InPlaceFits ==
    /\ state \in BeforeInstall \cup {"recovered"} => installed = None
    /\ (state = "blocked" /\ ~misstep) => installed = None
    /\ installed # None =>
          green = {"regression-passed", "build-test-passed"} /\ ApprovalFits

CycleInv ==
    /\ CycleTypeOK
    /\ CandidateFits
    /\ RunsGreen
    /\ state \in AfterApproval => ApprovalFits
    /\ InPlaceFits

-----------------------------------------------------------------------------
(* Steps *)

(* A step that leaves what the invariant reads alone, but for the world.   *)
LEMMA WorldStep ==
    ASSUME CycleInv, trusted' \subseteq Aliases, clock' \in Times,
           UNCHANGED <<state, candidate, candidate_signer, settings, installed, handed, observers>>
    PROVE  CycleInv'
  BY DEF CycleInv, CycleTypeOK, CandidateFits, RunsGreen, ApprovalFits, InPlaceFits,
         settings, observers

(* A step that blocks the cycle and changes nothing else, unless it was    *)
(* called in the wrong state.                                              *)
LEMMA BlockStep ==
    ASSUME CycleInv, state' = "blocked",
           misstep' \/ state \in BeforeInstall \/ (state = "blocked" /\ ~misstep),
           UNCHANGED <<candidate, candidate_signer, settings, world, installed, approval, green>>
    PROVE  CycleInv'
  BY DEF CycleInv, CycleTypeOK, CandidateFits, RunsGreen, ApprovalFits, InPlaceFits,
         AfterApproval, BeforeInstall, Held, settings, world

(* confirm_repro hands on the run before the fix and keeps the invariant.  *)
LEMMA ConfirmStep ==
    ASSUME CycleInv, NEW reproduced \in BOOLEAN, NEW sameCase \in BOOLEAN,
           confirm_repro(reproduced, sameCase)
    PROVE  CycleInv'
  <1>1. CASE reproduced /\ sameCase
    <2>1. state' = "repro-confirmed"
      BY <1>1 DEF confirm_repro, Gate
    <2>2. QED
      BY <2>1 DEF confirm_repro, CycleInv, CycleTypeOK, CandidateFits, RunsGreen,
         ApprovalFits, InPlaceFits, AfterApproval, BeforeInstall, Held, settings, world, observers
  <1>2. CASE ~(reproduced /\ sameCase)
    BY <1>2, BlockStep DEF confirm_repro, Gate, BeforeInstall, observers
  <1>3. QED
    BY <1>1, <1>2

(* raise_incident only advances.                                           *)
LEMMA RaiseStep ==
    ASSUME CycleInv, raise_incident
    PROVE  CycleInv'
  BY DEF raise_incident, CycleInv, CycleTypeOK, CandidateFits, RunsGreen,
         ApprovalFits, InPlaceFits, AfterApproval, BeforeInstall, Held, settings, world, observers

(* receive_candidate keeps a candidate only if it passed its gate.         *)
LEMMA ReceiveStep ==
    ASSUME CycleInv, NEW c \in Candidates, NEW key \in Keys, NEW alias \in Aliases \cup {None},
           receive_candidate(c, key, alias)
    PROVE  CycleInv'
  <1>1. CASE CandidateOk(c, key)
    <2>1. /\ state = "incident-raised" /\ state' = "candidate-received"
          /\ candidate' = c /\ candidate_signer' = alias
          /\ UNCHANGED <<settings, world, installed, handed, observers>>
      BY <1>1 DEF receive_candidate, Gate
    <2>2. c # None /\ c.signer # None /\ c.incident /\ c.base /\ c.target
      BY <1>1, CycleAssumption DEF CandidateOk, SignedBy
    <2>3. CandidateFits'
      BY <2>1, <2>2 DEF CandidateFits
    <2>4. installed = None /\ installed' = None
      BY <2>1 DEF CycleInv, InPlaceFits, BeforeInstall
    <2>5. CycleTypeOK'
      BY <2>1, <2>2, <2>4 DEF CycleInv, CycleTypeOK, Held, world, observers
    <2>6. QED
      BY <2>1, <2>3, <2>4, <2>5 DEF CycleInv, RunsGreen, InPlaceFits, AfterApproval
  <1>2. CASE ~CandidateOk(c, key)
    BY <1>2, BlockStep DEF receive_candidate, Gate, BeforeInstall, observers
  <1>3. QED
    BY <1>1, <1>2

(* receive_candidate_trusted is receive_candidate under a key of the store, *)
(* or blocks.                                                              *)
LEMMA ReceiveTrustedStep ==
    ASSUME CycleInv, NEW c \in Candidates, receive_candidate_trusted(c)
    PROVE  CycleInv'
  <1>1. ASSUME NEW alias \in trusted, receive_candidate(c, key_for(alias), alias)
        PROVE  CycleInv'
    <2>1. alias \in Aliases
      BY DEF CycleInv, CycleTypeOK
    <2>2. key_for(alias) \in Keys
      BY <2>1 DEF key_for, Keys
    <2>3. QED
      BY <1>1, <2>1, <2>2, ReceiveStep
  <1>2. CASE /\ state = "incident-raised"
             /\ Block
             /\ UNCHANGED <<candidate, candidate_signer, settings, world, installed, handed, observers>>
    BY <1>2, BlockStep DEF Block, BeforeInstall, observers
  <1>3. QED
    BY <1>1, <1>2 DEF receive_candidate_trusted

(* A run result that is green advances, any other blocks.                  *)
LEMMA RunsStep ==
    ASSUME CycleInv, NEW ok \in BOOLEAN, run_regression(ok) \/ run_build_test(ok)
    PROVE  CycleInv'
  <1>1. CASE ok
    BY <1>1 DEF run_regression, run_build_test, RunStep, Gate, CycleInv, CycleTypeOK, CandidateFits,
       RunsGreen, ApprovalFits, InPlaceFits, AfterApproval, BeforeInstall, Held, settings, world
  <1>2. CASE ~ok
    BY <1>2, BlockStep DEF run_regression, run_build_test, RunStep, Gate, BeforeInstall
  <1>3. QED
    BY <1>1, <1>2

(* apply_approval advances only on an approval that fits the candidate.    *)
LEMMA ApprovalStep ==
    ASSUME CycleInv, NEW a \in Approvals, NEW key \in Keys \cup {None}, apply_approval(a, key)
    PROVE  CycleInv'
  <1>1. CASE ApprovalOk(a, key)
    <2>1. /\ state = "build-test-passed" /\ state' = "approved" /\ approval' = a
          /\ UNCHANGED <<candidate, candidate_signer, settings, world, installed, handed, green, misstep>>
      BY <1>1 DEF apply_approval, Gate
    <2>2. candidate # None /\ candidate \in Candidates
      BY <2>1 DEF CycleInv, CycleTypeOK, Held
    <2>3. a.patch = candidate.patch \/ ~require_bound_approval
      BY <1>1 DEF ApprovalOk, PatchOk
    <2>4. ApprovalFits'
      BY <1>1, <2>1, <2>3, CycleAssumption DEF ApprovalFits, ApprovalOk, SignedBy, settings
    <2>5. installed = None
      BY <2>1 DEF CycleInv, InPlaceFits, BeforeInstall
    <2>6. CycleTypeOK'
      BY <2>1, <2>2 DEF CycleInv, CycleTypeOK, Held, world
    <2>7. QED
      BY <2>1, <2>4, <2>5, <2>6 DEF CycleInv, CandidateFits, RunsGreen, InPlaceFits, AfterApproval
  <1>2. CASE ~ApprovalOk(a, key)
    BY <1>2, BlockStep DEF apply_approval, Gate, BeforeInstall
  <1>3. QED
    BY <1>1, <1>2

(* apply_approval_trusted is apply_approval under the approver's key.      *)
LEMMA ApprovalTrustedStep ==
    ASSUME CycleInv, NEW a \in Approvals, apply_approval_trusted(a)
    PROVE  CycleInv'
  <1> DEFINE key == IF a.by \in trusted THEN key_for(a.by) ELSE None
  <1>1. key \in Keys \cup {None}
    BY DEF CycleInv, CycleTypeOK, key_for, Keys
  <1>2. apply_approval(a, key)
    BY DEF apply_approval_trusted
  <1>3. QED
    BY <1>1, <1>2, ApprovalStep

(* install_isolated puts the candidate in place that was approved.         *)
LEMMA InstallStep ==
    ASSUME CycleInv, NEW ok \in BOOLEAN, install_isolated(ok)
    PROVE  CycleInv'
  <1>1. CASE ok
    <2>1. /\ state = "approved" /\ state' = "installed" /\ installed' = candidate
          /\ UNCHANGED <<candidate, candidate_signer, settings, world, handed, approval, green, misstep>>
      BY <1>1 DEF install_isolated, Gate
    <2>2. green = {"regression-passed", "build-test-passed"}
      BY <2>1 DEF CycleInv, CycleTypeOK, RunsGreen, AfterApproval
    <2>3. ApprovalFits'
      BY <2>1 DEF CycleInv, ApprovalFits, AfterApproval, settings
    <2>4. CycleTypeOK'
      BY <2>1 DEF CycleInv, CycleTypeOK, Held, world
    <2>5. QED
      BY <2>1, <2>2, <2>3, <2>4
         DEF CycleInv, CandidateFits, RunsGreen, InPlaceFits, AfterApproval, BeforeInstall
  <1>2. CASE ~ok
    BY <1>2, BlockStep DEF install_isolated, Gate, BeforeInstall
  <1>3. QED
    BY <1>1, <1>2

(* verify leaves the candidate in place only when it answers verified.     *)
LEMMA VerifyStep ==
    ASSUME CycleInv, NEW sameCase \in BOOLEAN, NEW fixed \in BOOLEAN, verify(sameCase, fixed)
    PROVE  CycleInv'
  <1>1. /\ state = "installed"
        /\ UNCHANGED <<candidate, candidate_signer, settings, world, observers>>
    BY DEF verify
  <1>2. \/ state' \in {"blocked", "recovered"} /\ installed' = None
        \/ state' = "verified" /\ installed' = installed
    BY DEF verify, RolledBack
  <1>3. CycleTypeOK'
    BY <1>1, <1>2 DEF CycleInv, CycleTypeOK, Held, world, observers
  <1>4. CandidateFits' /\ ApprovalFits' /\ RunsGreen'
    BY <1>1, <1>2 DEF CycleInv, CandidateFits, ApprovalFits, RunsGreen, AfterApproval, settings, observers
  <1>5. InPlaceFits'
    BY <1>1, <1>2, <1>4 DEF CycleInv, InPlaceFits, BeforeInstall, observers
  <1>6. QED
    BY <1>3, <1>4, <1>5 DEF CycleInv

(* A step out of order blocks the cycle whatever is in place.              *)
LEMMA OutOfOrderStep ==
    ASSUME CycleInv, NEW step \in DOMAIN StartOf, OutOfOrder(step)
    PROVE  CycleInv'
  <1>1. state' = "blocked" /\ misstep' = (misstep \/ state # "blocked")
    BY DEF OutOfOrder, Block
  <1>2. misstep' \/ (state = "blocked" /\ ~misstep)
    BY <1>1, Zenon
  <1>3. QED
    BY <1>1, <1>2, BlockStep DEF OutOfOrder

(* Every step of the cycle and of the world around it keeps the invariant. *)
LEMMA CycleInvStep ==
    ASSUME CycleInv, [Next]_vars
    PROVE  CycleInv'
  <1>1. CASE \E reproduced, sameCase \in BOOLEAN : confirm_repro(reproduced, sameCase)
    BY <1>1, ConfirmStep
  <1>2. CASE raise_incident
    BY <1>2, RaiseStep
  <1>3. CASE \E c \in Candidates, key \in Keys : receive_candidate(c, key, None)
    BY <1>3, ReceiveStep
  <1>4. CASE \E c \in Candidates : receive_candidate_trusted(c)
    BY <1>4, ReceiveTrustedStep
  <1>5. CASE \E ok \in BOOLEAN : run_regression(ok) \/ run_build_test(ok)
    BY <1>5, RunsStep
  <1>6. CASE \E ok \in BOOLEAN : install_isolated(ok)
    BY <1>6, InstallStep
  <1>7. CASE \E a \in Approvals, key \in Keys \cup {None} : apply_approval(a, key)
    BY <1>7, ApprovalStep
  <1>8. CASE \E a \in Approvals : apply_approval_trusted(a)
    BY <1>8, ApprovalTrustedStep
  <1>9. CASE \E sameCase, fixed \in BOOLEAN : verify(sameCase, fixed)
    BY <1>9, VerifyStep
  <1>10. CASE \E step \in DOMAIN StartOf : OutOfOrder(step)
    BY <1>10, OutOfOrderStep
  <1>11. CASE \E alias \in Aliases : RevokeAlias(alias)
    BY <1>11, WorldStep DEF RevokeAlias, CycleInv, CycleTypeOK
  <1>12. CASE MoveBase
    BY <1>12, WorldStep DEF MoveBase, CycleInv, CycleTypeOK
  <1>13. CASE Tick
    BY <1>13, WorldStep, CycleAssumption DEF Tick, CycleInv, CycleTypeOK, Times
  <1>14. CASE UNCHANGED vars
    BY <1>14, WorldStep DEF vars, world, CycleInv, CycleTypeOK
  <1>15. QED
    BY <1>1, <1>2, <1>3, <1>4, <1>5, <1>6, <1>7, <1>8, <1>9, <1>10, <1>11, <1>12, <1>13, <1>14
       DEF Next

(* The invariant holds of every cycle. *)
LEMMA CycleInvariant == Spec => []CycleInv
<1>1. Init => CycleInv
  BY CycleAssumption DEF Init, CycleInv, CycleTypeOK, CandidateFits, RunsGreen, InPlaceFits,
     AfterApproval, BeforeInstall, Held, Times
<1>2. CycleInv /\ [Next]_vars => CycleInv'
  BY CycleInvStep
<1>3. QED
  BY <1>1, <1>2, PTL DEF Spec

-----------------------------------------------------------------------------
(* The theorems *)

(* The attributes of the cycle are well typed, and past incident-raised it *)
(* holds a candidate (repair_cycle.py:304, 332 never decide).              *)
THEOREM CycleTypeCorrect == Spec => []CycleTypeOK
<1>1. CycleInv => CycleTypeOK
  BY DEF CycleInv
<1>2. QED
  BY <1>1, CycleInvariant, PTL

(* Whatever the installer has in place passed every gate of the cycle      *)
(* (repair_cycle.py:253-336), in every order of calls.                     *)
THEOREM OnlyApprovedInstalled == Spec => []InstalledPassedGates
<1>1. CycleInv => InstalledPassedGates
  BY DEF CycleInv, CycleTypeOK, CandidateFits, InPlaceFits, ApprovalFits, InstalledPassedGates
<1>2. QED
  BY <1>1, CycleInvariant, PTL

(* A failed cycle leaves nothing in place (repair_cycle.py:334-352) unless *)
(* a step called in the wrong state has ended it.                          *)
THEOREM FailureLeavesNothing == Spec => []CleanUnlessMisstep
<1>1. CycleInv => CleanUnlessMisstep
  BY DEF CycleInv, InPlaceFits, CleanUnlessMisstep
<1>2. QED
  BY <1>1, CycleInvariant, PTL

-----------------------------------------------------------------------------
(* What the sink was told *)

(* ReportsMatchRuns with the two states before a candidate is held.        *)
ReportsInv ==
    /\ ReportsMatchRuns
    /\ state \in {"repro-confirmed", "incident-raised"} => handed = <<"before">>

(* What a second element makes of a sequence of one. *)
LEMMA AppendSecond ==
    ASSUME NEW S, NEW x \in S, NEW y \in S
    PROVE  Append(<<x>>, y) = <<x, y>>
  <1>1. ASSUME NEW s \in Seq(S), NEW u \in Seq(S), Len(s) = 2, Len(u) = 2, s[1] = u[1], s[2] = u[2]
        PROVE  s = u
    BY <1>1
  <1>2. <<x, y>> \in Seq(S) /\ Len(<<x, y>>) = 2 /\ <<x, y>>[1] = x /\ <<x, y>>[2] = y
    OBVIOUS
  <1>3. Append(<<x>>, y) \in Seq(S) /\ Len(Append(<<x>>, y)) = 2 /\ Append(<<x>>, y)[1] = x
    OBVIOUS
  <1>4. Append(<<x>>, y)[2] = y
    OBVIOUS
  <1>5. QED
    BY <1>1, <1>2, <1>3, <1>4

(* Only confirm_repro and verify hand anything on. *)
LEMMA ReportsStep ==
    ASSUME ReportsInv, [Next]_vars
    PROVE  ReportsInv'
  <1>0. /\ Append(<<>>, "before") = <<"before">>
        /\ Append(<<"before">>, "after-fixed") = <<"before", "after-fixed">>
        /\ Append(<<"before">>, "after-failed") = <<"before", "after-failed">>
    <2> DEFINE Told == {"before", "after-fixed", "after-failed"}
    <2>1. Append(<<>>, "before") = <<"before">>
      OBVIOUS
    <2>2. "before" \in Told /\ "after-fixed" \in Told /\ "after-failed" \in Told
      OBVIOUS
    <2> HIDE DEF Told
    <2>3. QED
      BY <2>1, <2>2, AppendSecond
  <1>1. ASSUME NEW reproduced \in BOOLEAN, NEW sameCase \in BOOLEAN, confirm_repro(reproduced, sameCase)
        PROVE  ReportsInv'
    <2>1. state = "not-started" /\ handed = <<>>
      BY <1>1 DEF confirm_repro, ReportsInv, ReportsMatchRuns
    <2>2. \/ state' = "repro-confirmed" /\ handed' = <<"before">>
          \/ state' = "blocked" /\ handed' = <<>>
      BY <1>0, <1>1, <2>1 DEF confirm_repro, Gate
    <2>3. QED
      BY <1>0, <2>2 DEF ReportsInv, ReportsMatchRuns, Held
  <1>2. ASSUME NEW sameCase \in BOOLEAN, NEW fixed \in BOOLEAN, verify(sameCase, fixed)
        PROVE  ReportsInv'
    <2>1. state = "installed" /\ handed = <<"before">>
      BY <1>2 DEF verify, ReportsInv, ReportsMatchRuns, Held
    <2>2. \/ state' = "blocked" /\ handed' = <<"before">>
          \/ state' = "verified" /\ handed' = <<"before", "after-fixed">>
          \/ state' = "recovered" /\ handed' = <<"before", "after-failed">>
      BY <1>0, <1>2, <2>1 DEF verify, AfterReported, Outcome
    <2>3. QED
      BY <1>0, <2>2 DEF ReportsInv, ReportsMatchRuns, Held
  <1>3. CASE \E step \in DOMAIN StartOf : OutOfOrder(step)
    <2>1. PICK step \in DOMAIN StartOf : OutOfOrder(step)
      BY <1>3
    <2>2. state' = "blocked" /\ handed' = handed /\ misstep' = (misstep \/ state # "blocked")
      BY <2>1 DEF OutOfOrder, Block
    <2>3. misstep' \/ (state = "blocked" /\ ~misstep)
      BY <2>2, Zenon
    <2>4. QED
      BY <1>0, <2>2, <2>3 DEF ReportsInv, ReportsMatchRuns, Held
  <1>4. ASSUME handed' = handed, misstep' = misstep, state' = state
        PROVE  ReportsInv'
    BY <1>4 DEF ReportsInv, ReportsMatchRuns
  <1>5. ASSUME handed' = handed,
               state \in {"repro-confirmed", "incident-raised", "candidate-received",
                          "regression-passed", "build-test-passed", "approved"},
               state' \in {"blocked", "incident-raised", "candidate-received",
                           "regression-passed", "build-test-passed", "approved", "installed"}
        PROVE  ReportsInv'
    <2>1. handed = <<"before">>
      BY <1>5 DEF ReportsInv, ReportsMatchRuns, Held
    <2>2. QED
      BY <1>0, <1>5, <2>1 DEF ReportsInv, ReportsMatchRuns, Held
  <1>6. CASE raise_incident
    BY <1>5, <1>6 DEF raise_incident
  <1>7. ASSUME NEW c \in Candidates,
               \/ \E key \in Keys : receive_candidate(c, key, None)
               \/ receive_candidate_trusted(c)
        PROVE  ReportsInv'
    BY <1>5, <1>7 DEF receive_candidate, receive_candidate_trusted, Gate, Block
  <1>8. ASSUME NEW ok \in BOOLEAN, run_regression(ok) \/ run_build_test(ok) \/ install_isolated(ok)
        PROVE  ReportsInv'
    BY <1>5, <1>8 DEF run_regression, run_build_test, RunStep, install_isolated, Gate
  <1>9. ASSUME NEW a \in Approvals,
               \/ \E key \in Keys \cup {None} : apply_approval(a, key)
               \/ apply_approval_trusted(a)
        PROVE  ReportsInv'
    BY <1>5, <1>9 DEF apply_approval, apply_approval_trusted, Gate
  <1>10. CASE (\E alias \in Aliases : RevokeAlias(alias)) \/ MoveBase \/ Tick \/ UNCHANGED vars
    BY <1>4, <1>10 DEF RevokeAlias, MoveBase, Tick, vars, observers
  <1>11. QED
    BY <1>1, <1>2, <1>3, <1>6, <1>7, <1>8, <1>9, <1>10 DEF Next

(* The sink hears of the run before the fix and of the run that decided,   *)
(* each once, in this order and with the outcome that decided              *)
(* (repair_cycle.py:226-246, 338-354).                                     *)
THEOREM ReportsAreRuns == Spec => []ReportsMatchRuns
<1>1. Init => ReportsInv
  BY DEF Init, ReportsInv, ReportsMatchRuns, Held
<1>2. ReportsInv /\ [Next]_vars => ReportsInv'
  BY ReportsStep
<1>3. ReportsInv => ReportsMatchRuns
  BY DEF ReportsInv
<1>4. QED
  BY <1>1, <1>2, <1>3, PTL DEF Spec

=============================================================================
