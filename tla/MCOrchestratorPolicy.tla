------------------------ MODULE MCOrchestratorPolicy ------------------------
(* OrchestratorPolicy on the stock manifest.                               *)
EXTENDS OrchestratorPolicy, SpinePhases, TLC

CONSTANTS c1, c2, user

OneCaller  == { c1 }
TwoCallers == { c1, c2 }
Users      == { user }
Symmetry   == Permutations(TwoCallers)

\* phases.yaml lists no required_approvers and no min_approvals.
NobodyRequired == [ p \in StockPhases |-> {} ]
OneApproval    == [ p \in StockPhases |-> 1 ]

VerifyStart   == { "verify_in_progress" }
BuildStart    == { "build_in_progress" }
CompleteStart == { "build_complete" }
FewRequests   == { "verify_in_progress", "verify_approved_with_warnings" }
LoopRequests  == { "build_complete", "verify_in_progress",
                   "verify_approved_with_warnings" }
=============================================================================
