------------------------- MODULE MCTransitionEngine -------------------------
(* TransitionEngine on the stock manifest, with callers as model values.   *)
EXTENDS TransitionEngine, SpinePhases, TLC

CONSTANTS c1, c2, user

OneCaller  == { c1 }
TwoCallers == { c1, c2 }
Users      == { user }
Symmetry   == Permutations(TwoCallers)

\* The whole pipeline, for one caller.
AllStarts == StockPhases

\* Where forward, reverse and gated edges meet, for two callers.
PlanStart    == { "plan_in_progress" }
PlanRequests == { "intake", "plan_in_progress", "plan_approved",
                  "build_in_progress" }
=============================================================================
