-------------------------- MODULE MCDecisionStore --------------------------
(* DecisionStore with cards and users as model values.                     *)
EXTENDS DecisionStore, TLC

CONSTANTS k1, k2, s1, u1, u2

OneCard   == { k1 }
TwoCards  == { k1, k2 }
AllCards  == { k1, k2, s1 }
StopCards == { s1 }
None      == {}
OneUser   == { u1 }
TwoUsers  == { u1, u2 }
Symmetry  == Permutations(TwoUsers)
=============================================================================
