----------------------------- MODULE MCFixLoop -----------------------------
(* FixLoop with people as model values.                                    *)
EXTENDS FixLoop

CONSTANTS u1, u2

OneUser   == { u1 }
TwoUsers  == { u1, u2 }
NoClicks  == {}
AllClicks == Action
AllCards  == Kind \ { "devops_approval" }
CodeCard  == { "code_approval" }
=============================================================================
