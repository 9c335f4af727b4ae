----------------------------- MODULE Lifecycle -----------------------------
(***************************************************************************)
(* What the pipeline manifest promises of a project (header of             *)
(* orchestrator/state/phases.yaml): it moves only along an edge of the     *)
(* manifest, and it advances into a gated phase only after an approval for *)
(* that phase has been recorded.                                           *)
(***************************************************************************)
EXTENDS Sequences

CONSTANTS Phase, NextOf, RollbackTo, Gated, Starts

VARIABLES
    phase,      \* the phase the project is in
    granted     \* the phases for which an approval has been recorded

vars == << phase, granted >>

Edge(list) == { list[i] : i \in DOMAIN list }

Init ==
    /\ phase \in Starts
    /\ granted = {}

Grant(p) ==
    /\ granted' = granted \cup {p}
    /\ UNCHANGED phase

Advance(t) ==
    /\ t \in Edge(NextOf[phase])
    /\ t \in Gated => t \in granted
    /\ phase' = t
    /\ UNCHANGED granted

Rollback(t) ==
    /\ t \in Edge(RollbackTo[phase])
    /\ phase' = t
    /\ UNCHANGED granted

Next == \E p \in Phase : Grant(p) \/ Advance(p) \/ Rollback(p)

Spec == Init /\ [][Next]_vars
=============================================================================
