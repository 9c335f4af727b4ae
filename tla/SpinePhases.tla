---------------------------- MODULE SpinePhases ----------------------------
(***************************************************************************)
(* The stock pipeline manifest, orchestrator/state/phases.yaml, as data:   *)
(* the phase identifiers, the forward edges (next), the reverse edges      *)
(* (rollback_to) and the phases that carry a gate.  The transition engine  *)
(* reads the manifest as data, so every module that models it takes these  *)
(* values as CONSTANTS and only the model-checked instances use this file. *)
(* An edge list keeps the order of the manifest: gate.sh takes its first   *)
(* element.                                                                *)
(***************************************************************************)
EXTENDS Sequences

StockPhases ==
    { "intake", "plan_in_progress", "plan_approved", "build_in_progress",
      "build_complete", "verify_in_progress", "verify_approved_with_warnings",
      "verify_approved", "acceptance", "released", "operate", "retro" }

\* phases[p].next
StockNext ==
    [ p \in StockPhases |->
        CASE p = "intake"             -> << "plan_in_progress" >>
          [] p = "plan_in_progress"   -> << "plan_approved", "intake" >>
          [] p = "plan_approved"      -> << "build_in_progress" >>
          [] p = "build_in_progress"  -> << "build_complete", "plan_approved" >>
          [] p = "build_complete"     -> << "verify_in_progress" >>
          [] p = "verify_in_progress" -> << "verify_approved",
                                            "verify_approved_with_warnings",
                                            "build_in_progress" >>
          [] p = "verify_approved_with_warnings"
                                      -> << "acceptance", "build_in_progress" >>
          [] p = "verify_approved"    -> << "acceptance" >>
          [] p = "acceptance"         -> << "released" >>
          [] p = "released"           -> << "operate" >>
          [] p = "operate"            -> << "retro", "build_in_progress" >>
          [] OTHER                    -> << >> ]

\* phases[p].rollback_to
StockRollback ==
    [ p \in StockPhases |->
        CASE p = "plan_in_progress"   -> << "intake" >>
          [] p = "plan_approved"      -> << "plan_in_progress" >>
          [] p = "build_in_progress"  -> << "plan_approved" >>
          [] p = "build_complete"     -> << "build_in_progress" >>
          [] p = "verify_in_progress" -> << "build_complete" >>
          [] p = "verify_approved_with_warnings"
                                      -> << "verify_in_progress",
                                            "build_in_progress" >>
          [] p = "verify_approved"    -> << "build_in_progress" >>
          [] p = "acceptance"         -> << "build_in_progress" >>
          [] p = "released"           -> << "acceptance" >>
          [] p = "operate"            -> << "released" >>
          [] OTHER                    -> << >> ]

\* phases[p].subsystem, read by router.sh
StockSubsystem ==
    [ p \in StockPhases |->
        CASE p \in { "intake", "plan_in_progress", "plan_approved",
                     "acceptance", "retro" }                   -> "plan"
          [] p \in { "build_in_progress", "build_complete",
                     "released", "operate" }                   -> "build"
          [] OTHER                                             -> "verify" ]

\* The phases with a `gate:` field.
StockGated ==
    { "plan_approved", "verify_approved_with_warnings", "verify_approved",
      "acceptance", "released" }
=============================================================================
