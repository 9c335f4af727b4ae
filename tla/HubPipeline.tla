---------------------------- MODULE HubPipeline ----------------------------
(***************************************************************************)
(* The chain that carries one project through its lifecycle in the Hub.    *)
(* A decision card is acknowledged by a person or by the pipeline runner;  *)
(* the hook of the acknowledgement moves the phase and dispatches the next *)
(* role, which leaves an artifact in the project's metadata and a card in  *)
(* the queue (shared/api/routes/_post_ack.py).  Beside it the phase        *)
(* watcher dispatches what the metadata says is due when nobody else seems *)
(* to (shared/runtime/phase_watcher.py), and a failed role is retried      *)
(* through the recovery dispatch (_project_recovery.py).                   *)
(*                                                                         *)
(* What the modules beside this one are about is taken as a step here: a   *)
(* card is acknowledged once (DecisionStore has the store's races), a move *)
(* of the Hub ends in its target, by the engine or past it (Orchestrator-  *)
(* Policy).  A review passes: blocked ones are FixLoop.  The operate phase *)
(* is not reached, as no kind that leads there is dispatched to a role.    *)
(***************************************************************************)
EXTENDS Naturals, Sequences, Bags

CONSTANTS
    Presets,    \* presets of the gate policy the project may have
    MaxTrouble  \* bound: roles that fail, cards that are rejected, restarts of
                \* the Hub and dispatches of the watcher while something runs

ASSUME HubAssumption ==
    /\ Presets \subseteq { "gate_checked", "strict", "full_auto" }
    /\ MaxTrouble \in Nat

None == "none"

\* KIND_ROLE_DISPATCH without remediation and features; the artifact a role
\* leaves in metadata.
Artifact ==
    [ prd_approval         |-> "roadmap_md",
      roadmap_approval     |-> "trd_md",
      trd_approval         |-> "sprint_plan_md",
      sprint_plan_approval |-> "code_intro_md",
      code_approval        |-> "code_review_md",
      code_review_pass     |-> "devops_install_ok",
      devops_approval      |-> "qa_md",
      qa_approval          |-> "release_gate_md",
      local_deploy_prompt  |-> None ]

DispatchKind == DOMAIN Artifact

\* Kinds that are dispatched and not in the table.
UnmappedKind == { "auditor_approval", "release_approval", "operate_kickoff" }

CardKind == DispatchKind \cup
    { "release_gate_approval", "host_deploy_prompt", "host_deploy_instructions",
      "deploy_status", "project_complete", "planner_approval",
      "architect_approval", "conductor_approval", "role_failure",
      "orchestrator_gap" }

\* of: the dispatch that failed, of a role_failure card.
Card == [ kind : CardKind, of : DispatchKind \cup {None} ]

CardOf(k) == [ kind |-> k, of |-> None ]

Phases == { "intake", "plan_in_progress", "plan_approved", "build_in_progress",
            "build_complete", "verify_in_progress", "verify_approved",
            "acceptance", "released" }

Key == { "prd_md", "deploy_result" } \cup
       { Artifact[k] : k \in DispatchKind }

\* A coroutine: two hooks of acknowledgements, one of a rejection, the phase
\* watcher's dispatch and the recovery dispatch, which holds the project's slot.
Slot == { "hook1", "hook2", "reject", "watcher", "recovery" }

\* kind: what it is to dispatch; moves: the phases it has yet to move to;
\* card: approval_card_kind.
Task == [ pc : { "idle", "run", "deliver" },
          kind : CardKind \cup UnmappedKind \cup { None, "regenerate" },
          moves : Seq(Phases), card : CardKind \cup {None} ]

Idle == [ pc |-> "idle", kind |-> None, moves |-> << >>, card |-> None ]

VARIABLES
    preset,   \* the project's gate_policy_preset; gate_checked is the mode too
    phase,    \* current_phase
    md,       \* keys of metadata
    cards,    \* pending cards
    tasks,    \* tasks[s]
    due,      \* kinds the watcher's last scan found and has not dispatched
    cleared,  \* it found the project without a card
    recent,   \* a row of route_history is younger than fifteen minutes
    paused,   \* pipeline_paused
    opened,   \* who has acknowledged a release gate
    left,     \* a person has closed a card that stood for unfinished work
    races, fails, rejects, crashes

watch    == << due, cleared >>
counters == << races, fails, rejects, crashes >>
hubVars == << preset, phase, md, cards, tasks, watch, recent, paused, opened, left,
              counters >>

HubTypeOK ==
    /\ preset \in Presets
    /\ phase \in Phases
    /\ md \subseteq Key
    /\ IsABag(cards) /\ BagToSet(cards) \subseteq Card
    /\ tasks \in [ Slot -> Task ]
    /\ due \subseteq (DispatchKind \cup UnmappedKind)
    /\ { cleared, recent, paused, left } \subseteq BOOLEAN
    /\ opened \in { "nobody", "person", "runner" }
    /\ counters \in Nat \X Nat \X Nat \X Nat

\* Intake is done: the requirements are in metadata and their card is pending.
HubInit ==
    /\ preset \in Presets
    /\ phase = "intake" /\ md = { "prd_md" }
    /\ cards = SetToBag({ CardOf("prd_approval") })
    /\ tasks = [ s \in Slot |-> Idle ] /\ due = {}
    /\ cleared = FALSE /\ recent = FALSE /\ paused = FALSE /\ left = FALSE
    /\ opened = "nobody"
    /\ races = 0 /\ fails = 0 /\ rejects = 0 /\ crashes = 0

Busy(s) == tasks[s].pc # "idle"
Quota   == races + fails + rejects + crashes < MaxTrouble
AtRest  == \A s \in Slot : ~Busy(s)
Pending == BagToSet(cards)

Enqueue(kinds) == cards' = cards (+) SetToBag({ CardOf(k) : k \in kinds })
Close(c)       == cards (-) SetToBag({c})

-----------------------------------------------------------------------------
(* Acknowledging                                                           *)

\* _ROLE_OUTPUT_TO_DISPATCH_KIND: cards made without an approval_card_kind.
Canonical(k) ==
    CASE k = "planner_approval"   -> "prd_approval"
      [] k = "architect_approval" -> "roadmap_approval"
      [] k = "conductor_approval" -> "trd_approval"
      [] OTHER                    -> k

\* The phases on_decision_acked moves to before it does anything else.
Moves(k) ==
    CASE k = "prd_approval"          -> << "plan_in_progress" >>
      [] k = "sprint_plan_approval"  -> << "plan_approved", "build_in_progress" >>
      [] k = "devops_approval"       -> << "build_complete", "verify_in_progress" >>
      [] k = "qa_approval"           -> << "verify_approved" >>
      [] k = "release_gate_approval" -> << "acceptance", "released" >>
      [] OTHER                       -> << >>

\* approval_card_kind, of hooks and of the recovery dispatch alike.
ApprovalCard(k) ==
    CASE k = "prd_approval"         -> "roadmap_approval"
      [] k = "roadmap_approval"     -> "trd_approval"
      [] k = "trd_approval"         -> "sprint_plan_approval"
      [] k = "sprint_plan_approval" -> "code_approval"
      [] k = "code_review_pass"     -> "devops_approval"
      [] k = "devops_approval"      -> "qa_approval"
      [] k = "qa_approval"          -> "release_gate_approval"
      [] OTHER                      -> None

Run(k, moves, card) == [ pc |-> "run", kind |-> k, moves |-> moves, card |-> card ]

\* retry_action_for_dispatch_kind and _action_specs: the retry exists, and the
\* phase and the metadata allow it.  (Reviews pass and installs succeed.)
RetryAllowed(k) ==
    \/ phase \in { "intake", "plan_in_progress", "plan_approved" } /\
         \/ k = "prd_approval"     /\ "prd_md" \in md
         \/ k = "roadmap_approval" /\ "roadmap_md" \in md
         \/ k = "trd_approval"     /\ "trd_md" \in md
    \/ phase \in { "build_in_progress", "build_complete", "verify_in_progress",
                   "verify_approved", "acceptance" } /\
         \/ k = "sprint_plan_approval" /\ "sprint_plan_md" \in md
         \/ k = "code_approval"        /\ "code_intro_md" \in md
         \/ k = "code_review_pass"     /\ "code_review_md" \in md
    \/ phase \in { "verify_in_progress", "verify_approved", "acceptance",
                   "released" } /\ k = "devops_approval"

\* recovery_dispatch, for the retry_action of a role_failure card.
RetryFailed(c) ==
    /\ left' = TRUE
    /\ tasks' = IF RetryAllowed(c.of) /\ ~Busy("recovery")
                  THEN [ tasks EXCEPT !["recovery"] =
                           Run(c.of, << >>, ApprovalCard(c.of)) ]
                  ELSE tasks

\* on_decision_acked as a task of its own.
StartHook(k) ==
    /\ \E s \in { "hook1", "hook2" } :
          /\ ~Busy(s) /\ (s = "hook2" => Busy("hook1"))
          /\ tasks' = [ tasks EXCEPT ![s] = Run(k, Moves(k), ApprovalCard(k)) ]
    /\ UNCHANGED left

\* Kinds whose hook does nothing, or has no branch.
NoHook == { "host_deploy_instructions", "project_complete" }

\* Bound: one release gate is acknowledged.
Acknowledge(c, who) ==
    /\ c \in Pending
    /\ cards' = Close(c)
    /\ IF c.kind = "release_gate_approval"
         THEN opened = "nobody" /\ opened' = who ELSE UNCHANGED opened
    /\ \/ c.kind = "role_failure" /\ RetryFailed(c)
       \/ c.kind = "orchestrator_gap" /\ left' = TRUE /\ UNCHANGED tasks
       \/ c.kind \in NoHook /\ UNCHANGED << tasks, left >>
       \/ /\ c.kind \notin NoHook \cup { "role_failure", "orchestrator_gap" }
          /\ StartHook(Canonical(c.kind))

PersonAck(c) ==
    /\ Acknowledge(c, "person")
    /\ UNCHANGED << preset, phase, md, watch, recent, paused, counters >>

\* on_decision_rejected: the engineer is called again, or the card is gone.
PersonReject(c) ==
    /\ Quota
    /\ c \in Pending
    /\ rejects' = rejects + 1
    /\ left' = TRUE
    /\ cards' = Close(c)
    /\ IF c.kind \in { "code_approval", "devops_approval", "qa_approval" }
         THEN /\ ~Busy("reject")
              /\ tasks' = [ tasks EXCEPT !["reject"] = Run("regenerate", << >>, None) ]
         ELSE UNCHANGED tasks
    /\ UNCHANGED << preset, phase, md, watch, recent, paused, opened, races, fails,
                    crashes >>

-----------------------------------------------------------------------------
(* The pipeline runner                                                     *)

StopKinds == { "orchestrator_gap", "role_failure" }

\* Faulty: the hold list is not looked at, only the suffix of the kind.
CanAutoAckSuffix(k) == k \notin StopKinds /\ preset # "gate_checked"

\* resolve_pipeline_mode and GatePolicy.can_auto_ack.
CanAutoAck(k) ==
    /\ preset # "gate_checked"
    /\ k \notin StopKinds
    /\ ~(preset = "strict" /\ k \in { "release_gate_approval", "project_complete" })

\* _process_project, for one card.
RunnerAck(c) ==
    /\ ~paused
    /\ CanAutoAck(c.kind)
    /\ Acknowledge(c, "runner")
    /\ UNCHANGED << preset, phase, md, watch, recent, paused, counters >>

\* Faulty: a failed role does not stop the runner.
RunnerPauseGapOnly ==
    /\ preset # "gate_checked" /\ ~paused
    /\ CardOf("orchestrator_gap") \in Pending
    /\ paused' = TRUE
    /\ UNCHANGED << preset, phase, md, cards, tasks, watch, recent, opened, left,
                    counters >>

\* A stop kind: _persist_pipeline_pause, and no more of this project.
RunnerPause ==
    /\ preset # "gate_checked" /\ ~paused
    /\ \E c \in Pending : c.kind \in StopKinds
    /\ paused' = TRUE
    /\ UNCHANGED << preset, phase, md, cards, tasks, watch, recent, opened, left,
                    counters >>

-----------------------------------------------------------------------------
(* What a task does                                                        *)

Finish(s) == tasks' = [ tasks EXCEPT ![s] = Idle ]

\* advance_lifecycle_phase, accepted or by _fallback_advance.
MovePhase(s) ==
    /\ tasks[s].pc = "run" /\ tasks[s].moves # << >>
    /\ phase' = Head(tasks[s].moves)
    /\ tasks' = [ tasks EXCEPT ![s].moves = Tail(@) ]
    /\ UNCHANGED << preset, md, cards, watch, recent, paused, opened, left, counters >>

Ready(s, k) == tasks[s].pc = "run" /\ tasks[s].moves = << >> /\ tasks[s].kind = k

\* release_gate_approval: two ways to deploy and a briefing.
OfferDeploy(s) ==
    /\ Ready(s, "release_gate_approval")
    /\ Enqueue({ "local_deploy_prompt", "host_deploy_prompt", "project_complete" })
    /\ Finish(s)
    /\ UNCHANGED << preset, phase, md, watch, recent, paused, opened, left, counters >>

HostInstructions(s) ==
    /\ Ready(s, "host_deploy_prompt")
    /\ Enqueue({ "host_deploy_instructions" })
    /\ Finish(s)
    /\ UNCHANGED << preset, phase, md, watch, recent, paused, opened, left, counters >>

\* deploy_status: the result is kept, and operation is kicked off if released.
RecordDeploy(s) ==
    /\ Ready(s, "deploy_status")
    /\ md' = md \cup { "deploy_result" }
    /\ tasks' = [ tasks EXCEPT ![s] =
                    IF phase = "released"
                      THEN Run("operate_kickoff", << >>, None) ELSE Idle ]
    /\ UNCHANGED << preset, phase, cards, watch, recent, paused, opened, left,
                    counters >>

\* _require_orchestrate_hub_role, for a kind that is not in the table.
Gap(s) ==
    /\ \E k \in UnmappedKind : Ready(s, k)
    /\ Enqueue({ "orchestrator_gap" })
    /\ Finish(s)
    /\ UNCHANGED << preset, phase, md, watch, recent, paused, opened, left, counters >>

\* dispatch_role_for_kind: the role is done and its artifact is in metadata.
RoleSucceeds(s) ==
    /\ \E k \in DispatchKind : Ready(s, k)
    /\ md' = md \cup ({ Artifact[tasks[s].kind] } \ {None})
    /\ tasks' = [ tasks EXCEPT ![s].pc = "deliver" ]
    /\ UNCHANGED << preset, phase, cards, watch, recent, paused, opened, left,
                    counters >>

\* Faulty: the failure of a role is kept in metadata alone.
RoleFailsSilently(s) ==
    /\ Quota
    /\ \E k \in DispatchKind : Ready(s, k)
    /\ fails' = fails + 1
    /\ Finish(s)
    /\ UNCHANGED << preset, phase, md, cards, watch, recent, paused, opened, left,
                    races, rejects, crashes >>

\* _orchestrate_hub_role, not ok: no row of route_history, and a card.
RoleFails(s) ==
    /\ Quota
    /\ \E k \in DispatchKind : Ready(s, k)
    /\ fails' = fails + 1
    /\ cards' = cards (+) SetToBag({ [ kind |-> "role_failure", of |-> tasks[s].kind ] })
    /\ Finish(s)
    /\ UNCHANGED << preset, phase, md, watch, recent, paused, opened, left, races,
                    rejects, crashes >>

\* card_kind: approval_card_kind, or the result_kind of the tool, or the role.
ResultCard(t) ==
    IF t.card # None THEN t.card
    ELSE CASE t.kind = "prd_approval"         -> "planner_approval"
           [] t.kind = "roadmap_approval"     -> "architect_approval"
           [] t.kind = "trd_approval"         -> "conductor_approval"
           [] t.kind = "sprint_plan_approval" -> "code_approval"
           [] t.kind = "code_approval"        -> "code_review_pass"
           [] t.kind = "devops_approval"      -> "qa_approval"
           [] t.kind = "local_deploy_prompt"  -> "deploy_status"

\* The row of route_history and the card.  The card of a deployment comes from
\* the deployment itself, which also returns without one: there is no workspace,
\* or the process cannot be started.
Deliver(s) ==
    /\ tasks[s].pc = "deliver"
    /\ recent' = TRUE
    /\ \/ Enqueue({ ResultCard(tasks[s]) })
       \/ tasks[s].kind = "local_deploy_prompt" /\ UNCHANGED cards
    /\ Finish(s)
    /\ UNCHANGED << preset, phase, md, watch, paused, opened, left, counters >>

\* _dispatch_engineer_codegen_with_feedback: outside the bridge, so without a
\* row of route_history.
Regenerate ==
    /\ Ready("reject", "regenerate")
    /\ md' = md \cup { "code_intro_md" }
    /\ Enqueue({ "code_approval" })
    /\ Finish("reject")
    /\ UNCHANGED << preset, phase, watch, recent, paused, opened, left, counters >>

\* Its language model call raises: an event, and no card.
RegenerateFails ==
    /\ Quota
    /\ Ready("reject", "regenerate")
    /\ fails' = fails + 1
    /\ Finish("reject")
    /\ UNCHANGED << preset, phase, md, cards, watch, recent, paused, opened, left,
                    races, rejects, crashes >>

-----------------------------------------------------------------------------
(* The phase watcher                                                       *)

Rule(p, has, lacks, k) == [ phase |-> p, has |-> has, lacks |-> lacks, kind |-> k ]

\* _WATCH_RULES, but the two of the operate phase.
WatchRules ==
    { Rule("plan_in_progress", "prd_md", "roadmap_md", "prd_approval"),
      Rule("plan_in_progress", "roadmap_md", "trd_md", "roadmap_approval"),
      Rule("plan_in_progress", "trd_md", "sprint_plan_md", "trd_approval"),
      Rule("build_in_progress", "sprint_plan_md", "code_intro_md", "sprint_plan_approval"),
      Rule("build_in_progress", "code_intro_md", "code_review_md", "code_approval"),
      Rule("verify_in_progress", "devops_install_ok", "qa_md", "devops_approval"),
      Rule("verify_approved", "qa_md", "audit_md", "auditor_approval"),
      Rule("acceptance", "audit_md", "release_gate_md", "release_approval"),
      Rule("released", "deploy_result", "operate_started_at", "operate_kickoff") }

Matches == { r \in WatchRules : r.phase = phase /\ r.has \in md /\ r.lacks \notin md }

\* _find_pending_work: a SELECT for each rule, with LIMIT 3 and no ORDER BY.  If
\* it matches more projects, those parked on a card among them, it may leave
\* this one out.  (When all of them do, nothing changes here.)
WatcherScan ==
    /\ ~Busy("watcher") /\ due = {} /\ ~recent
    /\ due' \in SUBSET { r.kind : r \in Matches } /\ due' # {}
    /\ UNCHANGED << preset, phase, md, cards, tasks, cleared, recent, paused, opened,
                    left, counters >>

\* Faulty: a project without a card is passed over.
WatcherIndexInverted ==
    /\ due # {} /\ ~cleared
    /\ IF cards # EmptyBag
         THEN cleared' = TRUE /\ UNCHANGED due
         ELSE due' = {} /\ UNCHANGED cleared
    /\ UNCHANGED << preset, phase, md, cards, tasks, recent, paused, opened, left,
                    counters >>

\* _build_pending_decision_index, once for the rows of a tick: a project with a
\* card is passed over.
WatcherIndex ==
    /\ due # {} /\ ~cleared
    /\ IF cards = EmptyBag
         THEN cleared' = TRUE /\ UNCHANGED due
         ELSE due' = {} /\ UNCHANGED cleared
    /\ UNCHANGED << preset, phase, md, cards, tasks, recent, paused, opened, left,
                    counters >>

\* phase_watcher_tick, for the next row.  What a hook is doing does not show, nor
\* a card that came up since.  (Beyond the bound they do.)
WatcherDispatch ==
    /\ ~Busy("watcher") /\ cleared
    /\ \E k \in due :
          IF (cards = EmptyBag /\ AtRest) \/ Quota
            THEN /\ tasks' = [ tasks EXCEPT !["watcher"] = Run(k, << >>, None) ]
                 /\ due' = due \ {k}
                 /\ races' = IF cards = EmptyBag /\ AtRest THEN races ELSE races + 1
            ELSE due' = {} /\ UNCHANGED << tasks, races >>
    /\ cleared' = (due' # {})
    /\ UNCHANGED << preset, phase, md, cards, recent, paused, opened, left, fails,
                    rejects, crashes >>

QuietWindowEnds ==
    /\ recent
    /\ recent' = FALSE
    /\ UNCHANGED << preset, phase, md, cards, tasks, watch, paused, opened, left,
                    counters >>

-----------------------------------------------------------------------------

\* The Hub restarts; clear_orphaned_recovery_dispatches_on_startup.
HubRestarts ==
    /\ Quota
    /\ ~AtRest
    /\ crashes' = crashes + 1
    /\ tasks' = [ s \in Slot |-> Idle ] /\ due' = {} /\ cleared' = FALSE
    /\ UNCHANGED << preset, phase, md, cards, recent, paused, opened, left, races,
                    fails, rejects >>

TaskStep(s) ==
    \/ MovePhase(s) \/ OfferDeploy(s) \/ HostInstructions(s) \/ RecordDeploy(s)
    \/ Gap(s) \/ RoleSucceeds(s) \/ RoleFails(s) \/ Deliver(s)

RejectStep  == Regenerate \/ RegenerateFails
RunnerStep  == RunnerPause \/ \E c \in Pending : RunnerAck(c)
WatcherTick == WatcherIndex \/ WatcherDispatch \/ TaskStep("watcher")

HubNext ==
    \/ \E c \in Pending : PersonAck(c) \/ PersonReject(c)
    \/ RunnerStep
    \/ \E s \in { "hook1", "hook2", "recovery" } : TaskStep(s)
    \/ RejectStep
    \/ WatcherScan \/ WatcherTick \/ QuietWindowEnds
    \/ HubRestarts

\* The loops of the runner and of the watcher run for ever, the calls of roles
\* time out, and fifteen minutes pass.  Nothing is assumed of people, nor that
\* a scan of the watcher finds this project among others.
HubFairness ==
    /\ \A s \in { "hook1", "hook2", "recovery" } : WF_hubVars(TaskStep(s))
    /\ WF_hubVars(RejectStep)
    /\ WF_hubVars(RunnerStep)
    /\ WF_hubVars(WatcherTick) /\ WF_hubVars(QuietWindowEnds)

HubSpec == HubInit /\ [][HubNext]_hubVars /\ HubFairness

-----------------------------------------------------------------------------
(* Properties                                                              *)

\* Under the strict policy only a person opens the release gate: whatever the
\* runner acknowledges on its own, whatever the watcher and retries dispatch,
\* and however late a stale card's hook runs, the project is in acceptance or
\* released only after somebody acknowledged a release gate.
ReleaseHeld ==
    preset = "strict" /\ phase \in { "acceptance", "released" } => opened = "person"

\* No acknowledgement loses the project: unless a person rejected a card or
\* closed one that stood for a failure, or a restart killed a hook, a project
\* with nothing running has a card for somebody, until it is released.
AtRestHasCard ==
    AtRest /\ ~left /\ crashes = 0 => Pending # {} \/ phase = "released"

\* The scans come to this project: no more than three projects match a rule at
\* a time, so that none is over the LIMIT.
ScansReach == WF_hubVars(WatcherScan)

\* Whatever was rejected, failed or killed by a restart: as long as a rule of
\* the watcher says that work is due, a card for it will come up, provided the
\* scans reach the project.
DueWorkSurfaces == ScansReach => []<>(Matches = {} \/ Pending # {})

\* An autonomous project does not stop on its own: unless a person closed a
\* card that stood for unfinished work or the Hub was restarted, it gets to its
\* release gate, or the runner is paused for a card somebody has to look at.
Arrived ==
    \/ preset = "gate_checked" \/ left \/ crashes > 0 \/ paused
    \/ opened # "nobody"
    \/ preset = "strict" /\ CardOf("release_gate_approval") \in Pending

AutonomousArrives == <>[]Arrived
=============================================================================
