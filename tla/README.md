# SpineDev: lifecycle, decisions and services in TLA+

SpineDev drives a software project from intake to operation: an orchestrator
moves it through the phases of a manifest, a Hub shows its founder decision
cards, and model-driven roles (planner, engineer, security reviewer, devops,
QA) do the work in between. This directory holds TLA+ models of the parts
that decide *where a project is*, *who may move it* and *what is started when
somebody decides*, and of the services that carry its work, its records, its
audits and its updates; the TLC configurations that check them; and TLAPS
proofs about every one of them. Paths below are relative to the repository
root.

Contents

1. The system: inventory of parts, state, operations and interactions
2. What is hard, and what makes each part correct
3. The modules and how they correspond to the code
4. The runs: questions, bounds, results
5. Fairness
6. The proofs
7. Disagreements between the code and what is said about it
8. What is not modelled
9. Plan

To check: `tlc -config <Run>.cfg <MC module>` for a run of section 4, and
`tlapm <module>` for each of the eight modules whose name ends in `Proofs`.

## 1. The system

| part | code | state it keeps | operations that change it |
|---|---|---|---|
| pipeline manifest | `orchestrator/state/phases.yaml` | none (data): phases, `next`, `rollback_to`, `gate`, `subsystem`, policy limits | none |
| transition engine | `orchestrator/lib/transition.sh`, `db/flyway/sql/V14__spine_lifecycle_schema.sql` | `project.current_phase`, rows of `phase_history` and `transition` | `validate`, `gate-check`, `execute`, `rollback` |
| approvals | `orchestrator/lib/approval.py` | rows of `approval`, expiring | grant, revoke |
| gate commands | `orchestrator/lib/gate.sh` | the above, `project.status` | approve, reject, request-changes |
| verify-fail remediation | `orchestrator/lib/remediation.sh` | `route_history`, `project.status` | dispatch a directive, move verify to build, or surface |
| build-failure router | `orchestrator/lib/build_failure_router.sh` | the same | the same, build to plan |
| rollback command | `orchestrator/lib/rollback.sh` | the engine's, plus, by intent, expiry of approvals and cancelled routes | rollback; a clean-up that never commits (section 7) |
| router | `orchestrator/lib/router.sh` | `route_history` | dispatch, record reply |
| Hub pipeline bridge | `shared/api/routes/_pipeline_bridge.py`, `shared/mcp/tools/orchestrator.py` | the engine's tables | `advance_lifecycle_phase`: grant, advance (30 s timeout), direct-SQL fallback |
| decision store | `shared/api/routes/decisions.py` | `_cards` (in memory) over table `decision_card` | put, get, list, ack, reject |
| pipeline runner, gate policy | `shared/runtime/pipeline_runner.py`, `gate_policy.py` | `metadata.pipeline_paused` | polls, acks cards, pauses |
| recovery and fix loop | `shared/api/routes/_project_recovery.py`, `_post_ack.py` | `metadata.recovery_dispatch_in_flight`, `code_fix_iteration`, `code_review_blocked`, the in-memory set `_AUTO_REMEDIATE_SCHEDULED` | recovery dispatch, cancel, reap, start-up clearing, automatic remediation |
| post-ack chain | `shared/api/routes/_post_ack.py` | project metadata, cards | one hook per kind of acked or rejected card: move the phase, dispatch a role, enqueue its card |
| role dispatch bridge | `shared/api/routes/_role_dispatch_bridge.py` | `route_history` | dispatch by the table of kinds |
| phase watcher | `shared/runtime/phase_watcher.py` | none of its own | fires the dispatch a phase lacks |
| portfolio | `orchestrator/lib/portfolio.sh` | `portfolio_queue` | can-dispatch, queue, drain, set-limit |
| verify dispatcher | `orchestrator/lib/verify_dispatcher.sh` | findings, routes | audit, then advance or remediate |
| role worker | `shared/runtime/role_worker.py`, `role_runtime.py` | status and report files of the file bus, undispatched rows | claim, run, mark done, take up what a dead process left |
| database watcher | `db/watcher/spine_watcher.py`, writers in `shared/runtime/db-outbox.sh` | cursor per outbox; tables of assignments, costs, events, engagements, instances | drain an outbox line by line |
| TRON audit run | `verify/tron/` (`api/routes/audits.py`, `workflows/`, `services/`) | `audit_runs`, `findings`, suppressions | create, workflow with retries and timeouts, in-process executor, reconcile, import, triage |
| license quota ledger | `license/quota_ledger.py` | hash-chained rows | append |
| audit and decision ledger | `shared/audit/` | hash-chained rows, promotion state | append, promote |
| update cascade | `federation/update_cascade.py`, `hub_registry.py`, `consent.py` | `update_distribution`, registry, consents | approve and apply, reject, cascade, change of status or consent |
| recovery service | `recovery/auto_recovery.py` | restart counts per service | restart, trip the breaker |
| secrets, rate limit | `shared/secrets/`, `shared/api/rate_limit.py` | TTL cache, leases, token buckets | get, renew, take |

The remaining parts (model clients, intake, planning swarm, code generation,
TRON's agents, knowledge graph, devops shell runners, integrations, UI,
installers) are
listed in `PROJECT.json` with the reason each is left out.

How they interact:

* The shell scripts are separate processes that share only PostgreSQL. A
  script calls `transition_execute` or `transition_rollback`, which issues
  several queries and one transaction; nothing holds a lock between them.
* The Hub is one asyncio process. A request handler runs undisturbed from one
  `await` to the next, and every query is an `await`; background tasks are
  created with `asyncio.create_task` and are lost with the process.
* An ack updates the card, then creates the hook `on_decision_acked`; the hook
  runs roles, writes metadata, enqueues further cards and calls the pipeline
  bridge, which runs the shell engine in a subprocess with a timeout.
* The pipeline runner acks cards on its own in autonomous projects, by the same
  function as a person's click. The recovery endpoints and the automatic
  scheduler dispatch the same roles as the hooks. The phase watcher, a loop of
  the same process, dispatches what the metadata says is missing when a project
  has been quiet for fifteen minutes.
* Directives that are not run at once wait in files or in `portfolio_queue`.
  The role worker polls both; `portfolio.sh drain` empties the queue from cron.
* Daemons write JSON lines to outbox files and never wait for the database; one
  watcher applies the lines, each in a transaction, and saves its cursor last.
* TRON has a database of its own. Its API hands a run to Temporal, whose server
  retries and times out the activities of workers, or runs it as a coroutine.
* Every Hub of a federation applies an update on its own admin's word and then
  writes the offers of its children into the shared table.

## 2. What is hard, and what makes each part correct

The forty hazards that matter most, each at its line, are in `PROJECT.json`. By
component:

* **Transition engine.** The move is validated, its gate is checked and the
  current phase is read again by three separate queries; the transaction that
  follows does not look at the phase it validated. psql may fail and a shell
  may die at any step, approvals expire at any moment. Correct means: the
  cached phase agrees with the history, the history is never rewritten, a gate
  is never passed without an approval, every move is an edge of the manifest.
* **Policy scripts.** Each counts rows, then acts much later; each may be
  killed between its statements; the bridge may give up on a transaction that
  later commits; a script that sources the engine ignores errors which end it
  elsewhere. Correct means: loops stay within their budget, approvals from
  before a rollback do not open a gate after it (they do: section 7), the Hub
  says what is so.
* **Decision store.** A cache over a table, written by queries in flight from
  several coroutines, some of which fail or are overtaken. Correct means: what
  was started on a decision stays decided, cache and table agree when nothing
  is under way, a follow-up is started once, every decision has its follow-up.
* **Fix loop.** A slot in a JSON column, read in one query and taken in a
  later one, reaped when old, cleared by whoever ends; a counter that is read,
  then written; an in-memory dedupe set; all lost or not lost by a restart.
  Correct means: one dispatch at a time, the counter is what was done, the slot
  and the dedupe entry come free, a blocked project does not end in silence.

* **Hub chain.** Hooks of several cards, the runner, the watcher and a retry
  run at once over one project's phase, metadata and cards; each takes what it
  saw for what is so; a role may fail, a restart may fall between an artifact
  and its card. Correct means: under the strict policy nobody but a person lets
  a project out, no acknowledgement ends in silence, work that is due comes up
  again, an autonomous project gets to its gate.
* **Outbox watcher.** The commits of the lines and the cursor are separate, so a
  lost connection or a crash replays lines that were applied, in the order of
  the file but after later ones; constraints of the tables decide which replay
  is refused. Correct means: no line is skipped, rows that are upserted end as
  the file says, the file is drained to its end or to a line that is refused
  for good.
* **Work buses.** Status and report are two files, a claim reads one and
  writes it later, two drainers and a worker read one queue, and every mark may
  be lost after the call it is of. Correct means: no directive is forgotten,
  what is settled stays, a row is sent again only for a reason, the queue
  empties.
* **Audit runs.** An attempt that timed out goes on writing beside its retry;
  the mark of a failure, a late completion, an operator and several imports
  write the same row, on counts taken in earlier queries. Correct means:
  completed implies that the findings are there, the row says how the run ended,
  the totals are the findings and never more, a run ends.
* **Update cascade.** Two admins may find the same row pending, a Hub may die
  between its own completion and its children's rows, consents change during
  the loop. Correct means: no tier is passed without its gate, a child is
  offered the bundle, and not more often than its parent was approved for.

## 3. The modules

```
SpinePhases          the stock manifest as data
Lifecycle            abstract: what the manifest's header promises
  ^ implemented by
TransitionEngine     transition.sh, V14 tables, approvals   TransitionEngineProofs
  ^ extended by                                               ^ extended by
OrchestratorPolicy   the policy scripts                     OrchestratorPolicyProofs
DecisionStore        decision cards, runner                 DecisionStoreProofs
FixLoop              recovery and security fix loop         FixLoopProofs
HubPipeline          the Hub's lifecycle chain              HubPipelineProofs
WorkBus              file bus and queue                     BusProofs
OutboxWatcher        outbox files and tables                BusProofs
AuditRuns            TRON audit runs                        AuditRunsProofs
UpdateCascade        update_distribution                    ServicesProofs
MCServices           extends the last five                  ServicesProofs
MC*                  instances for TLC
```

**SpinePhases** transcribes `phases.yaml`: phases, successor lists, rollback
lists, gated phases, subsystems. The other modules take these as CONSTANTS.
The lists are what the awk path of the shell's manifest reader returns (the
path taken where `yq` is not installed).

**Lifecycle** has two variables, the phase the project is in and the set of
phases for which an approval was recorded, and three actions: grant, advance
along a `next` edge (into a gated phase only if granted), and roll back along a
`rollback_to` edge. It is the header of `phases.yaml`: "A move from phase X ->
phase Y is valid only if Y appears in phases[X].next (forward) or
phases[X].rollback_to (reverse)".

**TransitionEngine**: `phase` is `project.current_phase`; `hist` the rows of
`phase_history`, each with the `transition` row of the same transaction;
`approvals` the rows with decision `approved`; `call[c]` the control state of
an invocation `c` of the script. `transition_execute` is `StartExecute`,
`Validate`, `GateCheck`, `Reread`, `Snap`, `Commit`; `transition_rollback` is
`StartRollback`, `RollbackCheck`, then `Snap` and `Commit` again; `Return`
ends a call and `Abort` is a failed query or a killed shell at any step (a
transaction that does not commit leaves nothing). The transaction is split in
two because it runs at READ COMMITTED: the rows that its UPDATE of
`phase_history` closes are those visible when that statement started, while a
concurrent transaction may insert another. Rows are ordered by commit. An
approval records how many rows the history had when it was granted, which is
all that its timestamp is compared for. The audit insert after the commit is
best effort and read by nobody here; the HMAC of an approval is abstracted to
its being there or not.

**OrchestratorPolicy** extends the engine. `task[c]` is the script that
invocation `c` runs, with its locals; while it is inside the engine the
engine's `call[c]` moves, and the script resumes on `ok` or `err`. `routes`
are the rows of `route_history`, `status` is `project.status`. Each script is
a chain of actions between whose statements it may be killed (`TaskAbort`).
`gate.sh`, `remediation.sh` and `build_failure_router.sh` source `transition.sh`
and call it as a condition, where bash ignores errexit: a second read of the
phase that fails does not end such a call, which commits a row with a blank
`from_phase` (`RereadBlank`, `Sourced`). `RollbackReturn` is the end of
`rollback.sh` with its clean-up, which leaves nothing: PostgreSQL refuses the
SQL (section 7), and the script goes on.
`HubTimeout` leaves the bridge's subprocess orphaned, with its transaction
still able to commit, and goes on to the direct-SQL fallback.

**DecisionStore**: `cache` is `_cards`, `db` the table, `insert` the
background INSERT of `put`, `op[a]` the `atransition` of an actor (a person or
the runner), `hooks`/`fired` the ack hooks created, `todo`/`scan` the runner's
tick, `paused` the flag `pipeline_paused`. Every awaited query is three
moments: sent, executed, resumed. `Restart` drops everything but the table.
`missed` is a history variable: the cards of which a write did not reach the
table (a failed query, or an UPDATE that found no row yet).

**FixLoop**: one project in the build phase. `slot` is the in-flight slot with
its staleness, `iter` the iteration counter, `cards[k]` the pending cards of a
kind, `scheduled` the dedupe entry, `disp[d]` the `recovery_dispatch` of a
person or of the automatic scheduler (`Load`, `Reap`, `Decide`,
`CountPending`/`ResetFixLoop`, `Take`, `Spawn`), `task[t]` the background
tasks: a role that returns, fails or raises, the counter's read and write, the
verdict, the reload, the judgement on it, and the slot's clearing. A task with
`owns` comes from a dispatch and clears the slot; one without is an ack hook,
which never touches it. `done`, `silent` and `forced` are history variables.
A dispatch in this phase always finds a review in its snapshot, so the
scan-first path of the code is unreachable here and left out, as are the
progress pulses and the actions of the other phases.

**HubPipeline**: one project from the approved intake to its deployment.
`phase` and `md` are the lifecycle row and the keys of metadata that rules look
at, `cards` the bag of pending cards, `tasks[s]` the coroutines: two hooks, one
regeneration after a rejection, the watcher's dispatch, the recovery dispatch.
A hook is `MovePhase` for each phase it moves to, then the role (`RoleSucceeds`
with its artifact, or `RoleFails` with its card), then `Deliver`: the
`route_history` row and the next card. The watcher is
`WatcherScan` (the rules over the metadata; their `LIMIT 3` may leave this
project out of any of them, or of all), `WatcherIndex` (the pending cards, once per tick) and
`WatcherDispatch`, each on what the one before saw. The runner acks by
`CanAutoAck` and pauses. What the other modules are about is one step here: an
ack happens once (DecisionStore), a move of the Hub ends in its target
(OrchestratorPolicy), a review passes (FixLoop). The refinement of those steps
is not stated.

**OutboxWatcher**: `outbox[f]` the lines of a file, `cursor[f]` the saved
position, `drain` where the watcher is in which batch, and one variable per
table with the constraints that matter: the primary key of `cost_row`, the
one-active-assignment index, the keys of engagements. A cost carries an
idempotency key or `NoKey`. `IngestLine` is one
transaction; `LineRejected` says when the database refuses it, `StopAtLine`
that the rest of the file waits, `TakenForDuplicate` that a keyed cost is
skipped. `LoseConnection` and `WatcherDies` may come between any two steps.
`OutboxAssumption` says which lines a file can have: the role worker writes
costs and events, an instance its signs of life and its engagements, and a
malformed line may be in either.

**WorkBus**: `file[d]` is the status and the report of a directive with its age
and the run that owns it; `row[q]` a queue row; `worker` and `drainer[p]` the
two that take work up, one query, file access or tool call at a time. The rows
a reader's SELECT returned are a set that it goes over in the order of priority and age (`First`,
`Rest`). `sent`,
`unmarked` and `slow` are history variables.

**AuditRuns**: one run. `audit` is its row, `table` its findings, `flow` what
the workflow awaits and in which attempt, `synth[i]` attempt `i` of
`synthesize_findings`, which `SynthTimesOut` leaves alive, `executor` the
coroutine without Temporal, `operator` the reconcile pass, a read and a later
write, and `sarif[i]` an import among several at once: `ImportReads` the
fingerprints, `ImportCounts` the rows it sees with its own, `ImportCommits` both.
The mark after a failed dispatch may fail too (`DispatchMarkFails`). `table[f]` is the number of rows a
finding has; `RowsOf` are those rows, and `RowCount` counts them as
`_resync_audit_run_counts` does.

**UpdateCascade**: `offers` the rows of `update_distribution` for one bundle
version, `approval[a]` the `approve_and_apply` an admin is in (fetch, claim,
smoke, list the children, offer it to each; `CascadeRaises` when the registry or
the consents cannot be read), `enrolled` and `consents` what
changes meanwhile. `past` is a history variable.

**MCServices** checks these five in one state space. They share no state, so a
behaviour of the program is an interleaving of behaviours of each, and a
property of one holds if it holds when only that one moves: `focus` says which,
and the others stay in their initial state. The fairness is each module's own,
of the one that moves.

Definitions whose comment begins with "Faulty" are variants of the definition
that follows them, each with one plausible mistake; no specification uses
them. Every property of the passing runs is violated when its variant is put
in place of the original, which is how the properties were tested.

## 4. The runs

| run | instance | distinct states | properties |
|---|---|---|---|
| EngineSerial | whole manifest, every start phase, one caller, failures, 3 history rows, 1 approval | 243 000 | TypeOK, SanctionedMoves, OneOpenRow, ImplementsLifecycle |
| EngineConcurrent | two interchangeable callers, the planning region, failures, 3 rows | 200 000 | CurrentRowOpen, JustifiedMoves, GateSound, HistoryAppendOnly |
| EngineRaceMoves | the same without failures | violation | SanctionedMoves |
| PolicySerial | every script, one at a time, failing queries and re-reads, killed scripts, timeouts, 4 rows, 3 routes, loop limit 1 | 8 731 000 | HubReportsTruth, RemediationWithinBudget |
| PolicyStale | command line and rollback, nothing fails, 5 rows | violation | FreshGate |
| PolicyReplan | the build-failure router alone | violation | ReplanBounded |
| StoreUsers | one card, two people, failing queries, a restart, 3 decisions | 18 000 | DecisionDurable, DecisionCached, EveryAckFires |
| StoreAuto | three cards, the runner, a restart | 23 000 | CacheFollowsDb, HookOnce, AutoProgress |
| FixLoop | one person with every recovery control, failing roles, stale slots, cancels, a restart, 3 tasks, 3 iterations, 2 clicks | 1 014 000 | OneDispatch, CountExact, BlockedHasCard, SlotFreed, SchedulerReleased |
| FixLoopStall | one ack, nothing fails | violation | AutoContinues |
| Services: Hub chain | strict policy, one trouble (failure, rejection, restart or early dispatch) | 1 335 000, all five | ReleaseHeld, AtRestHasCard, DueWorkSurfaces, AutonomousProceeds |
| Services: outbox | 3 lines over 2 files and 2 days, one fault | | AtLeastOnce, ReplayExact, OutboxDrains |
| Services: buses | 1 directive, 1 queue row, 1 drainer beside the worker, limit 1, 2 faults | | WorkTakenUp, SettledStays, RepeatsBounded |
| Services: audits | 2 findings, 2 imports, both modes, 2 attempts, 2 faults | | NothingLost, OutcomeAgrees, CountsExact, AuditsSettle |
| Services: cascade | a root with two children, 2 admins, 3 rows, one upset | | GateAtEveryTier, OffersCounted, ChildrenOffered |
| AuditRejected | one finding, with Temporal, nothing fails | violation | RejectedGone |

Services is one run; the types of its five modules are checked with the rest
(`ServicesTypeOK`), those of the engine in EngineSerial. `PolicyTypeOK` and the
`TypeOK` of DecisionStore and FixLoop say what the variables hold and are not
among the properties of a run; they hold in PolicySerial, StoreAuto and FixLoop
when added to the cfg.

What they show:

* *EngineSerial.* Used by one process at a time, the engine is what the
  manifest promises, whatever fails and whenever: it implements `Lifecycle`,
  moves along edges only and keeps one open history row.
* *EngineConcurrent.* What is left of that with two processes: the cached phase
  is the newest row and that row is open; a gated phase was entered by an
  advance only after an approval for it; every move was an edge from *some*
  phase the project had been in; no row is removed, rewritten or reopened.
* *PolicySerial.* `advance_lifecycle_phase` returning true means the project is
  in that phase, orphaned transactions included; remediation moves only while
  fewer than `verify_build_loop_max` moves are on record.
* *StoreUsers, StoreAuto.* A card whose follow-up was started never returns to
  pending unless a write was missed; an ack that reached the table starts its
  follow-up unless the Hub restarts in between; an autonomous project's cards
  are decided, once each, or the project is paused.
* *FixLoop.* The automatic loop alone keeps one dispatch at a time and counts
  exactly until its limit is reached; no path except a raising role, a restart, a rejected card or a
  refused dispatch leaves a blocked project without a card; with people using
  every control, slot and scheduler still come free.
* *Services, Hub chain.* Stale hooks, retries and the watcher's doubled
  dispatches move a project about and give it doubled cards, and still nobody
  but a person gets it past the release gate under the strict policy; after an
  acknowledgement something runs or a card is there; work that a rule of the
  watcher finds due always comes up again, provided the scans reach the project.
* *Services, outbox.* Replay after any crash skips no unkeyed line, and what is
  upserted converges to what the file says, because a stop is kept against
  older starts and an assignment that is done is not reopened.
* *Services, buses.* A directive is done or failed in the end whatever dies
  between its two files; a queue row goes out at most once per reader and once
  more per lost mark.
* *Services, audits.* A completed run has all its findings, in spite of the
  attempts that outlive their timeouts, because the last phase stores them
  before it completes the row; the row ends as the run did, within the
  exceptions the property names; and the total is never more than the findings,
  however imports and passes count past each other.
* *Services, cascade.* The gate at every tier holds (also proved, section 6);
  the doubled offers that two admins cause are as many as their approvals.

Bounds. Three history rows are the creation and two moves, which is what a
stale validation needs; four in PolicySerial add a second loop of remediation,
which a limit of 1 refuses; five in PolicyStale are a move up to
a gate that is approved there, the rollback, the way back and the gate. One approval row is enough for the gate properties, which ask for the
existence of one. Two callers are what a race takes: a third only repeats it
(the proofs of section 6 hold for any number). Three tasks in FixLoop let a dispatch run beside two ack
hooks; a third hook has to wait until one of them ends, the only order the
bound takes away. Two clicks are enough for one control to meet another.

Of Services: the strict preset has both the runner and people;
`gate_checked` has no steps of the runner, and `full_auto` only adds that the
runner opens the release gate, of which ReleaseHeld does not speak. One trouble
is enough for every single failure, rejection, restart or doubled dispatch at
every moment of the chain; two at once are not covered. Three outbox lines are
a start, a stop and a replayed start, or a keyed cost, midnight and another;
days have one second so that both days and equal timestamps occur. One queue
row with a drainer and the worker is what a doubled dispatch takes. Two
attempts and two faults are a timeout and a failed mark, a crash after a
timeout, or two imports that overlap. A root and two children have a loop with a remainder; two admins are
what a doubled approval takes, and three rows leave room for one doubled offer.

Deadlock is checked in the engine and policy runs. In the other runs it is
not: when nobody asks for anything, those parts are at rest. Symmetry is used
for the two callers of EngineConcurrent only, where no liveness is checked.

## 5. Fairness

Fairness is always weak, and only of what a machine does by itself. Nothing is
assumed of people, admins, cron, restarts or failures.

* `DecisionStore`, `FixLoop`: the database executes a query that was sent,
  asyncio resumes a coroutine whose answer is there, the runner's `while` loop
  polls, and a role ends because its model calls have timeouts and a bounded
  number of retries (`shared/llm/retry.py`).
* `HubPipeline`: the same of hooks, the runner and a role; the watcher's loop
  ticks for ever and fifteen minutes pass. That a scan of the watcher returns
  this project is *not* assumed: each rule selects three, in no order
  (`phase_watcher.py:127`). `DueWorkSurfaces` has it as a premise, `ScansReach`,
  which the code meets while no rule matches more than three projects; without
  the premise TLC finds the project that is passed over for ever (section 7).
  The runner's and the role worker's LIMIT 20 are taken to be large enough.
* `OutboxWatcher`: the main loop goes on and reconnects.
* `WorkBus`: the worker's loop goes on, a role ends unless its process dies, and
  a running directive grows old. Nobody has to run `portfolio.sh`, and no reply
  has to arrive.
* `AuditRuns`: Temporal hands out tasks and fires timeouts, and the event loop of
  the API runs on. That a lost attempt is noticed is the timeout's doing.
* `UpdateCascade`: a coroutine that was started goes on.

The engine and the policy scripts have no fairness: a shell script may be
killed, and no liveness is claimed for it.

## 6. The proofs

**The engine.** `TransitionEngineProofs` proves, for every manifest, any set of callers and
approvers and every bound, assuming only

* `ManifestAssumption`: `next` and `rollback_to` are lists of phases, and the
  gated phases, start phases and requested phases are phases;
* `BoundAssumption`: the bounds are natural numbers, `Crashes` a Boolean.

| theorem | statement | callers |
|---|---|---|
| TypeCorrect | `Spec => []TypeOK` | any |
| CacheCoherent | `Spec => []CurrentRowOpen` | any |
| MovesJustified | `Spec => []JustifiedMoves` | any |
| GatesHold | `Spec => []GateSound` | any |
| AppendOnly | `Spec => HistoryAppendOnly` | any |
| SerialMoves | `Spec => []SanctionedMoves` | one |
| SerialRows | `Spec => []OneOpenRow` | one |
| Refinement | `Spec => ImplementsLifecycle` | one |

Argument. None of the invariants is inductive: `Commit` writes what earlier
queries of the same call found. `Inv` therefore adds `GrantsInPast` (an
approval was granted no later than now) and, for every call, `Witnessed(c)`:
what a call at each of its control points has established about the *past*
and nobody can take away. A call past `Validate` has seen a history row whose
phase lists its target; one past `GateCheck` has seen, if the target is gated,
an approval that exists (expiry changes `live`, not existence); one past
`RollbackCheck` has seen a row whose phase lists its target for rollback.
Since the history only grows and approvals
are never deleted, the steps of other callers keep `Witnessed` (lemmas
`QuietHistory`, `QuietCall`), a caller's own steps establish it (`OwnStep`)
and a commit uses it (`CommitInv`). This is what survives interleaving, and
why `JustifiedMoves` says "some earlier phase" and not "the current phase".

With one caller nobody moves between the queries, so a stronger `SerialInv`
holds: what the call read is *still true* (`StillTrue`: its `from` is the
current phase, its target a successor of it, its snapshot the set of open rows,
which is the last row). From it follow `SanctionedMoves`, `OneOpenRow` and the
refinement: `Init` maps to `Lifecycle`'s `Init`, a `Commit` to a forward or
reverse move, every other step to a stutter. EngineRaceMoves shows that the
restriction to one caller is needed.

**The cascade.** `ServicesProofs` proves, for every tree of Hubs, any set of
admins and every bound, from `CascadeAssumption` alone (the root is a Hub, every
other Hub has a parent, the bounds are naturals):

| theorem | statement |
|---|---|
| CascadeTypes | `CascadeSpec => []CascadeTypeOK` |
| CascadeGates | `CascadeSpec => []GateAtEveryTier` |
| CascadeCounts | `CascadeSpec => []OffersCounted` |

`GateAtEveryTier` is not inductive: `OfferChild` writes a row whose source has
the bundle only because the coroutine is past its smoke, and `SmokePasses`
installs the bundle on the strength of a name that an earlier step put down.
`CascadeInv` adds `Grounded(a)` for every admin: the coroutine's row exists,
bears a name from the claim on, and its Hub has the bundle while it cascades.
Other admins' steps keep this because rows are never removed, never change
their Hubs and never lose the name (`Kept`, lemma `GroundedKept`), which is all
that `_set_status` by id leaves to rely on: the *status* of the row may have
been overwritten by anybody. One lemma per action, and `QuietStep` for those
that write no row.

`OffersCounted` compares rows with claims that were made many steps earlier.
`CountInv` counts what is still owed: `Owing(h)` are the admins whose cascade
has yet to come to `h`, and rows of `h` plus `Owing(h)` are at most the claims
of its parent. A claim raises both sides by one, an offer moves one from the
debt to the rows, and a death only forgives. That a list holds children of its
own Hub (`OwnChildren`) is needed so that an offer pays the right debt.

**The policy scripts.** `OrchestratorPolicyProofs` extends the engine's proofs:
the scripts call the engine, and in between grant, expire, count, and in the
Hub's fallback write history by themselves. Besides the engine's assumptions it
uses `PolicyAssumption` (the phases the scripts name are phases, the tables of
approvers are total and there is an approver, limits are naturals).

| theorem | statement | scripts at once |
|---|---|---|
| PolicyTypes | `PolicySpec => []PolicyTypeOK` | any |
| PolicyGates | `PolicySpec => []GateSound` | any |
| PolicyCache | `PolicySpec => []CurrentRowOpen` | any |
| PolicyMoves | `PolicySpec => []JustifiedMoves` | any |
| PolicyAppendOnly | `PolicySpec => HistoryAppendOnly` | any |
| HubTruth | `PolicySpec => []HubReportsTruth` | one |
| RemediationBudget | `PolicySpec => RemediationWithinBudget` | one |
| ScriptsMove | `PolicySpec => [](EdgeMoves /\ OneOpenRow)` | one, not the Hub's |
| ScriptsRefine | `PolicySpec => ImplementsLifecycle` | one, not the Hub's |

`ScriptInv` is the engine's `Inv` with the scripts' types and `Fits(c)`: each
script is at a step of its own, and the engine's call is where that step left
it. Without it a script's step could find a call half-way through and restart
it. An orphaned transaction is the one call that outlives its script's step.
`SerialScript` adds what the one script has read and still relies on: the count
that allowed a remediation is current until its commit (`InBudget`), and a Hub
that said true is in its phase although an orphan may still commit into that
same phase (`HubTrue`). `EdgeMoves` is `SanctionedMoves` but for the blank
`from_phase` of a sourced script whose second read failed; that row is a step of
`Lifecycle` all the same, since the move itself was validated against the phase
the project is in, and `Lifecycle` has no from.

Every statement of a script is `Orderly`: it leaves the project alone and the
engine too unless it calls or hangs up (`Quiet`), records an approval
(`Granted`), or is the Hub's fallback. With one script at a time a quiet
statement keeps what the call has read and a grant is `Lifecycle`'s `Grant`
(`ServedStatement`); the engine's own steps are those of its refinement
(`StepRefines`). The fallback has to be left out: it moves the project to any
phase, past its gate and without closing a row, which is what it is for.

**The decision store.** `DecisionStoreProofs`, for any cards, people and number
of restarts, from `StoreAssumption`:

| theorem | statement | deciders |
|---|---|---|
| StoreTypes | `Spec => []TypeOK` | any |
| StoreDurable | `Spec => []DecisionDurable` | any |
| StoreCached | `Spec => []DecisionCached` | any |
| StoreFollowsDb | `Spec => []CacheFollowsDb` | the runner (`User = {}`) |
| StoreHookOnce | `Spec => []HookOnce` | the runner (`User = {}`) |

A hook is created from the *answer* to an UPDATE, so `StoreInv` says what an
answer is worth when it is used: one that returned a row found it, and no
INSERT can come later to write pending back (`RowsInserted`); one that did not
is a missed write (`Answered`); while the Hub is up nobody reads a card back
from the table (`CacheKept`). For the runner alone, `RunnerInv` says that a
card is on its list, in its hands or has its hook, and never two of these, and
that cache and table differ only between an UPDATE and its answer. With a
person beside the runner both theorems are false (section 7).

**The fix loop.** `FixLoopProofs`, for any people, tasks, clicks and limit, from
`FixLoopAssumption`: FixLoopTypes (`TypeOK`), FixLoopOneDispatch
(`OneDispatch`), FixLoopCounts (`CountExact`), FixLoopHasCard
(`BlockedHasCard`). `SlotGuards`: there is at most one owner, and none while
the slot is free or while the scheduler relies on having seen it free, which is
what makes check and take one step when only the scheduler dispatches
(`OnlyAuto`). `CountGuards`: below the limit only the owner of the slot
remediates, so what it read is current when it writes; the card whose hook
remediates outside the slot does not exist before the limit. `CardInv`: a
blocked project has a useful card, or a task or dispatch that will post one,
lift the block or fall silent. The silences are named by `silent`.

**The Hub chain.** `HubPipelineProofs`, for any presets and any number of
troubles, where the run has one, from `HubAssumption`: HubTypes, HubReleaseHeld
(`ReleaseHeld`), HubHasCard (`AtRestHasCard`). `Sane`: a coroutine moves to
acceptance only for a release gate, and carries the card of its kind.
`GateHeld`: under strict such a coroutine exists only after a person's word.
`Carried`: until release there is a card or a coroutine that carries the
project on; a deployment's do not count, since nothing needs to follow them.

**Audit runs.** `AuditRunsProofs`, for any finite set of findings, any number of
attempts and faults, from `AuditAssumption`: AuditTypes (`AuditTypeOK`),
AuditNothingLost (`NothingLost`), AuditOutcome (`OutcomeAgrees`), AuditCounts
(`CountsExact`). Passes that outlive their timeout write at any time later,
so `PassesStore` holds of every attempt and not of the current one: what a pass
kept covers the findings, and is in the table before the pass completes the
row. `OneDispatcher` separates the modes, and `Outcome` says who may have
written the status. `CountBounded` is the part that needs no condition: the
total is at most the rows, and so is what an import between its count and its
commit has counted, with its own rows (`ImportCounted`), because rows only grow; if
nothing was stored since (`~overlap`), it is equal. `CountSane` follows the one
pass that stores: until it writes the counts the rows are exactly what it kept,
so that the length of its own list is the number of rows; afterwards every
import that overlaps no other counts the rows again.
That one pass adds one row for each finding it kept to an empty table is a
bijection between that set and `RowsOf` (`FS_Bijection`).

**The buses.** `BusProofs`, from `WorkBusAssumption` and `OutboxAssumption`:

| theorem | statement |
|---|---|
| BusTypes | `BusSpec => []BusTypeOK` |
| BusSettled | `BusSpec => SettledStays` |
| BusRepeats | `BusSpec => []RepeatsBounded` |
| OutboxTypes | `OutboxSpec => []OutboxTypeOK` |
| OutboxApplied | `OutboxSpec => []AtLeastOnce` |
| OutboxReplay | `OutboxSpec => []ReplayExact` |

`FileInv`: a directive that the worker has scanned or claimed has no live run
and no report, unless a role was slow; a claim's late write therefore hits
nothing settled. `RepeatInv` counts calls in two ways: while a row waits, every
call for it belongs to a reader about to mark it or to a lost mark; once it is
marked, each reader that still holds it calls at most once. `DrainSane`: what
the watcher has gone over and not yet saved is in the tables like what its
cursor has passed.

`ReplayExact` is about a state that replays pass through wrong values to reach:
after a death the watcher starts again at the saved cursor, and a start that is
read a second time makes a stopped instance running again. `ReplayInv` bounds
how wrong: the status of `spine_instance` is what the first `q` lines say, for
some `q` no smaller than where the watcher is (`InstanceSane`), so that at the
end of the file `q` has nowhere else to be. The other columns are not taken
back at all: `started` is the first start's, and `seen` is some line's and no
older than any line gone over since. An assignment that is done was ended by
some line, and a day whose end was gone over has nothing but ended rows
(`AssignmentSane`). `LinesInPlace` (lines are in the order of their clocks and
in their own file) is what makes the two files independent.

**The services together.** `ServicesProofs` ends with the types of the
composition that the run Services checks, ServicesTypes:
`ServicesSpec => []ServicesTypeOK`. `ServicesInv` is the conjunction of the five inductive invariants. A step of
`ServicesNext` is a step of one service and a stutter of the other four
(`EachItsOwnStep`), so each conjunct is kept by the lemma of its own module.
Every other invariant of a passing run, and every action property, is a theorem
of its own module's specification.

Each inductive invariant was checked by TLC on the instance of its run, or a
larger one, before it was proved; `CountInv` for 23 million states.

**Only model-checked.** The temporal properties (`EveryAckFires`,
`AutoProgress`, `SlotFreed`, `SchedulerReleased`, `DueWorkSurfaces`,
`AutonomousProceeds`, `OutboxDrains`, `WorkTakenUp`, `AuditsSettle`,
`ChildrenOffered`): reasoning under fairness is beyond the prover's backends.
Everything else that a passing run checks is proved.

## 7. Disagreements between the code and what is said about it

Five have a run that shows them.

1. **A move from a phase the project has left** (EngineRaceMoves). Two callers
   validate against the same phase; the second commits after the first. The
   UPDATE (`orchestrator/lib/transition.sh:264`) has no condition on the phase
   that was validated. `phases.yaml:10-11` says a move is valid only along an
   edge.
2. **Re-planning is not bounded** (PolicyReplan). `build_failure_router.sh`
   counts transitions from build to plan, an edge the manifest does not have;
   the engine always refuses it, the count stays 0 and a directive is queued
   each time, against "never queue past the cap" (line 168).
3. **The second automatic remediation may be dropped** (FixLoopStall). A review
   that blocks at the end of a remediation schedules the next one while its
   own dispatch still holds the slot. The scheduler's dispatch finds its own
   kind of action in flight, returns "skipped", and the scheduler takes that as
   success. The loop ends under its limit while the card says that the
   remediation was started automatically.
4. **Rejected findings are stored** (AuditRejected). The sandbox's verdict is
   returned to the workflow, which passes the agents' unchanged results on to
   `synthesize_findings` (`audit_workflow.py:252-257`); `activities.py:554` says
   "Rejected (false positive): removed from results". The in-process executor
   does remove them.

5. **Approvals outlive a rollback** (PolicyStale). The clean-up of `rollback.sh`
   (lines 179 and 186) writes `COALESCE(TIMESTAMPTZ NULLIF(...), ...)`. In
   PostgreSQL a type name may stand before a string constant, not before a
   function call, so this is a syntax error, the transaction is always rolled
   back, line 173 logs a warning, and the command reports how many approvals it
   has invalidated. The project comes back and the old approval opens the gate. `rollback_README.md:14-15` says of such an approval "It must not
   unlock a future advance". Nor are routes marked as cancelled.

Met while modelling, visible by changing a run as said, without a run of
their own:

* With two callers two transactions may leave two open `phase_history` rows
  (`OneOpenRow` in EngineConcurrent); V14 line 89 reads `exited_at` NULL as
  "currently in this phase".
* Two remediations at once may exceed the budget by one
  (`RemediationWithinBudget` in PolicySerial with two callers): the count at
  `remediation.sh:274` is read long before the row that raises it is written.
* A script that sources `transition.sh` and calls it in an `if` goes on when
  `current="$(_current_phase ...)"` (`transition.sh:261`) fails, in spite of
  `set -e`, and commits `from_phase = ''`. Such a move from verify to build is
  not among the rows that `remediation_check_retry_budget` counts, so the budget
  is that of the moves on record, which is how `RemediationWithinBudget` counts.
* `gate.sh` reject and request-changes roll back without a clean-up even by
  intent, so `FreshGate` would fail with them too if that of `rollback.sh` worked.
* The fallback of the Hub's bridge runs after every refusal and moves along no
  edge (`SanctionedMoves` with op `"hub"`).
* A reply to a route from before a rollback is recorded as any other
  (`rollback_README.md:52-53`); `gate_approve` approves the current phase
  while the engine asks for an approval of the next.
* Decision store: acking twice starts the follow-up twice (`HookOnce` with one
  person and two clicks): `_post_ack.py` 1877-1879 expects its caller to gate on
  the card's status and `ack_decision_internal` does not. A restart before the background INSERT loses the card; an
  INSERT overtaken by a decision writes pending back, and in an autonomous
  project the card is acked again; two deciders can leave cache and table with
  different decisions; a listing filtered by status is not corrected by a
  cached decision; with queries failing the runner acks the same card again
  and again. These are the cards in `missed`, or the reason `CacheFollowsDb`
  is checked with one decider.
* Fix loop: two dispatches that read the slot before either takes it both
  start; a dispatch whose slot was reaped or cancelled later clears its
  successor's; two remediations that finish together count once; a
  role-failure card appears before the slot is cleared, so a quick retry is
  refused and the card is used up; acking the briefing card runs the engineer
  outside the slot and uncounted; a rejected code approval whose regeneration
  raises leaves no card; `code_fix_iteration` is not reset by a passing
  review. These are the conditions `~forced` and `~silent`. Past the limit two
  acked `code_review_blocked` cards remediate side by side outside the slot and
  may count once, which no condition on people's dispatches rules out:
  `CountExact` therefore speaks of the counter until the limit is reached, which
  is what the limit is for.
* `pipeline_paused` is set and never cleared.
* Hub chain: `KIND_ROLE_DISPATCH` has no `auditor_approval`, `release_approval`
  or `operate_kickoff`, although `test_golden_path_e2e.py:61-65` says "Every
  phase_watcher dispatch_kind routes through KIND_ROLE_DISPATCH"; the operate
  phase is not reached, and while a release manager runs in `verify_approved`
  the watcher's gap card pauses an autonomous project. Each rule of the watcher
  selects three projects, in no order, and those with a pending card are passed
  over afterwards: three that are parked on cards hide a fourth whose work is due
  for as long as they stay parked (`DueWorkSurfaces` without its premise). The
  watcher looks at
  finished dispatches only, and at the cards once per tick, so it starts a role
  a second time while a hook runs it. A rejected artifact still satisfies its
  rules. A stale card moves the phase back, by the bridge's fallback. A restart
  between the artifact and its card leaves neither a card nor a rule that
  matches; so do a regeneration that raises and a deployment that finds no
  workspace or cannot start its process. The path of `_post_ack.py` into the
  operate phase uses `datetime` without importing it.
* Outbox: "No work is dropped because the cursor is only advanced after a
  successful commit" (`spine_watcher.py:28-30`) does not hold of costs with a key:
  any unique violation is taken for a retry, that of the one-active-assignment
  index included, which the first cost after midnight meets while yesterday's
  assignment is active. `ingest_cost_line` is not idempotent (line 774): its
  audit event is written again on replay. A retry with the same key in another
  second is not detected; two costs of one second collide on the primary key.
  An event after midnight with yesterday's assignment active, and an engagement
  whose slug is taken, stop their file for good. The `UndefinedColumn`
  fall-backs run inside the aborted transaction. The cursor counts bytes of
  text decoded with `errors="replace"`. The heartbeat's docstring (1157) says
  `alive` where the code keeps `stopped` (1313).
* Buses: the comment at `portfolio.sh:139-140` calls drain "event-driven from
  router.sh's reply handler", which does not call it; V17 lines 9-10 say that
  `portfolio.sh` is the only writer of the queue, which the role worker also
  updates. The worker's dispatches leave no `route_history` row and so escape
  the limit; a lost reply holds a slot for ever. A role that runs longer than
  ten minutes is dispatched again, and a claim may write "running" over "done".
* Audits: a retry after a late attempt stores the findings twice with the total
  of one pass; the reconcile UPDATE is by ids of an earlier SELECT;
  `start_workflow` may raise after the server started it, and the row says
  failed while the audit runs; the background run dies with the API and its row
  stays running; a hand-off that raises after completion turns completed into
  failed; an import before the counts is not in them; imports at once, or an
  import and a pass, count without each other's rows, and the later UPDATE
  leaves `findings_total` short (`audits.py:617-642`, no lock); an agent's exception is an
  empty answer. These are the conditions of `OutcomeAgrees` and `CountsExact`.
* Cascade: the verifier of signatures is never called, though the docstring
  lists "Validate signature"; `reject` ("Mark a pending update rejected") does
  not look at the status; a Hub that dies between completed and its children's
  rows never offers them, and a row left in progress is never taken up;
  `is_allowed` accepts a record that names the Hub as the parent.

## 8. What is not modelled

Cryptography (HMAC signatures, Shamir shares), text (prompts, charters,
directives, findings), model calls except by their outcome, shell and
container runners, browser and voice clients, outside services, and read-only
views: no state of theirs is read back by the parts above except through the
values the models have. Of TRON the life of a run is modelled; its agents,
sandbox, fix workflow and webhooks are not, and the verdict FixLoop gets is an
input of it. The manifest is fixed during a behaviour:
re-pinning a project (`plan/pipeline/project_lock.py`) is planned. Audit rows
and server-sent events are best effort and are left out of the actions that
write them. Project creation is the initial state. The operate phase, feature
requests and mandatory update classes are left out.

Limits on the number of projects or rows a poll returns, and what only makes it
pass over one of them: one project and a few directives are modelled, so the
runner's twenty most recently updated projects (`pipeline_runner.py:55-56`) and
the role worker's twenty rows over all projects, before it looks for room
(`role_worker.py:151-152`, 313), are taken to suffice; with more, a paused
project's rows can hold up another's. A `status.json` that cannot be read and a
role nobody knows are passed over by the worker's scan (112-115, 119-121), which
leaves those directives where they are, and the worker is running
(it is opt-in, 407). Of malformed outbox lines those that raise a `ValueError` are
modelled (`StopAtLine`); JSON of an unexpected shape raises `AttributeError` or
`TypeError` (`spine_watcher.py:1692`, 618, 789), which ends the watcher at that
line each time it is started, and is left out. `PhaseReturns` lets the deep pass
reject findings under Temporal too, which the missing tags prevent
(`activities.py:813`): more behaviours than the code has, none that a property
depends on. The recovery controls of FixLoop that load the metadata and write it
in a later query (`StatusPoll`, `CancelInflight`) are their writes: the patch
names no slot, so it clears the one that is there.

Sequential or nearly so, read and left for later: the restart supervisor
(`recovery/auto_recovery.py`, which takes a PID file unlinked as stale for an
operator's stop), the secret cache (a fetch that began before a put caches the
old value again, until its TTL), the decision ledger (its lock is within one
process, and the last hash is looked for in the last 4096 bytes), the quota
ledger, backup and restore, the build and verify dispatchers.

## 9. Plan

Done, in this order: the engine with its abstract specification and proofs;
the policy scripts; the decision store with the runner; the fix loop; the Hub
chain with the phase watcher; the outbox watcher; the work buses; audit runs;
the update cascade; then the proofs of section 6, module by module.

Next modules, most important first:

1. *Ledgers*: quota and decision ledger chains under concurrent writers; the
   promotion rules.
2. *Restart supervisor*: counts, the breaker, PID files and an operator.
3. *Verify dispatcher* composed with OrchestratorPolicy and AuditRuns.
4. *Re-pinning* of the manifest in the engine.
5. Small ones: token bucket, secrets cache and leases.

Next theorems: what the fallback of `advance_lifecycle_phase` keeps of
`Lifecycle` (an abstract specification with an unguarded move of its own), and
an abstract specification of a settled directive that `WorkBus` and the role
dispatch of `HubPipeline` both implement.
