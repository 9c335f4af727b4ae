------------------------- MODULE OrchestratorPolicy -------------------------
(***************************************************************************)
(* The policy scripts of the orchestrator, each a program over the         *)
(* transition engine: gate.sh (approve, reject, request-changes),          *)
(* remediation.sh (verify-fail loop), build_failure_router.sh (build-fail  *)
(* re-plan), rollback.sh, router.sh (dispatch, reply) and the Hub's bridge *)
(* advance_lifecycle_phase with its direct-SQL fallback.                   *)
(*                                                                         *)
(* task[c] is the script that invocation c runs; while the script is       *)
(* inside transition_execute or transition_rollback the engine's call[c]   *)
(* moves, and the script resumes when call[c].pc is "ok" or "err".         *)
(***************************************************************************)
EXTENDS TransitionEngine

CONSTANTS
    Ops,            \* the scripts that invocations run
    SubsystemOf,    \* SubsystemOf[p]: phases[p].subsystem
    Required,       \* Required[p]: the principals of required_approvers
    MinApprovals,   \* MinApprovals[p]: min_approvals of the gate
    LoopMax,        \* verify_build_loop_max
    ReplanMax,      \* build_plan_loop_max (BFR_DEFAULT_LOOP_MAX)
    Killed,         \* whether a script may die between two of its statements
    MaxRoutes       \* bound: route_history rows

AllOps == { "cli", "approve", "reject", "changes", "remediate", "replan",
            "rollback", "hub" }

ASSUME PolicyAssumption ==
    /\ Ops \subseteq AllOps
    /\ { "verify_in_progress", "build_in_progress", "plan_in_progress" }
         \subseteq Phase
    /\ SubsystemOf \in [ Phase -> { "plan", "build", "verify" } ]
    /\ Required \in [ Phase -> SUBSET Approver ]
    /\ MinApprovals \in [ Phase -> Nat ]
    /\ LoopMax \in Nat /\ ReplanMax \in Nat /\ MaxRoutes \in Nat
    /\ Killed \in BOOLEAN
    /\ Approver # {}

VARIABLES
    status,     \* project.status: "paused" also carries metadata.blocked
    routes,     \* route_history rows, oldest first
    task        \* task[c]: the script c runs, its step and its locals

pvars == << phase, hist, approvals, call, status, routes, task >>

Steps == { "start", "grant", "count", "record", "roll", "block", "budget",
           "surface", "dispatch", "exec", "fallback", "done" }

\* at: the phase the script read or was asked for.  said: what
\* advance_lifecycle_phase returned.
Task == [ op : Ops \cup {"none"}, step : Steps, at : Phase, who : Approver,
          said : BOOLEAN ]

Route == [ sub : { "plan", "build", "verify" }, by : Ops \cup {"init"},
           done : BOOLEAN ]

PolicyTypeOK ==
    /\ TypeOK
    /\ status \in { "active", "paused" }
    /\ routes \in Seq(Route)
    /\ task \in [ Callers -> Task ]

NoTask ==
    [ op |-> "none", step |-> "done", at |-> CHOOSE p \in Phase : TRUE,
      who |-> CHOOSE a \in Approver : TRUE, said |-> FALSE ]

\* One directive is in flight: the work that may fail, or reply late.
PolicyInit ==
    /\ Init
    /\ status = "active"
    /\ routes = << [ sub |-> SubsystemOf[phase], by |-> "init",
                     done |-> FALSE ] >>
    /\ task = [ c \in Callers |-> NoTask ]

-----------------------------------------------------------------------------
(* Control of a script.                                                    *)

At(c, op, step) == task[c].op = op /\ task[c].step = step

GotoStep(c, step) == task' = [ task EXCEPT ![c].step = step ]

Finish(c) == task' = [ task EXCEPT ![c] = NoTask ]

Start(c, op, step, p, who) ==
    /\ task[c].op = "none"
    /\ op \in Ops
    /\ task' = [ task EXCEPT ![c] = [ NoTask EXCEPT !.op = op, !.step = step,
                                          !.at = p, !.who = who ] ]

\* The script calls into the engine.
CallExecute(c, t)  == Enter(c, "validate", t)
CallRollback(c, t) == Enter(c, "rbcheck", t)

Returned(c, result) == call[c].pc = result

HangUp(c) == call' = [ call EXCEPT ![c] = IdleCall(phase) ]

\* The script dies, or a query of its own fails, between two statements.
TaskAbort(c) ==
    /\ Killed
    /\ task[c].op # "none"
    /\ Finish(c)
    /\ HangUp(c)
    /\ UNCHANGED << phase, hist, approvals, status, routes >>

-----------------------------------------------------------------------------
(* router.sh                                                               *)

AddRoute(sub, by) ==
    /\ Len(routes) < MaxRoutes
    /\ routes' = Append(routes, [ sub |-> sub, by |-> by, done |-> FALSE ])

\* route_record_reply: the subsystem's answer closes the row if it is open.
RecordReply(i) ==
    /\ ~ routes[i].done
    /\ routes' = [ routes EXCEPT ![i].done = TRUE ]
    /\ UNCHANGED << phase, hist, approvals, call, status, task >>

-----------------------------------------------------------------------------
(* transition.sh from the command line                                     *)

CliExecute(c, t) ==
    /\ Start(c, "cli", "exec", t, task[c].who)
    /\ CallExecute(c, t)
    /\ UNCHANGED << phase, hist, approvals, status, routes >>

CliReturn(c) ==
    /\ task[c].op = "cli" /\ call[c].pc \in Results
    /\ Finish(c) /\ HangUp(c)
    /\ UNCHANGED << phase, hist, approvals, status, routes >>

-----------------------------------------------------------------------------
(* gate.sh approve: the approval is for the phase the project is in.       *)

Authorised(p, who) == Required[p] = {} \/ who \in Required[p]

ApproveStart(c, who) ==
    /\ Authorised(phase, who)
    /\ Start(c, "approve", "grant", phase, who)
    /\ UNCHANGED << phase, hist, approvals, call, status, routes >>

\* approval.py grant, which may fail
ApproveGrant(c) ==
    /\ At(c, "approve", "grant")
    /\ \/ /\ AddApproval(task[c].at, task[c].who)
          /\ GotoStep(c, "count")
       \/ /\ Crashes
          /\ Finish(c)
          /\ UNCHANGED approvals
    /\ UNCHANGED << phase, hist, call, status, routes >>

\* _count_valid_approvals: distinct approvers, of the required ones if any.
ValidApprovers(p) == { a.approver : a \in Live(p) }

Satisfied(p) ==
    LET counted == IF Required[p] = {} THEN ValidApprovers(p)
                                       ELSE ValidApprovers(p) \cap Required[p]
    IN  Cardinality(counted) >= MinApprovals[p]

ApproveCount(c) ==
    /\ At(c, "approve", "count")
    /\ IF Satisfied(task[c].at) /\ NextOf[task[c].at] # << >>
       THEN /\ CallExecute(c, Head(NextOf[task[c].at]))
            /\ GotoStep(c, "exec")
       ELSE Finish(c) /\ UNCHANGED call
    /\ UNCHANGED << phase, hist, approvals, status, routes >>

\* The approval stands whether or not the transition went through.
ApproveReturn(c) ==
    /\ At(c, "approve", "exec") /\ call[c].pc \in Results
    /\ Finish(c) /\ HangUp(c)
    /\ UNCHANGED << phase, hist, approvals, status, routes >>

-----------------------------------------------------------------------------
(* gate.sh reject and request-changes: roll back to the first target.      *)

ReviewStart(c, op) ==
    /\ op \in { "reject", "changes" }
    /\ Start(c, op, "record", phase, task[c].who)
    /\ UNCHANGED << phase, hist, approvals, call, status, routes >>

\* The decision row is written, then transition_rollback runs.  A phase with
\* no rollback target has nothing to call: reject blocks the project, and
\* request-changes names a phase that does not exist and fails.
ReviewRecord(c) ==
    /\ task[c].op \in { "reject", "changes" } /\ task[c].step = "record"
    /\ \/ /\ RollbackTo[task[c].at] # << >>
          /\ CallRollback(c, Head(RollbackTo[task[c].at]))
          /\ GotoStep(c, "roll")
       \/ /\ RollbackTo[task[c].at] = << >>
          /\ IF task[c].op = "reject" THEN GotoStep(c, "block") ELSE Finish(c)
          /\ UNCHANGED call
    /\ UNCHANGED << phase, hist, approvals, status, routes >>

RejectReturn(c) ==
    /\ At(c, "reject", "roll") /\ call[c].pc \in Results
    /\ IF Returned(c, "ok") THEN Finish(c) ELSE GotoStep(c, "block")
    /\ HangUp(c)
    /\ UNCHANGED << phase, hist, approvals, status, routes >>

RejectBlock(c) ==
    /\ At(c, "reject", "block")
    /\ status' = "paused"
    /\ Finish(c)
    /\ UNCHANGED << phase, hist, approvals, call, routes >>

ChangesReturn(c) ==
    /\ At(c, "changes", "roll") /\ call[c].pc \in Results
    /\ IF Returned(c, "ok") THEN GotoStep(c, "dispatch") ELSE Finish(c)
    /\ HangUp(c)
    /\ UNCHANGED << phase, hist, approvals, status, routes >>

\* The dispatch may fail after the rollback is done (router_failure).
ChangesDispatch(c) ==
    /\ At(c, "changes", "dispatch")
    /\ \/ AddRoute(SubsystemOf[Head(RollbackTo[task[c].at])], "changes")
       \/ Crashes /\ UNCHANGED routes
    /\ Finish(c)
    /\ UNCHANGED << phase, hist, approvals, call, status >>

-----------------------------------------------------------------------------
(* remediation.sh dispatch and build_failure_router.sh route: one shape.   *)

LoopOf(op) ==
    IF op = "remediate"
    THEN [ from |-> "verify_in_progress", to |-> "build_in_progress",
           sub |-> "build", max |-> LoopMax ]
    ELSE [ from |-> "build_in_progress", to |-> "plan_in_progress",
           sub |-> "plan", max |-> ReplanMax ]

\* SELECT COUNT(*) FROM transition WHERE from_phase = .. AND to_phase = ..
LoopCount(op) ==
    Cardinality({ i \in DOMAIN hist :
                    /\ hist[i].how \in { "advance", "rollback" }
                    /\ hist[i].from = LoopOf(op).from
                    /\ hist[i].phase = LoopOf(op).to })

\* The failed directive has a route_history row; the script does not look at
\* the phase the project is in.
LoopStart(c, op) ==
    /\ op \in { "remediate", "replan" }
    /\ routes # << >>
    /\ Start(c, op, "budget", phase, task[c].who)
    /\ UNCHANGED << phase, hist, approvals, call, status, routes >>

\* Faulty: one loop too many.
LoopBudgetOffByOne(c) ==
    /\ task[c].step = "budget"
    /\ GotoStep(c, IF LoopCount(task[c].op) > LoopOf(task[c].op).max
                   THEN "surface" ELSE "dispatch")
    /\ UNCHANGED << phase, hist, approvals, call, status, routes >>

LoopBudget(c) ==
    /\ task[c].step = "budget"
    /\ GotoStep(c, IF LoopCount(task[c].op) >= LoopOf(task[c].op).max
                   THEN "surface" ELSE "dispatch")
    /\ UNCHANGED << phase, hist, approvals, call, status, routes >>

\* remediation_surface_to_user, bfr_surface_to_user
LoopSurface(c) ==
    /\ task[c].step = "surface"
    /\ status' = "paused"
    /\ Finish(c)
    /\ UNCHANGED << phase, hist, approvals, call, routes >>

\* Dispatch, then transition_execute; a failed dispatch ends the script.
LoopDispatch(c) ==
    /\ task[c].op \in { "remediate", "replan" } /\ task[c].step = "dispatch"
    /\ \/ /\ AddRoute(LoopOf(task[c].op).sub, task[c].op)
          /\ GotoStep(c, "exec")
          /\ CallExecute(c, LoopOf(task[c].op).to)
       \/ /\ Crashes
          /\ Finish(c)
          /\ UNCHANGED << call, routes >>
    /\ UNCHANGED << phase, hist, approvals, status >>

\* The directive stays dispatched when the transition is refused (exit 5).
LoopReturn(c) ==
    /\ task[c].op \in { "remediate", "replan" } /\ task[c].step = "exec"
    /\ call[c].pc \in Results
    /\ Finish(c) /\ HangUp(c)
    /\ UNCHANGED << phase, hist, approvals, status, routes >>

-----------------------------------------------------------------------------
(* rollback.sh rollback                                                    *)

\* _rollback_target_allowed, then the engine.  The timestamp and the counts
\* read in between only go into the clean-up and the messages.
RollbackStart(c, t) ==
    /\ t \in Elems(RollbackTo[phase])
    /\ Start(c, "rollback", "roll", t, task[c].who)
    /\ CallRollback(c, t)
    /\ UNCHANGED << phase, hist, approvals, status, routes >>

\* After the engine's move a transaction is to expire the approvals, and mark
\* the directives, from after the last entry into the target.  Its statements
\* have TIMESTAMPTZ NULLIF(..), which PostgreSQL does not parse: it never
\* commits, and "failure here is logged but does NOT unwind the rollback".
RollbackReturn(c) ==
    /\ At(c, "rollback", "roll") /\ call[c].pc \in Results
    /\ Finish(c) /\ HangUp(c)
    /\ UNCHANGED << phase, hist, approvals, status, routes >>

-----------------------------------------------------------------------------
(* _pipeline_bridge.advance_lifecycle_phase                                *)

HubStart(c, t, who) ==
    /\ Start(c, "hub", IF t \in Gated THEN "grant" ELSE "start", t, who)
    /\ UNCHANGED << phase, hist, approvals, call, status, routes >>

\* approval_grant finds active projects only; a refusal falls back.
HubGrant(c) ==
    /\ At(c, "hub", "grant")
    /\ \/ /\ status = "active"
          /\ AddApproval(task[c].at, task[c].who)
          /\ GotoStep(c, "start")
       \/ /\ status # "active" \/ Crashes
          /\ GotoStep(c, "fallback")
          /\ UNCHANGED approvals
    /\ UNCHANGED << phase, hist, call, status, routes >>

\* phase_advance: active projects only, then transition.sh execute
HubAdvance(c) ==
    /\ At(c, "hub", "start")
    /\ \/ /\ status = "active"
          /\ CallExecute(c, task[c].at)
          /\ GotoStep(c, "exec")
       \/ /\ status # "active" \/ Crashes
          /\ GotoStep(c, "fallback")
          /\ UNCHANGED call
    /\ UNCHANGED << phase, hist, approvals, status, routes >>

\* Accepted, or refused with a "noop" in the message: True.  Else fall back.
HubReturn(c) ==
    /\ At(c, "hub", "exec") /\ call[c].pc \in Results
    /\ IF Returned(c, "err")
       THEN GotoStep(c, "fallback")
       ELSE task' = [ task EXCEPT ![c].step = "done", ![c].said = TRUE ]
    /\ HangUp(c)
    /\ UNCHANGED << phase, hist, approvals, status, routes >>

\* subprocess.run(timeout=30) kills the shell and phase_advance reports an
\* error.  A psql that already has the transaction is a grandchild: it lives
\* on, and may commit before or after the fallback.
HubTimeout(c) ==
    /\ Killed
    /\ At(c, "hub", "exec")
    /\ GotoStep(c, "fallback")
    /\ IF call[c].pc = "commit" THEN UNCHANGED call ELSE HangUp(c)
    /\ UNCHANGED << phase, hist, approvals, status, routes >>

\* Faulty: the fallback reports success whatever became of its transaction.
HubFallbackBlind(c) ==
    /\ At(c, "hub", "fallback")
    /\ task' = [ task EXCEPT ![c].step = "done", ![c].said = TRUE ]
    /\ UNCHANGED << phase, hist, approvals, call, status, routes >>

\* _fallback_advance: UPDATE project, INSERT phase_history, nothing else.
\* False if its own transaction fails.
HubFallback(c) ==
    /\ At(c, "hub", "fallback")
    /\ \/ /\ Len(hist) < MaxRows
          /\ phase' = task[c].at
          /\ hist' = Append(hist, NewRow("fallback", task[c].at, task[c].at))
          /\ task' = [ task EXCEPT ![c].step = "done", ![c].said = TRUE ]
       \/ /\ Crashes
          /\ GotoStep(c, "done")
          /\ UNCHANGED << phase, hist >>
    /\ UNCHANGED << approvals, call, status, routes >>

HubDone(c) ==
    /\ At(c, "hub", "done")
    /\ call[c].pc \in Results \cup { "idle" }
    /\ Finish(c) /\ HangUp(c)
    /\ UNCHANGED << phase, hist, approvals, status, routes >>

-----------------------------------------------------------------------------

\* gate.sh, remediation.sh and build_failure_router.sh source transition.sh and
\* call transition_execute as a condition, where bash ignores errexit: when
\* the second read of the phase fails, they go on without it.
Sourced(c) == task[c].op \in { "approve", "remediate", "replan" }

\* Statements of transition.sh run as part of the script that called it.
Engine(c) ==
    /\ \/ EngineStatement(c)
       \/ IF Sourced(c) /\ call[c].pc = "reread" THEN RereadBlank(c) ELSE Abort(c)
    /\ UNCHANGED << status, routes, task >>

\* approval.py grant and revoke, and the passing of time
Approvals ==
    /\ \/ \E p \in Requests, who \in Approver : GrantApproval(p, who)
       \/ \E a \in approvals : ExpireApproval(a)
    /\ UNCHANGED << status, routes, task >>

Begin(c) ==
    \/ \E t \in Requests : CliExecute(c, t) \/ RollbackStart(c, t)
    \/ \E t \in Requests, who \in Approver : HubStart(c, t, who)
    \/ \E who \in Approver : ApproveStart(c, who)
    \/ \E op \in { "reject", "changes" } : ReviewStart(c, op)
    \/ \E op \in { "remediate", "replan" } : LoopStart(c, op)

Continue(c) ==
    \/ CliReturn(c)
    \/ ApproveGrant(c) \/ ApproveCount(c) \/ ApproveReturn(c)
    \/ ReviewRecord(c) \/ RejectReturn(c) \/ RejectBlock(c)
    \/ ChangesReturn(c) \/ ChangesDispatch(c)
    \/ LoopBudget(c) \/ LoopSurface(c) \/ LoopDispatch(c) \/ LoopReturn(c)
    \/ RollbackReturn(c)
    \/ HubGrant(c) \/ HubAdvance(c) \/ HubReturn(c) \/ HubTimeout(c)
    \/ HubFallback(c) \/ HubDone(c)
    \/ TaskAbort(c)

PolicyNext ==
    \/ Approvals
    \/ \E i \in DOMAIN routes : RecordReply(i)
    \/ \E c \in Callers : Begin(c) \/ Continue(c) \/ Engine(c)

PolicySpec == PolicyInit /\ [][PolicyNext]_pvars

-----------------------------------------------------------------------------
(* Properties                                                              *)

Commits(c, op) ==
    /\ task[c].op = op
    /\ call[c].pc = "commit"
    /\ call'[c].pc = "ok"

\* A move from verify back to build finds the budget not used up.
MovesWithinBudget ==
    \A c \in Callers :
        (Commits(c, "remediate") /\ phase = "verify_in_progress") =>
            LoopCount("remediate") < LoopMax

\* remediation.sh moves a project from verify back to build only while fewer
\* than verify_build_loop_max such moves are on record, whoever made them.
\* Holds while one script runs at a time; the count is read in one process
\* and the row that raises it is written much later.
RemediationWithinBudget == [][MovesWithinBudget]_pvars

\* build_failure_router.sh: no more re-plan directives than
\* build_plan_loop_max ("never queue past the cap").
ReplanBounded ==
    Cardinality({ i \in DOMAIN routes : routes[i].by = "replan" }) <= ReplanMax

\* Approval a is from before a rollback: row j returned the project to a phase
\* it was in, and has last entered, before the grant.
Stale(a, i) ==
    \E j \in (a.at + 1)..(i - 1) :
        /\ hist[j].how = "rollback"
        /\ \E k \in 1..(j - 1) : hist[k].phase = hist[j].phase
        /\ \A k \in 1..(j - 1) : hist[k].phase = hist[j].phase => k <= a.at

\* rollback_README.md of an approval granted for a later phase than the one a
\* project is rolled back to: "It must not unlock a future advance".
FreshGate ==
    \A i \in DOMAIN hist :
        (hist[i].how = "advance" /\ hist[i].phase \in Gated) =>
            \E a \in approvals :
                a.phase = hist[i].phase /\ a.at < i /\ ~ Stale(a, i)

\* advance_lifecycle_phase: True means that the project is in the target
\* phase, by the engine, because it was there already, or by the fallback; a
\* transaction orphaned by the timeout does not change that.  Holds while one
\* script runs at a time.
HubReportsTruth ==
    \A c \in Callers :
        (At(c, "hub", "done") /\ task[c].said) => phase = task[c].at
=============================================================================
