----------------------------- MODULE MCServices -----------------------------
(***************************************************************************)
(* The Hub's lifecycle chain and the four services beside it, one at a     *)
(* time: they share no state, so a behaviour of the program is an          *)
(* interleaving of behaviours of each, and a property that speaks of one   *)
(* holds of it if it holds when only that one moves.                       *)
(***************************************************************************)
EXTENDS HubPipeline, OutboxWatcher, WorkBus, AuditRuns, UpdateCascade

VARIABLE focus   \* the one that moves

allVars == << focus, hubVars, outboxVars, busVars, auditVars, cascadeVars >>

-----------------------------------------------------------------------------
(* Values of constants                                                     *)

StockPresets == { "strict" }

OutboxBody(type, what, key, eng) ==
    [ type |-> type, what |-> what, inst |-> "i1", key |-> key, eng |-> eng,
      slug |-> "s1" ]

StockRoleLines ==
    { OutboxBody("cost", "", NoKey, NoKey), OutboxBody("cost", "", "k1", NoKey),
      OutboxBody("event", "PlanWritten", NoKey, NoKey),
      OutboxBody("event", "ReportWritten", NoKey, "e1"),
      OutboxBody("bad", "", NoKey, NoKey), OutboxBody("other", "", NoKey, NoKey) }

StockInstLines ==
    { OutboxBody("instance", "InstanceStarted", NoKey, NoKey),
      OutboxBody("instance", "InstanceHeartbeat", NoKey, NoKey),
      OutboxBody("instance", "InstanceStopped", NoKey, NoKey),
      OutboxBody("engagement", "EngagementCreated", NoKey, "e1"),
      OutboxBody("engagement", "EngagementMessage", NoKey, "e1") }

TwoTiers == [ h \in { "mid", "side" } |-> "root" ]

-----------------------------------------------------------------------------

ServicesInit ==
    /\ focus \in { "hub", "outbox", "bus", "audit", "cascade" }
    /\ HubInit /\ OutboxInit /\ BusInit /\ AuditInit /\ CascadeInit
    /\ focus # "audit" => auditMode = "temporal" /\ suppressed = {}

Frozen(vs) == UNCHANGED << focus, vs >>

ServicesNext ==
    \/ /\ focus = "hub" /\ HubNext
       /\ Frozen(<< outboxVars, busVars, auditVars, cascadeVars >>)
    \/ /\ focus = "outbox" /\ OutboxNext
       /\ Frozen(<< hubVars, busVars, auditVars, cascadeVars >>)
    \/ /\ focus = "bus" /\ BusNext
       /\ Frozen(<< hubVars, outboxVars, auditVars, cascadeVars >>)
    \/ /\ focus = "audit" /\ AuditNext
       /\ Frozen(<< hubVars, outboxVars, busVars, cascadeVars >>)
    \/ /\ focus = "cascade" /\ CascadeNext
       /\ Frozen(<< hubVars, outboxVars, busVars, auditVars >>)

\* Each one's own fairness, of the one that moves.
ServicesFairness ==
    /\ \A s \in { "hook1", "hook2", "recovery" } :
          WF_hubVars(focus = "hub" /\ TaskStep(s))
    /\ WF_hubVars(focus = "hub" /\ RejectStep)
    /\ WF_hubVars(focus = "hub" /\ RunnerStep)
    /\ WF_hubVars(focus = "hub" /\ WatcherTick)
    /\ WF_hubVars(focus = "hub" /\ QuietWindowEnds)
    /\ WF_outboxVars(focus = "outbox" /\ OutboxWatcherStep)
    /\ WF_busVars(focus = "bus" /\ BusWorkerStep)
    /\ \A d \in Directive : /\ WF_busVars(focus = "bus" /\ RoleRun(d))
                            /\ WF_busVars(focus = "bus" /\ Grows(d))
    /\ WF_auditVars(focus = "audit" /\ (CreateAudit \/ DispatchAudit \/ DispatchMarks))
    /\ WF_auditVars(focus = "audit" /\ FlowStep)
    /\ WF_auditVars(focus = "audit" /\ ExecutorStep)
    /\ \A a \in Admin : WF_cascadeVars(focus = "cascade" /\ CascadeStep(a))

ServicesSpec == ServicesInit /\ [][ServicesNext]_allVars /\ ServicesFairness

-----------------------------------------------------------------------------

\* The types of the five; in particular no activity of an audit is attempted
\* more often than its retry policy allows, and no row of the cascade has a
\* status that the schema does not know.
ServicesTypeOK ==
    HubTypeOK /\ OutboxTypeOK /\ BusTypeOK /\ AuditTypeOK /\ CascadeTypeOK

\* An autonomous project gets to its release gate or to a card that somebody
\* has to look at (AutonomousArrives), when it is the Hub that moves.
AutonomousProceeds == <>[](focus = "hub" => Arrived)

\* An audit run that was asked for ends failed or completed and stays so
\* (AuditSettles), when it is the audits that move.
AuditsSettle == <>[](focus = "audit" => AuditSettled)
=============================================================================
