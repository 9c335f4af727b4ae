---------------------- MODULE OrchestratorPolicyProofs ----------------------
(***************************************************************************)
(* Proofs about OrchestratorPolicy, for every manifest and every bound.    *)
(*                                                                         *)
(* ScriptInv holds for any number of scripts: each one is at a step of its *)
(* own and the engine is where that step left it, so that the scripts keep *)
(* the promises of transition.sh (Inv of TransitionEngineProofs), although *)
(* they grant, expire and, in the Hub's fallback, write history by         *)
(* themselves.  SerialScript holds for one script at a time: what the      *)
(* script has read is still true when it is used.                          *)
(***************************************************************************)
EXTENDS OrchestratorPolicy, TransitionEngineProofs, FiniteSetTheorems

-----------------------------------------------------------------------------
(* Where a script can be, and where the engine is then.                    *)

StepsOf(op) ==
    CASE op = "none"     -> { "done" }
      [] op = "cli"      -> { "exec" }
      [] op = "approve"  -> { "grant", "count", "exec" }
      [] op = "reject"   -> { "record", "roll", "block" }
      [] op = "changes"  -> { "record", "roll", "dispatch" }
      [] op = "rollback" -> { "roll" }
      [] op = "hub"      -> { "grant", "start", "exec", "fallback", "done" }
      [] OTHER           -> { "budget", "surface", "dispatch", "exec" }

\* Between two calls the engine is idle; only the transaction that the Hub's
\* timeout orphaned outlives its call.
PcsAt(op, step) ==
    IF step = "exec" THEN ExecutePcs \cup Results
    ELSE IF step = "roll" THEN RollbackPcs \cup { "ok", "err" }
    ELSE IF op = "hub" /\ step \in { "fallback", "done" } /\ Killed
         THEN { "idle", "commit", "ok", "err" }
    ELSE { "idle" }

Fits(c) ==
    /\ task[c].step \in StepsOf(task[c].op)
    /\ call[c].pc \in PcsAt(task[c].op, task[c].step)
    /\ (task[c].op = "changes" /\ task[c].step \in { "roll", "dispatch" }) =>
          RollbackTo[task[c].at] # << >>

ScriptType ==
    /\ status \in { "active", "paused" }
    /\ routes \in Seq(Route)
    /\ task \in [ Callers -> Task ]

ScriptInv == Inv /\ ScriptType /\ \A c \in Callers : Fits(c)

-----------------------------------------------------------------------------
(* The statements scripts are made of.                                     *)

LEMMA NoTaskFacts ==
    /\ NoTask \in Task
    /\ NoTask.op = "none" /\ NoTask.step = "done" /\ NoTask.said = FALSE
<1>1. (CHOOSE p \in Phase : TRUE) \in Phase
  BY PolicyAssumption
<1>2. (CHOOSE a \in Approver : TRUE) \in Approver
  BY PolicyAssumption
<1> QED
  BY <1>1, <1>2 DEF NoTask, Task, Steps

LEMMA FinishFacts ==
    ASSUME task \in [ Callers -> Task ], NEW c \in Callers, Finish(c)
    PROVE  /\ task' \in [ Callers -> Task ]
           /\ \A d \in Callers \ {c} : task'[d] = task[d]
           /\ task'[c] = NoTask
BY NoTaskFacts DEF Finish

LEMMA GotoStepFacts ==
    ASSUME task \in [ Callers -> Task ], NEW c \in Callers, NEW s \in Steps,
           GotoStep(c, s)
    PROVE  /\ task' \in [ Callers -> Task ]
           /\ \A d \in Callers \ {c} : task'[d] = task[d]
           /\ task'[c] = [ task[c] EXCEPT !.step = s ]
           /\ task'[c].op = task[c].op /\ task'[c].step = s
           /\ task'[c].at = task[c].at
           /\ task'[c].said = task[c].said
BY DEF GotoStep, Task

LEMMA StartFacts ==
    ASSUME task \in [ Callers -> Task ], NEW c \in Callers, NEW op, NEW s \in Steps,
           NEW p \in Phase, NEW who \in Approver, Start(c, op, s, p, who)
    PROVE  /\ task' \in [ Callers -> Task ]
           /\ \A d \in Callers \ {c} : task'[d] = task[d]
           /\ task'[c].op = op /\ op \in Ops /\ task'[c].step = s
           /\ task'[c].at = p /\ task'[c].said = FALSE
           /\ task[c].op = "none"
<1> DEFINE r == [ NoTask EXCEPT !.op = op, !.step = s, !.at = p, !.who = who ]
<1>1. /\ r \in Task
      /\ r.op = op /\ r.step = s /\ r.at = p /\ r.said = FALSE
  BY NoTaskFacts DEF Start, Task
<1>2. task' = [ task EXCEPT ![c] = r ] /\ op \in Ops /\ task[c].op = "none"
  BY DEF Start
<1> HIDE DEF r
<1> QED
  BY <1>1, <1>2

LEMMA EnterFacts ==
    ASSUME TypeOK, NEW c \in Callers, NEW p \in Pcs, NEW t \in Phase,
           Enter(c, p, t)
    PROVE  /\ call' \in [ Callers -> Call ]
           /\ \A d \in Callers \ {c} : call'[d] = call[d]
           /\ call'[c].pc = p /\ call'[c].target = t
<1>1. [ pc |-> p, target |-> t, from |-> t, rows |-> {} ] \in Call
  BY DEF Call
<1> QED
  BY <1>1 DEF Enter, TypeOK

LEMMA HangUpFacts ==
    ASSUME TypeOK, NEW c \in Callers, HangUp(c)
    PROVE  /\ call' \in [ Callers -> Call ]
           /\ \A d \in Callers \ {c} : call'[d] = call[d]
           /\ call'[c].pc = "idle"
<1>1. IdleCall(phase) \in Call /\ IdleCall(phase).pc = "idle"
  BY DEF IdleCall, Call, Pcs, TypeOK
<1> QED
  BY <1>1 DEF HangUp, TypeOK

-----------------------------------------------------------------------------
(* What one statement of a script does.                                    *)

\* The project is left alone, and the engine too unless c calls or hangs up.
Quiet(c) ==
    /\ UNCHANGED << phase, hist, approvals >>
    /\ call' \in [ Callers -> Call ]
    /\ call'[c] = call[c] \/ call'[c].pc \in { "idle", "validate", "rbcheck" }

Granted ==
    /\ \E p \in Phase, who \in Approver : AddApproval(p, who)
    /\ UNCHANGED << phase, hist, call >>

Others(c) ==
    \A d \in Callers \ {c} : task'[d] = task[d] /\ call'[d] = call[d]

Orderly(c) ==
    /\ ScriptType'
    /\ Others(c)
    /\ Fits(c)'
    /\ Quiet(c) \/ Granted \/ HubFallback(c)

\* A script that ends leaves the engine idle.
LEMMA Ends ==
    ASSUME ScriptInv, NEW c \in Callers, Finish(c),
           HangUp(c) \/ (call' = call /\ call[c].pc = "idle"),
           status' \in { "active", "paused" }, routes' \in Seq(Route),
           UNCHANGED << phase, hist, approvals >>
    PROVE  Orderly(c)
<1>0. TypeOK /\ ScriptType
  BY DEF ScriptInv, Inv
<1>1. /\ task' \in [ Callers -> Task ]
      /\ \A d \in Callers \ {c} : task'[d] = task[d]
      /\ task'[c].op = "none" /\ task'[c].step = "done"
  BY <1>0, FinishFacts, NoTaskFacts DEF ScriptType
<1>2. /\ call' \in [ Callers -> Call ]
      /\ \A d \in Callers \ {c} : call'[d] = call[d]
      /\ call'[c].pc = "idle"
  <2>1. CASE HangUp(c)
    BY <1>0, <2>1, HangUpFacts
  <2>2. CASE call' = call /\ call[c].pc = "idle"
    BY <1>0, <2>2 DEF TypeOK
  <2> QED
    BY <2>1, <2>2
<1>3. Fits(c)'
  BY <1>1, <1>2 DEF Fits, StepsOf, PcsAt
<1> QED
  BY <1>1, <1>2, <1>3 DEF Orderly, ScriptType, Others, Quiet

\* A script goes on to a step for which the engine is in the right place.
LEMMA GoesOn ==
    ASSUME ScriptInv, NEW c \in Callers, NEW s \in StepsOf(task[c].op),
           s \in Steps, GotoStep(c, s),
           (task[c].op = "changes" /\ s \in { "roll", "dispatch" }) =>
              RollbackTo[task[c].at] # << >>,
           \/ HangUp(c) /\ "idle" \in PcsAt(task[c].op, s)
           \/ call' = call /\ call[c].pc \in PcsAt(task[c].op, s)
           \/ \E t \in Phase : CallExecute(c, t) /\ s = "exec"
           \/ \E t \in Phase : CallRollback(c, t) /\ s = "roll",
           status' \in { "active", "paused" }, routes' \in Seq(Route),
           UNCHANGED << phase, hist, approvals >> \/ Granted
    PROVE  Orderly(c)
<1>0. TypeOK /\ ScriptType
  BY DEF ScriptInv, Inv
<1>1. /\ task' \in [ Callers -> Task ]
      /\ \A d \in Callers \ {c} : task'[d] = task[d]
      /\ task'[c].op = task[c].op /\ task'[c].step = s /\ task'[c].at = task[c].at
  BY <1>0, GotoStepFacts DEF ScriptType
<1>2. /\ call' \in [ Callers -> Call ]
      /\ \A d \in Callers \ {c} : call'[d] = call[d]
      /\ call'[c].pc \in PcsAt(task[c].op, s)
      /\ call'[c] = call[c] \/ call'[c].pc \in { "idle", "validate", "rbcheck" }
  <2>1. CASE HangUp(c) /\ "idle" \in PcsAt(task[c].op, s)
    BY <1>0, <2>1, HangUpFacts
  <2>2. CASE call' = call /\ call[c].pc \in PcsAt(task[c].op, s)
    BY <1>0, <2>2 DEF TypeOK
  <2>3. ASSUME NEW t \in Phase, CallExecute(c, t), s = "exec"
        PROVE  <1>2!:
    <3>1. "validate" \in Pcs /\ "validate" \in PcsAt(task[c].op, s)
      BY <2>3 DEF Pcs, ExecutePcs, PcsAt
    <3> QED
      BY <1>0, <2>3, <3>1, EnterFacts DEF CallExecute
  <2>4. ASSUME NEW t \in Phase, CallRollback(c, t), s = "roll"
        PROVE  <1>2!:
    <3>1. "rbcheck" \in Pcs /\ "rbcheck" \in PcsAt(task[c].op, s)
      BY <2>4 DEF Pcs, RollbackPcs, PcsAt
    <3> QED
      BY <1>0, <2>4, <3>1, EnterFacts DEF CallRollback
  <2> QED
    BY <2>1, <2>2, <2>3, <2>4
<1>3. Fits(c)'
  BY <1>1, <1>2 DEF Fits
<1>4. ScriptType' /\ Others(c)
  BY <1>1, <1>2 DEF ScriptType, Others
<1>5. Quiet(c) \/ Granted
  BY <1>2 DEF Quiet
<1> QED
  BY <1>3, <1>4, <1>5 DEF Orderly

\* A script begins where the engine is idle.
LEMMA Begins ==
    ASSUME ScriptInv, NEW c \in Callers, NEW op, NEW s \in StepsOf(op), s \in Steps,
           NEW p \in Phase, NEW who \in Approver, Start(c, op, s, p, who),
           s # "dispatch",
           \/ s # "exec" /\ s # "roll" /\ call' = call
           \/ s = "exec" /\ CallExecute(c, p)
           \/ op = "rollback" /\ s = "roll" /\ CallRollback(c, p),
           UNCHANGED << phase, hist, approvals, status, routes >>
    PROVE  Orderly(c)
<1>0. TypeOK /\ ScriptType /\ Fits(c)
  BY DEF ScriptInv, Inv
<1>1. /\ task' \in [ Callers -> Task ]
      /\ \A d \in Callers \ {c} : task'[d] = task[d]
      /\ task'[c].op = op /\ task'[c].step = s /\ task[c].op = "none"
  BY <1>0, StartFacts, ZenonT(30) DEF ScriptType
<1>2. call[c].pc = "idle"
  BY <1>0, <1>1 DEF Fits, StepsOf, PcsAt
<1>3. /\ call' \in [ Callers -> Call ]
      /\ \A d \in Callers \ {c} : call'[d] = call[d]
      /\ call'[c].pc \in PcsAt(op, s)
      /\ call'[c] = call[c] \/ call'[c].pc \in { "idle", "validate", "rbcheck" }
  <2>1. CASE s # "exec" /\ s # "roll" /\ call' = call
    BY <1>0, <1>2, <2>1 DEF PcsAt, TypeOK
  <2>2. CASE s = "exec" /\ CallExecute(c, p)
    <3>1. "validate" \in Pcs /\ "validate" \in PcsAt(op, s)
      BY <2>2 DEF Pcs, ExecutePcs, PcsAt
    <3> QED
      BY <1>0, <2>2, <3>1, EnterFacts DEF CallExecute
  <2>3. CASE s = "roll" /\ CallRollback(c, p)
    <3>1. "rbcheck" \in Pcs /\ "rbcheck" \in PcsAt(op, s)
      BY <2>3 DEF Pcs, RollbackPcs, PcsAt
    <3> QED
      BY <1>0, <2>3, <3>1, EnterFacts DEF CallRollback
  <2> QED
    BY <2>1, <2>2, <2>3
<1>4. Fits(c)'
  <2>1. op # "changes" \/ s # "roll"
    OBVIOUS
  <2> QED
    BY <1>1, <1>3, <2>1 DEF Fits
<1>5. ScriptType' /\ Others(c) /\ Quiet(c)
  BY <1>0, <1>1, <1>3 DEF ScriptType, Others, Quiet
<1> QED
  BY <1>4, <1>5 DEF Orderly

LEMMA RouteType ==
    ASSUME ScriptInv, NEW sub \in { "plan", "build", "verify" }, NEW by \in Ops,
           AddRoute(sub, by)
    PROVE  routes' \in Seq(Route)
<1>1. [ sub |-> sub, by |-> by, done |-> FALSE ] \in Route
  BY DEF ScriptInv, Inv, TypeOK, Route
<1> QED
  BY <1>1 DEF AddRoute, ScriptInv, ScriptType

\* The phases that the manifest offers as a successor or a rollback target.
LEMMA Listed ==
    ASSUME NEW p \in Phase
    PROVE  /\ NextOf[p] # << >> => Head(NextOf[p]) \in Phase
           /\ RollbackTo[p] # << >> => Head(RollbackTo[p]) \in Phase
           /\ Elems(RollbackTo[p]) \subseteq Phase
           /\ SubsystemOf[p] \in { "plan", "build", "verify" }
<1>1. NextOf[p] \in Seq(Phase) /\ RollbackTo[p] \in Seq(Phase)
  BY ManifestAssumption
<1>2. Elems(RollbackTo[p]) \subseteq Phase
  BY <1>1 DEF Elems
<1>3. SubsystemOf[p] \in { "plan", "build", "verify" }
  BY PolicyAssumption
<1> QED
  BY <1>1, <1>2, <1>3

LEMMA BeginOrderly ==
    ASSUME ScriptInv, NEW c \in Callers, Begin(c)
    PROVE  Orderly(c)
<1>0. /\ TypeOK /\ ScriptType /\ Fits(c)
      /\ phase \in Phase /\ task[c] \in Task /\ task[c].who \in Approver
      /\ Requests \subseteq Phase
  BY ManifestAssumption DEF ScriptInv, Inv, ScriptType, TypeOK, Task
<1>s. { "exec", "grant", "start", "record", "budget" } \subseteq Steps
  BY DEF Steps
<1>1. ASSUME NEW t \in Requests, CliExecute(c, t)
      PROVE  Orderly(c)
  <2>1. "exec" \in StepsOf("cli")
    BY DEF StepsOf
  <2> QED
    BY <1>0, <1>s, <1>1, <2>1, Begins DEF CliExecute
<1>2. ASSUME NEW t \in Requests, RollbackStart(c, t)
      PROVE  Orderly(c)
  <2>1. "roll" \in StepsOf("rollback") /\ "roll" \in Steps
    BY DEF StepsOf, Steps
  <2> QED
    BY <1>0, <1>2, <2>1, Begins DEF RollbackStart
<1>3. ASSUME NEW t \in Requests, NEW who \in Approver, HubStart(c, t, who)
      PROVE  Orderly(c)
  <2> DEFINE s == IF t \in Gated THEN "grant" ELSE "start"
  <2>1. s \in StepsOf("hub") /\ s \in Steps /\ s # "exec" /\ s # "roll"
        /\ s # "dispatch"
    BY DEF StepsOf, Steps
  <2>2. Start(c, "hub", s, t, who)
    BY <1>3 DEF HubStart
  <2> HIDE DEF s
  <2> QED
    BY <1>0, <1>3, <2>1, <2>2, Begins DEF HubStart
<1>4. ASSUME NEW who \in Approver, ApproveStart(c, who)
      PROVE  Orderly(c)
  <2>1. "grant" \in StepsOf("approve")
    BY DEF StepsOf
  <2> QED
    BY <1>0, <1>s, <1>4, <2>1, Begins DEF ApproveStart
<1>5. ASSUME NEW op \in { "reject", "changes" }, ReviewStart(c, op)
      PROVE  Orderly(c)
  <2>1. "record" \in StepsOf(op)
    BY DEF StepsOf
  <2> QED
    BY <1>0, <1>s, <1>5, <2>1, Begins DEF ReviewStart
<1>6. ASSUME NEW op \in { "remediate", "replan" }, LoopStart(c, op)
      PROVE  Orderly(c)
  <2>1. "budget" \in StepsOf(op)
    BY DEF StepsOf
  <2> QED
    BY <1>0, <1>s, <1>6, <2>1, Begins DEF LoopStart
<1> QED
  BY <1>1, <1>2, <1>3, <1>4, <1>5, <1>6 DEF Begin

\* At a step that makes no call the engine is idle.
LEMMA Waits ==
    ASSUME ScriptInv, NEW c \in Callers,
           task[c].step \in { "start", "grant", "count", "record", "block", "budget",
                             "surface", "dispatch" }
    PROVE  call[c].pc = "idle"
BY DEF ScriptInv, Fits, PcsAt

LEMMA ContinueOrderly ==
    ASSUME ScriptInv, NEW c \in Callers, Continue(c)
    PROVE  Orderly(c)
<1>0. /\ TypeOK /\ ScriptType /\ Fits(c)
      /\ task[c] \in Task /\ task[c].at \in Phase /\ task[c].who \in Approver
      /\ status \in { "active", "paused" } /\ routes \in Seq(Route)
      /\ call \in [ Callers -> Call ]
  BY DEF ScriptInv, Inv, ScriptType, TypeOK, Task
<1>s. { "count", "exec", "roll", "block", "dispatch", "surface", "start",
        "fallback", "done" } \subseteq Steps
  BY DEF Steps
<1>1. ASSUME CliReturn(c) \/ ApproveReturn(c) \/ LoopReturn(c) \/ HubDone(c)
             \/ RollbackReturn(c) \/ TaskAbort(c)
      PROVE  Orderly(c)
  <2>1. Finish(c) /\ HangUp(c) /\ UNCHANGED << phase, hist, approvals, status, routes >>
    BY <1>1 DEF CliReturn, ApproveReturn, LoopReturn, HubDone, RollbackReturn, TaskAbort
  <2> QED
    BY <1>0, <2>1, Ends
<1>2. ASSUME ApproveGrant(c) PROVE Orderly(c)
  <2>1. call[c].pc = "idle" /\ task[c].op = "approve"
    BY <1>2, Waits DEF ApproveGrant, At
  <2>2. CASE AddApproval(task[c].at, task[c].who) /\ GotoStep(c, "count")
    <3>1. Granted
      BY <1>0, <1>2, <2>2 DEF Granted, ApproveGrant
    <3>2. "count" \in StepsOf(task[c].op) /\ "idle" \in PcsAt(task[c].op, "count")
      BY <2>1 DEF StepsOf, PcsAt
    <3> QED
      BY <1>0, <1>s, <1>2, <2>1, <2>2, <3>1, <3>2, GoesOn DEF ApproveGrant
  <2>3. CASE Finish(c) /\ UNCHANGED approvals
    BY <1>0, <1>2, <2>1, <2>3, Ends DEF ApproveGrant
  <2> QED
    BY <1>2, <2>2, <2>3 DEF ApproveGrant
<1>3. ASSUME ApproveCount(c) PROVE Orderly(c)
  <2>1. call[c].pc = "idle" /\ task[c].op = "approve"
    BY <1>3, Waits DEF ApproveCount, At
  <2>2. CASE /\ NextOf[task[c].at] # << >>
             /\ CallExecute(c, Head(NextOf[task[c].at])) /\ GotoStep(c, "exec")
    <3>1. Head(NextOf[task[c].at]) \in Phase
      BY <1>0, <2>2, Listed
    <3>2. "exec" \in StepsOf(task[c].op)
      BY <2>1 DEF StepsOf
    <3> QED
      BY <1>0, <1>s, <1>3, <2>2, <3>1, <3>2, GoesOn DEF ApproveCount
  <2>3. CASE Finish(c) /\ UNCHANGED call
    BY <1>0, <1>3, <2>1, <2>3, Ends DEF ApproveCount
  <2> QED
    BY <1>3, <2>2, <2>3 DEF ApproveCount
<1>4. ASSUME ReviewRecord(c) PROVE Orderly(c)
  <2>1. call[c].pc = "idle" /\ task[c].op \in { "reject", "changes" }
    BY <1>4, Waits DEF ReviewRecord
  <2>2. CASE /\ RollbackTo[task[c].at] # << >>
             /\ CallRollback(c, Head(RollbackTo[task[c].at])) /\ GotoStep(c, "roll")
    <3>1. Head(RollbackTo[task[c].at]) \in Phase
      BY <1>0, <2>2, Listed
    <3>2. "roll" \in StepsOf(task[c].op)
      BY <2>1 DEF StepsOf
    <3> QED
      BY <1>0, <1>s, <1>4, <2>2, <3>1, <3>2, GoesOn DEF ReviewRecord
  <2>3. CASE task[c].op = "reject" /\ GotoStep(c, "block") /\ UNCHANGED call
    <3>1. "block" \in StepsOf(task[c].op) /\ "idle" \in PcsAt(task[c].op, "block")
      BY <2>3 DEF StepsOf, PcsAt
    <3> QED
      BY <1>0, <1>s, <1>4, <2>1, <2>3, <3>1, GoesOn DEF ReviewRecord
  <2>4. CASE Finish(c) /\ UNCHANGED call
    BY <1>0, <1>4, <2>1, <2>4, Ends DEF ReviewRecord
  <2> QED
    BY <1>4, <2>2, <2>3, <2>4 DEF ReviewRecord
<1>5. ASSUME RejectReturn(c) PROVE Orderly(c)
  <2>1. CASE Finish(c)
    BY <1>0, <1>5, <2>1, Ends DEF RejectReturn
  <2>2. CASE GotoStep(c, "block")
    <3>1. "block" \in StepsOf(task[c].op) /\ "idle" \in PcsAt(task[c].op, "block")
      BY <1>5 DEF StepsOf, PcsAt, RejectReturn, At
    <3> QED
      BY <1>0, <1>s, <1>5, <2>2, <3>1, GoesOn DEF RejectReturn
  <2> QED
    BY <1>5, <2>1, <2>2 DEF RejectReturn
<1>6. ASSUME ChangesReturn(c) PROVE Orderly(c)
  <2>1. CASE Finish(c)
    BY <1>0, <1>6, <2>1, Ends DEF ChangesReturn
  <2>2. CASE GotoStep(c, "dispatch")
    <3>1. "dispatch" \in StepsOf(task[c].op) /\ "idle" \in PcsAt(task[c].op, "dispatch")
      BY <1>6 DEF StepsOf, PcsAt, ChangesReturn, At
    <3>2. RollbackTo[task[c].at] # << >>
      BY <1>0, <1>6 DEF Fits, ChangesReturn, At
    <3> QED
      BY <1>0, <1>s, <1>6, <2>2, <3>1, <3>2, GoesOn DEF ChangesReturn
  <2> QED
    BY <1>6, <2>1, <2>2 DEF ChangesReturn
<1>7. ASSUME RejectBlock(c) \/ LoopSurface(c) PROVE Orderly(c)
  <2>1. call[c].pc = "idle" /\ call' = call /\ status' = "paused" /\ routes' = routes
        /\ Finish(c) /\ UNCHANGED << phase, hist, approvals >>
    BY <1>7, Waits DEF RejectBlock, LoopSurface, At
  <2> QED
    BY <1>0, <2>1, Ends
<1>8. ASSUME ChangesDispatch(c) PROVE Orderly(c)
  <2>1. call[c].pc = "idle" /\ task[c].op = "changes"
    BY <1>8, Waits DEF ChangesDispatch, At
  <2>2. CASE UNCHANGED routes
    BY <1>0, <1>8, <2>1, <2>2, Ends DEF ChangesDispatch
  <2>3. CASE AddRoute(SubsystemOf[Head(RollbackTo[task[c].at])], "changes")
    <3>0. RollbackTo[task[c].at] # << >>
      BY <1>0, <1>8 DEF Fits, ChangesDispatch, At
    <3>1. SubsystemOf[Head(RollbackTo[task[c].at])] \in { "plan", "build", "verify" }
      BY <1>0, <3>0, Listed
    <3>2. "changes" \in Ops
      BY <1>0, <2>1 DEF Task
    <3>3. routes' \in Seq(Route)
      BY <2>3, <3>1, <3>2, RouteType
    <3> QED
      BY <1>0, <1>8, <2>1, <3>3, Ends DEF ChangesDispatch
  <2> QED
    BY <1>8, <2>2, <2>3 DEF ChangesDispatch
<1>9. ASSUME LoopBudget(c) PROVE Orderly(c)
  <2>1. call[c].pc = "idle" /\ task[c].op \in { "remediate", "replan" }
    <3>1. task[c].op \in AllOps \cup { "none" } /\ task[c].step = "budget"
      BY <1>0, <1>9, PolicyAssumption DEF LoopBudget, Task
    <3>2. "budget" \in StepsOf(task[c].op)
      BY <1>0, <3>1 DEF Fits
    <3> QED
      BY <3>1, <3>2, Waits DEF StepsOf, AllOps
  <2>2. PICK s \in { "surface", "dispatch" } : GotoStep(c, s)
    BY <1>9 DEF LoopBudget
  <2>3. s \in StepsOf(task[c].op) /\ "idle" \in PcsAt(task[c].op, s)
    BY <2>1 DEF StepsOf, PcsAt
  <2> QED
    BY <1>0, <1>s, <1>9, <2>1, <2>2, <2>3, GoesOn DEF LoopBudget
<1>10. ASSUME LoopDispatch(c) PROVE Orderly(c)
  <2>1. /\ call[c].pc = "idle" /\ task[c].op \in { "remediate", "replan" }
        /\ task[c].op \in Ops
    BY <1>0, <1>10, Waits DEF LoopDispatch, Task
  <2>2. CASE /\ AddRoute(LoopOf(task[c].op).sub, task[c].op) /\ GotoStep(c, "exec")
             /\ CallExecute(c, LoopOf(task[c].op).to)
    <3>1. /\ LoopOf(task[c].op).sub \in { "plan", "build", "verify" }
          /\ LoopOf(task[c].op).to \in Phase
      BY PolicyAssumption DEF LoopOf
    <3>2. routes' \in Seq(Route)
      BY <2>1, <2>2, <3>1, RouteType
    <3>3. "exec" \in StepsOf(task[c].op)
      BY <2>1 DEF StepsOf
    <3> QED
      BY <1>0, <1>s, <1>10, <2>2, <3>1, <3>2, <3>3, GoesOn DEF LoopDispatch
  <2>3. CASE Finish(c) /\ UNCHANGED << call, routes >>
    BY <1>0, <1>10, <2>1, <2>3, Ends DEF LoopDispatch
  <2> QED
    BY <1>10, <2>2, <2>3 DEF LoopDispatch
<1>11. ASSUME HubGrant(c) PROVE Orderly(c)
  <2>1. call[c].pc = "idle" /\ task[c].op = "hub"
    BY <1>11, Waits DEF HubGrant, At
  <2>2. CASE AddApproval(task[c].at, task[c].who) /\ GotoStep(c, "start")
    <3>1. Granted
      BY <1>0, <1>11, <2>2 DEF Granted, HubGrant
    <3>2. "start" \in StepsOf(task[c].op) /\ "idle" \in PcsAt(task[c].op, "start")
      BY <2>1 DEF StepsOf, PcsAt
    <3> QED
      BY <1>0, <1>s, <1>11, <2>1, <2>2, <3>1, <3>2, GoesOn DEF HubGrant
  <2>3. CASE GotoStep(c, "fallback") /\ UNCHANGED approvals
    <3>1. "fallback" \in StepsOf(task[c].op) /\ "idle" \in PcsAt(task[c].op, "fallback")
      BY <2>1 DEF StepsOf, PcsAt
    <3> QED
      BY <1>0, <1>s, <1>11, <2>1, <2>3, <3>1, GoesOn DEF HubGrant
  <2> QED
    BY <1>11, <2>2, <2>3 DEF HubGrant
<1>12. ASSUME HubAdvance(c) PROVE Orderly(c)
  <2>1. call[c].pc = "idle" /\ task[c].op = "hub"
    BY <1>12, Waits DEF HubAdvance, At
  <2>2. CASE CallExecute(c, task[c].at) /\ GotoStep(c, "exec")
    <3>1. "exec" \in StepsOf(task[c].op)
      BY <2>1 DEF StepsOf
    <3> QED
      BY <1>0, <1>s, <1>12, <2>1, <2>2, <3>1, GoesOn DEF HubAdvance
  <2>3. CASE GotoStep(c, "fallback") /\ UNCHANGED call
    <3>1. "fallback" \in StepsOf(task[c].op) /\ "idle" \in PcsAt(task[c].op, "fallback")
      BY <2>1 DEF StepsOf, PcsAt
    <3> QED
      BY <1>0, <1>s, <1>12, <2>1, <2>3, <3>1, GoesOn DEF HubAdvance
  <2> QED
    BY <1>12, <2>2, <2>3 DEF HubAdvance
<1>13. ASSUME HubReturn(c) PROVE Orderly(c)
  <2>1. CASE GotoStep(c, "fallback")
    <3>1. "fallback" \in StepsOf(task[c].op) /\ "idle" \in PcsAt(task[c].op, "fallback")
      BY <1>13 DEF StepsOf, PcsAt, HubReturn, At
    <3>2. task[c].op = "hub"
      BY <1>13 DEF HubReturn, At
    <3> QED
      BY <1>0, <1>s, <1>13, <2>1, <3>1, <3>2, GoesOn DEF HubReturn
  <2>2. CASE task' = [ task EXCEPT ![c].step = "done", ![c].said = TRUE ]
    <3>1. /\ task' \in [ Callers -> Task ]
          /\ \A d \in Callers \ {c} : task'[d] = task[d]
          /\ task'[c].op = "hub" /\ task'[c].step = "done"
      BY <1>0, <1>s, <1>13, <2>2 DEF HubReturn, At, ScriptType, Task
    <3>2. /\ call' \in [ Callers -> Call ]
          /\ \A d \in Callers \ {c} : call'[d] = call[d]
          /\ call'[c].pc = "idle"
      BY <1>0, <1>13, HangUpFacts DEF HubReturn
    <3>3. Fits(c)'
      BY <3>1, <3>2 DEF Fits, StepsOf, PcsAt
    <3> QED
      BY <1>0, <1>13, <3>1, <3>2, <3>3 DEF Orderly, ScriptType, Others, Quiet, HubReturn
  <2> QED
    BY <1>13, <2>1, <2>2 DEF HubReturn
<1>14. ASSUME HubTimeout(c) PROVE Orderly(c)
  <2>1. /\ "fallback" \in StepsOf(task[c].op) /\ task[c].op = "hub"
        /\ "idle" \in PcsAt(task[c].op, "fallback")
        /\ "commit" \in PcsAt(task[c].op, "fallback")
    BY <1>14 DEF StepsOf, PcsAt, HubTimeout, At
  <2>2. HangUp(c) \/ (call' = call /\ call[c].pc = "commit")
    BY <1>14 DEF HubTimeout
  <2> QED
    BY <1>0, <1>s, <1>14, <2>1, <2>2, GoesOn DEF HubTimeout
<1>15. ASSUME HubFallback(c) PROVE Orderly(c)
  <2>1. /\ task' \in [ Callers -> Task ]
        /\ \A d \in Callers \ {c} : task'[d] = task[d]
        /\ task'[c].op = "hub" /\ task'[c].step = "done"
    <3>1. CASE task' = [ task EXCEPT ![c].step = "done", ![c].said = TRUE ]
      BY <1>0, <1>s, <1>15, <3>1 DEF HubFallback, At, ScriptType, Task
    <3>2. CASE GotoStep(c, "done")
      BY <1>0, <1>s, <1>15, <3>2, GotoStepFacts DEF HubFallback, At, ScriptType
    <3> QED
      BY <1>15, <3>1, <3>2 DEF HubFallback
  <2>2. call[c].pc \in PcsAt("hub", "done") /\ call' = call
    BY <1>0, <1>15 DEF Fits, HubFallback, At, PcsAt
  <2>3. Fits(c)'
    BY <2>1, <2>2 DEF Fits, StepsOf
  <2> QED
    BY <1>0, <1>15, <2>1, <2>2, <2>3 DEF Orderly, ScriptType, Others, HubFallback
<1> QED
  BY <1>1, <1>2, <1>3, <1>4, <1>5, <1>6, <1>7, <1>8, <1>9, <1>10, <1>11, <1>12,
     <1>13, <1>14, <1>15 DEF Continue

-----------------------------------------------------------------------------
(* The scripts keep the promises of the engine.                            *)

\* Approvals that keep their phase and their place in time keep Inv.
LEMMA KeepsWitnesses ==
    ASSUME Inv, TypeOK', UNCHANGED << phase, hist, call >>,
           \A a \in approvals : \E b \in approvals' : b.phase = a.phase /\ b.at = a.at,
           \A b \in approvals' : b.at <= Len(hist)
    PROVE  Inv'
<1>1. CurrentRowOpen' /\ JustifiedMoves' /\ GateSound'
  BY QuietHistory
<1>2. \A c \in Callers : Witnessed(c)'
  <2> TAKE c \in Callers
  <2>1. Len(hist) <= Len(hist')
    BY DEF Inv, TypeOK
  <2> QED
    BY <2>1, QuietCall
<1>3. GrantsInPast'
  BY DEF GrantsInPast
<1> QED
  BY <1>1, <1>2, <1>3 DEF Inv

LEMMA GrantedInv == ASSUME Inv, Granted PROVE Inv'
<1>1. PICK p \in Phase, who \in Approver : AddApproval(p, who)
  BY DEF Granted
<1> DEFINE new == [ phase |-> p, approver |-> who, at |-> Len(hist), live |-> TRUE ]
<1>2. TypeOK /\ Len(hist) \in Nat /\ UNCHANGED << phase, hist, call >>
  BY DEF Inv, TypeOK, Granted
<1>3. new \in Approval /\ new.at = Len(hist)
  BY <1>2 DEF Approval
<1>4. approvals' = approvals \cup {new}
  BY <1>1 DEF AddApproval
<1> HIDE DEF new
<1>5. TypeOK'
  BY <1>2, <1>3, <1>4 DEF TypeOK
<1>6. \A b \in approvals' : b.at <= Len(hist)
  BY <1>2, <1>3, <1>4 DEF Inv, GrantsInPast
<1> QED
  BY <1>2, <1>4, <1>5, <1>6, KeepsWitnesses

\* The Hub's fallback appends one row, which no rule of the manifest covers.
LEMMA FallbackFacts ==
    ASSUME TypeOK, ScriptType, NEW c \in Callers, HubFallback(c), ~UNCHANGED hist
    PROVE  /\ hist' \in Seq(Row) /\ Len(hist') = Len(hist) + 1
           /\ \A i \in 1..Len(hist) : hist'[i] = hist[i]
           /\ hist'[Len(hist) + 1] = NewRow("fallback", task[c].at, task[c].at)
           /\ phase' = task[c].at /\ phase' \in Phase
           /\ UNCHANGED << approvals, call >>
<1>1. /\ hist' = Append(hist, NewRow("fallback", task[c].at, task[c].at))
      /\ phase' = task[c].at /\ UNCHANGED << approvals, call >>
  BY DEF HubFallback
<1>2. task[c].at \in Phase
  BY DEF ScriptType, Task
<1>3. NewRow("fallback", task[c].at, task[c].at) \in Row
  BY <1>2 DEF NewRow, Row, HowSet
<1>4. hist \in Seq(Row)
  BY DEF TypeOK
<1> DEFINE row == NewRow("fallback", task[c].at, task[c].at)
<1> HIDE DEF row
<1>5. row \in Row /\ hist' = Append(hist, row)
  BY <1>1, <1>3 DEF row
<1>6. /\ hist' \in Seq(Row) /\ Len(hist') = Len(hist) + 1
      /\ \A i \in 1..Len(hist) : hist'[i] = hist[i]
      /\ hist'[Len(hist) + 1] = row
  BY <1>4, <1>5
<1> QED
  BY <1>1, <1>2, <1>6 DEF row

LEMMA FallbackInv ==
    ASSUME Inv, ScriptType, NEW c \in Callers, HubFallback(c)
    PROVE  Inv'
<1>1. CASE UNCHANGED hist
  <2>1. UNCHANGED << phase, hist, approvals, call >>
    <3>1. CASE UNCHANGED << phase, hist >>
      BY <3>1 DEF HubFallback
    <3>2. CASE hist' = Append(hist, NewRow("fallback", task[c].at, task[c].at))
      <4>1. hist \in Seq(Row) /\ NewRow("fallback", task[c].at, task[c].at) \in Row
        <5>1. task[c].at \in Phase
          BY DEF ScriptType, Task
        <5> QED
          BY <5>1 DEF Inv, TypeOK, NewRow, Row, HowSet
      <4>2. Len(hist') = Len(hist) + 1 /\ Len(hist) \in Nat
        BY <3>2, <4>1
      <4> QED
        BY <1>1, <4>2
    <3> QED
      BY <3>1, <3>2 DEF HubFallback
  <2>2. [Next]_vars
    BY <2>1 DEF vars
  <2> QED
    BY <2>2, StepInv
<1>2. CASE ~UNCHANGED hist
  <2> DEFINE n == Len(hist)
  <2>1. TypeOK /\ n \in Nat /\ DOMAIN hist = 1..n
    BY DEF Inv, TypeOK
  <2>2. /\ hist' \in Seq(Row) /\ Len(hist') = n + 1
        /\ \A i \in 1..n : hist'[i] = hist[i]
        /\ hist'[n + 1] = NewRow("fallback", task[c].at, task[c].at)
        /\ phase' = task[c].at /\ phase' \in Phase
        /\ UNCHANGED << approvals, call >>
    BY <1>2, <2>1, FallbackFacts
  <2>3. DOMAIN hist' = 1..(n + 1)
    BY <2>2
  <2>4. TypeOK'
    BY <2>1, <2>2 DEF TypeOK
  <2>5. /\ hist'[n + 1].phase = phase' /\ hist'[n + 1].open = TRUE
        /\ hist'[n + 1].how = "fallback"
    BY <2>2 DEF NewRow
  <2> HIDE DEF n
  <2>6. CurrentRowOpen'
    <3>1. hist' # << >>
      BY <2>1, <2>2
    <3> QED
      BY <2>2, <2>5, <3>1 DEF CurrentRowOpen
  <2>7. JustifiedMoves'
    <3> SUFFICES ASSUME NEW i \in 1..(n + 1)
                 PROVE  /\ hist'[i].how = "advance" =>
                              \E j \in 1..(i - 1) :
                                  Valid(hist'[j].phase, hist'[i].phase)
                        /\ hist'[i].how = "rollback" =>
                              \E j \in 1..(i - 1) :
                                  hist'[i].phase \in Elems(RollbackTo[hist'[j].phase])
      BY <2>3 DEF JustifiedMoves, Valid
    <3>1. CASE i \in 1..n
      <4>1. \A j \in 1..(i - 1) : j \in 1..n
        BY <2>1, <3>1
      <4> QED
        BY <2>1, <2>2, <3>1, <4>1 DEF Inv, JustifiedMoves
    <3>2. CASE i = n + 1
      BY <2>5, <3>2
    <3> QED
      BY <2>1, <3>1, <3>2
  <2>8. GateSound'
    <3> SUFFICES ASSUME NEW i \in 1..(n + 1), hist'[i].how = "advance",
                        hist'[i].phase \in Gated
                 PROVE  \E a \in approvals : a.phase = hist'[i].phase /\ a.at < i
      BY <2>2, <2>3 DEF GateSound
    <3>1. i \in 1..n
      BY <2>1, <2>5
    <3> QED
      BY <2>1, <2>2, <3>1 DEF Inv, GateSound
  <2>9. GrantsInPast'
    <3>1. \A a \in approvals : a.at \in Nat /\ a.at <= n
      BY DEF Inv, TypeOK, Approval, GrantsInPast, n
    <3> QED
      BY <2>1, <2>2, <3>1 DEF GrantsInPast
  <2>10. \A d \in Callers : Witnessed(d)'
    <3> TAKE d \in Callers
    <3>1. /\ Len(hist) <= Len(hist') /\ call'[d] = call[d]
          /\ \A i \in 1..Len(hist) : hist'[i].phase = hist[i].phase
          /\ \A a \in approvals : \E b \in approvals' : b.phase = a.phase /\ b.at = a.at
      BY <2>1, <2>2 DEF n
    <3> QED
      BY <2>4, <3>1, QuietCall
  <2> QED
    BY <2>4, <2>6, <2>7, <2>8, <2>9, <2>10 DEF Inv
<1> QED
  BY <1>1, <1>2

LEMMA QuietInv ==
    ASSUME Inv, NEW c \in Callers, Quiet(c), Others(c)
    PROVE  Inv'
<1>1. TypeOK'
  BY DEF Inv, TypeOK, Quiet
<1>2. Witnessed(c)'
  <2>1. CASE call'[c].pc \in { "idle", "validate", "rbcheck" }
    BY <2>1 DEF Witnessed
  <2>2. CASE call'[c] = call[c]
    <3>1. Len(hist) <= Len(hist') /\ UNCHANGED << phase, hist, approvals >>
      BY DEF Inv, TypeOK, Quiet
    <3> QED
      BY <1>1, <2>2, <3>1, QuietCall
  <2> QED
    BY <2>1, <2>2 DEF Quiet
<1> QED
  BY <1>1, <1>2, OwnStep DEF Quiet, Others

\* One statement of transition.sh, as far as the scripts depend on it.
LEMMA EngineFacts ==
    ASSUME TypeOK, NEW c \in Callers, EngineStep(c) \/ RereadBlank(c)
    PROVE  /\ \A d \in Callers \ {c} : call'[d] = call[d]
           /\ call'[c].target = call[c].target
           /\ approvals' = approvals
           /\ Commit(c) \/ UNCHANGED << phase, hist >>
           /\ call[c].pc \in ExecutePcs \cup RollbackPcs
           /\ call[c].pc \in ExecutePcs => call'[c].pc \in ExecutePcs \cup Results
           /\ call[c].pc \in RollbackPcs =>
                 call'[c].pc \in RollbackPcs \cup { "ok", "err" }
           /\ call[c].pc = "commit" => call'[c].pc \in { "ok", "err" }
           /\ call'[c].pc = "noop" => phase = call[c].target
           /\ call'[c].pc = "ok" <=> Commit(c)
           /\ call'[c].pc = "reread" => GateOpen(call[c].target)
           /\ call'[c].pc \in { "snap", "commit" } => call[c].pc \in { "reread", "snap" }
<1> USE DEF ExecutePcs, RollbackPcs, Results
<1>0. call \in [ Callers -> Call ] /\ call[c] \in Call
  BY DEF TypeOK
<1>1. ASSUME NEW p \in Pcs, Goto(c, p)
      PROVE  /\ \A d \in Callers \ {c} : call'[d] = call[d]
             /\ call'[c].target = call[c].target /\ call'[c].pc = p
  <2>1. call' = [ call EXCEPT ![c] = [ call[c] EXCEPT !.pc = p ] ]
    BY <1>1, GotoType
  <2> QED
    BY <1>0, <2>1 DEF Call
<1>p. { "noop", "gate", "err", "reread", "ok" } \subseteq Pcs
  BY DEF Pcs
<1>n. ASSUME Commit(c) PROVE call[c].pc \in { "commit", "rbcommit" }
  BY <1>n DEF Commit
<1>2. CASE Validate(c)
  <2>1. PICK p \in { "noop", "gate", "err" } : /\ Goto(c, p)
                                               /\ p = "noop" => phase = call[c].target
    BY <1>2 DEF Validate, Valid
  <2> QED
    BY <1>1, <1>p, <1>n, <1>2, <2>1 DEF Validate
<1>3. CASE GateCheck(c)
  <2>1. PICK p \in { "reread", "err" } : /\ Goto(c, p)
                                         /\ p = "reread" => GateOpen(call[c].target)
    BY <1>3 DEF GateCheck
  <2> QED
    BY <1>1, <1>p, <1>n, <1>3, <2>1 DEF GateCheck
<1>4. CASE Reread(c)
  BY <1>0, <1>n, <1>4 DEF Reread, Call
<1>5. CASE Snap(c)
  BY <1>0, <1>n, <1>5 DEF Snap, Call
<1>6. CASE Commit(c)
  BY <1>1, <1>p, <1>6 DEF Commit
<1>7. CASE RollbackCheck(c)
  BY <1>0, <1>n, <1>7 DEF RollbackCheck, Call
<1>8. CASE Abort(c)
  <2>1. ~Commit(c)
    <3>1. call'[c].pc = "err"
      BY <1>1, <1>p, <1>8 DEF Abort
    <3>2. Commit(c) => call'[c].pc = "ok"
      BY <1>1, <1>p DEF Commit
    <3> QED
      BY <3>1, <3>2
  <2> QED
    BY <1>1, <1>p, <1>8, <2>1 DEF Abort
<1>9. CASE RereadBlank(c)
  BY <1>0, <1>n, <1>9 DEF RereadBlank, Call
<1> QED
  BY <1>2, <1>3, <1>4, <1>5, <1>6, <1>7, <1>8, <1>9 DEF EngineStep, EngineStatement

LEMMA EngineSteps ==
    ASSUME NEW c, Engine(c)
    PROVE  /\ EngineStep(c) \/ RereadBlank(c)
           /\ UNCHANGED << status, routes, task >>
BY DEF Engine, EngineStep

\* The engine stays within what the step of its script allows.
LEMMA EngineFits ==
    ASSUME ScriptInv, NEW c \in Callers, Engine(c)
    PROVE  Others(c) /\ Fits(c)'
<1>0. TypeOK /\ Fits(c) /\ (EngineStep(c) \/ RereadBlank(c)) /\ task' = task
  BY EngineSteps DEF ScriptInv, Inv
<1>1. Others(c)
  BY <1>0, EngineFacts DEF Others
<1>2. call[c].pc \in PcsAt(task[c].op, task[c].step)
      /\ call[c].pc \in ExecutePcs \cup RollbackPcs
  BY <1>0, EngineFacts DEF Fits
<1>3. call'[c].pc \in PcsAt(task[c].op, task[c].step)
  <2>1. CASE task[c].step = "exec"
    BY <1>0, <1>2, <2>1, EngineFacts DEF PcsAt, ExecutePcs, RollbackPcs, Results
  <2>2. CASE task[c].step = "roll"
    BY <1>0, <1>2, <2>2, EngineFacts DEF PcsAt, ExecutePcs, RollbackPcs
  <2>3. CASE task[c].step \notin { "exec", "roll" }
    <3>1. /\ task[c].op = "hub" /\ task[c].step \in { "fallback", "done" } /\ Killed
          /\ call[c].pc = "commit"
      BY <1>2, <2>3 DEF PcsAt, ExecutePcs, RollbackPcs
    <3>2. call'[c].pc \in { "ok", "err" }
      BY <1>0, <3>1, EngineFacts
    <3> QED
      BY <3>1, <3>2, <2>3 DEF PcsAt
  <2> QED
    BY <2>1, <2>2, <2>3
<1>4. Fits(c)'
  BY <1>0, <1>3 DEF Fits
<1> QED
  BY <1>1, <1>4

LEMMA InitScript == PolicyInit => ScriptInv
<1> SUFFICES ASSUME PolicyInit PROVE ScriptInv
  OBVIOUS
<1>1. Inv /\ phase \in Phase
  BY InitInv DEF PolicyInit, Inv, TypeOK
<1>2. ScriptType
  <2>1. task \in [ Callers -> Task ]
    BY NoTaskFacts DEF PolicyInit
  <2>2. [ sub |-> SubsystemOf[phase], by |-> "init", done |-> FALSE ] \in Route
    BY <1>1, PolicyAssumption DEF Route
  <2> QED
    BY <2>1, <2>2 DEF PolicyInit, ScriptType
<1>3. ASSUME NEW c \in Callers PROVE Fits(c)
  <2>1. task[c].op = "none" /\ task[c].step = "done" /\ call[c].pc = "idle"
    BY NoTaskFacts DEF PolicyInit, Init, IdleCall
  <2> QED
    BY <2>1 DEF Fits, StepsOf, PcsAt
<1> QED
  BY <1>1, <1>2, <1>3 DEF ScriptInv

\* Fits of a script that the step does not touch.
LEMMA FitsFrame ==
    ASSUME NEW d, Fits(d), task'[d] = task[d], call'[d] = call[d]
    PROVE  Fits(d)'
BY DEF Fits

LEMMA StepScript == ScriptInv /\ [PolicyNext]_pvars => ScriptInv'
<1> SUFFICES ASSUME ScriptInv, [PolicyNext]_pvars PROVE ScriptInv'
  OBVIOUS
<1>0. Inv /\ ScriptType /\ \A c \in Callers : Fits(c)
  BY DEF ScriptInv
<1>1. CASE Approvals
  <2>1. [Next]_vars /\ UNCHANGED << status, routes, task, call >>
    BY <1>1 DEF Approvals, Next, GrantApproval, ExpireApproval
  <2> QED
    BY <1>0, <2>1, StepInv, FitsFrame DEF ScriptInv, ScriptType
<1>2. ASSUME NEW i \in DOMAIN routes, RecordReply(i) PROVE ScriptInv'
  <2>1. [Next]_vars /\ UNCHANGED << status, task, call >>
    BY <1>2 DEF RecordReply, vars
  <2>2. routes' \in Seq(Route)
    <3>1. routes \in Seq(Route) /\ Len(routes) \in Nat /\ DOMAIN routes = 1..Len(routes)
      BY <1>0 DEF ScriptType
    <3>2. [ routes[i] EXCEPT !.done = TRUE ] \in Route
      <4>1. routes[i] \in Route
        BY <3>1
      <4> QED
        BY <4>1 DEF Route
    <3>3. routes' = [ routes EXCEPT ![i] = [ routes[i] EXCEPT !.done = TRUE ] ]
      BY <1>2, <3>1 DEF RecordReply, Route
    <3> QED
      BY <3>1, <3>2, <3>3
  <2> QED
    BY <1>0, <2>1, <2>2, StepInv, FitsFrame DEF ScriptInv, ScriptType
<1>3. ASSUME NEW c \in Callers, Orderly(c) PROVE ScriptInv'
  <2>1. Inv'
    BY <1>0, <1>3, QuietInv, GrantedInv, FallbackInv DEF Orderly
  <2>2. \A d \in Callers : Fits(d)'
    BY <1>0, <1>3, FitsFrame DEF Orderly, Others
  <2> QED
    BY <1>3, <2>1, <2>2 DEF Orderly, ScriptInv
<1>4. ASSUME NEW c \in Callers, Engine(c) PROVE ScriptInv'
  <2>1. ([Next]_vars \/ RereadBlank(c)) /\ UNCHANGED << status, routes, task >>
    BY <1>4, EngineSteps DEF Next
  <2>2. Others(c) /\ Fits(c)'
    BY <1>4, EngineFits
  <2>3. \A d \in Callers : Fits(d)'
    BY <1>0, <2>2, FitsFrame DEF Others
  <2> QED
    BY <1>0, <2>1, <2>3, StepInv, BlankInv DEF ScriptInv, ScriptType
<1>5. CASE UNCHANGED pvars
  <2>1. [Next]_vars /\ UNCHANGED << status, routes, task, call >>
    BY <1>5 DEF pvars, vars
  <2> QED
    BY <1>0, <2>1, StepInv, FitsFrame DEF ScriptInv, ScriptType
<1> QED
  BY <1>1, <1>2, <1>3, <1>4, <1>5, BeginOrderly, ContinueOrderly DEF PolicyNext

\* Every state of the policy scripts is well typed: gate.sh, remediation.sh,
\* build_failure_router.sh, rollback.sh, router.sh and advance_lifecycle_phase
\* run in any number over any manifest.
THEOREM PolicyTypes == PolicySpec => []PolicyTypeOK
<1>1. ScriptInv => PolicyTypeOK
  BY DEF ScriptInv, Inv, ScriptType, PolicyTypeOK
<1> QED
  BY <1>1, InitScript, StepScript, PTL DEF PolicySpec

\* However many policy scripts run at once, transition_execute lets none of them
\* into a gated phase without an approval recorded before, although the scripts
\* grant and expire approvals and the Hub's fallback writes history by itself.
THEOREM PolicyGates == PolicySpec => []GateSound
<1>1. ScriptInv => GateSound
  BY DEF ScriptInv, Inv
<1> QED
  BY <1>1, InitScript, StepScript, PTL DEF PolicySpec

\* However many policy scripts run at once, the newest phase_history row is open
\* and names project.current_phase: the fallback, which closes no row, keeps
\* the cache in step too.
THEOREM PolicyCache == PolicySpec => []CurrentRowOpen
<1>1. ScriptInv => CurrentRowOpen
  BY DEF ScriptInv, Inv
<1> QED
  BY <1>1, InitScript, StepScript, PTL DEF PolicySpec

\* However many policy scripts run at once, a row that transition.sh writes goes
\* to a successor, or a rollback target, of a phase the project has been in:
\* neither the fallback's rows nor the scripts' approvals get a call past
\* transition_validate.
THEOREM PolicyMoves == PolicySpec => []JustifiedMoves
<1>1. ScriptInv => JustifiedMoves
  BY DEF ScriptInv, Inv
<1> QED
  BY <1>1, InitScript, StepScript, PTL DEF PolicySpec

\* However many policy scripts run at once, phase_history only grows and no
\* closed row is reopened or rewritten: the fallback adds a row and touches none,
\* and a move whose script failed to read the phase is logged like any other.
THEOREM PolicyAppendOnly == PolicySpec => HistoryAppendOnly
<1> DEFINE A == /\ Len(hist') >= Len(hist)
                /\ \A i \in DOMAIN hist :
                      /\ hist'[i].phase = hist[i].phase
                      /\ hist'[i].how = hist[i].how
                      /\ hist'[i].from = hist[i].from
                      /\ hist'[i].open => hist[i].open
<1>1. ScriptInv /\ [PolicyNext]_pvars => [A]_vars
  <2> SUFFICES ASSUME ScriptInv, [PolicyNext]_pvars PROVE [A]_vars
    OBVIOUS
  <2>0. /\ TypeOK /\ ScriptType
        /\ Len(hist) \in Nat /\ DOMAIN hist = 1..Len(hist)
    BY DEF ScriptInv, Inv, TypeOK
  <2>1. ASSUME UNCHANGED hist PROVE A
    BY <2>0, <2>1
  <2>2. ASSUME NEW c \in Callers, Engine(c) PROVE A
    <3>1. CASE Commit(c)
      BY <2>0, <3>1, CommitAppends
    <3>2. CASE ~Commit(c)
      BY <2>0, <2>1, <2>2, <3>2, EngineFacts, EngineSteps
    <3> QED
      BY <3>1, <3>2
  <2>3. ASSUME NEW c \in Callers, Orderly(c) PROVE A
    <3>1. CASE UNCHANGED hist
      BY <2>1, <3>1
    <3>2. CASE HubFallback(c) /\ ~UNCHANGED hist
      <4>1. /\ Len(hist') = Len(hist) + 1
            /\ \A i \in 1..Len(hist) : hist'[i] = hist[i]
        BY <2>0, <3>2, FallbackFacts
      <4>2. Len(hist') >= Len(hist)
        BY <2>0, <4>1
      <4> QED
        BY <2>0, <4>1, <4>2
    <3> QED
      BY <2>3, <3>1, <3>2 DEF Orderly, Quiet, Granted
  <2>4. CASE Approvals
    BY <2>1, <2>4 DEF Approvals, GrantApproval, ExpireApproval
  <2>5. ASSUME NEW i \in DOMAIN routes, RecordReply(i) PROVE A
    BY <2>1, <2>5 DEF RecordReply
  <2>6. CASE UNCHANGED pvars
    BY <2>6 DEF pvars, vars
  <2> HIDE DEF A
  <2> QED
    BY <2>2, <2>3, <2>4, <2>5, <2>6, BeginOrderly, ContinueOrderly DEF PolicyNext
<1> QED
  BY <1>1, InitScript, StepScript, PTL DEF PolicySpec, HistoryAppendOnly

-----------------------------------------------------------------------------
(* One script at a time.                                                   *)

\* What the Hub's call aims at, and what it has reached, is what it reports.
HubTrue(c) ==
    task[c].op = "hub" =>
        /\ call[c].pc # "idle" => call[c].target = task[c].at
        /\ call[c].pc \in { "ok", "noop" } => phase = task[c].at
        /\ task[c].said => task[c].step = "done" /\ phase = task[c].at

\* The budget that a loop script has seen is still there until it commits.
InBudget(c) ==
    (/\ task[c].op \in { "remediate", "replan" }
     /\ \/ task[c].step = "dispatch"
        \/ task[c].step = "exec" /\ call[c].pc \in ExecutePcs) =>
        LoopCount(task[c].op) < LoopOf(task[c].op).max

SerialScript(c) == ScriptInv /\ HubTrue(c) /\ InBudget(c)

LEMMA LoopCountNat ==
    ASSUME TypeOK, NEW op
    PROVE  LoopCount(op) \in Nat
<1> DEFINE rows == { i \in DOMAIN hist :
                       /\ hist[i].how \in { "advance", "rollback" }
                       /\ hist[i].from = LoopOf(op).from
                       /\ hist[i].phase = LoopOf(op).to }
<1>1. Len(hist) \in Nat /\ DOMAIN hist = 1..Len(hist)
  BY DEF TypeOK
<1>2. IsFiniteSet(1..Len(hist))
  BY <1>1, FS_Interval
<1>3. rows \subseteq 1..Len(hist)
  BY <1>1
<1> HIDE DEF rows
<1>4. Cardinality(rows) \in Nat
  BY <1>2, <1>3, FS_Subset, FS_CardinalityType
<1> QED
  BY <1>4 DEF LoopCount, rows

LEMMA SerialEngine ==
    ASSUME NEW c, Callers = {c}, SerialScript(c), Engine(c)
    PROVE  HubTrue(c)' /\ InBudget(c)'
<1>0. /\ TypeOK /\ Fits(c) /\ (EngineStep(c) \/ RereadBlank(c)) /\ task' = task
      /\ c \in Callers /\ HubTrue(c) /\ InBudget(c)
  BY EngineSteps DEF SerialScript, ScriptInv, Inv
<1>1. call[c].pc # "idle"
  BY <1>0, EngineFacts DEF ExecutePcs, RollbackPcs
<1>2. HubTrue(c)'
  <2> SUFFICES ASSUME task[c].op = "hub" PROVE HubTrue(c)'
    BY <1>0 DEF HubTrue
  <2>1. call'[c].target = task[c].at
    BY <1>0, <1>1, EngineFacts DEF HubTrue
  <2>2. CASE Commit(c)
    <3>1. phase' = task[c].at
      BY <1>0, <1>1, <2>2 DEF Commit, HubTrue
    <3> QED
      BY <1>0, <2>1, <3>1 DEF HubTrue
  <2>3. CASE ~Commit(c)
    <3>1. UNCHANGED << phase, hist >> /\ call'[c].pc # "ok"
      BY <1>0, <2>3, EngineFacts
    <3>2. call'[c].pc = "noop" => phase = task[c].at
      BY <1>0, <1>1, EngineFacts DEF HubTrue
    <3> QED
      BY <1>0, <2>1, <3>1, <3>2 DEF HubTrue
  <2> QED
    BY <2>2, <2>3
<1>3. InBudget(c)'
  <2>1. CASE Commit(c)
    <3>1. call'[c].pc = "ok"
      BY <1>0, <2>1, EngineFacts
    <3>2. task[c].step # "dispatch"
      BY <1>0, <1>1 DEF Fits, PcsAt
    <3> QED
      BY <1>0, <3>1, <3>2 DEF InBudget, ExecutePcs
  <2>2. CASE ~Commit(c)
    <3>1. UNCHANGED hist
      BY <1>0, <2>2, EngineFacts
    <3>2. task[c].step = "exec" => (call'[c].pc \in ExecutePcs => call[c].pc \in ExecutePcs)
      BY <1>0, EngineFacts DEF Fits, PcsAt, ExecutePcs, RollbackPcs, Results
    <3> QED
      BY <1>0, <3>1, <3>2 DEF InBudget, LoopCount
  <2> QED
    BY <2>1, <2>2
<1> QED
  BY <1>2, <1>3

LEMMA SerialBegin ==
    ASSUME NEW c, Callers = {c}, SerialScript(c), Begin(c)
    PROVE  HubTrue(c)' /\ InBudget(c)'
<1>0. /\ c \in Callers /\ ScriptInv /\ TypeOK /\ ScriptType /\ HubTrue(c) /\ InBudget(c)
      /\ phase \in Phase /\ task[c].who \in Approver /\ Requests \subseteq Phase
      /\ task \in [ Callers -> Task ]
  BY ManifestAssumption
     DEF SerialScript, ScriptInv, Inv, ScriptType, TypeOK, Task
<1>1. task[c].op = "none"
  BY DEF Begin, CliExecute, RollbackStart, HubStart, ApproveStart, ReviewStart,
         LoopStart, Start
<1>2. call[c].pc = "idle"
  BY <1>0, <1>1 DEF ScriptInv, Fits, StepsOf, PcsAt
<1>3. UNCHANGED << phase, hist >>
  BY DEF Begin, CliExecute, RollbackStart, HubStart, ApproveStart, ReviewStart,
         LoopStart
<1>4. ASSUME NEW t \in Requests, CliExecute(c, t) \/ RollbackStart(c, t)
      PROVE  HubTrue(c)' /\ InBudget(c)'
  <2>1. task'[c].op \in { "cli", "rollback" }
    <3>1. CASE CliExecute(c, t)
      BY <1>0, <3>1, StartFacts DEF CliExecute, Steps
    <3>2. CASE RollbackStart(c, t)
      BY <1>0, <3>2, StartFacts DEF RollbackStart, Steps
    <3> QED
      BY <1>4, <3>1, <3>2
  <2> QED
    BY <2>1 DEF HubTrue, InBudget
<1>5. ASSUME NEW t \in Requests, NEW who \in Approver, HubStart(c, t, who)
      PROVE  HubTrue(c)' /\ InBudget(c)'
  <2>1. task'[c].op = "hub" /\ task'[c].said = FALSE
    <3>1. { "grant", "start" } \subseteq Steps
      BY DEF Steps
    <3> QED
      BY <1>0, <1>5, <3>1, StartFacts DEF HubStart
  <2>2. call'[c].pc = "idle"
    BY <1>2, <1>5 DEF HubStart
  <2> QED
    BY <2>1, <2>2 DEF HubTrue, InBudget
<1>6. ASSUME NEW who \in Approver, ApproveStart(c, who)
      PROVE  HubTrue(c)' /\ InBudget(c)'
  <2>1. task'[c].op = "approve"
    BY <1>0, <1>6, StartFacts DEF ApproveStart, Steps
  <2> QED
    BY <2>1 DEF HubTrue, InBudget
<1>7. ASSUME NEW op \in { "reject", "changes" }, ReviewStart(c, op)
      PROVE  HubTrue(c)' /\ InBudget(c)'
  <2>1. task'[c].op = op
    <3>1. "record" \in Steps
      BY DEF Steps
    <3> QED
      BY <1>0, <1>7, <3>1, StartFacts DEF ReviewStart
  <2> QED
    BY <2>1 DEF HubTrue, InBudget
<1>8. ASSUME NEW op \in { "remediate", "replan" }, LoopStart(c, op)
      PROVE  HubTrue(c)' /\ InBudget(c)'
  <2>1. task'[c].op = op /\ task'[c].step = "budget"
    <3>1. "budget" \in Steps
      BY DEF Steps
    <3> QED
      BY <1>0, <1>8, <3>1, StartFacts DEF LoopStart
  <2> QED
    BY <2>1 DEF HubTrue, InBudget
<1> QED
  BY <1>4, <1>5, <1>6, <1>7, <1>8 DEF Begin

LEMMA SerialContinue ==
    ASSUME NEW c, Callers = {c}, SerialScript(c), Continue(c)
    PROVE  HubTrue(c)' /\ InBudget(c)'
<1>0. /\ c \in Callers /\ ScriptInv /\ TypeOK /\ HubTrue(c) /\ InBudget(c) /\ Fits(c)
      /\ task \in [ Callers -> Task ] /\ task[c] \in Task /\ task[c].at \in Phase
  BY DEF SerialScript, ScriptInv, Inv, ScriptType, Task
<1>s. { "count", "exec", "roll", "block", "dispatch", "surface", "start",
        "fallback", "done" } \subseteq Steps
  BY DEF Steps
<1>1. ASSUME Finish(c) PROVE HubTrue(c)' /\ InBudget(c)'
  <2>1. task'[c].op = "none"
    BY <1>0, <1>1, FinishFacts, NoTaskFacts
  <2> QED
    BY <2>1 DEF HubTrue, InBudget
<1>2. ASSUME task[c].op \in { "approve", "reject", "changes" },
             NEW s \in { "count", "exec", "roll", "block", "dispatch" },
             GotoStep(c, s)
      PROVE  HubTrue(c)' /\ InBudget(c)'
  <2>1. task'[c].op = task[c].op
    BY <1>0, <1>s, <1>2, GotoStepFacts
  <2> QED
    BY <1>2, <2>1 DEF HubTrue, InBudget
<1>3. ASSUME \/ CliReturn(c) \/ ApproveReturn(c) \/ RejectBlock(c) \/ ChangesDispatch(c)
             \/ LoopSurface(c) \/ LoopReturn(c) \/ RollbackReturn(c)
             \/ HubDone(c) \/ TaskAbort(c)
      PROVE  HubTrue(c)' /\ InBudget(c)'
  BY <1>1, <1>3 DEF CliReturn, ApproveReturn, RejectBlock, ChangesDispatch, LoopSurface,
     LoopReturn, RollbackReturn, HubDone, TaskAbort
<1>4. ASSUME \/ ApproveGrant(c) \/ ApproveCount(c) \/ ReviewRecord(c)
             \/ RejectReturn(c) \/ ChangesReturn(c)
      PROVE  HubTrue(c)' /\ InBudget(c)'
  <2>1. task[c].op \in { "approve", "reject", "changes" }
    BY <1>4 DEF ApproveGrant, ApproveCount, ReviewRecord, RejectReturn, ChangesReturn, At
  <2>2. Finish(c) \/ \E s \in { "count", "exec", "roll", "block", "dispatch" } :
                        GotoStep(c, s)
    BY <1>4 DEF ApproveGrant, ApproveCount, ReviewRecord, RejectReturn, ChangesReturn
  <2> QED
    BY <1>1, <1>2, <2>1, <2>2
<1>5. ASSUME LoopBudget(c) PROVE HubTrue(c)' /\ InBudget(c)'
  <2>0. /\ UNCHANGED << phase, hist, call >> /\ LoopCount(task[c].op) \in Nat
        /\ LoopOf(task[c].op).max \in Nat
    BY <1>0, <1>5, LoopCountNat, PolicyAssumption DEF LoopBudget, LoopOf
  <2>1. CASE LoopCount(task[c].op) >= LoopOf(task[c].op).max
    <3>1. task'[c].step = "surface" /\ task'[c].op = task[c].op
      BY <1>0, <1>s, <1>5, <2>1, GotoStepFacts DEF LoopBudget
    <3>2. task[c].op # "hub"
      BY <1>0, <1>5 DEF Fits, StepsOf, LoopBudget
    <3> QED
      BY <3>1, <3>2 DEF HubTrue, InBudget
  <2>2. CASE ~(LoopCount(task[c].op) >= LoopOf(task[c].op).max)
    <3>1. task'[c].step = "dispatch" /\ task'[c].op = task[c].op
      BY <1>0, <1>s, <1>5, <2>2, GotoStepFacts DEF LoopBudget
    <3>2. task[c].op # "hub"
      BY <1>0, <1>5 DEF Fits, StepsOf, LoopBudget
    <3>3. LoopCount(task[c].op) < LoopOf(task[c].op).max
      BY <2>0, <2>2
    <3> QED
      BY <2>0, <3>1, <3>2, <3>3 DEF HubTrue, InBudget, LoopCount
  <2> QED
    BY <2>1, <2>2
<1>6. ASSUME LoopDispatch(c) PROVE HubTrue(c)' /\ InBudget(c)'
  <2>1. CASE GotoStep(c, "exec")
    <3>1. task'[c].op = task[c].op /\ task[c].op \in { "remediate", "replan" }
          /\ task[c].step = "dispatch" /\ UNCHANGED hist
      BY <1>0, <1>s, <1>6, <2>1, GotoStepFacts DEF LoopDispatch
    <3>2. LoopCount(task[c].op) < LoopOf(task[c].op).max
      BY <1>0, <3>1 DEF InBudget
    <3> QED
      BY <3>1, <3>2 DEF HubTrue, InBudget, LoopCount
  <2> QED
    BY <1>1, <1>6, <2>1 DEF LoopDispatch
<1>7. ASSUME HubGrant(c) PROVE HubTrue(c)' /\ InBudget(c)'
  <2>1. call[c].pc = "idle" /\ call' = call /\ task[c].op = "hub" /\ ~task[c].said
    BY <1>0, <1>7, Waits DEF HubGrant, At, HubTrue
  <2>2. PICK s \in { "start", "fallback" } : GotoStep(c, s)
    BY <1>7 DEF HubGrant
  <2>3. task'[c].op = "hub" /\ ~task'[c].said
    BY <1>0, <1>s, <2>1, <2>2, GotoStepFacts
  <2> QED
    BY <2>1, <2>3 DEF HubTrue, InBudget
<1>8. ASSUME HubAdvance(c) PROVE HubTrue(c)' /\ InBudget(c)'
  <2>1. call[c].pc = "idle" /\ task[c].op = "hub" /\ ~task[c].said
    BY <1>0, <1>8, Waits DEF HubAdvance, At, HubTrue
  <2>2. PICK s \in { "exec", "fallback" } : GotoStep(c, s)
    BY <1>8 DEF HubAdvance
  <2>3. task'[c].op = "hub" /\ ~task'[c].said /\ task'[c].at = task[c].at
    BY <1>0, <1>s, <2>1, <2>2, GotoStepFacts
  <2>4. CASE CallExecute(c, task[c].at)
    <3>1. "validate" \in Pcs
      BY DEF Pcs, ExecutePcs
    <3>2. call'[c].pc = "validate" /\ call'[c].target = task[c].at
      BY <1>0, <2>4, <3>1, EnterFacts DEF CallExecute
    <3> QED
      BY <2>3, <3>2 DEF HubTrue, InBudget
  <2>5. CASE UNCHANGED call
    BY <2>1, <2>3, <2>5 DEF HubTrue, InBudget
  <2> QED
    BY <1>8, <2>4, <2>5 DEF HubAdvance
<1>9. ASSUME HubReturn(c) PROVE HubTrue(c)' /\ InBudget(c)'
  <2>1. call'[c].pc = "idle" /\ UNCHANGED phase /\ task[c].op = "hub" /\ ~task[c].said
    BY <1>0, <1>9, HangUpFacts DEF HubReturn, At, HubTrue
  <2>2. CASE call[c].pc = "err"
    <3>1. task'[c].op = "hub" /\ ~task'[c].said
      BY <1>0, <1>s, <1>9, <2>1, <2>2, GotoStepFacts DEF HubReturn, Returned
    <3> QED
      BY <2>1, <3>1 DEF HubTrue, InBudget
  <2>3. CASE call[c].pc # "err"
    <3>1. phase = task[c].at
      BY <1>0, <1>9, <2>1, <2>3 DEF HubReturn, Results, HubTrue
    <3>2. task'[c].op = "hub" /\ task'[c].step = "done" /\ task'[c].at = task[c].at
      BY <1>0, <1>9, <2>1, <2>3 DEF HubReturn, Returned, Task
    <3> QED
      BY <2>1, <3>1, <3>2 DEF HubTrue, InBudget
  <2> QED
    BY <2>2, <2>3
<1>10. ASSUME HubTimeout(c) PROVE HubTrue(c)' /\ InBudget(c)'
  <2>1. UNCHANGED phase /\ task[c].op = "hub" /\ ~task[c].said
    BY <1>0, <1>10 DEF HubTimeout, At, HubTrue
  <2>2. task'[c].op = "hub" /\ ~task'[c].said /\ task'[c].at = task[c].at
    BY <1>0, <1>s, <1>10, <2>1, GotoStepFacts DEF HubTimeout
  <2>3. call'[c].pc = "idle" \/ call' = call
    BY <1>0, <1>10, HangUpFacts DEF HubTimeout
  <2> QED
    BY <1>0, <2>1, <2>2, <2>3 DEF HubTrue, InBudget
<1>11. ASSUME HubFallback(c) PROVE HubTrue(c)' /\ InBudget(c)'
  <2>1. call' = call /\ task[c].op = "hub" /\ ~task[c].said
    BY <1>0, <1>11 DEF HubFallback, At, HubTrue
  <2>2. CASE /\ phase' = task[c].at
             /\ task' = [ task EXCEPT ![c].step = "done", ![c].said = TRUE ]
    <3>1. task'[c].op = "hub" /\ task'[c].step = "done" /\ task'[c].at = task[c].at
      BY <1>0, <2>1, <2>2 DEF Task
    <3> QED
      BY <1>0, <2>1, <2>2, <3>1 DEF HubTrue, InBudget
  <2>3. CASE GotoStep(c, "done") /\ UNCHANGED phase
    <3>1. task'[c].op = "hub" /\ ~task'[c].said /\ task'[c].at = task[c].at
      BY <1>0, <1>s, <2>1, <2>3, GotoStepFacts
    <3> QED
      BY <1>0, <2>1, <2>3, <3>1 DEF HubTrue, InBudget
  <2> QED
    BY <1>11, <2>2, <2>3 DEF HubFallback
<1> QED
  BY <1>3, <1>4, <1>5, <1>6, <1>7, <1>8, <1>9, <1>10, <1>11 DEF Continue

LEMMA StepSerialScript ==
    ASSUME NEW c, Callers = {c}
    PROVE  SerialScript(c) /\ [PolicyNext]_pvars => SerialScript(c)'
<1> SUFFICES ASSUME SerialScript(c), [PolicyNext]_pvars PROVE SerialScript(c)'
  OBVIOUS
<1>1. ScriptInv'
  BY StepScript DEF SerialScript
<1>2. CASE UNCHANGED << phase, hist, call, task >>
  BY <1>1, <1>2 DEF SerialScript, HubTrue, InBudget, LoopCount
<1>3. CASE Approvals
  BY <1>2, <1>3 DEF Approvals, GrantApproval, ExpireApproval
<1>4. ASSUME NEW i \in DOMAIN routes, RecordReply(i) PROVE SerialScript(c)'
  BY <1>2, <1>4 DEF RecordReply
<1>5. CASE Begin(c) \/ Continue(c) \/ Engine(c)
  BY <1>1, <1>5, SerialBegin, SerialContinue, SerialEngine DEF SerialScript
<1>6. CASE UNCHANGED pvars
  BY <1>2, <1>6 DEF pvars
<1> QED
  BY <1>3, <1>4, <1>5, <1>6 DEF PolicyNext

LEMMA InitSerialScript ==
    ASSUME NEW c, Callers = {c}
    PROVE  PolicyInit => SerialScript(c)
<1> SUFFICES ASSUME PolicyInit PROVE SerialScript(c)
  OBVIOUS
<1>1. ScriptInv
  BY InitScript
<1>2. task[c].op = "none"
  BY NoTaskFacts DEF PolicyInit
<1> QED
  BY <1>1, <1>2 DEF SerialScript, HubTrue, InBudget

\* One script at a time, and wherever psql fails or the 30 second timeout
\* strikes: when advance_lifecycle_phase says True the project is in the phase
\* it was asked for, also when a transaction that the timeout orphaned commits
\* before or after the fallback.
THEOREM HubTruth ==
    ASSUME NEW c, Callers = {c}
    PROVE  PolicySpec => []HubReportsTruth
<1>1. SerialScript(c) => HubReportsTruth
  BY DEF SerialScript, HubTrue, HubReportsTruth, At
<1>2. PolicyInit => SerialScript(c)
  BY InitSerialScript
<1>3. SerialScript(c) /\ [PolicyNext]_pvars => SerialScript(c)'
  BY StepSerialScript
<1> QED
  BY <1>1, <1>2, <1>3, PTL DEF PolicySpec

\* One script at a time: remediation.sh moves a project from verify back to
\* build only while verify_build_loop_max such moves are not yet on record,
\* for every limit, whoever made the earlier moves.
THEOREM RemediationBudget ==
    ASSUME NEW c, Callers = {c}
    PROVE  PolicySpec => RemediationWithinBudget
<1>1. SerialScript(c) => MovesWithinBudget
  <2> SUFFICES ASSUME SerialScript(c), Commits(c, "remediate")
               PROVE  LoopCount("remediate") < LoopMax
    BY DEF MovesWithinBudget
  <2>1. task[c].op = "remediate" /\ call[c].pc = "commit"
    BY DEF Commits
  <2>2. task[c].step = "exec"
    BY <2>1 DEF SerialScript, ScriptInv, Fits, PcsAt, RollbackPcs
  <2>3. LoopCount("remediate") < LoopOf("remediate").max
    BY <2>1, <2>2 DEF SerialScript, InBudget, ExecutePcs
  <2> QED
    BY <2>3 DEF LoopOf
<1>2. PolicyInit => SerialScript(c)
  BY InitSerialScript
<1>3. SerialScript(c) /\ [PolicyNext]_pvars => SerialScript(c)'
  BY StepSerialScript
<1>4. SerialScript(c) /\ [PolicyNext]_pvars => [MovesWithinBudget]_pvars
  BY <1>1
<1> QED
  BY <1>2, <1>3, <1>4, PTL DEF PolicySpec, RemediationWithinBudget

-----------------------------------------------------------------------------
(* One script at a time, and no fallback of the Hub: the scripts implement *)
(* the promise of the manifest.                                            *)

ServedInv == ScriptInv /\ SerialInv

\* A step that leaves the project alone, and the call too unless the script
\* begins or ends it, keeps what transition.sh relies on.
LEMMA ServedQuiet ==
    ASSUME NEW c, Callers = {c}, SerialInv, Inv', UNCHANGED << phase, hist >>,
           \/ call'[c] = call[c]
           \/ call'[c].pc \in { "idle", "validate", "rbcheck" }
    PROVE  SerialInv'
<1>1. EdgeMoves'
  BY DEF SerialInv, EdgeMoves, Valid
<1>2. OpenRows' = OpenRows
  BY DEF OpenRows
<1>3. OneOpenRow'
  BY <1>2 DEF SerialInv, OneOpenRow
<1>4. StillTrue(c)'
  <2>1. CASE call'[c].pc \in { "idle", "validate", "rbcheck" }
    BY <2>1 DEF StillTrue
  <2>2. CASE call'[c] = call[c]
    <3>1. StillTrue(c)
      BY DEF SerialInv
    <3> QED
      BY <1>2, <2>2, <3>1 DEF StillTrue, Valid
  <2> QED
    BY <2>1, <2>2
<1> QED
  BY <1>1, <1>3, <1>4 DEF SerialInv

\* What a statement of a script does to the abstract project: nothing, or it
\* records an approval.
LEMMA ServedStatement ==
    ASSUME NEW c, Callers = {c}, "hub" \notin Ops, ServedInv, Orderly(c), ScriptInv'
    PROVE  /\ SerialInv'
           /\ [Abstract!Next]_(Abstract!vars)
<1> USE DEF Abstract!vars
<1> DEFINE granted == { a.phase : a \in approvals }
<1>0. c \in Callers /\ SerialInv /\ ScriptType /\ TypeOK /\ Inv'
  BY DEF ServedInv, ScriptInv, Inv
<1>1. CASE Quiet(c)
  <2>1. SerialInv'
    BY <1>0, <1>1, ServedQuiet DEF Quiet
  <2> QED
    BY <1>1, <2>1 DEF Quiet
<1>2. CASE Granted
  <2>1. SerialInv'
    BY <1>0, <1>2, ServedQuiet DEF Granted
  <2>2. PICK p \in Phase, who \in Approver : AddApproval(p, who)
    BY <1>2 DEF Granted
  <2> DEFINE g == [ phase |-> p, approver |-> who, at |-> Len(hist), live |-> TRUE ]
  <2>3. approvals' = approvals \cup {g} /\ phase' = phase
    BY <1>2, <2>2 DEF Granted, AddApproval
  <2>4. g.phase = p
    OBVIOUS
  <2> HIDE DEF g
  <2>5. { a.phase : a \in approvals' } = granted \cup {p}
    BY <2>3, <2>4
  <2>6. Abstract!Next
    BY <2>3, <2>5 DEF Abstract!Next, Abstract!Grant
  <2> QED
    BY <2>1, <2>6
<1>3. CASE HubFallback(c)
  <2>1. task[c].op \in Ops \cup { "none" } /\ task[c].op = "hub"
    BY <1>0, <1>3 DEF ScriptType, Task, HubFallback, At
  <2> QED
    BY <2>1
<1> QED
  BY <1>1, <1>2, <1>3 DEF Orderly

LEMMA ServedStep ==
    ASSUME NEW c, Callers = {c}, "hub" \notin Ops, ServedInv, [PolicyNext]_pvars
    PROVE  /\ ServedInv'
           /\ [Abstract!Next]_(Abstract!vars)
<1>0. c \in Callers /\ ScriptInv /\ SerialInv /\ ScriptInv'
  BY StepScript DEF ServedInv
<1>1. ASSUME [Next]_vars PROVE SerialInv' /\ [Abstract!Next]_(Abstract!vars)
  BY <1>0, <1>1, StepSerial, StepRefines
<1>2. CASE Approvals
  BY <1>0, <1>1, <1>2 DEF Approvals, Next, ServedInv
<1>3. CASE Engine(c)
  <2>1. CASE EngineStep(c)
    BY <1>0, <1>1, <2>1 DEF Next, ServedInv
  <2>2. CASE RereadBlank(c)
    <3>1. SerialInv'
      BY <1>0, <2>2, BlankSerial DEF ScriptInv
    <3> QED
      BY <1>0, <2>2, <3>1 DEF ServedInv, RereadBlank, Abstract!vars
  <2> QED
    BY <1>3, <2>1, <2>2, EngineSteps
<1>4. ASSUME NEW i \in DOMAIN routes, RecordReply(i)
      PROVE  ServedInv' /\ [Abstract!Next]_(Abstract!vars)
  BY <1>0, <1>1, <1>4 DEF RecordReply, vars, ServedInv
<1>5. CASE UNCHANGED pvars
  BY <1>0, <1>1, <1>5 DEF pvars, vars, ServedInv
<1>6. CASE Begin(c) \/ Continue(c)
  <2>1. Orderly(c)
    BY <1>0, <1>6, BeginOrderly, ContinueOrderly
  <2> QED
    BY <1>0, <2>1, ServedStatement DEF ServedInv
<1> QED
  BY <1>2, <1>3, <1>4, <1>5, <1>6 DEF PolicyNext

LEMMA ServedStart == PolicyInit => ServedInv /\ Abstract!Init
BY InitScript, InitSerial, InitRefines DEF PolicyInit, ServedInv

\* gate.sh, remediation.sh, build_failure_router.sh, rollback.sh and transition.sh
\* from the command line, one script at a time and killed anywhere, on any
\* manifest: the project moves along an edge of phases.yaml and enters a gated
\* phase only with an approval on record, whatever the scripts grant and expire
\* on their own.  Only advance_lifecycle_phase is left out, whose fallback
\* moves the project anywhere.
THEOREM ScriptsRefine ==
    ASSUME NEW c, Callers = {c}, "hub" \notin Ops
    PROVE  PolicySpec => ImplementsLifecycle
<1>1. ServedInv /\ [PolicyNext]_pvars => ServedInv'
  BY ServedStep
<1>2. ServedInv /\ [PolicyNext]_pvars => [Abstract!Next]_(Abstract!vars)
  BY ServedStep
<1> QED
  BY <1>1, <1>2, ServedStart, PTL DEF PolicySpec, ImplementsLifecycle, Abstract!Spec

\* The same scripts, one at a time: each row of the history is an edge of the
\* manifest from the row before it, its from_phase is the phase really left or,
\* when the script failed to read that phase and went on, blank, and exactly the
\* newest row has exited_at NULL.
THEOREM ScriptsMove ==
    ASSUME NEW c, Callers = {c}, "hub" \notin Ops
    PROVE  PolicySpec => [](EdgeMoves /\ OneOpenRow)
<1>1. ServedInv => EdgeMoves /\ OneOpenRow
  BY DEF ServedInv, SerialInv
<1>2. ServedInv /\ [PolicyNext]_pvars => ServedInv'
  BY ServedStep
<1> QED
  BY <1>1, <1>2, ServedStart, PTL DEF PolicySpec
=============================================================================
