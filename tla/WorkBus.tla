------------------------------ MODULE WorkBus ------------------------------
(***************************************************************************)
(* The two buses directives wait on, for one project.                      *)
(*   file bus   .spine/work/<project>/directives/*/status.json and report. *)
(*       md, written by role_runtime.py (a role that runs, or one queued   *)
(*       for later) and by the role worker (role_worker.py)                *)
(*   DB bus     portfolio_queue, filled and drained by portfolio.sh from   *)
(*       cron or by hand, and polled by the same role worker               *)
(* A step is one query, one access to a file or one call of an MCP tool.   *)
(***************************************************************************)
EXTENDS Naturals, FiniteSets

CONSTANTS
    Directive,      \* workspaces of the file bus
    Drainer,        \* runs of portfolio.sh drain
    MaxQueued,      \* bound: rows of portfolio_queue
    DefaultLimit,   \* SPINE_DEFAULT_MAX_PARALLEL
    MaxOthers,      \* bound: dispatches that do not ask the portfolio
    MaxBusFaults       \* bound: crashes, calls and queries that fail, operators

ASSUME WorkBusAssumption ==
    /\ MaxQueued \in Nat /\ DefaultLimit \in Nat /\ MaxOthers \in Nat
    /\ MaxBusFaults \in Nat /\ IsFiniteSet(Drainer) /\ Directive # {}

Queued == 1..MaxQueued

VARIABLES
    file,       \* file[d]: status.json, report.md and the run that owns them
    worker,     \* the role worker
    row,        \* row[q]: a row of portfolio_queue
    drainer,    \* drainer[p]
    sent,       \* history: sent[q], calls of the tool for q that it accepted
    inFlight,   \* open rows of route_history of the project
    limit,      \* max_parallel_directives
    halted,     \* the project is paused, or metadata.blocked
    slow,       \* history: a role ran longer than _STALE_RUNNING_SECS
    others, trouble, unmarked   \* unmarked: accepted calls without a mark

busVars == << file, worker, row, drainer, sent, inFlight, limit, halted, slow,
              others, trouble, unmarked >>
fileVars == << file, slow >>
queueVars == << row, sent, inFlight, limit, halted, others, unmarked >>

\* old: started_at is _STALE_RUNNING_SECS ago.  run: the role run that began
\* the directive is alive, or has written the status and not yet the report.
FileRec == [ status : { "none", "pending", "running", "done", "failed" },
             report : BOOLEAN, old : BOOLEAN, run : { "none", "live", "report" } ]

\* files, rows: what is left of the last scan.
WorkerRec == [ pc : { "idle", "scanned", "next", "claim", "call", "finish",
                      "report", "row", "check", "dbcall", "mark" },
               files : SUBSET Directive, rows : SUBSET Queued,
               dir : Directive, ok : BOOLEAN ]

DrainRec == [ pc : { "idle", "row", "room", "send", "route", "mark" },
              rows : SUBSET Queued, room : Nat ]

BusTypeOK ==
    /\ file \in [ Directive -> FileRec ]
    /\ worker \in WorkerRec
    /\ row \in [ Queued -> { "none", "waiting", "dispatched" } ]
    /\ drainer \in [ Drainer -> DrainRec ]
    /\ sent \in [ Queued -> Nat ]
    /\ { inFlight, limit, others, trouble, unmarked } \subseteq Nat
    /\ { halted, slow } \subseteq BOOLEAN

NoFile    == [ status |-> "none", report |-> FALSE, old |-> FALSE, run |-> "none" ]
IdleWorker == [ pc |-> "idle", files |-> {}, rows |-> {},
                dir |-> CHOOSE d \in Directive : TRUE, ok |-> FALSE ]
IdleDrain == [ pc |-> "idle", rows |-> {}, room |-> 0 ]

BusInit ==
    /\ file = [ d \in Directive |-> NoFile ]
    /\ worker = IdleWorker
    /\ row = [ q \in Queued |-> "none" ]
    /\ drainer = [ p \in Drainer |-> IdleDrain ]
    /\ sent = [ q \in Queued |-> 0 ]
    /\ inFlight = 0 /\ limit = DefaultLimit /\ halted = FALSE /\ slow = FALSE
    /\ others = 0 /\ trouble = 0 /\ unmarked = 0

Spare == trouble < MaxBusFaults
Spend == Spare /\ trouble' = trouble + 1

-----------------------------------------------------------------------------
(* The file bus: role_runtime.py                                           *)

EnqueueDirective(d) ==
    /\ file[d].status = "none"
    /\ file' = [ file EXCEPT ![d].status = "pending" ]
    /\ UNCHANGED << worker, drainer, queueVars, slow, trouble >>

BeginDirective(d) ==
    /\ file[d].status = "none"
    /\ file' = [ file EXCEPT ![d].status = "running", ![d].run = "live" ]
    /\ UNCHANGED << worker, drainer, queueVars, slow, trouble >>

\* complete_directive and fail_directive: the status, whatever it is by now ...
CompleteStatus(d) ==
    /\ file[d].run = "live"
    /\ \E s \in { "done", "failed" } :
          file' = [ file EXCEPT ![d].status = s, ![d].run = "report" ]
    /\ UNCHANGED << worker, drainer, queueVars, slow, trouble >>

\* ... and then the report.
CompleteReport(d) ==
    /\ file[d].run = "report"
    /\ file' = [ file EXCEPT ![d].report = TRUE, ![d].run = "none" ]
    /\ UNCHANGED << worker, drainer, queueVars, slow, trouble >>

\* Ten minutes have passed since started_at.
Grows(d) ==
    /\ file[d].status = "running" /\ ~file[d].old
    /\ file' = [ file EXCEPT ![d].old = TRUE ]
    /\ slow' = (slow \/ file[d].run = "live"
                     \/ (worker.dir = d /\ worker.pc \in { "call", "finish" }))
    /\ UNCHANGED << worker, drainer, queueVars, trouble >>

-----------------------------------------------------------------------------
(* The role worker                                                         *)

\* Faulty: a running directive is never taken for stale.
StaleNever(d) == FALSE

\* Faulty: or whatever its age.
StaleAnyAge(d) == file[d].status = "running" /\ ~file[d].report

\* _is_stale_running.
Stale(d) == file[d].status = "running" /\ ~file[d].report /\ file[d].old

\* scan_file_directives.
ScanFiles ==
    /\ worker.pc = "idle"
    /\ worker' = [ worker EXCEPT !.pc = "scanned", !.files =
                     { d \in Directive : file[d].status = "pending" \/ Stale(d) } ]
    /\ UNCHANGED << fileVars, drainer, queueVars, trouble >>

\* Rows that wait; the identifier is the order of priority and queued_at, in
\* which what a SELECT returned is gone through.
Waiting == { q \in Queued : row[q] = "waiting" }

First(rows) == CHOOSE q \in rows : \A r \in rows : q <= r
Rest(rows)  == rows \ { First(rows) }

\* scan_db_directives.
ScanDb ==
    /\ worker.pc = "scanned"
    /\ worker' = [ worker EXCEPT !.pc = "next", !.rows = Waiting ]
    /\ UNCHANGED << fileVars, drainer, queueVars, trouble >>

\* The next item: files first.  _claim_file_directive reads the status.
NextFileItem ==
    /\ worker.pc = "next"
    /\ \E d \in worker.files :
          worker' = [ worker EXCEPT !.files = @ \ {d}, !.dir = d,
                        !.pc = IF file[d].status \in { "pending", "running" }
                                 THEN "claim" ELSE "next" ]
    /\ UNCHANGED << fileVars, drainer, queueVars, trouble >>

\* _claim_file_directive writes the status, whatever it is by now.
ClaimDirective ==
    /\ worker.pc = "claim"
    /\ file' = [ file EXCEPT ![worker.dir].status = "running",
                             ![worker.dir].old = FALSE ]
    /\ worker' = [ worker EXCEPT !.pc = "call" ]
    /\ UNCHANGED << slow, drainer, queueVars, trouble >>

\* The tool returns ok or an error, or raises, which role_worker_tick takes
\* for an error.
CallTool ==
    /\ worker.pc = "call"
    /\ \E ok \in BOOLEAN : worker' = [ worker EXCEPT !.pc = "finish", !.ok = ok ]
    /\ UNCHANGED << fileVars, drainer, queueVars, trouble >>

\* _finish_file_directive: the status ...
FinishStatus ==
    /\ worker.pc = "finish"
    /\ file' = [ file EXCEPT ![worker.dir].status =
                                 IF worker.ok THEN "done" ELSE "failed" ]
    /\ worker' = [ worker EXCEPT !.pc = "report" ]
    /\ UNCHANGED << slow, drainer, queueVars, trouble >>

\* ... and a report in place of what was there.
FinishReport ==
    /\ worker.pc = "report"
    /\ file' = [ file EXCEPT ![worker.dir].report = TRUE ]
    /\ worker' = [ worker EXCEPT !.pc = "next" ]
    /\ UNCHANGED << slow, drainer, queueVars, trouble >>

HasRoom == ~halted /\ inFlight < limit

\* _can_dispatch_project, in one query, for the next row of the scan.
CheckRow ==
    /\ worker.pc = "next" /\ worker.files = {} /\ worker.rows # {}
    /\ worker' = IF HasRoom THEN [ worker EXCEPT !.pc = "dbcall" ]
                            ELSE [ worker EXCEPT !.rows = Rest(@) ]
    /\ UNCHANGED << fileVars, drainer, queueVars, trouble >>

\* The tool accepts.  No row of route_history comes of it.
SendRow ==
    /\ worker.pc = "dbcall"
    /\ sent' = [ sent EXCEPT ![First(worker.rows)] = @ + 1 ]
    /\ worker' = [ worker EXCEPT !.pc = "mark" ]
    /\ UNCHANGED << fileVars, drainer, row, inFlight, limit, halted, others,
                    unmarked, trouble >>

\* The tool refuses: the row is left for the next tick.
SendRowFails ==
    /\ Spend
    /\ worker.pc = "dbcall"
    /\ worker' = [ worker EXCEPT !.pc = "next", !.rows = Rest(@) ]
    /\ UNCHANGED << fileVars, drainer, queueVars >>

MarkDispatched(q) == row' = [ row EXCEPT ![q] = "dispatched" ]

MarkRow ==
    /\ worker.pc = "mark"
    /\ MarkDispatched(First(worker.rows))
    /\ worker' = [ worker EXCEPT !.pc = "next", !.rows = Rest(@) ]
    /\ UNCHANGED << fileVars, drainer, sent, inFlight, limit, halted, others,
                    unmarked, trouble >>

MarkRowFails ==
    /\ Spend
    /\ worker.pc = "mark"
    /\ unmarked' = unmarked + 1
    /\ worker' = [ worker EXCEPT !.pc = "next", !.rows = Rest(@) ]
    /\ UNCHANGED << fileVars, drainer, row, sent, inFlight, limit, halted, others >>

EndOfTick ==
    /\ worker.pc = "next" /\ worker.files = {} /\ worker.rows = {}
    /\ worker' = IdleWorker
    /\ UNCHANGED << fileVars, drainer, queueVars, trouble >>

\* The process of the Hub ends: the worker starts over, and so do no roles.
HubDies ==
    /\ Spend
    /\ worker' = IdleWorker
    /\ file' = [ d \in Directive |-> [ file[d] EXCEPT !.run = "none" ] ]
    /\ unmarked' = IF worker.pc = "mark" THEN unmarked + 1 ELSE unmarked
    /\ UNCHANGED << slow, drainer, row, sent, inFlight, limit, halted, others >>

-----------------------------------------------------------------------------
(* portfolio.sh                                                            *)

\* portfolio_queue_directive.
QueueDirective ==
    /\ \E q \in Queued :
          /\ row[q] = "none" /\ \A r \in 1..(q - 1) : row[r] # "none"
          /\ row' = [ row EXCEPT ![q] = "waiting" ]
    /\ UNCHANGED << fileVars, worker, drainer, sent, inFlight, limit, halted,
                    others, unmarked, trouble >>

\* portfolio_drain_queue: the SELECT.
DrainSelect(p) ==
    /\ drainer[p].pc = "idle" /\ Waiting # {}
    /\ drainer' = [ drainer EXCEPT ![p] = [ IdleDrain EXCEPT !.pc = "row",
                                                             !.rows = Waiting ] ]
    /\ UNCHANGED << fileVars, worker, queueVars, trouble >>

\* The next row, or the end of them.
Skip(p) ==
    LET left == Rest(drainer[p].rows) IN
    drainer' = [ drainer EXCEPT ![p] =
                   IF left = {} THEN IdleDrain
                     ELSE [ pc |-> "row", rows |-> left, room |-> 0 ] ]

\* portfolio_can_dispatch: status and limit ...
DrainLimit(p) ==
    /\ drainer[p].pc = "row"
    /\ IF halted THEN Skip(p)
       ELSE drainer' = [ drainer EXCEPT ![p].pc = "room", ![p].room = limit ]
    /\ UNCHANGED << fileVars, worker, queueVars, trouble >>

\* ... and, in a query after it, the count.
DrainRoom(p) ==
    /\ drainer[p].pc = "room"
    /\ IF inFlight < drainer[p].room
         THEN drainer' = [ drainer EXCEPT ![p].pc = "send" ] ELSE Skip(p)
    /\ UNCHANGED << fileVars, worker, queueVars, trouble >>

\* route_dispatch_to_subsystem: the call of the tool ...
DrainSend(p) ==
    /\ drainer[p].pc = "send"
    /\ sent' = [ sent EXCEPT ![First(drainer[p].rows)] = @ + 1 ]
    /\ drainer' = [ drainer EXCEPT ![p].pc = "route" ]
    /\ UNCHANGED << fileVars, worker, row, inFlight, limit, halted, others,
                    unmarked, trouble >>

\* The call fails and the tool has not taken the directive.  (One that it took
\* and whose reply is lost is DrainSend with DrainUnmarked after it.)
DrainSendFails(p) ==
    /\ Spend
    /\ drainer[p].pc = "send"
    /\ Skip(p)
    /\ UNCHANGED << fileVars, worker, queueVars >>

\* ... and the row of route_history.
DrainRoute(p) ==
    /\ drainer[p].pc = "route"
    /\ inFlight' = inFlight + 1
    /\ drainer' = [ drainer EXCEPT ![p].pc = "mark" ]
    /\ UNCHANGED << fileVars, worker, row, sent, limit, halted, others, unmarked,
                    trouble >>

\* Faulty: nothing is marked.
DrainMarkNone(p) ==
    /\ drainer[p].pc = "mark"
    /\ Skip(p)
    /\ UNCHANGED << fileVars, worker, queueVars, trouble >>

DrainMark(p) ==
    /\ drainer[p].pc = "mark"
    /\ MarkDispatched(First(drainer[p].rows))
    /\ Skip(p)
    /\ UNCHANGED << fileVars, worker, sent, inFlight, limit, halted, others,
                    unmarked, trouble >>

\* The reply is lost or names no directive, the INSERT fails (skipped), or the
\* UPDATE does (|| true): the row waits.
DrainUnmarked(p) ==
    /\ Spend
    /\ drainer[p].pc \in { "route", "mark" }
    /\ unmarked' = unmarked + 1
    /\ Skip(p)
    /\ UNCHANGED << fileVars, worker, row, sent, inFlight, limit, halted, others >>

DrainDies(p) ==
    /\ Spend
    /\ drainer[p].pc # "idle"
    /\ unmarked' = IF drainer[p].pc \in { "route", "mark" } THEN unmarked + 1 ELSE unmarked
    /\ drainer' = [ drainer EXCEPT ![p] = IdleDrain ]
    /\ UNCHANGED << fileVars, worker, row, sent, inFlight, limit, halted, others >>

\* portfolio_set_limit, to any number.
SetLimit ==
    /\ Spend
    /\ \E n \in 0..(DefaultLimit + 1) : n # limit /\ limit' = n
    /\ UNCHANGED << fileVars, worker, drainer, row, sent, inFlight, halted, others,
                    unmarked >>

\* The project is paused, blocked, or let go on.
Halt ==
    /\ Spend
    /\ halted' = ~halted
    /\ UNCHANGED << fileVars, worker, drainer, row, sent, inFlight, limit, others,
                    unmarked >>

\* A dispatch of router.sh for the current phase: the portfolio is not asked.
OtherDispatch ==
    /\ others < MaxOthers
    /\ others' = others + 1 /\ inFlight' = inFlight + 1
    /\ UNCHANGED << fileVars, worker, drainer, row, sent, limit, halted, unmarked,
                    trouble >>

\* route_record_reply.
Reply ==
    /\ inFlight > 0
    /\ inFlight' = inFlight - 1
    /\ UNCHANGED << fileVars, worker, drainer, row, sent, limit, halted, others,
                    unmarked, trouble >>

-----------------------------------------------------------------------------

RoleRun(d) == CompleteStatus(d) \/ CompleteReport(d)

BusWorkerStep ==
    \/ ScanFiles \/ ScanDb \/ NextFileItem \/ ClaimDirective \/ CallTool \/ FinishStatus
    \/ FinishReport \/ CheckRow \/ SendRow \/ MarkRow \/ EndOfTick

DrainStep(p) ==
    \/ DrainSelect(p) \/ DrainLimit(p) \/ DrainRoom(p) \/ DrainSend(p)
    \/ DrainRoute(p) \/ DrainMark(p)

BusNext ==
    \/ \E d \in Directive : EnqueueDirective(d) \/ BeginDirective(d) \/ RoleRun(d)
                            \/ Grows(d)
    \/ BusWorkerStep \/ SendRowFails \/ MarkRowFails \/ HubDies
    \/ \E p \in Drainer : DrainStep(p) \/ DrainSendFails(p) \/ DrainUnmarked(p)
                          \/ DrainDies(p)
    \/ QueueDirective \/ SetLimit \/ Halt \/ OtherDispatch \/ Reply

\* The worker's loop goes on for ever, time passes, a role ends unless the Hub
\* does.  Nobody has to run portfolio.sh, and no reply has to arrive.
BusFairness ==
    /\ WF_busVars(BusWorkerStep)
    /\ \A d \in Directive : WF_busVars(RoleRun(d)) /\ WF_busVars(Grows(d))

BusSpec == BusInit /\ [][BusNext]_busVars /\ BusFairness

-----------------------------------------------------------------------------
(* Properties                                                              *)

Settled(d) == file[d].status \in { "done", "failed" }

\* What is done or failed stays so as long as no role outlives _STALE_RUNNING_
\* SECS: the worker reclaims the directives of a dead process and no others,
\* although its claim looks at the status and writes it in two steps.
SettledStays ==
    [][ \A d \in Directive :
          Settled(d) /\ ~slow' => file'[d].status = file[d].status ]_busVars

\* A row of the queue is dispatched more than once only by as many as read the
\* queue at the same time, and once more for each call whose mark was lost.
RepeatsBounded ==
    \A q \in Queued : sent[q] <= Cardinality(Drainer) + 1 + unmarked

\* No work is forgotten on either bus.  Whatever crashes, between whichever two
\* writes, a queued or begun directive ends done or failed, or its report is
\* there (the worker's claim may undo a status that was written after it looked;
\* if the Hub dies then, the directive keeps "running" and its report).  And
\* without anybody's drain the worker empties the queue, unless the project is
\* paused or blocked or as many directives are open as its limit allows.
WorkTakenUp ==
    <>[](/\ \A d \in Directive : file[d].status = "none" \/ Settled(d) \/ file[d].report
         /\ halted \/ inFlight >= limit \/ \A q \in Queued : row[q] # "waiting")
=============================================================================
