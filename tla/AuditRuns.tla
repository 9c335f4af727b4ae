----------------------------- MODULE AuditRuns -----------------------------
(***************************************************************************)
(* One audit run of Tron (verify/tron): the row the API creates, and what  *)
(* writes to it.  With Temporal the run is AuditWorkflow, whose activities *)
(* are retried and time out (workflows/audit_workflow.py, activities.py);  *)
(* an attempt that timed out goes on in its worker, and what it writes is  *)
(* written.  Without Temporal it is one coroutine of the API's process     *)
(* (services/audit_executor.py).  Beside either an operator fails the runs *)
(* that stayed queued (services/audit_reconcile.py), a scanner's SARIF is  *)
(* merged into the run (api/routes/audits.py), and findings are suppressed.*)
(*                                                                         *)
(* An agent catches its own exceptions and answers with no findings, so an *)
(* agent's failure is one of the sets found may be.                        *)
(***************************************************************************)
EXTENDS Integers, FiniteSets

CONSTANTS
    Finding,       \* fingerprints
    AuditModes,    \* subset of "temporal" and "background": temporal_enabled
    Importer,      \* concurrent requests to import_sarif
    MaxAudAttempts,   \* maximum_attempts of _QUICK_RETRY and _SCAN_RETRY
    MaxAudFaults   \* bound: failed, lost and late attempts, raises, crashes of
                   \* the API, passes of the operator

ASSUME AuditAssumption ==
    /\ IsFiniteSet(Finding)
    /\ AuditModes \subseteq { "temporal", "background" }
    /\ MaxAudAttempts \in Nat \ {0} /\ MaxAudFaults \in Nat

Attempt == 1 .. MaxAudAttempts

\* What the workflow awaits, in the order of _run_audit_phases.
Awaits == [ load |-> "scan", scan |-> "agents", agents |-> "verify",
            verify |-> "deep", deep |-> "synth" ]

\* One attempt of synthesize_findings, or the executor's coroutine.
Pass == [ pc : { "none", "start", "read", "persist", "finalize", "after", "ended" },
          kept : SUBSET Finding ]

NoPass == [ pc |-> "none", kept |-> {} ]

\* One import_sarif.  rows: the fingerprints it found in the table, then those
\* it inserts.  total: the rows it counted.
Import == [ pc : { "idle", "read", "counted" }, rows : SUBSET Finding, total : Nat ]

NoImport == [ pc |-> "idle", rows |-> {}, total |-> 0 ]

VARIABLES
    auditMode,   \* how the API dispatches
    request,     \* create_audit: not yet dispatched, its dispatch raised, over
    audit,       \* the audit_runs row: status and findings_total
    table,       \* findings rows of the run, per fingerprint: no key is unique
    suppressed,  \* finding_suppressions of the project
    found,       \* findings of the agents: agent_results, or result.findings
    refuted,     \* findings the sandbox rejects as false positives
    flow,        \* the workflow: what it awaits, which attempt of it; the end
                 \* of the background run is noted here too
    synth,       \* the attempts of synthesize_findings
    executor,    \* the background coroutine
    operator,    \* reconcile_stale_queued_audits
    sarif,       \* the requests to import_sarif
    auditFaults,
    seen         \* history: whether a pass finalised, a mark was given up, an
                 \* import committed before the counts, findings were stored
                 \* between an import's count and its commit, a completed run
                 \* was set failed by the API, the API crashed; the passes that
                 \* stored findings, and what a pass left out as suppressed

auditVars == << auditMode, request, audit, table, suppressed, found, refuted, flow, synth,
                executor, operator, sarif, auditFaults, seen >>

AuditInit ==
    /\ auditMode \in AuditModes
    /\ request = "open"
    /\ audit = [ status |-> "none", total |-> 0 ]
    /\ table = [ f \in Finding |-> 0 ]
    /\ suppressed \in SUBSET Finding /\ found = {} /\ refuted = {}
    /\ flow = [ pc |-> "off", try |-> 1 ]
    /\ synth = [ i \in Attempt |-> NoPass ]
    /\ executor = NoPass
    /\ operator = "idle"
    /\ sarif = [ i \in Importer |-> NoImport ]
    /\ auditFaults = 0
    /\ seen = [ final |-> FALSE, markLost |-> FALSE, early |-> FALSE, overlap |-> FALSE,
                late |-> FALSE, crash |-> FALSE, passes |-> 0, hidden |-> {} ]

-----------------------------------------------------------------------------
\* The API.

AuditTrouble == auditFaults < MaxAudFaults /\ auditFaults' = auditFaults + 1

\* create_audit up to its commit.
CreateAudit ==
    /\ audit.status = "none"
    /\ audit' = [ audit EXCEPT !.status = "queued" ]
    /\ UNCHANGED << auditMode, request, table, suppressed, found, refuted, flow, synth,
                    executor, operator, sarif, auditFaults, seen >>

\* _dispatch_temporal_audit, or the background task.
DispatchAudit ==
    /\ audit.status # "none" /\ request = "open"
    /\ request' = "over"
    /\ IF auditMode = "temporal"
       THEN flow' = [ flow EXCEPT !.pc = "load" ] /\ UNCHANGED executor
       ELSE executor' = [ executor EXCEPT !.pc = "start" ] /\ UNCHANGED flow
    /\ UNCHANGED << auditMode, audit, table, suppressed, found, refuted, synth,
                    operator, sarif, auditFaults, seen >>

\* start_workflow raises, and the server may have started the workflow even so;
\* or the background task fails to load its secrets.
DispatchRaises ==
    /\ audit.status # "none" /\ request = "open"
    /\ AuditTrouble
    /\ request' = "raised"
    /\ \/ auditMode = "temporal" /\ flow' = [ flow EXCEPT !.pc = "load" ]
       \/ flow' = [ flow EXCEPT !.pc = "failed" ]
    /\ UNCHANGED << auditMode, audit, table, suppressed, found, refuted, synth,
                    executor, operator, sarif, seen >>

\* Either handler then sets the row failed, whatever it is by now.
DispatchMarks ==
    /\ request = "raised"
    /\ request' = "over"
    /\ audit' = [ audit EXCEPT !.status = "failed" ]
    /\ seen' = [ seen EXCEPT !.late = @ \/ audit.status = "completed" ]
    /\ UNCHANGED << auditMode, table, suppressed, found, refuted, flow, synth,
                    executor, operator, sarif, auditFaults >>

\* Or cannot: the exception goes to the client, or to the log.
DispatchMarkFails ==
    /\ request = "raised"
    /\ AuditTrouble
    /\ request' = "over"
    /\ seen' = [ seen EXCEPT !.markLost = TRUE ]
    /\ UNCHANGED << auditMode, audit, table, suppressed, found, refuted, flow, synth,
                    executor, operator, sarif >>

\* The API's process dies: in the request, or with the coroutine.
ApiCrash ==
    /\ audit.status # "none"
    /\ request # "over" \/ executor.pc \notin { "none", "ended" }
    /\ AuditTrouble
    /\ request' = "over"
    /\ executor' = [ executor EXCEPT !.pc = "ended" ]
    /\ operator' = "idle"
    /\ sarif' = [ i \in Importer |-> NoImport ]
    /\ seen' = [ seen EXCEPT !.crash = TRUE ]
    /\ UNCHANGED << auditMode, audit, table, suppressed, found, refuted, flow,
                    synth >>

\* The operator's SELECT of the runs that are queued past the threshold ...
ReconcileSelect ==
    /\ operator = "idle"
    /\ audit.status = "queued"
    /\ AuditTrouble
    /\ operator' = "selected"
    /\ UNCHANGED << auditMode, request, audit, table, suppressed, found, refuted, flow,
                    synth, executor, sarif, seen >>

\* ... and its UPDATE of those ids, whatever they are by now.
ReconcileUpdate ==
    /\ operator = "selected"
    /\ operator' = "idle"
    /\ audit' = [ audit EXCEPT !.status = "failed" ]
    /\ seen' = [ seen EXCEPT !.late = @ \/ audit.status = "completed" ]
    /\ UNCHANGED << auditMode, request, table, suppressed, found, refuted, flow, synth,
                    executor, sarif, auditFaults >>

\* The rows of a table: each fingerprint's are told apart by a number.
RowsOf(t) == UNION { { << f, n >> : n \in 1..t[f] } : f \in Finding }

RowCount(t) == Cardinality(RowsOf(t))

\* The table with one more row for each of these fingerprints.
WithRows(new) == [ f \in Finding |-> table[f] + IF f \in new THEN 1 ELSE 0 ]

\* Some import, other than those of these requests, has counted a table that is
\* not the one it will commit to if rows are added now.
CountPending(done) == \E i \in Importer \ done : sarif[i].pc = "counted"

\* import_sarif reads the fingerprints of the run ...
ImportReads(i) ==
    /\ sarif[i].pc = "idle"
    /\ audit.status # "none"
    /\ AuditTrouble
    /\ sarif' = [ sarif EXCEPT ![i] =
                    [ pc |-> "read", rows |-> { f \in Finding : table[f] > 0 },
                      total |-> 0 ] ]
    /\ UNCHANGED << auditMode, request, audit, table, suppressed, found, refuted, flow,
                    synth, executor, operator, seen >>

\* ... inserts the new ones of the file, which nobody else sees yet, and if
\* there are any counts them and the rows that are committed by now ...
ImportCounts(i, file) ==
    /\ sarif[i].pc = "read"
    /\ LET new == file \ sarif[i].rows IN
       sarif' = [ sarif EXCEPT ![i] =
                    IF new = {} THEN NoImport
                    ELSE [ pc |-> "counted", rows |-> new,
                           total |-> RowCount(WithRows(new)) ] ]
    /\ UNCHANGED << auditMode, request, audit, table, suppressed, found, refuted, flow,
                    synth, executor, operator, auditFaults, seen >>

\* Faulty: the counts are left as they were.
ImportCommitsOnly(i) ==
    /\ sarif[i].pc = "counted"
    /\ sarif' = [ sarif EXCEPT ![i] = NoImport ]
    /\ table' = WithRows(sarif[i].rows)
    /\ seen' = [ seen EXCEPT !.early = @ \/ ~seen.final,
                             !.overlap = @ \/ CountPending({i}) ]
    /\ UNCHANGED << auditMode, request, audit, suppressed, found, refuted, flow,
                    synth, executor, operator, auditFaults >>

\* ... and commits its rows with that count, whatever was committed meanwhile.
ImportCommits(i) ==
    /\ sarif[i].pc = "counted"
    /\ sarif' = [ sarif EXCEPT ![i] = NoImport ]
    /\ table' = WithRows(sarif[i].rows)
    /\ audit' = [ audit EXCEPT !.total = sarif[i].total ]
    /\ seen' = [ seen EXCEPT !.early = @ \/ ~seen.final,
                             !.overlap = @ \/ CountPending({i}) ]
    /\ UNCHANGED << auditMode, request, suppressed, found, refuted, flow, synth, executor,
                    operator, auditFaults >>

\* dismiss_finding and restore_finding of a row with this fingerprint, of this
\* run or of an earlier one.
Triage(f) ==
    /\ audit.status # "none"
    /\ suppressed' = IF f \in suppressed THEN suppressed \ {f} ELSE suppressed \cup {f}
    /\ AuditTrouble
    /\ UNCHANGED << auditMode, request, audit, table, found, refuted, flow, synth,
                    executor, operator, sarif, seen >>

ApiNext ==
    \/ CreateAudit \/ DispatchAudit \/ DispatchRaises \/ DispatchMarks
    \/ DispatchMarkFails \/ ApiCrash
    \/ ReconcileSelect \/ ReconcileUpdate
    \/ \E i \in Importer :
          \/ ImportReads(i) \/ ImportCommits(i)
          \/ \E file \in SUBSET Finding : ImportCounts(i, file)
    \/ \E f \in Finding : Triage(f)

-----------------------------------------------------------------------------
\* Writes of a pass, the same in activities.py and audit_executor.py.

\* Faulty: a run that has findings is left alone.
PersistedOnce(kept) ==
    IF \E f \in Finding : table[f] > 0 THEN table
    ELSE [ f \in Finding |-> IF f \in kept THEN 1 ELSE 0 ]

\* _persist_findings_to_db, _persist_findings: plain INSERTs.
Persisted(kept) == WithRows(kept)

\* _finalize_audit_run, _finalize_audit: no condition on the status.
Finalised(kept) == [ status |-> "completed", total |-> Cardinality(kept) ]

-----------------------------------------------------------------------------
\* AuditWorkflow.

\* Faulty: one attempt too many.
RetryOrLate(f, give_up) ==
    IF f.try <= MaxAudAttempts THEN [ f EXCEPT !.try = @ + 1 ]
                               ELSE [ pc |-> give_up, try |-> 1 ]

\* The awaited activity failed or timed out: the next attempt of it, or the
\* workflow's except branch, which marks the run and raises in any case.
RetryOr(f, give_up) ==
    IF f.try < MaxAudAttempts THEN [ f EXCEPT !.try = @ + 1 ]
                              ELSE [ pc |-> give_up, try |-> 1 ]

\* load_project_metadata moves the row off queued, and only off queued.
LoadMoves == [ audit EXCEPT !.status = IF @ = "queued" THEN "running" ELSE @ ]

LoadProject ==
    /\ flow.pc = "load"
    /\ audit' = LoadMoves
    /\ flow' = [ pc |-> Awaits[flow.pc], try |-> 1 ]
    /\ UNCHANGED << auditMode, request, table, suppressed, found, refuted, synth, executor,
                    operator, sarif, auditFaults, seen >>

\* scan_repository, the agents and both sandbox activities write nothing the
\* run shows.  The sandbox activities edit the findings they were sent, and
\* what they were sent is a copy: the workflow keeps the agents' findings.
PhaseReturns ==
    /\ flow.pc \in { "scan", "agents", "verify", "deep" }
    /\ IF flow.pc = "agents" THEN found' \in SUBSET Finding ELSE UNCHANGED found
    /\ IF flow.pc \in { "verify", "deep" }
       THEN \E r \in SUBSET found : refuted' = refuted \cup r
       ELSE UNCHANGED refuted
    /\ flow' = [ pc |-> Awaits[flow.pc], try |-> 1 ]
    /\ UNCHANGED << auditMode, request, audit, table, suppressed, synth, executor,
                    operator, sarif, auditFaults, seen >>

\* An attempt of them raises or times out, before or after what it writes.
PhaseFails ==
    /\ flow.pc \in DOMAIN Awaits
    /\ AuditTrouble
    /\ \/ flow.pc = "load" /\ audit' = LoadMoves
       \/ UNCHANGED audit
    /\ flow' = RetryOr(flow, "mark")
    /\ UNCHANGED << auditMode, request, table, suppressed, found, refuted, synth, executor,
                    operator, sarif, seen >>

SynthStarts ==
    /\ flow.pc = "synth"
    /\ synth[flow.try].pc = "none"
    /\ synth' = [ synth EXCEPT ![flow.try].pc = "read" ]
    /\ UNCHANGED << auditMode, request, audit, table, suppressed, found, refuted, flow,
                    executor, operator, sarif, auditFaults, seen >>

\* The findings minus what is suppressed now.
SynthReads(i) ==
    /\ synth[i].pc = "read"
    /\ synth' = [ synth EXCEPT ![i] = [ pc |-> "persist", kept |-> found \ suppressed ] ]
    /\ seen' = [ seen EXCEPT !.hidden = @ \cup (found \cap suppressed) ]
    /\ UNCHANGED << auditMode, request, audit, table, suppressed, found, refuted, flow,
                    executor, operator, sarif, auditFaults >>

SynthPersists(i) ==
    /\ synth[i].pc = "persist"
    /\ table' = Persisted(synth[i].kept)
    /\ synth' = [ synth EXCEPT ![i].pc = "finalize" ]
    /\ seen' = [ seen EXCEPT !.passes = @ + 1, !.overlap = @ \/ CountPending({}) ]
    /\ UNCHANGED << auditMode, request, audit, suppressed, found, refuted, flow, executor,
                    operator, sarif, auditFaults >>

SynthFinalises(i) ==
    /\ synth[i].pc = "finalize"
    /\ audit' = Finalised(synth[i].kept)
    /\ synth' = [ synth EXCEPT ![i].pc = "after" ]
    /\ seen' = [ seen EXCEPT !.final = TRUE ]
    /\ UNCHANGED << auditMode, request, table, suppressed, found, refuted, flow, executor,
                    operator, sarif, auditFaults >>

\* The attempt returns; only the awaited one's answer counts.
SynthReturns(i) ==
    /\ synth[i].pc = "after"
    /\ synth' = [ synth EXCEPT ![i].pc = "ended" ]
    /\ flow' = IF flow = [ pc |-> "synth", try |-> i ]
               THEN [ pc |-> "ok", try |-> 1 ] ELSE flow
    /\ UNCHANGED << auditMode, request, audit, table, suppressed, found, refuted, executor,
                    operator, sarif, auditFaults, seen >>

\* The attempt raises, up to the hand-off after the counts are written.
SynthRaises(i) ==
    /\ synth[i].pc \notin { "none", "ended" }
    /\ AuditTrouble
    /\ synth' = [ synth EXCEPT ![i].pc = "ended" ]
    /\ flow' = IF flow = [ pc |-> "synth", try |-> i ]
               THEN RetryOr(flow, "mark") ELSE flow
    /\ UNCHANGED << auditMode, request, audit, table, suppressed, found, refuted, executor,
                    operator, sarif, seen >>

\* Its worker dies: nobody hears of it until the timeout.
SynthLost(i) ==
    /\ synth[i].pc \notin { "none", "ended" }
    /\ AuditTrouble
    /\ synth' = [ synth EXCEPT ![i].pc = "ended" ]
    /\ UNCHANGED << auditMode, request, audit, table, suppressed, found, refuted, flow,
                    executor, operator, sarif, seen >>

\* Faulty: the timeout is the worker's own, and dies with it.
SynthTimesOutAlive ==
    /\ flow.pc = "synth"
    /\ synth[flow.try].pc \notin { "none", "ended" }
    /\ AuditTrouble
    /\ flow' = RetryOr(flow, "mark")
    /\ UNCHANGED << auditMode, request, audit, table, suppressed, found, refuted,
                    synth, executor, operator, sarif, seen >>

\* start_to_close_timeout of an attempt that died, or of one that is slow.
SynthTimesOut ==
    /\ flow.pc = "synth"
    /\ synth[flow.try].pc # "none"
    /\ IF synth[flow.try].pc = "ended" THEN UNCHANGED auditFaults ELSE AuditTrouble
    /\ flow' = RetryOr(flow, "mark")
    /\ UNCHANGED << auditMode, request, audit, table, suppressed, found, refuted, synth,
                    executor, operator, sarif, seen >>

\* Faulty: settled or not.
MarkFailedAny == [ audit EXCEPT !.status = "failed" ]

\* mark_audit_run_failed: not over a run that is settled.
MarkFailed ==
    [ audit EXCEPT !.status = IF @ \in { "queued", "running" } THEN "failed" ELSE @ ]

MarkReturns ==
    /\ flow.pc = "mark"
    /\ audit' = MarkFailed
    /\ flow' = [ flow EXCEPT !.pc = "failed" ]
    /\ UNCHANGED << auditMode, request, table, suppressed, found, refuted, synth, executor,
                    operator, sarif, auditFaults, seen >>

\* An attempt to mark fails, and after the last the workflow only logs it; or
\* the worker has no database and the attempt returns without marking.
MarkAttemptFails ==
    /\ flow.pc = "mark"
    /\ AuditTrouble
    /\ flow' \in { RetryOr(flow, "failed"), [ pc |-> "failed", try |-> 1 ] }
    /\ seen' = [ seen EXCEPT !.markLost = flow'.pc = "failed" ]
    /\ UNCHANGED << auditMode, request, audit, table, suppressed, found, refuted, synth,
                    executor, operator, sarif >>

FlowStep ==
    \/ LoadProject \/ PhaseReturns \/ SynthStarts \/ SynthTimesOut \/ MarkReturns
    \/ \E i \in Attempt : SynthReads(i) \/ SynthPersists(i)
                          \/ SynthFinalises(i) \/ SynthReturns(i)

FlowFault ==
    \/ PhaseFails \/ MarkAttemptFails
    \/ \E i \in Attempt : SynthRaises(i) \/ SynthLost(i)

-----------------------------------------------------------------------------
\* AuditExecutor.run.

ExecutorStarts ==
    /\ executor.pc = "start"
    /\ executor' = [ executor EXCEPT !.pc = "read" ]
    /\ audit' = [ audit EXCEPT !.status = "running" ]
    /\ UNCHANGED << auditMode, request, table, suppressed, found, refuted, flow,
                    synth, operator, sarif, auditFaults, seen >>

\* The agents, the first sandbox pass, the suppressions, the second pass: what
\* the sandbox rejects leaves the findings.
ExecutorAnalyses ==
    /\ executor.pc = "read"
    /\ found' \in SUBSET Finding
    /\ refuted' \in SUBSET found'
    /\ executor' = [ pc |-> "persist", kept |-> (found' \ refuted') \ suppressed ]
    /\ audit' = [ audit EXCEPT !.status = "running" ]
    /\ seen' = [ seen EXCEPT !.hidden = found' \cap suppressed ]
    /\ UNCHANGED << auditMode, request, table, suppressed, flow, synth, operator,
                    sarif, auditFaults >>

\* Each step sets the status to running again before it works.
ExecutorPersists ==
    /\ executor.pc = "persist"
    /\ table' = Persisted(executor.kept)
    /\ audit' = [ audit EXCEPT !.status = "running" ]
    /\ executor' = [ executor EXCEPT !.pc = "finalize" ]
    /\ seen' = [ seen EXCEPT !.passes = @ + 1, !.overlap = @ \/ CountPending({}) ]
    /\ UNCHANGED << auditMode, request, suppressed, found, refuted, flow, synth, operator,
                    sarif, auditFaults >>

ExecutorFinalises ==
    /\ executor.pc = "finalize"
    /\ audit' = Finalised(executor.kept)
    /\ executor' = [ executor EXCEPT !.pc = "after" ]
    /\ seen' = [ seen EXCEPT !.final = TRUE ]
    /\ UNCHANGED << auditMode, request, table, suppressed, found, refuted, flow, synth,
                    operator, sarif, auditFaults >>

ExecutorEnds ==
    /\ executor.pc = "after"
    /\ executor' = [ executor EXCEPT !.pc = "ended" ]
    /\ flow' = [ flow EXCEPT !.pc = "ok" ]
    /\ UNCHANGED << auditMode, request, audit, table, suppressed, found, refuted, synth,
                    operator, sarif, auditFaults, seen >>

\* Any step raises, the hand-off after the counts too: _fail_audit sets the
\* row failed whatever it was, or logs that it could not.
ExecutorRaises ==
    /\ executor.pc \notin { "none", "ended" }
    /\ AuditTrouble
    /\ executor' = [ executor EXCEPT !.pc = "ended" ]
    /\ flow' = [ flow EXCEPT !.pc = "failed" ]
    /\ \/ audit' = [ audit EXCEPT !.status = "failed" ] /\ UNCHANGED seen
       \/ seen' = [ seen EXCEPT !.markLost = TRUE ] /\ UNCHANGED audit
    /\ UNCHANGED << auditMode, request, table, suppressed, found, refuted, synth, operator,
                    sarif >>

ExecutorStep ==
    \/ ExecutorStarts \/ ExecutorAnalyses \/ ExecutorPersists
    \/ ExecutorFinalises \/ ExecutorEnds

AuditNext == ApiNext \/ FlowStep \/ FlowFault \/ ExecutorStep \/ ExecutorRaises

\* Temporal hands out tasks and fires timeouts; the event loop runs on.
AuditFairness ==
    /\ WF_auditVars(CreateAudit \/ DispatchAudit \/ DispatchMarks)
    /\ WF_auditVars(FlowStep)
    /\ WF_auditVars(ExecutorStep)

AuditSpec == AuditInit /\ [][AuditNext]_auditVars /\ AuditFairness

-----------------------------------------------------------------------------
\* The types, and that no activity is attempted more often than its retry
\* policy allows, the mark of a failure included.
AuditTypeOK ==
    /\ auditMode \in AuditModes
    /\ request \in { "open", "raised", "over" }
    /\ audit \in [ status : { "none", "queued", "running", "failed", "completed" },
                    total : Nat ]
    /\ table \in [ Finding -> Nat ]
    /\ suppressed \subseteq Finding /\ found \subseteq Finding
    /\ refuted \subseteq Finding
    /\ flow \in [ pc : DOMAIN Awaits \cup { "off", "synth", "mark", "ok", "failed" },
                   try : Attempt ]
    /\ synth \in [ Attempt -> Pass ] /\ executor \in Pass
    /\ operator \in { "idle", "selected" }
    /\ sarif \in [ Importer -> Import ]
    /\ auditFaults \in 0 .. MaxAudFaults
    /\ seen \in [ final : BOOLEAN, markLost : BOOLEAN, early : BOOLEAN,
                   overlap : BOOLEAN, late : BOOLEAN, crash : BOOLEAN, passes : Nat,
                   hidden : SUBSET Finding ]

Background == auditMode = "background"

\* A run is shown as completed only when every finding of the agents that no
\* pass left out as suppressed is stored, whichever attempts were retried,
\* died or went on after their timeout, and whatever was imported meanwhile.
\* Only the in-process executor leaves out what the sandbox rejected.
NothingLost ==
    audit.status = "completed" =>
        \A f \in found \ seen.hidden :
            table[f] > 0 \/ (Background /\ f \in refuted)

\* How the run ended is what the row says: completed after a success; after a
\* failure completed if a pass of the workflow had written its counts, failed
\* if none had.  Aside from a mark that was given up, a crash of the API, and a
\* request or an operator that set a completed run failed.
OutcomeAgrees ==
    ~(seen.late \/ seen.markLost \/ seen.crash) /\ request = "over" =>
        /\ flow.pc = "ok" => audit.status = "completed"
        /\ flow.pc = "failed" =>
              audit.status = IF seen.final /\ ~Background THEN "completed"
                                                         ELSE "failed"

\* However passes and imports interleave, the run's total, which the quality
\* gate reads, is never more than the findings it has.  It is their number when
\* one pass stored its findings, no import came before the counts, and nothing
\* was stored between an import's count and its commit.
CountsExact ==
    /\ audit.total <= RowCount(table)
    /\ (/\ audit.status = "completed" /\ seen.passes = 1
        /\ ~seen.early /\ ~seen.overlap) => audit.total = RowCount(table)

\* A run that was created ends up failed or completed and stays so, unless the
\* API died with it or nobody could write its failure down.
AuditSettled ==
    audit.status \in { "failed", "completed" } \/ seen.crash \/ seen.markLost

AuditSettles == <>[]AuditSettled

\* activities.py, verify_findings_with_sandbox: "Rejected (false positive):
\* removed from results".  What the sandbox rejected is not a stored finding.
RejectedGone ==
    audit.status = "completed" => \A f \in refuted : table[f] = 0
=============================================================================
