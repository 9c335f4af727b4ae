-------------------------- MODULE AuditRunsProofs --------------------------
(***************************************************************************)
(* Proofs about AuditRuns, for any set of findings, any retry policy and   *)
(* any number of faults: no activity is attempted too often, a completed   *)
(* run has lost no finding, the row says how the run ended, and the total  *)
(* the quality gate reads is never more than the rows, and is their number *)
(* when nothing raced the counts.                                          *)
(***************************************************************************)
EXTENDS AuditRuns, FiniteSetTheorems, TLAPS

-----------------------------------------------------------------------------
(* The inductive invariants                                                *)

Status == { "none", "queued", "running", "failed", "completed" }

FlowPc == { "load", "scan", "agents", "verify", "deep", "off", "synth", "mark",
            "ok", "failed" }

Seen == [ final : BOOLEAN, markLost : BOOLEAN, early : BOOLEAN, overlap : BOOLEAN,
          late : BOOLEAN, crash : BOOLEAN, passes : Nat, hidden : SUBSET Finding ]

\* AuditTypeOK, with the sets spelled out.
Typed ==
    /\ auditMode \in AuditModes \cap { "temporal", "background" }
    /\ request \in { "open", "raised", "over" }
    /\ audit \in [ status : Status, total : Nat ]
    /\ table \in [ Finding -> Nat ]
    /\ suppressed \subseteq Finding /\ found \subseteq Finding
    /\ refuted \subseteq Finding
    /\ flow \in [ pc : FlowPc, try : Attempt ]
    /\ synth \in [ Attempt -> Pass ] /\ executor \in Pass
    /\ operator \in { "idle", "selected" }
    /\ sarif \in [ Importer -> Import ]
    /\ auditFaults \in 0 .. MaxAudFaults
    /\ seen \in Seen

\* The workflow has not come to its synthesis.
Before == flow.pc \in { "off", "load", "scan", "agents", "verify", "deep" }

ExecutorOff == executor.pc \in { "none", "ended" }

\* A run is dispatched once, one way or the other.
OneDispatcher ==
    /\ audit.status = "none" => request = "open"
    /\ request = "open" => flow.pc = "off" /\ executor.pc = "none"
    /\ Before => \A i \in Attempt : synth[i].pc = "none"
    /\ ~Background => ExecutorOff /\ (Before => audit.status # "completed")
    /\ Background => /\ flow.pc \in { "off", "ok", "failed" }
                     /\ \A i \in Attempt : synth[i].pc = "none"
                     /\ flow.pc # "off" => ExecutorOff

\* What a pass kept covers the findings, and is in the table once stored.
Stored(p) ==
    /\ p.pc \in { "persist", "finalize", "after" } => found \ seen.hidden \subseteq p.kept
    /\ p.pc \in { "finalize", "after" } => \A f \in p.kept : table[f] > 0

ExecutorStored ==
    /\ executor.pc \in { "persist", "finalize" } =>
          (found \ seen.hidden) \ refuted \subseteq executor.kept
    /\ executor.pc = "finalize" => \A f \in executor.kept : table[f] > 0
    /\ Background /\ audit.status = "completed" => executor.pc \in { "after", "ended" }

PassesStore == (\A i \in Attempt : Stored(synth[i])) /\ ExecutorStored

\* The status a pass wrote stays, unless somebody set a completed run failed.
Outcome ==
    /\ ~Background =>
          /\ audit.status = "completed" => seen.final
          /\ seen.final /\ ~seen.late => audit.status = "completed"
          /\ \A i \in Attempt : synth[i].pc = "after" => seen.final
          /\ flow.pc = "ok" => seen.final
    /\ Background =>
          /\ executor.pc = "after" \/ flow.pc = "ok" =>
                audit.status = "completed" \/ seen.late
    /\ flow.pc = "failed" /\ request = "over" /\ ~seen.markLost /\ ~seen.crash =>
          audit.status = "failed" \/ (~Background /\ seen.final)

AuditInv == Typed /\ OneDispatcher /\ PassesStore /\ NothingLost /\ Outcome

\* No pass has stored its findings and not yet written the counts.
NoneBetween ==
    executor.pc # "finalize" /\ \A i \in Attempt : synth[i].pc # "finalize"

\* The one pass that stored is the one that counts, or nobody has counted yet.
CountSane ==
    /\ audit.status = "completed" => seen.final
    /\ seen.passes = 0 =>
          /\ ~seen.final /\ NoneBetween
          /\ seen.early \/ table = [ f \in Finding |-> 0 ]
    /\ seen.passes = 1 =>
          /\ \A i, j \in Attempt :
                synth[i].pc = "finalize" /\ synth[j].pc = "finalize" => i = j
          /\ seen.final => NoneBetween
          /\ seen.final /\ ~seen.early /\ ~seen.overlap => audit.total = RowCount(table)
          /\ ~seen.final /\ ~seen.early =>
                /\ executor.pc = "finalize" =>
                      RowCount(table) = Cardinality(executor.kept)
                /\ \A i \in Attempt : synth[i].pc = "finalize" =>
                      RowCount(table) = Cardinality(synth[i].kept)

\* A table with one more row for each of these fingerprints.
Plus(t, new) == [ f \in Finding |-> t[f] + IF f \in new THEN 1 ELSE 0 ]

\* An import has counted at most what the table will hold when it commits, and
\* exactly that if nothing was stored since.
ImportCounted(s, t, o) ==
    s.pc = "counted" => /\ s.total <= RowCount(Plus(t, s.rows))
                        /\ ~o => s.total = RowCount(Plus(t, s.rows))

\* Rows are only added, so no count is ever too high.
CountBounded ==
    /\ audit.total <= RowCount(table)
    /\ \A i \in Importer : ImportCounted(sarif[i], table, seen.overlap)

-----------------------------------------------------------------------------
(* Writes                                                                  *)

LEMMA FlowPcs == FlowPc = DOMAIN Awaits \cup { "off", "synth", "mark", "ok", "failed" }
BY DEF FlowPc, Awaits

LEMMA Attempts == 1 \in Attempt /\ Attempt \subseteq Nat
BY AuditAssumption DEF Attempt

\* A write of the status alone, and of the total alone.
LEMMA StatusWrite ==
    ASSUME Typed, NEW v \in Status, audit' = [ audit EXCEPT !.status = v ]
    PROVE  audit' \in [ status : Status, total : Nat ] /\ audit'.status = v
BY DEF Typed

LEMMA TotalWrite ==
    ASSUME Typed, NEW v \in Nat, audit' = [ audit EXCEPT !.total = v ]
    PROVE  /\ audit' \in [ status : Status, total : Nat ]
           /\ audit'.status = audit.status
BY DEF Typed

LEMMA FlowWrite ==
    ASSUME Typed, NEW v \in FlowPc, flow' = [ flow EXCEPT !.pc = v ]
    PROVE  flow' \in [ pc : FlowPc, try : Attempt ] /\ flow'.pc = v
BY DEF Typed

\* The next attempt, within the retry policy, or none.
LEMMA RetryMove ==
    ASSUME Typed, NEW v \in FlowPc, flow' = RetryOr(flow, v)
    PROVE  flow' \in [ pc : FlowPc, try : Attempt ] /\ flow'.pc \in { flow.pc, v }
<1>1. flow \in [ pc : FlowPc, try : Attempt ]
    BY DEF Typed
<1>2. CASE flow.try < MaxAudAttempts
    <2>1. flow.try + 1 \in Attempt
        BY <1>1, <1>2, AuditAssumption DEF Attempt
    <2>2. flow' = [ flow EXCEPT !.try = flow.try + 1 ]
        BY <1>2 DEF RetryOr
    <2> QED
        BY <1>1, <2>1, <2>2
<1>3. CASE ~(flow.try < MaxAudAttempts)
    BY <1>3, Attempts DEF RetryOr
<1> QED
    BY <1>2, <1>3

\* The history: one field at a time.
LEMMA SeenLate ==
    ASSUME Typed, NEW b \in BOOLEAN, seen' = [ seen EXCEPT !.late = @ \/ b ]
    PROVE  /\ seen' \in Seen
           /\ seen'.final = seen.final /\ seen'.markLost = seen.markLost
           /\ seen'.crash = seen.crash /\ seen'.hidden = seen.hidden
           /\ seen'.late <=> seen.late \/ b
           /\ seen'.passes = seen.passes /\ seen'.early = seen.early
           /\ seen'.overlap = seen.overlap
BY DEF Typed, Seen

LEMMA SeenCrash ==
    ASSUME Typed, seen' = [ seen EXCEPT !.crash = TRUE ]
    PROVE  /\ seen' \in Seen
           /\ seen'.final = seen.final /\ seen'.markLost = seen.markLost
           /\ seen'.late = seen.late /\ seen'.hidden = seen.hidden
           /\ seen'.crash
           /\ seen'.passes = seen.passes /\ seen'.early = seen.early
           /\ seen'.overlap = seen.overlap
BY DEF Typed, Seen

LEMMA SeenEarly ==
    ASSUME Typed, NEW b \in BOOLEAN, NEW o \in BOOLEAN,
           seen' = [ seen EXCEPT !.early = @ \/ b, !.overlap = @ \/ o ]
    PROVE  /\ seen' \in Seen
           /\ seen'.final = seen.final /\ seen'.markLost = seen.markLost
           /\ seen'.late = seen.late /\ seen'.hidden = seen.hidden
           /\ seen'.crash = seen.crash
           /\ seen'.passes = seen.passes /\ (seen'.early <=> seen.early \/ b)
           /\ seen'.overlap <=> seen.overlap \/ o
BY DEF Typed, Seen

LEMMA SeenLost ==
    ASSUME Typed, NEW b \in BOOLEAN, seen' = [ seen EXCEPT !.markLost = b ]
    PROVE  /\ seen' \in Seen
           /\ seen'.final = seen.final /\ seen'.markLost = b
           /\ seen'.late = seen.late /\ seen'.hidden = seen.hidden
           /\ seen'.crash = seen.crash
           /\ seen'.passes = seen.passes /\ seen'.early = seen.early
           /\ seen'.overlap = seen.overlap
BY DEF Typed, Seen

LEMMA SeenFinal ==
    ASSUME Typed, seen' = [ seen EXCEPT !.final = TRUE ]
    PROVE  /\ seen' \in Seen
           /\ seen'.final /\ seen'.markLost = seen.markLost
           /\ seen'.late = seen.late /\ seen'.hidden = seen.hidden
           /\ seen'.crash = seen.crash
           /\ seen'.passes = seen.passes /\ seen'.early = seen.early
           /\ seen'.overlap = seen.overlap
BY DEF Typed, Seen

LEMMA SeenPass ==
    ASSUME Typed, NEW o \in BOOLEAN,
           seen' = [ seen EXCEPT !.passes = @ + 1, !.overlap = @ \/ o ]
    PROVE  /\ seen' \in Seen
           /\ seen'.final = seen.final /\ seen'.markLost = seen.markLost
           /\ seen'.late = seen.late /\ seen'.hidden = seen.hidden
           /\ seen'.crash = seen.crash
           /\ seen'.passes = seen.passes + 1 /\ seen'.early = seen.early
           /\ seen'.overlap <=> seen.overlap \/ o
<1> DEFINE n == seen.passes + 1
           q == seen.overlap \/ o
<1>1. n \in Nat
    BY DEF Typed, Seen
<1>2. q \in BOOLEAN /\ (q <=> seen.overlap \/ o)
    OBVIOUS
<1>3. seen \in Seen /\ seen' = [ seen EXCEPT !.passes = n, !.overlap = q ]
    BY DEF Typed
<1> HIDE DEF n, q
<1>4. /\ seen' \in Seen /\ seen'.passes = n /\ seen'.overlap = q
      /\ seen'.final = seen.final /\ seen'.markLost = seen.markLost
      /\ seen'.late = seen.late /\ seen'.hidden = seen.hidden
      /\ seen'.crash = seen.crash /\ seen'.early = seen.early
    BY <1>1, <1>2, <1>3 DEF Seen
<1>5. n = seen.passes + 1
    BY DEF n
<1> QED
    BY <1>2, <1>4, <1>5

LEMMA SeenHidden ==
    ASSUME Typed, NEW h \in SUBSET Finding, seen' = [ seen EXCEPT !.hidden = h ]
    PROVE  /\ seen' \in Seen
           /\ seen'.final = seen.final /\ seen'.markLost = seen.markLost
           /\ seen'.late = seen.late /\ seen'.hidden = h
           /\ seen'.crash = seen.crash
           /\ seen'.passes = seen.passes /\ seen'.early = seen.early
           /\ seen'.overlap = seen.overlap
BY DEF Typed, Seen

\* One more fault, within the bound.
LEMMA FaultWrite ==
    ASSUME Typed, AuditTrouble \/ UNCHANGED auditFaults
    PROVE  auditFaults' \in 0 .. MaxAudFaults
BY AuditAssumption DEF Typed, AuditTrouble

\* One attempt's state, and the executor's.
LEMMA SynthWrite ==
    ASSUME Typed, NEW i \in Attempt, NEW r \in Pass, synth' = [ synth EXCEPT ![i] = r ]
    PROVE  /\ synth' \in [ Attempt -> Pass ]
           /\ synth'[i] = r
           /\ \A j \in Attempt : j # i => synth'[j] = synth[j]
BY DEF Typed

LEMMA SynthPc ==
    ASSUME Typed, NEW i \in Attempt,
           NEW v \in { "read", "persist", "finalize", "after", "ended" },
           synth' = [ synth EXCEPT ![i].pc = v ]
    PROVE  /\ synth' \in [ Attempt -> Pass ]
           /\ synth'[i] \in Pass /\ synth'[i].pc = v /\ synth'[i].kept = synth[i].kept
           /\ \A j \in Attempt : j # i => synth'[j] = synth[j]
<1> DEFINE r == [ synth[i] EXCEPT !.pc = v ]
<1>1. synth[i] \in Pass
    BY DEF Typed
<1>2. r \in Pass /\ r.pc = v /\ r.kept = synth[i].kept
    BY <1>1 DEF Pass
<1>3. synth' = [ synth EXCEPT ![i] = r ]
    BY DEF Typed
<1> HIDE DEF r
<1> QED
    BY <1>2, <1>3, SynthWrite

LEMMA ExecutorPc ==
    ASSUME Typed, NEW v \in { "start", "read", "persist", "finalize", "after", "ended" },
           executor' = [ executor EXCEPT !.pc = v ]
    PROVE  executor' \in Pass /\ executor'.pc = v /\ executor'.kept = executor.kept
BY DEF Typed, Pass

\* One import's state.
LEMMA SarifWrite ==
    ASSUME Typed, NEW i \in Importer, NEW r \in Import, sarif' = [ sarif EXCEPT ![i] = r ]
    PROVE  /\ sarif' \in [ Importer -> Import ]
           /\ sarif'[i] = r
           /\ \A j \in Importer : j # i => sarif'[j] = sarif[j]
BY DEF Typed

LEMMA NoImportType == NoImport \in Import /\ NoImport.pc = "idle"
BY DEF NoImport, Import

-----------------------------------------------------------------------------
(* Counting rows                                                           *)

LEMMA RowsFinite ==
    ASSUME NEW t \in [ Finding -> Nat ]
    PROVE  IsFiniteSet(RowsOf(t)) /\ RowCount(t) \in Nat
<1> DEFINE R(f) == { << f, n >> : n \in 1..t[f] }
           all == { R(f) : f \in Finding }
<1>1. ASSUME NEW f \in Finding
      PROVE  IsFiniteSet(R(f))
    <2> DEFINE g == [ n \in 1..t[f] |-> << f, n >> ]
    <2>1. IsFiniteSet(1..t[f])
        BY FS_Interval
    <2>2. g \in Surjection(1..t[f], R(f))
        BY DEF Surjection
    <2> QED
        BY <2>1, <2>2, FS_Surjection
<1>2. IsFiniteSet(all)
    <2> DEFINE h == [ f \in Finding |-> R(f) ]
    <2> HIDE DEF R
    <2>1. h \in Surjection(Finding, all)
        BY DEF Surjection
    <2> QED
        BY <2>1, AuditAssumption, FS_Surjection
<1>3. RowsOf(t) = UNION all
    BY DEF RowsOf
<1>4. \A x \in all : IsFiniteSet(x)
    BY <1>1
<1> HIDE DEF all
<1> QED
    BY <1>2, <1>3, <1>4, FS_UNION, FS_CardinalityType DEF RowCount

\* A table that holds each of some findings once.
LEMMA RowsOfOnce ==
    ASSUME NEW kept \in SUBSET Finding, NEW t,
           t = [ f \in Finding |-> IF f \in kept THEN 1 ELSE 0 ]
    PROVE  RowCount(t) = Cardinality(kept)
<1> DEFINE g == [ f \in kept |-> << f, 1 >> ]
<1>1. \A f \in Finding : 1..t[f] = IF f \in kept THEN {1} ELSE {}
    <2>1. 1..1 = {1} /\ 1..0 = {}
        OBVIOUS
    <2> QED
        BY <2>1
<1>2. RowsOf(t) = { << f, 1 >> : f \in kept }
    BY <1>1 DEF RowsOf
<1>3. g \in Bijection(kept, RowsOf(t))
    <2>1. g \in [ kept -> RowsOf(t) ] /\ \A x \in RowsOf(t) : \E f \in kept : g[f] = x
        BY <1>2
    <2>2. \A e, f \in kept : g[e] = g[f] => e = f
        OBVIOUS
    <2> QED
        BY <2>1, <2>2 DEF Bijection, Injection, IsInjective, Surjection
<1>4. IsFiniteSet(kept)
    BY AuditAssumption, FS_Subset
<1> QED
    BY <1>3, <1>4, FS_Bijection DEF RowCount, ExistsBijection

\* More rows of a fingerprint are more rows.
LEMMA RowsGrow ==
    ASSUME NEW t \in [ Finding -> Nat ], NEW u \in [ Finding -> Nat ],
           \A f \in Finding : t[f] <= u[f]
    PROVE  RowCount(t) <= RowCount(u)
<1>1. \A f \in Finding : 1..t[f] \subseteq 1..u[f]
    OBVIOUS
<1>2. RowsOf(t) \subseteq RowsOf(u)
    BY <1>1 DEF RowsOf
<1> QED
    BY <1>2, RowsFinite, FS_Subset DEF RowCount

\* There are at least as many rows as fingerprints that have one.
LEMMA RowsOfKept ==
    ASSUME NEW t \in [ Finding -> Nat ], NEW kept \in SUBSET Finding,
           \A f \in kept : t[f] > 0
    PROVE  Cardinality(kept) <= RowCount(t)
<1> DEFINE u == [ f \in Finding |-> IF f \in kept THEN 1 ELSE 0 ]
<1>1. u \in [ Finding -> Nat ] /\ \A f \in Finding : u[f] <= t[f]
    OBVIOUS
<1>2. RowCount(u) = Cardinality(kept)
    BY RowsOfOnce
<1> HIDE DEF u
<1> QED
    BY <1>1, <1>2, RowsGrow

LEMMA PlusType ==
    ASSUME NEW t \in [ Finding -> Nat ], NEW new
    PROVE  /\ Plus(t, new) \in [ Finding -> Nat ]
           /\ \A f \in Finding : t[f] <= Plus(t, new)[f]
           /\ \A f \in Finding \cap new : Plus(t, new)[f] > 0
<1>1. \A f \in Finding : /\ t[f] \in Nat
                          /\ Plus(t, new)[f] = t[f] + IF f \in new THEN 1 ELSE 0
    BY DEF Plus
<1>2. \A f \in Finding : Plus(t, new)[f] \in Nat
    BY <1>1
<1>3. Plus(t, new) \in [ Finding -> Nat ]
    BY <1>2 DEF Plus
<1> QED
    BY <1>1, <1>3

LEMMA PlusGrows ==
    ASSUME NEW t \in [ Finding -> Nat ], NEW u \in [ Finding -> Nat ], NEW new,
           \A f \in Finding : t[f] <= u[f]
    PROVE  RowCount(Plus(t, new)) <= RowCount(Plus(u, new))
<1>1. ASSUME NEW f \in Finding
      PROVE  Plus(t, new)[f] <= Plus(u, new)[f]
    <2>1. t[f] \in Nat /\ u[f] \in Nat /\ t[f] <= u[f]
        OBVIOUS
    <2>2. CASE f \in new
        <3>1. Plus(t, new)[f] = t[f] + 1 /\ Plus(u, new)[f] = u[f] + 1
            BY <2>2 DEF Plus
        <3> QED
            BY <2>1, <3>1
    <2>3. CASE f \notin new
        <3>1. Plus(t, new)[f] = t[f] + 0 /\ Plus(u, new)[f] = u[f] + 0
            BY <2>3 DEF Plus
        <3> QED
            BY <2>1, <3>1
    <2> QED
        BY <2>2, <2>3
<1> QED
    BY <1>1, PlusType, RowsGrow

LEMMA KeptCount ==
    ASSUME NEW kept \in SUBSET Finding
    PROVE  Cardinality(kept) \in Nat
BY AuditAssumption, FS_Subset, FS_CardinalityType

-----------------------------------------------------------------------------
(* Steps that store nothing                                                *)

\* They leave what the passes stored as it was.
LEMMA StoresKept ==
    ASSUME AuditInv, UNCHANGED << auditMode, table, found, refuted, synth >>,
           seen'.hidden = seen.hidden,
           \/ executor' = executor
           \/ executor'.pc = "ended"
           \/ executor'.pc = "start" /\ executor.pc = "none",
           audit'.status = "completed" => audit.status = "completed"
    PROVE  PassesStore' /\ NothingLost'
<1>1. \A i \in Attempt : Stored(synth[i])'
    BY DEF AuditInv, PassesStore, Stored
<1>2. ExecutorStored'
    BY DEF AuditInv, PassesStore, ExecutorStored, Background
<1>3. NothingLost'
    BY DEF AuditInv, NothingLost, Background
<1> QED
    BY <1>1, <1>2, <1>3 DEF PassesStore

LEMMA CreateAuditStep ==
    ASSUME AuditInv, CreateAudit
    PROVE  AuditInv'
<1>1. /\ UNCHANGED << auditMode, request, table, suppressed, found, refuted, flow, synth,
                      executor, operator, sarif, auditFaults, seen >>
      /\ audit.status = "none" /\ audit' = [ audit EXCEPT !.status = "queued" ]
    BY DEF CreateAudit
<1>2. /\ audit' \in [ status : Status, total : Nat ]
      /\ audit'.status = "queued"
    BY <1>1, StatusWrite DEF AuditInv, Status
<1>3. Typed'
    BY <1>1, <1>2 DEF AuditInv, Typed
<1>4. OneDispatcher'
    BY <1>1, <1>2 DEF AuditInv, OneDispatcher, Before, ExecutorOff, Background
<1>5. PassesStore' /\ NothingLost'
    BY <1>1, <1>2, StoresKept
<1>6. Outcome'
    BY <1>1, <1>2 DEF AuditInv, OneDispatcher, Outcome, Background, ExecutorOff
<1> QED
    BY <1>3, <1>4, <1>5, <1>6 DEF AuditInv

LEMMA DispatchAuditStep ==
    ASSUME AuditInv, DispatchAudit
    PROVE  AuditInv'
<1>1. /\ UNCHANGED << auditMode, audit, table, suppressed, found, refuted, synth,
                      operator, sarif, auditFaults, seen >>
      /\ audit.status # "none" /\ request = "open" /\ request' = "over"
      /\ flow.pc = "off" /\ executor.pc = "none"
    BY DEF DispatchAudit, AuditInv, OneDispatcher
<1>2. CASE auditMode = "temporal"
    <2>1. flow' = [ flow EXCEPT !.pc = "load" ] /\ UNCHANGED executor
        BY <1>2 DEF DispatchAudit
    <2>2. flow' \in [ pc : FlowPc, try : Attempt ] /\ flow'.pc = "load"
        BY <2>1, FlowWrite DEF AuditInv, FlowPc
    <2>3. Typed'
        BY <1>1, <2>1, <2>2 DEF AuditInv, Typed
    <2>4. OneDispatcher'
        BY <1>1, <1>2, <2>1, <2>2
           DEF AuditInv, OneDispatcher, Before, ExecutorOff, Background
    <2>5. PassesStore' /\ NothingLost'
        BY <1>1, <2>1, StoresKept
    <2>6. Outcome'
        BY <1>1, <1>2, <2>1, <2>2 DEF AuditInv, Outcome, Background
    <2> QED
        BY <2>3, <2>4, <2>5, <2>6 DEF AuditInv
<1>3. CASE auditMode = "background"
    <2>1. executor' = [ executor EXCEPT !.pc = "start" ] /\ UNCHANGED flow
        BY <1>3 DEF DispatchAudit
    <2>2. executor' \in Pass /\ executor'.pc = "start"
        BY <2>1, ExecutorPc DEF AuditInv
    <2>3. Typed'
        BY <1>1, <2>1, <2>2 DEF AuditInv, Typed
    <2>4. OneDispatcher'
        BY <1>1, <1>3, <2>1, <2>2
           DEF AuditInv, OneDispatcher, Before, ExecutorOff, Background
    <2>5. PassesStore' /\ NothingLost'
        BY <1>1, <2>1, <2>2, StoresKept
    <2>6. Outcome'
        BY <1>1, <1>3, <2>1, <2>2 DEF AuditInv, Outcome, Background
    <2> QED
        BY <2>3, <2>4, <2>5, <2>6 DEF AuditInv
<1> QED
    BY <1>2, <1>3 DEF AuditInv, Typed

LEMMA DispatchRaisesStep ==
    ASSUME AuditInv, DispatchRaises
    PROVE  AuditInv'
<1>1. /\ UNCHANGED << auditMode, audit, table, suppressed, found, refuted, synth,
                      executor, operator, sarif, seen >>
      /\ audit.status # "none" /\ request = "open" /\ request' = "raised"
      /\ flow.pc = "off" /\ executor.pc = "none"
      /\ auditFaults' \in 0 .. MaxAudFaults
    BY FaultWrite DEF DispatchRaises, AuditInv, OneDispatcher
<1>2. /\ flow' \in [ pc : FlowPc, try : Attempt ]
      /\ flow'.pc = "failed" \/ (flow'.pc = "load" /\ auditMode = "temporal")
    BY FlowWrite DEF DispatchRaises, AuditInv, FlowPc
<1>3. Typed'
    BY <1>1, <1>2 DEF AuditInv, Typed
<1>4. OneDispatcher'
    BY <1>1, <1>2 DEF AuditInv, OneDispatcher, Before, ExecutorOff, Background
<1>5. PassesStore' /\ NothingLost'
    BY <1>1, StoresKept
<1>6. Outcome'
    BY <1>1, <1>2 DEF AuditInv, Outcome, Background
<1> QED
    BY <1>3, <1>4, <1>5, <1>6 DEF AuditInv

\* The row is set failed whatever it is: by the request or by the operator.
LEMMA SetFailedStep ==
    ASSUME AuditInv, DispatchMarks \/ ReconcileUpdate
    PROVE  AuditInv'
<1> DEFINE b == audit.status = "completed"
<1>1. /\ UNCHANGED << auditMode, table, suppressed, found, refuted, flow, synth,
                      executor, sarif, auditFaults >>
      /\ audit' = [ audit EXCEPT !.status = "failed" ]
      /\ operator' \in { "idle", operator }
      /\ \/ request' = "over" /\ request = "raised"
         \/ request' = request
    BY DEF DispatchMarks, ReconcileUpdate
<1>2. /\ audit' \in [ status : Status, total : Nat ]
      /\ audit'.status = "failed"
    BY <1>1, StatusWrite DEF AuditInv, Status
<1>3. /\ seen' \in Seen
      /\ seen'.final = seen.final /\ seen'.hidden = seen.hidden
      /\ seen'.late <=> seen.late \/ b
    BY SeenLate DEF DispatchMarks, ReconcileUpdate, AuditInv
<1>4. Typed'
    BY <1>1, <1>2, <1>3 DEF AuditInv, Typed
<1>5. OneDispatcher'
    BY <1>1, <1>2 DEF AuditInv, OneDispatcher, Before, ExecutorOff, Background
<1>6. PassesStore' /\ NothingLost'
    BY <1>1, <1>2, <1>3, StoresKept
<1>7. Outcome'
    BY <1>1, <1>2, <1>3 DEF AuditInv, Outcome, Background
<1> QED
    BY <1>4, <1>5, <1>6, <1>7 DEF AuditInv

LEMMA DispatchMarkFailsStep ==
    ASSUME AuditInv, DispatchMarkFails
    PROVE  AuditInv'
<1>1. /\ UNCHANGED << auditMode, audit, table, suppressed, found, refuted, flow, synth,
                      executor, operator, sarif >>
      /\ request = "raised" /\ request' = "over"
      /\ seen' = [ seen EXCEPT !.markLost = TRUE ]
      /\ auditFaults' \in 0 .. MaxAudFaults
    BY FaultWrite DEF DispatchMarkFails, AuditInv
<1>2. /\ seen' \in Seen /\ seen'.markLost
      /\ seen'.final = seen.final /\ seen'.late = seen.late /\ seen'.hidden = seen.hidden
    BY <1>1, SeenLost DEF AuditInv
<1>3. Typed'
    BY <1>1, <1>2 DEF AuditInv, Typed
<1>4. OneDispatcher'
    BY <1>1 DEF AuditInv, OneDispatcher, Before, ExecutorOff, Background
<1>5. PassesStore' /\ NothingLost'
    BY <1>1, <1>2, StoresKept
<1>6. Outcome'
    BY <1>1, <1>2 DEF AuditInv, Outcome, Background
<1> QED
    BY <1>3, <1>4, <1>5, <1>6 DEF AuditInv

LEMMA ApiCrashStep ==
    ASSUME AuditInv, ApiCrash
    PROVE  AuditInv'
<1>1. /\ UNCHANGED << auditMode, audit, table, suppressed, found, refuted, flow, synth >>
      /\ audit.status # "none" /\ request' = "over" /\ operator' = "idle"
      /\ executor' = [ executor EXCEPT !.pc = "ended" ]
      /\ sarif' \in [ Importer -> Import ]
      /\ seen' = [ seen EXCEPT !.crash = TRUE ]
      /\ auditFaults' \in 0 .. MaxAudFaults
    BY FaultWrite, NoImportType DEF ApiCrash, AuditInv
<1>2. executor' \in Pass /\ executor'.pc = "ended"
    BY <1>1, ExecutorPc DEF AuditInv
<1>3. /\ seen' \in Seen
      /\ seen'.final = seen.final /\ seen'.late = seen.late /\ seen'.hidden = seen.hidden
      /\ seen'.crash
    BY <1>1, SeenCrash DEF AuditInv
<1>4. Typed'
    BY <1>1, <1>2, <1>3 DEF AuditInv, Typed
<1>5. OneDispatcher'
    BY <1>1, <1>2 DEF AuditInv, OneDispatcher, Before, ExecutorOff, Background
<1>6. PassesStore' /\ NothingLost'
    BY <1>1, <1>2, <1>3, StoresKept
<1>7. Outcome'
    BY <1>1, <1>2, <1>3 DEF AuditInv, Outcome, Background
<1> QED
    BY <1>4, <1>5, <1>6, <1>7 DEF AuditInv

\* An import reads, or counts what it would make of the table.
LEMMA ImportMove ==
    ASSUME AuditInv, NEW i \in Importer, NEW file \in SUBSET Finding,
           ImportReads(i) \/ ImportCounts(i, file)
    PROVE  /\ sarif' \in [ Importer -> Import ]
           /\ \A j \in Importer : j # i => sarif'[j] = sarif[j]
           /\ sarif'[i].pc = "counted" =>
                 /\ sarif'[i].total = RowCount(Plus(table, sarif'[i].rows))
                 /\ sarif'[i].rows \subseteq Finding
<1>1. Typed
    BY DEF AuditInv
<1>2. CASE ImportReads(i)
    <2> DEFINE r == [ pc |-> "read", rows |-> { f \in Finding : table[f] > 0 },
                      total |-> 0 ]
    <2>1. r \in Import /\ r.pc = "read"
        BY DEF Import
    <2>2. sarif' = [ sarif EXCEPT ![i] = r ]
        BY <1>2 DEF ImportReads
    <2> HIDE DEF r
    <2> QED
        BY <1>1, <2>1, <2>2, SarifWrite
<1>3. CASE ImportCounts(i, file)
    <2> DEFINE new == file \ sarif[i].rows
               n == RowCount(Plus(table, new))
               r == [ pc |-> "counted", rows |-> new, total |-> n ]
    <2>1. sarif' = [ sarif EXCEPT ![i] = IF new = {} THEN NoImport ELSE r ]
        BY <1>3 DEF ImportCounts, WithRows, Plus
    <2>2. n \in Nat
        <3> HIDE DEF new
        <3> QED
            BY <1>1, PlusType, RowsFinite DEF Typed
    <2>3. new \subseteq Finding
        OBVIOUS
    <2>4. r.pc = "counted" /\ r.rows = new /\ r.total = RowCount(Plus(table, r.rows))
        OBVIOUS
    <2> HIDE DEF new, n
    <2>5. r \in Import
        BY <2>2, <2>3 DEF Import
    <2> HIDE DEF r
    <2>6. CASE new = {}
        BY <1>1, <2>1, <2>6, NoImportType, SarifWrite
    <2>7. CASE new # {}
        <3>1. sarif' = [ sarif EXCEPT ![i] = r ]
            BY <2>1, <2>7
        <3> QED
            BY <1>1, <2>3, <2>4, <2>5, <3>1, SarifWrite
    <2> QED
        BY <2>6, <2>7
<1> QED
    BY <1>2, <1>3

\* The operator's SELECT, an import's, and a triage.
LEMMA LooksStep ==
    ASSUME AuditInv,
           \/ ReconcileSelect \/ \E f \in Finding : Triage(f)
           \/ \E i \in Importer :
                 ImportReads(i) \/ \E file \in SUBSET Finding : ImportCounts(i, file)
    PROVE  AuditInv'
<1>1. UNCHANGED << auditMode, request, audit, table, found, refuted, flow, synth,
                   executor, seen >>
    BY DEF ReconcileSelect, ImportReads, ImportCounts, Triage
<1>2. sarif' \in [ Importer -> Import ]
    <2>1. CASE ReconcileSelect \/ \E f \in Finding : Triage(f)
        BY <2>1 DEF ReconcileSelect, Triage, AuditInv, Typed
    <2>2. {} \in SUBSET Finding
        OBVIOUS
    <2> QED
        BY <2>1, <2>2, ImportMove
<1>3. /\ operator' \in { "idle", "selected" }
      /\ suppressed' \subseteq Finding
      /\ auditFaults' \in 0 .. MaxAudFaults
    BY FaultWrite DEF ReconcileSelect, ImportReads, ImportCounts, Triage, AuditInv, Typed
<1>4. Typed'
    BY <1>1, <1>2, <1>3 DEF AuditInv, Typed
<1>5. OneDispatcher'
    BY <1>1 DEF AuditInv, OneDispatcher, Before, ExecutorOff, Background
<1>6. PassesStore' /\ NothingLost'
    BY <1>1, StoresKept
<1>7. Outcome'
    BY <1>1 DEF AuditInv, Outcome, Background
<1> QED
    BY <1>4, <1>5, <1>6, <1>7 DEF AuditInv

-----------------------------------------------------------------------------
(* The workflow                                                            *)

\* Only the workflow is at work when its flow is on its way.
LEMMA Flowing ==
    ASSUME AuditInv, flow.pc \notin { "off", "ok", "failed" }
    PROVE  ~Background /\ ExecutorOff /\ request # "open" /\ audit.status # "none"
BY DEF AuditInv, OneDispatcher

\* load_project_metadata returns, or fails before or after its write.
LEMMA LoadMove ==
    ASSUME AuditInv, audit' = LoadMoves
    PROVE  /\ audit' \in [ status : Status, total : Nat ]
           /\ audit'.status = audit.status
              \/ (audit'.status = "running" /\ audit.status = "queued")
<1> DEFINE v == IF audit.status = "queued" THEN "running" ELSE audit.status
<1>1. v \in Status /\ audit' = [ audit EXCEPT !.status = v ]
    BY DEF LoadMoves, AuditInv, Typed, Status
<1> HIDE DEF v
<1>2. audit' \in [ status : Status, total : Nat ] /\ audit'.status = v
    BY <1>1, StatusWrite DEF AuditInv
<1> QED
    BY <1>2 DEF v

LEMMA LoadProjectStep ==
    ASSUME AuditInv, LoadProject
    PROVE  AuditInv'
<1>1. /\ UNCHANGED << auditMode, request, table, suppressed, found, refuted, synth,
                      executor, operator, sarif, auditFaults, seen >>
      /\ flow.pc = "load" /\ audit' = LoadMoves
      /\ flow' = [ pc |-> "scan", try |-> 1 ]
    BY DEF LoadProject, Awaits
<1>2. ~Background /\ ExecutorOff /\ request # "open" /\ audit.status # "none"
    BY <1>1, Flowing
<1>3. /\ audit' \in [ status : Status, total : Nat ]
      /\ audit'.status = audit.status
         \/ (audit'.status = "running" /\ audit.status = "queued")
    BY <1>1, LoadMove
<1>4. flow' \in [ pc : FlowPc, try : Attempt ] /\ flow'.pc = "scan"
    BY <1>1, Attempts DEF FlowPc
<1>5. Typed'
    BY <1>1, <1>3, <1>4 DEF AuditInv, Typed
<1>6. OneDispatcher'
    BY <1>1, <1>2, <1>3, <1>4 DEF AuditInv, OneDispatcher, Before, ExecutorOff, Background
<1>7. PassesStore' /\ NothingLost'
    BY <1>1, <1>3, StoresKept
<1>8. Outcome'
    BY <1>1, <1>2, <1>3, <1>4 DEF AuditInv, Outcome, Background
<1> QED
    BY <1>5, <1>6, <1>7, <1>8 DEF AuditInv

LEMMA PhaseFailsStep ==
    ASSUME AuditInv, PhaseFails
    PROVE  AuditInv'
<1>1. /\ UNCHANGED << auditMode, request, table, suppressed, found, refuted, synth,
                      executor, operator, sarif, seen >>
      /\ flow.pc \in { "load", "scan", "agents", "verify", "deep" }
      /\ audit' = LoadMoves \/ audit' = audit
      /\ flow' = RetryOr(flow, "mark")
      /\ auditFaults' \in 0 .. MaxAudFaults
    BY FaultWrite DEF PhaseFails, Awaits, AuditInv
<1>2. ~Background /\ ExecutorOff /\ request # "open" /\ audit.status # "none"
    BY <1>1, Flowing
<1>3. /\ audit' \in [ status : Status, total : Nat ]
      /\ audit'.status = audit.status
         \/ (audit'.status = "running" /\ audit.status = "queued")
    BY <1>1, LoadMove DEF AuditInv, Typed
<1>4. flow' \in [ pc : FlowPc, try : Attempt ] /\ flow'.pc \in { flow.pc, "mark" }
    BY <1>1, RetryMove DEF AuditInv, FlowPc
<1>5. Typed'
    BY <1>1, <1>3, <1>4 DEF AuditInv, Typed
<1>6. OneDispatcher'
    BY <1>1, <1>2, <1>3, <1>4 DEF AuditInv, OneDispatcher, Before, ExecutorOff, Background
<1>7. PassesStore' /\ NothingLost'
    BY <1>1, <1>3, StoresKept
<1>8. Outcome'
    BY <1>1, <1>2, <1>3, <1>4 DEF AuditInv, Outcome, Background
<1> QED
    BY <1>5, <1>6, <1>7, <1>8 DEF AuditInv

\* The findings come before any pass, so nothing that is stored is about them.
LEMMA PhaseReturnsStep ==
    ASSUME AuditInv, PhaseReturns
    PROVE  AuditInv'
<1>1. /\ UNCHANGED << auditMode, request, audit, table, suppressed, synth, executor,
                      operator, sarif, auditFaults, seen >>
      /\ flow.pc \in { "scan", "agents", "verify", "deep" }
      /\ found' \subseteq Finding /\ refuted' \subseteq Finding
    BY DEF PhaseReturns, AuditInv, Typed
<1>2. /\ flow' \in [ pc : FlowPc, try : Attempt ]
      /\ flow'.pc \in { "agents", "verify", "deep", "synth" }
    BY <1>1, Attempts DEF PhaseReturns, FlowPc, Awaits
<1>3. ~Background /\ ExecutorOff /\ request # "open" /\ audit.status # "none"
    BY <1>1, Flowing
<1>4. audit.status # "completed" /\ \A i \in Attempt : synth[i].pc = "none"
    BY <1>1, <1>3 DEF AuditInv, OneDispatcher, Before
<1>5. Typed'
    BY <1>1, <1>2 DEF AuditInv, Typed
<1>6. OneDispatcher'
    BY <1>1, <1>2, <1>3, <1>4 DEF OneDispatcher, Before, ExecutorOff, Background
<1>7. PassesStore' /\ NothingLost'
    BY <1>1, <1>3, <1>4 DEF PassesStore, Stored, ExecutorStored, NothingLost, ExecutorOff,
       Background
<1>8. Outcome'
    BY <1>1, <1>2, <1>3 DEF AuditInv, Outcome, Background
<1> QED
    BY <1>5, <1>6, <1>7, <1>8 DEF AuditInv

LEMMA MarkReturnsStep ==
    ASSUME AuditInv, MarkReturns
    PROVE  AuditInv'
<1> DEFINE v == IF audit.status \in { "queued", "running" } THEN "failed" ELSE audit.status
<1>1. /\ UNCHANGED << auditMode, request, table, suppressed, found, refuted, synth,
                      executor, operator, sarif, auditFaults, seen >>
      /\ flow.pc = "mark" /\ flow' = [ flow EXCEPT !.pc = "failed" ]
    BY DEF MarkReturns
<1>2. ~Background /\ ExecutorOff /\ request # "open" /\ audit.status # "none"
    BY <1>1, Flowing
<1>3. v \in Status /\ audit' = [ audit EXCEPT !.status = v ]
    BY DEF MarkReturns, MarkFailed, AuditInv, Typed, Status
<1>4. v \in { "failed", "completed" } /\ (v = "completed" => audit.status = "completed")
    BY <1>2 DEF AuditInv, Typed, Status
<1>5. audit.status = "completed" => v = "completed"
    OBVIOUS
<1> HIDE DEF v
<1>6. audit' \in [ status : Status, total : Nat ] /\ audit'.status = v
    BY <1>3, StatusWrite DEF AuditInv
<1>7. flow' \in [ pc : FlowPc, try : Attempt ] /\ flow'.pc = "failed"
    BY <1>1, FlowWrite DEF AuditInv, FlowPc
<1>8. Typed'
    BY <1>1, <1>6, <1>7 DEF AuditInv, Typed
<1>9. OneDispatcher'
    BY <1>1, <1>2, <1>4, <1>6, <1>7
       DEF AuditInv, OneDispatcher, Before, ExecutorOff, Background
<1>10. PassesStore' /\ NothingLost'
    BY <1>1, <1>4, <1>6, StoresKept
<1>11. Outcome'
    BY <1>1, <1>2, <1>4, <1>5, <1>6, <1>7 DEF AuditInv, Outcome, Background
<1> QED
    BY <1>8, <1>9, <1>10, <1>11 DEF AuditInv

LEMMA MarkAttemptFailsStep ==
    ASSUME AuditInv, MarkAttemptFails
    PROVE  AuditInv'
<1> DEFINE b == flow'.pc = "failed"
<1>1. /\ UNCHANGED << auditMode, request, audit, table, suppressed, found, refuted, synth,
                      executor, operator, sarif >>
      /\ flow.pc = "mark"
      /\ flow' = RetryOr(flow, "failed") \/ flow' = [ pc |-> "failed", try |-> 1 ]
      /\ auditFaults' \in 0 .. MaxAudFaults
    BY FaultWrite DEF MarkAttemptFails, AuditInv
<1>2. ~Background /\ ExecutorOff /\ request # "open" /\ audit.status # "none"
    BY <1>1, Flowing
<1>3. flow' \in [ pc : FlowPc, try : Attempt ] /\ flow'.pc \in { "mark", "failed" }
    BY <1>1, RetryMove, Attempts DEF AuditInv, FlowPc
<1>4. /\ seen' \in Seen
      /\ seen'.final = seen.final /\ seen'.late = seen.late /\ seen'.hidden = seen.hidden
      /\ seen'.markLost <=> b
    BY SeenLost DEF MarkAttemptFails, AuditInv
<1>5. Typed'
    BY <1>1, <1>3, <1>4 DEF AuditInv, Typed
<1>6. OneDispatcher'
    BY <1>1, <1>2, <1>3 DEF AuditInv, OneDispatcher, Before, ExecutorOff, Background
<1>7. PassesStore' /\ NothingLost'
    BY <1>1, <1>4, StoresKept
<1>8. Outcome'
    BY <1>1, <1>2, <1>3, <1>4 DEF AuditInv, Outcome, Background
<1> QED
    BY <1>5, <1>6, <1>7, <1>8 DEF AuditInv

LEMMA SynthTimesOutStep ==
    ASSUME AuditInv, SynthTimesOut
    PROVE  AuditInv'
<1>1. /\ UNCHANGED << auditMode, request, audit, table, suppressed, found, refuted, synth,
                      executor, operator, sarif, seen >>
      /\ flow.pc = "synth" /\ flow' = RetryOr(flow, "mark")
    BY DEF SynthTimesOut
<1>2. ~Background /\ ExecutorOff /\ request # "open" /\ audit.status # "none"
    BY <1>1, Flowing
<1>3. flow' \in [ pc : FlowPc, try : Attempt ] /\ flow'.pc \in { "synth", "mark" }
    BY <1>1, RetryMove DEF AuditInv, FlowPc
<1>4. auditFaults' \in 0 .. MaxAudFaults
    BY FaultWrite DEF SynthTimesOut, AuditInv
<1>5. Typed'
    BY <1>1, <1>3, <1>4 DEF AuditInv, Typed
<1>6. OneDispatcher'
    BY <1>1, <1>2, <1>3 DEF AuditInv, OneDispatcher, Before, ExecutorOff, Background
<1>7. PassesStore' /\ NothingLost'
    BY <1>1, StoresKept
<1>8. Outcome'
    BY <1>1, <1>2, <1>3 DEF AuditInv, Outcome, Background
<1> QED
    BY <1>5, <1>6, <1>7, <1>8 DEF AuditInv

-----------------------------------------------------------------------------
(* The attempts of synthesize_findings                                     *)

\* An attempt is at work only for the workflow, past its first phases.
LEMMA Attempting ==
    ASSUME AuditInv, NEW i \in Attempt, synth[i].pc # "none"
    PROVE  ~Background /\ ExecutorOff /\ ~Before /\ request # "open"
           /\ audit.status # "none"
BY DEF AuditInv, OneDispatcher, Before

\* Steps of an attempt leave the executor out, whatever they store.
LEMMA SynthDispatcher ==
    ASSUME AuditInv, ~Background, ExecutorOff, ~Before, request # "open",
           audit.status # "none", UNCHANGED << auditMode, request, executor >>,
           audit'.status \in { audit.status, "completed" },
           flow'.pc \in { flow.pc, "ok", "mark" }
    PROVE  OneDispatcher'
BY DEF AuditInv, OneDispatcher, Before, ExecutorOff, Background

LEMMA SynthStartsStep ==
    ASSUME AuditInv, SynthStarts
    PROVE  AuditInv'
<1>1. /\ UNCHANGED << auditMode, request, audit, table, suppressed, found, refuted, flow,
                      executor, operator, sarif, auditFaults, seen >>
      /\ flow.pc = "synth" /\ synth' = [ synth EXCEPT ![flow.try].pc = "read" ]
      /\ flow.try \in Attempt
    BY DEF SynthStarts, AuditInv, Typed
<1>2. ~Background /\ ExecutorOff /\ ~Before /\ request # "open" /\ audit.status # "none"
    BY <1>1, Flowing DEF Before
<1>3. /\ synth' \in [ Attempt -> Pass ] /\ synth'[flow.try].pc = "read"
      /\ \A j \in Attempt : j # flow.try => synth'[j] = synth[j]
    BY <1>1, SynthPc DEF AuditInv
<1>4. Typed'
    BY <1>1, <1>3 DEF AuditInv, Typed
<1>5. OneDispatcher'
    BY <1>1, <1>2, SynthDispatcher
<1>6. PassesStore'
    BY <1>1, <1>3 DEF AuditInv, PassesStore, Stored, ExecutorStored, Background
<1>7. NothingLost'
    BY <1>1 DEF AuditInv, NothingLost, Background
<1>8. Outcome'
    BY <1>1, <1>2, <1>3 DEF AuditInv, Outcome, Background
<1> QED
    BY <1>4, <1>5, <1>6, <1>7, <1>8 DEF AuditInv

\* What is left out as suppressed is put down, so the rest covers the findings.
LEMMA SynthReadsStep ==
    ASSUME AuditInv, NEW i \in Attempt, SynthReads(i)
    PROVE  AuditInv'
<1> DEFINE r == [ pc |-> "persist", kept |-> found \ suppressed ]
           h == seen.hidden \cup (found \cap suppressed)
<1>1. /\ UNCHANGED << auditMode, request, audit, table, suppressed, found, refuted, flow,
                      executor, operator, sarif, auditFaults >>
      /\ synth[i].pc = "read" /\ synth' = [ synth EXCEPT ![i] = r ]
      /\ seen' = [ seen EXCEPT !.hidden = h ]
    BY DEF SynthReads
<1>2. ~Background /\ ExecutorOff /\ ~Before /\ request # "open" /\ audit.status # "none"
    BY <1>1, Attempting
<1>3. r \in Pass /\ r.pc = "persist" /\ h \subseteq Finding
    BY DEF AuditInv, Typed, Pass, Seen
<1>4. found \ h \subseteq r.kept /\ seen.hidden \subseteq h
    OBVIOUS
<1> HIDE DEF r, h
<1>5. /\ synth' \in [ Attempt -> Pass ] /\ synth'[i] = r
      /\ \A j \in Attempt : j # i => synth'[j] = synth[j]
    BY <1>1, <1>3, SynthWrite DEF AuditInv
<1>6. /\ seen' \in Seen
      /\ seen'.final = seen.final /\ seen'.markLost = seen.markLost
      /\ seen'.late = seen.late /\ seen'.hidden = h /\ seen'.crash = seen.crash
    BY <1>1, <1>3, SeenHidden DEF AuditInv
<1>7. Typed'
    BY <1>1, <1>5, <1>6 DEF AuditInv, Typed
<1>8. OneDispatcher'
    BY <1>1, <1>2, SynthDispatcher
<1>9. \A j \in Attempt : Stored(synth[j])'
    <2> TAKE j \in Attempt
    <2>1. CASE j = i
        BY <1>1, <1>3, <1>4, <1>5, <1>6, <2>1 DEF Stored
    <2>2. CASE j # i
        BY <1>1, <1>4, <1>5, <1>6, <2>2 DEF AuditInv, PassesStore, Stored
    <2> QED
        BY <2>1, <2>2
<1>10. ExecutorStored'
    BY <1>1, <1>2 DEF ExecutorStored, ExecutorOff, Background
<1>11. NothingLost'
    BY <1>1, <1>4, <1>6 DEF AuditInv, NothingLost, Background
<1>12. Outcome'
    BY <1>1, <1>2, <1>3, <1>5, <1>6 DEF AuditInv, Outcome, Background
<1> QED
    BY <1>7, <1>8, <1>9, <1>10, <1>11, <1>12 DEF AuditInv, PassesStore

\* Rows are added and none is removed.
LEMMA RowsStored ==
    ASSUME AuditInv, NEW kept \in SUBSET Finding, table' = WithRows(kept)
    PROVE  /\ table' \in [ Finding -> Nat ]
           /\ \A f \in Finding : table[f] <= table'[f]
           /\ \A f \in Finding : table[f] > 0 => table'[f] > 0
           /\ \A f \in kept : table'[f] > 0
<1>1. table \in [ Finding -> Nat ]
    BY DEF AuditInv, Typed
<1>2. table' = Plus(table, kept)
    BY DEF WithRows, Plus
<1>3. /\ table' \in [ Finding -> Nat ]
      /\ \A f \in Finding : table[f] <= table'[f]
      /\ \A f \in Finding \cap kept : table'[f] > 0
    BY <1>1, <1>2, PlusType
<1> QED
    BY <1>1, <1>3

LEMMA PendingBoolean == \A done : CountPending(done) \in BOOLEAN
BY DEF CountPending

LEMMA SynthPersistsStep ==
    ASSUME AuditInv, NEW i \in Attempt, SynthPersists(i)
    PROVE  AuditInv'
<1>1. /\ UNCHANGED << auditMode, request, audit, suppressed, found, refuted, flow,
                      executor, operator, sarif, auditFaults >>
      /\ synth[i].pc = "persist" /\ table' = WithRows(synth[i].kept)
      /\ synth' = [ synth EXCEPT ![i].pc = "finalize" ]
    BY DEF SynthPersists, Persisted
<1>2. ~Background /\ ExecutorOff /\ ~Before /\ request # "open" /\ audit.status # "none"
    BY <1>1, Attempting
<1>3. synth[i].kept \subseteq Finding
    BY DEF AuditInv, Typed, Pass
<1>4. /\ table' \in [ Finding -> Nat ]
      /\ \A f \in Finding : table[f] > 0 => table'[f] > 0
      /\ \A f \in synth[i].kept : table'[f] > 0
    BY <1>1, <1>3, RowsStored
<1>5. /\ synth' \in [ Attempt -> Pass ]
      /\ synth'[i].pc = "finalize" /\ synth'[i].kept = synth[i].kept
      /\ \A j \in Attempt : j # i => synth'[j] = synth[j]
    BY <1>1, SynthPc DEF AuditInv
<1>6. /\ seen' \in Seen
      /\ seen'.final = seen.final /\ seen'.markLost = seen.markLost
      /\ seen'.late = seen.late /\ seen'.hidden = seen.hidden /\ seen'.crash = seen.crash
    BY PendingBoolean, SeenPass DEF SynthPersists, AuditInv
<1>7. Typed'
    BY <1>1, <1>4, <1>5, <1>6 DEF AuditInv, Typed
<1>8. OneDispatcher'
    BY <1>1, <1>2, SynthDispatcher
<1>9. \A j \in Attempt : Stored(synth[j])'
    <2> TAKE j \in Attempt
    <2>1. CASE j = i
        BY <1>1, <1>4, <1>5, <1>6, <2>1 DEF AuditInv, PassesStore, Stored
    <2>2. CASE j # i
        <3>1. synth[j].kept \subseteq Finding
            BY DEF AuditInv, Typed, Pass
        <3> QED
            BY <1>1, <1>4, <1>5, <1>6, <2>2, <3>1 DEF AuditInv, PassesStore, Stored
    <2> QED
        BY <2>1, <2>2
<1>10. ExecutorStored'
    BY <1>1, <1>2 DEF ExecutorStored, ExecutorOff, Background
<1>11. NothingLost'
    BY <1>1, <1>2, <1>4, <1>6 DEF AuditInv, Typed, NothingLost, Background
<1>12. Outcome'
    BY <1>1, <1>2, <1>5, <1>6 DEF AuditInv, Outcome, Background
<1> QED
    BY <1>7, <1>8, <1>9, <1>10, <1>11, <1>12 DEF AuditInv, PassesStore

LEMMA SynthFinalisesStep ==
    ASSUME AuditInv, NEW i \in Attempt, SynthFinalises(i)
    PROVE  AuditInv'
<1>1. /\ UNCHANGED << auditMode, request, table, suppressed, found, refuted, flow,
                      executor, operator, sarif, auditFaults >>
      /\ synth[i].pc = "finalize" /\ audit' = Finalised(synth[i].kept)
      /\ synth' = [ synth EXCEPT ![i].pc = "after" ]
      /\ seen' = [ seen EXCEPT !.final = TRUE ]
    BY DEF SynthFinalises
<1>2. ~Background /\ ExecutorOff /\ ~Before /\ request # "open" /\ audit.status # "none"
    BY <1>1, Attempting
<1>3. /\ audit' \in [ status : Status, total : Nat ]
      /\ audit'.status = "completed"
    <2>1. synth[i].kept \in SUBSET Finding
        BY DEF AuditInv, Typed, Pass
    <2> QED
        BY <1>1, <2>1, KeptCount DEF Finalised, Status
<1>4. /\ synth' \in [ Attempt -> Pass ]
      /\ synth'[i].pc = "after" /\ synth'[i].kept = synth[i].kept
      /\ \A j \in Attempt : j # i => synth'[j] = synth[j]
    BY <1>1, SynthPc DEF AuditInv
<1>5. /\ seen' \in Seen
      /\ seen'.final /\ seen'.markLost = seen.markLost
      /\ seen'.late = seen.late /\ seen'.hidden = seen.hidden /\ seen'.crash = seen.crash
    BY <1>1, SeenFinal DEF AuditInv
<1>6. Typed'
    BY <1>1, <1>3, <1>4, <1>5 DEF AuditInv, Typed
<1>7. OneDispatcher'
    BY <1>1, <1>2, <1>3, SynthDispatcher
<1>8. \A j \in Attempt : Stored(synth[j])'
    BY <1>1, <1>4, <1>5 DEF AuditInv, PassesStore, Stored
<1>9. ExecutorStored'
    BY <1>1, <1>2 DEF ExecutorStored, ExecutorOff, Background
<1>10. NothingLost'
    BY <1>1, <1>5 DEF AuditInv, PassesStore, Stored, NothingLost
<1>11. Outcome'
    BY <1>1, <1>2, <1>3, <1>4, <1>5 DEF AuditInv, Outcome, Background
<1> QED
    BY <1>6, <1>7, <1>8, <1>9, <1>10, <1>11 DEF AuditInv, PassesStore

\* The attempt returns, raises or is lost.
LEMMA SynthOverStep ==
    ASSUME AuditInv, NEW i \in Attempt,
           SynthReturns(i) \/ SynthRaises(i) \/ SynthLost(i)
    PROVE  AuditInv'
<1>1. /\ UNCHANGED << auditMode, request, audit, table, suppressed, found, refuted,
                      executor, operator, sarif, seen >>
      /\ synth[i].pc # "none" /\ synth' = [ synth EXCEPT ![i].pc = "ended" ]
    BY DEF SynthReturns, SynthRaises, SynthLost
<1>2. ~Background /\ ExecutorOff /\ ~Before /\ request # "open" /\ audit.status # "none"
    BY <1>1, Attempting
<1>3. /\ synth' \in [ Attempt -> Pass ] /\ synth'[i].pc = "ended"
      /\ \A j \in Attempt : j # i => synth'[j] = synth[j]
    BY <1>1, SynthPc DEF AuditInv
<1>4. auditFaults' \in 0 .. MaxAudFaults
    BY FaultWrite DEF SynthReturns, SynthRaises, SynthLost, AuditInv
<1>5. /\ flow' \in [ pc : FlowPc, try : Attempt ]
      /\ flow'.pc \in { flow.pc, "ok", "mark" }
      /\ flow'.pc = "ok" => flow.pc = "ok" \/ synth[i].pc = "after"
    <2>1. CASE flow' = flow
        BY <2>1 DEF AuditInv, Typed
    <2>2. CASE flow' = [ pc |-> "ok", try |-> 1 ] /\ synth[i].pc = "after"
        BY <2>2, Attempts DEF FlowPc
    <2>3. CASE flow' = RetryOr(flow, "mark")
        BY <2>3, RetryMove DEF AuditInv, FlowPc
    <2> QED
        BY <2>1, <2>2, <2>3 DEF SynthReturns, SynthRaises, SynthLost
<1>6. Typed'
    BY <1>1, <1>3, <1>4, <1>5 DEF AuditInv, Typed
<1>7. OneDispatcher'
    BY <1>1, <1>2, <1>5, SynthDispatcher
<1>8. PassesStore'
    BY <1>1, <1>3 DEF AuditInv, PassesStore, Stored, ExecutorStored, Background
<1>9. NothingLost'
    BY <1>1 DEF AuditInv, NothingLost, Background
<1>10. Outcome'
    BY <1>1, <1>2, <1>3, <1>5 DEF AuditInv, Outcome, Background
<1> QED
    BY <1>6, <1>7, <1>8, <1>9, <1>10 DEF AuditInv

-----------------------------------------------------------------------------
(* The import                                                              *)

LEMMA ImportCommitsStep ==
    ASSUME AuditInv, NEW i \in Importer, ImportCommits(i)
    PROVE  AuditInv'
<1>1. /\ UNCHANGED << auditMode, request, suppressed, found, refuted, flow, synth,
                      executor, operator, auditFaults >>
      /\ sarif' = [ sarif EXCEPT ![i] = NoImport ]
      /\ audit' = [ audit EXCEPT !.total = sarif[i].total ]
      /\ table' = WithRows(sarif[i].rows)
      /\ sarif[i].rows \in SUBSET Finding /\ sarif[i].total \in Nat
    BY DEF ImportCommits, AuditInv, Typed, Import
<1>2. /\ audit' \in [ status : Status, total : Nat ]
      /\ audit'.status = audit.status
    BY <1>1, TotalWrite DEF AuditInv
<1>3. /\ table' \in [ Finding -> Nat ]
      /\ \A f \in Finding : table[f] > 0 => table'[f] > 0
    BY <1>1, RowsStored
<1>4. /\ seen' \in Seen
      /\ seen'.final = seen.final /\ seen'.markLost = seen.markLost
      /\ seen'.late = seen.late /\ seen'.hidden = seen.hidden /\ seen'.crash = seen.crash
    <2>1. (~seen.final) \in BOOLEAN
        BY DEF AuditInv, Typed, Seen
    <2> QED
        BY <2>1, PendingBoolean, SeenEarly DEF ImportCommits, AuditInv
<1>11. sarif' \in [ Importer -> Import ]
    BY <1>1, NoImportType, SarifWrite DEF AuditInv
<1>5. Typed'
    BY <1>1, <1>2, <1>3, <1>4, <1>11 DEF AuditInv, Typed
<1>6. OneDispatcher'
    BY <1>1, <1>2 DEF AuditInv, OneDispatcher, Before, ExecutorOff, Background
<1>7. \A j \in Attempt : Stored(synth[j])'
    <2> TAKE j \in Attempt
    <2>1. synth[j].kept \subseteq Finding
        BY DEF AuditInv, Typed, Pass
    <2> QED
        BY <1>1, <1>3, <1>4, <2>1 DEF AuditInv, PassesStore, Stored
<1>8. ExecutorStored'
    <2>1. executor.kept \subseteq Finding
        BY DEF AuditInv, Typed, Pass
    <2> QED
        BY <1>1, <1>2, <1>3, <1>4, <2>1
           DEF AuditInv, PassesStore, ExecutorStored, Background
<1>9. NothingLost'
    BY <1>1, <1>2, <1>3, <1>4 DEF AuditInv, Typed, NothingLost, Background
<1>10. Outcome'
    BY <1>1, <1>2, <1>4 DEF AuditInv, Outcome, Background
<1> QED
    BY <1>5, <1>6, <1>7, <1>8, <1>9, <1>10 DEF AuditInv, PassesStore

-----------------------------------------------------------------------------
(* The executor                                                            *)

\* Only the executor is at work when its coroutine is.
LEMMA Executing ==
    ASSUME AuditInv, ~ExecutorOff
    PROVE  /\ Background /\ request # "open" /\ audit.status # "none" /\ flow.pc = "off"
           /\ \A i \in Attempt : synth[i].pc = "none"
BY DEF AuditInv, OneDispatcher, ExecutorOff

LEMMA ExecutorDispatcher ==
    ASSUME AuditInv, ~ExecutorOff, audit'.status \in Status \ {"none"},
           UNCHANGED << auditMode, request, synth >>,
           \/ flow' = flow
           \/ flow'.pc \in { "ok", "failed" } /\ executor'.pc = "ended"
    PROVE  OneDispatcher'
BY Executing DEF OneDispatcher, Before, ExecutorOff, Background

\* No attempt of the workflow is about.
LEMMA NoAttempts ==
    ASSUME AuditInv, ~ExecutorOff, UNCHANGED << auditMode, synth >>
    PROVE  \A i \in Attempt : Stored(synth[i])'
BY Executing DEF Stored

LEMMA RunningWrite ==
    ASSUME AuditInv, audit' = [ audit EXCEPT !.status = "running" ]
    PROVE  /\ audit' \in [ status : Status, total : Nat ]
           /\ audit'.status = "running"
BY StatusWrite DEF AuditInv, Status

LEMMA ExecutorStartsStep ==
    ASSUME AuditInv, ExecutorStarts
    PROVE  AuditInv'
<1>1. /\ UNCHANGED << auditMode, request, table, suppressed, found, refuted, flow,
                      synth, operator, sarif, auditFaults, seen >>
      /\ executor.pc = "start" /\ executor' = [ executor EXCEPT !.pc = "read" ]
      /\ audit' = [ audit EXCEPT !.status = "running" ]
    BY DEF ExecutorStarts
<1>2. ~ExecutorOff
    BY <1>1 DEF ExecutorOff
<1>3. /\ audit' \in [ status : Status, total : Nat ]
      /\ audit'.status = "running"
    BY <1>1, RunningWrite
<1>4. executor' \in Pass /\ executor'.pc = "read"
    BY <1>1, ExecutorPc DEF AuditInv
<1>5. Typed'
    BY <1>1, <1>3, <1>4 DEF AuditInv, Typed
<1>6. OneDispatcher'
    BY <1>1, <1>2, <1>3, ExecutorDispatcher DEF Status
<1>7. PassesStore' /\ NothingLost'
    BY <1>1, <1>2, <1>3, <1>4, NoAttempts DEF PassesStore, ExecutorStored, NothingLost
<1>8. Outcome'
    BY <1>1, <1>2, <1>3, <1>4, Executing DEF AuditInv, Outcome, Background
<1> QED
    BY <1>5, <1>6, <1>7, <1>8 DEF AuditInv

LEMMA ExecutorAnalysesStep ==
    ASSUME AuditInv, ExecutorAnalyses
    PROVE  AuditInv'
<1>1. /\ UNCHANGED << auditMode, request, table, suppressed, flow, synth, operator,
                      sarif, auditFaults >>
      /\ executor.pc = "read" /\ found' \subseteq Finding /\ refuted' \subseteq Finding
      /\ executor' = [ pc |-> "persist", kept |-> (found' \ refuted') \ suppressed ]
      /\ audit' = [ audit EXCEPT !.status = "running" ]
      /\ seen' = [ seen EXCEPT !.hidden = found' \cap suppressed ]
    BY DEF ExecutorAnalyses
<1>2. ~ExecutorOff
    BY <1>1 DEF ExecutorOff
<1>3. /\ audit' \in [ status : Status, total : Nat ]
      /\ audit'.status = "running"
    BY <1>1, RunningWrite
<1>4. /\ executor' \in Pass /\ executor'.pc = "persist"
      /\ executor'.kept = (found' \ refuted') \ suppressed
    BY <1>1 DEF Pass
<1>5. /\ seen' \in Seen
      /\ seen'.final = seen.final /\ seen'.markLost = seen.markLost
      /\ seen'.late = seen.late /\ seen'.hidden = found' \cap suppressed
      /\ seen'.crash = seen.crash
    BY <1>1, SeenHidden DEF AuditInv
<1>6. Typed'
    BY <1>1, <1>3, <1>4, <1>5 DEF AuditInv, Typed
<1>7. OneDispatcher'
    BY <1>1, <1>2, <1>3, ExecutorDispatcher DEF Status
<1>8. PassesStore' /\ NothingLost'
    BY <1>1, <1>2, <1>3, <1>4, <1>5, NoAttempts DEF PassesStore, ExecutorStored, NothingLost
<1>9. Outcome'
    BY <1>1, <1>2, <1>3, <1>4, <1>5, Executing DEF AuditInv, Outcome, Background
<1> QED
    BY <1>6, <1>7, <1>8, <1>9 DEF AuditInv

LEMMA ExecutorPersistsStep ==
    ASSUME AuditInv, ExecutorPersists
    PROVE  AuditInv'
<1>1. /\ UNCHANGED << auditMode, request, suppressed, found, refuted, flow, synth,
                      operator, sarif, auditFaults >>
      /\ executor.pc = "persist" /\ executor' = [ executor EXCEPT !.pc = "finalize" ]
      /\ table' = WithRows(executor.kept)
      /\ audit' = [ audit EXCEPT !.status = "running" ]
    BY DEF ExecutorPersists, Persisted
<1>2. ~ExecutorOff
    BY <1>1 DEF ExecutorOff
<1>3. /\ audit' \in [ status : Status, total : Nat ]
      /\ audit'.status = "running"
    BY <1>1, RunningWrite
<1>4. /\ executor' \in Pass /\ executor'.pc = "finalize"
      /\ executor'.kept = executor.kept /\ executor.kept \subseteq Finding
    BY <1>1, ExecutorPc DEF AuditInv, Typed, Pass
<1>5. table' \in [ Finding -> Nat ] /\ \A f \in executor.kept : table'[f] > 0
    BY <1>1, <1>4, RowsStored
<1>6. /\ seen' \in Seen
      /\ seen'.final = seen.final /\ seen'.markLost = seen.markLost
      /\ seen'.late = seen.late /\ seen'.hidden = seen.hidden /\ seen'.crash = seen.crash
    BY PendingBoolean, SeenPass DEF ExecutorPersists, AuditInv
<1>7. Typed'
    BY <1>1, <1>3, <1>4, <1>5, <1>6 DEF AuditInv, Typed
<1>8. OneDispatcher'
    BY <1>1, <1>2, <1>3, ExecutorDispatcher DEF Status
<1>9. PassesStore' /\ NothingLost'
    BY <1>1, <1>2, <1>3, <1>4, <1>5, <1>6, NoAttempts
       DEF AuditInv, PassesStore, ExecutorStored, NothingLost
<1>10. Outcome'
    BY <1>1, <1>2, <1>3, <1>4, <1>6, Executing DEF AuditInv, Outcome, Background
<1> QED
    BY <1>7, <1>8, <1>9, <1>10 DEF AuditInv

LEMMA ExecutorFinalisesStep ==
    ASSUME AuditInv, ExecutorFinalises
    PROVE  AuditInv'
<1>1. /\ UNCHANGED << auditMode, request, table, suppressed, found, refuted, flow, synth,
                      operator, sarif, auditFaults >>
      /\ executor.pc = "finalize" /\ executor' = [ executor EXCEPT !.pc = "after" ]
      /\ audit' = Finalised(executor.kept)
      /\ seen' = [ seen EXCEPT !.final = TRUE ]
    BY DEF ExecutorFinalises
<1>2. ~ExecutorOff
    BY <1>1 DEF ExecutorOff
<1>3. /\ audit' \in [ status : Status, total : Nat ]
      /\ audit'.status = "completed"
    <2>1. executor.kept \in SUBSET Finding
        BY DEF AuditInv, Typed, Pass
    <2> QED
        BY <1>1, <2>1, KeptCount DEF Finalised, Status
<1>4. executor' \in Pass /\ executor'.pc = "after"
    BY <1>1, ExecutorPc DEF AuditInv
<1>5. /\ seen' \in Seen
      /\ seen'.final /\ seen'.markLost = seen.markLost
      /\ seen'.late = seen.late /\ seen'.hidden = seen.hidden /\ seen'.crash = seen.crash
    BY <1>1, SeenFinal DEF AuditInv
<1>6. Typed'
    BY <1>1, <1>3, <1>4, <1>5 DEF AuditInv, Typed
<1>7. OneDispatcher'
    BY <1>1, <1>2, <1>3, ExecutorDispatcher DEF Status
<1>8. PassesStore'
    BY <1>1, <1>2, <1>4, NoAttempts DEF PassesStore, ExecutorStored
<1>9. NothingLost'
    BY <1>1, <1>2, <1>5, Executing DEF AuditInv, PassesStore, ExecutorStored, NothingLost,
       Background
<1>10. Outcome'
    BY <1>1, <1>2, <1>3, <1>4, <1>5, Executing DEF AuditInv, Outcome, Background
<1> QED
    BY <1>6, <1>7, <1>8, <1>9, <1>10 DEF AuditInv

LEMMA ExecutorEndsStep ==
    ASSUME AuditInv, ExecutorEnds
    PROVE  AuditInv'
<1>1. /\ UNCHANGED << auditMode, request, audit, table, suppressed, found, refuted, synth,
                      operator, sarif, auditFaults, seen >>
      /\ executor.pc = "after" /\ executor' = [ executor EXCEPT !.pc = "ended" ]
      /\ flow' = [ flow EXCEPT !.pc = "ok" ]
    BY DEF ExecutorEnds
<1>2. ~ExecutorOff
    BY <1>1 DEF ExecutorOff
<1>3. executor' \in Pass /\ executor'.pc = "ended"
    BY <1>1, ExecutorPc DEF AuditInv
<1>4. flow' \in [ pc : FlowPc, try : Attempt ] /\ flow'.pc = "ok"
    BY <1>1, FlowWrite DEF AuditInv, FlowPc
<1>5. Typed'
    BY <1>1, <1>3, <1>4 DEF AuditInv, Typed
<1>6. audit'.status \in Status \ {"none"}
    BY <1>1, <1>2, Executing DEF AuditInv, Typed
<1>7. OneDispatcher'
    BY <1>1, <1>2, <1>3, <1>4, <1>6, ExecutorDispatcher
<1>8. PassesStore' /\ NothingLost'
    BY <1>1, <1>3, StoresKept
<1>9. Outcome'
    BY <1>1, <1>2, <1>3, <1>4, Executing DEF AuditInv, Outcome, Background
<1> QED
    BY <1>5, <1>7, <1>8, <1>9 DEF AuditInv

LEMMA ExecutorRaisesStep ==
    ASSUME AuditInv, ExecutorRaises
    PROVE  AuditInv'
<1>1. /\ UNCHANGED << auditMode, request, table, suppressed, found, refuted, synth,
                      operator, sarif >>
      /\ executor.pc \notin { "none", "ended" }
      /\ executor' = [ executor EXCEPT !.pc = "ended" ]
      /\ flow' = [ flow EXCEPT !.pc = "failed" ]
      /\ auditFaults' \in 0 .. MaxAudFaults
    BY FaultWrite DEF ExecutorRaises, AuditInv
<1>2. ~ExecutorOff
    BY <1>1 DEF ExecutorOff
<1>3. executor' \in Pass /\ executor'.pc = "ended"
    BY <1>1, ExecutorPc DEF AuditInv
<1>4. flow' \in [ pc : FlowPc, try : Attempt ] /\ flow'.pc = "failed"
    BY <1>1, FlowWrite DEF AuditInv, FlowPc
<1>5. CASE audit' = [ audit EXCEPT !.status = "failed" ] /\ UNCHANGED seen
    <2>1. /\ audit' \in [ status : Status, total : Nat ]
          /\ audit'.status = "failed"
        BY <1>5, StatusWrite DEF AuditInv, Status
    <2>2. Typed'
        BY <1>1, <1>3, <1>4, <1>5, <2>1 DEF AuditInv, Typed
    <2>3. OneDispatcher'
        BY <1>1, <1>2, <1>3, <1>4, <2>1, ExecutorDispatcher DEF Status
    <2>4. PassesStore' /\ NothingLost'
        BY <1>1, <1>3, <1>5, <2>1, StoresKept
    <2>5. Outcome'
        BY <1>1, <1>2, <1>3, <1>4, <2>1, Executing DEF Outcome, Background
    <2> QED
        BY <2>2, <2>3, <2>4, <2>5 DEF AuditInv
<1>6. CASE seen' = [ seen EXCEPT !.markLost = TRUE ] /\ UNCHANGED audit
    <2>1. /\ seen' \in Seen /\ seen'.markLost /\ seen'.hidden = seen.hidden
          /\ seen'.late = seen.late
        BY <1>6, SeenLost DEF AuditInv
    <2>2. Typed'
        BY <1>1, <1>3, <1>4, <1>6, <2>1 DEF AuditInv, Typed
    <2>3. audit'.status \in Status \ {"none"}
        BY <1>2, <1>6, Executing DEF AuditInv, Typed
    <2>4. OneDispatcher'
        BY <1>1, <1>2, <1>3, <1>4, <2>3, ExecutorDispatcher
    <2>5. PassesStore' /\ NothingLost'
        BY <1>1, <1>3, <1>6, <2>1, StoresKept
    <2>6. Outcome'
        BY <1>1, <1>2, <1>3, <1>4, <2>1, Executing DEF Outcome, Background
    <2> QED
        BY <2>2, <2>4, <2>5, <2>6 DEF AuditInv
<1> QED
    BY <1>5, <1>6 DEF ExecutorRaises

-----------------------------------------------------------------------------
(* The counts                                                              *)

\* A step that neither stores nor counts, and starts nothing in between.
LEMMA CountsKept ==
    ASSUME CountSane, UNCHANGED table, audit'.total = audit.total,
           audit'.status = "completed" => audit.status = "completed",
           seen'.passes = seen.passes, seen'.early = seen.early, seen'.final = seen.final,
           seen'.overlap = seen.overlap,
           executor'.pc = "finalize" => executor' = executor,
           \A i \in Attempt : synth'[i].pc = "finalize" => synth'[i] = synth[i]
    PROVE  CountSane'
<1>1. NoneBetween => NoneBetween'
    BY DEF NoneBetween
<1>2. seen.passes = 0 =>
         /\ ~seen'.final /\ NoneBetween'
         /\ seen'.early \/ table' = [ f \in Finding |-> 0 ]
    BY <1>1 DEF CountSane
<1>3. seen.passes = 1 =>
         /\ \A i, j \in Attempt :
               synth'[i].pc = "finalize" /\ synth'[j].pc = "finalize" => i = j
         /\ seen'.final => NoneBetween'
    BY <1>1 DEF CountSane
<1>4. seen.passes = 1 /\ seen'.final /\ ~seen'.early /\ ~seen'.overlap =>
         audit'.total = RowCount(table')
    BY DEF CountSane
<1>5. seen.passes = 1 /\ ~seen'.final /\ ~seen'.early =>
         /\ executor'.pc = "finalize" =>
               RowCount(table') = Cardinality(executor'.kept)
         /\ \A i \in Attempt : synth'[i].pc = "finalize" =>
               RowCount(table') = Cardinality(synth'[i].kept)
    BY DEF CountSane
<1>6. audit'.status = "completed" => seen'.final
    BY DEF CountSane
<1> QED
    BY <1>2, <1>3, <1>4, <1>5, <1>6 DEF CountSane

LEMMA ApiCounts ==
    ASSUME AuditInv, CountSane, ApiNext, \A i \in Importer : ~ImportCommits(i)
    PROVE  CountSane'
<1>1. Typed
    BY DEF AuditInv
<1>2. CASE CreateAudit
    BY <1>1, <1>2, CountsKept DEF CreateAudit, Typed
<1>3. CASE DispatchAudit
    <2>1. UNCHANGED << audit, table, synth, seen >>
        BY <1>3 DEF DispatchAudit
    <2>2. executor'.pc = "finalize" => executor' = executor
        BY <1>1, <1>3, ExecutorPc DEF DispatchAudit
    <2> QED
        BY <2>1, <2>2, CountsKept
<1>4. CASE \/ DispatchRaises \/ ReconcileSelect \/ \E f \in Finding : Triage(f)
           \/ \E i \in Importer :
                 ImportReads(i) \/ \E file \in SUBSET Finding : ImportCounts(i, file)
    <2>1. UNCHANGED << audit, table, synth, executor, seen >>
        BY <1>4 DEF DispatchRaises, ReconcileSelect, ImportReads, ImportCounts, Triage
    <2> QED
        BY <2>1, CountsKept
<1>5. CASE DispatchMarks \/ ReconcileUpdate
    <2>1. UNCHANGED << table, synth, executor >>
        BY <1>5 DEF DispatchMarks, ReconcileUpdate
    <2>2. audit'.total = audit.total /\ audit'.status = "failed"
        BY <1>1, <1>5 DEF DispatchMarks, ReconcileUpdate, Typed
    <2>3. /\ seen'.passes = seen.passes /\ seen'.early = seen.early
          /\ seen'.final = seen.final /\ seen'.overlap = seen.overlap
        <3> DEFINE b == audit.status = "completed"
        <3>1. b \in BOOLEAN /\ seen' = [ seen EXCEPT !.late = @ \/ b ]
            BY <1>5 DEF DispatchMarks, ReconcileUpdate
        <3> HIDE DEF b
        <3> QED
            BY <1>1, <3>1, SeenLate
    <2> QED
        BY <2>1, <2>2, <2>3, CountsKept
<1>6. CASE ApiCrash
    <2>1. UNCHANGED << audit, table, synth >>
        BY <1>6 DEF ApiCrash
    <2>2. executor'.pc = "ended"
        BY <1>1, <1>6, ExecutorPc DEF ApiCrash
    <2>3. /\ seen'.passes = seen.passes /\ seen'.early = seen.early
          /\ seen'.final = seen.final /\ seen'.overlap = seen.overlap
        BY <1>1, <1>6, SeenCrash DEF ApiCrash
    <2> QED
        BY <2>1, <2>2, <2>3, CountsKept
<1>7. CASE DispatchMarkFails
    <2>1. UNCHANGED << audit, table, synth, executor >>
        BY <1>7 DEF DispatchMarkFails
    <2>2. /\ seen'.passes = seen.passes /\ seen'.early = seen.early
          /\ seen'.final = seen.final /\ seen'.overlap = seen.overlap
        BY <1>1, <1>7, SeenLost DEF DispatchMarkFails
    <2> QED
        BY <2>1, <2>2, CountsKept
<1> QED
    BY <1>2, <1>3, <1>4, <1>5, <1>6, <1>7 DEF ApiNext

LEMMA FlowCounts ==
    ASSUME AuditInv, CountSane, FlowStep \/ FlowFault,
           \A i \in Attempt : ~SynthPersists(i) /\ ~SynthFinalises(i)
    PROVE  CountSane'
<1>1. Typed
    BY DEF AuditInv
<1>2. CASE LoadProject \/ PhaseFails
    <2>1. UNCHANGED << table, synth, executor, seen >>
        BY <1>2 DEF LoadProject, PhaseFails
    <2>2. /\ audit'.total = audit.total
          /\ audit'.status = "completed" => audit.status = "completed"
        BY <1>1, <1>2 DEF LoadProject, PhaseFails, LoadMoves, Typed
    <2> QED
        BY <2>1, <2>2, CountsKept
<1>3. CASE PhaseReturns \/ SynthTimesOut
    <2>1. UNCHANGED << audit, table, synth, executor, seen >>
        BY <1>3 DEF PhaseReturns, SynthTimesOut
    <2> QED
        BY <2>1, CountsKept
<1>4. CASE SynthStarts
    <2>1. UNCHANGED << audit, table, executor, seen >> /\ flow.try \in Attempt
        BY <1>1, <1>4 DEF SynthStarts, Typed
    <2>2. /\ synth'[flow.try].pc = "read"
          /\ \A j \in Attempt : j # flow.try => synth'[j] = synth[j]
        BY <1>1, <1>4, <2>1, SynthPc DEF SynthStarts
    <2>3. \A i \in Attempt : synth'[i].pc = "finalize" => synth'[i] = synth[i]
        BY <2>2
    <2> QED
        BY <2>1, <2>3, CountsKept
<1>5. CASE MarkReturns
    <2>1. UNCHANGED << table, synth, executor, seen >>
        BY <1>5 DEF MarkReturns
    <2>2. /\ audit'.total = audit.total
          /\ audit'.status = "completed" => audit.status = "completed"
        BY <1>1, <1>5 DEF MarkReturns, MarkFailed, Typed
    <2> QED
        BY <2>1, <2>2, CountsKept
<1>6. CASE MarkAttemptFails
    <2>1. UNCHANGED << audit, table, synth, executor >>
        BY <1>6 DEF MarkAttemptFails
    <2>2. /\ seen'.passes = seen.passes /\ seen'.early = seen.early
          /\ seen'.final = seen.final /\ seen'.overlap = seen.overlap
        <3> DEFINE b == flow'.pc = "failed"
        <3>1. b \in BOOLEAN /\ seen' = [ seen EXCEPT !.markLost = b ]
            BY <1>6 DEF MarkAttemptFails
        <3> HIDE DEF b
        <3> QED
            BY <1>1, <3>1, SeenLost
    <2> QED
        BY <2>1, <2>2, CountsKept
<1>7. ASSUME NEW i \in Attempt, SynthReads(i) PROVE CountSane'
    <2> DEFINE r == [ pc |-> "persist", kept |-> found \ suppressed ]
               h == seen.hidden \cup (found \cap suppressed)
    <2>1. /\ UNCHANGED << audit, table, executor >> /\ synth' = [ synth EXCEPT ![i] = r ]
          /\ seen' = [ seen EXCEPT !.hidden = h ]
        BY <1>7 DEF SynthReads
    <2>2. r \in Pass /\ r.pc = "persist" /\ h \in SUBSET Finding
        BY <1>1 DEF Typed, Pass, Seen
    <2> HIDE DEF r, h
    <2>3. /\ synth'[i] = r
          /\ \A j \in Attempt : j # i => synth'[j] = synth[j]
        BY <1>1, <2>1, <2>2, SynthWrite
    <2>4. /\ seen'.passes = seen.passes /\ seen'.early = seen.early
          /\ seen'.final = seen.final /\ seen'.overlap = seen.overlap
        BY <1>1, <2>1, <2>2, SeenHidden
    <2>5. \A j \in Attempt : synth'[j].pc = "finalize" => synth'[j] = synth[j]
        BY <2>2, <2>3
    <2> QED
        BY <2>1, <2>4, <2>5, CountsKept
<1>8. ASSUME NEW i \in Attempt, SynthReturns(i) \/ SynthRaises(i) \/ SynthLost(i)
      PROVE  CountSane'
    <2>1. /\ UNCHANGED << audit, table, executor, seen >>
          /\ synth' = [ synth EXCEPT ![i].pc = "ended" ]
        BY <1>8 DEF SynthReturns, SynthRaises, SynthLost
    <2>2. /\ synth'[i].pc = "ended" /\ \A j \in Attempt : j # i => synth'[j] = synth[j]
        BY <1>1, <2>1, SynthPc
    <2>3. \A j \in Attempt : synth'[j].pc = "finalize" => synth'[j] = synth[j]
        BY <2>2
    <2> QED
        BY <2>1, <2>3, CountsKept
<1> QED
    BY <1>2, <1>3, <1>4, <1>5, <1>6, <1>7, <1>8 DEF FlowStep, FlowFault

LEMMA ExecutorCounts ==
    ASSUME AuditInv, CountSane,
           ExecutorStarts \/ ExecutorAnalyses \/ ExecutorEnds \/ ExecutorRaises
    PROVE  CountSane'
<1>1. Typed
    BY DEF AuditInv
<1>2. UNCHANGED << table, synth >>
    BY DEF ExecutorStarts, ExecutorAnalyses, ExecutorEnds, ExecutorRaises
<1>3. executor'.pc # "finalize"
    <2>1. CASE ExecutorAnalyses
        BY <2>1 DEF ExecutorAnalyses
    <2>2. CASE ExecutorStarts \/ ExecutorEnds \/ ExecutorRaises
        BY <1>1, <2>2, ExecutorPc DEF ExecutorStarts, ExecutorEnds, ExecutorRaises
    <2> QED
        BY <2>1, <2>2
<1>4. /\ audit'.total = audit.total
      /\ audit'.status = "completed" => audit.status = "completed"
    BY <1>1 DEF ExecutorStarts, ExecutorAnalyses, ExecutorEnds, ExecutorRaises, Typed
<1>5. /\ seen'.passes = seen.passes /\ seen'.early = seen.early
      /\ seen'.final = seen.final /\ seen'.overlap = seen.overlap
    <2>1. CASE ExecutorAnalyses
        <3> DEFINE h == found' \cap suppressed
        <3>1. h \in SUBSET Finding /\ seen' = [ seen EXCEPT !.hidden = h ]
            BY <1>1, <2>1 DEF ExecutorAnalyses, Typed
        <3> HIDE DEF h
        <3> QED
            BY <1>1, <3>1, SeenHidden
    <2>2. CASE ExecutorRaises
        BY <1>1, <2>2, SeenLost DEF ExecutorRaises
    <2>3. CASE ExecutorStarts \/ ExecutorEnds
        BY <2>3 DEF ExecutorStarts, ExecutorEnds
    <2> QED
        BY <2>1, <2>2, <2>3
<1> QED
    BY <1>2, <1>3, <1>4, <1>5, CountsKept

\* A pass stores: the first one finds the table empty or an import in it.
LEMMA PersistedCounts ==
    ASSUME AuditInv, CountSane, NEW kept \in SUBSET Finding, table' = WithRows(kept),
           NEW o \in BOOLEAN,
           seen' = [ seen EXCEPT !.passes = @ + 1, !.overlap = @ \/ o ],
           audit'.status = "completed" => audit.status = "completed",
           \A i, j \in Attempt : /\ synth'[i].pc = "finalize" /\ synth[i].pc # "finalize"
                                 /\ synth'[j].pc = "finalize" /\ synth[j].pc # "finalize"
                                 => i = j,
           executor'.pc = "finalize" /\ executor.pc # "finalize" => executor'.kept = kept,
           \A i \in Attempt : synth'[i].pc = "finalize" /\ synth[i].pc # "finalize" =>
                                 synth'[i].kept = kept
    PROVE  CountSane'
<1>1. /\ seen'.passes = seen.passes + 1 /\ seen'.early = seen.early
      /\ seen'.final = seen.final /\ seen.passes \in Nat
    BY SeenPass DEF AuditInv, Typed, Seen
<1>2. audit'.status = "completed" => seen'.final
    BY <1>1 DEF CountSane
<1>3. seen'.passes # 0 /\ (seen'.passes = 1 => seen.passes = 0)
    BY <1>1
<1>4. ASSUME seen.passes = 0
      PROVE  /\ ~seen.final /\ NoneBetween
             /\ seen.early \/ RowCount(table') = Cardinality(kept)
    <2>1. ~seen.final /\ NoneBetween /\ (seen.early \/ table = [ f \in Finding |-> 0 ])
        BY <1>4 DEF CountSane
    <2>2. CASE table = [ f \in Finding |-> 0 ]
        <3>1. table' = [ f \in Finding |-> IF f \in kept THEN 1 ELSE 0 ]
            BY <2>2 DEF WithRows
        <3> QED
            BY <2>1, <3>1, RowsOfOnce
    <2> QED
        BY <2>1, <2>2
<1>5. seen.passes = 0 =>
         /\ ~seen'.final
         /\ \A i, j \in Attempt :
               synth'[i].pc = "finalize" /\ synth'[j].pc = "finalize" => i = j
         /\ ~seen'.early =>
               /\ executor'.pc = "finalize" =>
                     RowCount(table') = Cardinality(executor'.kept)
               /\ \A i \in Attempt : synth'[i].pc = "finalize" =>
                     RowCount(table') = Cardinality(synth'[i].kept)
    BY <1>1, <1>4 DEF NoneBetween
<1> QED
    BY <1>2, <1>3, <1>5 DEF CountSane

\* A pass counts: if it is the only one that stored, it counts what is there.
LEMMA FinalisedCounts ==
    ASSUME AuditInv, CountSane, NEW kept, audit' = Finalised(kept), UNCHANGED table,
           seen' = [ seen EXCEPT !.final = TRUE ], ~NoneBetween,
           seen.passes = 1 => NoneBetween',
           seen.passes = 1 /\ ~seen.final /\ ~seen.early =>
              RowCount(table) = Cardinality(kept)
    PROVE  CountSane'
<1>1. /\ seen'.passes = seen.passes /\ seen'.early = seen.early /\ seen'.final
      /\ seen'.overlap = seen.overlap
    BY SeenFinal DEF AuditInv
<1>2. seen.passes # 0 /\ (seen.passes = 1 => ~seen.final)
    BY DEF CountSane
<1>3. audit'.total = Cardinality(kept)
    BY DEF Finalised
<1>4. seen.passes = 1 =>
         \A i, j \in Attempt :
            synth'[i].pc = "finalize" /\ synth'[j].pc = "finalize" => i = j
    BY DEF NoneBetween
<1>5. seen.passes = 1 /\ ~seen'.early => audit'.total = RowCount(table')
    BY <1>1, <1>2, <1>3
<1> QED
    BY <1>1, <1>2, <1>4, <1>5 DEF CountSane

LEMMA PassCounts ==
    ASSUME AuditInv, CountSane,
           \/ \E i \in Attempt : SynthPersists(i) \/ SynthFinalises(i)
           \/ ExecutorPersists \/ ExecutorFinalises
    PROVE  CountSane'
<1>1. Typed
    BY DEF AuditInv
<1>2. ASSUME NEW i \in Attempt, SynthPersists(i) PROVE CountSane'
    <2>1. /\ UNCHANGED << audit, executor >> /\ synth[i].pc = "persist"
          /\ table' = WithRows(synth[i].kept)
          /\ seen' = [ seen EXCEPT !.passes = @ + 1, !.overlap = @ \/ CountPending({}) ]
          /\ synth' = [ synth EXCEPT ![i].pc = "finalize" ]
        BY <1>2 DEF SynthPersists, Persisted
    <2>2. /\ synth'[i].kept = synth[i].kept
          /\ \A j \in Attempt : j # i => synth'[j] = synth[j]
        BY <1>1, <2>1, SynthPc
    <2>3. synth[i].kept \in SUBSET Finding
        BY <1>1 DEF Typed, Pass
    <2>4. \A j \in Attempt : synth'[j].pc = "finalize" /\ synth[j].pc # "finalize" => j = i
        BY <2>2
    <2> QED
        BY <2>1, <2>2, <2>3, <2>4, PendingBoolean, PersistedCounts
<1>3. ASSUME NEW i \in Attempt, SynthFinalises(i) PROVE CountSane'
    <2>1. /\ UNCHANGED << table, executor >> /\ synth[i].pc = "finalize"
          /\ audit' = Finalised(synth[i].kept) /\ seen' = [ seen EXCEPT !.final = TRUE ]
          /\ synth' = [ synth EXCEPT ![i].pc = "after" ]
        BY <1>3 DEF SynthFinalises
    <2>2. /\ synth'[i].pc = "after"
          /\ \A j \in Attempt : j # i => synth'[j] = synth[j]
        BY <1>1, <2>1, SynthPc
    <2>3. ExecutorOff /\ ~NoneBetween
        BY <2>1, Attempting DEF NoneBetween
    <2>4. seen.passes = 1 => NoneBetween'
        BY <2>1, <2>2, <2>3 DEF CountSane, NoneBetween, ExecutorOff
    <2>5. seen.passes = 1 /\ ~seen.final /\ ~seen.early =>
             RowCount(table) = Cardinality(synth[i].kept)
        BY <2>1 DEF CountSane
    <2> QED
        BY <2>1, <2>3, <2>4, <2>5, FinalisedCounts
<1>4. CASE ExecutorPersists
    <2>1. /\ UNCHANGED synth /\ executor.pc = "persist"
          /\ table' = WithRows(executor.kept)
          /\ seen' = [ seen EXCEPT !.passes = @ + 1, !.overlap = @ \/ CountPending({}) ]
          /\ executor' = [ executor EXCEPT !.pc = "finalize" ]
        BY <1>4 DEF ExecutorPersists, Persisted
    <2>2. executor'.kept = executor.kept /\ executor.kept \in SUBSET Finding
        BY <1>1, <2>1, ExecutorPc DEF Typed, Pass
    <2>3. audit'.status # "completed"
        BY <1>1, <1>4 DEF ExecutorPersists, Typed
    <2> QED
        BY <2>1, <2>2, <2>3, PendingBoolean, PersistedCounts
<1>5. CASE ExecutorFinalises
    <2>1. /\ UNCHANGED << table, synth >> /\ executor.pc = "finalize"
          /\ audit' = Finalised(executor.kept) /\ seen' = [ seen EXCEPT !.final = TRUE ]
          /\ executor' = [ executor EXCEPT !.pc = "after" ]
        BY <1>5 DEF ExecutorFinalises
    <2>2. executor'.pc = "after"
        BY <1>1, <2>1, ExecutorPc
    <2>3. ~NoneBetween /\ \A j \in Attempt : synth[j].pc = "none"
        BY <2>1, Executing DEF NoneBetween, ExecutorOff
    <2>4. NoneBetween'
        BY <2>1, <2>2, <2>3 DEF NoneBetween
    <2>5. seen.passes = 1 /\ ~seen.final /\ ~seen.early =>
             RowCount(table) = Cardinality(executor.kept)
        BY <2>1 DEF CountSane
    <2> QED
        BY <2>1, <2>3, <2>4, <2>5, FinalisedCounts
<1> QED
    BY <1>2, <1>3, <1>4, <1>5

\* An import commits what it counted if nothing was stored since, or came
\* before the counts.
LEMMA ImportCommitsCounts ==
    ASSUME AuditInv, CountSane, CountBounded, NEW i \in Importer, ImportCommits(i)
    PROVE  CountSane'
<1> DEFINE b == ~seen.final
           o == CountPending({i})
<1>1. /\ UNCHANGED << synth, executor >> /\ sarif[i].pc = "counted"
      /\ audit' = [ audit EXCEPT !.total = sarif[i].total ]
      /\ table' = Plus(table, sarif[i].rows)
      /\ seen' = [ seen EXCEPT !.early = @ \/ b, !.overlap = @ \/ o ]
    BY DEF ImportCommits, WithRows, Plus
<1>2. audit'.total = sarif[i].total /\ audit'.status = audit.status
    BY <1>1 DEF AuditInv, Typed
<1>3. /\ seen'.passes = seen.passes /\ (seen'.early <=> seen.early \/ b)
      /\ seen'.overlap <=> seen.overlap \/ o
      /\ seen'.final = seen.final
    <2>1. b \in BOOLEAN /\ o \in BOOLEAN
        BY PendingBoolean
    <2> HIDE DEF b, o
    <2> QED
        BY <1>1, <2>1, SeenEarly DEF AuditInv
<1>4. ~seen'.overlap => audit'.total = RowCount(table')
    BY <1>1, <1>2, <1>3 DEF CountBounded, ImportCounted
<1>5. seen'.early \/ seen.final
    BY <1>3
<1>6. NoneBetween' <=> NoneBetween
    BY <1>1 DEF NoneBetween
<1>7. seen.passes = 0 => seen'.early /\ ~seen'.final /\ NoneBetween'
    BY <1>3, <1>5, <1>6 DEF CountSane
<1>8. seen.passes = 1 =>
         /\ \A k, j \in Attempt :
               synth'[k].pc = "finalize" /\ synth'[j].pc = "finalize" => k = j
         /\ seen'.final => NoneBetween'
    BY <1>1, <1>3, <1>6 DEF CountSane
<1>9. audit'.status = "completed" => seen'.final
    BY <1>2, <1>3 DEF CountSane
<1> HIDE DEF b, o
<1> QED
    BY <1>3, <1>4, <1>5, <1>7, <1>8, <1>9 DEF CountSane

\* Each step that stores or counts leaves every count at most the rows.
LEMMA BoundKept ==
    ASSUME AuditInv, CountBounded, UNCHANGED table, seen'.overlap = seen.overlap,
           audit'.total <= RowCount(table),
           \A i \in Importer : sarif'[i] = sarif[i] \/ sarif'[i].pc # "counted"
    PROVE  CountBounded'
BY DEF CountBounded, ImportCounted

\* Rows are stored beside the imports that are pending.
LEMMA BoundStored ==
    ASSUME AuditInv, CountBounded, NEW kept \in SUBSET Finding, table' = WithRows(kept),
           NEW s \in SUBSET Importer,
           \A i \in Importer \ s : sarif'[i] = sarif[i],
           \A i \in s : sarif'[i].pc # "counted",
           seen'.overlap <=> seen.overlap \/ CountPending(s),
           audit'.total = audit.total \/ audit'.total <= RowCount(table')
    PROVE  CountBounded'
<1>1. /\ table \in [ Finding -> Nat ] /\ audit.total \in Nat
      /\ \A i \in Importer : sarif[i].total \in Nat
    BY DEF AuditInv, Typed, Import
<1>2. table' \in [ Finding -> Nat ] /\ \A f \in Finding : table[f] <= table'[f]
    BY RowsStored
<1>3. audit'.total <= RowCount(table')
    <2>1. RowCount(table) <= RowCount(table')
        BY <1>1, <1>2, RowsGrow
    <2>2. RowCount(table) \in Nat /\ RowCount(table') \in Nat
        BY <1>1, <1>2, RowsFinite
    <2> QED
        BY <1>1, <2>1, <2>2 DEF CountBounded
<1>4. ASSUME NEW i \in Importer
      PROVE  ImportCounted(sarif'[i], table', seen'.overlap)
    <2>1. CASE i \in s \/ sarif[i].pc # "counted"
        BY <2>1 DEF ImportCounted
    <2>2. CASE i \notin s /\ sarif[i].pc = "counted"
        <3>1. sarif'[i] = sarif[i] /\ seen'.overlap
            BY <2>2 DEF CountPending
        <3>2. sarif[i].total <= RowCount(Plus(table, sarif[i].rows))
            BY <2>2 DEF CountBounded, ImportCounted
        <3>3. RowCount(Plus(table, sarif[i].rows)) <= RowCount(Plus(table', sarif[i].rows))
            BY <1>1, <1>2, PlusGrows
        <3>4. /\ RowCount(Plus(table, sarif[i].rows)) \in Nat
              /\ RowCount(Plus(table', sarif[i].rows)) \in Nat
            BY <1>1, <1>2, PlusType, RowsFinite
        <3>5. sarif[i].total <= RowCount(Plus(table', sarif[i].rows))
            BY <1>1, <3>2, <3>3, <3>4
        <3> QED
            BY <3>1, <3>5 DEF ImportCounted
    <2> QED
        BY <2>1, <2>2
<1> QED
    BY <1>3, <1>4 DEF CountBounded

-----------------------------------------------------------------------------
(* The theorems                                                            *)

LEMMA AuditInitInv == AuditInit => AuditInv
<1> SUFFICES ASSUME AuditInit PROVE AuditInv
    OBVIOUS
<1>1. NoPass \in Pass /\ NoPass.pc = "none"
    BY DEF NoPass, Pass
<1>2. /\ synth \in [ Attempt -> Pass ] /\ \A i \in Attempt : synth[i] = NoPass
      /\ executor = NoPass /\ audit.status = "none" /\ flow.pc = "off" /\ request = "open"
    BY <1>1 DEF AuditInit
<1>3. /\ seen \in Seen /\ ~seen.final /\ ~seen.late
    BY DEF AuditInit, Seen
<1>4. flow \in [ pc : FlowPc, try : Attempt ]
    BY Attempts DEF AuditInit, FlowPc
<1>5. audit \in [ status : Status, total : Nat ]
    BY DEF AuditInit, Status
<1>6. auditFaults \in 0 .. MaxAudFaults
    BY AuditAssumption DEF AuditInit
<1>7. Typed
    <2>1. sarif \in [ Importer -> Import ]
        BY NoImportType DEF AuditInit
    <2> QED
        BY <1>1, <1>2, <1>3, <1>4, <1>5, <1>6, <2>1, AuditAssumption DEF AuditInit, Typed
<1>8. OneDispatcher
    BY <1>1, <1>2 DEF OneDispatcher, Before, ExecutorOff
<1>9. PassesStore /\ NothingLost
    BY <1>1, <1>2 DEF PassesStore, Stored, ExecutorStored, NothingLost
<1>10. Outcome
    BY <1>1, <1>2, <1>3 DEF Outcome
<1> QED
    BY <1>7, <1>8, <1>9, <1>10 DEF AuditInv

LEMMA AuditStep == AuditInv /\ [AuditNext]_auditVars => AuditInv'
<1> SUFFICES ASSUME AuditInv, [AuditNext]_auditVars PROVE AuditInv'
    OBVIOUS
<1>1. CASE UNCHANGED auditVars
    <2>1. UNCHANGED << auditMode, request, audit, table, suppressed, found, refuted, flow,
                       synth, executor, operator, sarif, auditFaults, seen >>
        BY <1>1 DEF auditVars
    <2>2. Typed'
        BY <2>1 DEF AuditInv, Typed
    <2>3. OneDispatcher'
        BY <2>1 DEF AuditInv, OneDispatcher, Before, ExecutorOff, Background
    <2>4. PassesStore' /\ NothingLost'
        BY <2>1, StoresKept
    <2>5. Outcome'
        BY <2>1 DEF AuditInv, Outcome, Background
    <2> QED
        BY <2>2, <2>3, <2>4, <2>5 DEF AuditInv
<1>2. CASE ApiNext
    BY <1>2, CreateAuditStep, DispatchAuditStep, DispatchRaisesStep, SetFailedStep,
       DispatchMarkFailsStep, ApiCrashStep, LooksStep, ImportCommitsStep DEF ApiNext
<1>3. CASE FlowStep
    BY <1>3, LoadProjectStep, PhaseReturnsStep, SynthStartsStep, SynthTimesOutStep,
       MarkReturnsStep, SynthReadsStep, SynthPersistsStep, SynthFinalisesStep,
       SynthOverStep DEF FlowStep
<1>4. CASE FlowFault
    BY <1>4, PhaseFailsStep, MarkAttemptFailsStep, SynthOverStep DEF FlowFault
<1>5. CASE ExecutorStep
    BY <1>5, ExecutorStartsStep, ExecutorAnalysesStep, ExecutorPersistsStep,
       ExecutorFinalisesStep, ExecutorEndsStep DEF ExecutorStep
<1>6. CASE ExecutorRaises
    BY <1>6, ExecutorRaisesStep
<1> QED
    BY <1>1, <1>2, <1>3, <1>4, <1>5, <1>6 DEF AuditNext

LEMMA AuditInvariant == AuditSpec => []AuditInv
BY AuditInitInv, AuditStep, PTL DEF AuditSpec

LEMMA InvTypes == AuditInv => AuditTypeOK
<1> SUFFICES ASSUME AuditInv PROVE AuditTypeOK
    OBVIOUS
<1>1. auditMode \in AuditModes
    BY DEF AuditInv, Typed
<1> QED
    BY <1>1, FlowPcs DEF AuditInv, Typed, AuditTypeOK, Status, Seen

LEMMA InvOutcome == AuditInv => OutcomeAgrees
<1> SUFFICES ASSUME AuditInv, ~(seen.late \/ seen.markLost \/ seen.crash),
                    request = "over"
             PROVE  /\ flow.pc = "ok" => audit.status = "completed"
                    /\ flow.pc = "failed" =>
                          audit.status = IF seen.final /\ ~Background
                                         THEN "completed" ELSE "failed"
    BY DEF OutcomeAgrees
<1> QED
    BY DEF AuditInv, Outcome

\* No activity is attempted more often than its retry policy allows, the mark
\* of a failure included, and every row and every coroutine is in a state the
\* code knows.
THEOREM AuditTypes == AuditSpec => []AuditTypeOK
BY InvTypes, AuditInvariant, PTL

\* A completed run has every finding in its table that no pass left out as
\* suppressed (or that the executor's sandbox refuted), whichever attempts
\* were retried, lost or late, and whatever was imported meanwhile.
THEOREM AuditNothingLost == AuditSpec => []NothingLost
<1>1. AuditInv => NothingLost
    BY DEF AuditInv
<1> QED
    BY <1>1, AuditInvariant, PTL

\* How the run ended is what its row says, aside from a mark that was given
\* up, a crash of the API and a completed run that somebody set failed.
THEOREM AuditOutcome == AuditSpec => []OutcomeAgrees
BY InvOutcome, AuditInvariant, PTL

\* No row and no count yet.
LEMMA CountsStart == AuditInit => CountSane /\ CountBounded
<1> SUFFICES ASSUME AuditInit PROVE CountSane /\ CountBounded
    OBVIOUS
<1>1. /\ audit.status = "none" /\ seen.passes = 0 /\ ~seen.final
      /\ table = [ f \in Finding |-> 0 ] /\ executor.pc = "none"
      /\ \A i \in Attempt : synth[i].pc = "none"
    BY DEF AuditInit, NoPass
<1>2. CountSane
    BY <1>1 DEF CountSane, NoneBetween
<1>3. table \in [ Finding -> Nat ] /\ audit.total = 0
    BY DEF AuditInit
<1>4. RowCount(table) \in Nat
    BY <1>3, RowsFinite
<1>5. \A i \in Importer : sarif[i].pc = "idle"
    BY DEF AuditInit, NoImport
<1> QED
    BY <1>2, <1>3, <1>4, <1>5 DEF CountBounded, ImportCounted

\* Whichever step stores findings also counts them, or leaves a pass that will.
LEMMA CountsStep ==
    AuditInv /\ CountSane /\ CountBounded /\ [AuditNext]_auditVars => CountSane'
<1> SUFFICES ASSUME AuditInv, CountSane, CountBounded, [AuditNext]_auditVars
             PROVE  CountSane'
    OBVIOUS
<1>1. CASE UNCHANGED auditVars
    <2>1. UNCHANGED << audit, table, synth, executor, seen >>
        BY <1>1 DEF auditVars
    <2> QED
        BY <2>1, CountsKept
<1>2. CASE ApiNext
    BY <1>2, ApiCounts, ImportCommitsCounts
<1>3. CASE FlowStep \/ FlowFault
    BY <1>3, FlowCounts, PassCounts
<1>4. CASE ExecutorStep \/ ExecutorRaises
    BY <1>4, ExecutorCounts, PassCounts DEF ExecutorStep
<1> QED
    BY <1>1, <1>2, <1>3, <1>4 DEF AuditNext

\* The imports: what one counts or commits is what the table then holds.
LEMMA BoundImports ==
    ASSUME AuditInv, CountBounded, NEW i \in Importer,
           \/ ImportReads(i) \/ ImportCommits(i)
           \/ \E file \in SUBSET Finding : ImportCounts(i, file)
    PROVE  CountBounded'
<1>1. Typed
    BY DEF AuditInv
<1>2. CASE ImportReads(i) \/ \E file \in SUBSET Finding : ImportCounts(i, file)
    <2>1. UNCHANGED << audit, table, seen >>
        BY <1>2 DEF ImportReads, ImportCounts
    <2>2. {} \in SUBSET Finding
        OBVIOUS
    <2>3. /\ \A j \in Importer : j # i => sarif'[j] = sarif[j]
          /\ sarif'[i].pc = "counted" =>
                sarif'[i].total = RowCount(Plus(table, sarif'[i].rows))
        BY <1>2, <2>2, ImportMove
    <2>4. RowCount(Plus(table, sarif'[i].rows)) \in Nat
        BY <1>1, PlusType, RowsFinite DEF Typed
    <2>5. ImportCounted(sarif'[i], table, seen.overlap)
        BY <2>3, <2>4 DEF ImportCounted
    <2>6. \A j \in Importer : ImportCounted(sarif'[j], table, seen.overlap)
        BY <2>3, <2>5 DEF CountBounded
    <2> QED
        BY <2>1, <2>6 DEF CountBounded
<1>3. CASE ImportCommits(i)
    <2> DEFINE b == ~seen.final
               o == CountPending({i})
    <2>1. /\ sarif[i].pc = "counted" /\ sarif' = [ sarif EXCEPT ![i] = NoImport ]
          /\ audit' = [ audit EXCEPT !.total = sarif[i].total ]
          /\ table' = WithRows(sarif[i].rows)
          /\ seen' = [ seen EXCEPT !.early = @ \/ b, !.overlap = @ \/ o ]
        BY <1>3 DEF ImportCommits
    <2>2. seen'.overlap <=> seen.overlap \/ o
        <3>1. b \in BOOLEAN /\ o \in BOOLEAN
            BY PendingBoolean
        <3> HIDE DEF b, o
        <3> QED
            BY <1>1, <2>1, <3>1, SeenEarly
    <2>3. /\ sarif'[i].pc = "idle"
          /\ \A j \in Importer : j # i => sarif'[j] = sarif[j]
        BY <1>1, <2>1, NoImportType, SarifWrite
    <2>4. table' = Plus(table, sarif[i].rows)
        BY <2>1 DEF WithRows, Plus
    <2>5. audit'.total <= RowCount(table')
        <3>1. audit'.total = sarif[i].total
            BY <1>1, <2>1 DEF Typed
        <3> QED
            BY <2>1, <2>4, <3>1 DEF CountBounded, ImportCounted
    <2>6. sarif[i].rows \in SUBSET Finding /\ {i} \in SUBSET Importer
        BY <1>1 DEF Typed, Import
    <2> QED
        BY <2>1, <2>2, <2>3, <2>5, <2>6, BoundStored
<1> QED
    BY <1>2, <1>3

\* The passes: the rows a pass counts are there when it does.
LEMMA BoundPasses ==
    ASSUME AuditInv, CountBounded,
           \/ \E i \in Attempt : SynthPersists(i) \/ SynthFinalises(i)
           \/ ExecutorPersists \/ ExecutorFinalises
    PROVE  CountBounded'
<1>1. Typed
    BY DEF AuditInv
<1>2. ASSUME NEW kept \in SUBSET Finding, table' = WithRows(kept), UNCHANGED sarif,
             audit'.total = audit.total,
             seen' = [ seen EXCEPT !.passes = @ + 1, !.overlap = @ \/ CountPending({}) ]
      PROVE  CountBounded'
    <2>1. seen'.overlap <=> seen.overlap \/ CountPending({})
        BY <1>1, <1>2, PendingBoolean, SeenPass
    <2> QED
        BY <1>2, <2>1, BoundStored
<1>3. ASSUME NEW kept \in SUBSET Finding, \A f \in kept : table[f] > 0,
             UNCHANGED << table, sarif >>, audit' = Finalised(kept),
             seen' = [ seen EXCEPT !.final = TRUE ]
      PROVE  CountBounded'
    <2>1. audit'.total <= RowCount(table)
        BY <1>1, <1>3, RowsOfKept DEF Finalised, Typed
    <2>2. seen'.overlap = seen.overlap
        BY <1>1, <1>3, SeenFinal
    <2> QED
        BY <1>3, <2>1, <2>2, BoundKept
<1>4. ASSUME NEW i \in Attempt, SynthPersists(i) PROVE CountBounded'
    <2>1. synth[i].kept \in SUBSET Finding
        BY <1>1 DEF Typed, Pass
    <2> QED
        BY <1>2, <1>4, <2>1 DEF SynthPersists, Persisted
<1>5. ASSUME NEW i \in Attempt, SynthFinalises(i) PROVE CountBounded'
    <2>1. synth[i].kept \in SUBSET Finding /\ synth[i].pc = "finalize"
        BY <1>1, <1>5 DEF Typed, Pass, SynthFinalises
    <2>2. \A f \in synth[i].kept : table[f] > 0
        BY <2>1 DEF AuditInv, PassesStore, Stored
    <2> QED
        BY <1>3, <1>5, <2>1, <2>2 DEF SynthFinalises
<1>6. CASE ExecutorPersists
    <2>1. executor.kept \in SUBSET Finding /\ audit'.total = audit.total
        BY <1>1, <1>6 DEF Typed, Pass, ExecutorPersists
    <2> QED
        BY <1>2, <1>6, <2>1 DEF ExecutorPersists, Persisted
<1>7. CASE ExecutorFinalises
    <2>1. executor.kept \in SUBSET Finding /\ executor.pc = "finalize"
        BY <1>1, <1>7 DEF Typed, Pass, ExecutorFinalises
    <2>2. \A f \in executor.kept : table[f] > 0
        BY <2>1 DEF AuditInv, PassesStore, ExecutorStored
    <2> QED
        BY <1>3, <1>7, <2>1, <2>2 DEF ExecutorFinalises
<1> QED
    BY <1>4, <1>5, <1>6, <1>7

LEMMA BoundStep ==
    AuditInv /\ CountBounded /\ [AuditNext]_auditVars => CountBounded'
<1> SUFFICES ASSUME AuditInv, CountBounded, [AuditNext]_auditVars
             PROVE  CountBounded'
    OBVIOUS
<1>1. Typed
    BY DEF AuditInv
<1> DEFINE Kept == /\ UNCHANGED table /\ audit'.total = audit.total
                   /\ seen'.overlap = seen.overlap
                   /\ \A i \in Importer :
                         sarif'[i] = sarif[i] \/ sarif'[i].pc # "counted"
<1>2. Kept => CountBounded'
    BY BoundKept DEF CountBounded
<1>3. CASE UNCHANGED auditVars
    BY <1>2, <1>3 DEF auditVars
<1>4. CASE ApiNext
    <2>1. CASE CreateAudit \/ DispatchMarks \/ ReconcileUpdate
        <3>1. audit'.total = audit.total /\ UNCHANGED << table, sarif >>
            BY <1>1, <2>1 DEF CreateAudit, DispatchMarks, ReconcileUpdate, Typed
        <3>2. seen'.overlap = seen.overlap
            BY <1>1, <2>1, SeenLate DEF CreateAudit, DispatchMarks, ReconcileUpdate
        <3> QED
            BY <1>2, <3>1, <3>2
    <2>2. CASE \/ DispatchAudit \/ DispatchRaises \/ ReconcileSelect
               \/ \E f \in Finding : Triage(f)
        BY <1>2, <2>2 DEF DispatchAudit, DispatchRaises, ReconcileSelect, Triage
    <2>3. CASE DispatchMarkFails
        BY <1>1, <1>2, <2>3, SeenLost DEF DispatchMarkFails
    <2>4. CASE ApiCrash
        BY <1>1, <1>2, <2>4, SeenCrash, NoImportType DEF ApiCrash
    <2> QED
        BY <1>4, <2>1, <2>2, <2>3, <2>4, BoundImports DEF ApiNext
<1>5. CASE FlowStep \/ FlowFault
    <2>1. CASE \E i \in Attempt : SynthPersists(i) \/ SynthFinalises(i)
        BY <2>1, BoundPasses
    <2>2. CASE LoadProject \/ PhaseFails \/ MarkReturns
        <3>1. audit'.total = audit.total /\ UNCHANGED << table, sarif, seen >>
            BY <1>1, <2>2
               DEF LoadProject, PhaseFails, LoadMoves, MarkReturns, MarkFailed, Typed
        <3> QED
            BY <1>2, <3>1
    <2>3. CASE \/ PhaseReturns \/ SynthStarts \/ SynthTimesOut
               \/ \E i \in Attempt : SynthReturns(i) \/ SynthRaises(i) \/ SynthLost(i)
        BY <1>2, <2>3 DEF PhaseReturns, SynthStarts, SynthTimesOut, SynthReturns,
           SynthRaises, SynthLost
    <2>4. CASE MarkAttemptFails
        <3> DEFINE b == flow'.pc = "failed"
        <3>1. b \in BOOLEAN /\ seen' = [ seen EXCEPT !.markLost = b ]
            BY <2>4 DEF MarkAttemptFails
        <3> HIDE DEF b
        <3>2. seen'.overlap = seen.overlap
            BY <1>1, <3>1, SeenLost
        <3> QED
            BY <1>2, <2>4, <3>2 DEF MarkAttemptFails
    <2>5. CASE \E i \in Attempt : SynthReads(i)
        <3> DEFINE h == seen.hidden \cup (found \cap suppressed)
        <3>1. h \in SUBSET Finding /\ seen' = [ seen EXCEPT !.hidden = h ]
            BY <1>1, <2>5 DEF SynthReads, Typed, Seen
        <3> HIDE DEF h
        <3>2. seen'.overlap = seen.overlap
            BY <1>1, <3>1, SeenHidden
        <3> QED
            BY <1>2, <2>5, <3>2 DEF SynthReads
    <2> QED
        BY <1>5, <2>1, <2>2, <2>3, <2>4, <2>5 DEF FlowStep, FlowFault
<1>6. CASE ExecutorStep \/ ExecutorRaises
    <2>1. CASE ExecutorPersists \/ ExecutorFinalises
        BY <2>1, BoundPasses
    <2>2. CASE ExecutorStarts \/ ExecutorAnalyses \/ ExecutorEnds \/ ExecutorRaises
        <3>1. audit'.total = audit.total /\ UNCHANGED << table, sarif >>
            BY <1>1, <2>2 DEF ExecutorStarts, ExecutorAnalyses, ExecutorEnds,
               ExecutorRaises, Typed
        <3>2. CASE ExecutorAnalyses
            <4> DEFINE h == found' \cap suppressed
            <4>1. h \in SUBSET Finding /\ seen' = [ seen EXCEPT !.hidden = h ]
                BY <1>1, <3>2 DEF ExecutorAnalyses, Typed
            <4> HIDE DEF h
            <4> QED
                BY <1>1, <1>2, <3>1, <4>1, SeenHidden
        <3>3. CASE ExecutorRaises
            <4>1. seen'.overlap = seen.overlap
                BY <1>1, <3>3, SeenLost DEF ExecutorRaises
            <4> QED
                BY <1>2, <3>1, <4>1
        <3>4. CASE ExecutorStarts \/ ExecutorEnds
            BY <1>2, <3>1, <3>4 DEF ExecutorStarts, ExecutorEnds
        <3> QED
            BY <2>2, <3>2, <3>3, <3>4
    <2> QED
        BY <1>6, <2>1, <2>2 DEF ExecutorStep
<1> QED
    BY <1>3, <1>4, <1>5, <1>6 DEF AuditNext

LEMMA CountsAreExact == CountSane /\ CountBounded => CountsExact
BY DEF CountSane, CountBounded, CountsExact

\* The quality gate reads findings_total.  It is never more than the rows the
\* run has, whatever stores beside whatever counts.  It is their number when one
\* pass stored its findings, no import came before the counts and nothing was
\* stored between an import's count and its commit: the pass counts what it
\* kept, and _resync_audit_run_counts counts for every later import.
THEOREM AuditCounts == AuditSpec => []CountsExact
BY CountsStart, CountsStep, BoundStep, CountsAreExact, AuditInvariant, PTL DEF AuditSpec
=============================================================================
