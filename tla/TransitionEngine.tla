-------------------------- MODULE TransitionEngine --------------------------
(***************************************************************************)
(* The lifecycle state machine of one project: orchestrator/lib/           *)
(* transition.sh on the tables of V14__spine_lifecycle_schema.sql, and the *)
(* approvals that open its gates (orchestrator/lib/approval.py).           *)
(*                                                                         *)
(* Every caller is a separate shell process.  transition_execute is not    *)
(* one step: it validates the move, checks the gate and reads the phase a  *)
(* second time in three separate queries, and only the final BEGIN..COMMIT *)
(* is a transaction.  That transaction runs at READ COMMITTED: the rows    *)
(* its UPDATE of phase_history closes are those its statement snapshot     *)
(* sees, so the snapshot (Snap) and the commit (Commit) are two steps.     *)
(***************************************************************************)
EXTENDS Naturals, Sequences, FiniteSets

CONSTANTS
    Phase,          \* phase identifiers of the manifest
    NextOf,         \* NextOf[p]: the list phases[p].next
    RollbackTo,     \* RollbackTo[p]: the list phases[p].rollback_to
    Gated,          \* the phases with a `gate:` field
    Starts,         \* phases in which a behaviour may begin
    Requests,       \* bound: the phases that callers and approvers name
    Callers,        \* concurrent invocations of transition.sh
    Approver,       \* principals that grant approvals
    Crashes,        \* whether psql may fail or a shell be killed
    MaxRows,        \* bound: phase_history rows
    MaxApprovals    \* bound: approval rows

Elems(s) == { s[i] : i \in DOMAIN s }

\* What a script has for a phase it failed to read: the empty string, which
\* transition.from_phase (NOT NULL) takes.
Blank == ""

ASSUME ManifestAssumption ==
    /\ NextOf \in [Phase -> Seq(Phase)]
    /\ RollbackTo \in [Phase -> Seq(Phase)]
    /\ Gated \subseteq Phase
    /\ Starts \subseteq Phase
    /\ Requests \subseteq Phase
    /\ Blank \notin Phase

ASSUME BoundAssumption ==
    Crashes \in BOOLEAN /\ MaxRows \in Nat /\ MaxApprovals \in Nat

VARIABLES
    phase,      \* project.current_phase
    hist,       \* phase_history rows, each with the transition row that the
                \* same transaction wrote (how = "advance" or "rollback")
    approvals,  \* approval rows with decision = 'approved'
    call        \* call[c]: control state of invocation c

vars == << phase, hist, approvals, call >>

HowSet == { "create", "advance", "rollback", "fallback" }

\* open: exited_at IS NULL.  from: transition.from_phase.
Row == [ phase : Phase, open : BOOLEAN, how : HowSet, from : Phase \cup {Blank} ]

\* at: number of phase_history rows when the approval was granted, which
\* orders granted_at against entered_at.  live: expires_at > NOW().
Approval == [ phase : Phase, approver : Approver, at : Nat, live : BOOLEAN ]

ExecutePcs  == { "validate", "gate", "reread", "snap", "commit" }
RollbackPcs == { "rbcheck", "rbsnap", "rbcommit" }
Results     == { "ok", "noop", "err" }
Pcs == ExecutePcs \cup RollbackPcs \cup Results \cup { "idle" }

\* from: the phase the call last read.  rows: the open rows that the snapshot
\* of its UPDATE contains.
Call == [ pc : Pcs, target : Phase, from : Phase \cup {Blank}, rows : SUBSET Nat ]

TypeOK ==
    /\ phase \in Phase
    /\ hist \in Seq(Row)
    /\ approvals \in SUBSET Approval
    /\ call \in [ Callers -> Call ]

CreateRow(p) == [ phase |-> p, open |-> TRUE, how |-> "create", from |-> p ]

IdleCall(p) == [ pc |-> "idle", target |-> p, from |-> p, rows |-> {} ]

\* project_create inserts the project and its first phase_history row.  A
\* behaviour may also begin later in a project's life, its approvals expired.
Init ==
    /\ phase \in Starts
    /\ hist = << CreateRow(phase) >>
    /\ approvals = {}
    /\ call = [ c \in Callers |-> IdleCall(phase) ]

-----------------------------------------------------------------------------
(* Approvals: approval.py grant / revoke and the passing of expires_at.    *)

Live(p) == { a \in approvals : a.phase = p /\ a.live }

AddApproval(p, who) ==
    /\ Cardinality(approvals) < MaxApprovals
    /\ approvals' = approvals \cup
         { [ phase |-> p, approver |-> who, at |-> Len(hist), live |-> TRUE ] }

GrantApproval(p, who) ==
    /\ AddApproval(p, who)
    /\ UNCHANGED << phase, hist, call >>

\* cmd_revoke sets expires_at = NOW(); a token also expires by itself.
ExpireApproval(a) ==
    /\ a.live
    /\ approvals' = (approvals \ {a}) \cup { [ a EXCEPT !.live = FALSE ] }
    /\ UNCHANGED << phase, hist, call >>

-----------------------------------------------------------------------------
(* transition_execute                                                      *)

\* A shell enters transition_execute / transition_rollback with a target.
Enter(c, pc, t) ==
    call' = [ call EXCEPT ![c] =
                [ pc |-> pc, target |-> t, from |-> t, rows |-> {} ] ]

Goto(c, pc) == call' = [ call EXCEPT ![c].pc = pc ]

StartExecute(c, t) ==
    /\ call[c].pc = "idle"
    /\ Enter(c, "validate", t)
    /\ UNCHANGED << phase, hist, approvals >>

\* The rationale is never empty: transition_rollback returns 7 otherwise.
StartRollback(c, t) ==
    /\ call[c].pc = "idle"
    /\ Enter(c, "rbcheck", t)
    /\ UNCHANGED << phase, hist, approvals >>

Valid(p, t) == t # p /\ t \in Elems(NextOf[p])

\* Faulty: only the noop is refused.
ValidateNoopOnly(c) ==
    /\ call[c].pc = "validate"
    /\ Goto(c, IF phase = call[c].target THEN "noop" ELSE "gate")
    /\ UNCHANGED << phase, hist, approvals >>

\* transition_validate: noop_transition, rejected_invalid, or ok.
Validate(c) ==
    /\ call[c].pc = "validate"
    /\ Goto(c, CASE phase = call[c].target      -> "noop"
                 [] Valid(phase, call[c].target) -> "gate"
                 [] OTHER                        -> "err")
    /\ UNCHANGED << phase, hist, approvals >>

\* Faulty: gates are never looked up.
GateIgnored(t) == TRUE

GateOpen(t) == t \in Gated => Live(t) # {}

\* transition_gate_check
GateCheck(c) ==
    /\ call[c].pc = "gate"
    /\ Goto(c, IF GateOpen(call[c].target) THEN "reread" ELSE "err")
    /\ UNCHANGED << phase, hist, approvals >>

\* Faulty: `current` is declared and never assigned.
RereadUnset(c) ==
    /\ call[c].pc = "reread"
    /\ call' = [ call EXCEPT ![c].pc = "snap", ![c].from = "unset" ]
    /\ UNCHANGED << phase, hist, approvals >>

\* current="$(_current_phase "$pid")", the from_phase of the transition row
Reread(c) ==
    /\ call[c].pc = "reread"
    /\ call' = [ call EXCEPT ![c].pc = "snap", ![c].from = phase ]
    /\ UNCHANGED << phase, hist, approvals >>

\* The read fails and the call goes on without it: only in a script that
\* sources transition.sh (OrchestratorPolicy), no step of a shell that runs it.
RereadBlank(c) ==
    /\ Crashes
    /\ call[c].pc = "reread"
    /\ call' = [ call EXCEPT ![c].pc = "snap", ![c].from = Blank ]
    /\ UNCHANGED << phase, hist, approvals >>

OpenRows == { i \in DOMAIN hist : hist[i].open }

\* BEGIN; UPDATE phase_history ... WHERE exited_at IS NULL (its snapshot)
Snap(c) ==
    /\ call[c].pc \in { "snap", "rbsnap" }
    /\ call' = [ call EXCEPT
                   ![c].pc = IF @ = "snap" THEN "commit" ELSE "rbcommit",
                   ![c].rows = OpenRows ]
    /\ UNCHANGED << phase, hist, approvals >>

\* Faulty: the UPDATE of phase_history is missing.
ClosedNothing(rows) == hist

\* Faulty: the UPDATE flips the rows it was planned for.
ClosedByFlip(rows) ==
    [ i \in DOMAIN hist |->
        [ hist[i] EXCEPT !.open = (hist[i].open # (i \in rows)) ] ]

Closed(rows) ==
    [ i \in DOMAIN hist |->
        [ hist[i] EXCEPT !.open = hist[i].open /\ i \notin rows ] ]

NewRow(how, from, t) ==
    [ phase |-> t, open |-> TRUE, how |-> how, from |-> from ]

\* Faulty: the UPDATE comes after the INSERT.
CommitClosesLast(c) ==
    /\ call[c].pc \in { "commit", "rbcommit" }
    /\ Len(hist) < MaxRows
    /\ hist' = Append(Closed(DOMAIN hist),
                      [ NewRow("advance", call[c].from, call[c].target)
                        EXCEPT !.open = FALSE ])
    /\ phase' = call[c].target
    /\ Goto(c, "ok")
    /\ UNCHANGED approvals

\* The rest of the transaction: close, open, update the cache, log the move.
Commit(c) ==
    /\ call[c].pc \in { "commit", "rbcommit" }
    /\ Len(hist) < MaxRows
    /\ hist' = Append(Closed(call[c].rows),
                      NewRow(IF call[c].pc = "commit" THEN "advance"
                                                      ELSE "rollback",
                             call[c].from, call[c].target))
    /\ phase' = call[c].target
    /\ Goto(c, "ok")
    /\ UNCHANGED approvals

-----------------------------------------------------------------------------
(* transition_rollback                                                     *)

\* Faulty: rollback_to is not consulted.
RollbackUnchecked(c) ==
    /\ call[c].pc = "rbcheck"
    /\ call' = [ call EXCEPT ![c].pc = "rbsnap", ![c].from = phase ]
    /\ UNCHANGED << phase, hist, approvals >>

\* One read of the phase serves the check and the transition row.
RollbackCheck(c) ==
    /\ call[c].pc = "rbcheck"
    /\ call' = [ call EXCEPT
                   ![c].pc = IF call[c].target \in Elems(RollbackTo[phase])
                             THEN "rbsnap" ELSE "err",
                   ![c].from = phase ]
    /\ UNCHANGED << phase, hist, approvals >>

-----------------------------------------------------------------------------

\* psql fails, the transaction rolls back, or the shell is killed.
Abort(c) ==
    /\ Crashes
    /\ call[c].pc \in ExecutePcs \cup RollbackPcs
    /\ Goto(c, "err")
    /\ UNCHANGED << phase, hist, approvals >>

\* The shell exits; its status reaches the user of the command line.
Return(c) ==
    /\ call[c].pc \in Results
    /\ call' = [ call EXCEPT ![c] = IdleCall(phase) ]
    /\ UNCHANGED << phase, hist, approvals >>

EngineStatement(c) ==
    \/ Validate(c) \/ GateCheck(c) \/ Reread(c) \/ Snap(c) \/ Commit(c)
    \/ RollbackCheck(c)

EngineStep(c) == EngineStatement(c) \/ Abort(c)

Next ==
    \/ \E p \in Requests, who \in Approver : GrantApproval(p, who)
    \/ \E a \in approvals : ExpireApproval(a)
    \/ \E c \in Callers :
          \/ \E t \in Requests : StartExecute(c, t) \/ StartRollback(c, t)
          \/ EngineStep(c)
          \/ Return(c)

Spec == Init /\ [][Next]_vars

-----------------------------------------------------------------------------
(* Properties                                                              *)

\* However the calls interleave, the newest phase_history row is open and is
\* the one project.current_phase caches (V14: "Denormalised cache of the most
\* recent phase_history row").
CurrentRowOpen ==
    /\ hist # << >>
    /\ hist[Len(hist)].phase = phase
    /\ hist[Len(hist)].open

\* However the calls interleave, a move that commits goes to a phase that the
\* manifest lists as a successor (rollback target) of some phase the project
\* has occupied before: transition_validate and transition_rollback refuse
\* every other target, and a refused call never reaches the transaction.
JustifiedMoves ==
    \A i \in DOMAIN hist :
        /\ hist[i].how = "advance" =>
              \E j \in 1..(i - 1) : Valid(hist[j].phase, hist[i].phase)
        /\ hist[i].how = "rollback" =>
              \E j \in 1..(i - 1) :
                  hist[i].phase \in Elems(RollbackTo[hist[j].phase])

\* However the calls interleave with grants and expiries, transition_execute
\* enters a gated phase only if an approval for that phase was recorded
\* before the phase was entered.
GateSound ==
    \A i \in DOMAIN hist :
        (hist[i].how = "advance" /\ hist[i].phase \in Gated) =>
            \E a \in approvals : a.phase = hist[i].phase /\ a.at < i

\* V14 calls phase_history an append-only log: no step removes a row, rewrites
\* what a row says of the move, or reopens a row that was closed.
HistoryAppendOnly ==
    [][ /\ Len(hist') >= Len(hist)
        /\ \A i \in DOMAIN hist :
              /\ hist'[i].phase = hist[i].phase
              /\ hist'[i].how = hist[i].how
              /\ hist'[i].from = hist[i].from
              /\ hist'[i].open => hist[i].open ]_vars

\* One call at a time: every move is an edge of the manifest from the phase
\* the project was in, and the transition row names that phase.
SanctionedMoves ==
    \A i \in 2..Len(hist) :
        /\ hist[i].from = hist[i - 1].phase
        /\ hist[i].how = "advance" =>
              Valid(hist[i - 1].phase, hist[i].phase)
        /\ hist[i].how = "rollback" =>
              hist[i].phase \in Elems(RollbackTo[hist[i - 1].phase])

\* One script at a time: every move is an edge of the manifest from the phase
\* the project was in, and the transition row names that phase or none.
EdgeMoves ==
    \A i \in 2..Len(hist) :
        /\ hist[i].from \in { hist[i - 1].phase, Blank }
        /\ hist[i].how = "advance" =>
              Valid(hist[i - 1].phase, hist[i].phase)
        /\ hist[i].how = "rollback" =>
              hist[i].phase \in Elems(RollbackTo[hist[i - 1].phase])

\* One call at a time: exactly the newest row is open ("exited_at NULL means
\* currently in this phase").
OneOpenRow == OpenRows = { Len(hist) }

\* One call at a time, the engine implements the promise of the manifest.
Abstract == INSTANCE Lifecycle
                WITH granted <- { a.phase : a \in approvals }

ImplementsLifecycle == Abstract!Spec
=============================================================================
