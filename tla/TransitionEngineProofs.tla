----------------------- MODULE TransitionEngineProofs -----------------------
(***************************************************************************)
(* Proofs about TransitionEngine for every manifest, every number of       *)
(* callers and every bound.                                                *)
(*                                                                         *)
(* What holds however the calls interleave (TypeCorrect, Justified) rests  *)
(* on Inv: a call that is past a check remembers, in the history and in    *)
(* the approvals, the fact that let it pass, and neither of the two ever   *)
(* forgets.  What holds for one call at a time (Serial, Refinement) rests  *)
(* on SerialInv: what the call has checked is still true of the project.   *)
(* The lemmas Blank* are about the one step that only a script which       *)
(* sources transition.sh takes.                                            *)
(***************************************************************************)
EXTENDS TransitionEngine, TLAPS

-----------------------------------------------------------------------------
(* Type correctness.                                                       *)

LEMMA InitType == Init => TypeOK
<1> SUFFICES ASSUME Init PROVE TypeOK
  OBVIOUS
<1>1. phase \in Phase
  BY ManifestAssumption DEF Init
<1>2. CreateRow(phase) \in Row
  BY <1>1 DEF CreateRow, Row, HowSet
<1>3. IdleCall(phase) \in Call
  BY <1>1 DEF IdleCall, Call, Pcs
<1> QED
  BY <1>1, <1>2, <1>3 DEF Init, TypeOK

\* A call record with another control state, or other locals, is a call record.
LEMMA CallUpdate ==
    ASSUME TypeOK, NEW c \in Callers, NEW r \in Call,
           call' = [ call EXCEPT ![c] = r ]
    PROVE  call' \in [ Callers -> Call ]
BY DEF TypeOK

LEMMA GotoType ==
    ASSUME TypeOK, NEW c \in Callers, NEW p \in Pcs, Goto(c, p)
    PROVE  /\ call' \in [ Callers -> Call ]
           /\ call' = [ call EXCEPT ![c] = [ call[c] EXCEPT !.pc = p ] ]
BY DEF TypeOK, Goto, Call

\* The row a commit appends, and the rows it closes, are rows.
LEMMA CommitType ==
    ASSUME TypeOK, NEW c \in Callers, Commit(c)
    PROVE  /\ hist' \in Seq(Row)
           /\ Len(hist') = Len(hist) + 1
           /\ \A i \in 1..Len(hist) :
                 hist'[i] = [ hist[i] EXCEPT
                                !.open = hist[i].open /\ i \notin call[c].rows ]
           /\ hist'[Len(hist) + 1] =
                 NewRow(IF call[c].pc = "commit" THEN "advance" ELSE "rollback",
                        call[c].from, call[c].target)
<1> DEFINE row == NewRow(IF call[c].pc = "commit" THEN "advance" ELSE "rollback",
                         call[c].from, call[c].target)
           closed == Closed(call[c].rows)
<1>1. row \in Row
  BY DEF TypeOK, Call, NewRow, Row, HowSet
<1>2. \A i \in 1..Len(hist) :
         [ hist[i] EXCEPT !.open = hist[i].open /\ i \notin call[c].rows ] \in Row
  <2> TAKE i \in 1..Len(hist)
  <2>1. hist[i] \in Row
    BY DEF TypeOK
  <2>2. (hist[i].open /\ i \notin call[c].rows) \in BOOLEAN
    OBVIOUS
  <2> QED
    BY <2>1, <2>2 DEF Row
<1>3. closed \in Seq(Row) /\ Len(closed) = Len(hist)
  <2>1. Len(hist) \in Nat /\ DOMAIN hist = 1..Len(hist)
    BY DEF TypeOK
  <2>2. closed = [ i \in 1..Len(hist) |->
           [ hist[i] EXCEPT !.open = hist[i].open /\ i \notin call[c].rows ] ]
    BY <2>1 DEF Closed
  <2>3. closed \in [ 1..Len(hist) -> Row ]
    BY <1>2, <2>2
  <2> HIDE DEF closed
  <2> QED
    BY <2>1, <2>3
<1>4. hist' = Append(closed, row)
  BY DEF Commit
<1>5. \A i \in 1..Len(hist) : closed[i] =
         [ hist[i] EXCEPT !.open = hist[i].open /\ i \notin call[c].rows ]
  <2>1. DOMAIN hist = 1..Len(hist)
    BY DEF TypeOK
  <2> QED
    BY <2>1 DEF Closed
<1> HIDE DEF row, closed
<1>6. /\ hist' \in Seq(Row)
      /\ Len(hist') = Len(hist) + 1
      /\ \A i \in 1..Len(hist) : hist'[i] = closed[i]
      /\ hist'[Len(hist) + 1] = row
  BY <1>1, <1>3, <1>4
<1> QED
  BY <1>5, <1>6 DEF row

LEMMA BlankType ==
    ASSUME TypeOK, NEW c \in Callers, RereadBlank(c)
    PROVE  TypeOK'
<1>1. "snap" \in Pcs
  BY DEF Pcs, ExecutePcs
<1> QED
  BY <1>1 DEF RereadBlank, TypeOK, Call

LEMMA StepType == TypeOK /\ [Next]_vars => TypeOK'
<1> SUFFICES ASSUME TypeOK, [Next]_vars PROVE TypeOK'
  OBVIOUS
<1> USE ManifestAssumption
<1>1. ASSUME NEW p \in Requests, NEW who \in Approver, GrantApproval(p, who)
      PROVE  TypeOK'
  <2>1. [ phase |-> p, approver |-> who, at |-> Len(hist), live |-> TRUE ]
          \in Approval
    BY DEF TypeOK, Approval
  <2> QED
    BY <1>1, <2>1 DEF GrantApproval, AddApproval, TypeOK
<1>2. ASSUME NEW a \in approvals, ExpireApproval(a)
      PROVE  TypeOK'
  <2>1. [ a EXCEPT !.live = FALSE ] \in Approval
    BY DEF TypeOK, Approval
  <2> QED
    BY <1>2, <2>1 DEF ExpireApproval, TypeOK
<1>3. ASSUME NEW c \in Callers, NEW t \in Requests,
             StartExecute(c, t) \/ StartRollback(c, t)
      PROVE  TypeOK'
  <2>1. \A pc \in Pcs :
           [ pc |-> pc, target |-> t, from |-> t, rows |-> {} ] \in Call
    BY DEF Call
  <2>2. "validate" \in Pcs /\ "rbcheck" \in Pcs
    BY DEF Pcs, ExecutePcs, RollbackPcs
  <2> QED
    BY <1>3, <2>1, <2>2, CallUpdate
       DEF StartExecute, StartRollback, Enter, TypeOK
<1>4. ASSUME NEW c \in Callers, Validate(c) PROVE TypeOK'
  <2>1. PICK p \in { "noop", "gate", "err" } : Goto(c, p)
    BY <1>4 DEF Validate
  <2>2. p \in Pcs
    BY DEF Pcs, ExecutePcs, Results
  <2> QED
    BY <1>4, <2>1, <2>2, GotoType DEF Validate, TypeOK
<1>5. ASSUME NEW c \in Callers, GateCheck(c) PROVE TypeOK'
  <2>1. PICK p \in { "reread", "err" } : Goto(c, p)
    BY <1>5 DEF GateCheck
  <2>2. p \in Pcs
    BY DEF Pcs, ExecutePcs, Results
  <2> QED
    BY <1>5, <2>1, <2>2, GotoType DEF GateCheck, TypeOK
<1>6. ASSUME NEW c \in Callers, Reread(c) PROVE TypeOK'
  <2>1. "snap" \in Pcs
    BY DEF Pcs, ExecutePcs
  <2> QED
    BY <1>6, <2>1 DEF Reread, TypeOK, Call
<1>7. ASSUME NEW c \in Callers, Snap(c) PROVE TypeOK'
  <2>1. "commit" \in Pcs /\ "rbcommit" \in Pcs
    BY DEF Pcs, ExecutePcs, RollbackPcs
  <2>2. OpenRows \in SUBSET Nat
    BY DEF OpenRows, TypeOK
  <2> QED
    BY <1>7, <2>1, <2>2 DEF Snap, TypeOK, Call
<1>8. ASSUME NEW c \in Callers, Commit(c) PROVE TypeOK'
  <2>1. "ok" \in Pcs
    BY DEF Pcs, Results
  <2>2. call' \in [ Callers -> Call ]
    BY <1>8, <2>1, GotoType DEF Commit
  <2>3. phase' \in Phase
    BY <1>8 DEF Commit, TypeOK, Call
  <2>4. hist' \in Seq(Row)
    BY <1>8, CommitType
  <2> QED
    BY <1>8, <2>2, <2>3, <2>4 DEF Commit, TypeOK
<1>9. ASSUME NEW c \in Callers, RollbackCheck(c) PROVE TypeOK'
  <2>1. "rbsnap" \in Pcs /\ "err" \in Pcs
    BY DEF Pcs, RollbackPcs, Results
  <2> QED
    BY <1>9, <2>1 DEF RollbackCheck, TypeOK, Call
<1>10. ASSUME NEW c \in Callers, Abort(c) PROVE TypeOK'
  <2>1. "err" \in Pcs
    BY DEF Pcs, Results
  <2> QED
    BY <1>10, <2>1, GotoType DEF Abort, TypeOK
<1>11. ASSUME NEW c \in Callers, Return(c) PROVE TypeOK'
  <2>1. IdleCall(phase) \in Call
    BY DEF IdleCall, Call, Pcs, TypeOK
  <2> QED
    BY <1>11, <2>1, CallUpdate DEF Return, TypeOK
<1>12. CASE UNCHANGED vars
  BY <1>12 DEF vars, TypeOK
<1> QED
  BY <1>1, <1>2, <1>3, <1>4, <1>5, <1>6, <1>7, <1>8, <1>9, <1>10, <1>11, <1>12
     DEF Next, EngineStep, EngineStatement

\* Every state of the engine is well typed: the phase is one of the manifest
\* and every call holds phases and row numbers (transition.sh, whatever the
\* manifest and however many shells run it).
THEOREM TypeCorrect == Spec => []TypeOK
BY InitType, StepType, PTL DEF Spec

-----------------------------------------------------------------------------
(* However the calls interleave.                                           *)

\* What a call that is past transition_validate, transition_gate_check or the
\* check of transition_rollback may rely on for ever.
Witnessed(c) ==
    /\ call[c].pc \in { "gate", "reread", "snap", "commit" } =>
          \E j \in 1..Len(hist) : Valid(hist[j].phase, call[c].target)
    /\ call[c].pc \in { "reread", "snap", "commit" } /\ call[c].target \in Gated =>
          \E a \in approvals : a.phase = call[c].target
    /\ call[c].pc \in { "rbsnap", "rbcommit" } =>
          \E j \in 1..Len(hist) :
              call[c].target \in Elems(RollbackTo[hist[j].phase])

\* granted_at is never ahead of the history.
GrantsInPast == \A a \in approvals : a.at <= Len(hist)

\* The inductive invariant: the witness of a running call becomes the
\* justification of the row that the call commits.
Inv ==
    /\ TypeOK
    /\ CurrentRowOpen
    /\ JustifiedMoves
    /\ GateSound
    /\ GrantsInPast
    /\ \A c \in Callers : Witnessed(c)

LEMMA InitInv == Init => Inv
<1> SUFFICES ASSUME Init PROVE Inv
  OBVIOUS
<1>1. TypeOK
  BY InitType
<1>2. /\ hist \in Seq(Row) /\ Len(hist) = 1
      /\ hist[1] = CreateRow(phase)
  BY <1>1 DEF Init, TypeOK
<1>3. CurrentRowOpen
  <2>1. /\ hist[1].phase = phase
        /\ hist[1].open = TRUE
    BY <1>2 DEF CreateRow
  <2>2. hist # << >>
    BY <1>2
  <2> QED
    BY <1>2, <2>1, <2>2 DEF CurrentRowOpen
<1>4. JustifiedMoves /\ GateSound
  BY <1>2 DEF JustifiedMoves, GateSound, CreateRow
<1>5. GrantsInPast /\ \A c \in Callers : Witnessed(c)
  BY DEF Init, IdleCall, Witnessed, GrantsInPast
<1> QED
  BY <1>1, <1>3, <1>4, <1>5 DEF Inv

\* A step that leaves the project alone keeps the facts about its history,
\* if approvals keep their phase and their place in time.
LEMMA QuietHistory ==
    ASSUME Inv, UNCHANGED << phase, hist >>,
           \A a \in approvals : \E b \in approvals' :
               b.phase = a.phase /\ b.at = a.at
    PROVE  CurrentRowOpen' /\ JustifiedMoves' /\ GateSound'
<1>1. CurrentRowOpen'
  BY DEF Inv, CurrentRowOpen
<1>2. JustifiedMoves'
  BY DEF Inv, JustifiedMoves, Valid
<1>3. GateSound'
  BY DEF Inv, GateSound
<1> QED
  BY <1>1, <1>2, <1>3

\* The same for a call that the step does not touch.
LEMMA QuietCall ==
    ASSUME Inv, TypeOK', NEW c \in Callers, call'[c] = call[c],
           Len(hist) <= Len(hist'),
           \A i \in 1..Len(hist) : hist'[i].phase = hist[i].phase,
           \A a \in approvals : \E b \in approvals' :
               b.phase = a.phase /\ b.at = a.at
    PROVE  Witnessed(c)'
<1> USE DEF Witnessed
<1>0. /\ Witnessed(c)
      /\ Len(hist) \in Nat /\ Len(hist') \in Nat
  BY DEF Inv, TypeOK
<1>1. ASSUME call'[c].pc \in { "gate", "reread", "snap", "commit" }
      PROVE  \E j \in 1..Len(hist') : Valid(hist'[j].phase, call'[c].target)
  <2>1. PICK j \in 1..Len(hist) : Valid(hist[j].phase, call[c].target)
    BY <1>0, <1>1
  <2> QED
    BY <1>0, <2>1
<1>2. ASSUME call'[c].pc \in { "reread", "snap", "commit" },
             call'[c].target \in Gated
      PROVE  \E a \in approvals' : a.phase = call'[c].target
  <2>1. PICK a \in approvals : a.phase = call[c].target
    BY <1>0, <1>2
  <2> QED
    BY <2>1
<1>3. ASSUME call'[c].pc \in { "rbsnap", "rbcommit" }
      PROVE  \E j \in 1..Len(hist') :
                call'[c].target \in Elems(RollbackTo[hist'[j].phase])
  <2>1. PICK j \in 1..Len(hist) :
           call[c].target \in Elems(RollbackTo[hist[j].phase])
    BY <1>0, <1>3
  <2> QED
    BY <1>0, <2>1
<1> QED
  BY <1>1, <1>2, <1>3 DEF Valid

\* A step of call c that touches neither the project nor the approvals needs
\* only c's own witness.
LEMMA OwnStep ==
    ASSUME Inv, TypeOK', NEW c \in Callers,
           UNCHANGED << phase, hist, approvals >>,
           \A d \in Callers \ {c} : call'[d] = call[d],
           Witnessed(c)'
    PROVE  Inv'
<1>1. \A a \in approvals : \E b \in approvals' :
         b.phase = a.phase /\ b.at = a.at
  OBVIOUS
<1>2. CurrentRowOpen' /\ JustifiedMoves' /\ GateSound'
  BY <1>1, QuietHistory
<1>3. \A d \in Callers : Witnessed(d)'
  <2> TAKE d \in Callers
  <2>1. CASE d = c
    BY <2>1
  <2>2. CASE d # c
    <3>1. Len(hist) <= Len(hist')
      BY DEF Inv, TypeOK
    <3> QED
      BY <1>1, <2>2, <3>1, QuietCall
  <2> QED
    BY <2>1, <2>2
<1>4. GrantsInPast'
  BY DEF Inv, GrantsInPast
<1> QED
  BY <1>2, <1>3, <1>4 DEF Inv

LEMMA CommitInv ==
    ASSUME Inv, TypeOK', NEW c \in Callers, Commit(c)
    PROVE  Inv'
<1> DEFINE n == Len(hist)
           row == hist'[n + 1]
<1>1. /\ hist \in Seq(Row) /\ n \in Nat /\ Len(hist') = n + 1
      /\ DOMAIN hist' = 1..(n + 1) /\ DOMAIN hist = 1..n
      /\ \A i \in 1..n : /\ hist'[i].phase = hist[i].phase
                          /\ hist'[i].how = hist[i].how
      /\ row = NewRow(IF call[c].pc = "commit" THEN "advance" ELSE "rollback",
                      call[c].from, call[c].target)
  <2>1. \A i \in 1..n : hist[i] \in Row
    BY DEF Inv, TypeOK
  <2>2. TypeOK
    BY DEF Inv
  <2>3. /\ hist' \in Seq(Row)
        /\ Len(hist') = n + 1
        /\ \A i \in 1..n :
              hist'[i] = [ hist[i] EXCEPT
                             !.open = hist[i].open /\ i \notin call[c].rows ]
        /\ row = NewRow(IF call[c].pc = "commit" THEN "advance" ELSE "rollback",
                        call[c].from, call[c].target)
    BY <2>2, CommitType
  <2>4. \A i \in 1..n : /\ hist'[i].phase = hist[i].phase
                        /\ hist'[i].how = hist[i].how
    BY <2>1, <2>3 DEF Row
  <2>5. hist \in Seq(Row) /\ n \in Nat /\ DOMAIN hist = 1..n
    BY <2>2 DEF TypeOK
  <2>6. DOMAIN hist' = 1..(n + 1)
    BY <2>3
  <2> QED
    BY <2>3, <2>4, <2>5, <2>6
<1>2. /\ row.phase = call[c].target /\ row.open = TRUE
      /\ row.how = IF call[c].pc = "commit" THEN "advance" ELSE "rollback"
  BY <1>1 DEF NewRow
<1>3. phase' = call[c].target /\ approvals' = approvals
      /\ call[c].pc \in { "commit", "rbcommit" }
  BY DEF Commit
<1>4. Witnessed(c) /\ JustifiedMoves /\ GateSound
  BY DEF Inv
<1>5. \A a \in approvals : a.at \in Nat /\ a.at <= n
  BY DEF Inv, TypeOK, Approval, GrantsInPast
<1> HIDE DEF row, n
<1>6. CurrentRowOpen'
  <2>1. hist'[Len(hist')] = row /\ hist' # << >>
    BY <1>1 DEF row
  <2> QED
    BY <1>2, <1>3, <2>1 DEF CurrentRowOpen
<1>7. JustifiedMoves'
  <2> SUFFICES ASSUME NEW i \in 1..(n + 1)
               PROVE  /\ hist'[i].how = "advance" =>
                            \E j \in 1..(i - 1) :
                                Valid(hist'[j].phase, hist'[i].phase)
                      /\ hist'[i].how = "rollback" =>
                            \E j \in 1..(i - 1) :
                                hist'[i].phase \in Elems(RollbackTo[hist'[j].phase])
    BY <1>1 DEF JustifiedMoves, Valid
  <2>1. CASE i \in 1..n
    <3>1. \A j \in 1..(i - 1) : j \in 1..n
      BY <1>1, <2>1
    <3> QED
      BY <1>1, <1>4, <2>1, <3>1 DEF JustifiedMoves
  <2>2. CASE i = n + 1
    <3>1. hist'[i] = row /\ 1..(i - 1) = 1..n
      BY <1>1, <2>2 DEF row
    <3>2. ASSUME row.how = "advance"
          PROVE  \E j \in 1..n : Valid(hist'[j].phase, row.phase)
      <4>1. call[c].pc = "commit"
        BY <1>2, <3>2
      <4>2. PICK j \in 1..Len(hist) : Valid(hist[j].phase, call[c].target)
        BY <1>4, <4>1 DEF Witnessed
      <4> QED
        BY <1>1, <1>2, <4>2 DEF n
    <3>3. ASSUME row.how = "rollback"
          PROVE  \E j \in 1..n : row.phase \in Elems(RollbackTo[hist'[j].phase])
      <4>1. call[c].pc = "rbcommit"
        BY <1>2, <1>3, <3>3
      <4>2. PICK j \in 1..Len(hist) :
               call[c].target \in Elems(RollbackTo[hist[j].phase])
        BY <1>4, <4>1 DEF Witnessed
      <4> QED
        BY <1>1, <1>2, <4>2 DEF n
    <3> QED
      BY <3>1, <3>2, <3>3
  <2> QED
    BY <1>1, <2>1, <2>2
<1>8. GateSound'
  <2> SUFFICES ASSUME NEW i \in 1..(n + 1), hist'[i].how = "advance",
                      hist'[i].phase \in Gated
               PROVE  \E a \in approvals : a.phase = hist'[i].phase /\ a.at < i
    BY <1>1, <1>3 DEF GateSound
  <2>1. CASE i \in 1..n
    BY <1>1, <1>4, <2>1 DEF GateSound
  <2>2. CASE i = n + 1
    <3>1. call[c].pc = "commit" /\ call[c].target \in Gated
          /\ hist'[i].phase = call[c].target
      BY <1>2, <2>2 DEF row
    <3>2. PICK a \in approvals : a.phase = call[c].target
      BY <1>4, <3>1 DEF Witnessed
    <3> QED
      BY <1>1, <1>5, <2>2, <3>1, <3>2
  <2> QED
    BY <1>1, <2>1, <2>2
<1>9. \A d \in Callers : Witnessed(d)'
  <2> TAKE d \in Callers
  <2>1. CASE d = c
    <3>1. call'[d].pc = "ok"
      BY <2>1 DEF Commit, Goto, Inv, TypeOK, Call
    <3> QED
      BY <3>1 DEF Witnessed
  <2>2. CASE d # c
    <3>1. call'[d] = call[d]
      BY <2>2 DEF Commit, Goto, Inv, TypeOK
    <3>2. Len(hist) <= Len(hist') /\ \A i \in 1..Len(hist) : hist'[i].phase = hist[i].phase
      BY <1>1 DEF n
    <3>3. \A a \in approvals : \E b \in approvals' :
             b.phase = a.phase /\ b.at = a.at
      BY <1>3
    <3> QED
      BY <3>1, <3>2, <3>3, QuietCall
  <2> QED
    BY <2>1, <2>2
<1>10. GrantsInPast'
  BY <1>1, <1>3, <1>5 DEF GrantsInPast
<1> QED
  BY <1>6, <1>7, <1>8, <1>9, <1>10 DEF Inv

LEMMA StepInv == Inv /\ [Next]_vars => Inv'
<1> SUFFICES ASSUME Inv, [Next]_vars PROVE Inv'
  OBVIOUS
<1>0. TypeOK /\ TypeOK'
  BY StepType DEF Inv
<1>1. ASSUME NEW S, approvals' = S, UNCHANGED << phase, hist, call >>,
             \A a \in approvals : \E b \in S : b.phase = a.phase /\ b.at = a.at,
             \A b \in S : b.at <= Len(hist)
      PROVE  Inv'
  <2>1. CurrentRowOpen' /\ JustifiedMoves' /\ GateSound'
    BY <1>1, QuietHistory
  <2>2. \A d \in Callers : Witnessed(d)'
    <3>1. Len(hist) <= Len(hist')
      BY <1>0, <1>1 DEF TypeOK
    <3> QED
      BY <1>0, <1>1, <3>1, QuietCall
  <2>3. GrantsInPast'
    BY <1>1 DEF GrantsInPast
  <2> QED
    BY <1>0, <2>1, <2>2, <2>3 DEF Inv
<1>2. ASSUME NEW p \in Requests, NEW who \in Approver, GrantApproval(p, who)
      PROVE  Inv'
  <2> DEFINE g == [ phase |-> p, approver |-> who, at |-> Len(hist), live |-> TRUE ]
             S == approvals \cup {g}
  <2>1. approvals' = S /\ UNCHANGED << phase, hist, call >>
    BY <1>2 DEF GrantApproval, AddApproval
  <2>2. g.at <= Len(hist)
    BY <1>0 DEF TypeOK
  <2> HIDE DEF g
  <2>3. \A b \in S : b.at <= Len(hist)
    BY <2>2 DEF Inv, GrantsInPast
  <2>4. \A a \in approvals : \E b \in S : b.phase = a.phase /\ b.at = a.at
    OBVIOUS
  <2> HIDE DEF S
  <2> QED
    BY <1>1, <2>1, <2>3, <2>4
<1>3. ASSUME NEW a \in approvals, ExpireApproval(a)
      PROVE  Inv'
  <2> DEFINE e == [ a EXCEPT !.live = FALSE ]
             S == (approvals \ {a}) \cup {e}
  <2>1. e.phase = a.phase /\ e.at = a.at
    BY <1>0 DEF TypeOK, Approval
  <2>2. approvals' = S /\ UNCHANGED << phase, hist, call >>
    BY <1>3 DEF ExpireApproval
  <2> HIDE DEF e
  <2>3. \A x \in approvals : \E b \in S : b.phase = x.phase /\ b.at = x.at
    BY <2>1
  <2>4. \A b \in S : b.at <= Len(hist)
    BY <2>1 DEF Inv, GrantsInPast
  <2> HIDE DEF S
  <2> QED
    BY <1>1, <2>2, <2>3, <2>4
\* From here on: a step of one call that leaves the project alone.
<1>4. ASSUME NEW c \in Callers, UNCHANGED << phase, hist, approvals >>,
             \A d \in Callers \ {c} : call'[d] = call[d],
             Witnessed(c)'
      PROVE  Inv'
  BY <1>0, <1>4, OwnStep
<1>5. ASSUME NEW c \in Callers, NEW t \in Requests,
             StartExecute(c, t) \/ StartRollback(c, t)
      PROVE  Inv'
  <2>1. call'[c].pc \in { "validate", "rbcheck" }
    BY <1>0, <1>5 DEF StartExecute, StartRollback, Enter, TypeOK
  <2>2. Witnessed(c)'
    BY <2>1 DEF Witnessed
  <2> QED
    BY <1>0, <1>4, <1>5, <2>2 DEF StartExecute, StartRollback, Enter, TypeOK
<1>6. ASSUME NEW c \in Callers, Validate(c) PROVE Inv'
  <2>1. /\ call'[c].pc \in { "noop", "gate", "err" }
        /\ call'[c].target = call[c].target
        /\ call'[c].pc = "gate" => Valid(phase, call[c].target)
        /\ \A d \in Callers \ {c} : call'[d] = call[d]
    BY <1>0, <1>6 DEF Validate, Goto, TypeOK, Call
  <2>2. ASSUME call'[c].pc = "gate"
        PROVE  \E j \in 1..Len(hist) : Valid(hist[j].phase, call[c].target)
    <3>1. Len(hist) \in 1..Len(hist) /\ hist[Len(hist)].phase = phase
      BY <1>0 DEF Inv, CurrentRowOpen, TypeOK
    <3> QED
      BY <2>1, <2>2, <3>1
  <2>3. Witnessed(c)'
    BY <1>6, <2>1, <2>2 DEF Witnessed, Validate, Valid
  <2> QED
    BY <1>4, <1>6, <2>1, <2>3 DEF Validate
<1>7. ASSUME NEW c \in Callers, GateCheck(c) PROVE Inv'
  <2>1. /\ call[c].pc = "gate"
        /\ call'[c].pc \in { "reread", "err" }
        /\ call'[c].target = call[c].target
        /\ call'[c].pc = "reread" => GateOpen(call[c].target)
        /\ \A d \in Callers \ {c} : call'[d] = call[d]
        /\ UNCHANGED << phase, hist, approvals >>
    BY <1>0, <1>7 DEF GateCheck, Goto, TypeOK, Call
  <2>2. ASSUME call'[c].pc = "reread", call[c].target \in Gated
        PROVE  \E a \in approvals : a.phase = call[c].target
    BY <2>1, <2>2 DEF GateOpen, Live
  <2>3. Witnessed(c)'
    <3>1. Witnessed(c)
      BY DEF Inv
    <3> QED
      BY <2>1, <2>2, <3>1 DEF Witnessed, Valid
  <2> QED
    BY <1>4, <2>1, <2>3
<1>8. ASSUME NEW c \in Callers, Reread(c) \/ Snap(c) PROVE Inv'
  <2>1. /\ call'[c].target = call[c].target
        /\ \/ call[c].pc = "reread" /\ call'[c].pc = "snap"
           \/ call[c].pc = "snap" /\ call'[c].pc = "commit"
           \/ call[c].pc = "rbsnap" /\ call'[c].pc = "rbcommit"
        /\ \A d \in Callers \ {c} : call'[d] = call[d]
        /\ UNCHANGED << phase, hist, approvals >>
    BY <1>0, <1>8 DEF Reread, Snap, TypeOK, Call
  <2>2. Witnessed(c)'
    <3>1. Witnessed(c)
      BY DEF Inv
    <3> QED
      BY <2>1, <3>1 DEF Witnessed, Valid
  <2> QED
    BY <1>4, <2>1, <2>2
<1>9. ASSUME NEW c \in Callers, Commit(c) PROVE Inv'
  BY <1>0, <1>9, CommitInv
<1>10. ASSUME NEW c \in Callers, RollbackCheck(c) PROVE Inv'
  <2>1. /\ call'[c].pc \in { "rbsnap", "err" }
        /\ call'[c].target = call[c].target
        /\ call'[c].pc = "rbsnap" => call[c].target \in Elems(RollbackTo[phase])
        /\ \A d \in Callers \ {c} : call'[d] = call[d]
        /\ UNCHANGED << phase, hist, approvals >>
    BY <1>0, <1>10 DEF RollbackCheck, TypeOK, Call
  <2>2. Len(hist) \in 1..Len(hist) /\ hist[Len(hist)].phase = phase
    BY <1>0 DEF Inv, CurrentRowOpen, TypeOK
  <2>3. Witnessed(c)'
    BY <2>1, <2>2 DEF Witnessed
  <2> QED
    BY <1>4, <2>1, <2>3
<1>11. ASSUME NEW c \in Callers, Abort(c) \/ Return(c) PROVE Inv'
  <2>1. /\ call'[c].pc \in { "err", "idle" }
        /\ \A d \in Callers \ {c} : call'[d] = call[d]
        /\ UNCHANGED << phase, hist, approvals >>
    BY <1>0, <1>11 DEF Abort, Return, Goto, IdleCall, TypeOK, Call
  <2>2. Witnessed(c)'
    BY <2>1 DEF Witnessed
  <2> QED
    BY <1>4, <2>1, <2>2
<1>12. CASE UNCHANGED vars
  BY <1>1, <1>12 DEF vars, Inv, GrantsInPast
<1> QED
  BY <1>2, <1>3, <1>5, <1>6, <1>7, <1>8, <1>9, <1>10, <1>11, <1>12
     DEF Next, EngineStep, EngineStatement

\* A call that goes on without its second read has checked as much.
LEMMA BlankInv ==
    ASSUME Inv, NEW c \in Callers, RereadBlank(c)
    PROVE  Inv'
<1>1. TypeOK /\ TypeOK' /\ Witnessed(c)
  BY BlankType DEF Inv
<1>2. /\ call[c].pc = "reread"
      /\ call'[c].pc = "snap"
      /\ call'[c].target = call[c].target
      /\ \A d \in Callers \ {c} : call'[d] = call[d]
      /\ UNCHANGED << phase, hist, approvals >>
  BY <1>1 DEF RereadBlank, TypeOK, Call
<1>3. Witnessed(c)'
  BY <1>1, <1>2 DEF Witnessed, Valid
<1> QED
  BY <1>1, <1>2, <1>3, OwnStep

\* However many shells run transition.sh at once: project.current_phase names
\* the newest history row, and that row is open.
THEOREM CacheCoherent == Spec => []CurrentRowOpen
<1>1. Inv => CurrentRowOpen
  BY DEF Inv
<1> QED
  BY <1>1, InitInv, StepInv, PTL DEF Spec

\* However many shells run transition.sh at once: every committed move goes to
\* a successor, or a rollback target, of a phase the project has been in.
THEOREM MovesJustified == Spec => []JustifiedMoves
<1>1. Inv => JustifiedMoves
  BY DEF Inv
<1> QED
  BY <1>1, InitInv, StepInv, PTL DEF Spec

\* However the calls interleave with grants and expiries: transition_execute
\* enters a gated phase only if an approval for it was recorded before.
THEOREM GatesHold == Spec => []GateSound
<1>1. Inv => GateSound
  BY DEF Inv
<1> QED
  BY <1>1, InitInv, StepInv, PTL DEF Spec

\* The transaction adds one row and rewrites nothing but exited_at.
LEMMA CommitAppends ==
    ASSUME TypeOK, NEW c \in Callers, Commit(c)
    PROVE  /\ Len(hist') >= Len(hist)
           /\ \A i \in DOMAIN hist :
                 /\ hist'[i].phase = hist[i].phase
                 /\ hist'[i].how = hist[i].how
                 /\ hist'[i].from = hist[i].from
                 /\ hist'[i].open => hist[i].open
<1>1. /\ Len(hist') = Len(hist) + 1
      /\ \A i \in 1..Len(hist) :
            hist'[i] = [ hist[i] EXCEPT
                           !.open = hist[i].open /\ i \notin call[c].rows ]
  BY CommitType
<1>2. Len(hist) \in Nat /\ DOMAIN hist = 1..Len(hist)
  BY DEF TypeOK
<1>3. \A i \in DOMAIN hist : hist[i] \in Row
  BY DEF TypeOK
<1>4. \A i \in DOMAIN hist :
         /\ hist'[i].phase = hist[i].phase
         /\ hist'[i].how = hist[i].how
         /\ hist'[i].from = hist[i].from
         /\ hist'[i].open = (hist[i].open /\ i \notin call[c].rows)
  BY <1>1, <1>2, <1>3, ZenonT(30) DEF Row
<1>5. \A i \in DOMAIN hist : hist'[i].open => hist[i].open
  BY <1>4, Zenon
<1>6. Len(hist') >= Len(hist)
  BY <1>1, <1>2
<1> QED
  BY <1>4, <1>5, <1>6

\* phase_history only grows, and a closed row is never reopened or rewritten,
\* whatever transactions of transition_execute and transition_rollback run.
THEOREM AppendOnly == Spec => HistoryAppendOnly
<1> DEFINE A == /\ Len(hist') >= Len(hist)
                /\ \A i \in DOMAIN hist :
                      /\ hist'[i].phase = hist[i].phase
                      /\ hist'[i].how = hist[i].how
                      /\ hist'[i].from = hist[i].from
                      /\ hist'[i].open => hist[i].open
<1>1. TypeOK /\ [Next]_vars => [A]_vars
  <2> SUFFICES ASSUME TypeOK, Next PROVE A
    BY DEF vars
  <2>1. CASE UNCHANGED hist
    BY <2>1 DEF TypeOK
  <2>2. ASSUME NEW c \in Callers, Commit(c) PROVE A
    BY <2>2, CommitAppends
  <2> QED
    BY <2>1, <2>2 DEF Next, EngineStep, EngineStatement, GrantApproval, ExpireApproval,
       StartExecute, StartRollback, Validate, GateCheck, Reread, Snap,
       RollbackCheck, Abort, Return
<1>2. Spec => []TypeOK
  BY TypeCorrect
<1> QED
  BY <1>1, <1>2, PTL DEF Spec, HistoryAppendOnly

-----------------------------------------------------------------------------
(* One call at a time.                                                     *)

\* What a call has checked is still true: nobody else can move the project.
StillTrue(c) ==
    /\ call[c].pc \in { "gate", "reread", "snap", "commit" } =>
          Valid(phase, call[c].target)
    /\ call[c].pc \in { "rbsnap", "rbcommit" } =>
          call[c].target \in Elems(RollbackTo[phase])
    /\ call[c].pc \in { "snap", "commit", "rbsnap", "rbcommit" } =>
          call[c].from \in { phase, Blank }
    /\ call[c].pc \in { "commit", "rbcommit" } =>
          call[c].rows = OpenRows

SerialInv ==
    /\ Inv
    /\ EdgeMoves
    /\ OneOpenRow
    /\ \A c \in Callers : StillTrue(c)

LEMMA InitSerial == Init => SerialInv
<1> SUFFICES ASSUME Init PROVE SerialInv
  OBVIOUS
<1>1. Inv /\ TypeOK
  BY InitInv DEF Inv
<1>2. /\ hist \in Seq(Row) /\ Len(hist) = 1 /\ DOMAIN hist = 1..1
      /\ hist[1] = CreateRow(phase)
  BY <1>1 DEF Init, TypeOK
<1>3. EdgeMoves
  BY <1>2 DEF EdgeMoves
<1>4. OneOpenRow
  BY <1>2 DEF OneOpenRow, OpenRows, CreateRow
<1>5. \A c \in Callers : StillTrue(c)
  BY DEF Init, IdleCall, StillTrue
<1> QED
  BY <1>1, <1>3, <1>4, <1>5 DEF SerialInv

LEMMA CommitSerial ==
    ASSUME SerialInv, TypeOK', Inv', NEW c, Callers = {c}, Commit(c)
    PROVE  SerialInv'
<1> DEFINE n == Len(hist)
           row == hist'[n + 1]
<1>0. TypeOK /\ c \in Callers /\ CurrentRowOpen /\ StillTrue(c)
      /\ EdgeMoves /\ OneOpenRow
  BY DEF SerialInv, Inv
<1>1. /\ Len(hist') = n + 1
      /\ \A i \in 1..n :
            hist'[i] = [ hist[i] EXCEPT
                           !.open = hist[i].open /\ i \notin call[c].rows ]
      /\ row = NewRow(IF call[c].pc = "commit" THEN "advance" ELSE "rollback",
                      call[c].from, call[c].target)
  BY <1>0, CommitType
<1>2. n \in Nat /\ n > 0 /\ DOMAIN hist = 1..n /\ DOMAIN hist' = 1..(n + 1)
      /\ hist[n].phase = phase
  BY <1>0, <1>1 DEF TypeOK, CurrentRowOpen
<1>3. \A i \in 1..n : hist[i] \in Row
  BY <1>0 DEF TypeOK
<1>4. \A i \in 1..n :
         /\ hist'[i].phase = hist[i].phase
         /\ hist'[i].how = hist[i].how
         /\ hist'[i].from = hist[i].from
         /\ hist'[i].open = (hist[i].open /\ i \notin call[c].rows)
  BY <1>1, <1>3 DEF Row
<1>5. /\ row.phase = call[c].target /\ row.open = TRUE /\ row.from = call[c].from
      /\ row.how = IF call[c].pc = "commit" THEN "advance" ELSE "rollback"
  BY <1>1 DEF NewRow
<1>6. call[c].pc \in { "commit", "rbcommit" }
  BY DEF Commit
<1> HIDE DEF n, row
<1>7. EdgeMoves'
  <2> SUFFICES ASSUME NEW i \in 2..(n + 1)
               PROVE  /\ hist'[i].from \in { hist'[i - 1].phase, Blank }
                      /\ hist'[i].how = "advance" =>
                            Valid(hist'[i - 1].phase, hist'[i].phase)
                      /\ hist'[i].how = "rollback" =>
                            hist'[i].phase \in Elems(RollbackTo[hist'[i - 1].phase])
    BY <1>1 DEF EdgeMoves, Valid
  <2>1. CASE i \in 2..n
    <3>1. i \in 1..n /\ i - 1 \in 1..n
      BY <1>2, <2>1
    <3>2. i \in 2..Len(hist)
      BY <2>1 DEF n
    <3> QED
      BY <1>0, <1>4, <3>1, <3>2 DEF EdgeMoves
  <2>2. CASE i = n + 1
    <3>1. hist'[i] = row /\ hist'[i - 1].phase = phase
      BY <1>2, <1>4, <2>2 DEF row
    <3> QED
      BY <1>0, <1>5, <1>6, <3>1 DEF StillTrue
  <2> QED
    BY <1>2, <2>1, <2>2
<1>8. OneOpenRow'
  <2>1. call[c].rows = { i \in 1..n : hist[i].open }
    BY <1>0, <1>2, <1>6 DEF StillTrue, OpenRows
  <2>2. \A i \in 1..n : ~ hist'[i].open
    BY <1>4, <2>1
  <2>3. hist'[n + 1].open
    BY <1>5 DEF row
  <2>4. { i \in 1..(n + 1) : hist'[i].open } = { n + 1 }
    BY <1>2, <2>2, <2>3
  <2> QED
    BY <1>1, <1>2, <2>4 DEF OneOpenRow, OpenRows
<1>9. \A d \in Callers : StillTrue(d)'
  <2>1. call'[c].pc = "ok"
    BY <1>0 DEF Commit, Goto, TypeOK, Call
  <2> QED
    BY <2>1 DEF StillTrue
<1> QED
  BY <1>7, <1>8, <1>9 DEF SerialInv

LEMMA BlankSerial ==
    ASSUME SerialInv, Inv', NEW c, Callers = {c}, RereadBlank(c)
    PROVE  SerialInv'
<1>1. /\ call[c].pc = "reread"
      /\ call'[c].pc = "snap"
      /\ call'[c].from = Blank
      /\ call'[c].target = call[c].target
      /\ UNCHANGED << phase, hist >>
      /\ StillTrue(c)
  BY DEF RereadBlank, SerialInv, Inv, TypeOK, Call
<1>2. StillTrue(c)'
  BY <1>1 DEF StillTrue, Valid
<1>3. EdgeMoves' /\ OneOpenRow'
  BY <1>1 DEF SerialInv, EdgeMoves, Valid, OneOpenRow, OpenRows
<1> QED
  BY <1>2, <1>3 DEF SerialInv

LEMMA StepSerial ==
    ASSUME NEW c, Callers = {c}
    PROVE  SerialInv /\ [Next]_vars => SerialInv'
<1> SUFFICES ASSUME SerialInv, [Next]_vars PROVE SerialInv'
  OBVIOUS
<1>0. TypeOK /\ TypeOK' /\ Inv' /\ c \in Callers /\ StillTrue(c)
  BY StepType, StepInv DEF SerialInv, Inv
\* A step that leaves the project alone keeps the facts about its history.
<1>1. ASSUME UNCHANGED << phase, hist >>, StillTrue(c)' PROVE SerialInv'
  <2>1. EdgeMoves'
    BY <1>1 DEF SerialInv, EdgeMoves, Valid
  <2>2. OneOpenRow'
    BY <1>1 DEF SerialInv, OneOpenRow, OpenRows
  <2> QED
    BY <1>0, <1>1, <2>1, <2>2 DEF SerialInv
<1>2. ASSUME UNCHANGED << phase, hist, call >> PROVE SerialInv'
  BY <1>0, <1>1, <1>2 DEF StillTrue, Valid, OpenRows
<1>3. ASSUME NEW t \in Requests, StartExecute(c, t) \/ StartRollback(c, t)
      PROVE  SerialInv'
  <2>1. call'[c].pc \in { "validate", "rbcheck" } /\ UNCHANGED << phase, hist >>
    BY <1>0, <1>3 DEF StartExecute, StartRollback, Enter, TypeOK
  <2> QED
    BY <1>1, <2>1 DEF StillTrue
<1>4. ASSUME Validate(c) PROVE SerialInv'
  <2>1. /\ call'[c].pc \in { "noop", "gate", "err" }
        /\ call'[c].target = call[c].target
        /\ call'[c].pc = "gate" => Valid(phase, call[c].target)
        /\ UNCHANGED << phase, hist >>
    BY <1>0, <1>4 DEF Validate, Goto, TypeOK, Call
  <2> QED
    BY <1>1, <2>1 DEF StillTrue, Valid
<1>5. ASSUME GateCheck(c) PROVE SerialInv'
  <2>1. /\ call[c].pc = "gate"
        /\ call'[c].pc \in { "reread", "err" }
        /\ call'[c].target = call[c].target
        /\ UNCHANGED << phase, hist >>
    BY <1>0, <1>5 DEF GateCheck, Goto, TypeOK, Call
  <2> QED
    BY <1>0, <1>1, <2>1 DEF StillTrue, Valid
<1>6. ASSUME Reread(c) PROVE SerialInv'
  <2>1. /\ call[c].pc = "reread"
        /\ call'[c].pc = "snap"
        /\ call'[c].from = phase
        /\ call'[c].target = call[c].target
        /\ UNCHANGED << phase, hist >>
    BY <1>0, <1>6 DEF Reread, TypeOK, Call
  <2> QED
    BY <1>0, <1>1, <2>1 DEF StillTrue, Valid
<1>7. ASSUME Snap(c) PROVE SerialInv'
  <2>1. /\ \/ call[c].pc = "snap" /\ call'[c].pc = "commit"
           \/ call[c].pc = "rbsnap" /\ call'[c].pc = "rbcommit"
        /\ call'[c].from = call[c].from
        /\ call'[c].target = call[c].target
        /\ call'[c].rows = OpenRows
        /\ UNCHANGED << phase, hist >>
    BY <1>0, <1>7 DEF Snap, TypeOK, Call
  <2>2. OpenRows' = OpenRows
    BY <2>1 DEF OpenRows
  <2> QED
    BY <1>0, <1>1, <2>1, <2>2 DEF StillTrue, Valid
<1>8. ASSUME Commit(c) PROVE SerialInv'
  BY <1>0, <1>8, CommitSerial
<1>9. ASSUME RollbackCheck(c) PROVE SerialInv'
  <2>1. /\ call'[c].pc \in { "rbsnap", "err" }
        /\ call'[c].target = call[c].target
        /\ call'[c].from = phase
        /\ call'[c].pc = "rbsnap" => call[c].target \in Elems(RollbackTo[phase])
        /\ UNCHANGED << phase, hist >>
    BY <1>0, <1>9 DEF RollbackCheck, TypeOK, Call
  <2> QED
    BY <1>1, <2>1 DEF StillTrue
<1>10. ASSUME Abort(c) \/ Return(c) PROVE SerialInv'
  <2>1. call'[c].pc \in { "err", "idle" } /\ UNCHANGED << phase, hist >>
    BY <1>0, <1>10 DEF Abort, Return, Goto, IdleCall, TypeOK, Call
  <2> QED
    BY <1>1, <2>1 DEF StillTrue
<1> QED
  BY <1>2, <1>3, <1>4, <1>5, <1>6, <1>7, <1>8, <1>9, <1>10
     DEF Next, EngineStep, EngineStatement, GrantApproval, ExpireApproval, vars

\* A shell that runs transition.sh itself stops at a read that fails.
NeverBlank ==
    /\ \A c \in Callers : call[c].from # Blank
    /\ \A i \in 1..Len(hist) : hist[i].from # Blank

LEMMA InitNeverBlank == Init => NeverBlank
<1> SUFFICES ASSUME Init PROVE NeverBlank
  OBVIOUS
<1>1. phase # Blank
  BY ManifestAssumption DEF Init
<1>2. Len(hist) = 1 /\ hist[1] = CreateRow(phase)
  BY DEF Init
<1> QED
  BY <1>1, <1>2 DEF Init, NeverBlank, IdleCall, CreateRow

LEMMA StepNeverBlank == TypeOK /\ NeverBlank /\ [Next]_vars => NeverBlank'
<1> SUFFICES ASSUME TypeOK, NeverBlank, [Next]_vars PROVE NeverBlank'
  OBVIOUS
<1>0. phase # Blank /\ \A t \in Requests : t # Blank
  BY ManifestAssumption DEF TypeOK
<1>1. ASSUME NEW c \in Callers, UNCHANGED hist, call'[c].from # Blank,
             \A d \in Callers \ {c} : call'[d] = call[d]
      PROVE  NeverBlank'
  BY <1>1 DEF NeverBlank
<1>2. ASSUME UNCHANGED << hist, call >> PROVE NeverBlank'
  BY <1>2 DEF NeverBlank
<1>3. ASSUME NEW c \in Callers, Commit(c) PROVE NeverBlank'
  <2>1. /\ Len(hist') = Len(hist) + 1
        /\ \A i \in 1..Len(hist) :
              hist'[i] = [ hist[i] EXCEPT
                             !.open = hist[i].open /\ i \notin call[c].rows ]
        /\ hist'[Len(hist) + 1] =
              NewRow(IF call[c].pc = "commit" THEN "advance" ELSE "rollback",
                     call[c].from, call[c].target)
    BY <1>3, CommitType
  <2>2. \A i \in 1..Len(hist) : hist[i] \in Row /\ hist[i].from # Blank
    BY DEF TypeOK, NeverBlank
  <2>3. \A i \in 1..Len(hist) : hist'[i].from # Blank
    BY <2>1, <2>2 DEF Row
  <2>4. hist'[Len(hist) + 1].from # Blank
    BY <2>1 DEF NewRow, NeverBlank
  <2>5. \A d \in Callers : call'[d].from = call[d].from
    BY <1>3 DEF Commit, Goto, TypeOK, Call
  <2>6. Len(hist) \in Nat
    BY DEF TypeOK
  <2> QED
    BY <2>1, <2>3, <2>4, <2>5, <2>6 DEF NeverBlank
<1>4. ASSUME NEW c \in Callers, NEW t \in Requests,
             StartExecute(c, t) \/ StartRollback(c, t)
      PROVE  NeverBlank'
  <2>1. /\ UNCHANGED hist /\ call'[c].from = t
        /\ \A d \in Callers \ {c} : call'[d] = call[d]
    BY <1>4 DEF StartExecute, StartRollback, Enter, TypeOK
  <2> QED
    BY <1>0, <1>1, <2>1
<1>5. ASSUME NEW c \in Callers,
             Validate(c) \/ GateCheck(c) \/ Snap(c) \/ Abort(c)
      PROVE  NeverBlank'
  <2>1. UNCHANGED hist /\ \A d \in Callers : call'[d].from = call[d].from
    BY <1>5 DEF Validate, GateCheck, Snap, Abort, Goto, TypeOK, Call
  <2> QED
    BY <2>1 DEF NeverBlank
<1>6. ASSUME NEW c \in Callers, Reread(c) \/ RollbackCheck(c) \/ Return(c)
      PROVE  NeverBlank'
  <2>1. /\ UNCHANGED hist /\ call'[c].from = phase
        /\ \A d \in Callers \ {c} : call'[d] = call[d]
    BY <1>6 DEF Reread, RollbackCheck, Return, IdleCall, TypeOK, Call
  <2> QED
    BY <1>0, <1>1, <2>1
<1> QED
  BY <1>2, <1>3, <1>4, <1>5, <1>6
     DEF Next, EngineStep, EngineStatement, GrantApproval, ExpireApproval, vars

\* transition.sh run by one shell at a time, on any manifest: every row of the
\* history is an edge of the manifest from the row before it, and the
\* transition row names the phase the project really left.
THEOREM SerialMoves ==
    ASSUME NEW c, Callers = {c}
    PROVE  Spec => []SanctionedMoves
<1>1. SerialInv /\ NeverBlank => SanctionedMoves
  <2> SUFFICES ASSUME SerialInv, NeverBlank, NEW i \in 2..Len(hist)
               PROVE  hist[i].from = hist[i - 1].phase
    BY DEF SerialInv, EdgeMoves, SanctionedMoves
  <2>1. i \in 1..Len(hist)
    BY DEF SerialInv, Inv, TypeOK
  <2> QED
    BY <2>1 DEF SerialInv, EdgeMoves, NeverBlank
<1>2. SerialInv /\ [Next]_vars => SerialInv'
  BY StepSerial
<1>3. SerialInv => TypeOK
  BY DEF SerialInv, Inv
<1> QED
  BY <1>1, <1>2, <1>3, InitSerial, InitNeverBlank, StepNeverBlank, PTL DEF Spec

\* transition.sh run by one shell at a time: exactly the newest history row
\* has exited_at NULL.
THEOREM SerialRows ==
    ASSUME NEW c, Callers = {c}
    PROVE  Spec => []OneOpenRow
<1>1. SerialInv => OneOpenRow
  BY DEF SerialInv
<1>2. SerialInv /\ [Next]_vars => SerialInv'
  BY StepSerial
<1> QED
  BY <1>1, <1>2, InitSerial, PTL DEF Spec

-----------------------------------------------------------------------------
(* One call at a time, the engine implements the promise of the manifest.  *)

LEMMA InitRefines == Init => Abstract!Init
BY DEF Init, Abstract!Init

LEMMA StepRefines ==
    ASSUME NEW c, Callers = {c}, SerialInv, [Next]_vars
    PROVE  [Abstract!Next]_(Abstract!vars)
<1> USE DEF Abstract!vars
<1> DEFINE granted == { a.phase : a \in approvals }
<1>0. TypeOK /\ c \in Callers /\ StillTrue(c) /\ Witnessed(c)
  BY DEF SerialInv, Inv
<1>1. ASSUME UNCHANGED << phase, approvals >>
      PROVE  [Abstract!Next]_(Abstract!vars)
  BY <1>1
<1>2. ASSUME NEW p \in Requests, NEW who \in Approver, GrantApproval(p, who)
      PROVE  [Abstract!Next]_(Abstract!vars)
  <2> DEFINE g == [ phase |-> p, approver |-> who, at |-> Len(hist), live |-> TRUE ]
  <2>1. approvals' = approvals \cup {g} /\ phase' = phase
    BY <1>2 DEF GrantApproval, AddApproval
  <2>2. g.phase = p
    OBVIOUS
  <2> HIDE DEF g
  <2>3. { a.phase : a \in approvals' } = granted \cup {p}
    BY <2>1, <2>2
  <2>4. p \in Phase
    BY ManifestAssumption
  <2> QED
    BY <2>1, <2>3, <2>4 DEF Abstract!Next, Abstract!Grant
<1>3. ASSUME NEW a \in approvals, ExpireApproval(a)
      PROVE  [Abstract!Next]_(Abstract!vars)
  <2> DEFINE e == [ a EXCEPT !.live = FALSE ]
  <2>1. e.phase = a.phase
    BY <1>0 DEF TypeOK, Approval
  <2>2. approvals' = (approvals \ {a}) \cup {e} /\ phase' = phase
    BY <1>3 DEF ExpireApproval
  <2> HIDE DEF e
  <2>3. { b.phase : b \in approvals' } = granted
    BY <2>1, <2>2
  <2> QED
    BY <2>2, <2>3
<1>4. ASSUME Commit(c) PROVE [Abstract!Next]_(Abstract!vars)
  <2> DEFINE t == call[c].target
  <2>1. /\ phase' = t /\ approvals' = approvals /\ t \in Phase
        /\ call[c].pc \in { "commit", "rbcommit" }
    BY <1>0, <1>4 DEF Commit, TypeOK, Call
  <2>2. CASE call[c].pc = "commit"
    <3>1. t \in Abstract!Edge(NextOf[phase])
      BY <1>0, <2>2 DEF StillTrue, Valid, Elems, Abstract!Edge
    <3>2. t \in Gated => t \in granted
      BY <1>0, <2>2 DEF Witnessed
    <3> HIDE DEF t
    <3> QED
      BY <2>1, <3>1, <3>2 DEF Abstract!Next, Abstract!Advance
  <2>3. CASE call[c].pc = "rbcommit"
    <3>1. t \in Abstract!Edge(RollbackTo[phase])
      BY <1>0, <2>3 DEF StillTrue, Elems, Abstract!Edge
    <3> HIDE DEF t
    <3> QED
      BY <2>1, <3>1 DEF Abstract!Next, Abstract!Rollback
  <2> QED
    BY <2>1, <2>2, <2>3
<1> QED
  BY <1>1, <1>2, <1>3, <1>4
     DEF Next, EngineStep, EngineStatement, StartExecute, StartRollback, Validate, GateCheck,
         Reread, Snap, RollbackCheck, Abort, Return, vars

\* transition.sh run by one shell at a time implements the promise made in the
\* header of phases.yaml, on any manifest: moves follow its edges and a gated
\* phase is entered only with an approval on record.
THEOREM Refinement ==
    ASSUME NEW c, Callers = {c}
    PROVE  Spec => ImplementsLifecycle
<1>1. SerialInv /\ [Next]_vars => SerialInv'
  BY StepSerial
<1>2. SerialInv /\ [Next]_vars => [Abstract!Next]_(Abstract!vars)
  BY StepRefines
<1> QED
  BY <1>1, <1>2, InitSerial, InitRefines, PTL
     DEF Spec, ImplementsLifecycle, Abstract!Spec
=============================================================================
