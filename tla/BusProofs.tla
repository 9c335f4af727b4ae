----------------------------- MODULE BusProofs -----------------------------
(***************************************************************************)
(* Proofs about the buses: the two that directives wait on (WorkBus), for  *)
(* every number of directives, rows of the queue and drains and any limit, *)
(* and the outbox files (OutboxWatcher), for any lines of any daemons.     *)
(*   BusTypes, OutboxTypes   the type invariants                           *)
(*   BusSettled     what is done or failed stays so while no role outlives *)
(*                  _STALE_RUNNING_SECS                                    *)
(*   BusRepeats     the bound on the calls of the tool for one queued row  *)
(*   OutboxApplied  what the cursor has passed is in the tables            *)
(*   OutboxReplay   at the end of the files the tables say what they say   *)
(*                                                                         *)
(* FileInv says who may write the status of a directive: a role that runs  *)
(* or the worker, and never both unless a role is slow.  RepeatInv counts  *)
(* calls in two ways.  While a row waits, every call for it belongs to a   *)
(* reader that is about to mark it or to a mark that was lost; once it is  *)
(* marked no reader gets it any more, and each that had it calls once.     *)
(* Between the transaction of a line and the rename of the cursor file the *)
(* watcher is ahead of its cursor, and may die there: DrainSane says of    *)
(* the lines it has gone over what AtLeastOnce says of the passed ones.    *)
(* A replay takes the row of spine_instance back to an earlier status, but *)
(* to one that the file said after some line not yet read again: ReplayInv *)
(* says that there is such a line, and that nothing else is taken back.    *)
(***************************************************************************)
EXTENDS WorkBus, OutboxWatcher, FiniteSetTheorems, WellFoundedInduction, TLAPS

-----------------------------------------------------------------------------
(* The invariant of the work buses                                         *)

\* The worker reads a directive's status, and writes it in later steps.
Claims(d) == worker.dir = d /\ worker.pc \in { "claim", "call", "finish" }

FileSane(d) ==
    /\ file[d].status \in { "none", "pending" } => file[d].run = "none"
    /\ file[d].run = "report" => Settled(d)
    /\ file[d].run = "live" => file[d].status = "running" /\ ~file[d].old
    /\ d \in worker.files \/ Claims(d) =>
          file[d].status \in { "pending", "running" } /\ file[d].run = "none"
    /\ ~(d \in worker.files /\ Claims(d))

FileInv == ~slow => \A d \in Directive : FileSane(d)

\* Whoever is at a row holds one.
Holding ==
    /\ \A p \in Drainer : drainer[p].pc # "idle" => drainer[p].rows # {}
    /\ worker.pc \in { "dbcall", "mark" } => worker.rows # {}

\* A reader at r has called the tool for q and not marked q ...
Called(r, q) == r.pc \in { "route", "mark" } /\ First(r.rows) = q

\* ... or holds q and has not called.
ToCall(r, q) == q \in r.rows /\ ~Called(r, q)

CalledSet(q)  == { p \in Drainer : Called(drainer[p], q) }
ToCallSet(q) == { p \in Drainer : ToCall(drainer[p], q) }

One(b) == IF b THEN 1 ELSE 0

Repeats(q) ==
    IF row[q] = "dispatched"
      THEN sent[q] + Cardinality(ToCallSet(q)) + One(ToCall(worker, q))
             <= unmarked + Cardinality(Drainer) + 1
      ELSE sent[q] <= unmarked + Cardinality(CalledSet(q)) + One(Called(worker, q))

RepeatInv == \A q \in Queued : Repeats(q)

BusInv == BusTypeOK /\ FileInv /\ Holding /\ RepeatInv

-----------------------------------------------------------------------------
(* The order of the rows, and counting                                     *)

\* There is a first among the rows a SELECT returned.
LEMMA FirstIn ==
    ASSUME NEW rows \in SUBSET Queued, rows # {}
    PROVE  First(rows) \in rows /\ Rest(rows) \in SUBSET Queued
<1>1. rows \subseteq Nat
  BY WorkBusAssumption DEF Queued
<1> DEFINE R == OpToRel(<, Nat)
<1>2. IsWellFoundedOn(R, Nat)
  BY NatLessThanWellFounded
<1>3. \A x, y \in Nat : x < y => << x, y >> \in R
  BY DEF OpToRel
<1> HIDE DEF R
<1>4. PICK q \in rows : \A r \in rows : ~(<< r, q >> \in R)
  BY <1>1, <1>2, WFMin
<1>5. ASSUME NEW r \in rows
      PROVE  q <= r
  <2>1. ~(r < q)
    BY <1>1, <1>3, <1>4
  <2> QED
    BY <1>1, <2>1
<1> QED
  BY <1>5 DEF First, Rest

\* The readers that have called for a row, and those that may, are finite and
\* different ones.
LEMMA Counted ==
    ASSUME NEW q \in Queued
    PROVE  /\ IsFiniteSet(CalledSet(q)) /\ IsFiniteSet(ToCallSet(q))
           /\ Cardinality(Drainer) \in Nat
           /\ Cardinality(CalledSet(q)) \in Nat
           /\ Cardinality(ToCallSet(q)) \in Nat
           /\ Cardinality(CalledSet(q)) + Cardinality(ToCallSet(q))
                 <= Cardinality(Drainer)
           /\ { One(Called(worker, q)), One(ToCall(worker, q)) } \subseteq 0..1
           /\ One(Called(worker, q)) + One(ToCall(worker, q)) <= 1
<1> DEFINE S == CalledSet(q)  T == ToCallSet(q)
<1>1. S \in SUBSET Drainer /\ T \in SUBSET Drainer /\ S \cap T = {}
  BY DEF CalledSet, ToCallSet, ToCall
<1>2. { One(Called(worker, q)), One(ToCall(worker, q)) } \subseteq 0..1
         /\ One(Called(worker, q)) + One(ToCall(worker, q)) <= 1
  BY DEF One, ToCall
<1> HIDE DEF S, T
<1>3. IsFiniteSet(Drainer) /\ IsFiniteSet(S) /\ IsFiniteSet(T)
  BY <1>1, WorkBusAssumption, FS_Subset
<1>4. Cardinality(S \cup T) <= Cardinality(Drainer)
  <2>1. S \cup T \in SUBSET Drainer
    BY <1>1
  <2> QED
    BY <2>1, <1>3, FS_Subset
<1>5. Cardinality(S \cup T) = Cardinality(S) + Cardinality(T)
  <2>1. Cardinality(S \cup T) = Cardinality(S) + Cardinality(T) - Cardinality({})
    BY <1>1, <1>3, FS_Union
  <2> QED
    BY <2>1, <1>3, FS_EmptySet, FS_CardinalityType
<1>6. Cardinality(Drainer) \in Nat /\ Cardinality(S) \in Nat /\ Cardinality(T) \in Nat
  BY <1>3, FS_CardinalityType
<1> QED
  BY <1>2, <1>3, <1>4, <1>5, <1>6 DEF S, T

\* Taking out or putting in one reader.
LEMMA Recount ==
    ASSUME NEW S, NEW p, IsFiniteSet(S)
    PROVE  /\ Cardinality(S) \in Nat
           /\ Cardinality(S \ {p}) \in Nat /\ Cardinality(S \cup {p}) \in Nat
           /\ Cardinality(S \ {p}) = Cardinality(S) - One(p \in S)
           /\ Cardinality(S \cup {p}) = Cardinality(S) + One(p \notin S)
<1>1. /\ IsFiniteSet(S \ {p})
      /\ Cardinality(S \ {p}) =
            IF p \in S THEN Cardinality(S) - 1 ELSE Cardinality(S)
  BY FS_RemoveElement
<1>2. /\ IsFiniteSet(S \cup {p})
      /\ Cardinality(S \cup {p}) =
            IF p \in S THEN Cardinality(S) ELSE Cardinality(S) + 1
  BY FS_AddElement
<1>3. Cardinality(S) \in Nat /\ Cardinality(S \ {p}) \in Nat
         /\ Cardinality(S \cup {p}) \in Nat
  BY <1>1, <1>2, FS_CardinalityType
<1>4. CASE p \in S
  BY <1>1, <1>2, <1>3, <1>4 DEF One
<1>5. CASE p \notin S
  BY <1>1, <1>2, <1>3, <1>5 DEF One
<1> QED
  BY <1>4, <1>5

-----------------------------------------------------------------------------
(* The work buses: types                                                   *)

LEMMA OneMore ==
    ASSUME NEW f \in [ Queued -> Nat ], NEW q
    PROVE  [ f EXCEPT ![q] = @ + 1 ] \in [ Queued -> Nat ]
<1>1. CASE q \in Queued
  BY <1>1
<1>2. CASE q \notin Queued
  <2>1. [ f EXCEPT ![q] = @ + 1 ] = f
    BY <1>2
  <2> QED
    BY <2>1
<1> QED
  BY <1>1, <1>2

LEMMA IdleWorkerType == IdleWorker \in WorkerRec
  BY WorkBusAssumption DEF IdleWorker, WorkerRec

LEMMA TypeInit == BusInit => BusTypeOK
<1> SUFFICES ASSUME BusInit PROVE BusTypeOK
  OBVIOUS
<1>1. { halted, slow } \subseteq BOOLEAN
  BY Zenon DEF BusInit
<1> QED
  BY IdleWorkerType, <1>1, WorkBusAssumption
     DEF BusInit, BusTypeOK, NoFile, FileRec, IdleDrain, DrainRec, Queued

\* The next row, or the end of them.
LEMMA SkipType ==
    ASSUME BusTypeOK, NEW p \in Drainer, Skip(p)
    PROVE  /\ drainer' \in [ Drainer -> DrainRec ]
           /\ drainer'[p].pc \in { "idle", "row" }
           /\ drainer'[p].rows = Rest(drainer[p].rows)
           /\ drainer'[p].pc # "idle" => drainer'[p].rows # {}
           /\ drainer' = [ drainer EXCEPT ![p] = drainer'[p] ]
<1> DEFINE r == drainer[p]
           s == [ pc |-> "row", rows |-> Rest(r.rows), room |-> 0 ]
           t == IF Rest(r.rows) = {} THEN IdleDrain ELSE s
<1>1. r \in DrainRec /\ Rest(r.rows) \subseteq Queued
  BY DEF BusTypeOK, DrainRec, Rest
<1>2. s \in DrainRec /\ s.pc = "row" /\ s.rows = Rest(r.rows)
  BY <1>1 DEF DrainRec
<1>3. IdleDrain \in DrainRec /\ IdleDrain.pc = "idle" /\ IdleDrain.rows = {}
  BY DEF IdleDrain, DrainRec
<1>4. drainer' = [ drainer EXCEPT ![p] = t ]
  BY DEF Skip
<1>5. /\ t \in DrainRec /\ t.pc \in { "idle", "row" } /\ t.rows = Rest(r.rows)
      /\ t.pc # "idle" => t.rows # {}
  BY <1>2, <1>3
<1> HIDE DEF t
<1> QED
  BY <1>4, <1>5 DEF BusTypeOK

LEMMA TypeStep ==
    ASSUME BusTypeOK, [BusNext]_busVars
    PROVE  BusTypeOK'
<1> USE DEF BusTypeOK
<1> DEFINE Flags == { halted, slow }' \subseteq BOOLEAN
<1>1. ASSUME NEW d \in Directive, EnqueueDirective(d) PROVE BusTypeOK'
  <2>1. Flags
    BY Zenon, <1>1 DEF EnqueueDirective, fileVars, queueVars
  <2> QED
    BY <1>1, <2>1, WorkBusAssumption DEF EnqueueDirective, FileRec, WorkerRec, fileVars, queueVars, Spend, Spare
<1>2. ASSUME NEW d \in Directive, BeginDirective(d) PROVE BusTypeOK'
  <2>1. Flags
    BY Zenon, <1>2 DEF BeginDirective, fileVars, queueVars
  <2> QED
    BY <1>2, <2>1, WorkBusAssumption, ZenonT(30) DEF BeginDirective, FileRec, WorkerRec, fileVars, queueVars, Spend, Spare
<1>3. ASSUME NEW d \in Directive, CompleteStatus(d) PROVE BusTypeOK'
  <2>1. Flags
    BY Zenon, <1>3 DEF CompleteStatus, fileVars, queueVars
  <2> QED
    BY <1>3, <2>1, WorkBusAssumption DEF CompleteStatus, FileRec, WorkerRec, fileVars, queueVars, Spend, Spare
<1>4. ASSUME NEW d \in Directive, CompleteReport(d) PROVE BusTypeOK'
  <2>1. Flags
    BY Zenon, <1>4 DEF CompleteReport, fileVars, queueVars
  <2> QED
    BY <1>4, <2>1, WorkBusAssumption DEF CompleteReport, FileRec, WorkerRec, fileVars, queueVars, Spend, Spare
<1>5. ASSUME NEW d \in Directive, Grows(d) PROVE BusTypeOK'
  <2>1. Flags
    BY Zenon, <1>5 DEF Grows, fileVars, queueVars
  <2> QED
    BY <1>5, <2>1, WorkBusAssumption DEF Grows, FileRec, WorkerRec, fileVars, queueVars, Spend, Spare
<1>6. ASSUME ScanFiles PROVE BusTypeOK'
  <2>1. Flags
    BY Zenon, <1>6 DEF ScanFiles, fileVars, queueVars
  <2> QED
    BY <1>6, <2>1, WorkBusAssumption DEF ScanFiles, FileRec, WorkerRec, fileVars, queueVars, Spend, Spare
<1>7. ASSUME ScanDb PROVE BusTypeOK'
  <2>1. Flags
    BY Zenon, <1>7 DEF ScanDb, fileVars, queueVars
  <2> QED
    BY <1>7, <2>1, WorkBusAssumption DEF ScanDb, FileRec, WorkerRec, fileVars, queueVars, Spend, Spare, Waiting
<1>8. ASSUME NextFileItem PROVE BusTypeOK'
  <2>1. Flags
    BY Zenon, <1>8 DEF NextFileItem, fileVars, queueVars
  <2>2. worker' \in WorkerRec
    <3>1. PICK d \in worker.files :
             worker' = [ worker EXCEPT !.files = @ \ {d}, !.dir = d,
                           !.pc = IF file[d].status \in { "pending", "running" }
                                    THEN "claim" ELSE "next" ]
      BY <1>8 DEF NextFileItem
    <3>2. PICK pc \in { "claim", "next" } :
             worker' = [ worker EXCEPT !.files = @ \ {d}, !.dir = d, !.pc = pc ]
      BY <3>1
    <3> QED
      BY <3>2 DEF WorkerRec
  <2> QED
    BY <1>8, <2>1, <2>2 DEF NextFileItem, fileVars, queueVars
<1>9. ASSUME ClaimDirective PROVE BusTypeOK'
  <2>1. Flags
    BY Zenon, <1>9 DEF ClaimDirective, fileVars, queueVars
  <2> QED
    BY <1>9, <2>1, WorkBusAssumption, SMTT(30) DEF ClaimDirective, FileRec, WorkerRec, fileVars, queueVars, Spend, Spare
<1>10. ASSUME CallTool PROVE BusTypeOK'
  <2>1. Flags
    BY Zenon, <1>10 DEF CallTool, fileVars, queueVars
  <2> QED
    BY <1>10, <2>1, WorkBusAssumption DEF CallTool, FileRec, WorkerRec, fileVars, queueVars, Spend, Spare
<1>11. ASSUME FinishStatus PROVE BusTypeOK'
  <2>1. Flags
    BY Zenon, <1>11 DEF FinishStatus, fileVars, queueVars
  <2> QED
    BY <1>11, <2>1, WorkBusAssumption DEF FinishStatus, FileRec, WorkerRec, fileVars, queueVars, Spend, Spare
<1>12. ASSUME FinishReport PROVE BusTypeOK'
  <2>1. Flags
    BY Zenon, <1>12 DEF FinishReport, fileVars, queueVars
  <2> QED
    BY <1>12, <2>1, WorkBusAssumption DEF FinishReport, FileRec, WorkerRec, fileVars, queueVars, Spend, Spare
<1>13. ASSUME CheckRow PROVE BusTypeOK'
  <2>1. Flags
    BY Zenon, <1>13 DEF CheckRow, fileVars, queueVars
  <2> QED
    BY <1>13, <2>1, WorkBusAssumption DEF CheckRow, FileRec, WorkerRec, fileVars, queueVars, Spend, Spare, Rest, MarkDispatched
<1>14. ASSUME SendRow PROVE BusTypeOK'
  <2>1. Flags
    BY Zenon, <1>14 DEF SendRow, fileVars, queueVars
  <2>2. worker' \in WorkerRec
    BY <1>14 DEF SendRow, WorkerRec
  <2>3. sent' \in [ Queued -> Nat ]
    BY <1>14, OneMore DEF SendRow
  <2> QED
    BY <1>14, <2>1, <2>2, <2>3 DEF SendRow, fileVars
<1>15. ASSUME MarkRow PROVE BusTypeOK'
  <2>1. Flags
    BY Zenon, <1>15 DEF MarkRow, fileVars, queueVars
  <2> QED
    BY <1>15, <2>1, WorkBusAssumption DEF MarkRow, FileRec, WorkerRec, fileVars, queueVars, Spend, Spare, Rest, MarkDispatched
<1>16. ASSUME EndOfTick PROVE BusTypeOK'
  <2>1. Flags
    BY Zenon, <1>16 DEF EndOfTick, fileVars, queueVars
  <2> QED
    BY IdleWorkerType, <1>16, <2>1, WorkBusAssumption DEF EndOfTick, FileRec, WorkerRec, fileVars, queueVars, Spend, Spare
<1>17. ASSUME SendRowFails PROVE BusTypeOK'
  <2>1. Flags
    BY Zenon, <1>17 DEF SendRowFails, fileVars, queueVars
  <2>2. worker' \in WorkerRec
    BY <1>17 DEF SendRowFails, WorkerRec, Rest
  <2>3. { inFlight, limit, others, trouble, unmarked }' \subseteq Nat
    BY <1>17 DEF SendRowFails, Spend, queueVars
  <2> QED
    BY <1>17, <2>1, <2>2, <2>3 DEF SendRowFails, fileVars, queueVars
<1>18. ASSUME MarkRowFails PROVE BusTypeOK'
  <2>1. Flags
    BY Zenon, <1>18 DEF MarkRowFails, fileVars, queueVars
  <2>2. worker' \in WorkerRec
    BY <1>18 DEF MarkRowFails, WorkerRec, Rest
  <2>3. { inFlight, limit, others, trouble, unmarked }' \subseteq Nat
    BY <1>18 DEF MarkRowFails, Spend
  <2> QED
    BY <1>18, <2>1, <2>2, <2>3 DEF MarkRowFails, fileVars
<1>19. ASSUME HubDies PROVE BusTypeOK'
  <2>1. Flags
    BY Zenon, <1>19 DEF HubDies, fileVars, queueVars
  <2>2. worker' \in WorkerRec
    BY IdleWorkerType, <1>19 DEF HubDies
  <2>3. file' \in [ Directive -> FileRec ]
    BY <1>19 DEF HubDies, FileRec
  <2>4. { inFlight, limit, others, trouble, unmarked }' \subseteq Nat
    BY <1>19 DEF HubDies, Spend, queueVars
  <2> QED
    BY <1>19, <2>1, <2>2, <2>3, <2>4 DEF HubDies, queueVars
<1>20. ASSUME NEW p \in Drainer, DrainSelect(p) PROVE BusTypeOK'
  <2>1. Flags
    BY Zenon, <1>20 DEF DrainSelect, fileVars, queueVars
  <2> QED
    BY <1>20, <2>1, WorkBusAssumption DEF DrainSelect, DrainRec, IdleDrain, MarkDispatched, Waiting, fileVars, queueVars, Spend, Spare
<1>21. ASSUME NEW p \in Drainer, DrainLimit(p) PROVE BusTypeOK'
  <2>1. Flags
    BY Zenon, <1>21 DEF DrainLimit, fileVars, queueVars
  <2> QED
    BY SkipType, <1>21, <2>1, WorkBusAssumption DEF DrainLimit, DrainRec, IdleDrain, MarkDispatched, Waiting, fileVars, queueVars, Spend, Spare
<1>22. ASSUME NEW p \in Drainer, DrainRoom(p) PROVE BusTypeOK'
  <2>1. Flags
    BY Zenon, <1>22 DEF DrainRoom, fileVars, queueVars
  <2> QED
    BY SkipType, <1>22, <2>1, WorkBusAssumption DEF DrainRoom, DrainRec, IdleDrain, MarkDispatched, Waiting, fileVars, queueVars, Spend, Spare
<1>23. ASSUME NEW p \in Drainer, DrainSend(p) PROVE BusTypeOK'
  <2>1. Flags
    BY Zenon, <1>23 DEF DrainSend, fileVars, queueVars
  <2>2. drainer' \in [ Drainer -> DrainRec ]
    BY <1>23 DEF DrainSend, DrainRec
  <2>3. sent' \in [ Queued -> Nat ]
    BY <1>23, OneMore DEF DrainSend
  <2> QED
    BY <1>23, <2>1, <2>2, <2>3 DEF DrainSend, fileVars
<1>24. ASSUME NEW p \in Drainer, DrainRoute(p) PROVE BusTypeOK'
  <2>1. Flags
    BY Zenon, <1>24 DEF DrainRoute, fileVars, queueVars
  <2> QED
    BY <1>24, <2>1, WorkBusAssumption DEF DrainRoute, DrainRec, IdleDrain, MarkDispatched, Waiting, fileVars, queueVars, Spend, Spare
<1>25. ASSUME NEW p \in Drainer, DrainMark(p) PROVE BusTypeOK'
  <2>1. Flags
    BY Zenon, <1>25 DEF DrainMark, fileVars, queueVars
  <2> QED
    BY SkipType, <1>25, <2>1, WorkBusAssumption DEF DrainMark, DrainRec, IdleDrain, MarkDispatched, Waiting, fileVars, queueVars, Spend, Spare
<1>26. ASSUME NEW p \in Drainer, DrainSendFails(p) PROVE BusTypeOK'
  <2>1. Flags
    BY Zenon, <1>26 DEF DrainSendFails, fileVars, queueVars
  <2> QED
    BY SkipType, <1>26, <2>1, WorkBusAssumption DEF DrainSendFails, DrainRec, IdleDrain, MarkDispatched, Waiting, fileVars, queueVars, Spend, Spare
<1>27. ASSUME NEW p \in Drainer, DrainUnmarked(p) PROVE BusTypeOK'
  <2>1. Flags
    BY Zenon, <1>27 DEF DrainUnmarked, fileVars, queueVars
  <2> QED
    BY SkipType, <1>27, <2>1, WorkBusAssumption DEF DrainUnmarked, DrainRec, IdleDrain, MarkDispatched, Waiting, fileVars, queueVars, Spend, Spare
<1>28. ASSUME NEW p \in Drainer, DrainDies(p) PROVE BusTypeOK'
  <2>1. Flags
    BY Zenon, <1>28 DEF DrainDies, fileVars, queueVars
  <2> QED
    BY <1>28, <2>1, WorkBusAssumption DEF DrainDies, DrainRec, IdleDrain, MarkDispatched, Waiting, fileVars, queueVars, Spend, Spare
<1>29. ASSUME QueueDirective PROVE BusTypeOK'
  <2>1. Flags
    BY Zenon, <1>29 DEF QueueDirective, fileVars, queueVars
  <2> QED
    BY <1>29, <2>1, WorkBusAssumption DEF QueueDirective, FileRec, WorkerRec, fileVars, queueVars, Spend, Spare
<1>30. ASSUME SetLimit PROVE BusTypeOK'
  <2>1. Flags
    BY Zenon, <1>30 DEF SetLimit, fileVars, queueVars
  <2> QED
    BY <1>30, <2>1, WorkBusAssumption DEF SetLimit, FileRec, WorkerRec, fileVars, queueVars, Spend, Spare
<1>31. ASSUME Halt PROVE BusTypeOK'
  <2>1. Flags
    BY Zenon, <1>31 DEF Halt, fileVars, queueVars
  <2> QED
    BY <1>31, <2>1, WorkBusAssumption DEF Halt, FileRec, WorkerRec, fileVars, queueVars, Spend, Spare
<1>32. ASSUME OtherDispatch PROVE BusTypeOK'
  <2>1. Flags
    BY Zenon, <1>32 DEF OtherDispatch, fileVars, queueVars
  <2> QED
    BY <1>32, <2>1, WorkBusAssumption DEF OtherDispatch, FileRec, WorkerRec, fileVars, queueVars, Spend, Spare
<1>33. ASSUME Reply PROVE BusTypeOK'
  <2>1. Flags
    BY Zenon, <1>33 DEF Reply, fileVars, queueVars
  <2> QED
    BY <1>33, <2>1, WorkBusAssumption DEF Reply, FileRec, WorkerRec, fileVars, queueVars, Spend, Spare
<1>34. CASE UNCHANGED busVars
  BY <1>34 DEF busVars
<1> QED
  BY <1>1, <1>2, <1>3, <1>4, <1>5, <1>6, <1>7, <1>8, <1>9, <1>10, <1>11, <1>12, <1>13, <1>14, <1>15, <1>16, <1>17, <1>18, <1>19, <1>20, <1>21, <1>22, <1>23, <1>24, <1>25, <1>26, <1>27, <1>28, <1>29, <1>30, <1>31, <1>32, <1>33, <1>34 DEF BusNext, BusWorkerStep, DrainStep, RoleRun

-----------------------------------------------------------------------------
(* Steps by who takes them                                                 *)

\* A role run writes one directive, and so does the passing of time.
RoleStep(d) == EnqueueDirective(d) \/ BeginDirective(d) \/ RoleRun(d) \/ Grows(d)

WorkerStep == BusWorkerStep \/ SendRowFails \/ MarkRowFails \/ HubDies

DrainerStep(p) ==
    DrainStep(p) \/ DrainSendFails(p) \/ DrainUnmarked(p) \/ DrainDies(p)

ProjectStep == QueueDirective \/ SetLimit \/ Halt \/ OtherDispatch \/ Reply

LEMMA ByWhom ==
    BusNext <=> \/ \E d \in Directive : RoleStep(d)
                \/ WorkerStep
                \/ \E p \in Drainer : DrainerStep(p)
                \/ ProjectStep
  BY Zenon DEF BusNext, RoleStep, WorkerStep, DrainerStep, ProjectStep

LEMMA RoleFrame ==
    ASSUME NEW d \in Directive, RoleStep(d)
    PROVE  UNCHANGED << worker, drainer, row, sent, unmarked >>
  BY DEF RoleStep, RoleRun, EnqueueDirective, BeginDirective, CompleteStatus, CompleteReport, Grows, queueVars

LEMMA WorkerFrame ==
    ASSUME WorkerStep
    PROVE  UNCHANGED << drainer, slow >>
  BY DEF WorkerStep, BusWorkerStep, ScanFiles, ScanDb, NextFileItem, ClaimDirective, CallTool, FinishStatus, FinishReport, CheckRow, SendRow, MarkRow, EndOfTick, SendRowFails, MarkRowFails, HubDies, fileVars

LEMMA DrainerFrame ==
    ASSUME NEW p \in Drainer, DrainerStep(p)
    PROVE  UNCHANGED << worker, file, slow >>
  BY DEF DrainerStep, DrainStep, DrainSelect, DrainLimit, DrainRoom, DrainSend, DrainRoute, DrainMark, DrainSendFails, DrainUnmarked, DrainDies, fileVars

LEMMA ProjectFrame ==
    ASSUME ProjectStep
    PROVE  UNCHANGED << worker, drainer, file, slow, sent, unmarked >>
  BY DEF ProjectStep, QueueDirective, SetLimit, Halt, OtherDispatch, Reply, fileVars

-----------------------------------------------------------------------------
(* Whoever is at a row holds one                                           *)

LEMMA HoldingInit == BusInit => Holding
  BY DEF BusInit, Holding, IdleDrain, IdleWorker

LEMMA DrainerHolds ==
    ASSUME BusTypeOK, Holding, NEW p \in Drainer, DrainerStep(p)
    PROVE  Holding'
<1> SUFFICES /\ drainer' = [ drainer EXCEPT ![p] = drainer'[p] ]
             /\ drainer'[p].pc # "idle" => drainer'[p].rows # {}
  BY DrainerFrame DEF Holding, BusTypeOK
<1> USE DEF BusTypeOK
<1>1. CASE DrainSelect(p)
  BY <1>1 DEF DrainSelect, Holding, IdleDrain, DrainRec
<1>2. CASE DrainLimit(p)
  BY <1>2, SkipType DEF DrainLimit, Holding, IdleDrain, DrainRec
<1>3. CASE DrainRoom(p)
  BY <1>3, SkipType DEF DrainRoom, Holding, IdleDrain, DrainRec
<1>4. CASE DrainSend(p)
  BY <1>4 DEF DrainSend, Holding, IdleDrain, DrainRec
<1>5. CASE DrainRoute(p)
  BY <1>5 DEF DrainRoute, Holding, IdleDrain, DrainRec
<1>6. CASE DrainMark(p)
  BY <1>6, SkipType DEF DrainMark, Holding, IdleDrain, DrainRec
<1>7. CASE DrainSendFails(p)
  BY <1>7, SkipType DEF DrainSendFails, Holding, IdleDrain, DrainRec
<1>8. CASE DrainUnmarked(p)
  BY <1>8, SkipType DEF DrainUnmarked, Holding, IdleDrain, DrainRec
<1>9. CASE DrainDies(p)
  BY <1>9 DEF DrainDies, Holding, IdleDrain, DrainRec
<1> QED
  BY <1>1, <1>2, <1>3, <1>4, <1>5, <1>6, <1>7, <1>8, <1>9 DEF DrainerStep, DrainStep

LEMMA WorkerHolds ==
    ASSUME BusTypeOK, Holding, WorkerStep
    PROVE  Holding'
<1> SUFFICES worker'.pc \in { "dbcall", "mark" } => worker'.rows # {}
  BY WorkerFrame DEF Holding
<1> USE DEF BusTypeOK, WorkerRec, Holding
<1>1. CASE ScanFiles
  BY <1>1 DEF ScanFiles
<1>2. CASE ScanDb
  BY <1>2 DEF ScanDb
<1>3. CASE NextFileItem
  BY <1>3 DEF NextFileItem
<1>4. CASE ClaimDirective
  BY <1>4 DEF ClaimDirective
<1>5. CASE CallTool
  BY <1>5 DEF CallTool
<1>6. CASE FinishStatus
  BY <1>6 DEF FinishStatus
<1>7. CASE FinishReport
  BY <1>7 DEF FinishReport
<1>8. CASE CheckRow
  BY <1>8 DEF CheckRow
<1>9. CASE SendRow
  BY <1>9 DEF SendRow
<1>10. CASE MarkRow
  BY <1>10 DEF MarkRow
<1>11. CASE EndOfTick
  BY <1>11 DEF EndOfTick, IdleWorker
<1>12. CASE SendRowFails
  BY <1>12 DEF SendRowFails
<1>13. CASE MarkRowFails
  BY <1>13 DEF MarkRowFails
<1>14. CASE HubDies
  BY <1>14 DEF HubDies, IdleWorker
<1> QED
  BY <1>1, <1>2, <1>3, <1>4, <1>5, <1>6, <1>7, <1>8, <1>9, <1>10, <1>11, <1>12, <1>13, <1>14 DEF WorkerStep, BusWorkerStep

LEMMA HoldingStep ==
    ASSUME BusTypeOK, Holding, [BusNext]_busVars
    PROVE  Holding'
<1>1. ASSUME NEW d \in Directive, RoleStep(d) PROVE Holding'
  BY <1>1, RoleFrame DEF Holding
<1>2. CASE ProjectStep
  BY <1>2, ProjectFrame DEF Holding
<1>3. CASE UNCHANGED busVars
  BY <1>3 DEF Holding, busVars
<1> QED
  BY <1>1, <1>2, <1>3, WorkerHolds, DrainerHolds, ByWhom

-----------------------------------------------------------------------------
(* Who may write a directive's status                                      *)

LEMMA FileInit == BusInit => FileInv
  BY DEF BusInit, FileInv, FileSane, NoFile, IdleWorker, Claims, Settled

LEMMA RoleKeepsFiles ==
    ASSUME BusTypeOK, FileInv, NEW d \in Directive, RoleStep(d)
    PROVE  FileInv'
<1> SUFFICES ASSUME ~slow', NEW e \in Directive
             PROVE  FileSane(e)'
  BY Zenon DEF FileInv
<1> USE RoleFrame DEF BusTypeOK, FileRec, WorkerRec, FileSane, Claims, Settled
<1>1. CASE EnqueueDirective(d)
  <2>1. ~slow
    BY Zenon, <1>1 DEF EnqueueDirective
  <2>2. FileSane(e) /\ FileSane(d)
    BY Zenon, <2>1 DEF FileInv
  <2> QED
    BY <1>1, <2>2 DEF EnqueueDirective
<1>2. CASE BeginDirective(d)
  <2>1. ~slow
    BY Zenon, <1>2 DEF BeginDirective
  <2>2. FileSane(e) /\ FileSane(d)
    BY Zenon, <2>1 DEF FileInv
  <2> QED
    BY <1>2, <2>2 DEF BeginDirective
<1>3. CASE CompleteStatus(d)
  <2>1. ~slow
    BY Zenon, <1>3 DEF CompleteStatus
  <2>2. FileSane(e) /\ FileSane(d)
    BY Zenon, <2>1 DEF FileInv
  <2> QED
    BY <1>3, <2>2 DEF CompleteStatus
<1>4. CASE CompleteReport(d)
  <2>1. ~slow
    BY Zenon, <1>4 DEF CompleteReport
  <2>2. FileSane(e) /\ FileSane(d)
    BY Zenon, <2>1 DEF FileInv
  <2> QED
    BY <1>4, <2>2 DEF CompleteReport
<1>5. CASE Grows(d)
  <2>1. ~slow
    BY Zenon, <1>5 DEF Grows
  <2>2. FileSane(e) /\ FileSane(d)
    BY Zenon, <2>1 DEF FileInv
  <2> QED
    BY <1>5, <2>2 DEF Grows
<1> QED
  BY <1>1, <1>2, <1>3, <1>4, <1>5 DEF RoleStep, RoleRun

LEMMA WorkerKeepsFiles ==
    ASSUME BusTypeOK, FileInv, WorkerStep
    PROVE  FileInv'
<1> SUFFICES ASSUME ~slow', NEW e \in Directive
             PROVE  FileSane(e)'
  BY Zenon DEF FileInv
<1>0. FileSane(e) /\ FileSane(worker.dir) /\ worker.dir \in Directive
  BY WorkerFrame DEF FileInv, BusTypeOK, WorkerRec
<1> USE <1>0 DEF BusTypeOK, FileRec, WorkerRec, FileSane, Claims, Settled
<1>1. CASE ScanFiles
  BY <1>1 DEF ScanFiles, fileVars, Stale
<1>2. CASE ScanDb
  BY <1>2 DEF ScanDb, fileVars
<1>3. CASE NextFileItem
  BY <1>3 DEF NextFileItem, fileVars
<1>4. CASE ClaimDirective
  BY <1>4 DEF ClaimDirective, fileVars
<1>5. CASE CallTool
  BY <1>5 DEF CallTool, fileVars
<1>6. CASE FinishStatus
  BY <1>6 DEF FinishStatus, fileVars
<1>7. CASE FinishReport
  BY <1>7 DEF FinishReport, fileVars
<1>8. CASE CheckRow
  BY <1>8 DEF CheckRow, fileVars
<1>9. CASE SendRow
  BY <1>9 DEF SendRow, fileVars
<1>10. CASE MarkRow
  BY <1>10 DEF MarkRow, fileVars
<1>11. CASE EndOfTick
  BY <1>11 DEF EndOfTick, fileVars, IdleWorker
<1>12. CASE SendRowFails
  BY <1>12 DEF SendRowFails, fileVars
<1>13. CASE MarkRowFails
  BY <1>13 DEF MarkRowFails, fileVars
<1>14. CASE HubDies
  BY <1>14 DEF HubDies, fileVars, IdleWorker
<1> QED
  BY <1>1, <1>2, <1>3, <1>4, <1>5, <1>6, <1>7, <1>8, <1>9, <1>10, <1>11, <1>12, <1>13, <1>14 DEF WorkerStep, BusWorkerStep

LEMMA FileStep ==
    ASSUME BusTypeOK, FileInv, [BusNext]_busVars
    PROVE  FileInv'
<1>1. ASSUME NEW p \in Drainer, DrainerStep(p) PROVE FileInv'
  BY <1>1, DrainerFrame DEF FileInv, FileSane, Claims, Settled
<1>2. CASE ProjectStep
  BY <1>2, ProjectFrame DEF FileInv, FileSane, Claims, Settled
<1>3. CASE UNCHANGED busVars
  BY <1>3 DEF busVars, FileInv, FileSane, Claims, Settled
<1> QED
  BY <1>1, <1>2, <1>3, RoleKeepsFiles, WorkerKeepsFiles, ByWhom

\* The worker's claim and its last write meet a directive that is not settled,
\* and so does the end of a role run.
LEMMA SettledStep ==
    ASSUME BusTypeOK, FileInv, [BusNext]_busVars,
           NEW d \in Directive, Settled(d), ~slow'
    PROVE  file'[d].status = file[d].status
<1> USE DEF BusTypeOK, FileRec, WorkerRec
<1>1. ASSUME NEW e \in Directive, RoleStep(e)
      PROVE  file'[d].status = file[d].status
  <2>1. ~slow
    BY Zenon, <1>1 DEF RoleStep, RoleRun, EnqueueDirective, BeginDirective,
       CompleteStatus, CompleteReport, Grows
  <2>2. FileSane(e)
    BY Zenon, <2>1 DEF FileInv
  <2> QED
    BY <1>1, <2>2 DEF RoleStep, RoleRun, EnqueueDirective, BeginDirective,
       CompleteStatus, CompleteReport, Grows, FileSane, Settled
<1>2. CASE WorkerStep
  <2>1. FileSane(worker.dir) /\ worker.dir \in Directive
    BY <1>2, WorkerFrame DEF FileInv
  <2>2. CASE ClaimDirective
    BY <2>1, <2>2 DEF ClaimDirective, FileSane, Claims, Settled
  <2>3. CASE FinishStatus
    BY <2>1, <2>3 DEF FinishStatus, FileSane, Claims, Settled
  <2>4. CASE FinishReport
    BY <2>4 DEF FinishReport
  <2>5. CASE HubDies
    BY <2>5 DEF HubDies
  <2>6. CASE file' = file
    BY <2>6
  <2> QED
    BY <1>2, <2>2, <2>3, <2>4, <2>5, <2>6
       DEF WorkerStep, BusWorkerStep, ScanFiles, ScanDb, NextFileItem, CallTool,
           CheckRow, SendRow, MarkRow, EndOfTick, SendRowFails, MarkRowFails, fileVars
<1>3. ASSUME NEW p \in Drainer, DrainerStep(p)
      PROVE  file'[d].status = file[d].status
  BY <1>3, DrainerFrame
<1>4. CASE ProjectStep
  BY <1>4, ProjectFrame
<1>5. CASE UNCHANGED busVars
  BY <1>5 DEF busVars
<1> QED
  BY <1>1, <1>2, <1>3, <1>4, <1>5, ByWhom

-----------------------------------------------------------------------------
(* How often a row is dispatched                                           *)

LEMMA RepeatInit == BusInit => RepeatInv
<1> SUFFICES ASSUME BusInit, NEW q \in Queued PROVE Repeats(q)
  BY DEF RepeatInv
<1> QED
  BY Counted DEF BusInit, Repeats

LEMMA OneReaderOf ==
    ASSUME NEW S, NEW U, NEW p, IsFiniteSet(S), NEW new \in BOOLEAN,
           U = IF new THEN S \cup {p} ELSE S \ {p}
    PROVE  /\ Cardinality(U) \in Nat
           /\ Cardinality(U) = Cardinality(S) - One(p \in S) + One(new)
<1>1. CASE new
  <2>1. /\ Cardinality(S) \in Nat /\ Cardinality(U) \in Nat
        /\ Cardinality(U) = Cardinality(S) + One(p \notin S)
    BY <1>1, Recount
  <2> QED
    BY <1>1, <2>1 DEF One
<1>2. CASE ~new
  <2>1. /\ Cardinality(S) \in Nat /\ Cardinality(U) \in Nat
        /\ Cardinality(U) = Cardinality(S) - One(p \in S)
    BY <1>2, Recount
  <2> QED
    BY <1>2, <2>1 DEF One
<1> QED
  BY <1>1, <1>2

\* One reader goes on: the counts follow what it was and what it is.
LEMMA OneReader ==
    ASSUME BusTypeOK, NEW p \in Drainer, NEW q \in Queued,
           drainer' = [ drainer EXCEPT ![p] = drainer'[p] ]
    PROVE  /\ Cardinality(CalledSet(q))' \in Nat
           /\ Cardinality(ToCallSet(q))' \in Nat
           /\ Cardinality(CalledSet(q))' = Cardinality(CalledSet(q))
                 - One(Called(drainer[p], q)) + One(Called(drainer'[p], q))
           /\ Cardinality(ToCallSet(q))' = Cardinality(ToCallSet(q))
                 - One(ToCall(drainer[p], q)) + One(ToCall(drainer'[p], q))
<1> DEFINE S == CalledSet(q)  T == ToCallSet(q)
<1>1. IsFiniteSet(S) /\ IsFiniteSet(T)
  BY Counted
<1>2. /\ S' = IF Called(drainer'[p], q) THEN S \cup {p} ELSE S \ {p}
      /\ p \in S <=> Called(drainer[p], q)
  BY DEF CalledSet, BusTypeOK
<1>3. /\ T' = IF ToCall(drainer'[p], q) THEN T \cup {p} ELSE T \ {p}
      /\ p \in T <=> ToCall(drainer[p], q)
  BY DEF ToCallSet, BusTypeOK
<1>4. { Called(drainer'[p], q), ToCall(drainer'[p], q) } \subseteq BOOLEAN
  BY Zenon DEF Called, ToCall
<1>5. /\ One(p \in S) = One(Called(drainer[p], q))
      /\ One(p \in T) = One(ToCall(drainer[p], q))
  BY <1>2, <1>3 DEF One
<1> HIDE DEF S, T
<1>6. /\ Cardinality(S') \in Nat
      /\ Cardinality(S') = Cardinality(S) - One(p \in S) + One(Called(drainer'[p], q))
  BY <1>1, <1>2, <1>4, OneReaderOf
<1>7. /\ Cardinality(T') \in Nat
      /\ Cardinality(T') = Cardinality(T) - One(p \in T) + One(ToCall(drainer'[p], q))
  BY <1>1, <1>3, <1>4, OneReaderOf
<1> QED
  BY <1>5, <1>6, <1>7 DEF S, T

\* What a reader that goes to its next row has and is.
LEMMA Skipping ==
    ASSUME BusTypeOK, Holding, NEW p \in Drainer, drainer[p].pc # "idle", Skip(p),
           NEW q \in Queued
    PROVE  /\ ~Called(drainer'[p], q)
           /\ ToCall(drainer'[p], q) => ToCall(drainer[p], q)
           /\ drainer' = [ drainer EXCEPT ![p] = drainer'[p] ]
  BY SkipType DEF Called, ToCall, Rest

LEMMA DrainerRepeats ==
    ASSUME BusTypeOK, Holding, NEW p \in Drainer, DrainerStep(p),
           NEW q \in Queued, Repeats(q)
    PROVE  Repeats(q)'
<1> DEFINE S == Cardinality(CalledSet(q))
           T == Cardinality(ToCallSet(q))
           N == Cardinality(Drainer)
           c == One(Called(drainer[p], q))    c2 == One(Called(drainer'[p], q))
           w == One(ToCall(drainer[p], q))   w2 == One(ToCall(drainer'[p], q))
           k == One(Called(worker, q))        v  == One(ToCall(worker, q))
           r == drainer[p]
           Moved == drainer' = [ drainer EXCEPT ![p] = drainer'[p] ]
\* The bound, in numbers.
<1>1. /\ S \in Nat /\ T \in Nat /\ N \in Nat /\ S + T <= N
      /\ k \in 0..1 /\ v \in 0..1 /\ k + v <= 1 /\ k' = k /\ v' = v
  BY Counted, DrainerFrame
<1>2. c \in 0..1 /\ c2 \in 0..1 /\ w \in 0..1 /\ w2 \in 0..1
  BY DEF One
<1>3. Moved => S' \in Nat /\ T' \in Nat /\ S' = S - c + c2 /\ T' = T - w + w2
  BY OneReader
<1>4. sent[q] \in Nat /\ unmarked \in Nat
  BY DEF BusTypeOK
<1>5. IF row[q] = "dispatched" THEN sent[q] + T + v <= unmarked + N + 1
                              ELSE sent[q] <= unmarked + S + k
  BY DEF Repeats
<1>6. SUFFICES IF row'[q] = "dispatched" THEN sent'[q] + T' + v' <= unmarked' + N + 1
                                         ELSE sent'[q] <= unmarked' + S' + k'
  BY DEF Repeats
<1>7. r \in DrainRec
  BY DEF BusTypeOK
<1> HIDE DEF S, T, N, k, v
\* A step that neither calls nor marks, and gives up no call it made.
<1>8. ASSUME Moved, UNCHANGED << row, sent, unmarked >>, c = c2,
             w2 <= w \/ row[q] # "dispatched"
      PROVE  IF row'[q] = "dispatched" THEN sent'[q] + T' + v' <= unmarked' + N + 1
                                       ELSE sent'[q] <= unmarked' + S' + k'
  <2> HIDE DEF c, c2, w, w2
  <2> QED
    BY <1>1, <1>2, <1>3, <1>4, <1>5, <1>8
<1>9. CASE DrainSelect(p)
  <2>1. Moved /\ UNCHANGED << row, sent, unmarked >>
    BY <1>9 DEF DrainSelect, queueVars, BusTypeOK
  <2>2. drainer'[p].pc = "row" /\ drainer'[p].rows = Waiting
    BY <1>9 DEF DrainSelect, IdleDrain, BusTypeOK
  <2>3. c = 0 /\ c2 = 0 /\ (row[q] = "dispatched" => w2 = 0)
    BY <1>9, <2>2 DEF DrainSelect, Called, ToCall, Waiting, One
  <2> QED
    BY <1>2, <1>8, <2>1, <2>3
<1>10. ASSUME UNCHANGED << row, sent, unmarked >>, Skip(p),
              r.pc \in { "row", "room", "send" }
       PROVE  IF row'[q] = "dispatched" THEN sent'[q] + T' + v' <= unmarked' + N + 1
                                        ELSE sent'[q] <= unmarked' + S' + k'
  <2>1. Moved /\ c = 0 /\ c2 = 0 /\ w2 <= w
    BY <1>10, Skipping DEF Called, One
  <2> QED
    BY <1>8, <1>10, <2>1
<1>11. CASE DrainLimit(p)
  <2>1. UNCHANGED << row, sent, unmarked >> /\ r.pc = "row"
    BY <1>11 DEF DrainLimit, queueVars
  <2>2. CASE ~Skip(p)
    <3>1. Moved /\ drainer'[p].pc = "room" /\ drainer'[p].rows = r.rows
      BY <1>7, <1>11, <2>2 DEF DrainLimit, DrainRec, BusTypeOK
    <3>2. c = c2 /\ w2 = w
      BY <2>1, <3>1 DEF Called, ToCall, One
    <3> QED
      BY <1>2, <1>8, <2>1, <3>1, <3>2
  <2> QED
    BY <1>10, <2>1, <2>2
<1>12. CASE DrainRoom(p)
  <2>1. UNCHANGED << row, sent, unmarked >> /\ r.pc = "room"
    BY <1>12 DEF DrainRoom, queueVars
  <2>2. CASE ~Skip(p)
    <3>1. Moved /\ drainer'[p].pc = "send" /\ drainer'[p].rows = r.rows
      BY <1>7, <1>12, <2>2 DEF DrainRoom, DrainRec, BusTypeOK
    <3>2. c = c2 /\ w2 = w
      BY <2>1, <3>1 DEF Called, ToCall, One
    <3> QED
      BY <1>2, <1>8, <2>1, <3>1, <3>2
  <2> QED
    BY <1>10, <2>1, <2>2
<1>13. CASE DrainSendFails(p)
  BY <1>10, <1>13 DEF DrainSendFails, queueVars
<1>14. CASE DrainRoute(p)
  <2>1. UNCHANGED << row, sent, unmarked >> /\ r.pc = "route"
    BY <1>14 DEF DrainRoute
  <2>2. Moved /\ drainer'[p].pc = "mark" /\ drainer'[p].rows = r.rows
    BY <1>7, <1>14 DEF DrainRoute, DrainRec, BusTypeOK
  <2>3. c = c2 /\ w2 = w
    BY <2>1, <2>2 DEF Called, ToCall, One
  <2> QED
    BY <1>2, <1>8, <2>1, <2>2, <2>3
\* A call, by a reader that had not called for the row.
<1>15. CASE DrainSend(p)
  <2>1. UNCHANGED << row, unmarked >> /\ r.pc = "send"
    BY <1>15 DEF DrainSend
  <2>2. Moved /\ drainer'[p].pc = "route" /\ drainer'[p].rows = r.rows
    BY <1>7, <1>15 DEF DrainSend, DrainRec, BusTypeOK
  <2>3. First(r.rows) \in r.rows /\ First(r.rows) \in Queued
    BY <1>7, <2>1, FirstIn DEF Holding, DrainRec
  <2>4. CASE q = First(r.rows)
    <3>1. sent'[q] = sent[q] + 1
      BY <1>15, <2>4 DEF DrainSend, BusTypeOK
    <3>2. c = 0 /\ c2 = 1 /\ w = 1 /\ w2 = 0
      BY <2>1, <2>2, <2>3, <2>4 DEF Called, ToCall, One
    <3> HIDE DEF c, c2, w, w2
    <3> QED
      BY <1>1, <1>3, <1>4, <1>5, <2>1, <2>2, <3>1, <3>2
  <2>5. CASE q # First(r.rows)
    <3>1. sent'[q] = sent[q]
      BY <1>15, <2>5 DEF DrainSend, BusTypeOK
    <3>2. c = c2 /\ w2 = w
      BY <2>1, <2>2, <2>5 DEF Called, ToCall, One
    <3> HIDE DEF c, c2, w, w2
    <3> QED
      BY <1>1, <1>2, <1>3, <1>4, <1>5, <2>1, <2>2, <3>1, <3>2
  <2> QED
    BY <2>4, <2>5
\* A mark: from now on only those count that may still call.
<1>16. CASE DrainMark(p)
  <2>1. UNCHANGED << sent, unmarked >> /\ r.pc = "mark"
    BY <1>16 DEF DrainMark
  <2>2. Moved /\ c2 = 0 /\ w2 <= w
    BY <1>16, <2>1, Skipping DEF DrainMark, One
  <2>3. CASE q = First(r.rows)
    <3>1. row'[q] = "dispatched"
      BY <1>16, <2>3 DEF DrainMark, MarkDispatched, BusTypeOK
    <3>2. T' <= T /\ T' \in Nat
      <4> HIDE DEF c, c2, w, w2
      <4> QED
        BY <1>1, <1>2, <1>3, <2>2
    <3> HIDE DEF c, c2, w, w2
    <3> QED
      BY <1>1, <1>4, <1>5, <2>1, <3>1, <3>2
  <2>4. CASE q # First(r.rows)
    <3>1. row'[q] = row[q]
      BY <1>16, <2>4 DEF DrainMark, MarkDispatched, BusTypeOK
    <3>2. c = 0
      BY <2>4 DEF Called, One
    <3> HIDE DEF c, c2, w, w2
    <3> QED
      BY <1>1, <1>2, <1>3, <1>4, <1>5, <2>1, <2>2, <3>1, <3>2
  <2> QED
    BY <2>3, <2>4
\* A mark that is lost, by an error or a death.
<1>17. CASE DrainUnmarked(p)
  <2>1. UNCHANGED << row, sent >> /\ unmarked' = unmarked + 1 /\ r.pc # "idle" /\ Skip(p)
    BY <1>17 DEF DrainUnmarked
  <2>2. Moved /\ c2 = 0 /\ w2 <= w
    BY <2>1, Skipping DEF One
  <2> HIDE DEF c, c2, w, w2
  <2> QED
    BY <1>1, <1>2, <1>3, <1>4, <1>5, <2>1, <2>2
<1>18. CASE DrainDies(p)
  <2>1. UNCHANGED << row, sent >>
    BY <1>18 DEF DrainDies
  <2>2. Moved /\ c2 = 0 /\ w2 = 0
    BY <1>18 DEF DrainDies, IdleDrain, BusTypeOK, Called, ToCall, One
  <2>3. unmarked' \in Nat /\ unmarked' >= unmarked + c
    BY <1>4, <1>18 DEF DrainDies, Called, One
  <2> HIDE DEF c, c2, w, w2
  <2> QED
    BY <1>1, <1>2, <1>3, <1>4, <1>5, <2>1, <2>2, <2>3
<1> QED
  BY <1>9, <1>11, <1>12, <1>13, <1>14, <1>15, <1>16, <1>17, <1>18
     DEF DrainerStep, DrainStep

LEMMA WorkerRepeats ==
    ASSUME BusTypeOK, Holding, WorkerStep, NEW q \in Queued, Repeats(q)
    PROVE  Repeats(q)'
<1> DEFINE S == Cardinality(CalledSet(q))
           T == Cardinality(ToCallSet(q))
           N == Cardinality(Drainer)
           k == One(Called(worker, q))        v  == One(ToCall(worker, q))
           Kept == IF row'[q] = "dispatched"
                     THEN sent'[q] + T + v' <= unmarked' + N + 1
                     ELSE sent'[q] <= unmarked' + S + k'
<1>1. /\ S \in Nat /\ T \in Nat /\ N \in Nat /\ S + T <= N
      /\ k \in 0..1 /\ v \in 0..1 /\ k + v <= 1
  BY Counted
<1>2. k' \in 0..1 /\ v' \in 0..1 /\ S' = S /\ T' = T
  BY WorkerFrame DEF One, CalledSet, ToCallSet
<1>3. sent[q] \in Nat /\ unmarked \in Nat
  BY DEF BusTypeOK
<1>4. IF row[q] = "dispatched" THEN sent[q] + T + v <= unmarked + N + 1
                              ELSE sent[q] <= unmarked + S + k
  BY DEF Repeats
<1>5. SUFFICES Kept
  BY <1>2 DEF Repeats
<1>6. worker \in WorkerRec
  BY DEF BusTypeOK
<1> HIDE DEF S, T, N
<1>8. ASSUME UNCHANGED << row, sent, unmarked >>, k = k',
             v' <= v \/ row[q] # "dispatched"
      PROVE  Kept
  <2> HIDE DEF k, v
  <2> QED
    BY <1>1, <1>2, <1>3, <1>4, <1>8
\* Steps on the other bus.
<1>9. CASE \/ ScanFiles \/ NextFileItem \/ ClaimDirective \/ CallTool \/ FinishStatus
           \/ FinishReport
  <2>1. UNCHANGED << row, sent, unmarked >>
    BY <1>9 DEF ScanFiles, NextFileItem, ClaimDirective, CallTool, FinishStatus,
                FinishReport, queueVars
  <2>2. worker.pc # "mark" /\ worker'.pc # "mark" /\ worker'.rows = worker.rows
    BY <1>6, <1>9 DEF ScanFiles, NextFileItem, ClaimDirective, CallTool, FinishStatus,
                FinishReport, WorkerRec
  <2>3. worker.pc # "route" /\ worker'.pc # "route"
    BY <1>6, <1>9 DEF ScanFiles, NextFileItem, ClaimDirective, CallTool, FinishStatus,
                FinishReport, WorkerRec
  <2>4. k = k' /\ v' <= v
    BY <2>2, <2>3 DEF Called, ToCall, One
  <2> QED
    BY <1>8, <2>1, <2>4
<1>10. CASE ScanDb
  <2>1. UNCHANGED << row, sent, unmarked >>
    BY <1>10 DEF ScanDb, queueVars
  <2>2. worker.pc = "scanned" /\ worker'.pc = "next" /\ worker'.rows = Waiting
    BY <1>6, <1>10 DEF ScanDb, WorkerRec
  <2>3. k = k' /\ (row[q] = "dispatched" => v' = 0)
    BY <2>2 DEF Called, ToCall, One, Waiting
  <2> QED
    BY <1>1, <1>8, <2>1, <2>3
<1>11. CASE CheckRow
  <2>1. UNCHANGED << row, sent, unmarked >>
    BY <1>11 DEF CheckRow, queueVars
  <2>2. worker.pc = "next" /\ worker'.pc \in { "next", "dbcall" }
           /\ worker'.rows \subseteq worker.rows
    BY <1>6, <1>11 DEF CheckRow, WorkerRec, Rest
  <2>3. k = k' /\ v' <= v
    BY <2>2 DEF Called, ToCall, One
  <2> QED
    BY <1>8, <2>1, <2>3
<1>12. CASE EndOfTick \/ SendRowFails
  <2>1. UNCHANGED << row, sent, unmarked >>
    BY <1>12 DEF EndOfTick, SendRowFails, queueVars
  <2>2. worker.pc \in { "next", "dbcall" } /\ worker'.pc \in { "idle", "next" }
           /\ worker'.rows \subseteq worker.rows
    <3>1. CASE EndOfTick
      BY <3>1 DEF EndOfTick, IdleWorker
    <3>2. CASE SendRowFails
      BY <1>6, <3>2 DEF SendRowFails, WorkerRec, Rest
    <3> QED
      BY <1>12, <3>1, <3>2
  <2>3. k = k' /\ v' <= v
    BY <2>2 DEF Called, ToCall, One
  <2> QED
    BY <1>8, <2>1, <2>3
\* A call.
<1>13. CASE SendRow
  <2>1. UNCHANGED << row, unmarked >> /\ worker.pc = "dbcall"
    BY <1>13 DEF SendRow
  <2>2. worker'.pc = "mark" /\ worker'.rows = worker.rows
    BY <1>6, <1>13 DEF SendRow, WorkerRec
  <2>3. First(worker.rows) \in worker.rows
    BY <1>6, <2>1, FirstIn DEF Holding, WorkerRec
  <2>4. CASE q = First(worker.rows)
    <3>1. sent'[q] = sent[q] + 1
      BY <1>13, <2>4 DEF SendRow, BusTypeOK
    <3>2. k = 0 /\ k' = 1 /\ v = 1 /\ v' = 0
      BY <2>1, <2>2, <2>3, <2>4 DEF Called, ToCall, One
    <3> HIDE DEF k, v
    <3> QED
      BY <1>1, <1>3, <1>4, <2>1, <3>1, <3>2
  <2>5. CASE q # First(worker.rows)
    <3>1. sent'[q] = sent[q]
      BY <1>13, <2>5 DEF SendRow, BusTypeOK
    <3>2. k = k' /\ v' = v
      BY <2>1, <2>2, <2>5 DEF Called, ToCall, One
    <3> HIDE DEF k, v
    <3> QED
      BY <1>1, <1>3, <1>4, <2>1, <3>1, <3>2
  <2> QED
    BY <2>4, <2>5
\* A mark, and one that is lost by an error or the end of the process.
<1>14. CASE MarkRow
  <2>1. UNCHANGED << sent, unmarked >> /\ worker.pc = "mark"
    BY <1>14 DEF MarkRow
  <2>2. worker'.pc = "next" /\ worker'.rows = Rest(worker.rows)
    BY <1>6, <1>14 DEF MarkRow, WorkerRec
  <2>3. k' = 0 /\ v' <= v
    BY <2>2 DEF Called, ToCall, One, Rest
  <2>4. CASE q = First(worker.rows)
    <3>1. row'[q] = "dispatched"
      BY <1>14, <2>4 DEF MarkRow, MarkDispatched, BusTypeOK
    <3> HIDE DEF k, v
    <3> QED
      BY <1>1, <1>2, <1>3, <1>4, <2>1, <2>3, <3>1
  <2>5. CASE q # First(worker.rows)
    <3>1. row'[q] = row[q]
      BY <1>14, <2>5 DEF MarkRow, MarkDispatched, BusTypeOK
    <3>2. k = 0
      BY <2>5 DEF Called, One
    <3> HIDE DEF k, v
    <3> QED
      BY <1>1, <1>2, <1>3, <1>4, <2>1, <2>3, <3>1, <3>2
  <2> QED
    BY <2>4, <2>5
<1>15. CASE MarkRowFails
  <2>1. UNCHANGED << row, sent >> /\ unmarked' = unmarked + 1
    BY <1>15 DEF MarkRowFails
  <2>2. worker'.pc = "next" /\ worker'.rows = Rest(worker.rows)
    BY <1>6, <1>15 DEF MarkRowFails, WorkerRec
  <2>3. k' = 0 /\ v' <= v
    BY <2>2 DEF Called, ToCall, One, Rest
  <2> HIDE DEF k, v
  <2> QED
    BY <1>1, <1>2, <1>3, <1>4, <2>1, <2>3
<1>16. CASE HubDies
  <2>1. UNCHANGED << row, sent >>
    BY <1>16 DEF HubDies
  <2>2. worker'.pc = "idle" /\ worker'.rows = {}
    BY <1>16 DEF HubDies, IdleWorker
  <2>3. k' = 0 /\ v' = 0
    BY <2>2 DEF Called, ToCall, One
  <2>4. unmarked' \in Nat /\ unmarked' >= unmarked + k
    BY <1>3, <1>6, <1>16 DEF HubDies, Called, One, WorkerRec
  <2> HIDE DEF k, v
  <2> QED
    BY <1>1, <1>2, <1>3, <1>4, <2>1, <2>3, <2>4
<1> QED
  BY <1>9, <1>10, <1>11, <1>12, <1>13, <1>14, <1>15, <1>16
     DEF WorkerStep, BusWorkerStep

LEMMA RepeatStep ==
    ASSUME BusTypeOK, Holding, RepeatInv, [BusNext]_busVars
    PROVE  RepeatInv'
<1> SUFFICES ASSUME NEW q \in Queued PROVE Repeats(q)'
  BY DEF RepeatInv
<1>0. Repeats(q)
  BY DEF RepeatInv
<1>1. ASSUME NEW d \in Directive, RoleStep(d) PROVE Repeats(q)'
  BY <1>0, <1>1, RoleFrame DEF Repeats, CalledSet, ToCallSet
<1>2. CASE ProjectStep
  <2>1. row'[q] = "dispatched" <=> row[q] = "dispatched"
    BY <1>2 DEF ProjectStep, QueueDirective, SetLimit, Halt, OtherDispatch, Reply,
                BusTypeOK
  <2> QED
    BY <1>0, <1>2, <2>1, ProjectFrame DEF Repeats, CalledSet, ToCallSet
<1>3. CASE UNCHANGED busVars
  BY <1>0, <1>3 DEF busVars, Repeats, CalledSet, ToCallSet
<1> QED
  BY <1>0, <1>1, <1>2, <1>3, WorkerRepeats, DrainerRepeats, ByWhom

LEMMA RepeatBound ==
    ASSUME BusTypeOK, RepeatInv
    PROVE  RepeatsBounded
<1> SUFFICES ASSUME NEW q \in Queued
             PROVE  sent[q] <= Cardinality(Drainer) + 1 + unmarked
  BY DEF RepeatsBounded
<1> DEFINE S == Cardinality(CalledSet(q))
           T == Cardinality(ToCallSet(q))
           N == Cardinality(Drainer)
           k == One(Called(worker, q))
           v == One(ToCall(worker, q))
<1>1. /\ S \in Nat /\ T \in Nat /\ N \in Nat /\ S + T <= N
      /\ k \in 0..1 /\ v \in 0..1
  BY Counted
<1>2. sent[q] \in Nat /\ unmarked \in Nat
  BY DEF BusTypeOK
<1>3. IF row[q] = "dispatched" THEN sent[q] + T + v <= unmarked + N + 1
                              ELSE sent[q] <= unmarked + S + k
  BY DEF RepeatInv, Repeats
<1> HIDE DEF S, T, N, k, v
<1>4. sent[q] <= N + 1 + unmarked
  BY <1>1, <1>2, <1>3
<1> QED
  BY <1>4 DEF N

-----------------------------------------------------------------------------
(* The work buses: theorems                                                *)

LEMMA BusStarts == BusInit => BusInv
BY TypeInit, FileInit, HoldingInit, RepeatInit DEF BusInv

LEMMA BusInductive == BusInv /\ [BusNext]_busVars => BusInv'
<1> SUFFICES ASSUME BusInv, [BusNext]_busVars PROVE BusInv'
  OBVIOUS
<1>1. BusTypeOK /\ FileInv /\ Holding /\ RepeatInv
  BY DEF BusInv
<1> QED
  BY <1>1, TypeStep, FileStep, HoldingStep, RepeatStep DEF BusInv

LEMMA BusInvariant == BusSpec => []BusInv
BY BusStarts, BusInductive, PTL DEF BusSpec

\* What role_worker.py, role_runtime.py and portfolio.sh write has its type.
THEOREM BusTypes == BusSpec => []BusTypeOK
<1>1. BusInv => BusTypeOK
  BY DEF BusInv
<1> QED
  BY <1>1, BusInvariant, PTL

\* A directive that is done or failed stays so while no role outlives
\* _STALE_RUNNING_SECS, although _claim_file_directive reads the status in one
\* step and writes it in another: whatever the worker has scanned or claimed
\* has no role run of its own, so nobody settles it in between.
THEOREM BusSettled == BusSpec => SettledStays
<1>1. BusInv /\ [BusNext]_busVars =>
         [ \A d \in Directive :
             Settled(d) /\ ~slow' => file'[d].status = file[d].status ]_busVars
  <2> SUFFICES ASSUME BusInv, [BusNext]_busVars, NEW d \in Directive, Settled(d), ~slow'
               PROVE  file'[d].status = file[d].status
    OBVIOUS
  <2> QED
    BY SettledStep DEF BusInv
<1> QED
  BY <1>1, BusInvariant, PTL DEF BusSpec, SettledStays

\* Nothing locks a row of portfolio_queue between the SELECT and the UPDATE of
\* portfolio_drain_queue or of the role worker, so it may be dispatched more
\* than once: but at most once for each that had read it, and once more for
\* each mark that was lost.
THEOREM BusRepeats == BusSpec => []RepeatsBounded
<1>1. BusInv => RepeatsBounded
  BY RepeatBound DEF BusInv
<1> QED
  BY <1>1, BusInvariant, PTL

-----------------------------------------------------------------------------
(* The invariant of the outboxes                                           *)

\* What a line is to leave behind in the tables.
InTables(f, n) ==
    /\ outbox[f][n].body.type = "event" => eventRows[f][n] > 0
    /\ outbox[f][n].body.type = "cost" /\ outbox[f][n].body.key = NoKey =>
          \E c \in costRow : c.ts = outbox[f][n].ts
    /\ outbox[f][n].body.type = "engagement"
         /\ outbox[f][n].body.what = "EngagementMessage" => messages[n] > 0

\* Lines are written by daemons only, and no more than the bound.
LinesSane ==
    /\ \A f \in OutboxFile : \A n \in 1..Len(outbox[f]) :
          outbox[f][n].body.type = "instance" =>
             outbox[f][n].body.what \in InstanceTypes
    /\ Len(outbox["role"]) + Len(outbox["inst"]) <= MaxLines

Passed == \A f \in OutboxFile :
             /\ cursor[f] <= Len(outbox[f])
             /\ \A n \in 1..cursor[f] : InTables(f, n)

DrainSane ==
    drain.pc \in { "ingest", "save" } =>
       /\ cursor[drain.file] <= drain.at /\ drain.at <= drain.end
       /\ drain.end <= Len(outbox[drain.file])
       /\ \A n \in 1..drain.at : InTables(drain.file, n)

OutboxInv == OutboxTypeOK /\ LinesSane /\ Passed /\ DrainSane

-----------------------------------------------------------------------------
(* The outboxes: types                                                     *)

LEMMA OutboxTypeInit == OutboxInit => OutboxTypeOK
  BY DEF OutboxInit, OutboxTypeOK, StartOfTick, Drain, NoInstance, SpineInstance,
         OutboxFile, OutboxLine

LEMMA DayType ==
    ASSUME NEW ts \in Nat
    PROVE  Day(ts) \in Nat
  BY OutboxAssumption DEF Day

LEMMA FitsBound ==
    ASSUME OutboxTypeOK, LinesSane, NEW f \in OutboxFile
    PROVE  Len(outbox[f]) \in Nat /\ Len(outbox[f]) <= MaxLines /\ MaxLines \in Nat
<1> DEFINE m == Len(outbox["role"])  k == Len(outbox["inst"])
<1>1. m \in Nat /\ k \in Nat
  BY DEF OutboxFile, OutboxTypeOK
<1>2. MaxLines \in Nat /\ m + k <= MaxLines
  BY OutboxAssumption DEF LinesSane
<1>3. Len(outbox[f]) = m \/ Len(outbox[f]) = k
  BY DEF OutboxFile
<1> HIDE DEF m, k
<1>4. m <= MaxLines /\ k <= MaxLines
  BY <1>1, <1>2
<1> QED
  BY <1>1, <1>2, <1>3, <1>4

\* The line at hand is one, and has a place in the tables.
LEMMA CurrentLine ==
    ASSUME OutboxTypeOK, LinesSane, DrainSane, InBatch
    PROVE  /\ drain.file \in OutboxFile
           /\ drain.at + 1 \in 1..Len(outbox[drain.file])
           /\ drain.at + 1 \in 1..MaxLines
           /\ Current \in OutboxLine
           /\ Current.body.type = "instance" => Current.body.what \in InstanceTypes
<1>1. /\ drain.file \in OutboxFile /\ drain.at \in Nat /\ drain.end \in Nat
      /\ outbox[drain.file] \in Seq(OutboxLine)
      /\ \A f \in OutboxFile : Len(outbox[f]) \in Nat
  BY DEF OutboxTypeOK, Drain
<1>2. drain.at < drain.end /\ drain.end <= Len(outbox[drain.file])
  BY DEF InBatch, DrainSane
<1>3. Len(outbox[drain.file]) <= MaxLines /\ MaxLines \in Nat
  BY <1>1, FitsBound
<1>4. drain.at + 1 \in 1..Len(outbox[drain.file]) /\ drain.at + 1 \in 1..MaxLines
  BY <1>1, <1>2, <1>3
<1> QED
  BY <1>1, <1>4 DEF Current, LinesSane

LEMMA AssignmentType ==
    ASSUME OutboxTypeOK, NEW line \in OutboxLine, NEW key \in IdKey
    PROVE  AssignmentAfter(line, key) \subseteq Assignment
<1>1. Day(line.ts) \in Nat /\ line.body.inst \in STRING
  BY DayType DEF OutboxLine, LineBody
<1>2. [ day |-> Day(line.ts), inst |-> line.body.inst, key |-> key,
        status |-> "active" ] \in Assignment
  BY <1>1 DEF Assignment
<1>3. \A a \in assignment : [ a EXCEPT !.key = key ] \in Assignment /\ a \in Assignment
  BY DEF OutboxTypeOK, Assignment
<1> QED
  BY <1>2, <1>3 DEF AssignmentAfter, OutboxTypeOK

LEMMA InstanceType ==
    ASSUME NEW r \in SpineInstance, NEW what \in InstanceTypes, NEW ts \in Nat
    PROVE  InstanceAfter(r, what, ts) \in SpineInstance
  BY DEF InstanceAfter, SpineInstance, InstanceTypes, Earlier, Later

\* One more row made of line n.
LEMMA MoreAt ==
    ASSUME NEW g \in [ 1..MaxLines -> Nat ], NEW n \in 1..MaxLines
    PROVE  /\ [ g EXCEPT ![n] = g[n] + 1 ] \in [ 1..MaxLines -> Nat ]
           /\ [ g EXCEPT ![n] = g[n] + 1 ][n] > 0
           /\ \A m \in 1..MaxLines : [ g EXCEPT ![n] = g[n] + 1 ][m] >= g[m]
<1>1. \A m \in 1..MaxLines : g[m] \in Nat
  OBVIOUS
<1>2. \A m \in 1..MaxLines : [ g EXCEPT ![n] = g[n] + 1 ][m] =
                                 IF m = n THEN g[m] + 1 ELSE g[m]
  OBVIOUS
<1> QED
  BY <1>1, <1>2

\* A transaction leaves the tables well typed, loses nothing of what they hold
\* and brings the line.
LEMMA Ingested ==
    ASSUME OutboxTypeOK, NEW f \in OutboxFile, NEW n \in 1..MaxLines,
           NEW line \in OutboxLine, IngestLine(f, n, line),
           line.body.type = "instance" => line.body.what \in InstanceTypes
    PROVE  /\ assignment' \subseteq Assignment
           /\ costRow' \subseteq [ day : Nat, ts : Nat, line : Nat ]
           /\ eventRows' \in [ OutboxFile -> [ 1..MaxLines -> Nat ] ]
           /\ engagement' \subseteq Engagement
           /\ messages' \in [ 1..MaxLines -> Nat ]
           /\ spineInstance' \in SpineInstance
           /\ costRow \subseteq costRow'
           /\ \A g \in OutboxFile, m \in 1..MaxLines :
                 eventRows'[g][m] >= eventRows[g][m]
           /\ \A m \in 1..MaxLines : messages'[m] >= messages[m]
           /\ line.body.type = "event" => eventRows'[f][n] > 0
           /\ line.body.type = "cost" => \E c \in costRow' : c.ts = line.ts
           /\ line.body.type = "engagement" /\ line.body.what = "EngagementMessage"
                => messages'[n] > 0
<1>0. /\ line.ts \in Nat /\ NoKey \in IdKey
      /\ line.body.key \in IdKey /\ line.body.eng \in IdKey
      /\ line.body.slug \in STRING
  <2>1. line.ts \in Nat /\ line.body \in LineBody
    BY DEF OutboxLine
  <2>2. NoKey \in IdKey
    BY DEF IdKey
  <2> QED
    BY <2>1, <2>2 DEF LineBody
<1>10. Day(line.ts) \in Nat /\ n \in Nat
  BY <1>0, DayType, OutboxAssumption
<1>11. /\ \A g \in OutboxFile, m \in 1..MaxLines :
            eventRows[g][m] \in Nat /\ eventRows[g][m] >= eventRows[g][m]
       /\ \A m \in 1..MaxLines : messages[m] \in Nat /\ messages[m] >= messages[m]
  <2>1. \A m \in 1..MaxLines : messages[m] \in Nat
    BY DEF OutboxTypeOK
  <2>2. \A g \in OutboxFile : eventRows[g] \in [ 1..MaxLines -> Nat ]
    BY DEF OutboxTypeOK
  <2>3. \A g \in OutboxFile, m \in 1..MaxLines : eventRows[g][m] \in Nat
    BY <2>2
  <2>4. \A k \in Nat : k >= k
    OBVIOUS
  <2> QED
    BY <2>1, <2>3, <2>4
<1>1. ASSUME AddEvent(f, n)
      PROVE  /\ eventRows' \in [ OutboxFile -> [ 1..MaxLines -> Nat ] ]
             /\ \A g \in OutboxFile, m \in 1..MaxLines :
                   eventRows'[g][m] >= eventRows[g][m]
             /\ eventRows'[f][n] > 0
  <2> DEFINE e == [ eventRows[f] EXCEPT ![n] = eventRows[f][n] + 1 ]
  <2>1. eventRows' = [ eventRows EXCEPT ![f] = e ]
    BY <1>1 DEF AddEvent
  <2>2. /\ e \in [ 1..MaxLines -> Nat ] /\ e[n] > 0
        /\ \A m \in 1..MaxLines : e[m] >= eventRows[f][m]
    <3>1. eventRows[f] \in [ 1..MaxLines -> Nat ]
      BY DEF OutboxTypeOK
    <3> QED
      BY <1>11, <3>1, MoreAt
  <2> HIDE DEF e
  <2> QED
    BY <1>11, <2>1, <2>2 DEF OutboxTypeOK
<1>2. CASE line.body.type = "cost" /\ IngestCost(f, n, line)
  <2>1. assignment' \subseteq Assignment
    BY <1>0, <1>2, AssignmentType DEF IngestCost
  <2>2. /\ costRow' \subseteq [ day : Nat, ts : Nat, line : Nat ]
        /\ costRow \subseteq costRow' /\ \E c \in costRow' : c.ts = line.ts
    <3> DEFINE c == [ day |-> Day(line.ts), ts |-> line.ts, line |-> n ]
    <3>1. c \in [ day : Nat, ts : Nat, line : Nat ] /\ c.ts = line.ts
      BY <1>0, <1>10
    <3>2. \/ costRow' = costRow /\ \E r \in costRow : r.ts = line.ts
          \/ costRow' = costRow \cup {c}
      BY <1>2 DEF IngestCost, CostAfter
    <3> HIDE DEF c
    <3> QED
      BY <3>1, <3>2 DEF OutboxTypeOK
  <2> QED
    BY <1>11, <1>1, <1>2, <2>1, <2>2 DEF IngestCost, OutboxTypeOK
<1>3. CASE line.body.type = "event" /\ IngestEvent(f, n, line)
  <2>1. AssignmentAfter(line, NoKey) \subseteq Assignment
    BY <1>0, AssignmentType
  <2>2. assignment' \subseteq Assignment
    BY <1>3, <2>1 DEF IngestEvent, Assignment
  <2> QED
    BY <1>11, <1>1, <1>3, <2>2 DEF IngestEvent, OutboxTypeOK
<1>4. CASE line.body.type = "instance" /\ IngestInstance(line)
  BY <1>11, <1>0, <1>4, InstanceType DEF IngestInstance, OutboxTypeOK
<1>5. CASE line.body.type = "engagement" /\ IngestEngagement(n, line)
  <2>1. engagement' \subseteq Engagement
    BY <1>0, <1>5 DEF IngestEngagement, EngagementAfter, Engagement, OutboxTypeOK
  <2>2. /\ messages' \in [ 1..MaxLines -> Nat ]
        /\ \A m \in 1..MaxLines : messages'[m] >= messages[m]
        /\ line.body.what = "EngagementMessage" => messages'[n] > 0
    <3>1. messages \in [ 1..MaxLines -> Nat ]
      BY DEF OutboxTypeOK
    <3>2. CASE line.body.what = "EngagementMessage"
      BY <1>5, <3>1, <3>2, MoreAt DEF IngestEngagement, MessagesAfter
    <3>3. CASE line.body.what # "EngagementMessage"
      BY <1>5, <1>11, <3>1, <3>3 DEF IngestEngagement, MessagesAfter
    <3> QED
      BY <3>2, <3>3
  <2> QED
    BY <1>11, <1>5, <2>1, <2>2 DEF IngestEngagement, OutboxTypeOK
<1>6. CASE line.body.type = "other" /\ UNCHANGED tables
  BY <1>11, <1>6 DEF tables, OutboxTypeOK
<1> QED
  BY <1>2, <1>3, <1>4, <1>5, <1>6 DEF IngestLine

\* The watcher's place after a line, and after a line it stops at.
LEMMA Onward ==
    ASSUME NEW r \in Drain
    PROVE  /\ [ r EXCEPT !.at = r.at + 1 ] \in Drain
           /\ [ r EXCEPT !.at = r.at + 1 ].at = r.at + 1
           /\ [ r EXCEPT !.at = r.at + 1 ].pc = r.pc
           /\ [ r EXCEPT !.at = r.at + 1 ].file = r.file
           /\ [ r EXCEPT !.at = r.at + 1 ].end = r.end
           /\ \A p \in { "save", "down" } :
                 /\ [ r EXCEPT !.pc = p ] \in Drain
                 /\ [ r EXCEPT !.pc = p ].pc = p
                 /\ [ r EXCEPT !.pc = p ].at = r.at
                 /\ [ r EXCEPT !.pc = p ].file = r.file
                 /\ [ r EXCEPT !.pc = p ].end = r.end
<1>1. r.at \in Nat /\ r.at + 1 \in Nat
  BY DEF Drain
<1> QED
  BY <1>1 DEF Drain

LEMMA OutboxTypeStep ==
    ASSUME OutboxTypeOK, LinesSane, DrainSane, [OutboxNext]_outboxVars
    PROVE  OutboxTypeOK'
<1> USE DEF OutboxTypeOK
<1>1. ASSUME SecondPasses PROVE OutboxTypeOK'
  BY <1>1 DEF SecondPasses, tables
<1>2. ASSUME NEW f \in OutboxFile, NEW body \in RoleLines \cup InstLines, Emit(f, body)
      PROVE  OutboxTypeOK'
  <2>1. [ body |-> body, ts |-> clock ] \in OutboxLine
    BY <1>2, OutboxAssumption DEF OutboxLine
  <2>2. Append(outbox[f], [ body |-> body, ts |-> clock ]) \in Seq(OutboxLine)
    BY <2>1
  <2>3. outbox' \in [ OutboxFile -> Seq(OutboxLine) ]
    BY <1>2, <2>2 DEF Emit
  <2> QED
    BY <1>2, <2>3 DEF Emit, tables
<1>3. NextFile \in Drain /\ StartOfTick \in Drain
  BY DEF NextFile, StartOfTick, Drain, OutboxFile
<1>4. CASE OpenOutbox
  <2>1. drain' \in Drain
    BY <1>3, <1>4 DEF OpenOutbox, Drain
  <2> QED
    BY <1>4, <2>1 DEF OpenOutbox, tables
<1>5. CASE ApplyLine
  <2>1. drain' \in Drain
    BY <1>5, Onward DEF ApplyLine
  <2>2. /\ assignment' \subseteq Assignment
        /\ costRow' \subseteq [ day : Nat, ts : Nat, line : Nat ]
        /\ eventRows' \in [ OutboxFile -> [ 1..MaxLines -> Nat ] ]
        /\ engagement' \subseteq Engagement
        /\ messages' \in [ 1..MaxLines -> Nat ]
        /\ spineInstance' \in SpineInstance
    BY <1>5, CurrentLine, Ingested DEF ApplyLine
  <2> QED
    BY <1>5, <2>1, <2>2 DEF ApplyLine
<1>6. CASE SkipDuplicate \/ StopAtLine \/ EndOfBatch
  <2>1. drain' \in Drain
    BY <1>6, Onward DEF SkipDuplicate, StopAtLine, EndOfBatch
  <2> QED
    BY <1>6, <2>1 DEF SkipDuplicate, StopAtLine, EndOfBatch, tables
<1>7. CASE SaveCursor
  <2>1. cursor' \in [ OutboxFile -> Nat ]
    BY <1>7 DEF SaveCursor, Drain
  <2> QED
    BY <1>3, <1>7, <2>1 DEF SaveCursor, tables
<1>8. CASE Reconnect \/ LoseConnection \/ WatcherDies
  <2>1. drain' \in Drain
    BY <1>3, <1>8, Onward DEF Reconnect, LoseConnection, WatcherDies
  <2>2. faults' \in Nat
    BY <1>8 DEF Reconnect, LoseConnection, WatcherDies
  <2> QED
    BY <1>8, <2>1, <2>2 DEF Reconnect, LoseConnection, WatcherDies, tables
<1>9. CASE UNCHANGED outboxVars
  BY <1>9 DEF outboxVars
<1> QED
  BY <1>1, <1>2, <1>4, <1>5, <1>6, <1>7, <1>8, <1>9
     DEF OutboxNext, OutboxWatcherStep, OutboxFile

-----------------------------------------------------------------------------
(* Lines are there to stay                                                 *)

LEMMA LinesInit == OutboxInit => LinesSane /\ Passed /\ DrainSane
<1> SUFFICES ASSUME OutboxInit PROVE LinesSane /\ Passed /\ DrainSane
  OBVIOUS
<1>1. \A f \in OutboxFile : outbox[f] = << >> /\ Len(outbox[f]) = 0 /\ cursor[f] = 0
  BY DEF OutboxInit
<1>2. "role" \in OutboxFile /\ "inst" \in OutboxFile
  BY DEF OutboxFile
<1> QED
  BY <1>1, <1>2, OutboxAssumption
     DEF LinesSane, Passed, DrainSane, OutboxInit, StartOfTick

\* An append leaves the lines of both files as they are.
LEMMA Appended ==
    ASSUME OutboxTypeOK, NEW f \in OutboxFile,
           NEW body \in RoleLines \cup InstLines, Emit(f, body)
    PROVE  /\ Len(outbox'[f]) = Len(outbox[f]) + 1
           /\ outbox'[f][Len(outbox[f]) + 1].body = body
           /\ \A g \in OutboxFile :
                 /\ Len(outbox[g]) \in Nat /\ Len(outbox'[g]) \in Nat
                 /\ Len(outbox'[g]) >= Len(outbox[g])
                 /\ g # f => outbox'[g] = outbox[g]
                 /\ \A n \in 1..Len(outbox[g]) : outbox'[g][n] = outbox[g][n]
<1> DEFINE line == [ body |-> body, ts |-> clock ]
<1>1. line \in OutboxLine /\ line.body = body
  BY OutboxAssumption DEF OutboxLine, OutboxTypeOK
<1>2. \A g \in OutboxFile : outbox[g] \in Seq(OutboxLine)
  BY DEF OutboxTypeOK
<1>3. outbox' = [ outbox EXCEPT ![f] = Append(outbox[f], line) ]
  BY DEF Emit
<1>4. \A g \in OutboxFile : outbox'[g] = IF g = f THEN Append(outbox[g], line)
                                                  ELSE outbox[g]
  BY <1>3 DEF OutboxTypeOK
<1> HIDE DEF line
<1>5. ASSUME NEW g \in OutboxFile
      PROVE  /\ Len(Append(outbox[g], line)) = Len(outbox[g]) + 1
             /\ Append(outbox[g], line)[Len(outbox[g]) + 1] = line
             /\ \A n \in 1..Len(outbox[g]) : Append(outbox[g], line)[n] = outbox[g][n]
             /\ Len(outbox[g]) \in Nat
  BY <1>1, <1>2
<1>6. ASSUME NEW g \in OutboxFile
      PROVE  /\ Len(outbox[g]) \in Nat /\ Len(outbox'[g]) \in Nat
             /\ Len(outbox'[g]) >= Len(outbox[g])
             /\ g # f => outbox'[g] = outbox[g]
             /\ \A n \in 1..Len(outbox[g]) : outbox'[g][n] = outbox[g][n]
  <2>1. CASE g = f
    <3>1. outbox'[g] = Append(outbox[g], line)
      BY <1>4, <2>1
    <3>2. Len(outbox'[g]) = Len(outbox[g]) + 1 /\ Len(outbox[g]) \in Nat
      BY <1>5, <3>1
    <3> QED
      BY <1>5, <2>1, <3>1, <3>2
  <2>2. CASE g # f
    <3>1. outbox'[g] = outbox[g] /\ Len(outbox[g]) \in Nat
      BY <1>4, <1>5, <2>2
    <3> QED
      BY <3>1
  <2> QED
    BY <2>1, <2>2
<1>7. outbox'[f] = Append(outbox[f], line)
  BY <1>4
<1>8. Len(outbox'[f]) = Len(outbox[f]) + 1 /\ outbox'[f][Len(outbox[f]) + 1].body = body
  BY <1>1, <1>5, <1>7
<1> QED
  BY <1>6, <1>8

LEMMA LinesStep ==
    ASSUME OutboxTypeOK, LinesSane, [OutboxNext]_outboxVars
    PROVE  LinesSane'
<1>1. ASSUME NEW f \in OutboxFile, NEW body \in RoleLines \cup InstLines, Emit(f, body)
      PROVE  LinesSane'
  <2>1. ASSUME NEW g \in OutboxFile, NEW n \in 1..Len(outbox'[g]),
               outbox'[g][n].body.type = "instance"
        PROVE  outbox'[g][n].body.what \in InstanceTypes
    <3>1. CASE n \in 1..Len(outbox[g])
      BY <1>1, <2>1, <3>1, Appended DEF LinesSane
    <3>2. CASE n \notin 1..Len(outbox[g])
      <4>1. g = f /\ n = Len(outbox[f]) + 1
        BY <1>1, <2>1, <3>2, Appended
      <4> QED
        BY <1>1, <2>1, <4>1, Appended, OutboxAssumption
    <3> QED
      BY <3>1, <3>2
  <2>2. Len(outbox'["role"]) + Len(outbox'["inst"]) <= MaxLines
    <3> DEFINE m == Len(outbox["role"])  k == Len(outbox["inst"])
               m2 == Len(outbox'["role"])  k2 == Len(outbox'["inst"])
    <3>1. m + k < MaxLines /\ MaxLines \in Nat
      BY <1>1, OutboxAssumption DEF Emit
    <3>2. m \in Nat /\ k \in Nat /\ "role" \in OutboxFile /\ "inst" \in OutboxFile
      BY <1>1, Appended DEF OutboxFile
    <3>3. \/ m2 = m + 1 /\ k2 = k
          \/ m2 = m /\ k2 = k + 1
      <4>1. CASE f = "role"
        BY <1>1, <3>2, <4>1, Appended
      <4>2. CASE f = "inst"
        BY <1>1, <3>2, <4>2, Appended
      <4> QED
        BY <4>1, <4>2 DEF OutboxFile
    <3> HIDE DEF m, k, m2, k2
    <3>4. m2 + k2 <= MaxLines
      BY <3>1, <3>2, <3>3
    <3> QED
      BY <3>4 DEF m2, k2
  <2> QED
    BY <2>1, <2>2 DEF LinesSane
<1>2. CASE UNCHANGED outbox
  BY <1>2 DEF LinesSane
<1> QED
  BY <1>1, <1>2 DEF OutboxNext, OutboxWatcherStep, OutboxFile, SecondPasses, OpenOutbox,
     ApplyLine, SkipDuplicate, StopAtLine, EndOfBatch, SaveCursor, Reconnect,
     LoseConnection, WatcherDies, outboxVars

-----------------------------------------------------------------------------
(* What the watcher has gone over is in the tables                         *)

\* No step takes a line from a file or what it left from the tables.
LEMMA NothingTaken ==
    ASSUME OutboxTypeOK, LinesSane, DrainSane, [OutboxNext]_outboxVars,
           NEW f \in OutboxFile
    PROVE  /\ Len(outbox[f]) \in Nat /\ Len(outbox'[f]) \in Nat
           /\ Len(outbox'[f]) >= Len(outbox[f])
           /\ \A n \in 1..Len(outbox[f]) : InTables(f, n) => InTables(f, n)'
<1>1. Len(outbox[f]) \in Nat
  BY DEF OutboxTypeOK
<1>2. /\ Len(outbox'[f]) \in Nat /\ Len(outbox'[f]) >= Len(outbox[f])
      /\ \A n \in 1..Len(outbox[f]) : outbox'[f][n] = outbox[f][n]
  <2>1. ASSUME NEW g \in OutboxFile, NEW body \in RoleLines \cup InstLines, Emit(g, body)
        PROVE  /\ Len(outbox'[f]) \in Nat /\ Len(outbox'[f]) >= Len(outbox[f])
               /\ \A n \in 1..Len(outbox[f]) : outbox'[f][n] = outbox[f][n]
    BY <2>1, Appended
  <2>2. CASE UNCHANGED outbox
    BY <1>1, <2>2
  <2> QED
    BY <2>1, <2>2 DEF OutboxNext, OutboxWatcherStep, OutboxFile, SecondPasses,
       OpenOutbox, ApplyLine, SkipDuplicate, StopAtLine, EndOfBatch, SaveCursor,
       Reconnect, LoseConnection, WatcherDies, outboxVars
<1>3. \A m \in 1..MaxLines : eventRows[f][m] \in Nat /\ messages[m] \in Nat
  <2>1. eventRows[f] \in [ 1..MaxLines -> Nat ] /\ messages \in [ 1..MaxLines -> Nat ]
    BY DEF OutboxTypeOK
  <2> QED
    BY <2>1
<1>4. /\ costRow \subseteq costRow'
      /\ \A m \in 1..MaxLines : /\ eventRows'[f][m] >= eventRows[f][m]
                                 /\ messages'[m] >= messages[m]
  <2>1. CASE ApplyLine
    BY <2>1, CurrentLine, Ingested DEF ApplyLine
  <2>2. CASE UNCHANGED tables
    BY <1>3, <2>2 DEF tables
  <2> QED
    BY <2>1, <2>2 DEF OutboxNext, OutboxWatcherStep, SecondPasses, Emit, OpenOutbox,
       SkipDuplicate, StopAtLine, EndOfBatch, SaveCursor, Reconnect, LoseConnection,
       WatcherDies, outboxVars, tables
<1>5. \A m \in 1..MaxLines : eventRows'[f][m] \in Nat /\ messages'[m] \in Nat
  <2>1. OutboxTypeOK'
    BY OutboxTypeStep
  <2>2. eventRows'[f] \in [ 1..MaxLines -> Nat ] /\ messages' \in [ 1..MaxLines -> Nat ]
    BY <2>1 DEF OutboxTypeOK
  <2> QED
    BY <2>2
<1>6. ASSUME NEW n \in 1..Len(outbox[f]), InTables(f, n)
      PROVE  InTables(f, n)'
  <2>1. n \in 1..MaxLines
    BY <1>1, FitsBound
  <2>2. outbox'[f][n] = outbox[f][n]
    BY <1>2
  <2>3. /\ eventRows[f][n] > 0 => eventRows'[f][n] > 0
        /\ messages[n] > 0 => messages'[n] > 0
    BY <1>3, <1>4, <1>5, <2>1
  <2> QED
    BY <1>4, <1>6, <2>2, <2>3 DEF InTables
<1> QED
  BY <1>1, <1>2, <1>6

LEMMA PassedStep ==
    ASSUME OutboxInv, [OutboxNext]_outboxVars
    PROVE  Passed' /\ DrainSane'
<1>0. /\ OutboxTypeOK /\ LinesSane /\ Passed /\ DrainSane /\ OutboxTypeOK'
      /\ drain \in Drain /\ drain.file \in OutboxFile /\ drain.at \in Nat
      /\ drain.end \in Nat
  BY OutboxTypeStep DEF OutboxInv, OutboxTypeOK, Drain
<1>1. ASSUME NEW f \in OutboxFile
      PROVE  /\ Len(outbox[f]) \in Nat /\ Len(outbox'[f]) \in Nat
             /\ Len(outbox'[f]) >= Len(outbox[f])
             /\ \A n \in 1..Len(outbox[f]) : InTables(f, n) => InTables(f, n)'
             /\ cursor[f] \in Nat /\ cursor'[f] \in Nat
  BY <1>0, NothingTaken DEF OutboxTypeOK
\* Where the watcher is, before the step.
<1> PICK h \in OutboxFile : h = drain.file
  BY <1>0
<1> PICK k \in Nat : k = drain.at
  BY <1>0
\* The cursor stays.
<1>2. ASSUME UNCHANGED cursor PROVE Passed'
  <2> SUFFICES ASSUME NEW f \in OutboxFile
               PROVE  /\ cursor'[f] <= Len(outbox'[f])
                      /\ \A n \in 1..cursor'[f] : InTables(f, n)'
    BY DEF Passed
  <2>1. cursor'[f] = cursor[f] /\ cursor[f] <= Len(outbox[f])
           /\ \A n \in 1..cursor[f] : InTables(f, n)
    BY <1>0, <1>2 DEF Passed
  <2>2. 1..cursor[f] \subseteq 1..Len(outbox[f])
    BY <1>1, <2>1
  <2> QED
    BY <1>1, <2>1, <2>2
\* The watcher stays where it is in the file, or stops there.
<1>3. ASSUME UNCHANGED cursor, drain.pc \in { "ingest", "save" },
             drain'.file = drain.file, drain'.at = drain.at, drain'.end = drain.end
      PROVE  DrainSane'
  <2>1. /\ cursor[h] <= k /\ k <= drain.end
        /\ drain.end <= Len(outbox[h]) /\ \A n \in 1..k : InTables(h, n)
    BY <1>0, <1>3 DEF DrainSane
  <2>2. 1..k \subseteq 1..Len(outbox[h]) /\ drain.end <= Len(outbox'[h])
    BY <1>0, <1>1, <2>1
  <2>3. \A n \in 1..k : InTables(h, n)'
    BY <1>1, <2>1, <2>2
  <2> QED
    BY <1>3, <2>1, <2>2, <2>3 DEF DrainSane
<1>4. ASSUME drain' = drain, UNCHANGED cursor PROVE DrainSane'
  <2>1. CASE drain.pc \in { "ingest", "save" }
    BY <1>3, <1>4, <2>1
  <2>2. CASE drain.pc \notin { "ingest", "save" }
    BY <1>4, <2>2 DEF DrainSane
  <2> QED
    BY <2>1, <2>2
<1>5. CASE SecondPasses \/ \E f \in OutboxFile, b \in RoleLines \cup InstLines : Emit(f, b)
  BY <1>2, <1>4, <1>5 DEF SecondPasses, Emit
<1>6. CASE OpenOutbox
  <2>1. CASE drain'.pc = "ingest"
    <3>1. /\ drain'.file = h /\ drain'.at = cursor[h]
          /\ drain'.end = Len(outbox[h])
          /\ outbox' = outbox /\ cursor' = cursor
          /\ cursor[h] < Len(outbox[h])
      BY <1>6, <2>1 DEF OpenOutbox, NextFile
    <3>2. Passed'
      BY <1>2, <3>1
    <3>3. \A n \in 1..cursor[h] : InTables(h, n)'
      BY <3>1, <3>2 DEF Passed
    <3>4. cursor[h] <= cursor[h] /\ cursor[h] <= Len(outbox[h])
             /\ Len(outbox[h]) <= Len(outbox[h])
      BY <1>1, <3>1
    <3> QED
      BY <3>1, <3>2, <3>3, <3>4 DEF DrainSane
  <2>2. CASE drain'.pc # "ingest"
    <3>1. drain'.pc = "open" /\ cursor' = cursor
      BY <1>6, <2>2 DEF OpenOutbox, NextFile
    <3> QED
      BY <1>2, <3>1 DEF DrainSane
  <2> QED
    BY <2>1, <2>2
<1>7. CASE ApplyLine \/ SkipDuplicate
  <2>1. /\ drain' = [ drain EXCEPT !.at = drain.at + 1 ] /\ InBatch
        /\ cursor' = cursor /\ outbox' = outbox
    BY <1>7 DEF ApplyLine, SkipDuplicate
  <2>2. /\ drain'.at = k + 1 /\ drain'.file = h /\ drain'.end = drain.end
    BY <1>0, <2>1, Onward
  <2>3. /\ cursor[h] <= k /\ k < drain.end
        /\ drain.end <= Len(outbox[h]) /\ \A n \in 1..k : InTables(h, n)
    BY <1>0, <2>1 DEF DrainSane, InBatch
  <2>4. InTables(h, k + 1)'
    <3>1. CASE ApplyLine
      <4> PICK line \in OutboxLine : line = Current
        BY <1>0, <2>1, CurrentLine
      <4>1. /\ line = outbox'[h][k + 1] /\ h \in OutboxFile /\ k + 1 \in 1..MaxLines
            /\ IngestLine(h, k + 1, line)
            /\ line.body.type = "instance" => line.body.what \in InstanceTypes
        BY <1>0, <2>1, <3>1, CurrentLine DEF ApplyLine, Current
      <4>2. /\ line.body.type = "event" => eventRows'[h][k + 1] > 0
            /\ line.body.type = "cost" => \E c \in costRow' : c.ts = line.ts
            /\ line.body.type = "engagement" /\ line.body.what = "EngagementMessage"
                 => messages'[k + 1] > 0
        BY <1>0, <4>1, Ingested
      <4> QED
        BY <4>1, <4>2 DEF InTables
    <3>2. CASE SkipDuplicate
      <4>1. outbox'[h][k + 1].body.type = "cost" /\ outbox'[h][k + 1].body.key # NoKey
        BY <2>1, <3>2 DEF SkipDuplicate, TakenForDuplicate, Current
      <4> QED
        BY <4>1 DEF InTables
    <3> QED
      BY <1>7, <3>1, <3>2
  <2>5. 1..k \subseteq 1..Len(outbox[h])
    BY <1>0, <1>1, <2>3
  <2>6. \A n \in 1..(k + 1) : n \in 1..k \/ n = k + 1
    BY <1>0
  <2>7. \A n \in 1..(k + 1) : InTables(h, n)'
    BY <1>1, <2>3, <2>4, <2>5, <2>6
  <2>8. cursor[h] <= k + 1 /\ k + 1 <= drain.end
    BY <1>0, <1>1, <2>3
  <2> QED
    BY <1>2, <2>1, <2>2, <2>3, <2>7, <2>8 DEF DrainSane
<1>8. CASE StopAtLine \/ EndOfBatch
  <2>1. /\ drain' = [ drain EXCEPT !.pc = "save" ] /\ drain.pc = "ingest"
        /\ cursor' = cursor
    BY <1>8 DEF StopAtLine, EndOfBatch, InBatch
  <2> QED
    BY <1>0, <1>2, <1>3, <2>1, Onward
<1>9. CASE SaveCursor
  <2>1. /\ cursor' = [ cursor EXCEPT ![drain.file] = drain.at ] /\ outbox' = outbox
        /\ drain.pc = "save" /\ drain'.pc = "open"
    BY <1>9 DEF SaveCursor, NextFile
  <2>2. /\ drain.at <= Len(outbox[drain.file])
        /\ \A n \in 1..drain.at : InTables(drain.file, n)
    BY <1>0, <1>1, <2>1 DEF DrainSane
  <2>3. ASSUME NEW f \in OutboxFile
        PROVE  /\ cursor'[f] <= Len(outbox[f])
               /\ \A n \in 1..cursor'[f] : InTables(f, n)
    <3>1. cursor'[f] = IF f = drain.file THEN drain.at ELSE cursor[f]
      BY <1>0, <2>1 DEF OutboxTypeOK
    <3> QED
      BY <1>0, <2>2, <3>1 DEF Passed
  <2>4. ASSUME NEW f \in OutboxFile
        PROVE  /\ cursor'[f] <= Len(outbox'[f])
               /\ \A n \in 1..cursor'[f] : InTables(f, n)'
    <3>1. 1..cursor'[f] \subseteq 1..Len(outbox[f])
      BY <1>1, <2>3
    <3> QED
      BY <1>1, <2>1, <2>3, <3>1
  <2> QED
    BY <2>1, <2>4 DEF Passed, DrainSane
<1>10. CASE Reconnect \/ LoseConnection \/ WatcherDies
  <2>1. cursor' = cursor /\ drain'.pc \in { "open", "down" }
    <3>1. StartOfTick.pc = "open" /\ [ drain EXCEPT !.pc = "down" ].pc = "down"
      BY <1>0, Onward DEF StartOfTick
    <3> QED
      BY <1>10, <3>1 DEF Reconnect, LoseConnection, WatcherDies
  <2> QED
    BY <1>2, <2>1 DEF DrainSane
<1>11. CASE UNCHANGED outboxVars
  BY <1>2, <1>4, <1>11 DEF outboxVars
<1> QED
  BY <1>5, <1>6, <1>7, <1>8, <1>9, <1>10, <1>11
     DEF OutboxNext, OutboxWatcherStep, OutboxFile

-----------------------------------------------------------------------------
(* The outboxes: theorems                                                  *)

LEMMA OutboxInvariant == OutboxSpec => []OutboxInv
<1>1. OutboxInit => OutboxInv
  BY OutboxTypeInit, LinesInit DEF OutboxInv
<1>2. OutboxInv /\ [OutboxNext]_outboxVars => OutboxInv'
  BY OutboxTypeStep, LinesStep, PassedStep DEF OutboxInv
<1> QED
  BY <1>1, <1>2, PTL DEF OutboxSpec

\* What the cursor passed is in the tables.
LEMMA PassedIsApplied == OutboxInv => AtLeastOnce
<1> SUFFICES ASSUME OutboxInv PROVE AtLeastOnce
  OBVIOUS
<1>1. \A f \in OutboxFile : \A n \in 1..cursor[f] : InTables(f, n)
  BY DEF OutboxInv, Passed
<1> QED
  BY <1>1 DEF AtLeastOnce, InTables, RoleLine, InstLine, OutboxFile

\* The tables, cursors and files that spine_watcher.py reads and writes have
\* their types, whatever the lines say.
THEOREM OutboxTypes == OutboxSpec => []OutboxTypeOK
<1>1. OutboxInv => OutboxTypeOK
  BY DEF OutboxInv
<1> QED
  BY <1>1, OutboxInvariant, PTL

\* drain_file drops no work: advance_cursor moves past a line only after its
\* transaction, so neither a lost connection nor a death of the watcher, at
\* any step, leaves a passed event, message or unkeyed cost out of the tables.
THEOREM OutboxApplied == OutboxSpec => []AtLeastOnce
BY PassedIsApplied, OutboxInvariant, PTL

-----------------------------------------------------------------------------
(* The tables after any number of replays: the invariant                   *)

\* The lines of a file that the watcher is through with, this time.
Pos(f) == IF drain.pc \in { "ingest", "save" } /\ drain.file = f THEN drain.at
                                                                ELSE cursor[f]

InstTs(n) == outbox["inst"][n].ts

Sign(n)     == outbox["inst"][n].body.type = "instance"
StartsAt(n) == Sign(n) /\ outbox["inst"][n].body.what = "InstanceStarted"
StopsAt(n)  == Sign(n) /\ outbox["inst"][n].body.what = "InstanceStopped"
EndsDay(n, d) == /\ outbox["role"][n].body.type = "event"
                 /\ outbox["role"][n].body.what \in DoneTypes
                 /\ Day(outbox["role"][n].ts) = d

\* Each file holds what its writers write, in the order of their clocks.
LinesInPlace ==
    /\ \A n \in 1..Len(outbox["role"]) :
          outbox["role"][n].body.type \notin { "instance", "engagement" }
    /\ \A n \in 1..Len(outbox["inst"]) :
          /\ outbox["inst"][n].body.type \notin { "cost", "event" }
          /\ InstTs(n) <= clock
          /\ \A m \in 1..n : InstTs(m) <= InstTs(n)

\* The status is what the first q lines say.
StatusAsOf(q) ==
    spineInstance.status = "stopped" <=>
       \E n \in 1..q : StopsAt(n) /\ \A m \in 1..q : StartsAt(m) => m < n

FirstStart(m) == /\ m \in 1..Len(outbox["inst"]) /\ StartsAt(m)
                 /\ \A n \in 1..Len(outbox["inst"]) : StartsAt(n) => m <= n

LastSeen(m) ==
    /\ \E n \in 1..Len(outbox["inst"]) : /\ Sign(n) /\ m <= n
                                        /\ spineInstance.seen = InstTs(n)
    /\ \A n \in 1..Pos("inst") : Sign(n) /\ m <= n => InstTs(n) <= spineInstance.seen

\* A replay takes the status back to what it was, and the other columns not.
InstanceSane ==
    /\ spineInstance.status = "none" =>
          spineInstance = NoInstance /\ \A n \in 1..Pos("inst") : ~StartsAt(n)
    /\ spineInstance.status # "none" =>
          /\ \E m \in 1..Len(outbox["inst"]) :
                FirstStart(m) /\ spineInstance.started = InstTs(m) /\ LastSeen(m)
          /\ \E q \in 1..Len(outbox["inst"]) : Pos("inst") <= q /\ StatusAsOf(q)

\* An end is a row's last state, and the day of an end has a row.
AllDone(d) == OfDay(d) # {} /\ \A a \in OfDay(d) : a.status = "done"

AssignmentSane ==
    /\ \A a \in assignment : a.status = "done" =>
          \E n \in 1..Len(outbox["role"]) : EndsDay(n, a.day)
    /\ \A n \in 1..Pos("role"), d \in Nat : EndsDay(n, d) => AllDone(d)

ReplayInv == OutboxInv /\ LinesInPlace /\ InstanceSane /\ AssignmentSane

-----------------------------------------------------------------------------
(* The tables after any number of replays: where the watcher is            *)

LEMMA PosInFile ==
    ASSUME OutboxInv, NEW f \in OutboxFile
    PROVE  /\ Pos(f) \in Nat /\ Len(outbox[f]) \in Nat
           /\ Pos(f) <= Len(outbox[f]) /\ cursor[f] \in Nat /\ cursor[f] <= Pos(f)
<1>1. /\ OutboxTypeOK /\ Passed /\ DrainSane /\ drain.at \in Nat /\ drain.end \in Nat
      /\ Len(outbox[f]) \in Nat /\ cursor[f] \in Nat
  BY DEF OutboxInv, OutboxTypeOK, Drain
<1>2. CASE drain.pc \in { "ingest", "save" } /\ drain.file = f
  <2>1. cursor[f] <= drain.at /\ drain.at <= drain.end /\ drain.end <= Len(outbox[f])
    BY <1>1, <1>2 DEF DrainSane
  <2>2. Pos(f) = drain.at
    BY <1>2 DEF Pos
  <2> QED
    BY <1>1, <2>1, <2>2
<1>3. CASE ~(drain.pc \in { "ingest", "save" } /\ drain.file = f)
  <2>1. Pos(f) = cursor[f] /\ cursor[f] <= Len(outbox[f])
    BY <1>1, <1>3 DEF Pos, Passed
  <2> QED
    BY <1>1, <2>1
<1> QED
  BY <1>2, <1>3

\* A line is done with.
LEMMA PosAdvances ==
    ASSUME OutboxInv, ApplyLine \/ SkipDuplicate, NEW f \in OutboxFile
    PROVE  /\ f = drain.file => Pos(f) = drain.at /\ Pos(f)' = drain.at + 1
           /\ f # drain.file => Pos(f)' = Pos(f)
<1>1. drain \in Drain /\ drain.pc = "ingest"
  BY DEF OutboxInv, OutboxTypeOK, ApplyLine, SkipDuplicate, InBatch
<1>2. /\ drain' = [ drain EXCEPT !.at = drain.at + 1 ] /\ cursor' = cursor
  BY DEF ApplyLine, SkipDuplicate
<1>3. drain'.pc = "ingest" /\ drain'.file = drain.file /\ drain'.at = drain.at + 1
  BY <1>1, <1>2, Onward
<1> QED
  BY <1>1, <1>2, <1>3 DEF Pos

\* Any other step leaves the tables alone, and may cost the watcher its place.
LEMMA PosRetreats ==
    ASSUME OutboxInv, [OutboxNext]_outboxVars, ~ApplyLine, ~SkipDuplicate,
           NEW f \in OutboxFile
    PROVE  Pos(f)' <= Pos(f) /\ UNCHANGED tables
<1>1. /\ Pos(f) \in Nat /\ cursor[f] \in Nat /\ cursor[f] <= Pos(f)
      /\ drain \in Drain /\ Pos(f) <= Pos(f)
  BY PosInFile DEF OutboxInv, OutboxTypeOK
<1>2. ASSUME drain' = drain, cursor' = cursor PROVE Pos(f)' <= Pos(f)
  BY <1>1, <1>2 DEF Pos
<1>3. ASSUME drain'.pc \notin { "ingest", "save" }, cursor' = cursor
      PROVE  Pos(f)' <= Pos(f)
  BY <1>1, <1>3 DEF Pos
<1>4. CASE SecondPasses \/ \E g \in OutboxFile, b \in RoleLines \cup InstLines : Emit(g, b)
  BY <1>2, <1>4 DEF SecondPasses, Emit, tables
<1>5. CASE OpenOutbox
  <2>1. /\ cursor' = cursor /\ drain.pc = "open"
        /\ \/ drain' = [ pc |-> "ingest", file |-> drain.file,
                         at |-> cursor[drain.file], end |-> Len(outbox[drain.file]) ]
           \/ drain' = NextFile
    BY <1>5 DEF OpenOutbox
  <2>2. Pos(f)' = Pos(f)
    BY <2>1 DEF Pos, NextFile
  <2> QED
    BY <1>1, <1>5, <2>2 DEF OpenOutbox, tables
<1>6. CASE StopAtLine \/ EndOfBatch
  <2>1. /\ drain' = [ drain EXCEPT !.pc = "save" ] /\ drain.pc = "ingest"
        /\ cursor' = cursor /\ UNCHANGED tables
    BY <1>6 DEF StopAtLine, EndOfBatch, InBatch, tables
  <2>2. Pos(f)' = Pos(f)
    BY <1>1, <2>1, Onward DEF Pos
  <2> QED
    BY <1>1, <2>1, <2>2
<1>7. CASE SaveCursor
  <2>1. /\ drain.pc = "save" /\ drain'.pc = "open" /\ UNCHANGED tables
        /\ cursor' = [ cursor EXCEPT ![drain.file] = drain.at ]
    BY <1>7 DEF SaveCursor, NextFile, tables
  <2>2. cursor'[f] = IF f = drain.file THEN drain.at ELSE cursor[f]
    BY <2>1 DEF OutboxInv, OutboxTypeOK
  <2>3. Pos(f)' = Pos(f)
    BY <2>1, <2>2 DEF Pos
  <2> QED
    BY <1>1, <2>1, <2>3
<1>8. CASE Reconnect \/ LoseConnection \/ WatcherDies
  <2>1. cursor' = cursor /\ drain'.pc \notin { "ingest", "save" } /\ UNCHANGED tables
    <3>1. StartOfTick.pc = "open" /\ [ drain EXCEPT !.pc = "down" ].pc = "down"
      BY <1>1, Onward DEF StartOfTick
    <3> QED
      BY <1>8, <3>1 DEF Reconnect, LoseConnection, WatcherDies, tables
  <2> QED
    BY <1>3, <2>1
<1>9. CASE UNCHANGED outboxVars
  BY <1>2, <1>9 DEF outboxVars, tables
<1> QED
  BY <1>4, <1>5, <1>6, <1>7, <1>8, <1>9
     DEF OutboxNext, OutboxWatcherStep, OutboxFile

-----------------------------------------------------------------------------
(* The lines are in order and stay                                         *)

LEMMA LinesKept ==
    ASSUME OutboxInv, [OutboxNext]_outboxVars, NEW f \in OutboxFile
    PROVE  /\ Len(outbox[f]) \in Nat /\ Len(outbox'[f]) \in Nat
           /\ Len(outbox'[f]) >= Len(outbox[f])
           /\ \A n \in 1..Len(outbox[f]) : outbox'[f][n] = outbox[f][n]
           /\ ApplyLine \/ SkipDuplicate => outbox' = outbox
<1>1. OutboxTypeOK /\ Len(outbox[f]) \in Nat
  BY DEF OutboxInv, OutboxTypeOK
<1>2. ASSUME NEW g \in OutboxFile, NEW b \in RoleLines \cup InstLines, Emit(g, b)
      PROVE  /\ Len(outbox'[f]) \in Nat /\ Len(outbox'[f]) >= Len(outbox[f])
             /\ \A n \in 1..Len(outbox[f]) : outbox'[f][n] = outbox[f][n]
  BY <1>1, <1>2, Appended
<1>3. CASE UNCHANGED outbox
  BY <1>1, <1>3
<1>4. ApplyLine \/ SkipDuplicate => outbox' = outbox
  BY DEF ApplyLine, SkipDuplicate
<1> QED
  BY <1>1, <1>2, <1>3, <1>4 DEF OutboxNext, OutboxWatcherStep, OutboxFile, SecondPasses,
     OpenOutbox, ApplyLine, SkipDuplicate, StopAtLine, EndOfBatch, SaveCursor,
     Reconnect, LoseConnection, WatcherDies, outboxVars

\* A daemon stamps its line with the time at which it appends it.
LEMMA InPlaceStep ==
    ASSUME OutboxInv, LinesInPlace, [OutboxNext]_outboxVars
    PROVE  LinesInPlace'
<1>0. /\ OutboxTypeOK /\ clock \in Nat /\ "role" \in OutboxFile /\ "inst" \in OutboxFile
      /\ Len(outbox["role"]) \in Nat /\ Len(outbox["inst"]) \in Nat
  BY DEF OutboxInv, OutboxTypeOK, OutboxFile
<1>1. \A n \in 1..Len(outbox["inst"]) : InstTs(n) \in Nat
  <2>1. outbox["inst"] \in Seq(OutboxLine)
    BY <1>0 DEF OutboxTypeOK
  <2>2. \A n \in 1..Len(outbox["inst"]) : outbox["inst"][n] \in OutboxLine
    BY <2>1
  <2> QED
    BY <2>2 DEF InstTs, OutboxLine
<1>2. ASSUME NEW b \in RoleLines, Emit("role", b) PROVE LinesInPlace'
  <2>1. /\ outbox'["inst"] = outbox["inst"] /\ clock' = clock
        /\ Len(outbox'["role"]) = Len(outbox["role"]) + 1
        /\ outbox'["role"][Len(outbox["role"]) + 1].body = b
        /\ \A n \in 1..Len(outbox["role"]) : outbox'["role"][n] = outbox["role"][n]
    BY <1>0, <1>2, Appended DEF Emit
  <2>2. ASSUME NEW n \in 1..Len(outbox'["role"])
        PROVE  outbox'["role"][n].body.type \notin { "instance", "engagement" }
    <3>1. n \in 1..Len(outbox["role"]) \/ n = Len(outbox["role"]) + 1
      BY <1>0, <2>1
    <3> QED
      BY <2>1, <3>1, OutboxAssumption DEF LinesInPlace
  <2> QED
    BY <2>1, <2>2 DEF LinesInPlace, InstTs
<1>3. ASSUME NEW b \in InstLines, Emit("inst", b) PROVE LinesInPlace'
  <2> PICK k \in Nat : k = Len(outbox["inst"]) + 1
    BY <1>0
  <2>1. /\ outbox'["role"] = outbox["role"] /\ clock' = clock
        /\ Len(outbox'["inst"]) = k /\ outbox'["inst"][k].body = b
        /\ \A n \in 1..Len(outbox["inst"]) : outbox'["inst"][n] = outbox["inst"][n]
    <3>1. /\ outbox'["role"] = outbox["role"]
          /\ Len(outbox'["inst"]) = Len(outbox["inst"]) + 1
          /\ outbox'["inst"][Len(outbox["inst"]) + 1].body = b
          /\ \A n \in 1..Len(outbox["inst"]) : outbox'["inst"][n] = outbox["inst"][n]
      BY <1>0, <1>3, Appended
    <3> QED
      BY <1>3, <3>1 DEF Emit
  <2>2. outbox'["inst"][k].ts = clock
    <3> DEFINE line == [ body |-> b, ts |-> clock ]
    <3>1. line \in OutboxLine /\ line.ts = clock
      BY <1>0, OutboxAssumption DEF OutboxLine
    <3>2. outbox' = [ outbox EXCEPT !["inst"] = Append(outbox["inst"], line) ]
      BY <1>3 DEF Emit
    <3> HIDE DEF line
    <3>3. outbox'["inst"] = Append(outbox["inst"], line) /\ outbox["inst"] \in Seq(OutboxLine)
      BY <1>0, <3>2 DEF OutboxTypeOK
    <3>4. Append(outbox["inst"], line)[k] = line
      BY <3>1, <3>3
    <3> QED
      BY <3>1, <3>3, <3>4
  <2>3. \A n \in 1..Len(outbox["inst"]) : InstTs(n)' = InstTs(n)
    BY <2>1 DEF InstTs
  <2>4. InstTs(k)' = clock
    BY <2>2 DEF InstTs
  <2>5. k \in Nat /\ \A n \in 1..k : n = k \/ n \in 1..Len(outbox["inst"])
    BY <1>0
  <2>6. ASSUME NEW n \in 1..k
        PROVE  /\ outbox'["inst"][n].body.type \notin { "cost", "event" }
               /\ InstTs(n)' <= clock
               /\ \A m \in 1..n : InstTs(m)' <= InstTs(n)'
    <3>1. CASE n = k
      <4>1. \A m \in 1..k : InstTs(m)' <= clock
        BY <1>0, <2>3, <2>4, <2>5 DEF LinesInPlace
      <4> QED
        BY <2>1, <2>4, <2>5, <3>1, <4>1, OutboxAssumption
    <3>2. CASE n \in 1..Len(outbox["inst"])
      <4>1. 1..n \subseteq 1..Len(outbox["inst"])
        BY <1>0, <3>2
      <4> QED
        BY <2>1, <2>3, <3>2, <4>1 DEF LinesInPlace
    <3> QED
      BY <2>5, <3>1, <3>2
  <2> QED
    BY <2>1, <2>6 DEF LinesInPlace
<1>4. ASSUME UNCHANGED outbox, clock' \in Nat, clock <= clock' PROVE LinesInPlace'
  <2>1. \A n \in 1..Len(outbox["inst"]) : InstTs(n)' = InstTs(n) /\ InstTs(n)' <= clock'
    BY <1>0, <1>1, <1>4 DEF LinesInPlace, InstTs
  <2> QED
    BY <1>4, <2>1 DEF LinesInPlace, InstTs
<1>5. CASE SecondPasses
  BY <1>0, <1>4, <1>5 DEF SecondPasses
<1>6. CASE UNCHANGED << outbox, clock >>
  BY <1>0, <1>4, <1>6
<1> QED
  BY <1>2, <1>3, <1>5, <1>6 DEF OutboxNext, OutboxWatcherStep,
     OpenOutbox, ApplyLine, SkipDuplicate, StopAtLine, EndOfBatch, SaveCursor,
     Reconnect, LoseConnection, WatcherDies, outboxVars

-----------------------------------------------------------------------------
(* The row of spine_instance                                               *)

LEMMA StampsType ==
    ASSUME OutboxInv, LinesInPlace
    PROVE  /\ Len(outbox["inst"]) \in Nat
           /\ \A n \in 1..Len(outbox["inst"]) :
                /\ InstTs(n) \in Nat /\ outbox["inst"][n] \in OutboxLine
                /\ Sign(n) => outbox["inst"][n].body.what \in InstanceTypes
                /\ \A m \in 1..Len(outbox["inst"]) : m <= n => InstTs(m) <= InstTs(n)
<1>1. "inst" \in OutboxFile /\ outbox["inst"] \in Seq(OutboxLine) /\ LinesSane
  BY DEF OutboxInv, OutboxTypeOK, OutboxFile
<1>2. Len(outbox["inst"]) \in Nat
  BY <1>1
<1>3. ASSUME NEW n \in 1..Len(outbox["inst"])
      PROVE  outbox["inst"][n] \in OutboxLine /\ InstTs(n) \in Nat
  <2>1. outbox["inst"][n] \in OutboxLine
    BY <1>1
  <2> QED
    BY <2>1 DEF InstTs, OutboxLine
<1>4. ASSUME NEW n \in 1..Len(outbox["inst"]), NEW m \in 1..Len(outbox["inst"]), m <= n
      PROVE  InstTs(m) <= InstTs(n)
  <2>1. m \in 1..n
    BY <1>2, <1>4
  <2> QED
    BY <2>1 DEF LinesInPlace
<1> QED
  BY <1>1, <1>2, <1>3, <1>4 DEF Sign, LinesSane

\* Lines are added, the watcher is at most where it was.
LEMMA InstanceKept ==
    ASSUME OutboxInv, InstanceSane, [OutboxNext]_outboxVars,
           spineInstance' = spineInstance, Pos("inst")' <= Pos("inst"), OutboxInv'
    PROVE  InstanceSane'
<1> DEFINE L == Len(outbox["inst"])  M == Len(outbox'["inst"])
           p == Pos("inst")  r == Pos("inst")'
<1>1. "inst" \in OutboxFile
  BY DEF OutboxFile
<1>2. L \in Nat /\ M \in Nat /\ L <= M /\ p \in Nat /\ r \in Nat /\ r <= p /\ p <= L
  <2>1. L \in Nat /\ M \in Nat /\ M >= L
    BY <1>1, LinesKept
  <2>2. p \in Nat /\ p <= L
    BY <1>1, PosInFile
  <2>3. r \in Nat
    BY <1>1 DEF Pos, OutboxInv, OutboxTypeOK, Drain
  <2> QED
    BY <2>1, <2>2, <2>3
<1>3. \A n \in 1..L : outbox'["inst"][n] = outbox["inst"][n]
  BY <1>1, LinesKept
<1>4. \A n \in 1..L : /\ InstTs(n)' = InstTs(n) /\ Sign(n)' = Sign(n)
                      /\ StartsAt(n)' = StartsAt(n) /\ StopsAt(n)' = StopsAt(n)
  BY <1>3 DEF InstTs, Sign, StartsAt, StopsAt
<1> HIDE DEF L, M, p, r
<1>5. /\ 1..r \subseteq 1..p /\ 1..p \subseteq 1..L /\ 1..L \subseteq 1..M
      /\ \A n \in 1..M : n \notin 1..L => \A m \in 1..L : m <= n
      /\ \A q \in 1..L : 1..q \subseteq 1..L
  BY <1>2
<1>6. ASSUME spineInstance.status = "none"
      PROVE  InstanceSane'
  <2>1. spineInstance = NoInstance /\ \A n \in 1..p : ~StartsAt(n)
    BY <1>6 DEF InstanceSane, p
  <2>2. \A n \in 1..r : ~StartsAt(n)'
    BY <1>4, <1>5, <2>1
  <2> QED
    BY <1>6, <2>1, <2>2 DEF InstanceSane, r
<1>7. ASSUME spineInstance.status # "none"
      PROVE  InstanceSane'
  <2>1. PICK m \in 1..L : FirstStart(m) /\ spineInstance.started = InstTs(m) /\ LastSeen(m)
    BY <1>7 DEF InstanceSane, L
  <2>2. PICK q \in 1..L : p <= q /\ StatusAsOf(q)
    BY <1>7 DEF InstanceSane, L, p
  <2>3. FirstStart(m)'
    <3>1. m \in 1..M /\ StartsAt(m)'
      BY <1>4, <1>5, <2>1 DEF FirstStart
    <3>2. ASSUME NEW n \in 1..M, StartsAt(n)' PROVE m <= n
      BY <1>4, <1>5, <2>1, <3>2 DEF FirstStart, L
    <3> QED
      BY <3>1, <3>2 DEF FirstStart, M
  <2>4. LastSeen(m)'
    <3>1. PICK n \in 1..L : Sign(n) /\ m <= n /\ spineInstance.seen = InstTs(n)
      BY <2>1 DEF LastSeen, L
    <3>2. n \in 1..M /\ Sign(n)' /\ m <= n /\ spineInstance'.seen = InstTs(n)'
      BY <1>4, <1>5, <3>1
    <3>3. \A i \in 1..p : Sign(i) /\ m <= i => InstTs(i) <= spineInstance.seen
      BY <2>1 DEF LastSeen, p
    <3>4. \A i \in 1..r : Sign(i)' /\ m <= i => InstTs(i)' <= spineInstance'.seen
      BY <1>4, <1>5, <3>3
    <3> QED
      BY <3>2, <3>4 DEF LastSeen, M, r
  <2>5. StatusAsOf(q)'
    <3>1. \A n \in 1..q : StartsAt(n)' = StartsAt(n) /\ StopsAt(n)' = StopsAt(n)
      BY <1>4, <1>5, <2>2
    <3> QED
      BY <2>2, <3>1 DEF StatusAsOf
  <2>6. m \in 1..M /\ q \in 1..M /\ r <= q /\ spineInstance'.started = InstTs(m)'
    BY <1>2, <1>4, <1>5, <2>1, <2>2
  <2> QED
    BY <1>7, <2>3, <2>4, <2>5, <2>6 DEF InstanceSane, M, r
<1> QED
  BY <1>6, <1>7

LEMMA LaterOf ==
    ASSUME NEW a \in Nat, NEW b \in Nat
    PROVE  /\ Later(a, b) \in Nat /\ a <= Later(a, b) /\ b <= Later(a, b) /\ a <= a
           /\ Later(a, b) = a \/ (a < b /\ Later(a, b) = b)
<1>1. CASE a < b
  <2>1. Later(a, b) = b
    BY <1>1 DEF Later
  <2> QED
    BY <1>1, <2>1
<1>2. CASE ~(a < b)
  <2>1. Later(a, b) = a
    BY <1>2 DEF Later
  <2>2. b <= a /\ a <= a
    BY <1>2
  <2> QED
    BY <2>1, <2>2
<1> QED
  BY <1>1, <1>2

\* ingest_instance_event, of a line the row is ahead of or not.
LEMMA InstanceLine ==
    ASSUME OutboxInv, LinesInPlace, InstanceSane, ApplyLine, drain.file = "inst"
    PROVE  InstanceSane'
<1> DEFINE L == Len(outbox["inst"])  s == spineInstance  t == spineInstance'
<1>1. /\ OutboxTypeOK /\ LinesSane /\ DrainSane /\ InBatch /\ "inst" \in OutboxFile
  BY DEF OutboxInv, ApplyLine, OutboxFile
<1>2. /\ L \in Nat
      /\ \A n \in 1..L : InstTs(n) \in Nat
      /\ \A n \in 1..L : Sign(n) => outbox["inst"][n].body.what \in InstanceTypes
      /\ \A n, m \in 1..L : m <= n => InstTs(m) <= InstTs(n)
  BY StampsType
<1> PICK k \in Nat : k = drain.at
  BY <1>1 DEF OutboxTypeOK, Drain
<1>3. Pos("inst") = k /\ Pos("inst")' = k + 1 /\ k + 1 \in 1..L
  BY <1>1, PosAdvances, CurrentLine
<1>4. outbox' = outbox
  BY DEF ApplyLine
<1>5. \A n : /\ InstTs(n)' = InstTs(n) /\ Sign(n)' = Sign(n)
             /\ StartsAt(n)' = StartsAt(n) /\ StopsAt(n)' = StopsAt(n)
  BY <1>4 DEF InstTs, Sign, StartsAt, StopsAt
<1>6. s \in SpineInstance /\ s.seen \in Nat /\ s.started \in Nat
  BY <1>1 DEF OutboxTypeOK, SpineInstance
<1>7. IF Sign(k + 1) THEN t = InstanceAfter(s, outbox["inst"][k + 1].body.what, InstTs(k + 1))
                     ELSE t = s
  <2>1. Current = outbox["inst"][k + 1] /\ IngestLine("inst", k + 1, Current)
    BY DEF Current, ApplyLine
  <2>2. Current.body.type \notin { "cost", "event" }
    BY <1>3, <2>1 DEF LinesInPlace
  <2>3. Current.body.type = "instance" => IngestInstance(Current)
    BY <2>1 DEF IngestLine
  <2>4. Current.body.type # "instance" => t = s
    BY <2>1, <2>2 DEF IngestLine, IngestEngagement, tables
  <2> QED
    BY <2>1, <2>3, <2>4 DEF IngestInstance, InstTs, Sign
<1> DEFINE what == outbox["inst"][k + 1].body.what
<1>8. Sign(k + 1) => what \in InstanceTypes
  BY <1>2, <1>3
<1>9. /\ StartsAt(k + 1) <=> Sign(k + 1) /\ what = "InstanceStarted"
      /\ StopsAt(k + 1) <=> Sign(k + 1) /\ what = "InstanceStopped"
  BY DEF StartsAt, StopsAt
\* The three parts of what the line does.
<1>10. /\ s.status = "none" /\ ~StartsAt(k + 1) => t = s
       /\ s.status = "none" /\ StartsAt(k + 1) =>
             t = [ status |-> "alive", started |-> InstTs(k + 1), seen |-> InstTs(k + 1) ]
  BY <1>7, <1>8, <1>9 DEF InstanceAfter, InstanceTypes
<1>11. ASSUME s.status # "none"
       PROVE  /\ t.status = IF StartsAt(k + 1) THEN "alive"
                            ELSE IF StopsAt(k + 1) THEN "stopped" ELSE s.status
              /\ t.started = IF StartsAt(k + 1) THEN Earlier(s.started, InstTs(k + 1))
                                                ELSE s.started
              /\ t.seen = IF Sign(k + 1) THEN Later(s.seen, InstTs(k + 1)) ELSE s.seen
  <2>1. CASE ~Sign(k + 1)
    BY <1>7, <1>9, <2>1
  <2>2. CASE Sign(k + 1) /\ what = "InstanceStarted"
    BY <1>7, <1>9, <1>11, <2>2 DEF InstanceAfter
  <2>3. CASE Sign(k + 1) /\ what = "InstanceHeartbeat"
    BY <1>6, <1>7, <1>9, <1>11, <2>3 DEF InstanceAfter, SpineInstance
  <2>4. CASE Sign(k + 1) /\ what = "InstanceStopped"
    BY <1>6, <1>7, <1>9, <1>11, <2>4 DEF InstanceAfter, SpineInstance
  <2> QED
    BY <1>8, <2>1, <2>2, <2>3, <2>4 DEF InstanceTypes
<1> HIDE DEF L, s, t, what
<1>12. /\ 1..(k + 1) \subseteq 1..L /\ 1..k \subseteq 1..(k + 1)
       /\ \A n \in 1..(k + 1) : n \in 1..k \/ n = k + 1
       /\ \A n \in 1..L : n \notin 1..k => k + 1 <= n
       /\ k + 1 <= k + 1 /\ k + 1 \in 1..(k + 1) /\ \A n \in 1..k : n < k + 1
       /\ ~(k + 1 < k + 1)
  BY <1>2, <1>3
\* The status once line k + 1 has set it.
<1>13. ASSUME StartsAt(k + 1), t.status = "alive" PROVE StatusAsOf(k + 1)'
  <2>1. ASSUME NEW n \in 1..(k + 1), \A m \in 1..(k + 1) : StartsAt(m)' => m < n
        PROVE  FALSE
    <3>1. k + 1 < n
      BY <1>5, <1>12, <1>13, <2>1
    <3> QED
      BY <3>1
  <2> QED
    BY <1>13, <2>1 DEF StatusAsOf, t
<1>14. ASSUME StopsAt(k + 1), t.status = "stopped" PROVE StatusAsOf(k + 1)'
  <2>1. StopsAt(k + 1)' /\ ~StartsAt(k + 1)'
    BY <1>5, <1>9, <1>14 DEF what
  <2>2. \A m \in 1..(k + 1) : StartsAt(m)' => m < k + 1
    BY <1>12, <2>1
  <2> QED
    BY <1>12, <1>14, <2>1, <2>2 DEF StatusAsOf, t
<1>15. CASE s.status = "none" /\ ~StartsAt(k + 1)
  <2>1. t = s /\ s = NoInstance /\ \A n \in 1..k : ~StartsAt(n)
    BY <1>3, <1>10, <1>15 DEF InstanceSane, s
  <2>2. \A n \in 1..(k + 1) : ~StartsAt(n)'
    BY <1>5, <1>12, <1>15, <2>1
  <2> QED
    BY <1>3, <1>15, <2>1, <2>2 DEF InstanceSane, t, s
<1>16. CASE s.status = "none" /\ StartsAt(k + 1)
  <2>1. \A n \in 1..k : ~StartsAt(n)
    BY <1>3, <1>16 DEF InstanceSane, s
  <2>2. t.status = "alive" /\ t.started = InstTs(k + 1) /\ t.seen = InstTs(k + 1)
    BY <1>10, <1>16
  <2>3. FirstStart(k + 1)'
    <3>1. k + 1 \in 1..Len(outbox'["inst"]) /\ StartsAt(k + 1)'
      BY <1>3, <1>4, <1>5, <1>16 DEF L
    <3>2. \A n \in 1..Len(outbox'["inst"]) : StartsAt(n)' => k + 1 <= n
      BY <1>4, <1>5, <1>12, <2>1 DEF L
    <3> QED
      BY <3>1, <3>2 DEF FirstStart
  <2>4. LastSeen(k + 1)'
    <3>1. k + 1 \in 1..Len(outbox'["inst"]) /\ Sign(k + 1)' /\ t.seen = InstTs(k + 1)'
      BY <1>3, <1>4, <1>5, <1>9, <1>16, <2>2 DEF L, what
    <3>2. ASSUME NEW n \in 1..(k + 1), k + 1 <= n PROVE InstTs(n)' <= t.seen
      <4>1. n = k + 1
        BY <3>2
      <4>2. InstTs(k + 1) <= InstTs(k + 1)
        BY <1>2, <1>3
      <4> QED
        BY <1>5, <2>2, <4>1, <4>2
    <3> QED
      BY <1>3, <1>12, <3>1, <3>2 DEF LastSeen, t
  <2>5. StatusAsOf(k + 1)'
    BY <1>13, <1>16, <2>2
  <2>6. /\ k + 1 \in 1..Len(outbox'["inst"]) /\ t.status # "none"
        /\ t.started = InstTs(k + 1)' /\ Pos("inst")' <= k + 1
    BY <1>3, <1>4, <1>5, <1>12, <2>2 DEF L
  <2> QED
    BY <2>3, <2>4, <2>5, <2>6 DEF InstanceSane, t
<1>17. CASE s.status # "none"
  <2>1. PICK m \in 1..L : FirstStart(m) /\ s.started = InstTs(m) /\ LastSeen(m)
    BY <1>17 DEF InstanceSane, L, s
  <2>2. PICK q \in 1..L : k <= q /\ StatusAsOf(q)
    BY <1>3, <1>17 DEF InstanceSane, L, s
  <2>3. PICK i \in 1..L : Sign(i) /\ m <= i /\ s.seen = InstTs(i)
    BY <2>1 DEF LastSeen, L, s
  <2>4. \A n \in 1..k : Sign(n) /\ m <= n => InstTs(n) <= s.seen
    BY <1>3, <2>1 DEF LastSeen, s
  <2>5. InstTs(m) <= s.seen /\ InstTs(m) \in Nat /\ InstTs(k + 1) \in Nat
    BY <1>2, <1>3, <2>1, <2>3
  <2>6. t.started = InstTs(m)
    <3>1. CASE StartsAt(k + 1)
      <4>1. InstTs(m) <= InstTs(k + 1)
        BY <1>2, <1>3, <2>1, <3>1 DEF FirstStart, L
      <4>2. t.started = Earlier(InstTs(m), InstTs(k + 1))
        BY <1>11, <1>17, <2>1, <3>1
      <4> QED
        BY <2>5, <4>1, <4>2 DEF Earlier
    <3>2. CASE ~StartsAt(k + 1)
      BY <1>11, <1>17, <2>1, <3>2
    <3> QED
      BY <3>1, <3>2
  <2>7. FirstStart(m)'
    BY <1>4, <1>5, <2>1 DEF FirstStart
  <2>8. LastSeen(m)'
    <3>1. /\ t.seen \in Nat /\ s.seen <= t.seen
          /\ Sign(k + 1) => InstTs(k + 1) <= t.seen
          /\ \/ t.seen = s.seen
             \/ Sign(k + 1) /\ s.seen < InstTs(k + 1) /\ t.seen = InstTs(k + 1)
      <4> DEFINE z == InstTs(k + 1)
      <4>1. t.seen = IF Sign(k + 1) THEN Later(s.seen, z) ELSE s.seen
        BY <1>11, <1>17
      <4>2. s.seen \in Nat /\ z \in Nat
        BY <1>6, <2>5
      <4> HIDE DEF z
      <4>3. /\ Later(s.seen, z) \in Nat /\ s.seen <= Later(s.seen, z)
            /\ z <= Later(s.seen, z) /\ s.seen <= s.seen
            /\ Later(s.seen, z) = s.seen \/ (s.seen < z /\ Later(s.seen, z) = z)
        BY <4>2, LaterOf
      <4>4. CASE Sign(k + 1)
        BY <4>1, <4>2, <4>3, <4>4 DEF z
      <4>5. CASE ~Sign(k + 1)
        BY <4>1, <4>2, <4>3, <4>5 DEF z
      <4> QED
        BY <4>4, <4>5
    <3>2. \E n \in 1..L : Sign(n) /\ m <= n /\ t.seen = InstTs(n)
      <4>1. CASE t.seen = s.seen
        BY <2>3, <4>1
      <4>2. CASE Sign(k + 1) /\ s.seen < InstTs(k + 1) /\ t.seen = InstTs(k + 1)
        <5>1. ~(k + 1 <= m)
          <6>1. k + 1 <= m => InstTs(k + 1) <= InstTs(m)
            BY <1>2, <1>3, <2>1
          <6> QED
            BY <1>6, <2>5, <4>2, <6>1
        <5>2. m <= k + 1
          BY <1>2, <5>1
        <5> QED
          BY <1>3, <4>2, <5>2
      <4> QED
        BY <3>1, <4>1, <4>2
    <3>3. ASSUME NEW n \in 1..(k + 1), Sign(n), m <= n PROVE InstTs(n) <= t.seen
      <4>1. CASE n = k + 1
        BY <3>1, <3>3, <4>1
      <4>2. CASE n \in 1..k
        <5>1. InstTs(n) <= s.seen /\ InstTs(n) \in Nat
          BY <1>2, <1>12, <2>4, <3>3, <4>2
        <5> QED
          BY <1>6, <3>1, <5>1
      <4> QED
        BY <1>12, <4>1, <4>2
    <3> QED
      BY <1>3, <1>4, <1>5, <3>2, <3>3 DEF LastSeen, L, t
  <2>9. t.status # "none" /\ m \in 1..Len(outbox'["inst"]) /\ t.started = InstTs(m)'
    BY <1>4, <1>5, <1>11, <1>17, <2>6 DEF L
  <2>10. \E j \in 1..L : k + 1 <= j /\ StatusAsOf(j)'
    <3>1. CASE StartsAt(k + 1) \/ StopsAt(k + 1)
      <4>1. StatusAsOf(k + 1)'
        BY <1>9, <1>11, <1>13, <1>14, <1>17, <3>1
      <4> QED
        BY <1>3, <1>12, <4>1
    <3>2. CASE ~StartsAt(k + 1) /\ ~StopsAt(k + 1)
      <4>1. t.status = s.status
        BY <1>11, <1>17, <3>2
      <4>2. CASE k + 1 <= q
        <5>1. StatusAsOf(q)'
          BY <1>5, <2>2, <4>1 DEF StatusAsOf, s, t
        <5> QED
          BY <4>2, <5>1
      <4>3. CASE ~(k + 1 <= q)
        <5>1. q = k
          BY <1>2, <2>2, <4>3
        <5>2. \A n \in 1..(k + 1) : /\ StartsAt(n)' => n \in 1..k /\ StartsAt(n)
                                    /\ StopsAt(n)' => n \in 1..k /\ StopsAt(n)
          BY <1>5, <1>12, <3>2
        <5>3. \A n \in 1..k : /\ n \in 1..(k + 1) /\ StartsAt(n)' = StartsAt(n)
                              /\ StopsAt(n)' = StopsAt(n)
          BY <1>5, <1>12
        <5>4. StatusAsOf(k)
          BY <2>2, <5>1
        <5>5. StatusAsOf(k + 1)'
          BY <4>1, <5>2, <5>3, <5>4 DEF StatusAsOf, s, t
        <5> QED
          BY <1>3, <1>12, <5>5
      <4> QED
        BY <4>2, <4>3
    <3> QED
      BY <3>1, <3>2
  <2> QED
    BY <1>3, <1>4, <2>7, <2>8, <2>9, <2>10 DEF InstanceSane, L, t
<1> QED
  BY <1>15, <1>16, <1>17

-----------------------------------------------------------------------------
(* The rows of assignment                                                  *)

\* The rows of a day after resolve_org_ids are those it had, or a new one.
LEMMA DayAfter ==
    ASSUME OutboxTypeOK, NEW line \in OutboxLine, NEW key \in IdKey
    PROVE  /\ \A a \in assignment : \E b \in AssignmentAfter(line, key) :
                 b.day = a.day /\ b.status = a.status
           /\ \A b \in AssignmentAfter(line, key) :
                 \/ \E a \in assignment : a.day = b.day /\ a.status = b.status
                 \/ OfDay(b.day) = {} /\ b.day = Day(line.ts) /\ b.status = "active"
           /\ \E b \in AssignmentAfter(line, key) : b.day = Day(line.ts)
<1> DEFINE d == Day(line.ts)
           new == [ day |-> d, inst |-> line.body.inst, key |-> key, status |-> "active" ]
<1>1. CASE OfDay(d) = {}
  <2>1. AssignmentAfter(line, key) = assignment \cup {new}
    BY <1>1 DEF AssignmentAfter
  <2>2. new.day = d /\ new.status = "active"
    OBVIOUS
  <2> HIDE DEF new
  <2> QED
    BY <1>1, <2>1, <2>2
<1>2. CASE OfDay(d) # {}
  <2> DEFINE g(a) == IF a.day = d /\ a.key = NoKey THEN [ a EXCEPT !.key = key ] ELSE a
  <2>1. AssignmentAfter(line, key) = { g(a) : a \in assignment }
    BY <1>2 DEF AssignmentAfter
  <2>2. \A a \in assignment : g(a).day = a.day /\ g(a).status = a.status
    BY DEF OutboxTypeOK, Assignment
  <2>3. PICK a \in assignment : a.day = d
    BY <1>2 DEF OfDay
  <2> HIDE DEF g
  <2> QED
    BY <2>1, <2>2, <2>3
<1> QED
  BY <1>1, <1>2

\* What a transaction does to the rows: each day keeps its own, an end makes
\* them done, and nothing else does.
LEMMA RowsAfter ==
    ASSUME OutboxInv, NEW f \in OutboxFile, NEW n, NEW line \in OutboxLine,
           IngestLine(f, n, line)
    PROVE  /\ \A d : AllDone(d) => AllDone(d)'
           /\ line.body.type = "event" /\ line.body.what \in DoneTypes
                => AllDone(Day(line.ts))'
           /\ \A b \in assignment' : b.status = "done" =>
                 \/ \E a \in assignment : a.day = b.day /\ a.status = "done"
                 \/ /\ line.body.type = "event" /\ line.body.what \in DoneTypes
                    /\ b.day = Day(line.ts)
<1>0. /\ OutboxTypeOK /\ line.body.key \in IdKey /\ NoKey \in IdKey
  <2>1. line.body \in LineBody /\ NoKey \in IdKey /\ OutboxTypeOK
    BY DEF OutboxLine, IdKey, OutboxInv
  <2> QED
    BY <2>1 DEF LineBody
<1>1. CASE UNCHANGED assignment /\ line.body.type # "event"
  BY <1>1 DEF AllDone, OfDay
<1>2. CASE line.body.type = "cost" /\ IngestCost(f, n, line)
  <2>1. assignment' = AssignmentAfter(line, line.body.key)
    BY <1>2 DEF IngestCost
  <2>2. ASSUME NEW d, AllDone(d) PROVE AllDone(d)'
    BY <1>0, <2>1, <2>2, DayAfter DEF AllDone, OfDay
  <2>3. \A b \in assignment' : b.status = "done" =>
            \E a \in assignment : a.day = b.day /\ a.status = "done"
    BY <1>0, <2>1, DayAfter
  <2> QED
    BY <1>2, <2>2, <2>3
<1>3. CASE line.body.type = "event" /\ IngestEvent(f, n, line)
  <2> DEFINE ends == line.body.what \in DoneTypes
             A == AssignmentAfter(line, NoKey)
             g(a) == IF a.day = Day(line.ts) /\ ends THEN [ a EXCEPT !.status = "done" ]
                                                     ELSE a
  <2>1. assignment' = { g(a) : a \in A }
    BY <1>3 DEF IngestEvent
  <2>2. \A a \in A : /\ g(a).day = a.day
                     /\ a.status = "done" => g(a).status = "done"
                     /\ ends /\ a.day = Day(line.ts) => g(a).status = "done"
                     /\ ~(ends /\ a.day = Day(line.ts)) => g(a).status = a.status
    <3>1. A \subseteq Assignment
      BY <1>0, AssignmentType
    <3> QED
      BY <3>1 DEF Assignment
  <2>3. /\ \A a \in assignment : \E b \in A : b.day = a.day /\ b.status = a.status
        /\ \A b \in A : \/ \E a \in assignment : a.day = b.day /\ a.status = b.status
                        \/ /\ OfDay(b.day) = {} /\ b.day = Day(line.ts)
                           /\ b.status = "active"
        /\ \E b \in A : b.day = Day(line.ts)
    BY <1>0, DayAfter
  <2> HIDE DEF A, g, ends
  <2>4. ASSUME NEW d, AllDone(d) PROVE AllDone(d)'
    BY <2>1, <2>2, <2>3, <2>4 DEF AllDone, OfDay
  <2>5. ends => AllDone(Day(line.ts))'
    BY <2>1, <2>2, <2>3 DEF AllDone, OfDay
  <2>6. ASSUME NEW b \in assignment', b.status = "done",
               ~(ends /\ b.day = Day(line.ts))
        PROVE  \E a \in assignment : a.day = b.day /\ a.status = "done"
    BY <2>1, <2>2, <2>3, <2>6
  <2> QED
    BY <1>3, <2>4, <2>5, <2>6 DEF ends
<1>4. CASE line.body.type = "instance" /\ IngestInstance(line)
  BY <1>1, <1>4 DEF IngestInstance
<1>5. CASE line.body.type = "engagement" /\ IngestEngagement(n, line)
  BY <1>1, <1>5 DEF IngestEngagement
<1>6. CASE line.body.type = "other" /\ UNCHANGED tables
  BY <1>1, <1>6 DEF tables
<1> QED
  BY <1>2, <1>3, <1>4, <1>5, <1>6 DEF IngestLine

LEMMA AssignmentStep ==
    ASSUME OutboxInv, LinesInPlace, AssignmentSane, [OutboxNext]_outboxVars
    PROVE  AssignmentSane'
<1> DEFINE L == Len(outbox["role"])  M == Len(outbox'["role"])
           p == Pos("role")  r == Pos("role")'
<1>1. "role" \in OutboxFile /\ "inst" \in OutboxFile
  BY DEF OutboxFile
<1>2. L \in Nat /\ M \in Nat /\ L <= M /\ p \in Nat /\ p <= L
  <2>1. L \in Nat /\ M \in Nat /\ M >= L
    BY <1>1, LinesKept
  <2>2. p \in Nat /\ p <= L
    BY <1>1, PosInFile
  <2> QED
    BY <2>1, <2>2
<1>3. \A n \in 1..L : outbox'["role"][n] = outbox["role"][n]
  BY <1>1, LinesKept
<1>4. \A n \in 1..L : \A d : EndsDay(n, d)' <=> EndsDay(n, d)
  BY <1>3 DEF EndsDay
<1>5. r \in Nat
  <2>1. OutboxTypeOK'
    BY OutboxTypeStep DEF OutboxInv
  <2> QED
    BY <1>1, <2>1 DEF Pos, OutboxTypeOK, Drain
<1>6. /\ \A a \in assignment : a.status = "done" =>
            \E n \in 1..L : EndsDay(n, a.day)
      /\ \A n \in 1..p, d \in Nat : EndsDay(n, d) => AllDone(d)
  BY DEF AssignmentSane
<1> HIDE DEF L, M, p, r
<1>7. 1..p \subseteq 1..L /\ 1..L \subseteq 1..M
  BY <1>2
\* No row of the table is written.
<1>8. ASSUME UNCHANGED assignment, r <= p
      PROVE  AssignmentSane'
  <2>1. 1..r \subseteq 1..p
    BY <1>2, <1>5, <1>8
  <2>2. \A d : AllDone(d)' = AllDone(d)
    BY <1>8 DEF AllDone, OfDay
  <2>3. \A a \in assignment' : a.status = "done" =>
            \E n \in 1..M : EndsDay(n, a.day)'
    BY <1>4, <1>6, <1>7, <1>8
  <2>4. \A n \in 1..r, d \in Nat : EndsDay(n, d)' => AllDone(d)'
    BY <1>4, <1>6, <1>7, <2>1, <2>2
  <2> QED
    BY <2>3, <2>4 DEF AssignmentSane, M, r
<1>9. CASE ApplyLine
  <2> PICK h \in OutboxFile : h = drain.file
    BY DEF OutboxInv, OutboxTypeOK, Drain
  <2> PICK k \in Nat : k = drain.at
    BY DEF OutboxInv, OutboxTypeOK, Drain
  <2> PICK line \in OutboxLine : line = Current
    BY <1>9, CurrentLine DEF OutboxInv, ApplyLine
  <2>1. line = outbox[h][k + 1] /\ IngestLine(h, k + 1, line) /\ k + 1 \in 1..Len(outbox[h])
    BY <1>9, CurrentLine DEF ApplyLine, Current, OutboxInv
  <2>2. CASE h = "inst"
    <3>1. line.body.type \notin { "cost", "event" }
      BY <2>1, <2>2 DEF LinesInPlace
    <3>2. UNCHANGED assignment
      BY <2>1, <3>1 DEF IngestLine, IngestInstance, IngestEngagement, tables
    <3>3. r = p
      BY <1>1, <1>9, <2>2, PosAdvances DEF r, p
    <3> QED
      BY <1>2, <1>8, <3>2, <3>3
  <2>3. CASE h = "role"
    <3>1. p = k /\ r = k + 1
      BY <1>1, <1>9, <2>3, PosAdvances DEF r, p
    <3>2. /\ \A d : AllDone(d) => AllDone(d)'
          /\ line.body.type = "event" /\ line.body.what \in DoneTypes
               => AllDone(Day(line.ts))'
          /\ \A b \in assignment' : b.status = "done" =>
                \/ \E a \in assignment : a.day = b.day /\ a.status = "done"
                \/ /\ line.body.type = "event" /\ line.body.what \in DoneTypes
                   /\ b.day = Day(line.ts)
      BY <2>1, RowsAfter
    <3>3. k + 1 \in 1..L /\ line = outbox["role"][k + 1]
      BY <2>1, <2>3 DEF L
    <3>4. line = outbox'["role"][k + 1]
      BY <1>3, <3>3
    <3>5. \A d : EndsDay(k + 1, d)' <=> /\ line.body.type = "event"
                                       /\ line.body.what \in DoneTypes
                                       /\ Day(line.ts) = d
      BY <3>4 DEF EndsDay
    <3>6. ASSUME NEW b \in assignment', b.status = "done"
          PROVE  \E n \in 1..M : EndsDay(n, b.day)'
      <4>1. CASE \E a \in assignment : a.day = b.day /\ a.status = "done"
        BY <1>4, <1>6, <1>7, <4>1
      <4>2. CASE /\ line.body.type = "event" /\ line.body.what \in DoneTypes
                 /\ b.day = Day(line.ts)
        BY <1>7, <3>3, <3>5, <4>2
      <4> QED
        BY <3>2, <3>6, <4>1, <4>2
    <3>7. ASSUME NEW n \in 1..r, NEW d \in Nat, EndsDay(n, d)'
          PROVE  AllDone(d)'
      <4>1. CASE n = k + 1
        <5>1. AllDone(Day(line.ts))' /\ Day(line.ts) = d
          BY <3>2, <3>5, <3>7, <4>1
        <5> QED
          BY <5>1
      <4>2. CASE n # k + 1
        <5>1. n \in 1..p
          BY <1>2, <3>1, <4>2
        <5>2. EndsDay(n, d)
          BY <1>4, <1>7, <3>7, <5>1
        <5> QED
          BY <1>6, <3>2, <5>1, <5>2
      <4> QED
        BY <4>1, <4>2
    <3> QED
      BY <3>6, <3>7 DEF AssignmentSane, M, r
  <2> QED
    BY <2>2, <2>3 DEF OutboxFile
\* "duplicate ingest avoided": a cost, which ends no day.
<1>10. CASE SkipDuplicate
  <2> PICK h \in OutboxFile : h = drain.file
    BY DEF OutboxInv, OutboxTypeOK, Drain
  <2> PICK k \in Nat : k = drain.at
    BY DEF OutboxInv, OutboxTypeOK, Drain
  <2>1. /\ outbox[h][k + 1].body.type = "cost" /\ k + 1 \in 1..Len(outbox[h])
        /\ UNCHANGED assignment
    BY <1>10, CurrentLine
       DEF SkipDuplicate, TakenForDuplicate, Current, OutboxInv, tables
  <2>2. h = "role"
    BY <2>1 DEF LinesInPlace, OutboxFile
  <2>3. p = k /\ r = k + 1
    BY <1>1, <1>10, <2>2, PosAdvances DEF r, p
  <2>4. k + 1 \in 1..L /\ \A d : ~EndsDay(k + 1, d)
    BY <2>1, <2>2 DEF EndsDay, L
  <2>5. \A n \in 1..r : n = k + 1 \/ n \in 1..p
    BY <2>3
  <2>6. \A d : AllDone(d)' = AllDone(d)
    BY <2>1 DEF AllDone, OfDay
  <2>7. \A a \in assignment' : a.status = "done" =>
            \E n \in 1..M : EndsDay(n, a.day)'
    BY <1>4, <1>6, <1>7, <2>1
  <2>8. \A n \in 1..r, d \in Nat : EndsDay(n, d)' => AllDone(d)'
    BY <1>4, <1>6, <1>7, <2>4, <2>5, <2>6
  <2> QED
    BY <2>7, <2>8 DEF AssignmentSane, M, r
<1>11. CASE ~ApplyLine /\ ~SkipDuplicate
  <2>1. r <= p /\ UNCHANGED assignment
    BY <1>1, <1>11, PosRetreats DEF r, p, tables
  <2> QED
    BY <1>8, <2>1
<1> QED
  BY <1>9, <1>10, <1>11

-----------------------------------------------------------------------------
(* The tables after any number of replays: the theorem                     *)

LEMMA ReplayInit == OutboxInit => LinesInPlace /\ InstanceSane /\ AssignmentSane
<1> SUFFICES ASSUME OutboxInit PROVE LinesInPlace /\ InstanceSane /\ AssignmentSane
  OBVIOUS
<1>1. /\ Len(outbox["role"]) = 0 /\ Len(outbox["inst"]) = 0
      /\ Pos("role") = 0 /\ Pos("inst") = 0 /\ assignment = {}
      /\ spineInstance = NoInstance /\ NoInstance.status = "none"
  BY DEF OutboxInit, OutboxFile, Pos, StartOfTick, NoInstance
<1> QED
  BY <1>1 DEF LinesInPlace, InstanceSane, AssignmentSane

LEMMA InstanceStep ==
    ASSUME OutboxInv, LinesInPlace, InstanceSane, [OutboxNext]_outboxVars, OutboxInv'
    PROVE  InstanceSane'
<1>1. /\ "inst" \in OutboxFile /\ Pos("inst") \in Nat
      /\ OutboxTypeOK /\ LinesSane /\ DrainSane /\ drain.file \in OutboxFile
  BY PosInFile DEF OutboxFile, OutboxInv, OutboxTypeOK, Drain
<1>2. CASE ApplyLine /\ drain.file = "inst"
  BY <1>2, InstanceLine
<1>3. CASE ApplyLine /\ drain.file # "inst"
  <2>1. Pos("inst")' <= Pos("inst")
    <3>1. Pos("inst")' = Pos("inst")
      BY <1>1, <1>3, PosAdvances
    <3> QED
      BY <1>1, <3>1
  <2>2. Current.body.type \notin { "instance", "engagement" }
    BY <1>1, <1>3, CurrentLine DEF LinesInPlace, OutboxFile, ApplyLine, Current
  <2>3. IngestLine(drain.file, drain.at + 1, Current)
    BY <1>3 DEF ApplyLine
  <2>4. spineInstance' = spineInstance
    BY <2>2, <2>3 DEF IngestLine, IngestCost, IngestEvent, tables
  <2> QED
    BY <2>1, <2>4, InstanceKept
<1>4. CASE SkipDuplicate
  <2>1. drain.file # "inst"
    <3>1. Current.body.type = "cost" /\ InBatch
      BY <1>4 DEF SkipDuplicate, TakenForDuplicate
    <3> QED
      BY <1>1, <3>1, CurrentLine DEF LinesInPlace, Current
  <2>2. Pos("inst")' = Pos("inst") /\ spineInstance' = spineInstance
    BY <1>1, <1>4, <2>1, PosAdvances DEF SkipDuplicate, tables
  <2>3. Pos("inst")' <= Pos("inst")
    BY <1>1, <2>2
  <2> QED
    BY <2>2, <2>3, InstanceKept
<1>5. CASE ~ApplyLine /\ ~SkipDuplicate
  <2>1. Pos("inst")' <= Pos("inst") /\ spineInstance' = spineInstance
    BY <1>1, <1>5, PosRetreats DEF tables
  <2> QED
    BY <2>1, InstanceKept
<1> QED
  BY <1>2, <1>3, <1>4, <1>5

\* A set of line numbers that is not empty has a greatest one.
LEMMA LastOf ==
    ASSUME NEW k \in Nat, NEW S \in SUBSET (1..k), S # {}
    PROVE  \E n \in S : \A m \in S : m <= n
<1> DEFINE R == OpToRel(<, Nat)
           back == { k - n : n \in S }
<1>1. IsWellFoundedOn(R, Nat)
  BY NatLessThanWellFounded
<1>2. \A x, y \in Nat : x < y => << x, y >> \in R
  BY DEF OpToRel
<1>3. back \subseteq Nat /\ back # {}
  <2>1. \A n \in S : k - n \in Nat
    OBVIOUS
  <2> QED
    BY <2>1
<1> HIDE DEF R
<1>4. PICK b \in back : \A c \in back : ~(<< c, b >> \in R)
  BY <1>1, <1>3, WFMin
<1>5. PICK n \in S : b = k - n
  BY <1>4
<1>6. ASSUME NEW m \in S PROVE m <= n
  <2>1. k - m \in back /\ k - m \in Nat /\ b \in Nat
    BY <1>3
  <2>2. ~(k - m < b)
    BY <1>2, <1>4, <2>1
  <2> HIDE DEF back
  <2>3. m \in Nat /\ n \in Nat /\ m <= k /\ n <= k
    OBVIOUS
  <2> QED
    BY <1>5, <2>2, <2>3
<1> QED
  BY <1>6

LEMMA InstanceIsExact ==
    ASSUME OutboxInv, LinesInPlace, InstanceSane, CaughtUp
    PROVE  InstanceExact
<1> DEFINE L == Len(outbox["inst"])
           starts == Ons({"InstanceStarted"})
           first  == CHOOSE n \in starts : \A m \in starts : n <= m
           signs  == { n \in Ons(InstanceTypes) : n >= first }
           last   == CHOOSE n \in signs : \A m \in signs : m <= n
<1>1. /\ L \in Nat
      /\ \A n \in 1..L : InstTs(n) \in Nat
      /\ \A n \in 1..L : Sign(n) => outbox["inst"][n].body.what \in InstanceTypes
      /\ \A n, m \in 1..L : m <= n => InstTs(m) <= InstTs(n)
  BY StampsType
<1>2. Pos("inst") = L
  <2>1. /\ Pos("inst") \in Nat /\ Pos("inst") <= L /\ cursor["inst"] <= Pos("inst")
        /\ cursor["inst"] = L
    BY PosInFile DEF CaughtUp, OutboxFile
  <2> QED
    BY <1>1, <2>1
<1>3. DOMAIN outbox["inst"] = 1..L
  BY DEF OutboxInv, OutboxTypeOK, OutboxFile
<1>4. /\ starts = { n \in 1..L : StartsAt(n) }
      /\ Ons(InstanceTypes) = { n \in 1..L : Sign(n) }
  BY <1>1, <1>3 DEF Ons, InstLine, StartsAt, Sign
<1>5. \A n : InstLine(n).ts = InstTs(n) /\ InstLine(n) = outbox["inst"][n]
  BY DEF InstLine, InstTs
<1>6. CASE starts = {}
  <2>1. spineInstance.status = "none"
    BY <1>4, <1>6 DEF InstanceSane, FirstStart
  <2> QED
    BY <1>6, <2>1 DEF InstanceExact, InstanceSane
<1>7. CASE starts # {}
  <2>1. spineInstance.status # "none"
    BY <1>2, <1>4, <1>7 DEF InstanceSane
  <2>2. PICK f \in 1..L : FirstStart(f) /\ spineInstance.started = InstTs(f) /\ LastSeen(f)
    BY <2>1 DEF InstanceSane
  <2>3. PICK q \in 1..L : L <= q /\ StatusAsOf(q)
    BY <1>2, <2>1 DEF InstanceSane
  <2>4. q = L
    BY <1>1, <2>3
  <2>5. first = f
    <3>1. f \in starts /\ \A m \in starts : f <= m
      BY <1>4, <2>2 DEF FirstStart
    <3>2. first \in starts /\ \A m \in starts : first <= m
      BY <3>1
    <3>3. first <= f /\ f <= first /\ first \in 1..L
      BY <1>4, <3>1, <3>2
    <3> HIDE DEF first
    <3> QED
      BY <1>1, <3>3
  <2>6. signs = { n \in 1..L : Sign(n) /\ f <= n }
    <3>1. \A n \in 1..L : n >= f <=> f <= n
      BY <1>1
    <3> HIDE DEF first
    <3> QED
      BY <1>4, <2>5, <3>1
  <2>7. PICK i \in 1..L : Sign(i) /\ f <= i /\ spineInstance.seen = InstTs(i)
    BY <2>2 DEF LastSeen
  <2>8. i \in signs /\ signs \subseteq 1..L
    BY <2>6, <2>7
  <2> HIDE DEF starts, first, signs
  <2>9. last \in signs /\ \A m \in signs : m <= last
    <3>1. \E n \in signs : \A m \in signs : m <= n
      BY <1>1, <2>8, LastOf
    <3> QED
      BY <3>1
  <2> HIDE DEF last
  <2>10. spineInstance.seen = InstTs(last)
    <3>1. InstTs(last) <= InstTs(i)
      BY <1>2, <2>2, <2>6, <2>7, <2>9 DEF LastSeen
    <3>2. InstTs(i) <= InstTs(last)
      BY <1>1, <2>8, <2>9
    <3> QED
      BY <1>1, <2>7, <2>8, <2>9, <3>1, <3>2
  <2>11. spineInstance.status = "stopped" <=>
            \E n \in signs : StopsAt(n) /\ \A m \in starts : m < n
    <3>1. ASSUME NEW n \in 1..L, StopsAt(n), \A m \in 1..L : StartsAt(m) => m < n
          PROVE  n \in signs
      <4>1. f < n
        BY <2>2, <3>1 DEF FirstStart
      <4>2. f <= n
        BY <1>1, <4>1
      <4> QED
        BY <2>6, <3>1, <4>2 DEF StopsAt
    <3>2. spineInstance.status = "stopped" <=>
            \E n \in 1..L : StopsAt(n) /\ \A m \in 1..L : StartsAt(m) => m < n
      BY <2>3, <2>4 DEF StatusAsOf
    <3>3. \A m : m \in starts <=> m \in 1..L /\ StartsAt(m)
      BY <1>4
    <3> QED
      BY <2>8, <3>1, <3>2, <3>3
  <2>12. \A n \in signs : StopsAt(n) <=> InstLine(n).body.what = "InstanceStopped"
    BY <1>5, <2>6 DEF StopsAt
  <2>13. spineInstance.status = "stopped" <=>
            \E n \in signs : /\ InstLine(n).body.what = "InstanceStopped"
                             /\ \A m \in starts : m < n
    BY <2>11, <2>12
  <2>14. spineInstance.started = InstLine(first).ts /\ spineInstance.seen = InstLine(last).ts
    BY <1>5, <2>2, <2>5, <2>10
  <2> QED
    BY <1>7, <2>13, <2>14 DEF InstanceExact, starts, first, signs, last
<1> QED
  BY <1>6, <1>7

LEMMA AssignmentIsExact ==
    ASSUME OutboxInv, AssignmentSane, CaughtUp
    PROVE  AssignmentExact
<1> DEFINE L == Len(outbox["role"])
<1>1. /\ Pos("role") \in Nat /\ Pos("role") <= L /\ cursor["role"] <= Pos("role")
      /\ cursor["role"] = L /\ L \in Nat
  BY PosInFile DEF CaughtUp, OutboxFile
<1>2. Pos("role") = L
  BY <1>1
<1>3. DOMAIN outbox["role"] = 1..L
  BY DEF OutboxInv, OutboxTypeOK, OutboxFile
<1>4. \A n \in 1..L, d \in Nat : EndsDay(n, d) => AllDone(d)
  BY <1>2 DEF AssignmentSane
<1>5. \A a \in assignment : /\ a.day \in Nat
                            /\ a.status = "done" => \E n \in 1..L : EndsDay(n, a.day)
  BY DEF AssignmentSane, OutboxInv, OutboxTypeOK, Assignment
<1> QED
  BY <1>3, <1>4, <1>5 DEF AssignmentExact, EndsDay, RoleLine, AllDone, OfDay

\* Nothing is read yet.
LEMMA ReplayStarts == OutboxInit => ReplayInv
BY OutboxTypeInit, LinesInit, ReplayInit DEF ReplayInv, OutboxInv

\* Every step of the daemons and of the watcher keeps the tables between what
\* the cursor stands for and what the files say.
LEMMA ReplayInductive == ReplayInv /\ [OutboxNext]_outboxVars => ReplayInv'
<1> SUFFICES ASSUME ReplayInv, [OutboxNext]_outboxVars PROVE ReplayInv'
  OBVIOUS
<1>1. OutboxInv'
  BY OutboxTypeStep, LinesStep, PassedStep DEF ReplayInv, OutboxInv
<1> QED
  BY <1>1, InPlaceStep, InstanceStep, AssignmentStep DEF ReplayInv

LEMMA ReplayIsExact == ReplayInv => ReplayExact
BY InstanceIsExact, AssignmentIsExact DEF ReplayInv, ReplayExact

\* Replays of drain_file are harmless to what readers see: however often a lost
\* connection or a death made the watcher go over lines again, once both files
\* are read to their end the row of spine_instance and the status of every
\* assignment are what the whole files say, for any lines of any daemons.
THEOREM OutboxReplay == OutboxSpec => []ReplayExact
BY ReplayStarts, ReplayInductive, ReplayIsExact, PTL DEF OutboxSpec
=============================================================================
