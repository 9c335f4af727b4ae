------------------------- MODULE HubPipelineProofs -------------------------
(***************************************************************************)
(* Proofs about HubPipeline, for any set of presets and any number of      *)
(* failures, rejections, restarts and races of the watcher: the strict     *)
(* policy holds the release for a person, and no acknowledgement loses the *)
(* project.                                                                *)
(***************************************************************************)
EXTENDS HubPipeline, TLAPS

-----------------------------------------------------------------------------
(* The inductive invariants                                                *)

Gate  == "release_gate_approval"
Late  == { "acceptance", "released" }
Early == Phases \ Late

\* Kinds whose hook moves the phase, besides the gate's.
Advancing == { "prd_approval", "sprint_plan_approval", "devops_approval",
               "qa_approval" }

\* A coroutine moves to acceptance and release only for a release gate, has
\* moved before it delivers, and carries the approval_card_kind of its kind
\* or none.
Sane(t) ==
    /\ t.kind = Gate =>
          t.moves \in { << "acceptance", "released" >>, << "released" >>, << >> }
    /\ t.kind # Gate => t.moves \in Seq(Early)
    /\ t.kind \notin Advancing \cup {Gate} => t.moves = << >>
    /\ t.pc = "deliver" => t.kind \in DispatchKind /\ t.moves = << >>
    /\ t.card \in { None, ApprovalCard(t.kind) }
    /\ t.kind \in { "code_review_pass", "qa_approval" } => t.card # None

TasksSane == \A s \in Slot : Sane(tasks[s])

\* The watcher dispatches what its rules name.
DueByRule == due \subseteq { r.kind : r \in WatchRules }

\* Under the strict policy the runner has not opened the gate, and whatever
\* is at the gate or past it got there by a person's acknowledgement.
GateHeld ==
    preset = "strict" =>
        /\ opened # "runner"
        /\ phase \in Late => opened = "person"
        /\ \A s \in Slot : tasks[s].kind = Gate => opened = "person"

\* What carries a project on: every kind that is dispatched but a deployment,
\* and a release gate until the project is released.
Carrying == (DispatchKind \ { "local_deploy_prompt" }) \cup UnmappedKind

CarryingTask(t) == /\ t.pc # "idle"
                   /\ t.kind \in Carrying \/ (t.kind = Gate /\ t.moves # << >>)

\* Cards of a deployment, after which nothing needs to come.
DeployCard == { "local_deploy_prompt", "host_deploy_prompt",
                "host_deploy_instructions", "deploy_status", "project_complete" }

CarryingCard(c) == c.kind \notin DeployCard

Carried ==
    ~left /\ crashes = 0 =>
        \/ phase = "released"
        \/ \E c \in Pending : CarryingCard(c)
        \/ \E s \in Slot : CarryingTask(tasks[s])

HubInv == HubTypeOK /\ TasksSane /\ DueByRule /\ GateHeld /\ Carried

-----------------------------------------------------------------------------
(* The operators                                                           *)

LEMMA DispatchKinds ==
    DispatchKind = { "prd_approval", "roadmap_approval", "trd_approval",
                     "sprint_plan_approval", "code_approval", "code_review_pass",
                     "devops_approval", "qa_approval", "local_deploy_prompt" }
BY DEF DispatchKind, Artifact

\* approval_card_kind is a card that carries the project on.
LEMMA ApprovalCards ==
    ASSUME NEW k
    PROVE  ApprovalCard(k) \in (CardKind \ DeployCard) \cup {None}
BY DispatchKinds DEF ApprovalCard, CardKind, DeployCard, None

\* Only a release gate moves to acceptance and release.
LEMMA MovesOf ==
    ASSUME NEW k
    PROVE  /\ k = Gate => Moves(k) = << "acceptance", "released" >>
           /\ k # Gate => Moves(k) \in Seq(Early)
           /\ k \notin Advancing \cup {Gate} => Moves(k) = << >>
           /\ Moves(k) \in Seq(Phases)
<1>1. /\ { "plan_in_progress", "plan_approved", "build_in_progress",
           "build_complete", "verify_in_progress", "verify_approved" } \subseteq Early
      /\ Late \subseteq Phases /\ Early \subseteq Phases
    BY DEF Early, Late, Phases
<1>2. CASE k \notin Advancing \cup {Gate}
    <2>1. Moves(k) = << >>
        BY <1>2 DEF Moves, Advancing, Gate
    <2> QED
        BY <1>2, <2>1
<1>3. CASE k = "prd_approval"
    <2>1. Moves(k) = << "plan_in_progress" >>
        BY <1>3 DEF Moves
    <2>2. Moves(k) \in Seq(Early) /\ Moves(k) \in Seq(Phases)
        BY <1>1, <2>1
    <2> QED
        BY <1>3, <2>2 DEF Gate, Advancing
<1>4. CASE k = "sprint_plan_approval"
    <2>1. Moves(k) = << "plan_approved", "build_in_progress" >>
        BY <1>4 DEF Moves
    <2>2. Moves(k) \in Seq(Early) /\ Moves(k) \in Seq(Phases)
        BY <1>1, <2>1
    <2> QED
        BY <1>4, <2>2 DEF Gate, Advancing
<1>5. CASE k = "devops_approval"
    <2>1. Moves(k) = << "build_complete", "verify_in_progress" >>
        BY <1>5 DEF Moves
    <2>2. Moves(k) \in Seq(Early) /\ Moves(k) \in Seq(Phases)
        BY <1>1, <2>1
    <2> QED
        BY <1>5, <2>2 DEF Gate, Advancing
<1>6. CASE k = "qa_approval"
    <2>1. Moves(k) = << "verify_approved" >>
        BY <1>6 DEF Moves
    <2>2. Moves(k) \in Seq(Early) /\ Moves(k) \in Seq(Phases)
        BY <1>1, <2>1
    <2> QED
        BY <1>6, <2>2 DEF Gate, Advancing
<1>7. CASE k = Gate
    <2>1. Moves(k) = << "acceptance", "released" >>
        BY <1>7 DEF Moves, Gate
    <2> QED
        BY <1>1, <1>7, <2>1 DEF Late
<1> QED
    BY <1>2, <1>3, <1>4, <1>5, <1>6, <1>7 DEF Advancing

LEMMA IdleTask == Idle \in Task /\ Sane(Idle) /\ ~CarryingTask(Idle) /\ Idle.kind # Gate
BY DispatchKinds DEF Idle, Task, Sane, CarryingTask, Gate, None, Advancing

\* The task of a hook.
LEMMA HookTask ==
    ASSUME NEW k \in CardKind
    PROVE  LET r == Run(k, Moves(k), ApprovalCard(k))
           IN  r \in Task /\ Sane(r)
<1> DEFINE r == Run(k, Moves(k), ApprovalCard(k))
<1>1. r \in Task
    BY MovesOf, ApprovalCards DEF Run, Task
<1>2. Sane(r)
    BY MovesOf DEF Run, Sane, ApprovalCard, None
<1> QED
    BY <1>1, <1>2

\* A task that does not move the phase.
LEMMA DispatchTask ==
    ASSUME NEW k \in DispatchKind \cup UnmappedKind,
           NEW a \in { None, ApprovalCard(k) },
           k \in { "code_review_pass", "qa_approval" } => a # None
    PROVE  /\ Run(k, << >>, a) \in Task
           /\ Sane(Run(k, << >>, a))
           /\ Run(k, << >>, a).kind # Gate
<1>1. << >> \in Seq(Phases) /\ << >> \in Seq(Early)
    OBVIOUS
<1>2. k # Gate
    BY DispatchKinds DEF Gate, UnmappedKind
<1>3. Run(k, << >>, a) \in Task
    BY <1>1, ApprovalCards DEF Run, Task, CardKind
<1>4. Sane(Run(k, << >>, a))
    BY <1>1, <1>2 DEF Run, Sane
<1> QED
    BY <1>2, <1>3, <1>4 DEF Run

LEMMA RegenerateTask ==
    LET r == Run("regenerate", << >>, None)
    IN  r \in Task /\ Sane(r) /\ r.kind # Gate
BY DEF Run, Task, Sane, Gate, None

\* Every retry is of a kind with a role.
LEMMA RetryKinds ==
    ASSUME NEW k, RetryAllowed(k)
    PROVE  k \in DispatchKind /\ (k = "code_review_pass" => ApprovalCard(k) # None)
                             /\ k # "qa_approval"
BY DispatchKinds DEF RetryAllowed, ApprovalCard, None

\* What the rules of the watcher name.
LEMMA RuleKinds ==
    ASSUME NEW r \in WatchRules
    PROVE  /\ r.kind \in DispatchKind \cup UnmappedKind
           /\ r.kind \notin { "code_review_pass", "qa_approval" }
BY DispatchKinds DEF WatchRules, Rule, UnmappedKind

\* A delivered result is a card, and carries the project on unless a
\* deployment delivers it.
LEMMA ResultCards ==
    ASSUME NEW t \in Task, Sane(t), t.pc = "deliver"
    PROVE  /\ ResultCard(t) \in CardKind
           /\ CarryingTask(t) => ResultCard(t) \notin DeployCard
<1>1. CASE t.card # None
    BY <1>1, ApprovalCards DEF ResultCard, Sane
<1>2. CASE t.card = None
    BY <1>2, DispatchKinds DEF ResultCard, Sane, CardKind, DeployCard, CarryingTask,
       Carrying, UnmappedKind, Gate
<1> QED
    BY <1>1, <1>2

-----------------------------------------------------------------------------
(* The queue of cards                                                      *)

LEMMA CardsAdded ==
    ASSUME HubTypeOK, NEW S \in SUBSET Card, cards' = cards (+) SetToBag(S)
    PROVE  /\ IsABag(cards') /\ BagToSet(cards') \subseteq Card
           /\ Pending' = Pending \cup S
<1>1. IsABag(cards) /\ BagToSet(cards) \subseteq Card
    BY DEF HubTypeOK
<1>2. IsABag(cards (+) SetToBag(S))
    BY <1>1 DEF (+), BagToSet, SetToBag, IsABag
<1>3. BagToSet(cards (+) SetToBag(S)) = BagToSet(cards) \cup S
    BY DEF (+), BagToSet, SetToBag
<1> QED
    BY <1>1, <1>2, <1>3 DEF Pending

LEMMA CardsEnqueued ==
    ASSUME HubTypeOK, NEW K \in SUBSET CardKind, Enqueue(K)
    PROVE  /\ IsABag(cards') /\ BagToSet(cards') \subseteq Card
           /\ Pending \subseteq Pending'
           /\ \A k \in K : CardOf(k) \in Pending'
<1> DEFINE S == { CardOf(k) : k \in K }
<1>1. S \in SUBSET Card
    BY DEF CardOf, Card
<1>2. cards' = cards (+) SetToBag(S)
    BY DEF Enqueue
<1> HIDE DEF S
<1>3. /\ IsABag(cards') /\ BagToSet(cards') \subseteq Card
      /\ Pending' = Pending \cup S
    BY <1>1, <1>2, CardsAdded
<1> QED
    BY <1>3 DEF S

LEMMA CardClosed ==
    ASSUME HubTypeOK, NEW c, cards' = Close(c)
    PROVE  /\ IsABag(cards') /\ BagToSet(cards') \subseteq Card
           /\ Pending \ {c} \subseteq Pending'
<1>1. IsABag(cards) /\ BagToSet(cards) \subseteq Card
    BY DEF HubTypeOK
<1>2. IsABag(cards (-) SetToBag({c}))
    BY <1>1 DEF (-), BagToSet, SetToBag, IsABag
<1>3. BagToSet(cards (-) SetToBag({c})) \subseteq BagToSet(cards)
    BY <1>1 DEF (-), BagToSet, SetToBag, IsABag
<1>4. BagToSet(cards) \ {c} \subseteq BagToSet(cards (-) SetToBag({c}))
    BY <1>1 DEF (-), BagToSet, SetToBag, IsABag
<1> QED
    BY <1>1, <1>2, <1>3, <1>4 DEF Pending, Close

-----------------------------------------------------------------------------
(* The tasks                                                               *)

\* A write of one task.
LEMMA TaskWrite ==
    ASSUME HubTypeOK, TasksSane, NEW s \in Slot, NEW r \in Task, Sane(r),
           tasks' = [ tasks EXCEPT ![s] = r ]
    PROVE  /\ tasks' \in [ Slot -> Task ]
           /\ TasksSane'
           /\ tasks'[s] = r
           /\ \A u \in Slot : u # s => tasks'[u] = tasks[u]
<1>1. tasks \in [ Slot -> Task ]
    BY DEF HubTypeOK
<1>2. /\ tasks' \in [ Slot -> Task ]
      /\ tasks'[s] = r
      /\ \A u \in Slot : u # s => tasks'[u] = tasks[u]
    BY <1>1
<1>3. TasksSane'
    <2> SUFFICES ASSUME NEW u \in Slot PROVE Sane(tasks'[u])
        BY DEF TasksSane, Sane
    <2> QED
        BY <1>2 DEF TasksSane
<1> QED
    BY <1>2, <1>3

\* A task that is no release gate, or was one, leaves the gate held.
LEMMA GateKept ==
    ASSUME HubTypeOK, TasksSane, GateHeld, NEW s \in Slot, NEW r \in Task, Sane(r),
           tasks' = [ tasks EXCEPT ![s] = r ],
           r.kind = Gate => tasks[s].kind = Gate,
           UNCHANGED << preset, opened >>,
           phase' \in Late => phase \in Late \/ tasks[s].kind = Gate
    PROVE  GateHeld'
BY TaskWrite DEF GateHeld

\* A task that carried the project on still does, or leaves a card that does.
LEMMA CarriedOn ==
    ASSUME HubTypeOK, TasksSane, Carried, NEW s \in Slot, NEW r \in Task, Sane(r),
           tasks' = [ tasks EXCEPT ![s] = r ],
           Pending \subseteq Pending',
           CarryingTask(tasks[s]) =>
               CarryingTask(r) \/ \E c \in Pending' : CarryingCard(c),
           UNCHANGED << phase, left, crashes >>
    PROVE  Carried'
<1> SUFFICES ASSUME ~left', crashes' = 0, phase' # "released",
                    ~ \E c \in Pending' : CarryingCard(c)
             PROVE  \E u \in Slot : CarryingTask(tasks'[u])
    BY DEF Carried, CarryingTask
<1>1. PICK u \in Slot : CarryingTask(tasks[u])
    BY DEF Carried
<1>2. CASE u = s
    <2>1. CarryingTask(tasks'[s])
        BY <1>1, <1>2, TaskWrite
    <2> QED
        BY <2>1
<1>3. CASE u # s
    <2>1. CarryingTask(tasks'[u])
        BY <1>1, <1>3, TaskWrite
    <2> QED
        BY <2>1
<1> QED
    BY <1>2, <1>3

\* The variables a step of a task seldom touches.
LEMMA RestTyped ==
    ASSUME HubTypeOK, DueByRule, UNCHANGED << preset, watch, opened >>
    PROVE  /\ preset' \in Presets
           /\ due' \subseteq (DispatchKind \cup UnmappedKind)
           /\ DueByRule'
           /\ opened' \in { "nobody", "person", "runner" }
BY DEF HubTypeOK, DueByRule, watch

\* A step of a task that moves no phase: no other task becomes a gate, and what
\* carried the project on still does or leaves a card that does.
LEMMA PlainStep ==
    ASSUME HubInv, NEW s \in Slot, NEW r \in Task, Sane(r),
           tasks' = [ tasks EXCEPT ![s] = r ], r.kind = Gate => tasks[s].kind = Gate,
           IsABag(cards'), BagToSet(cards') \subseteq Card, Pending \subseteq Pending',
           CarryingTask(tasks[s]) =>
               CarryingTask(r) \/ \E c \in Pending' : CarryingCard(c),
           UNCHANGED << preset, phase, watch, paused, opened, left, races, rejects,
                        crashes >>,
           fails' \in Nat, md' \subseteq Key, recent' \in {recent, TRUE}
    PROVE  HubInv'
<1> USE DEF HubInv
<1>1. tasks' \in [ Slot -> Task ] /\ TasksSane'
    BY TaskWrite
<1>2. GateHeld'
    BY GateKept
<1>3. Carried'
    BY CarriedOn
<1>4. { cleared, recent, paused, left }' \subseteq BOOLEAN
    BY Zenon DEF HubTypeOK, watch
<1>5. counters' \in Nat \X Nat \X Nat \X Nat
    BY DEF HubTypeOK, counters
<1>6. phase' \in Phases
    BY DEF HubTypeOK
<1> QED
    BY <1>1, <1>2, <1>3, <1>4, <1>5, <1>6, RestTyped DEF HubTypeOK

-----------------------------------------------------------------------------
(* The steps of a task                                                     *)

LEMMA NextMove ==
    ASSUME NEW S, NEW m \in Seq(S), m # << >>
    PROVE  Head(m) \in S /\ Tail(m) \in Seq(S)
OBVIOUS

LEMMA GateMoves ==
    /\ Head(<< "acceptance", "released" >>) = "acceptance"
    /\ Tail(<< "acceptance", "released" >>) = << "released" >>
    /\ Head(<< "released" >>) = "released"
    /\ Tail(<< "released" >>) = << >>
    /\ << "released" >> # << >>
OBVIOUS

LEMMA MovePhaseStep ==
    ASSUME HubInv, NEW s \in Slot, MovePhase(s)
    PROVE  HubInv'
<1> USE DEF HubInv
<1> DEFINE t == tasks[s]
           r == [ t EXCEPT !.moves = Tail(@) ]
<1>1. t \in Task /\ Sane(t) /\ t.pc = "run" /\ t.moves # << >>
    BY DEF HubTypeOK, TasksSane, MovePhase
<1>2. /\ t.kind \in Advancing \cup {Gate}
      /\ t.kind = Gate => t.moves \in { << "acceptance", "released" >>, << "released" >> }
      /\ t.kind # Gate => t.moves \in Seq(Early)
    BY <1>1 DEF Sane
<1>3. t.moves \in Seq(Phases)
    BY <1>1 DEF Task
<1>4. r \in Task /\ r.kind = t.kind /\ r.pc = "run" /\ r.card = t.card
                 /\ r.moves = Tail(t.moves)
    <2>1. Tail(t.moves) \in Seq(Phases)
        BY <1>1, <1>3, NextMove
    <2> QED
        BY <1>1, <2>1 DEF Task
<1>5. /\ t.kind = Gate =>
            \/ Tail(t.moves) = << "released" >> /\ Head(t.moves) = "acceptance"
            \/ Tail(t.moves) = << >> /\ Head(t.moves) = "released"
      /\ t.kind # Gate => Tail(t.moves) \in Seq(Early) /\ Head(t.moves) \in Early
    BY <1>1, <1>2, NextMove, GateMoves
<1>6. Sane(r)
    BY <1>1, <1>2, <1>4, <1>5 DEF Sane
<1>7. tasks' = [ tasks EXCEPT ![s] = r ] /\ phase' = Head(t.moves)
    BY DEF MovePhase, HubTypeOK
<1>8. UNCHANGED << preset, md, cards, watch, recent, paused, opened, left, counters >>
    BY DEF MovePhase
<1> HIDE DEF r
<1>9. tasks' \in [ Slot -> Task ] /\ TasksSane' /\ tasks'[s] = r
    BY <1>4, <1>6, <1>7, TaskWrite
<1>10. phase' \in Phases
    BY <1>1, <1>3, <1>7
<1>11. GateHeld'
    <2>1. phase' \in Late => t.kind = Gate
        BY <1>5, <1>7 DEF Early
    <2> QED
        BY <1>4, <1>6, <1>7, <1>8, <2>1, GateKept
<1>12. Carried'
    <2>1. CASE phase' = "released"
        BY <2>1 DEF Carried
    <2>2. CASE phase' # "released"
        <3>1. CarryingTask(tasks'[s])
            <4>1. CASE r.kind = Gate
                BY <1>4, <1>5, <1>7, <1>9, <2>2, <4>1, GateMoves DEF CarryingTask
            <4>2. CASE r.kind # Gate
                <5>1. r.kind \in Carrying
                    BY <1>2, <1>4, <4>2, DispatchKinds DEF Carrying, Advancing
                <5> QED
                    BY <1>4, <1>9, <5>1 DEF CarryingTask
            <4> QED
                BY <4>1, <4>2
        <3> QED
            BY <3>1 DEF Carried, CarryingTask
    <2> QED
        BY <2>1, <2>2
<1>13. { cleared, recent, paused, left }' \subseteq BOOLEAN
    BY <1>8, Zenon DEF HubTypeOK, watch
<1>14. counters' \in Nat \X Nat \X Nat \X Nat
    BY <1>8 DEF HubTypeOK
<1>15. md' \subseteq Key /\ IsABag(cards') /\ BagToSet(cards') \subseteq Card
    BY <1>8 DEF HubTypeOK
<1> QED
    BY <1>8, <1>9, <1>10, <1>11, <1>12, <1>13, <1>14, <1>15, RestTyped DEF HubTypeOK

\* The counters and the kind of card that carries the project on.
LEMMA CountersTyped ==
    ASSUME HubTypeOK
    PROVE  races \in Nat /\ fails \in Nat /\ rejects \in Nat /\ crashes \in Nat
BY DEF HubTypeOK, counters

LEMMA OfferDeployStep ==
    ASSUME HubInv, NEW s \in Slot, OfferDeploy(s)
    PROVE  HubInv'
<1>1. { "local_deploy_prompt", "host_deploy_prompt", "project_complete" }
        \in SUBSET CardKind
    BY DispatchKinds DEF CardKind
<1>2. IsABag(cards') /\ BagToSet(cards') \subseteq Card /\ Pending \subseteq Pending'
    BY <1>1, CardsEnqueued DEF OfferDeploy, HubInv
<1>3. ~CarryingTask(tasks[s])
    BY DispatchKinds DEF OfferDeploy, Ready, CarryingTask, Carrying, UnmappedKind, Gate
<1>4. tasks' = [ tasks EXCEPT ![s] = Idle ]
    BY DEF OfferDeploy, Finish
<1>5. /\ UNCHANGED << preset, phase, watch, paused, opened, left, races, rejects,
                      crashes >>
      /\ md' = md /\ recent' = recent /\ fails' = fails
    BY DEF OfferDeploy, counters
<1> QED
    BY <1>2, <1>3, <1>4, <1>5, PlainStep, IdleTask, CountersTyped DEF HubInv, HubTypeOK

LEMMA HostInstructionsStep ==
    ASSUME HubInv, NEW s \in Slot, HostInstructions(s)
    PROVE  HubInv'
<1>1. { "host_deploy_instructions" } \in SUBSET CardKind
    BY DEF CardKind
<1>2. IsABag(cards') /\ BagToSet(cards') \subseteq Card /\ Pending \subseteq Pending'
    BY <1>1, CardsEnqueued DEF HostInstructions, HubInv
<1>3. ~CarryingTask(tasks[s])
    BY DispatchKinds DEF HostInstructions, Ready, CarryingTask, Carrying, UnmappedKind,
       Gate
<1>4. tasks' = [ tasks EXCEPT ![s] = Idle ]
    BY DEF HostInstructions, Finish
<1>5. /\ UNCHANGED << preset, phase, watch, paused, opened, left, races, rejects,
                      crashes >>
      /\ md' = md /\ recent' = recent /\ fails' = fails
    BY DEF HostInstructions, counters
<1> QED
    BY <1>2, <1>3, <1>4, <1>5, PlainStep, IdleTask, CountersTyped DEF HubInv, HubTypeOK

LEMMA RecordDeployStep ==
    ASSUME HubInv, NEW s \in Slot, RecordDeploy(s)
    PROVE  HubInv'
<1> DEFINE r == IF phase = "released" THEN Run("operate_kickoff", << >>, None) ELSE Idle
<1>1. "operate_kickoff" \in DispatchKind \cup UnmappedKind
    BY DEF UnmappedKind
<1>2. r \in Task /\ Sane(r) /\ r.kind # Gate
    BY <1>1, DispatchTask, IdleTask
<1>3. tasks' = [ tasks EXCEPT ![s] = r ]
    BY DEF RecordDeploy
<1> HIDE DEF r
<1>4. ~CarryingTask(tasks[s])
    BY DispatchKinds DEF RecordDeploy, Ready, CarryingTask, Carrying, UnmappedKind, Gate
<1>5. /\ UNCHANGED << preset, phase, watch, paused, opened, left, races, rejects,
                      crashes >>
      /\ recent' = recent /\ fails' = fails /\ cards' = cards
    BY DEF RecordDeploy, counters
<1>6. md' \subseteq Key
    BY DEF RecordDeploy, HubInv, HubTypeOK, Key
<1> QED
    BY <1>2, <1>3, <1>4, <1>5, <1>6, PlainStep, CountersTyped
       DEF HubInv, HubTypeOK, Pending

LEMMA GapStep ==
    ASSUME HubInv, NEW s \in Slot, Gap(s)
    PROVE  HubInv'
<1>1. { "orchestrator_gap" } \in SUBSET CardKind
    BY DEF CardKind
<1>2. /\ IsABag(cards') /\ BagToSet(cards') \subseteq Card /\ Pending \subseteq Pending'
      /\ CardOf("orchestrator_gap") \in Pending'
    BY <1>1, CardsEnqueued DEF Gap, HubInv
<1>3. CarryingCard(CardOf("orchestrator_gap"))
    BY DEF CarryingCard, CardOf, DeployCard
<1>4. tasks' = [ tasks EXCEPT ![s] = Idle ]
    BY DEF Gap, Finish
<1>5. /\ UNCHANGED << preset, phase, watch, paused, opened, left, races, rejects,
                      crashes >>
      /\ md' = md /\ recent' = recent /\ fails' = fails
    BY DEF Gap, counters
<1> QED
    BY <1>2, <1>3, <1>4, <1>5, PlainStep, IdleTask, CountersTyped DEF HubInv, HubTypeOK

LEMMA RoleSucceedsStep ==
    ASSUME HubInv, NEW s \in Slot, RoleSucceeds(s)
    PROVE  HubInv'
<1> DEFINE t == tasks[s]
           r == [ t EXCEPT !.pc = "deliver" ]
<1>1. /\ t \in Task /\ Sane(t) /\ t.kind \in DispatchKind /\ t.moves = << >>
      /\ t.pc = "run"
    BY DEF HubInv, HubTypeOK, TasksSane, RoleSucceeds, Ready
<1>2. /\ r \in Task /\ r.kind = t.kind /\ r.pc = "deliver" /\ r.moves = t.moves
      /\ r.card = t.card
    BY <1>1 DEF Task
<1>3. Sane(r)
    BY <1>1, <1>2 DEF Sane
<1>4. tasks' = [ tasks EXCEPT ![s] = r ]
    BY DEF RoleSucceeds, HubInv, HubTypeOK
<1>5. CarryingTask(t) => CarryingTask(r)
    BY <1>2 DEF CarryingTask
<1> HIDE DEF r
<1>6. /\ UNCHANGED << preset, phase, watch, paused, opened, left, races, rejects,
                      crashes >>
      /\ recent' = recent /\ fails' = fails /\ cards' = cards
    BY DEF RoleSucceeds, counters
<1>7. md' \subseteq Key
    <2>1. Artifact[t.kind] \in Key
        BY <1>1 DEF Key
    <2> QED
        BY <2>1 DEF RoleSucceeds, HubInv, HubTypeOK
<1> QED
    BY <1>2, <1>3, <1>4, <1>5, <1>6, <1>7, PlainStep, CountersTyped
       DEF HubInv, HubTypeOK, Pending

LEMMA RoleFailsStep ==
    ASSUME HubInv, NEW s \in Slot, RoleFails(s)
    PROVE  HubInv'
<1> DEFINE c == [ kind |-> "role_failure", of |-> tasks[s].kind ]
<1>1. tasks[s].kind \in DispatchKind
    BY DEF RoleFails, Ready
<1>2. c \in Card /\ CarryingCard(c)
    BY <1>1 DEF Card, CardKind, CarryingCard, DeployCard
<1>3. cards' = cards (+) SetToBag({c})
    BY DEF RoleFails
<1> HIDE DEF c
<1>4. /\ IsABag(cards') /\ BagToSet(cards') \subseteq Card /\ Pending \subseteq Pending'
      /\ c \in Pending'
    BY <1>2, <1>3, CardsAdded DEF HubInv
<1>5. tasks' = [ tasks EXCEPT ![s] = Idle ]
    BY DEF RoleFails, Finish
<1>6. /\ UNCHANGED << preset, phase, watch, paused, opened, left, races, rejects,
                      crashes >>
      /\ md' = md /\ recent' = recent
    BY DEF RoleFails
<1>7. fails' \in Nat
    BY CountersTyped DEF RoleFails, HubInv
<1> QED
    BY <1>2, <1>4, <1>5, <1>6, <1>7, PlainStep, IdleTask DEF HubInv, HubTypeOK

LEMMA DeliverStep ==
    ASSUME HubInv, NEW s \in Slot, Deliver(s)
    PROVE  HubInv'
<1> DEFINE t == tasks[s]
           k == ResultCard(t)
<1>1. t \in Task /\ Sane(t) /\ t.pc = "deliver"
    BY DEF HubInv, HubTypeOK, TasksSane, Deliver
<1>2. k \in CardKind /\ (CarryingTask(t) => k \notin DeployCard)
    BY <1>1, ResultCards
<1>3. /\ tasks' = [ tasks EXCEPT ![s] = Idle ]
      /\ UNCHANGED << preset, phase, watch, paused, opened, left, races, rejects,
                      crashes >>
      /\ recent' = TRUE /\ fails' = fails
    BY DEF Deliver, Finish, counters
<1>4. md' \subseteq Key
    BY DEF Deliver, HubInv, HubTypeOK, Key
<1>5. CASE Enqueue({k})
    <2> HIDE DEF k
    <2>1. /\ IsABag(cards') /\ BagToSet(cards') \subseteq Card /\ Pending \subseteq Pending'
          /\ CardOf(k) \in Pending'
        BY <1>2, <1>5, CardsEnqueued DEF HubInv
    <2>2. CarryingTask(t) => CarryingCard(CardOf(k))
        BY <1>2 DEF CarryingCard, CardOf
    <2> QED
        BY <1>3, <1>4, <2>1, <2>2, PlainStep, IdleTask, CountersTyped DEF HubInv
<1>6. CASE t.kind = "local_deploy_prompt" /\ UNCHANGED cards
    <2>1. ~CarryingTask(t)
        BY <1>6, DispatchKinds DEF CarryingTask, Carrying, UnmappedKind, Gate
    <2> QED
        BY <1>3, <1>4, <1>6, <2>1, PlainStep, IdleTask, CountersTyped
           DEF HubInv, HubTypeOK, Pending
<1> QED
    BY <1>5, <1>6 DEF Deliver

LEMMA TaskStepKeeps ==
    ASSUME HubInv, NEW s \in Slot, TaskStep(s)
    PROVE  HubInv'
BY MovePhaseStep, OfferDeployStep, HostInstructionsStep, RecordDeployStep, GapStep,
   RoleSucceedsStep, RoleFailsStep, DeliverStep DEF TaskStep

LEMMA RejectStepKeeps ==
    ASSUME HubInv, RejectStep
    PROVE  HubInv'
<1>1. Ready("reject", "regenerate") /\ tasks' = [ tasks EXCEPT !["reject"] = Idle ]
    BY DEF RejectStep, Regenerate, RegenerateFails, Finish
<1>2. ~CarryingTask(tasks["reject"]) /\ "reject" \in Slot
    BY <1>1, DispatchKinds DEF Ready, CarryingTask, Carrying, UnmappedKind, Gate, Slot
<1>3. CASE Regenerate
    <2>1. { "code_approval" } \in SUBSET CardKind
        BY DispatchKinds DEF CardKind
    <2>2. IsABag(cards') /\ BagToSet(cards') \subseteq Card /\ Pending \subseteq Pending'
        BY <1>3, <2>1, CardsEnqueued DEF Regenerate, HubInv
    <2>3. "code_intro_md" \in Key
        BY DEF Key, DispatchKind, Artifact
    <2>4. md' \subseteq Key
        BY <1>3, <2>3 DEF Regenerate, HubInv, HubTypeOK
    <2>5. /\ UNCHANGED << preset, phase, watch, paused, opened, left, races, rejects,
                          crashes >>
          /\ recent' = recent /\ fails' = fails
        BY <1>3 DEF Regenerate, counters
    <2> QED
        BY <1>1, <1>2, <2>2, <2>4, <2>5, PlainStep, IdleTask, CountersTyped DEF HubInv
<1>4. CASE RegenerateFails
    <2>1. /\ UNCHANGED << preset, phase, watch, paused, opened, left, races, rejects,
                          crashes >>
          /\ recent' = recent /\ cards' = cards /\ md' = md
        BY <1>4 DEF RegenerateFails
    <2>2. fails' \in Nat
        BY <1>4, CountersTyped DEF RegenerateFails, HubInv
    <2> QED
        BY <1>1, <1>2, <2>1, <2>2, PlainStep, IdleTask DEF HubInv, HubTypeOK, Pending
<1> QED
    BY <1>3, <1>4 DEF RejectStep

-----------------------------------------------------------------------------
(* Acknowledgements                                                        *)

\* The hook of a card runs in an idle slot, and does the card's own kind.
LEMMA HookStarts ==
    ASSUME HubInv, NEW k \in CardKind, StartHook(k)
    PROVE  /\ tasks' \in [ Slot -> Task ]
           /\ TasksSane'
           /\ left' = left
           /\ \A u \in Slot : tasks'[u].kind = Gate => k = Gate \/ tasks[u].kind = Gate
           /\ \A u \in Slot : CarryingTask(tasks[u]) => CarryingTask(tasks'[u])
           /\ k \in Carrying \/ k = Gate => \E u \in Slot : CarryingTask(tasks'[u])
<1>1. PICK s \in { "hook1", "hook2" } :
          ~Busy(s) /\ tasks' = [ tasks EXCEPT ![s] = Run(k, Moves(k), ApprovalCard(k)) ]
    BY DEF StartHook
<1>2. s \in Slot
    BY DEF Slot
<1> DEFINE r == Run(k, Moves(k), ApprovalCard(k))
<1>3. r \in Task /\ Sane(r)
    BY HookTask
<1>4. r.kind = k /\ (k \in Carrying \/ k = Gate => CarryingTask(r))
    BY MovesOf DEF Run, CarryingTask
<1>5. tasks' = [ tasks EXCEPT ![s] = r ]
    BY <1>1
<1> HIDE DEF r
<1>6. /\ tasks' \in [ Slot -> Task ] /\ TasksSane' /\ tasks'[s] = r
      /\ \A u \in Slot : u # s => tasks'[u] = tasks[u]
    BY <1>2, <1>3, <1>5, TaskWrite DEF HubInv
<1>7. ~CarryingTask(tasks[s])
    BY <1>1 DEF Busy, CarryingTask
<1>8. left' = left
    BY DEF StartHook
<1> QED
    BY <1>2, <1>4, <1>6, <1>7, <1>8

\* A retry runs in the recovery slot and is no release gate.
LEMMA RetryStarts ==
    ASSUME HubInv, NEW c, RetryFailed(c)
    PROVE  /\ tasks' \in [ Slot -> Task ]
           /\ TasksSane'
           /\ \A u \in Slot : tasks'[u].kind = Gate => tasks[u].kind = Gate
<1>1. CASE RetryAllowed(c.of) /\ ~Busy("recovery")
    <2> DEFINE r == Run(c.of, << >>, ApprovalCard(c.of))
    <2>1. r \in Task /\ Sane(r) /\ r.kind # Gate
        BY <1>1, RetryKinds, DispatchTask
    <2>2. tasks' = [ tasks EXCEPT !["recovery"] = r ] /\ "recovery" \in Slot
        BY <1>1 DEF RetryFailed, Slot
    <2> HIDE DEF r
    <2> QED
        BY <2>1, <2>2, TaskWrite DEF HubInv
<1>2. CASE ~(RetryAllowed(c.of) /\ ~Busy("recovery"))
    <2>1. tasks' = tasks
        BY <1>2 DEF RetryFailed
    <2> QED
        BY <2>1 DEF HubInv, HubTypeOK, TasksSane, Sane
<1> QED
    BY <1>1, <1>2

LEMMA CanonicalKinds ==
    ASSUME NEW k \in CardKind \ (NoHook \cup { "role_failure", "orchestrator_gap" })
    PROVE  /\ Canonical(k) \in CardKind
           /\ Canonical(k) = Gate => k = Gate
           /\ k \notin DeployCard => Canonical(k) \in Carrying \/ Canonical(k) = Gate
BY DispatchKinds DEF Canonical, CardKind, NoHook, Gate, DeployCard, Carrying

\* What an acknowledgement does: a gate is opened once, only its own hook is
\* a gate's, and a card that carried the project on is replaced by its hook or
\* was closed by hand.
LEMMA Acknowledged ==
    ASSUME HubInv, NEW c, NEW who, Acknowledge(c, who), UNCHANGED << phase, counters >>
    PROVE  /\ tasks' \in [ Slot -> Task ] /\ TasksSane'
           /\ IsABag(cards') /\ BagToSet(cards') \subseteq Card
           /\ \/ opened' = opened /\ c.kind # Gate
              \/ opened = "nobody" /\ opened' = who /\ c.kind = Gate
           /\ \A u \in Slot : tasks'[u].kind = Gate =>
                  c.kind = Gate \/ tasks[u].kind = Gate
           /\ left' = left \/ left' = TRUE
           /\ Carried'
<1>1. c \in Pending /\ cards' = Close(c) /\ c \in Card
    BY DEF Acknowledge, HubInv, HubTypeOK, Pending
<1>2. /\ IsABag(cards') /\ BagToSet(cards') \subseteq Card
      /\ Pending \ {c} \subseteq Pending'
    BY <1>1, CardClosed DEF HubInv
<1>3. \/ opened' = opened /\ c.kind # Gate
      \/ opened = "nobody" /\ opened' = who /\ c.kind = Gate
    BY DEF Acknowledge, Gate
<1>4. CASE c.kind = "role_failure" /\ RetryFailed(c)
    <2>1. left' = TRUE
        BY <1>4 DEF RetryFailed
    <2>2. Carried'
        BY <2>1 DEF Carried
    <2> QED
        BY <1>2, <1>3, <1>4, <2>1, <2>2, RetryStarts
<1>5. CASE c.kind = "orchestrator_gap" /\ left' = TRUE /\ UNCHANGED tasks
    <2>1. Carried'
        BY <1>5 DEF Carried
    <2>2. tasks' \in [ Slot -> Task ] /\ TasksSane'
        BY <1>5 DEF HubInv, HubTypeOK, TasksSane, Sane
    <2> QED
        BY <1>2, <1>3, <1>5, <2>1, <2>2
<1>6. CASE c.kind \in NoHook /\ UNCHANGED << tasks, left >>
    <2>1. ~CarryingCard(c)
        BY <1>6 DEF CarryingCard, NoHook, DeployCard
    <2>2. Carried'
        BY <1>2, <1>6, <2>1 DEF Carried, HubInv, CarryingTask, counters
    <2>3. tasks' \in [ Slot -> Task ] /\ TasksSane'
        BY <1>6 DEF HubInv, HubTypeOK, TasksSane, Sane
    <2> QED
        BY <1>2, <1>3, <1>6, <2>2, <2>3
<1>7. CASE /\ c.kind \notin NoHook \cup { "role_failure", "orchestrator_gap" }
           /\ StartHook(Canonical(c.kind))
    <2> DEFINE k == Canonical(c.kind)
    <2>1. c.kind \in CardKind
        BY <1>1 DEF Card
    <2>2. /\ k \in CardKind
          /\ k = Gate => c.kind = Gate
          /\ CarryingCard(c) => k \in Carrying \/ k = Gate
        BY <1>7, <2>1, CanonicalKinds DEF CarryingCard
    <2> HIDE DEF k
    <2>3. /\ tasks' \in [ Slot -> Task ]
          /\ TasksSane'
          /\ left' = left
          /\ \A u \in Slot : tasks'[u].kind = Gate => k = Gate \/ tasks[u].kind = Gate
          /\ \A u \in Slot : CarryingTask(tasks[u]) => CarryingTask(tasks'[u])
          /\ k \in Carrying \/ k = Gate => \E u \in Slot : CarryingTask(tasks'[u])
        BY <1>7, <2>2, HookStarts DEF k
    <2>4. Carried'
        <3> SUFFICES ASSUME ~left', crashes' = 0, phase' # "released",
                            ~ \E d \in Pending' : CarryingCard(d)
                     PROVE  \E u \in Slot : CarryingTask(tasks'[u])
            BY DEF Carried, CarryingTask
        <3>1. CASE CarryingCard(c)
            BY <2>2, <2>3, <3>1
        <3>2. CASE ~CarryingCard(c)
            <4>1. ~ \E d \in Pending : CarryingCard(d)
                BY <1>2, <3>2
            <4>2. ~left /\ crashes = 0 /\ phase # "released"
                BY <2>3 DEF counters
            <4>3. PICK u \in Slot : CarryingTask(tasks[u])
                BY <4>1, <4>2 DEF HubInv, Carried
            <4> QED
                BY <2>3, <4>3
        <3> QED
            BY <3>1, <3>2
    <2> QED
        BY <1>2, <1>3, <2>2, <2>3, <2>4
<1> QED
    BY <1>4, <1>5, <1>6, <1>7 DEF Acknowledge

\* The person's acknowledgement, and the runner's under the gate policy.
LEMMA AckStep ==
    ASSUME HubInv, NEW c, NEW who \in { "person", "runner" }, Acknowledge(c, who),
           who = "runner" => ~(preset = "strict" /\ c.kind = Gate),
           UNCHANGED << preset, phase, md, watch, recent, paused, counters >>
    PROVE  HubInv'
<1>1. /\ tasks' \in [ Slot -> Task ] /\ TasksSane'
      /\ IsABag(cards') /\ BagToSet(cards') \subseteq Card
      /\ \/ opened' = opened /\ c.kind # Gate
         \/ opened = "nobody" /\ opened' = who /\ c.kind = Gate
      /\ \A u \in Slot : tasks'[u].kind = Gate =>
             c.kind = Gate \/ tasks[u].kind = Gate
      /\ left' = left \/ left' = TRUE
      /\ Carried'
    BY Acknowledged
<1>2. GateHeld'
    BY <1>1 DEF HubInv, GateHeld
<1>3. { cleared, recent, paused, left }' \subseteq BOOLEAN
    BY <1>1, Zenon DEF HubInv, HubTypeOK, watch
<1>4. preset' \in Presets /\ phase' \in Phases /\ md' \subseteq Key
    BY DEF HubInv, HubTypeOK
<1>5. due' \subseteq (DispatchKind \cup UnmappedKind) /\ DueByRule'
    BY DEF HubInv, HubTypeOK, DueByRule, watch
<1>6. opened' \in { "nobody", "person", "runner" }
    BY <1>1 DEF HubInv, HubTypeOK
<1>7. counters' \in Nat \X Nat \X Nat \X Nat
    BY DEF HubInv, HubTypeOK
<1> QED
    BY <1>1, <1>2, <1>3, <1>4, <1>5, <1>6, <1>7 DEF HubInv, HubTypeOK

LEMMA PersonAckStep ==
    ASSUME HubInv, NEW c, PersonAck(c)
    PROVE  HubInv'
BY AckStep DEF PersonAck

LEMMA RunnerAckStep ==
    ASSUME HubInv, NEW c, RunnerAck(c)
    PROVE  HubInv'
<1>1. ~(preset = "strict" /\ c.kind = Gate)
    BY DEF RunnerAck, CanAutoAck, Gate
<1> QED
    BY <1>1, AckStep DEF RunnerAck

\* A rejected card is one that a person has closed.
LEMMA PersonRejectStep ==
    ASSUME HubInv, NEW c, PersonReject(c)
    PROVE  HubInv'
<1> DEFINE r == Run("regenerate", << >>, None)
<1>1. IsABag(cards') /\ BagToSet(cards') \subseteq Card
    BY CardClosed DEF PersonReject, HubInv
<1>2. r \in Task /\ Sane(r) /\ r.kind # Gate
    BY RegenerateTask
<1>3. "reject" \in Slot /\ (tasks' = tasks \/ tasks' = [ tasks EXCEPT !["reject"] = r ])
    BY DEF PersonReject, Slot
<1> HIDE DEF r
<1>4. UNCHANGED << preset, phase, md, watch, recent, paused, opened, races, fails,
                   crashes >>
    BY DEF PersonReject
<1>5. tasks' \in [ Slot -> Task ] /\ TasksSane' /\ GateHeld'
    <2>1. CASE tasks' = tasks
        BY <1>4, <2>1 DEF HubInv, HubTypeOK, TasksSane, Sane, GateHeld
    <2>2. CASE tasks' = [ tasks EXCEPT !["reject"] = r ]
        BY <1>2, <1>3, <1>4, <2>2, TaskWrite, GateKept DEF HubInv
    <2> QED
        BY <1>3, <2>1, <2>2
<1>6. left' = TRUE
    BY DEF PersonReject
<1>7. Carried'
    BY <1>6 DEF Carried
<1>8. { cleared, recent, paused, left }' \subseteq BOOLEAN
    BY <1>4, <1>6, Zenon DEF HubInv, HubTypeOK, watch
<1>9. counters' \in Nat \X Nat \X Nat \X Nat
    BY <1>4, CountersTyped DEF HubInv, PersonReject, counters
<1>10. phase' \in Phases /\ md' \subseteq Key
    BY <1>4 DEF HubInv, HubTypeOK
<1> QED
    BY <1>1, <1>4, <1>5, <1>7, <1>8, <1>9, <1>10, RestTyped DEF HubInv, HubTypeOK

-----------------------------------------------------------------------------
(* The watcher, the pause and the restart                                  *)

LEMMA RunnerPauseStep ==
    ASSUME HubInv, RunnerPause
    PROVE  HubInv'
<1>1. /\ paused' = TRUE
      /\ UNCHANGED << preset, phase, md, cards, tasks, watch, recent, opened, left,
                      counters >>
    BY DEF RunnerPause
<1>2. { cleared, recent, paused, left }' \subseteq BOOLEAN
    BY <1>1, Zenon DEF HubInv, HubTypeOK, watch
<1>3. TasksSane' /\ DueByRule' /\ GateHeld'
    BY <1>1 DEF HubInv, TasksSane, Sane, DueByRule, GateHeld, watch
<1>4. Carried'
    BY <1>1 DEF HubInv, Carried, Pending, CarryingTask, counters
<1> QED
    BY <1>1, <1>2, <1>3, <1>4 DEF HubInv, HubTypeOK, watch

LEMMA QuietWindowEndsStep ==
    ASSUME HubInv, QuietWindowEnds
    PROVE  HubInv'
<1>1. /\ recent' = FALSE
      /\ UNCHANGED << preset, phase, md, cards, tasks, watch, paused, opened, left,
                      counters >>
    BY DEF QuietWindowEnds
<1>2. { cleared, recent, paused, left }' \subseteq BOOLEAN
    BY <1>1, Zenon DEF HubInv, HubTypeOK, watch
<1>3. TasksSane' /\ DueByRule' /\ GateHeld'
    BY <1>1 DEF HubInv, TasksSane, Sane, DueByRule, GateHeld, watch
<1>4. Carried'
    BY <1>1 DEF HubInv, Carried, Pending, CarryingTask, counters
<1> QED
    BY <1>1, <1>2, <1>3, <1>4 DEF HubInv, HubTypeOK, watch

\* A scan, and the look at the index of pending cards.
LEMMA WatcherLooks ==
    ASSUME HubInv, WatcherScan \/ WatcherIndex
    PROVE  HubInv'
<1>1. UNCHANGED << preset, phase, md, cards, tasks, recent, paused, opened, left,
                   counters >>
    BY DEF WatcherScan, WatcherIndex
<1>2. due' \in { due, {} } \/ due' \subseteq { r.kind : r \in Matches }
    BY DEF WatcherScan, WatcherIndex
<1>3. due' \subseteq { r.kind : r \in WatchRules }
    BY <1>2 DEF HubInv, DueByRule, Matches
<1>4. due' \subseteq (DispatchKind \cup UnmappedKind)
    BY <1>3, RuleKinds
<1>5. cleared' \in { cleared, TRUE }
    BY DEF WatcherScan, WatcherIndex
<1>6. { cleared, recent, paused, left }' \subseteq BOOLEAN
    BY <1>1, <1>5, Zenon DEF HubInv, HubTypeOK
<1>7. TasksSane' /\ GateHeld'
    BY <1>1 DEF HubInv, TasksSane, Sane, GateHeld
<1>8. Carried'
    BY <1>1 DEF HubInv, Carried, Pending, CarryingTask, counters
<1> QED
    BY <1>1, <1>3, <1>4, <1>6, <1>7, <1>8 DEF HubInv, HubTypeOK, DueByRule

LEMMA WatcherDispatchStep ==
    ASSUME HubInv, WatcherDispatch
    PROVE  HubInv'
<1>1. /\ UNCHANGED << preset, phase, md, cards, recent, paused, opened, left, fails,
                      rejects, crashes >>
      /\ ~Busy("watcher") /\ cleared' = (due' # {})
    BY DEF WatcherDispatch
<1>2. PICK k \in due :
        \/ tasks' = [ tasks EXCEPT !["watcher"] = Run(k, << >>, None) ]
        \/ tasks' = tasks
    BY DEF WatcherDispatch
<1>3. due' \subseteq due
    BY DEF WatcherDispatch
<1>4. races' \in Nat
    BY CountersTyped DEF WatcherDispatch, HubInv
<1>5. due' \subseteq (DispatchKind \cup UnmappedKind) /\ DueByRule'
    BY <1>3 DEF HubInv, HubTypeOK, DueByRule
<1>6. { cleared, recent, paused, left }' \subseteq BOOLEAN
    <2>1. cleared' \in BOOLEAN
        BY <1>1
    <2> QED
        BY <1>1, <2>1, Zenon DEF HubInv, HubTypeOK
<1>7. counters' \in Nat \X Nat \X Nat \X Nat
    BY <1>1, <1>4, CountersTyped DEF HubInv, counters
<1> DEFINE r == Run(k, << >>, None)
<1>8. r \in Task /\ Sane(r) /\ r.kind # Gate
    BY RuleKinds, DispatchTask DEF HubInv, DueByRule
<1>9. ~CarryingTask(tasks["watcher"]) /\ "watcher" \in Slot
    BY <1>1 DEF Busy, CarryingTask, Slot
<1>10. Pending' = Pending
    BY <1>1 DEF Pending
<1>11. tasks' \in [ Slot -> Task ] /\ TasksSane' /\ GateHeld' /\ Carried'
    <2>1. CASE tasks' = tasks
        BY <1>1, <1>10, <2>1
           DEF HubInv, HubTypeOK, TasksSane, Sane, GateHeld, Carried, CarryingTask
    <2>2. CASE tasks' = [ tasks EXCEPT !["watcher"] = r ]
        <3> HIDE DEF r
        <3> QED
            BY <1>1, <1>8, <1>9, <1>10, <2>2, TaskWrite, GateKept, CarriedOn DEF HubInv
    <2> QED
        BY <1>2, <2>1, <2>2
<1> QED
    BY <1>1, <1>5, <1>6, <1>7, <1>11 DEF HubInv, HubTypeOK

\* A restart is one of the things AtRestHasCard excepts.
LEMMA HubRestartsStep ==
    ASSUME HubInv, HubRestarts
    PROVE  HubInv'
<1>1. /\ UNCHANGED << preset, phase, md, cards, recent, paused, opened, left, races,
                      fails, rejects >>
      /\ tasks' = [ s \in Slot |-> Idle ] /\ due' = {} /\ cleared' = FALSE
    BY DEF HubRestarts
<1>2. crashes' \in Nat /\ crashes' # 0
    BY CountersTyped DEF HubRestarts, HubInv
<1>3. tasks' \in [ Slot -> Task ] /\ \A s \in Slot : tasks'[s] = Idle
    BY <1>1, IdleTask
<1>4. TasksSane'
    BY <1>3, IdleTask DEF TasksSane, Sane
<1>5. GateHeld'
    BY <1>1, <1>3, IdleTask DEF HubInv, GateHeld
<1>6. Carried'
    BY <1>2 DEF Carried
<1>7. { cleared, recent, paused, left }' \subseteq BOOLEAN
    BY <1>1, Zenon DEF HubInv, HubTypeOK
<1>8. counters' \in Nat \X Nat \X Nat \X Nat
    BY <1>1, <1>2, CountersTyped DEF HubInv, counters
<1> QED
    BY <1>1, <1>3, <1>4, <1>5, <1>6, <1>7, <1>8 DEF HubInv, HubTypeOK, DueByRule

-----------------------------------------------------------------------------
(* The theorems                                                            *)

LEMMA HubInitInv == HubInit => HubInv
<1> SUFFICES ASSUME HubInit PROVE HubInv
    OBVIOUS
<1>1. tasks \in [ Slot -> Task ] /\ \A s \in Slot : tasks[s] = Idle
    BY IdleTask DEF HubInit
<1>2. CardOf("prd_approval") \in Card /\ CarryingCard(CardOf("prd_approval"))
    BY DispatchKinds DEF CardOf, Card, CardKind, CarryingCard, DeployCard
<1>3. /\ IsABag(cards)
      /\ BagToSet(cards) = { CardOf("prd_approval") }
    BY DEF HubInit, SetToBag, IsABag, BagToSet
<1>4. { cleared, recent, paused, left } \subseteq BOOLEAN
    BY Zenon DEF HubInit
<1>5. counters \in Nat \X Nat \X Nat \X Nat
    BY DEF HubInit, counters
<1>6. phase \in Phases /\ phase \notin Late
    BY DEF HubInit, Phases, Late
<1>7. md \subseteq Key
    BY DEF HubInit, Key
<1>8. HubTypeOK
    BY <1>1, <1>2, <1>3, <1>4, <1>5, <1>6, <1>7 DEF HubInit, HubTypeOK
<1>9. TasksSane
    BY <1>1, IdleTask DEF TasksSane
<1>10. GateHeld
    BY <1>1, <1>6, IdleTask DEF HubInit, GateHeld
<1>11. Carried
    BY <1>2, <1>3 DEF Carried, Pending
<1>12. DueByRule
    BY DEF HubInit, DueByRule
<1> QED
    BY <1>8, <1>9, <1>10, <1>11, <1>12 DEF HubInv

LEMMA HubStep == HubInv /\ [HubNext]_hubVars => HubInv'
<1> SUFFICES ASSUME HubInv, [HubNext]_hubVars PROVE HubInv'
    OBVIOUS
<1>1. CASE UNCHANGED hubVars
    <2>1. UNCHANGED << preset, phase, md, cards, tasks, due, cleared, recent, paused,
                       opened, left, counters >>
        BY <1>1 DEF hubVars, watch
    <2>2. crashes' = crashes
        BY <2>1 DEF counters
    <2>3. { cleared, recent, paused, left }' \subseteq BOOLEAN
        BY <2>1, Zenon DEF HubInv, HubTypeOK
    <2>4. TasksSane' /\ DueByRule' /\ GateHeld'
        BY <2>1 DEF HubInv, TasksSane, Sane, DueByRule, GateHeld
    <2>5. Carried'
        BY <2>1, <2>2 DEF HubInv, Carried, Pending, CarryingTask
    <2> QED
        BY <2>1, <2>3, <2>4, <2>5 DEF HubInv, HubTypeOK
<1>2. ASSUME NEW c \in Pending, PersonAck(c) \/ PersonReject(c) PROVE HubInv'
    BY <1>2, PersonAckStep, PersonRejectStep
<1>3. CASE RunnerStep
    BY <1>3, RunnerPauseStep, RunnerAckStep DEF RunnerStep
<1>4. ASSUME NEW s \in { "hook1", "hook2", "recovery" }, TaskStep(s) PROVE HubInv'
    BY <1>4, TaskStepKeeps DEF Slot
<1>5. CASE RejectStep
    BY <1>5, RejectStepKeeps
<1>6. CASE WatcherScan \/ WatcherTick
    BY <1>6, WatcherLooks, WatcherDispatchStep, TaskStepKeeps DEF WatcherTick, Slot
<1>7. CASE QuietWindowEnds
    BY <1>7, QuietWindowEndsStep
<1>8. CASE HubRestarts
    BY <1>8, HubRestartsStep
<1> QED
    BY <1>1, <1>2, <1>3, <1>4, <1>5, <1>6, <1>7, <1>8 DEF HubNext

LEMMA HubInvariant == HubSpec => []HubInv
BY HubInitInv, HubStep, PTL DEF HubSpec

LEMMA GateIsHeld == HubInv => ReleaseHeld
BY DEF HubInv, GateHeld, ReleaseHeld, Late

LEMMA CarriedHasCard == HubInv => AtRestHasCard
BY DEF HubInv, Carried, CarryingTask, AtRestHasCard, AtRest, Busy

\* Every state of the chain is well typed: in particular a role that delivers
\* always has a card to deliver (_card_kind has no case left open).
THEOREM HubTypes == HubSpec => []HubTypeOK
<1>1. HubInv => HubTypeOK
    BY DEF HubInv
<1> QED
    BY <1>1, HubInvariant, PTL

\* Under the strict policy a project is in acceptance or released only after a
\* person acknowledged a release gate, whatever the runner acknowledges, the
\* watcher and retries dispatch, and however late a hook runs.
THEOREM HubReleaseHeld == HubSpec => []ReleaseHeld
BY GateIsHeld, HubInvariant, PTL

\* No acknowledgement loses the project: with nothing running, nothing closed
\* by hand and no restart, it has a card or is released.
THEOREM HubHasCard == HubSpec => []AtRestHasCard
BY CarriedHasCard, HubInvariant, PTL
=============================================================================
