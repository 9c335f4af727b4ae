--------------------------- MODULE FixLoopProofs ---------------------------
(***************************************************************************)
(* Proofs about FixLoop, for any set of people, any limit and any number   *)
(* of background tasks: the automatic loop runs one dispatch at a time,    *)
(* counts every pass of the engineer up to the limit, and no path of the   *)
(* loop leaves a blocked project without a card unless one of the named    *)
(* silences happened.                                                      *)
(***************************************************************************)
EXTENDS FixLoop, FiniteSetTheorems, TLAPS

-----------------------------------------------------------------------------
(* The inductive invariants                                                *)

\* A recovery dispatch that has not cleared the slot.
Owner(t) == Active(t) /\ task[t].owns

\* A task on its way to increment_code_fix_iteration.
Fixing(t) == \/ task[t].pc \in { "read", "write" }
             \/ task[t].pc = "role" /\ task[t].work = "engineer_remediate"

\* The scheduler has found the slot free and relies on it.
Relies == \/ disp[Scheduler].pc \in { "take", "spawn" }
          \/ disp[Scheduler].pc = "decide" /\ disp[Scheduler].seen.slot = NoSlot

\* While nobody dispatches by hand and no slot is taken away, the scheduler
\* is the only dispatcher, and it remediates.
OnlyAuto ==
    /\ \A u \in User : disp[u].pc = "idle"
    /\ disp[Scheduler].pc \in { "idle", "load", "reap", "decide", "take", "spawn" }
    /\ disp[Scheduler].pc # "idle" => disp[Scheduler].action = "engineer_remediate"

\* The slot is what keeps a second dispatch out.
SlotGuards ==
    /\ \A t, u \in Task : Owner(t) /\ Owner(u) => t = u
    /\ slot = NoSlot \/ Relies => \A t \in Task : ~Owner(t)
    /\ slot = NoSlot => disp[Scheduler].pc # "spawn"
    /\ \A t \in Task : task[t].pc = "clear" => task[t].owns

\* Below the limit only the dispatch that owns the slot remediates, so its
\* read of the counter is current when it writes; the card whose hook
\* remediates outside the slot comes up at the limit and not before.
CountGuards ==
    /\ iter < MaxIter =>
          /\ iter = done
          /\ cards["code_review_blocked"] = 0
          /\ \A t \in Task : /\ task[t].pc = "judge" => task[t].again
                             /\ Fixing(t) => task[t].owns
                             /\ task[t].pc = "write" => task[t].n = iter
    /\ iter >= MaxIter =>
          /\ done >= MaxIter
          /\ \A t \in Task : task[t].pc = "write" => task[t].n >= MaxIter

LoopInv == ~forced => OnlyAuto /\ SlotGuards /\ CountGuards

\* The cards from which a founder can go on.
Useful == Kind \ { "code_review_pass", "devops_approval" }

\* A task that ends in a useful card, lifts the block or is silent.
TaskPromises(t) ==
    \/ task[t].pc \in { "read", "write", "post", "reload", "judge" }
    \/ task[t].pc = "role" /\ task[t].work # "devops"

\* A person's dispatch that gets to such a task, lifts the block or is
\* refused without a word.
DispPromises(u) ==
    \/ disp[u].pc \in { "load", "count", "reset" }
    \/ disp[u].pc \in { "reap", "decide" } /\ disp[u].seen.blocked
    \/ disp[u].pc \in { "take", "spawn" } /\ disp[u].action # "devops"

CardInv ==
    blocked /\ ~silent => \/ \E k \in Useful : cards[k] > 0
                          \/ \E t \in Task : TaskPromises(t)
                          \/ \E u \in User : DispPromises(u)

\* The slot is taken for a job: "resume" and "reset_fix_loop" do not get there.
JobsOnly == \A d \in Dispatcher :
               disp[d].pc \in { "take", "spawn" } => disp[d].action \in Jobs

FixLoopInv == TypeOK /\ JobsOnly /\ LoopInv /\ CardInv

-----------------------------------------------------------------------------
(* Types                                                                   *)

LEMMA Defaults ==
    /\ NoSlot \in Slot /\ NoRow \in Row
    /\ NoDisp \in Disp /\ NoTask \in TaskRec
BY DEF NoSlot, Slot, NoRow, Row, NoDisp, Disp, Action, Jobs, NoTask, TaskRec, Works

\* The role_failure cards are none of the others.
LEMMA FailedCards ==
    ASSUME NEW j \in Jobs
    PROVE  Failed(j) \in { "engineer_failed", "remediate_failed",
                           "review_failed", "devops_failed" }
BY DEF Failed, Jobs

LEMMA RetryCardNames ==
    RetryCards \subseteq { "engineer_failed", "remediate_failed",
                           "review_failed", "devops_failed" }
BY FailedCards DEF RetryCards

LEMMA InitTypes == Init => TypeOK
<1> SUFFICES ASSUME Init PROVE TypeOK
    OBVIOUS
<1>1. disp \in [ Dispatcher -> Disp ]
    BY Defaults DEF Init
<1>2. task \in [ Task -> TaskRec ]
    BY Defaults DEF Init
<1>3. cards \in [ Kind -> Nat ]
    BY DEF Init
<1>4. {reviewed, installed, blocked, scheduled, silent, forced} \subseteq BOOLEAN
    BY Zenon DEF Init
<1>5. {iter, done, clicks, restarts} \subseteq Nat
    BY DEF Init
<1> QED
    BY <1>1, <1>2, <1>3, <1>4, <1>5, Defaults DEF Init, TypeOK

\* The row that a load returns.
LEMMA ProjectType == ASSUME TypeOK PROVE Project \in Row
BY DEF TypeOK, Project, Row

\* A write of one dispatcher's state.
LEMMA DispWrite ==
    ASSUME TypeOK, NEW d \in Dispatcher, NEW r \in Disp,
           disp' = [ disp EXCEPT ![d] = r ]
    PROVE  /\ disp' \in [ Dispatcher -> Disp ]
           /\ disp'[d] = r
           /\ \A e \in Dispatcher : e # d => disp'[e] = disp[e]
BY DEF TypeOK

\* A write of one task's state.
LEMMA TaskWrite ==
    ASSUME TypeOK, NEW t \in Task, NEW r \in TaskRec,
           task' = [ task EXCEPT ![t] = r ]
    PROVE  /\ task' \in [ Task -> TaskRec ]
           /\ task'[t] = r
           /\ \A u \in Task : u # t => task'[u] = task[u]
BY DEF TypeOK

\* One card more of kind k.
LEMMA EnqueueCard ==
    ASSUME TypeOK, NEW k \in Kind, Enqueue(k)
    PROVE  /\ cards' \in [ Kind -> Nat ]
           /\ cards'[k] > 0
           /\ \A j \in Kind : cards'[j] >= cards[j]
           /\ \A j \in Kind : j # k => cards'[j] = cards[j]
BY DEF TypeOK, Enqueue

\* What a task is when it has ended: gone, or about to clear its slot.
LEMMA EndTask ==
    ASSUME TypeOK, NEW t \in Task, End(t)
    PROVE  /\ task' \in [ Task -> TaskRec ]
           /\ task'[t].pc = IF task[t].owns THEN "clear" ELSE "off"
           /\ task'[t].owns = task[t].owns
           /\ \A u \in Task : u # t => task'[u] = task[u]
<1> DEFINE r == IF task[t].owns
                THEN [ NoTask EXCEPT !.pc = "clear", !.owns = TRUE ]
                ELSE NoTask
<1>1. task[t] \in TaskRec
    BY DEF TypeOK
<1>2. r \in TaskRec /\ r.pc = (IF task[t].owns THEN "clear" ELSE "off")
      /\ r.owns = task[t].owns
    BY <1>1 DEF NoTask, TaskRec, Works, Jobs
<1>3. task' = [ task EXCEPT ![t] = r ]
    BY DEF End, TypeOK
<1> HIDE DEF r
<1> QED
    BY <1>2, <1>3, TaskWrite

\* create_task puts the task of a dispatch in a free place ...
LEMMA CreateDispatch ==
    ASSUME TypeOK, NEW w \in Works, Create(w, TRUE)
    PROVE  \E t \in Task :
              /\ task[t].pc = "off"
              /\ task' \in [ Task -> TaskRec ]
              /\ task'[t].pc = "role" /\ task'[t].work = w /\ task'[t].owns
              /\ \A u \in Task : u # t => task'[u] = task[u]
<1> DEFINE p == CHOOSE t \in Task : task[t].pc = "off"
           r == [ NoTask EXCEPT !.pc = "role", !.work = w, !.owns = TRUE ]
<1>1. r \in TaskRec /\ r.pc = "role" /\ r.work = w /\ r.owns
    BY DEF NoTask, TaskRec, Works, Jobs
<1>2. task' = [ task EXCEPT ![p] = r ]
    BY DEF Create
<1>3. p \in Task /\ task[p].pc = "off"
    BY DEF Create
<1> HIDE DEF r, p
<1> QED
    BY <1>1, <1>2, <1>3, TaskWrite

\* ... and that of an ack hook, which owns no slot.
LEMMA CreateHook ==
    ASSUME TypeOK, NEW w \in Works, Create(w, FALSE)
    PROVE  \E t \in Task :
              /\ task[t].pc = "off"
              /\ task' \in [ Task -> TaskRec ]
              /\ task'[t].pc = "role" /\ task'[t].work = w /\ ~task'[t].owns
              /\ \A u \in Task : u # t => task'[u] = task[u]
<1> DEFINE p == CHOOSE t \in Task : task[t].pc = "off"
           r == [ NoTask EXCEPT !.pc = "role", !.work = w, !.owns = FALSE ]
<1>1. r \in TaskRec /\ r.pc = "role" /\ r.work = w /\ ~r.owns
    BY DEF NoTask, TaskRec, Works, Jobs
<1>2. task' = [ task EXCEPT ![p] = r ]
    BY DEF Create
<1>3. p \in Task /\ task[p].pc = "off"
    BY DEF Create
<1> HIDE DEF r, p
<1> QED
    BY <1>1, <1>2, <1>3, TaskWrite

-----------------------------------------------------------------------------
(* What the steps of recovery_dispatch do                                  *)

\* The resumed action is one of the jobs.
LEMMA ResolvedType ==
    ASSUME TypeOK, NEW d \in Dispatcher
    PROVE  /\ Resolved(d) \in Action
           /\ disp[d].action # "resume" => Resolved(d) = disp[d].action
<1>1. disp[d] \in Disp
    BY DEF TypeOK
<1>2. _pick_resume_action(disp[d].seen) \in Jobs
    BY DEF _pick_resume_action, Jobs
<1> QED
    BY <1>1, <1>2 DEF Resolved, Disp, Action, Jobs

LEMMA ReturnEffect ==
    ASSUME TypeOK, NEW d \in Dispatcher, Return(d)
    PROVE  /\ disp' \in [ Dispatcher -> Disp ]
           /\ disp'[d].pc = "idle"
           /\ \A e \in Dispatcher : e # d => disp'[e] = disp[e]
           /\ scheduled' \in BOOLEAN
<1>1. disp' = [ disp EXCEPT ![d] = NoDisp ]
    BY DEF Return
<1>2. scheduled' \in BOOLEAN
    BY Zenon DEF Return, TypeOK
<1> QED
    BY <1>1, <1>2, Defaults, DispWrite DEF NoDisp

\* A refusal that a person asked for is silent.
LEMMA RefusedEffect ==
    ASSUME TypeOK, NEW d \in Dispatcher, Refused(d)
    PROVE  /\ disp' \in [ Dispatcher -> Disp ]
           /\ disp'[d].pc = "idle"
           /\ \A e \in Dispatcher : e # d => disp'[e] = disp[e]
           /\ scheduled' \in BOOLEAN /\ silent' \in BOOLEAN
           /\ silent \/ d \in User => silent'
<1>1. silent' \in BOOLEAN /\ (silent \/ d \in User => silent')
    BY DEF Refused
<1> QED
    BY <1>1, ReturnEffect DEF Refused

\* The dispatch goes on to take the slot for the job a, or is refused.
LEMMA CheckAllowedEffect ==
    ASSUME TypeOK, NEW d \in Dispatcher, NEW a \in Action, CheckAllowed(d, a)
    PROVE  /\ disp' \in [ Dispatcher -> Disp ]
           /\ \A e \in Dispatcher : e # d => disp'[e] = disp[e]
           /\ scheduled' \in BOOLEAN /\ silent' \in BOOLEAN
           /\ silent => silent'
           /\ \/ disp'[d].pc = "idle" /\ (d \in User => silent')
              \/ /\ disp'[d].pc = "take" /\ disp'[d].action = a
                 /\ a \in _action_specs(disp[d].seen)
<1>1. CASE a \in _action_specs(disp[d].seen)
  <2> DEFINE r == [ NoDisp EXCEPT !.pc = "take", !.action = a ]
  <2>1. r \in Disp /\ r.pc = "take" /\ r.action = a
    BY Defaults DEF NoDisp, Disp
  <2>2. disp' = [ disp EXCEPT ![d] = r ]
    BY <1>1 DEF CheckAllowed
  <2>3. scheduled' = scheduled /\ silent' = silent
    BY <1>1 DEF CheckAllowed
  <2>4. scheduled' \in BOOLEAN /\ silent' \in BOOLEAN
    BY <2>3, Zenon DEF TypeOK
  <2> HIDE DEF r
  <2> QED
    BY <1>1, <2>1, <2>2, <2>3, <2>4, DispWrite
<1>2. CASE a \notin _action_specs(disp[d].seen)
    BY <1>2, RefusedEffect DEF CheckAllowed
<1> QED
    BY <1>1, <1>2

LEMMA GotoEffect ==
    ASSUME TypeOK, NEW d \in Dispatcher, NEW pc \in { "reset", "count" }, Goto(d, pc)
    PROVE  /\ disp' \in [ Dispatcher -> Disp ]
           /\ \A e \in Dispatcher : e # d => disp'[e] = disp[e]
           /\ scheduled' \in BOOLEAN /\ silent' \in BOOLEAN
           /\ silent => silent'
           /\ disp'[d].pc = pc
<1> DEFINE r == [ [ disp[d] EXCEPT !.pc = pc ] EXCEPT !.action = Resolved(d) ]
<1>1. disp[d] \in Disp
    BY DEF TypeOK
<1>2. r \in Disp /\ r.pc = pc
    BY <1>1, ResolvedType DEF Disp
<1>3. disp' = [ disp EXCEPT ![d] = r ]
    BY DEF Goto, TypeOK
<1>4. scheduled' = scheduled /\ silent' = silent
    BY DEF Goto
<1>5. scheduled' \in BOOLEAN /\ silent' \in BOOLEAN
    BY <1>4, Zenon DEF TypeOK
<1> HIDE DEF r
<1> QED
    BY <1>2, <1>3, <1>4, <1>5, DispWrite

\* The scheduler tries again; everybody else, and the scheduler in the end,
\* is refused.
LEMMA RefuseEffect ==
    ASSUME TypeOK, NEW d \in Dispatcher, Refuse(d)
    PROVE  /\ disp' \in [ Dispatcher -> Disp ]
           /\ \A e \in Dispatcher : e # d => disp'[e] = disp[e]
           /\ scheduled' \in BOOLEAN /\ silent' \in BOOLEAN
           /\ silent => silent'
           /\ \/ disp'[d].pc = "idle" /\ (d \in User => silent')
              \/ /\ disp'[d].pc = "load" /\ d = Scheduler
                 /\ disp'[d].action = disp[d].action
<1>1. CASE d = Scheduler /\ disp[d].attempt < MaxAttempts
  <2> DEFINE r == [ [ [ disp[d] EXCEPT !.pc = "load" ]
                    EXCEPT !.attempt = disp[d].attempt + 1 ]
                  EXCEPT !.seen = NoRow ]
  <2>1. disp[d] \in Disp
    BY DEF TypeOK
  <2>2. r \in Disp /\ r.pc = "load" /\ r.action = disp[d].action
    <3>1. disp[d].attempt + 1 \in Nat
      BY <2>1 DEF Disp
    <3> DEFINE p == [ disp[d] EXCEPT !.pc = "load" ]
               q == [ p EXCEPT !.attempt = disp[d].attempt + 1 ]
    <3>2. p \in Disp /\ p.pc = "load" /\ p.action = disp[d].action
      BY <2>1 DEF Disp
    <3> HIDE DEF p
    <3>3. q \in Disp /\ q.pc = "load" /\ q.action = disp[d].action
      BY <3>1, <3>2 DEF Disp
    <3> HIDE DEF q
    <3>4. [ q EXCEPT !.seen = NoRow ] \in Disp
      BY <3>3, Defaults DEF Disp
    <3>5. r = [ q EXCEPT !.seen = NoRow ]
      BY DEF p, q
    <3> QED
      BY <3>3, <3>4, <3>5 DEF Disp
  <2>3. disp' = [ disp EXCEPT ![d] = r ]
    BY <1>1 DEF Refuse, TypeOK
  <2>4. scheduled' = scheduled /\ silent' = silent
    BY <1>1 DEF Refuse
  <2>5. scheduled' \in BOOLEAN /\ silent' \in BOOLEAN
    BY <2>4, Zenon DEF TypeOK
  <2> HIDE DEF r
  <2> QED
    BY <1>1, <2>2, <2>3, <2>4, <2>5, DispWrite
<1>2. CASE ~(d = Scheduler /\ disp[d].attempt < MaxAttempts)
    BY <1>2, RefusedEffect DEF Refuse
<1> QED
    BY <1>1, <1>2

\* The ways a dispatch goes on from its checks.
LEMMA DecideEffect ==
    ASSUME TypeOK, NEW d \in Dispatcher, Decide(d)
    PROVE  /\ disp' \in [ Dispatcher -> Disp ]
           /\ \A e \in Dispatcher : e # d => disp'[e] = disp[e]
           /\ scheduled' \in BOOLEAN /\ silent' \in BOOLEAN
           /\ silent => silent'
           /\ \/ disp'[d].pc = "idle" /\ (d \in User => silent')
              \/ /\ disp'[d].pc = "load" /\ d = Scheduler
                 /\ disp'[d].action = disp[d].action
              \/ disp'[d].pc = "reset" /\ Resolved(d) = "reset_fix_loop"
              \/ disp'[d].pc = "count" /\ d # Scheduler
              \/ /\ disp'[d].pc = "take" /\ disp'[d].action = Resolved(d)
                 /\ disp[d].seen.slot = NoSlot
                 /\ Resolved(d) \in _action_specs(disp[d].seen)
<1>1. Resolved(d) \in Action
    BY ResolvedType
<1>2. CASE Skipped(d) /\ Return(d) /\ UNCHANGED silent
  <2>1. d \notin User
    BY <1>2, FixLoopAssumption DEF Skipped
  <2>2. silent' \in BOOLEAN /\ (silent => silent')
    BY <1>2, Zenon DEF TypeOK
  <2> QED
    BY <1>2, <2>1, <2>2, ReturnEffect
<1>3. CASE Refuse(d)
    BY <1>3, RefuseEffect
<1>4. CASE Refused(d)
    BY <1>4, RefusedEffect
<1>5. CASE Resolved(d) = "reset_fix_loop" /\ Goto(d, "reset")
    BY <1>5, GotoEffect
<1>6. CASE d # Scheduler /\ Goto(d, "count")
    BY <1>6, GotoEffect
<1>7. CASE disp[d].seen.slot = NoSlot /\ CheckAllowed(d, Resolved(d))
    BY <1>1, <1>7, CheckAllowedEffect
<1> QED
    BY <1>2, <1>3, <1>4, <1>5, <1>6, <1>7, Zenon DEF Decide

-----------------------------------------------------------------------------
(* The steps of recovery_dispatch keep the invariant                       *)

\* The loop's invariant, for a step that only moves a dispatcher on and may
\* write the slot.
LEMMA DispatchKeepsLoop ==
    ASSUME TypeOK, LoopInv, NEW d \in Dispatcher, disp[d].pc # "idle",
           UNCHANGED << task, iter, done, cards, forced >>,
           \A e \in Dispatcher : e # d => disp'[e] = disp[e],
           ~forced /\ OnlyAuto /\ SlotGuards /\ d = Scheduler =>
              /\ disp'[d].pc \in { "idle", "load", "reap", "decide", "take", "spawn" }
              /\ disp'[d].pc # "idle" => disp'[d].action = "engineer_remediate"
              /\ slot' = NoSlot \/ Relies' => slot = NoSlot \/ Relies
              /\ slot' = NoSlot => disp'[d].pc # "spawn"
    PROVE  LoopInv'
<1> SUFFICES ASSUME ~forced PROVE (OnlyAuto /\ SlotGuards /\ CountGuards)'
    BY DEF LoopInv
<1>1. OnlyAuto /\ SlotGuards /\ CountGuards
    BY DEF LoopInv
<1>2. d = Scheduler
    BY <1>1 DEF OnlyAuto, Dispatcher
<1>3. OnlyAuto'
    BY <1>1, <1>2, FixLoopAssumption DEF OnlyAuto, Dispatcher
<1>4. SlotGuards'
    BY <1>1, <1>2 DEF SlotGuards, Owner, Active
<1>5. CountGuards'
    BY <1>1 DEF CountGuards, Fixing
<1> QED
    BY <1>3, <1>4, <1>5

\* The promise of a card, for the same steps.
LEMMA DispatchKeepsCards ==
    ASSUME TypeOK, CardInv, NEW d \in Dispatcher,
           UNCHANGED << task, cards, blocked >>,
           \A e \in Dispatcher : e # d => disp'[e] = disp[e],
           silent => silent',
           d \in User /\ blocked /\ ~silent' /\ DispPromises(d) => DispPromises(d)'
    PROVE  CardInv'
<1> SUFFICES ASSUME blocked', ~silent'
             PROVE  \/ \E k \in Useful : cards'[k] > 0
                    \/ \E t \in Task : TaskPromises(t)'
                    \/ \E u \in User : DispPromises(u)'
    BY DEF CardInv
<1>1. blocked /\ ~silent
    OBVIOUS
<1>2. CASE \E k \in Useful : cards[k] > 0
    BY <1>2
<1>3. CASE \E t \in Task : TaskPromises(t)
    BY <1>3 DEF TaskPromises
<1>4. CASE \E u \in User : DispPromises(u)
  <2>1. PICK u \in User : DispPromises(u)
    BY <1>4
  <2>2. CASE u = d
    BY <2>1, <2>2, <1>1
  <2>3. CASE u # d
    <3>1. disp'[u] = disp[u]
      BY <2>3 DEF Dispatcher
    <3>2. DispPromises(u)'
      BY <2>1, <3>1 DEF DispPromises
    <3> QED
      BY <3>2
  <2> QED
    BY <2>2, <2>3
<1> QED
    BY <1>1, <1>2, <1>3, <1>4 DEF CardInv

LEMMA LoadStep ==
    ASSUME FixLoopInv, NEW d \in Dispatcher, Load(d)
    PROVE  FixLoopInv'
<1> USE DEF FixLoopInv
<1> DEFINE r == [ [ disp[d] EXCEPT !.seen = Project ]
                  EXCEPT !.pc = IF slot.stale THEN "reap" ELSE "decide" ]
<1>1. disp[d] \in Disp
    BY DEF TypeOK
<1>2. r \in Disp /\ r.pc \in { "reap", "decide" } /\ r.action = disp[d].action
      /\ r.seen = Project
    BY <1>1, ProjectType DEF Disp
<1>3. disp' = [ disp EXCEPT ![d] = r ]
    BY DEF Load, TypeOK
<1> HIDE DEF r
<1>4. /\ disp' \in [ Dispatcher -> Disp ] /\ disp'[d] = r
      /\ \A e \in Dispatcher : e # d => disp'[e] = disp[e]
    BY <1>2, <1>3, DispWrite
<1>5. Project.slot = slot /\ Project.blocked = blocked
    BY DEF Project
<1>6. TypeOK' /\ JobsOnly'
    BY <1>2, <1>4 DEF Load, TypeOK, JobsOnly
<1>7. LoopInv'
    BY <1>2, <1>4, <1>5, DispatchKeepsLoop DEF Load, OnlyAuto, Relies
<1>8. CardInv'
    BY <1>2, <1>4, <1>5, DispatchKeepsCards DEF Load, DispPromises
<1> QED
    BY <1>6, <1>7, <1>8

\* Whoever reaps takes the slot from a dispatch.
LEMMA ReapStep ==
    ASSUME FixLoopInv, NEW d \in Dispatcher, Reap(d)
    PROVE  FixLoopInv'
<1> USE DEF FixLoopInv
<1> DEFINE s == [ disp[d].seen EXCEPT !.slot = NoSlot ]
           r == [ [ disp[d] EXCEPT !.pc = "decide" ] EXCEPT !.seen = s ]
<1>1. disp[d] \in Disp
    BY DEF TypeOK
<1>2. s \in Row /\ s.blocked = disp[d].seen.blocked
    BY <1>1, Defaults DEF Disp, Row
<1>3. disp' = [ disp EXCEPT ![d] = r ]
    BY <1>1 DEF Reap, TypeOK, Disp
<1> HIDE DEF s
<1>4. r \in Disp /\ r.pc = "decide" /\ r.seen.blocked = disp[d].seen.blocked
    BY <1>1, <1>2 DEF Disp
<1> HIDE DEF r
<1>5. /\ disp' \in [ Dispatcher -> Disp ] /\ disp'[d] = r
      /\ \A e \in Dispatcher : e # d => disp'[e] = disp[e]
    BY <1>3, <1>4, DispWrite
<1>6. TypeOK' /\ JobsOnly'
    BY <1>4, <1>5, Defaults DEF Reap, TypeOK, JobsOnly
<1>7. LoopInv'
    BY DEF Reap, LoopInv
<1>8. CardInv'
    BY <1>4, <1>5, DispatchKeepsCards DEF Reap, DispPromises
<1> QED
    BY <1>6, <1>7, <1>8

LEMMA DecideStep ==
    ASSUME FixLoopInv, NEW d \in Dispatcher, Decide(d)
    PROVE  FixLoopInv'
<1> USE DEF FixLoopInv
<1>1. /\ disp[d].pc = "decide"
      /\ UNCHANGED << reviewed, installed, blocked, iter, slot, cards, task,
                      done, forced, clicks, restarts >>
    BY DEF Decide
<1>2. TypeOK' /\ JobsOnly'
  <2>1. _action_specs(disp[d].seen) \subseteq Jobs
    BY DEF _action_specs, Jobs
  <2> QED
    BY <1>1, <2>1, DecideEffect DEF TypeOK, JobsOnly
<1>3. ASSUME OnlyAuto, d = Scheduler
      PROVE  Resolved(d) = "engineer_remediate"
    BY <1>1, <1>3, ResolvedType DEF OnlyAuto
<1>4. LoopInv'
    BY <1>1, <1>3, DecideEffect, DispatchKeepsLoop DEF OnlyAuto, Relies
<1>5. ASSUME disp[d].seen.blocked, Resolved(d) \in _action_specs(disp[d].seen)
      PROVE  Resolved(d) # "devops"
    BY <1>5 DEF _action_specs
<1>6. CardInv'
    BY <1>1, <1>5, DecideEffect, DispatchKeepsCards DEF DispPromises
<1> QED
    BY <1>2, <1>4, <1>6

LEMMA CountPendingStep ==
    ASSUME FixLoopInv, NEW d \in Dispatcher, CountPending(d)
    PROVE  FixLoopInv'
<1> USE DEF FixLoopInv
<1>1. /\ disp[d].pc = "count"
      /\ UNCHANGED << reviewed, installed, blocked, iter, slot, cards, task,
                      done, forced, clicks, restarts >>
    BY DEF CountPending
<1>2. /\ disp' \in [ Dispatcher -> Disp ]
      /\ \A e \in Dispatcher : e # d => disp'[e] = disp[e]
      /\ scheduled' \in BOOLEAN /\ silent' \in BOOLEAN
      /\ silent => silent'
      /\ \/ disp'[d].pc = "idle" /\ (d \in User => silent')
         \/ disp'[d].pc = "take" /\ disp'[d].action = "engineer_remediate"
  <2>1. "engineer_remediate" \in Action
    BY DEF Action, Jobs
  <2>2. CASE Refused(d)
    BY <2>2, RefusedEffect
  <2>3. CASE CheckAllowed(d, "engineer_remediate")
    BY <2>1, <2>3, CheckAllowedEffect
  <2> QED
    BY <2>2, <2>3 DEF CountPending
<1>3. TypeOK' /\ JobsOnly'
    BY <1>1, <1>2 DEF TypeOK, JobsOnly, Jobs
<1>4. LoopInv'
    BY <1>1, <1>2, DispatchKeepsLoop DEF OnlyAuto
<1>5. CardInv'
    BY <1>1, <1>2, DispatchKeepsCards DEF DispPromises
<1> QED
    BY <1>3, <1>4, <1>5

\* Only people reset the loop; the block is lifted.
LEMMA ResetFixLoopStep ==
    ASSUME FixLoopInv, NEW d \in Dispatcher, ResetFixLoop(d)
    PROVE  FixLoopInv'
<1> USE DEF FixLoopInv
<1>1. /\ disp[d].pc = "reset" /\ blocked' = FALSE /\ iter' = 0 /\ done' = 0
      /\ UNCHANGED << reviewed, installed, slot, cards, task, silent, forced,
                      clicks, restarts >>
    BY DEF ResetFixLoop
<1>2. /\ disp' \in [ Dispatcher -> Disp ] /\ disp'[d].pc = "idle"
      /\ \A e \in Dispatcher : e # d => disp'[e] = disp[e]
      /\ scheduled' \in BOOLEAN
    BY ReturnEffect DEF ResetFixLoop
<1>3. TypeOK' /\ JobsOnly'
  <2>1. {reviewed, installed, blocked, scheduled, silent, forced}' \subseteq BOOLEAN
    BY <1>1, <1>2, Zenon DEF TypeOK
  <2> QED
    BY <1>1, <1>2, <2>1 DEF TypeOK, JobsOnly
<1>4. LoopInv'
  <2>1. forced
    BY <1>1 DEF LoopInv, OnlyAuto, Dispatcher
  <2> QED
    BY <1>1, <2>1 DEF LoopInv
<1>5. CardInv'
    BY <1>1 DEF CardInv
<1> QED
    BY <1>3, <1>4, <1>5

LEMMA TakeStep ==
    ASSUME FixLoopInv, NEW d \in Dispatcher, Take(d)
    PROVE  FixLoopInv'
<1> USE DEF FixLoopInv
<1> DEFINE r == [ disp[d] EXCEPT !.pc = "spawn" ]
<1>1. disp[d] \in Disp
    BY DEF TypeOK
<1>2. r \in Disp /\ r.pc = "spawn" /\ r.action = disp[d].action
    BY <1>1 DEF Disp
<1>3. disp' = [ disp EXCEPT ![d] = r ]
    BY DEF Take, TypeOK
<1> HIDE DEF r
<1>4. /\ disp' \in [ Dispatcher -> Disp ] /\ disp'[d] = r
      /\ \A e \in Dispatcher : e # d => disp'[e] = disp[e]
    BY <1>2, <1>3, DispWrite
<1>5. TypeOK' /\ JobsOnly'
  <2>1. disp[d].action \in Jobs
    BY DEF Take, JobsOnly
  <2> QED
    BY <1>2, <1>4, <2>1 DEF Take, TypeOK, Slot, JobsOnly
<1>6. LoopInv'
  <2>1. disp[d].action = "engineer_remediate" => slot' # NoSlot
    BY DEF Take, NoSlot
  <2> QED
    BY <1>2, <1>4, <2>1, DispatchKeepsLoop DEF Take, OnlyAuto, Relies
<1>7. CardInv'
    BY <1>2, <1>4, DispatchKeepsCards DEF Take, DispPromises
<1> QED
    BY <1>5, <1>6, <1>7

\* The task of a dispatch starts: it is the only one that owns the slot.
LEMMA SpawnStep ==
    ASSUME FixLoopInv, NEW d \in Dispatcher, Spawn(d)
    PROVE  FixLoopInv'
<1> USE DEF FixLoopInv
<1>1. /\ disp[d].pc = "spawn"
      /\ UNCHANGED << reviewed, installed, blocked, iter, slot, cards, done,
                      silent, forced, clicks, restarts >>
    BY DEF Spawn
<1>2. disp[d].action \in Jobs
    BY <1>1 DEF JobsOnly
<1>3. PICK t \in Task :
         /\ task[t].pc = "off"
         /\ task' \in [ Task -> TaskRec ]
         /\ task'[t].pc = "role" /\ task'[t].work = disp[d].action
         /\ task'[t].owns
         /\ \A u \in Task : u # t => task'[u] = task[u]
  <2>1. Create(disp[d].action, TRUE) /\ disp[d].action \in Works
    BY <1>2 DEF Spawn, Works
  <2> QED
    BY <2>1, CreateDispatch
<1>4. /\ disp' \in [ Dispatcher -> Disp ] /\ disp'[d].pc = "idle"
      /\ \A e \in Dispatcher : e # d => disp'[e] = disp[e]
      /\ scheduled' \in BOOLEAN
    BY ReturnEffect DEF Spawn
<1>5. TypeOK' /\ JobsOnly'
    BY <1>1, <1>3, <1>4 DEF TypeOK, JobsOnly
<1>6. LoopInv'
  <2> SUFFICES ASSUME ~forced PROVE (OnlyAuto /\ SlotGuards /\ CountGuards)'
    BY <1>1 DEF LoopInv
  <2>1. OnlyAuto /\ SlotGuards /\ CountGuards
    BY DEF LoopInv
  <2>2. d = Scheduler
    BY <1>1, <2>1 DEF OnlyAuto, Dispatcher
  <2>3. OnlyAuto'
    BY <1>4, <2>1, <2>2, FixLoopAssumption DEF OnlyAuto, Dispatcher
  <2>4. SlotGuards'
    <3>1. slot # NoSlot /\ \A u \in Task : ~Owner(u)
      BY <1>1, <2>1, <2>2 DEF SlotGuards, Relies
    <3>2. \A u \in Task : Owner(u)' => u = t
      BY <3>1, <1>3 DEF Owner, Active
    <3>3. ~Relies'
      BY <1>4, <2>2 DEF Relies
    <3>4. \A u \in Task : task'[u].pc = "clear" => task'[u].owns
      BY <1>3, <2>1 DEF SlotGuards
    <3> QED
      BY <1>1, <1>4, <2>2, <3>1, <3>2, <3>3, <3>4 DEF SlotGuards
  <2>5. CountGuards'
    BY <1>1, <1>3, <2>1 DEF CountGuards, Fixing
  <2> QED
    BY <2>3, <2>4, <2>5
<1>7. CardInv'
  <2> SUFFICES ASSUME blocked, ~silent
               PROVE  \/ \E k \in Useful : cards[k] > 0
                      \/ \E u \in Task : TaskPromises(u)'
                      \/ \E u \in User : DispPromises(u)'
    BY <1>1 DEF CardInv
  <2>1. CASE \E k \in Useful : cards[k] > 0
    BY <2>1
  <2>2. CASE \E u \in Task : TaskPromises(u)
    <3>1. PICK u \in Task : TaskPromises(u)
      BY <2>2
    <3>2. u # t
      BY <1>3, <3>1 DEF TaskPromises
    <3>3. TaskPromises(u)'
      BY <1>3, <3>1, <3>2 DEF TaskPromises
    <3> QED
      BY <3>3
  <2>3. CASE \E u \in User : DispPromises(u)
    <3>1. PICK u \in User : DispPromises(u)
      BY <2>3
    <3>2. CASE u = d
      <4>1. TaskPromises(t)'
        BY <1>1, <1>3, <3>1, <3>2 DEF TaskPromises, DispPromises
      <4> QED
        BY <4>1
    <3>3. CASE u # d
      <4>1. disp'[u] = disp[u]
        BY <1>4, <3>3 DEF Dispatcher
      <4>2. DispPromises(u)'
        BY <3>1, <4>1 DEF DispPromises
      <4> QED
        BY <4>2
    <3> QED
      BY <3>2, <3>3
  <2> QED
    BY <2>1, <2>2, <2>3 DEF CardInv
<1> QED
    BY <1>5, <1>6, <1>7

-----------------------------------------------------------------------------
(* The steps of a background task keep the invariant                       *)

\* The loop's invariant, for a step of the task t that leaves the counter and
\* the slot alone.
LEMMA TaskKeepsLoop ==
    ASSUME TypeOK, LoopInv, NEW t \in Task,
           UNCHANGED << slot, iter, done, forced >>,
           \A u \in Task : u # t => task'[u] = task[u],
           Owner(t)' => Owner(t),
           task'[t].pc = "clear" => task'[t].owns,
           \/ disp' = disp
           \/ /\ \A e \in Dispatcher : e # Scheduler => disp'[e] = disp[e]
              /\ disp'[Scheduler].pc = "load"
              /\ disp'[Scheduler].action = "engineer_remediate",
           ~forced /\ SlotGuards /\ CountGuards =>
              /\ iter < MaxIter =>
                    /\ cards'["code_review_blocked"] = 0
                    /\ task'[t].pc = "judge" => task'[t].again
                    /\ Fixing(t)' => task'[t].owns
                    /\ task'[t].pc = "write" => task'[t].n = iter
              /\ iter >= MaxIter => (task'[t].pc = "write" => task'[t].n >= MaxIter)
    PROVE  LoopInv'
<1> SUFFICES ASSUME ~forced PROVE (OnlyAuto /\ SlotGuards /\ CountGuards)'
    BY DEF LoopInv
<1>1. OnlyAuto /\ SlotGuards /\ CountGuards
    BY DEF LoopInv
<1>2. OnlyAuto'
    BY <1>1, FixLoopAssumption DEF OnlyAuto, Dispatcher
<1>3. SlotGuards'
  <2>1. \A u \in Task : Owner(u)' => Owner(u)
    BY DEF Owner, Active
  <2>2. Relies' => Relies
    BY DEF Relies
  <2>3. \A u \in Task : task'[u].pc = "clear" => task'[u].owns
    BY <1>1 DEF SlotGuards
  <2>4. disp'[Scheduler].pc = "spawn" => disp[Scheduler].pc = "spawn"
    OBVIOUS
  <2> QED
    BY <1>1, <2>1, <2>2, <2>3, <2>4 DEF SlotGuards
<1>4. CountGuards'
    BY <1>1 DEF CountGuards, Fixing
<1> QED
    BY <1>2, <1>3, <1>4

\* The promise of a card, for a step of the task t.
LEMMA TaskKeepsCards ==
    ASSUME TypeOK, CardInv, NEW t \in Task,
           \A u \in Task : u # t => task'[u] = task[u],
           \A u \in User : disp'[u] = disp[u],
           \A k \in Kind : cards'[k] >= cards[k],
           cards' \in [ Kind -> Nat ],
           silent => silent',
           blocked' => blocked \/ TaskPromises(t)',
           TaskPromises(t) /\ blocked' /\ ~silent' =>
              TaskPromises(t)' \/ \E k \in Useful : cards'[k] > 0
    PROVE  CardInv'
<1> SUFFICES ASSUME blocked', ~silent', ~TaskPromises(t)'
             PROVE  \/ \E k \in Useful : cards'[k] > 0
                    \/ \E u \in Task : TaskPromises(u)'
                    \/ \E u \in User : DispPromises(u)'
    BY DEF CardInv
<1>1. blocked /\ ~silent
    OBVIOUS
<1>2. CASE \E k \in Useful : cards[k] > 0
    BY <1>2 DEF Useful, TypeOK
<1>3. CASE \E u \in Task : TaskPromises(u)
    BY <1>3 DEF TaskPromises
<1>4. CASE \E u \in User : DispPromises(u)
    BY <1>4 DEF DispPromises
<1> QED
    BY <1>1, <1>2, <1>3, <1>4 DEF CardInv

\* A task ends: it promises nothing more, and owns the slot until it clears it.
LEMMA EndedTask ==
    ASSUME TypeOK, NEW t \in Task, Active(t), End(t)
    PROVE  /\ task' \in [ Task -> TaskRec ]
           /\ \A u \in Task : u # t => task'[u] = task[u]
           /\ Owner(t)' => Owner(t)
           /\ task'[t].pc \in { "clear", "off" }
           /\ task'[t].pc = "clear" => task'[t].owns
BY EndTask DEF Owner, Active

LEMMA RoleFailsStep ==
    ASSUME FixLoopInv, NEW t \in Task, RoleFails(t)
    PROVE  FixLoopInv'
<1> USE DEF FixLoopInv
<1>1. /\ task[t].pc = "role" /\ task[t].work # "regenerate"
      /\ UNCHANGED << reviewed, installed, blocked, iter, slot, scheduled, disp,
                      done, silent, forced, clicks, restarts >>
    BY DEF RoleFails
<1>2. PICK k \in RetryCards : Enqueue(k)
  <2> DEFINE j == IF task[t].work = "recode" THEN "engineer_remediate"
                  ELSE task[t].work
  <2>1. task[t] \in TaskRec
    BY DEF TypeOK
  <2>2. j \in Jobs
    BY <1>1, <2>1 DEF TaskRec, Works, Jobs
  <2>3. Enqueue(Failed(j))
    BY DEF RoleFails
  <2> QED
    BY <2>2, <2>3 DEF RetryCards
<1>3. k \in Kind /\ k \in Useful /\ k # "code_review_blocked"
    BY RetryCardNames DEF Kind, Useful
<1>4. /\ cards' \in [ Kind -> Nat ] /\ cards'[k] > 0
      /\ \A j \in Kind : cards'[j] >= cards[j]
      /\ \A j \in Kind : j # k => cards'[j] = cards[j]
    BY <1>2, <1>3, EnqueueCard
<1>5. /\ task' \in [ Task -> TaskRec ]
      /\ \A u \in Task : u # t => task'[u] = task[u]
      /\ Owner(t)' => Owner(t)
      /\ task'[t].pc \in { "clear", "off" }
      /\ task'[t].pc = "clear" => task'[t].owns
    BY <1>1, EndedTask DEF RoleFails, Active
<1>6. TypeOK' /\ JobsOnly'
    BY <1>1, <1>4, <1>5 DEF TypeOK, JobsOnly
<1>7. LoopInv'
  <2>1. cards'["code_review_blocked"] = cards["code_review_blocked"]
    BY <1>3, <1>4 DEF Kind
  <2> QED
    BY <1>1, <1>5, <2>1, TaskKeepsLoop DEF CountGuards, Fixing
<1>8. CardInv'
    BY <1>1, <1>3, <1>4, <1>5, TaskKeepsCards
<1> QED
    BY <1>6, <1>7, <1>8

LEMMA RoleRaisesStep ==
    ASSUME FixLoopInv, NEW t \in Task, RoleRaises(t)
    PROVE  FixLoopInv'
<1> USE DEF FixLoopInv
<1>1. /\ task[t].pc = "role" /\ silent' = TRUE
      /\ UNCHANGED << reviewed, installed, blocked, iter, slot, cards,
                      scheduled, disp, done, forced, clicks, restarts >>
    BY DEF RoleRaises
<1>2. /\ task' \in [ Task -> TaskRec ]
      /\ \A u \in Task : u # t => task'[u] = task[u]
      /\ Owner(t)' => Owner(t)
      /\ task'[t].pc \in { "clear", "off" }
      /\ task'[t].pc = "clear" => task'[t].owns
    BY <1>1, EndedTask DEF RoleRaises, Active
<1>3. TypeOK' /\ JobsOnly'
  <2>1. {reviewed, installed, blocked, scheduled, silent, forced}' \subseteq BOOLEAN
    BY <1>1, Zenon DEF TypeOK
  <2> QED
    BY <1>1, <1>2, <2>1 DEF TypeOK, JobsOnly
<1>4. LoopInv'
    BY <1>1, <1>2, TaskKeepsLoop DEF CountGuards, Fixing
<1>5. CardInv'
    BY <1>1 DEF CardInv
<1> QED
    BY <1>3, <1>4, <1>5

LEMMA RoleReturnsStep ==
    ASSUME FixLoopInv, NEW t \in Task, RoleReturns(t)
    PROVE  FixLoopInv'
<1> USE DEF FixLoopInv
<1>1. /\ task[t].pc = "role" /\ task[t].work # "code_review"
      /\ UNCHANGED << reviewed, blocked, iter, slot, scheduled, disp, done,
                      silent, forced, clicks, restarts >>
    BY DEF RoleReturns
<1>2. {reviewed, installed, blocked, scheduled, silent, forced}' \subseteq BOOLEAN
  <2>1. installed' \in BOOLEAN
    BY Zenon DEF RoleReturns, TypeOK
  <2> QED
    BY <1>1, <2>1, Zenon DEF TypeOK
<1>3. CASE task[t].work = "engineer_remediate"
  <2> DEFINE r == [ task[t] EXCEPT !.pc = "read" ]
  <2>1. task[t] \in TaskRec
    BY DEF TypeOK
  <2>2. r \in TaskRec /\ r.pc = "read" /\ r.owns = task[t].owns
    BY <2>1 DEF TaskRec
  <2>3. task' = [ task EXCEPT ![t] = r ] /\ cards' = cards
    BY <1>3 DEF RoleReturns, TypeOK
  <2> HIDE DEF r
  <2>4. /\ task' \in [ Task -> TaskRec ] /\ task'[t] = r
        /\ \A u \in Task : u # t => task'[u] = task[u]
    BY <2>2, <2>3, TaskWrite
  <2>5. TypeOK' /\ JobsOnly'
    BY <1>1, <1>2, <2>3, <2>4 DEF TypeOK, JobsOnly
  <2>6. LoopInv'
    BY <1>1, <1>3, <2>2, <2>3, <2>4, TaskKeepsLoop
    DEF CountGuards, Fixing, Owner, Active
  <2>7. CardInv'
    BY <1>1, <2>2, <2>3, <2>4, TaskKeepsCards DEF TaskPromises, TypeOK
  <2> QED
    BY <2>5, <2>6, <2>7
<1>4. CASE task[t].work # "engineer_remediate"
  <2> DEFINE k == IF task[t].work = "devops" THEN "devops_approval"
                  ELSE "code_approval"
  <2>1. Enqueue(k) /\ End(t)
    BY <1>4 DEF RoleReturns
  <2>2. k \in Kind /\ "code_review_blocked" \in Kind /\ k # "code_review_blocked"
        /\ (task[t].work # "devops" => k \in Useful)
    BY DEF Kind, Useful
  <2> HIDE DEF k
  <2>3. /\ cards' \in [ Kind -> Nat ] /\ cards'[k] > 0
        /\ \A j \in Kind : cards'[j] >= cards[j]
        /\ \A j \in Kind : j # k => cards'[j] = cards[j]
    BY <2>1, <2>2, EnqueueCard
  <2>4. /\ task' \in [ Task -> TaskRec ]
        /\ \A u \in Task : u # t => task'[u] = task[u]
        /\ Owner(t)' => Owner(t)
        /\ task'[t].pc \in { "clear", "off" }
        /\ task'[t].pc = "clear" => task'[t].owns
    BY <1>1, <2>1, EndedTask DEF Active
  <2>5. TypeOK' /\ JobsOnly'
    BY <1>1, <1>2, <2>3, <2>4 DEF TypeOK, JobsOnly
  <2>6. LoopInv'
    BY <1>1, <2>2, <2>3, <2>4, TaskKeepsLoop DEF CountGuards, Fixing
  <2>7. CardInv'
    BY <1>1, <2>2, <2>3, <2>4, TaskKeepsCards DEF TaskPromises
  <2> QED
    BY <2>5, <2>6, <2>7
<1> QED
    BY <1>3, <1>4

LEMMA IncrementReadStep ==
    ASSUME FixLoopInv, NEW t \in Task, IncrementRead(t)
    PROVE  FixLoopInv'
<1> USE DEF FixLoopInv
<1> DEFINE r == [ [ task[t] EXCEPT !.pc = "write" ] EXCEPT !.n = iter ]
<1>1. /\ task[t].pc = "read"
      /\ UNCHANGED << reviewed, installed, blocked, iter, slot, cards,
                      scheduled, disp, done, silent, forced, clicks, restarts >>
    BY DEF IncrementRead
<1>2. task[t] \in TaskRec /\ iter \in Nat
    BY DEF TypeOK
<1>3. r \in TaskRec /\ r.pc = "write" /\ r.owns = task[t].owns /\ r.n = iter
    BY <1>2 DEF TaskRec
<1>4. task' = [ task EXCEPT ![t] = r ]
    BY DEF IncrementRead, TypeOK
<1> HIDE DEF r
<1>5. /\ task' \in [ Task -> TaskRec ] /\ task'[t] = r
      /\ \A u \in Task : u # t => task'[u] = task[u]
    BY <1>3, <1>4, TaskWrite
<1>6. TypeOK' /\ JobsOnly'
    BY <1>1, <1>5 DEF TypeOK, JobsOnly
<1>7. LoopInv'
    BY <1>1, <1>3, <1>5, TaskKeepsLoop DEF CountGuards, Fixing, Owner, Active
<1>8. CardInv'
    BY <1>1, <1>3, <1>5, TaskKeepsCards DEF TaskPromises, TypeOK
<1> QED
    BY <1>6, <1>7, <1>8

\* The write that counts the pass.  Below the limit the task is the only one
\* that remediates, and what it read is still the counter.
LEMMA IncrementWriteStep ==
    ASSUME FixLoopInv, NEW t \in Task, IncrementWrite(t)
    PROVE  FixLoopInv'
<1> USE DEF FixLoopInv
<1> DEFINE p == [ task[t] EXCEPT !.pc = "role" ]
           q == [ p EXCEPT !.work = "code_review" ]
           r == [ q EXCEPT !.n = 0 ]
<1>1. /\ task[t].pc = "write"
      /\ iter' = task[t].n + 1 /\ done' = done + 1
      /\ UNCHANGED << reviewed, installed, blocked, slot, cards, scheduled,
                      disp, silent, forced, clicks, restarts >>
    BY DEF IncrementWrite
<1>2. task[t] \in TaskRec /\ task[t].n \in Nat
    BY DEF TypeOK, TaskRec
<1>3. r \in TaskRec /\ r.pc = "role" /\ r.work = "code_review" /\ r.owns = task[t].owns
  <2>1. p \in TaskRec /\ p.pc = "role" /\ p.owns = task[t].owns
    BY <1>2 DEF TaskRec
  <2> HIDE DEF p
  <2>2. q \in TaskRec /\ q.pc = "role" /\ q.work = "code_review"
        /\ q.owns = task[t].owns
    BY <2>1 DEF TaskRec, Works, Jobs
  <2> HIDE DEF q
  <2> QED
    BY <2>2 DEF TaskRec
<1>4. task' = [ task EXCEPT ![t] = r ]
    BY DEF IncrementWrite, TypeOK
<1> HIDE DEF p, q, r
<1>5. /\ task' \in [ Task -> TaskRec ] /\ task'[t] = r
      /\ \A u \in Task : u # t => task'[u] = task[u]
    BY <1>3, <1>4, TaskWrite
<1>6. TypeOK' /\ JobsOnly'
    BY <1>1, <1>2, <1>5 DEF TypeOK, JobsOnly
<1>7. LoopInv'
  <2> SUFFICES ASSUME ~forced PROVE (OnlyAuto /\ SlotGuards /\ CountGuards)'
    BY <1>1 DEF LoopInv
  <2>1. OnlyAuto /\ SlotGuards /\ CountGuards
    BY DEF LoopInv
  <2>2. OnlyAuto'
    BY <1>1, <2>1 DEF OnlyAuto
  <2>3. SlotGuards'
    BY <1>1, <1>3, <1>5, <2>1 DEF SlotGuards, Owner, Active, Relies
  <2>4. CountGuards'
    <3>0. iter \in Nat /\ done \in Nat /\ MaxIter \in Nat
      BY FixLoopAssumption DEF TypeOK
    <3>1. CASE iter < MaxIter
      <4>1. iter = done /\ task[t].n = iter
        BY <1>1, <3>1, <2>1 DEF CountGuards
      <4>2. \A u \in Task : ~Fixing(u)'
        <5> SUFFICES ASSUME NEW u \in Task, Fixing(u)' PROVE FALSE
          OBVIOUS
        <5>1. u # t /\ task'[u] = task[u]
          BY <1>3, <1>5 DEF Fixing
        <5>2. Owner(u) /\ Owner(t)
          BY <1>1, <3>1, <2>1, <5>1 DEF CountGuards, Fixing, Owner, Active
        <5> QED
          BY <2>1, <5>1, <5>2 DEF SlotGuards
      <4>3. \A u \in Task : task'[u].pc # "write"
        BY <4>2 DEF Fixing
      <4>4. \A u \in Task : task'[u].pc = "judge" => task'[u].again
        BY <1>3, <1>5, <3>1, <2>1 DEF CountGuards
      <4> QED
        BY <1>1, <3>0, <3>1, <4>1, <4>2, <4>3, <4>4, <2>1 DEF CountGuards
    <3>2. CASE iter >= MaxIter
      <4>1. done >= MaxIter /\ task[t].n >= MaxIter
        BY <1>1, <3>2, <2>1 DEF CountGuards
      <4>2. \A u \in Task : task'[u].pc = "write" => task'[u].n >= MaxIter
        BY <1>3, <1>5, <3>2, <2>1 DEF CountGuards
      <4> QED
        BY <1>1, <1>2, <3>0, <4>1, <4>2 DEF CountGuards
    <3> QED
      BY <3>0, <3>1, <3>2
  <2> QED
    BY <2>2, <2>3, <2>4
<1>8. CardInv'
    BY <1>1, <1>3, <1>5, TaskKeepsCards DEF TaskPromises, TypeOK
<1> QED
    BY <1>6, <1>7, <1>8

\* The verdict is written; the task has it to report.
LEMMA ReviewReturnsStep ==
    ASSUME FixLoopInv, NEW t \in Task, ReviewReturns(t)
    PROVE  FixLoopInv'
<1> USE DEF FixLoopInv
<1>1. /\ task[t].pc = "role" /\ task[t].work = "code_review" /\ reviewed' = TRUE
      /\ UNCHANGED << installed, iter, slot, cards, scheduled, disp, done,
                      silent, forced, clicks, restarts >>
    BY DEF ReviewReturns
<1>2. PICK b \in BOOLEAN :
         /\ blocked' = b
         /\ task' = [ task EXCEPT ![t].pc = "post", ![t].blocks = b ]
    BY DEF ReviewReturns
<1> DEFINE r == [ [ task[t] EXCEPT !.pc = "post" ] EXCEPT !.blocks = b ]
<1>3. task[t] \in TaskRec
    BY DEF TypeOK
<1>4. r \in TaskRec /\ r.pc = "post" /\ r.owns = task[t].owns
    BY <1>3 DEF TaskRec
<1>5. task' = [ task EXCEPT ![t] = r ]
    BY <1>2 DEF TypeOK
<1> HIDE DEF r
<1>6. /\ task' \in [ Task -> TaskRec ] /\ task'[t] = r
      /\ \A u \in Task : u # t => task'[u] = task[u]
    BY <1>4, <1>5, TaskWrite
<1>7. TypeOK' /\ JobsOnly'
  <2>1. {reviewed, installed, blocked, scheduled, silent, forced}' \subseteq BOOLEAN
    BY <1>1, <1>2, Zenon DEF TypeOK
  <2> QED
    BY <1>1, <1>6, <2>1 DEF TypeOK, JobsOnly
<1>8. LoopInv'
    BY <1>1, <1>4, <1>6, TaskKeepsLoop DEF CountGuards, Fixing, Owner, Active
<1>9. CardInv'
    BY <1>1, <1>4, <1>6, TaskKeepsCards DEF TaskPromises, TypeOK
<1> QED
    BY <1>7, <1>8, <1>9

LEMMA PersistVerdictStep ==
    ASSUME FixLoopInv, NEW t \in Task, PersistVerdict(t)
    PROVE  FixLoopInv'
<1> USE DEF FixLoopInv
<1>1. /\ task[t].pc = "post" /\ blocked' = task[t].blocks /\ reviewed' = TRUE
      /\ UNCHANGED << installed, iter, slot, scheduled, disp, done, silent,
                      forced, clicks, restarts >>
    BY DEF PersistVerdict
<1>2. task[t] \in TaskRec
    BY DEF TypeOK
<1>3. {reviewed, installed, blocked, scheduled, silent, forced}' \subseteq BOOLEAN
  <2>1. task[t].blocks \in BOOLEAN
    BY <1>2 DEF TaskRec
  <2> QED
    BY <1>1, <2>1, Zenon DEF TypeOK
<1>4. CASE task[t].blocks
  <2> DEFINE r == [ task[t] EXCEPT !.pc = "reload" ]
  <2>1. r \in TaskRec /\ r.pc = "reload" /\ r.owns = task[t].owns
    BY <1>2 DEF TaskRec
  <2>2. task' = [ task EXCEPT ![t] = r ] /\ cards' = cards
    BY <1>4 DEF PersistVerdict, TypeOK
  <2> HIDE DEF r
  <2>3. /\ task' \in [ Task -> TaskRec ] /\ task'[t] = r
        /\ \A u \in Task : u # t => task'[u] = task[u]
    BY <2>1, <2>2, TaskWrite
  <2>4. TypeOK' /\ JobsOnly'
    BY <1>1, <1>3, <2>2, <2>3 DEF TypeOK, JobsOnly
  <2>5. LoopInv'
    BY <1>1, <2>1, <2>2, <2>3, TaskKeepsLoop DEF CountGuards, Fixing, Owner, Active
  <2>6. CardInv'
    BY <1>1, <2>1, <2>2, <2>3, TaskKeepsCards DEF TaskPromises, TypeOK
  <2> QED
    BY <2>4, <2>5, <2>6
<1>5. CASE ~task[t].blocks
  <2>1. Enqueue("code_review_pass") /\ End(t)
    BY <1>5 DEF PersistVerdict
  <2>2. "code_review_pass" \in Kind /\ "code_review_blocked" \in Kind
    BY DEF Kind
  <2>3. /\ cards' \in [ Kind -> Nat ]
        /\ cards'["code_review_blocked"] = cards["code_review_blocked"]
    BY <2>1, <2>2, EnqueueCard
  <2>4. /\ task' \in [ Task -> TaskRec ]
        /\ \A u \in Task : u # t => task'[u] = task[u]
        /\ Owner(t)' => Owner(t)
        /\ task'[t].pc \in { "clear", "off" }
        /\ task'[t].pc = "clear" => task'[t].owns
    BY <1>1, <2>1, EndedTask DEF Active
  <2>5. TypeOK' /\ JobsOnly'
    BY <1>1, <1>3, <2>3, <2>4 DEF TypeOK, JobsOnly
  <2>6. LoopInv'
    BY <1>1, <2>3, <2>4, TaskKeepsLoop DEF CountGuards, Fixing
  <2>7. CardInv'
    BY <1>1, <1>5 DEF CardInv
  <2> QED
    BY <2>5, <2>6, <2>7
<1> QED
    BY <1>4, <1>5

\* Below the limit the reloaded row says that the loop goes on.
LEMMA ReloadStep ==
    ASSUME FixLoopInv, NEW t \in Task, Reload(t)
    PROVE  FixLoopInv'
<1> USE DEF FixLoopInv
<1> DEFINE again == ~fix_loop_exhausted(Project)
           r == [ [ task[t] EXCEPT !.pc = "judge" ] EXCEPT !.again = again ]
<1>1. /\ task[t].pc = "reload"
      /\ UNCHANGED << reviewed, installed, blocked, iter, slot, cards,
                      scheduled, disp, done, silent, forced, clicks, restarts >>
    BY DEF Reload
<1>2. task[t] \in TaskRec
    BY DEF TypeOK
<1>3. again \in BOOLEAN /\ (iter < MaxIter => again)
    BY FixLoopAssumption DEF fix_loop_exhausted, Project, TypeOK
<1>4. task' = [ task EXCEPT ![t] = r ]
    BY DEF Reload, TypeOK
<1> HIDE DEF again
<1>5. r \in TaskRec /\ r.pc = "judge" /\ r.owns = task[t].owns
      /\ (iter < MaxIter => r.again)
    BY <1>2, <1>3 DEF TaskRec
<1> HIDE DEF r
<1>6. /\ task' \in [ Task -> TaskRec ] /\ task'[t] = r
      /\ \A u \in Task : u # t => task'[u] = task[u]
    BY <1>4, <1>5, TaskWrite
<1>7. TypeOK' /\ JobsOnly'
    BY <1>1, <1>6 DEF TypeOK, JobsOnly
<1>8. LoopInv'
    BY <1>1, <1>5, <1>6, TaskKeepsLoop DEF CountGuards, Fixing, Owner, Active
<1>9. CardInv'
    BY <1>1, <1>5, <1>6, TaskKeepsCards DEF TaskPromises, TypeOK
<1> QED
    BY <1>7, <1>8, <1>9

\* schedule_auto_engineer_remediate starts a scheduler or finds one.
LEMMA ScheduleEffect ==
    ASSUME TypeOK, ScheduleAutoRemediate
    PROVE  /\ disp' \in [ Dispatcher -> Disp ]
           /\ \A e \in Dispatcher : e # Scheduler => disp'[e] = disp[e]
           /\ \/ disp' = disp
              \/ /\ disp'[Scheduler].pc = "load"
                 /\ disp'[Scheduler].action = "engineer_remediate"
<1> DEFINE r == [ NoDisp EXCEPT !.pc = "load", !.action = "engineer_remediate",
                                !.attempt = 1 ]
<1>1. r \in Disp /\ r.pc = "load" /\ r.action = "engineer_remediate"
    BY Defaults DEF NoDisp, Disp, Action, Jobs
<1>2. disp' = disp \/ disp' = [ disp EXCEPT ![Scheduler] = r ]
    BY DEF ScheduleAutoRemediate
<1>3. Scheduler \in Dispatcher
    BY DEF Dispatcher
<1> HIDE DEF r
<1>4. CASE disp' = disp
    BY <1>4 DEF TypeOK
<1>5. CASE disp' = [ disp EXCEPT ![Scheduler] = r ]
    BY <1>1, <1>3, <1>5, DispWrite
<1> QED
    BY <1>2, <1>4, <1>5

\* A blocked verdict always puts a useful card in the queue, and the card
\* that remediates outside the slot only at the limit.
LEMMA JudgeBlockedStep ==
    ASSUME FixLoopInv, NEW t \in Task, JudgeBlocked(t)
    PROVE  FixLoopInv'
<1> USE DEF FixLoopInv
<1>1. /\ task[t].pc = "judge" /\ End(t)
      /\ UNCHANGED << reviewed, installed, blocked, iter, slot, done, silent,
                      forced, clicks, restarts >>
    BY DEF JudgeBlocked
<1>2. /\ "security_review_blocked" \in Useful /\ "code_review_blocked" \in Useful
      /\ Useful \subseteq Kind
    BY RetryCardNames DEF Kind, Useful
<1>3. /\ task' \in [ Task -> TaskRec ]
      /\ \A u \in Task : u # t => task'[u] = task[u]
      /\ Owner(t)' => Owner(t)
      /\ task'[t].pc \in { "clear", "off" }
      /\ task'[t].pc = "clear" => task'[t].owns
    BY <1>1, EndedTask DEF Active
<1>4. PICK k \in Useful :
         /\ Enqueue(k)
         /\ task[t].again => k = "security_review_blocked"
    BY <1>2 DEF JudgeBlocked
<1>5. /\ cards' \in [ Kind -> Nat ] /\ cards'[k] > 0
      /\ \A j \in Kind : cards'[j] >= cards[j]
      /\ \A j \in Kind : j # k => cards'[j] = cards[j]
    BY <1>2, <1>4, EnqueueCard
<1>6. /\ disp' \in [ Dispatcher -> Disp ]
      /\ \A e \in Dispatcher : e # Scheduler => disp'[e] = disp[e]
      /\ \/ disp' = disp
         \/ /\ disp'[Scheduler].pc = "load"
            /\ disp'[Scheduler].action = "engineer_remediate"
  <2>1. CASE task[t].again
    BY <2>1, ScheduleEffect DEF JudgeBlocked
  <2>2. CASE ~task[t].again
    BY <2>2 DEF JudgeBlocked, TypeOK
  <2> QED
    BY <2>1, <2>2
<1>7. TypeOK' /\ JobsOnly'
  <2>1. scheduled' \in BOOLEAN
    BY Zenon DEF JudgeBlocked, ScheduleAutoRemediate, TypeOK
  <2>2. {reviewed, installed, blocked, scheduled, silent, forced}' \subseteq BOOLEAN
    BY <1>1, <2>1, Zenon DEF TypeOK
  <2> QED
    BY <1>1, <1>3, <1>5, <1>6, <2>2 DEF TypeOK, JobsOnly, Dispatcher
<1>8. LoopInv'
  <2>1. task[t].again =>
          cards'["code_review_blocked"] = cards["code_review_blocked"]
    BY <1>2, <1>4, <1>5
  <2> QED
    BY <1>1, <1>3, <1>6, <2>1, TaskKeepsLoop DEF CountGuards, Fixing
<1>9. CardInv'
    BY <1>1, <1>3, <1>5, <1>6, TaskKeepsCards, FixLoopAssumption DEF Dispatcher
<1> QED
    BY <1>7, <1>8, <1>9

\* The task that clears the slot was its only owner.
LEMMA ClearSlotStep ==
    ASSUME FixLoopInv, NEW t \in Task, ClearSlot(t)
    PROVE  FixLoopInv'
<1> USE DEF FixLoopInv
<1>1. /\ task[t].pc = "clear" /\ slot' = NoSlot
      /\ task' = [ task EXCEPT ![t] = NoTask ]
      /\ UNCHANGED << reviewed, installed, blocked, iter, cards, scheduled,
                      disp, done, silent, forced, clicks, restarts >>
    BY DEF ClearSlot
<1>2. /\ task' \in [ Task -> TaskRec ] /\ task'[t] = NoTask
      /\ \A u \in Task : u # t => task'[u] = task[u]
    BY <1>1, Defaults, TaskWrite
<1>3. NoTask.pc = "off"
    BY DEF NoTask
<1>4. TypeOK' /\ JobsOnly'
    BY <1>1, <1>2, Defaults DEF TypeOK, JobsOnly
<1>5. LoopInv'
  <2> SUFFICES ASSUME ~forced PROVE (OnlyAuto /\ SlotGuards /\ CountGuards)'
    BY <1>1 DEF LoopInv
  <2>1. OnlyAuto /\ SlotGuards /\ CountGuards
    BY DEF LoopInv
  <2>2. OnlyAuto'
    BY <1>1, <2>1 DEF OnlyAuto
  <2>3. Owner(t)
    BY <1>1, <2>1 DEF SlotGuards, Owner, Active
  <2>4. ~Relies /\ disp[Scheduler].pc # "spawn"
    BY <2>1, <2>3 DEF SlotGuards, Relies
  <2>5. \A u \in Task : ~Owner(u)'
    BY <1>2, <1>3, <2>1, <2>3 DEF SlotGuards, Owner, Active
  <2>6. \A u \in Task : task'[u].pc = "clear" => task'[u].owns
    BY <1>2, <1>3, <2>1 DEF SlotGuards
  <2>7. SlotGuards'
    BY <1>1, <2>4, <2>5, <2>6 DEF SlotGuards
  <2>8. CountGuards'
    BY <1>1, <1>2, <1>3, <2>1 DEF CountGuards, Fixing
  <2> QED
    BY <2>2, <2>7, <2>8
<1>6. CardInv'
    BY <1>1, <1>2, TaskKeepsCards DEF TaskPromises, TypeOK
<1> QED
    BY <1>4, <1>5, <1>6

-----------------------------------------------------------------------------
(* What people do, time and restarts keep the invariant                    *)

\* A person's dispatch starts: it is one by hand, and a promise.
LEMMA PersonDispatches ==
    ASSUME FixLoopInv, NEW u \in User, NEW a \in Action,
           disp' = [ disp EXCEPT ![u] = [ NoDisp EXCEPT !.pc = "load", !.action = a ] ],
           forced' = TRUE, cards' \in [ Kind -> Nat ], clicks' \in Nat,
           UNCHANGED << reviewed, installed, blocked, iter, slot, scheduled,
                        task, done, silent, restarts >>
    PROVE  FixLoopInv'
<1> USE DEF FixLoopInv
<1> DEFINE r == [ NoDisp EXCEPT !.pc = "load", !.action = a ]
<1>1. r \in Disp /\ r.pc = "load"
    BY Defaults DEF NoDisp, Disp
<1>2. disp' = [ disp EXCEPT ![u] = r ] /\ u \in Dispatcher
    BY DEF Dispatcher
<1> HIDE DEF r
<1>3. /\ disp' \in [ Dispatcher -> Disp ] /\ disp'[u] = r
      /\ \A e \in Dispatcher : e # u => disp'[e] = disp[e]
    BY <1>1, <1>2, DispWrite
<1>4. {reviewed, installed, blocked, scheduled, silent, forced}' \subseteq BOOLEAN
    BY Zenon DEF TypeOK
<1>5. TypeOK' /\ JobsOnly'
    BY <1>1, <1>3, <1>4 DEF TypeOK, JobsOnly
<1>6. LoopInv'
    BY DEF LoopInv
<1>7. CardInv'
  <2>1. DispPromises(u)'
    BY <1>1, <1>3 DEF DispPromises
  <2> QED
    BY <2>1 DEF CardInv
<1> QED
    BY <1>5, <1>6, <1>7

LEMMA ClickStep ==
    ASSUME FixLoopInv, NEW u \in User, Click(u)
    PROVE  FixLoopInv'
<1>1. PICK a \in Clicks :
         disp' = [ disp EXCEPT ![u] = [ NoDisp EXCEPT !.pc = "load", !.action = a ] ]
    BY DEF Click
<1>2. a \in Action
    BY FixLoopAssumption
<1>3. cards' \in [ Kind -> Nat ] /\ clicks' \in Nat
    BY DEF Click, Count, FixLoopInv, TypeOK
<1> QED
    BY <1>1, <1>2, <1>3, PersonDispatches DEF Click

\* An ack or a reject takes one card of kind k away.
LEMMA CardTaken ==
    ASSUME TypeOK, NEW k \in Kind, cards[k] > 0,
           cards' = [ cards EXCEPT ![k] = @ - 1 ], Count
    PROVE  /\ cards' \in [ Kind -> Nat ]
           /\ \A j \in Kind : cards'[j] <= cards[j]
           /\ \A j \in Kind : j # k => cards'[j] = cards[j]
           /\ clicks' \in Nat
BY DEF TypeOK, Count

\* The hook of an acked or rejected card starts a task outside the slot.
LEMMA HookStarts ==
    ASSUME FixLoopInv, NEW k \in Kind, NEW w \in Works, Create(w, FALSE),
           cards[k] > 0, cards' = [ cards EXCEPT ![k] = @ - 1 ], Count,
           w = "engineer_remediate" => k = "code_review_blocked",
           w = "devops" => k = "code_review_pass",
           UNCHANGED << reviewed, installed, blocked, iter, slot, scheduled,
                        disp, done, silent, forced, restarts >>
    PROVE  FixLoopInv'
<1> USE DEF FixLoopInv
<1>1. /\ cards' \in [ Kind -> Nat ]
      /\ \A j \in Kind : cards'[j] <= cards[j]
      /\ \A j \in Kind : j # k => cards'[j] = cards[j]
      /\ clicks' \in Nat
    BY CardTaken
<1>2. PICK t \in Task :
              /\ task[t].pc = "off"
              /\ task' \in [ Task -> TaskRec ]
              /\ task'[t].pc = "role" /\ task'[t].work = w /\ ~task'[t].owns
              /\ \A u \in Task : u # t => task'[u] = task[u]
    BY CreateHook
<1>3. TypeOK' /\ JobsOnly'
    BY <1>1, <1>2 DEF TypeOK, JobsOnly
<1>4. LoopInv'
  <2>1. ~forced /\ CountGuards /\ iter < MaxIter =>
          /\ w # "engineer_remediate"
          /\ cards'["code_review_blocked"] = 0
    <3> SUFFICES ASSUME CountGuards, iter < MaxIter
                 PROVE  /\ w # "engineer_remediate"
                        /\ cards'["code_review_blocked"] = 0
      OBVIOUS
    <3>1. "code_review_blocked" \in Kind /\ cards["code_review_blocked"] = 0
      BY DEF CountGuards, Kind
    <3> QED
      BY <1>1, <3>1
  <2> QED
    BY <1>2, <2>1, TaskKeepsLoop DEF CountGuards, Fixing, Owner
<1>5. CardInv'
  <2> SUFFICES ASSUME blocked, ~silent
               PROVE  \/ \E j \in Useful : cards'[j] > 0
                      \/ \E u \in Task : TaskPromises(u)'
                      \/ \E u \in User : DispPromises(u)'
    BY DEF CardInv
  <2>1. CASE w # "devops"
    <3>1. TaskPromises(t)'
      BY <1>2, <2>1 DEF TaskPromises
    <3> QED
      BY <3>1
  <2>2. CASE w = "devops"
    <3>1. \A j \in Useful : cards'[j] = cards[j]
      BY <1>1, <2>2 DEF Useful
    <3>2. \A u \in Task : TaskPromises(u) => TaskPromises(u)'
      BY <1>2 DEF TaskPromises
    <3>3. \A u \in User : DispPromises(u) => DispPromises(u)'
      BY DEF DispPromises
    <3> QED
      BY <3>1, <3>2, <3>3 DEF CardInv
  <2> QED
    BY <2>1, <2>2
<1> QED
    BY <1>3, <1>4, <1>5

LEMMA AckStep ==
    ASSUME FixLoopInv, NEW u \in User, NEW k \in Answers, Ack(u, k)
    PROVE  FixLoopInv'
<1>1. k \in Kind /\ k # "devops_approval"
    BY FixLoopAssumption
<1>2. /\ Count /\ cards[k] > 0 /\ cards' = [ cards EXCEPT ![k] = @ - 1 ]
      /\ UNCHANGED << reviewed, installed, blocked, iter, slot, scheduled, done,
                      silent, restarts >>
    BY DEF Ack
<1>3. CASE k \in RetryCards
  <2>1. PICK j \in Jobs :
           disp' = [ disp EXCEPT ![u] = [ NoDisp EXCEPT !.pc = "load", !.action = j ] ]
    BY <1>3 DEF Ack
  <2>2. j \in Action
    BY DEF Action
  <2>3. cards' \in [ Kind -> Nat ] /\ clicks' \in Nat
    BY <1>1, <1>2, CardTaken DEF FixLoopInv
  <2>4. forced' = TRUE /\ task' = task
    BY <1>3 DEF Ack
  <2> QED
    BY <1>2, <2>1, <2>2, <2>3, <2>4, PersonDispatches
<1>4. CASE k \notin RetryCards
  <2>1. k \in { "code_approval", "code_review_blocked", "security_review_blocked",
                "code_review_pass" }
    BY <1>1, <1>4 DEF Kind
  <2>2. /\ HookWork(k) \in Works
        /\ HookWork(k) = "engineer_remediate" => k = "code_review_blocked"
        /\ HookWork(k) = "devops" => k = "code_review_pass"
    BY <2>1 DEF HookWork, Works, Jobs
  <2>3. Create(HookWork(k), FALSE) /\ disp' = disp
    BY <1>4 DEF Ack
  <2>4. forced' = forced
    <3>1. forced \in BOOLEAN
      BY Zenon DEF FixLoopInv, TypeOK
    <3> QED
      BY <1>4, <3>1 DEF Ack
  <2> QED
    BY <1>1, <1>2, <2>2, <2>3, <2>4, HookStarts
<1> QED
    BY <1>3, <1>4

LEMMA RejectStep ==
    ASSUME FixLoopInv, NEW k \in Answers, Reject(k)
    PROVE  FixLoopInv'
<1>1. k \in Kind
    BY FixLoopAssumption
<1>2. /\ Count /\ cards[k] > 0 /\ cards' = [ cards EXCEPT ![k] = @ - 1 ]
      /\ UNCHANGED << reviewed, installed, blocked, iter, slot, scheduled, disp,
                      done, forced, restarts >>
    BY DEF Reject
<1>3. CASE k = "code_approval"
  <2>1. Create("regenerate", FALSE) /\ silent' = silent /\ "regenerate" \in Works
    BY <1>3 DEF Reject, Works
  <2> QED
    BY <1>1, <1>2, <2>1, HookStarts
<1>4. CASE k # "code_approval"
  <2>1. silent' = TRUE /\ task' = task
    BY <1>4 DEF Reject
  <2>2. /\ cards' \in [ Kind -> Nat ] /\ clicks' \in Nat
        /\ \A j \in Kind : cards'[j] <= cards[j]
    BY <1>1, <1>2, CardTaken DEF FixLoopInv
  <2>3. {reviewed, installed, blocked, scheduled, silent, forced}' \subseteq BOOLEAN
    BY <1>2, <2>1, Zenon DEF FixLoopInv, TypeOK
  <2>4. TypeOK' /\ JobsOnly'
    BY <1>2, <2>1, <2>2, <2>3 DEF FixLoopInv, TypeOK, JobsOnly
  <2>5. LoopInv'
    <3>1. cards["code_review_blocked"] = 0 => cards'["code_review_blocked"] = 0
      BY <2>2 DEF FixLoopInv, TypeOK, Kind
    <3> QED
      BY <1>2, <2>1, <3>1
      DEF FixLoopInv, LoopInv, OnlyAuto, SlotGuards, CountGuards, Owner, Active,
          Fixing, Relies
  <2>6. CardInv'
    BY <2>1 DEF CardInv
  <2> QED
    BY <2>4, <2>5, <2>6 DEF FixLoopInv
<1> QED
    BY <1>3, <1>4

\* cancel-inflight and the poll that reaps take the slot from a dispatch.
LEMMA SlotTakenStep ==
    ASSUME FixLoopInv, CancelInflight \/ StatusPoll
    PROVE  FixLoopInv'
<1>1. /\ slot' = NoSlot /\ forced' = TRUE
      /\ UNCHANGED << reviewed, installed, blocked, iter, cards, scheduled,
                      disp, task, done, silent, restarts >>
    BY DEF CancelInflight, StatusPoll
<1>2. clicks' \in Nat
    BY DEF CancelInflight, StatusPoll, Count, FixLoopInv, TypeOK
<1>3. {reviewed, installed, blocked, scheduled, silent, forced}' \subseteq BOOLEAN
    BY <1>1, Zenon DEF FixLoopInv, TypeOK
<1>4. TypeOK' /\ JobsOnly'
    BY <1>1, <1>2, <1>3, Defaults DEF FixLoopInv, TypeOK, JobsOnly
<1>5. LoopInv'
    BY <1>1 DEF LoopInv
<1>6. CardInv'
    BY <1>1 DEF FixLoopInv, CardInv, TaskPromises, DispPromises
<1> QED
    BY <1>4, <1>5, <1>6 DEF FixLoopInv

LEMMA AgeStep ==
    ASSUME FixLoopInv, Age
    PROVE  FixLoopInv'
<1>1. /\ slot # NoSlot /\ slot' = [ slot EXCEPT !.stale = TRUE ]
      /\ UNCHANGED << reviewed, installed, blocked, iter, cards, scheduled,
                      disp, task, done, silent, forced, clicks, restarts >>
    BY DEF Age
<1>2. slot' \in Slot /\ slot'.stale
    BY <1>1 DEF FixLoopInv, TypeOK, Slot
<1>3. slot' # NoSlot
    BY <1>2 DEF NoSlot
<1>4. TypeOK' /\ JobsOnly'
    BY <1>1, <1>2 DEF FixLoopInv, TypeOK, JobsOnly
<1>5. LoopInv'
    BY <1>1, <1>3
    DEF FixLoopInv, LoopInv, OnlyAuto, SlotGuards, CountGuards, Owner, Active,
        Fixing, Relies
<1>6. CardInv'
    BY <1>1 DEF FixLoopInv, CardInv, TaskPromises, DispPromises
<1> QED
    BY <1>4, <1>5, <1>6 DEF FixLoopInv

\* A restart that cuts a promise short is silent.
LEMMA RestartStep ==
    ASSUME FixLoopInv, Restart
    PROVE  FixLoopInv'
<1> USE DEF FixLoopInv
<1>1. /\ restarts' = restarts + 1 /\ slot' = NoSlot /\ scheduled' = FALSE
      /\ disp' = [ d \in Dispatcher |-> NoDisp ]
      /\ task' = [ t \in Task |-> NoTask ]
      /\ UNCHANGED << reviewed, installed, blocked, iter, cards, done, forced,
                      clicks >>
    BY DEF Restart
<1>2. /\ silent' \in BOOLEAN
      /\ silent \/ task # [ t \in Task |-> NoTask ]
                \/ (\E d \in Dispatcher : disp[d].pc # "idle") => silent'
    BY DEF Restart
<1>3. {reviewed, installed, blocked, scheduled, silent, forced}' \subseteq BOOLEAN
    BY <1>1, <1>2, Zenon DEF TypeOK
<1>4. NoDisp.pc = "idle" /\ NoTask.pc = "off"
    BY DEF NoDisp, NoTask
<1>5. TypeOK' /\ JobsOnly'
    BY <1>1, <1>3, <1>4, Defaults DEF TypeOK, JobsOnly
<1>6. LoopInv'
    BY <1>1, <1>4
    DEF LoopInv, OnlyAuto, SlotGuards, CountGuards, Owner, Active, Fixing, Relies,
        Dispatcher
<1>7. CardInv'
  <2>1. ASSUME NEW t \in Task, TaskPromises(t) PROVE silent'
    <3>1. task[t].pc # "off"
      BY <2>1 DEF TaskPromises
    <3>2. task # [ v \in Task |-> NoTask ]
      BY <1>4, <3>1
    <3> QED
      BY <1>2, <3>2
  <2>2. ASSUME NEW u \in User, DispPromises(u) PROVE silent'
    <3>1. disp[u].pc # "idle" /\ u \in Dispatcher
      BY <2>2 DEF DispPromises, Dispatcher
    <3> QED
      BY <1>2, <3>1
  <2> QED
    BY <1>1, <1>2, <2>1, <2>2 DEF CardInv
<1> QED
    BY <1>5, <1>6, <1>7

-----------------------------------------------------------------------------
(* The theorems                                                            *)

LEMMA FixLoopInit == Init => FixLoopInv
<1> SUFFICES ASSUME Init PROVE FixLoopInv
    OBVIOUS
<1>1. TypeOK
    BY InitTypes
<1>2. /\ \A d \in Dispatcher : disp[d].pc = "idle"
      /\ \A t \in Task : task[t].pc = "off"
    BY DEF Init, NoDisp, NoTask
<1>3. JobsOnly
    BY <1>2 DEF JobsOnly
<1>4. LoopInv
  <2>1. "code_review_blocked" \in Kind
    BY DEF Kind
  <2>2. Scheduler \in Dispatcher /\ User \subseteq Dispatcher
    BY DEF Dispatcher
  <2>3. OnlyAuto /\ SlotGuards
    BY <1>2, <2>2 DEF OnlyAuto, SlotGuards, Owner, Active
  <2>4. CountGuards
    BY <1>2, <2>1, FixLoopAssumption DEF Init, CountGuards, Fixing
  <2> QED
    BY <2>3, <2>4 DEF LoopInv
<1>5. CardInv
    BY DEF Init, CardInv
<1> QED
    BY <1>1, <1>3, <1>4, <1>5 DEF FixLoopInv

LEMMA FixLoopStep == FixLoopInv /\ [Next]_vars => FixLoopInv'
<1> SUFFICES ASSUME FixLoopInv, [Next]_vars PROVE FixLoopInv'
    OBVIOUS
<1>1. ASSUME NEW d \in Dispatcher, DispatchStep(d) PROVE FixLoopInv'
    BY <1>1, LoadStep, ReapStep, DecideStep, CountPendingStep, ResetFixLoopStep,
       TakeStep, SpawnStep DEF DispatchStep
<1>2. ASSUME NEW t \in Task, TaskStep(t) PROVE FixLoopInv'
    BY <1>2, RoleFailsStep, RoleRaisesStep, RoleReturnsStep, IncrementReadStep,
       IncrementWriteStep, ReviewReturnsStep, PersistVerdictStep, ReloadStep,
       JudgeBlockedStep, ClearSlotStep DEF TaskStep
<1>3. ASSUME NEW u \in User, UserStep(u) PROVE FixLoopInv'
    BY <1>3, ClickStep, AckStep DEF UserStep
<1>4. ASSUME NEW k \in Answers, Reject(k) PROVE FixLoopInv'
    BY <1>4, RejectStep
<1>5. CASE CancelInflight \/ StatusPoll \/ Age \/ Restart
    BY <1>5, SlotTakenStep, AgeStep, RestartStep
<1>6. CASE UNCHANGED vars
    BY <1>6
    DEF vars, FixLoopInv, TypeOK, JobsOnly, LoopInv, OnlyAuto, SlotGuards,
        CountGuards, Owner, Active, Fixing, Relies, CardInv, TaskPromises,
        DispPromises
<1> QED
    BY <1>1, <1>2, <1>3, <1>4, <1>5, <1>6 DEF Next

LEMMA FixLoopInvariant == Spec => []FixLoopInv
BY FixLoopInit, FixLoopStep, PTL DEF Spec

\* The metadata, the slot, the cards and the coroutines keep their types, for
\* any number of people, tasks, attempts and passes.
THEOREM FixLoopTypes == Spec => []TypeOK
<1>1. FixLoopInv => TypeOK
    BY DEF FixLoopInv
<1> QED
    BY <1>1, FixLoopInvariant, PTL

\* recovery_dispatch_in_flight keeps a second dispatch out, however many ack
\* hooks run beside the automatic loop.
THEOREM FixLoopOneDispatch == Spec => []OneDispatch
<1>1. FixLoopInv => OneDispatch
  <2> SUFFICES ASSUME FixLoopInv, ~forced
               PROVE  Cardinality({ t \in Task : Active(t) /\ task[t].owns }) <= 1
    BY DEF OneDispatch
  <2> DEFINE S == { t \in Task : Active(t) /\ task[t].owns }
  <2>1. \A t, u \in S : t = u
    BY DEF FixLoopInv, LoopInv, SlotGuards, Owner
  <2>2. Cardinality(S) <= 1
    <3> HIDE DEF S
    <3>1. CASE S = {}
      BY <3>1, FS_EmptySet
    <3>2. CASE S # {}
      <4>1. PICK t \in S : TRUE
        BY <3>2
      <4>2. S = {t}
        BY <2>1, <4>1
      <4> QED
        BY <4>2, FS_Singleton
    <3> QED
      BY <3>1, <3>2
  <2> QED
    BY <2>2
<1> QED
    BY <1>1, FixLoopInvariant, PTL

\* Until the limit is reached no pass of the engineer is lost or counted twice,
\* although increment_code_fix_iteration reads and writes in two queries.
THEOREM FixLoopCounts == Spec => []CountExact
<1>1. FixLoopInv => CountExact
    BY FixLoopAssumption DEF FixLoopInv, TypeOK, LoopInv, CountGuards, CountExact
<1> QED
    BY <1>1, FixLoopInvariant, PTL

\* Whatever people, failures and restarts do, a blocked project at rest has a
\* card from which its founder can go on, or one of the named silences happened.
THEOREM FixLoopHasCard == Spec => []BlockedHasCard
<1>1. FixLoopInv => BlockedHasCard
  <2> SUFFICES ASSUME FixLoopInv, Quiet, blocked, ~silent
               PROVE  \E k \in Useful : cards[k] > 0
    BY DEF BlockedHasCard, Useful
  <2>1. \A t \in Task : ~TaskPromises(t)
    BY DEF Quiet, Active, TaskPromises
  <2>2. \A u \in User : ~DispPromises(u)
    BY DEF Quiet, DispPromises, Dispatcher
  <2> QED
    BY <2>1, <2>2 DEF FixLoopInv, CardInv
<1> QED
    BY <1>1, FixLoopInvariant, PTL
=============================================================================
