------------------------------ MODULE FixLoop ------------------------------
(***************************************************************************)
(* The security fix loop of the Hub, for one project in the build phase:   *)
(* security review, engineer remediation, review again.                    *)
(*   shared/api/routes/_project_recovery.py   recovery_dispatch, the slot  *)
(*       metadata.recovery_dispatch_in_flight, the automatic scheduler     *)
(*   shared/api/routes/_post_ack.py           _orchestrate_hub_role and    *)
(*       the ack hooks of the review and code cards                        *)
(*                                                                         *)
(* A coroutine runs undisturbed from one await to the next.  A step is one *)
(* query (executed by the database) or one stretch of code between two.    *)
(* disp[d] is the recovery_dispatch dispatcher d is inside of; task[t] is  *)
(* a background task that runs roles: a recovery dispatch, which clears    *)
(* the slot when it ends, or an ack hook, which never touches the slot.    *)
(***************************************************************************)
EXTENDS Naturals, FiniteSets

CONSTANTS
    User,           \* people at the SPA
    Scheduler,      \* the coroutine of schedule_auto_engineer_remediate
    MaxTasks,       \* bound: background tasks at one time
    MaxIter,        \* MAX_CODE_FIX_ITERATIONS
    MaxAttempts,    \* _AUTO_REMEDIATE_MAX_ATTEMPTS
    Clicks,         \* the recovery actions people ask for
    Answers,        \* the kinds of card people ack or reject
    Fails,          \* whether a role may fail or raise
    Ages,           \* whether a dispatch may outlive _INFLIGHT_STALE_SECONDS
    Cancels,        \* whether people use cancel-inflight
    MaxClicks,      \* bound: requests people make
    MaxRestarts     \* bound: restarts of the Hub

\* What a dispatch runs (the recovery actions without their prefix retry_).
Jobs == { "engineer", "engineer_remediate", "code_review", "devops" }

Action == Jobs \cup { "reset_fix_loop", "resume" }

\* The role_failure card, by its retry_action.
Failed(j) == CASE j = "engineer"           -> "engineer_failed"
               [] j = "engineer_remediate" -> "remediate_failed"
               [] j = "code_review"        -> "review_failed"
               [] j = "devops"             -> "devops_failed"

RetryCards == { Failed(j) : j \in Jobs }

Kind == { "code_approval", "code_review_blocked", "security_review_blocked",
          "code_review_pass", "devops_approval" } \cup RetryCards

ASSUME FixLoopAssumption ==
    /\ Scheduler \notin User
    /\ MaxTasks \in Nat /\ MaxIter \in Nat \ {0} /\ MaxAttempts \in Nat \ {0}
    /\ Clicks \subseteq Action /\ Answers \subseteq Kind \ {"devops_approval"}
    /\ {Fails, Ages, Cancels} \subseteq BOOLEAN
    /\ MaxClicks \in Nat /\ MaxRestarts \in Nat

VARIABLES
    reviewed,   \* metadata.code_review_md is there
    installed,  \* metadata.devops_install_ok
    blocked,    \* metadata.code_review_blocked
    iter,       \* metadata.code_fix_iteration
    slot,       \* metadata.recovery_dispatch_in_flight, or NoSlot
    cards,      \* cards[k]: pending cards of kind k
    scheduled,  \* the project is in _AUTO_REMEDIATE_SCHEDULED
    disp,       \* disp[d]: the recovery_dispatch of d
    task,       \* task[t]: the background tasks
    done,       \* history: remediations completed since the last reset
    silent,     \* history: a role raised, a restart cut work short, a card
                \* was rejected or a dispatch refused: no card came of it
    forced,     \* history: a person dispatched, or the slot was taken from
                \* a dispatch (reaped or cancelled)
    clicks, restarts

vars == << reviewed, installed, blocked, iter, slot, cards, scheduled, disp, task, done,
           silent, forced, clicks, restarts >>

Dispatcher == User \cup {Scheduler}
Task       == 1..MaxTasks

NoSlot == [ action |-> "none", stale |-> FALSE ]
Slot   == [ action : Jobs \cup {"none"}, stale : BOOLEAN ]

\* The project row as _load_project_full returns it.
Row     == [ reviewed : BOOLEAN, installed : BOOLEAN, blocked : BOOLEAN,
             iter : Nat, slot : Slot ]
Project == [ reviewed |-> reviewed, installed |-> installed,
             blocked |-> blocked, iter |-> iter, slot |-> slot ]

Disp == [ pc : { "idle", "load", "decide", "reap", "reset", "count", "take",
                 "spawn" },
          action : Action, attempt : Nat, seen : Row ]

\* work: "recode" is the engineer without the re-review (security_review_
\* blocked acked), "regenerate" the engineer after a rejected code_approval.
Works == Jobs \cup { "recode", "regenerate" }

TaskRec == [ pc : { "off", "role", "read", "write", "post", "reload", "judge",
                    "clear" },
             work : Works, owns : BOOLEAN, blocks : BOOLEAN,
             again : BOOLEAN, n : Nat ]

TypeOK ==
    /\ {reviewed, installed, blocked, scheduled, silent, forced} \subseteq BOOLEAN
    /\ {iter, done, clicks, restarts} \subseteq Nat
    /\ slot \in Slot
    /\ cards \in [ Kind -> Nat ]
    /\ disp \in [ Dispatcher -> Disp ]
    /\ task \in [ Task -> TaskRec ]

NoRow  == [ reviewed |-> FALSE, installed |-> FALSE, blocked |-> FALSE,
            iter |-> 0, slot |-> NoSlot ]
NoDisp == [ pc |-> "idle", action |-> "resume", attempt |-> 0, seen |-> NoRow ]
NoTask == [ pc |-> "off", work |-> "devops", owns |-> FALSE, blocks |-> FALSE,
            again |-> FALSE, n |-> 0 ]

\* The engineer has produced the code; its approval card is pending.
Init ==
    /\ reviewed = FALSE /\ installed = FALSE
    /\ blocked = FALSE /\ iter = 0
    /\ slot = NoSlot
    /\ cards = [ k \in Kind |-> IF k = "code_approval" THEN 1 ELSE 0 ]
    /\ scheduled = FALSE
    /\ disp = [ d \in Dispatcher |-> NoDisp ]
    /\ task = [ t \in Task |-> NoTask ]
    /\ done = 0 /\ silent = FALSE /\ forced = FALSE
    /\ clicks = 0 /\ restarts = 0

fix_loop_exhausted(p) == p.blocked /\ p.iter >= MaxIter

Enqueue(k) == cards' = [ cards EXCEPT ![k] = @ + 1 ]

\* create_task: in a free place of the pool (which one makes no difference).
Create(work, owns) ==
    LET t == CHOOSE t \in Task : task[t].pc = "off"
    IN  /\ \E u \in Task : task[u].pc = "off"
        /\ task' = [ task EXCEPT ![t] = [ NoTask EXCEPT !.pc = "role",
                                              !.work = work, !.owns = owns ] ]

Count == clicks < MaxClicks /\ clicks' = clicks + 1

-----------------------------------------------------------------------------
(* recovery_dispatch                                                       *)

\* _pick_resume_action, in the build phase with code on disk.
_pick_resume_action(p) ==
    CASE p.blocked /\ fix_loop_exhausted(p)              -> "code_review"
      [] p.blocked /\ ~fix_loop_exhausted(p)             -> "engineer_remediate"
      [] ~p.blocked /\ ~p.reviewed                       -> "code_review"
      [] ~p.blocked /\ p.reviewed /\ ~p.installed        -> "devops"
      [] ~p.blocked /\ p.reviewed /\ p.installed         -> "engineer_remediate"

\* _action_specs, in the build phase with a sprint plan and code on disk.
_action_specs(p) ==
    {"engineer", "code_review"}
        \cup { j \in {"engineer_remediate"} : p.blocked \/ p.reviewed }
        \cup { j \in {"devops"} : p.reviewed /\ ~p.blocked }

ResetAllowed(p) == p.blocked /\ p.iter > 0

Resolved(d) == IF disp[d].action = "resume" THEN _pick_resume_action(disp[d].seen)
               ELSE disp[d].action

\* Faulty: the row is read without recovery_dispatch_in_flight.
LoadNoSlot(d) ==
    /\ disp[d].pc = "load"
    /\ disp' = [ disp EXCEPT ![d].seen = [ Project EXCEPT !.slot = NoSlot ],
                             ![d].pc = "decide" ]
    /\ UNCHANGED << reviewed, installed, blocked, iter, slot, cards,
                    scheduled, task, done, silent, forced, clicks, restarts >>

Load(d) ==
    /\ disp[d].pc = "load"
    /\ disp' = [ disp EXCEPT ![d].seen = Project,
                     ![d].pc = IF slot.stale THEN "reap" ELSE "decide" ]
    /\ UNCHANGED << reviewed, installed, blocked, iter, slot, cards,
                    scheduled, task, done, silent, forced, clicks, restarts >>

\* _reap_stale_dispatch_inflight, for the slot that was read before.
Reap(d) ==
    /\ disp[d].pc = "reap"
    /\ slot' = NoSlot
    /\ disp' = [ disp EXCEPT ![d].pc = "decide", ![d].seen.slot = NoSlot ]
    /\ forced' = TRUE
    /\ UNCHANGED << reviewed, installed, blocked, iter, cards, scheduled,
                    task, done, silent, clicks, restarts >>

\* Faulty: the project is not discarded from _AUTO_REMEDIATE_SCHEDULED.
ReturnScheduled(d) ==
    /\ disp' = [ disp EXCEPT ![d] = NoDisp ]
    /\ UNCHANGED scheduled

\* The dispatch returns; the automatic scheduler leaves the dedupe set.
Return(d) ==
    /\ disp' = [ disp EXCEPT ![d] = NoDisp ]
    /\ scheduled' = IF d = Scheduler THEN FALSE ELSE scheduled

\* The dispatch is refused.  For an acked role_failure nobody learns of it.
Refused(d) ==
    /\ Return(d)
    /\ silent' = (silent \/ d \in User)

\* "dispatch_in_flight": the scheduler tries again, MaxAttempts times in all.
Refuse(d) ==
    IF d = Scheduler /\ disp[d].attempt < MaxAttempts
    THEN /\ disp' = [ disp EXCEPT ![d].pc = "load", ![d].attempt = @ + 1,
                                  ![d].seen = NoRow ]
         /\ UNCHANGED << scheduled, silent >>
    ELSE Refused(d)

\* ok with skipped: a remediation is already in flight.
Skipped(d) ==
    /\ d = Scheduler
    /\ Resolved(d) = "engineer_remediate"
    /\ disp[d].seen.slot.action = "engineer_remediate"

\* The last check before the slot is taken.
CheckAllowed(d, a) ==
    IF a \in _action_specs(disp[d].seen)
    THEN /\ disp' = [ disp EXCEPT ![d] = [ NoDisp EXCEPT !.pc = "take",
                                                         !.action = a ] ]
         /\ UNCHANGED << scheduled, silent >>
    ELSE Refused(d)

Goto(d, pc) ==
    /\ disp' = [ disp EXCEPT ![d].pc = pc, ![d].action = Resolved(d) ]
    /\ UNCHANGED << scheduled, silent >>

\* The checks between the load and the next query.  A manual remediation of
\* an exhausted loop is not held up by pending cards: fix_loop_guard returns
\* its other error first.
Decide(d) ==
    LET seen    == disp[d].seen
        a       == Resolved(d)
        free    == seen.slot = NoSlot
        fix     == a = "engineer_remediate"
        spent   == fix_loop_exhausted(seen)
    IN
    /\ disp[d].pc = "decide"
    /\ \/ Skipped(d) /\ Return(d) /\ UNCHANGED silent
       \/ ~free /\ ~Skipped(d) /\ Refuse(d)
       \/ free /\ a = "reset_fix_loop" /\ ResetAllowed(seen) /\ Goto(d, "reset")
       \/ free /\ a = "reset_fix_loop" /\ ~ResetAllowed(seen) /\ Refused(d)
       \/ free /\ fix /\ d = Scheduler /\ spent /\ Refused(d)
       \/ free /\ fix /\ d # Scheduler /\ ~spent /\ Goto(d, "count")
       \/ /\ free /\ a \in Jobs
          /\ fix => (d = Scheduler <=> ~spent)
          /\ CheckAllowed(d, a)
    /\ UNCHANGED << reviewed, installed, blocked, iter, slot, cards, task,
                    done, forced, clicks, restarts >>

\* count_pending_for_project: a manual remediation waits for no open card.
CountPending(d) ==
    /\ disp[d].pc = "count"
    /\ IF \E k \in Kind : cards[k] > 0 THEN Refused(d)
       ELSE CheckAllowed(d, "engineer_remediate")
    /\ UNCHANGED << reviewed, installed, blocked, iter, slot, cards, task,
                    done, forced, clicks, restarts >>

ResetFixLoop(d) ==
    /\ disp[d].pc = "reset"
    /\ blocked' = FALSE /\ iter' = 0 /\ done' = 0
    /\ Return(d)
    /\ UNCHANGED << reviewed, installed, slot, cards, task, silent, forced,
                    clicks, restarts >>

\* The slot is taken without looking at it again.
Take(d) ==
    /\ disp[d].pc = "take"
    /\ slot' = [ action |-> disp[d].action, stale |-> FALSE ]
    /\ disp' = [ disp EXCEPT ![d].pc = "spawn" ]
    /\ UNCHANGED << reviewed, installed, blocked, iter, cards, scheduled,
                    task, done, silent, forced, clicks, restarts >>

\* Faulty: the remediation is counted when it starts as well.
SpawnCounts(d) ==
    /\ disp[d].pc = "spawn"
    /\ Create(disp[d].action, TRUE)
    /\ Return(d)
    /\ iter' = IF disp[d].action = "engineer_remediate" THEN iter + 1 ELSE iter
    /\ UNCHANGED << reviewed, installed, blocked, slot, cards, done, silent,
                    forced, clicks, restarts >>

Spawn(d) ==
    /\ disp[d].pc = "spawn"
    /\ Create(disp[d].action, TRUE)
    /\ Return(d)
    /\ UNCHANGED << reviewed, installed, blocked, iter, slot, cards, done,
                    silent, forced, clicks, restarts >>

DispatchStep(d) ==
    \/ Load(d) \/ Reap(d) \/ Decide(d) \/ CountPending(d) \/ ResetFixLoop(d)
    \/ Take(d) \/ Spawn(d)

-----------------------------------------------------------------------------
(* _run_recovery_orchestration and _orchestrate_hub_role                   *)

\* A dispatch goes on to the finally clause that clears the slot.
End(t) == task' = [ task EXCEPT ![t] = IF @.owns
                                     THEN [ NoTask EXCEPT !.pc = "clear",
                                                          !.owns = TRUE ]
                                     ELSE NoTask ]

\* The role reports an error: a role_failure card.
RoleFails(t) ==
    /\ Fails
    /\ task[t].pc = "role" /\ task[t].work # "regenerate"
    /\ Enqueue(Failed(IF task[t].work = "recode" THEN "engineer_remediate"
                      ELSE task[t].work))
    /\ End(t)
    /\ UNCHANGED << reviewed, installed, blocked, iter, slot, scheduled, disp,
                    done, silent, forced, clicks, restarts >>

\* Faulty: no finally clause.
RoleRaisesOut(t) ==
    /\ Fails
    /\ task[t].pc = "role"
    /\ silent' = TRUE
    /\ task' = [ task EXCEPT ![t] = NoTask ]
    /\ UNCHANGED << reviewed, installed, blocked, iter, slot, cards,
                    scheduled, disp, done, forced, clicks, restarts >>

\* An exception leaves the dispatch, or ends _dispatch_engineer_codegen_with_
\* feedback: nothing is put in the queue.
RoleRaises(t) ==
    /\ Fails
    /\ task[t].pc = "role"
    /\ silent' = TRUE
    /\ End(t)
    /\ UNCHANGED << reviewed, installed, blocked, iter, slot, cards,
                    scheduled, disp, done, forced, clicks, restarts >>

\* The engineer or devops returns.  Only the kind code_review_blocked counts
\* the pass and goes on to the review.
RoleReturns(t) ==
    /\ task[t].pc = "role" /\ task[t].work # "code_review"
    /\ IF task[t].work = "engineer_remediate"
       THEN /\ task' = [ task EXCEPT ![t].pc = "read" ]
            /\ UNCHANGED cards
       ELSE /\ Enqueue(IF task[t].work = "devops" THEN "devops_approval"
                       ELSE "code_approval")
            /\ End(t)
    /\ IF task[t].work = "devops" THEN installed' \in BOOLEAN
                                  ELSE UNCHANGED installed
    /\ UNCHANGED << reviewed, blocked, iter, slot, scheduled, disp, done,
                    silent, forced, clicks, restarts >>

\* increment_code_fix_iteration: a read ...
IncrementRead(t) ==
    /\ task[t].pc = "read"
    /\ task' = [ task EXCEPT ![t].pc = "write", ![t].n = iter ]
    /\ UNCHANGED << reviewed, installed, blocked, iter, slot, cards,
                    scheduled, disp, done, silent, forced, clicks, restarts >>

\* ... and a write; then the review of the same task.
IncrementWrite(t) ==
    /\ task[t].pc = "write"
    /\ iter' = task[t].n + 1
    /\ done' = done + 1
    /\ task' = [ task EXCEPT ![t].pc = "role", ![t].work = "code_review",
                             ![t].n = 0 ]
    /\ UNCHANGED << reviewed, installed, blocked, slot, cards, scheduled,
                    disp, silent, forced, clicks, restarts >>

\* run_hub_code_review writes the verdict before it returns ...
ReviewReturns(t) ==
    /\ task[t].pc = "role" /\ task[t].work = "code_review"
    /\ \E b \in BOOLEAN :
        /\ blocked' = b /\ reviewed' = TRUE
        /\ task' = [ task EXCEPT ![t].pc = "post", ![t].blocks = b ]
    /\ UNCHANGED << installed, iter, slot, cards, scheduled, disp, done,
                    silent, forced, clicks, restarts >>

\* ... and the Hub writes it again.
PersistVerdict(t) ==
    /\ task[t].pc = "post"
    /\ blocked' = task[t].blocks /\ reviewed' = TRUE
    /\ IF task[t].blocks
       THEN task' = [ task EXCEPT ![t].pc = "reload" ] /\ UNCHANGED cards
       ELSE Enqueue("code_review_pass") /\ End(t)
    /\ UNCHANGED << installed, iter, slot, scheduled, disp, done, silent,
                    forced, clicks, restarts >>

Reload(t) ==
    /\ task[t].pc = "reload"
    /\ task' = [ task EXCEPT ![t].pc = "judge",
                             ![t].again = ~fix_loop_exhausted(Project) ]
    /\ UNCHANGED << reviewed, installed, blocked, iter, slot, cards,
                    scheduled, disp, done, silent, forced, clicks, restarts >>

\* schedule_auto_engineer_remediate: at most one scheduler at a time.
ScheduleAutoRemediate ==
    /\ scheduled' = TRUE
    /\ disp' = IF scheduled THEN disp
               ELSE [ disp EXCEPT ![Scheduler] = [ NoDisp EXCEPT !.pc = "load",
                          !.action = "engineer_remediate", !.attempt = 1 ] ]

\* Faulty: no briefing when the remediation is automatic.
JudgeNoBriefing(t) ==
    /\ task[t].pc = "judge"
    /\ IF task[t].again
       THEN UNCHANGED cards /\ ScheduleAutoRemediate
       ELSE Enqueue("code_review_blocked") /\ UNCHANGED << scheduled, disp >>
    /\ End(t)
    /\ UNCHANGED << reviewed, installed, blocked, iter, slot, done, silent,
                    forced, clicks, restarts >>

\* Under the limit: a briefing, and the scheduler.  Else an approval card.
JudgeBlocked(t) ==
    /\ task[t].pc = "judge"
    /\ IF task[t].again
       THEN Enqueue("security_review_blocked") /\ ScheduleAutoRemediate
       ELSE Enqueue("code_review_blocked") /\ UNCHANGED << scheduled, disp >>
    /\ End(t)
    /\ UNCHANGED << reviewed, installed, blocked, iter, slot, done, silent,
                    forced, clicks, restarts >>

\* The finally clause clears the slot, whosever it is by now.
ClearSlot(t) ==
    /\ task[t].pc = "clear"
    /\ slot' = NoSlot
    /\ task' = [ task EXCEPT ![t] = NoTask ]
    /\ UNCHANGED << reviewed, installed, blocked, iter, cards, scheduled,
                    disp, done, silent, forced, clicks, restarts >>

TaskStep(t) ==
    \/ RoleFails(t) \/ RoleRaises(t) \/ RoleReturns(t)
    \/ IncrementRead(t) \/ IncrementWrite(t)
    \/ ReviewReturns(t) \/ PersistVerdict(t) \/ Reload(t) \/ JudgeBlocked(t)
    \/ ClearSlot(t)

-----------------------------------------------------------------------------
(* People, time and restarts                                               *)

\* POST .. /recovery/dispatch
Click(u) ==
    /\ Count
    /\ disp[u].pc = "idle"
    /\ \E a \in Clicks : disp' = [ disp EXCEPT ![u] =
                                   [ NoDisp EXCEPT !.pc = "load", !.action = a ] ]
    /\ forced' = TRUE
    /\ UNCHANGED << reviewed, installed, blocked, iter, slot, cards,
                    scheduled, task, done, silent, restarts >>

\* What on_decision_acked runs for a card, outside the slot.
HookWork(k) == CASE k = "code_approval"           -> "code_review"
                 [] k = "code_review_blocked"     -> "engineer_remediate"
                 [] k = "security_review_blocked" -> "recode"
                 [] k = "code_review_pass"        -> "devops"

\* An acked role_failure is a manual dispatch of its retry_action.
Ack(u, k) ==
    /\ Count
    /\ cards[k] > 0
    /\ cards' = [ cards EXCEPT ![k] = @ - 1 ]
    /\ IF k \in RetryCards
       THEN /\ disp[u].pc = "idle"
            /\ \E j \in Jobs :
                /\ Failed(j) = k
                /\ disp' = [ disp EXCEPT ![u] =
                               [ NoDisp EXCEPT !.pc = "load", !.action = j ] ]
            /\ UNCHANGED task
       ELSE Create(HookWork(k), FALSE) /\ UNCHANGED disp
    /\ forced' = (forced \/ k \in RetryCards)
    /\ UNCHANGED << reviewed, installed, blocked, iter, slot, scheduled, done,
                    silent, restarts >>

\* on_decision_rejected: the engineer starts over from a rejected
\* code_approval; nothing happens for the other kinds.
Reject(k) ==
    /\ Count
    /\ cards[k] > 0
    /\ cards' = [ cards EXCEPT ![k] = @ - 1 ]
    /\ IF k = "code_approval" THEN Create("regenerate", FALSE) /\ UNCHANGED silent
                              ELSE silent' = TRUE /\ UNCHANGED task
    /\ UNCHANGED << reviewed, installed, blocked, iter, slot, scheduled, disp,
                    done, forced, restarts >>

\* recovery_cancel_inflight: the flag goes, the task goes on.  This is its write,
\* whichever slot its read has seen: the patch names none, and a write that
\* finds the slot free again changes nothing.
CancelInflight ==
    /\ Cancels
    /\ Count
    /\ slot # NoSlot
    /\ slot' = NoSlot
    /\ forced' = TRUE
    /\ UNCHANGED << reviewed, installed, blocked, iter, cards, scheduled,
                    disp, task, done, silent, restarts >>

\* recovery_status, which the SPA polls, reaps too.  When the slot it read as
\* stale has gone to another dispatch before its write, it takes that one's, as
\* CancelInflight does.
StatusPoll ==
    /\ slot.stale
    /\ slot' = NoSlot
    /\ forced' = TRUE
    /\ UNCHANGED << reviewed, installed, blocked, iter, cards, scheduled,
                    disp, task, done, silent, clicks, restarts >>

\* Five minutes pass since started_at.
Age ==
    /\ Ages
    /\ slot # NoSlot /\ ~slot.stale
    /\ slot' = [ slot EXCEPT !.stale = TRUE ]
    /\ UNCHANGED << reviewed, installed, blocked, iter, cards, scheduled,
                    disp, task, done, silent, forced, clicks, restarts >>

\* The coroutines are gone; clear_orphaned_recovery_dispatches_on_startup.
Restart ==
    /\ restarts < MaxRestarts
    /\ restarts' = restarts + 1
    /\ slot' = NoSlot
    /\ scheduled' = FALSE
    /\ disp' = [ d \in Dispatcher |-> NoDisp ]
    /\ task' = [ t \in Task |-> NoTask ]
    /\ silent' = (silent \/ task # [ t \in Task |-> NoTask ]
                         \/ \E d \in Dispatcher : disp[d].pc # "idle")
    /\ UNCHANGED << reviewed, installed, blocked, iter, cards, done, forced,
                    clicks >>

UserStep(u) == Click(u) \/ \E k \in Answers : Ack(u, k)

Next ==
    \/ \E d \in Dispatcher : DispatchStep(d)
    \/ \E t \in Task : TaskStep(t)
    \/ \E u \in User : UserStep(u)
    \/ \E k \in Answers : Reject(k)
    \/ CancelInflight \/ StatusPoll \/ Age \/ Restart

Spec == Init /\ [][Next]_vars

\* Coroutines are scheduled by asyncio, and roles end: their model calls are
\* retried a bounded number of times.  Nobody has to click.
FairSpec ==
    /\ Spec
    /\ \A d \in Dispatcher : WF_vars(DispatchStep(d))
    /\ \A t \in Task : WF_vars(TaskStep(t))

-----------------------------------------------------------------------------
(* Properties                                                              *)

Active(t) == task[t].pc # "off"

Quiet == /\ \A t \in Task : ~Active(t)
         /\ \A d \in Dispatcher : disp[d].pc = "idle"

\* At most one recovery dispatch runs at a time, which is what the slot
\* recovery_dispatch_in_flight is for (recovery_dispatch, "A recovery
\* dispatch is already running"), while only the automatic loop dispatches
\* and no slot is taken from its task.  A dispatch runs until it has cleared
\* the slot.
OneDispatch ==
    ~forced => Cardinality({ t \in Task : Active(t) /\ task[t].owns }) <= 1

\* Until MAX_CODE_FIX_ITERATIONS is reached, code_fix_iteration counts the
\* remediations completed since the last reset: no pass of the engineer is
\* lost or counted twice, so the limit is one on what the engineer really
\* did.  Past the limit only acked code_review_blocked cards remediate, and
\* two of their hooks may count once (increment_code_fix_iteration).
CountExact == ~forced /\ (iter < MaxIter \/ done < MaxIter) => iter = done

\* Whenever a blocked project comes to rest, a card is pending from which
\* its founder can go on, unless a role raised, the Hub restarted, a card was
\* rejected or a dispatch refused: no other path of the loop, the skipped and
\* the deduplicated schedules included, ends without telling anybody.
BlockedHasCard ==
    Quiet /\ blocked /\ ~silent =>
        \E k \in Kind \ {"code_review_pass", "devops_approval"} : cards[k] > 0

\* The slot never stays taken: when a dispatch fails, when the Hub restarts,
\* or when two dispatches took it one over the other, it is free again.
SlotFreed == []<>(slot = NoSlot)

\* The scheduler gives up or gets through: the project does not stay in
\* _AUTO_REMEDIATE_SCHEDULED, where it would swallow all later schedules.
SchedulerReleased == []<>(~scheduled)

\* schedule_auto_engineer_remediate: "Auto-dispatch engineer remediate after
\* security review FAIL", and "Retries when another recovery dispatch is
\* still in flight".
AutoContinues ==
    scheduled ~> \E t \in Task : task[t].pc = "role"
                                 /\ task[t].work = "engineer_remediate"
=============================================================================
