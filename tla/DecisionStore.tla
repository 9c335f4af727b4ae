--------------------------- MODULE DecisionStore ---------------------------
(***************************************************************************)
(* The Hub's decision queue: _DecisionStore of shared/api/routes/          *)
(* decisions.py, a cache of cards over the table decision_card, with the   *)
(* ack and reject handlers, and the pipeline runner that acks cards by     *)
(* itself (shared/runtime/pipeline_runner.py).                             *)
(*                                                                         *)
(* The Hub is one asyncio process: a coroutine runs undisturbed from one   *)
(* await to the next.  Every awaited query is therefore three moments: it  *)
(* is sent, the database executes it, and the coroutine resumes with the   *)
(* answer.  op[a] is the atransition that actor a is inside of.            *)
(***************************************************************************)
EXTENDS Naturals, FiniteSets

CONSTANTS
    Card,           \* decision cards (identifiers)
    User,           \* people at the SPA
    Runner,         \* the background loop of pipeline_runner.py
    AutoAck,        \* cards the runner acks: can_auto_ack holds, or a
                    \* role_failure of a project in operation
    Stop,           \* cards of a kind in _STOP_KINDS otherwise
    Running,        \* whether the project is autonomous (the runner runs)
    DbFails,        \* whether a query may fail
    MaxRestarts,    \* bound: restarts of the Hub
    MaxClicks       \* bound: decisions that people make

ASSUME StoreAssumption ==
    /\ Runner \notin User /\ Card # {}
    /\ AutoAck \subseteq Card /\ Stop \subseteq Card /\ AutoAck \cap Stop = {}
    /\ {Running, DbFails} \subseteq BOOLEAN
    /\ MaxRestarts \in Nat /\ MaxClicks \in Nat

VARIABLES
    cache,      \* cache[c]: status of the card in _cards, or "none"
    db,         \* db[c]: status of its row in decision_card, or "none"
    insert,     \* insert[c]: "no", "sent" or "done" (_persist_put)
    op,         \* op[a]: the atransition actor a is in
    hooks,      \* ack hooks (on_decision_acked) created and not yet run
    fired,      \* fired[c]: how often the ack hook of c was created
    todo,       \* cards the runner has still to look at in this tick
    scan,       \* "off", or "merge" between the two halves of alist
    paused,     \* metadata.pipeline_paused
    missed,     \* history: the cards of which a write missed the table, an
                \* INSERT or UPDATE that failed or an UPDATE that found no row
    restarts,   \* restarts so far
    clicks      \* decisions people made so far

vars == << cache, db, insert, op, hooks, fired, todo, scan, paused, missed,
           restarts, clicks >>

Actors   == User \cup {Runner}
Decided  == { "acked", "rejected" }
Status   == { "none", "pending" } \cup Decided

\* update1, select, update2, get: a query was sent.  got..: it was executed.
OpPcs == { "idle", "update1", "got1", "select", "gotsel", "update2", "got2",
           "get", "gotget" }

Op == [ pc : OpPcs, card : Card, to : Decided, row : Status ]

TypeOK ==
    /\ cache \in [ Card -> Status ]
    /\ db \in [ Card -> Status ]
    /\ insert \in [ Card -> { "no", "sent", "done" } ]
    /\ op \in [ Actors -> Op ]
    /\ hooks \in SUBSET Card
    /\ fired \in [ Card -> Nat ]
    /\ todo \in SUBSET Card
    /\ scan \in { "off", "merge" }
    /\ paused \in BOOLEAN
    /\ missed \in SUBSET Card
    /\ restarts \in Nat
    /\ clicks \in Nat

NoOp == [ pc |-> "idle", card |-> CHOOSE c \in Card : TRUE, to |-> "acked",
          row |-> "none" ]

Init ==
    /\ cache = [ c \in Card |-> "none" ]
    /\ db = [ c \in Card |-> "none" ]
    /\ insert = [ c \in Card |-> "no" ]
    /\ op = [ a \in Actors |-> NoOp ]
    /\ hooks = {}
    /\ fired = [ c \in Card |-> 0 ]
    /\ todo = {}
    /\ scan = "off"
    /\ paused = FALSE
    /\ missed = {}
    /\ restarts = 0
    /\ clicks = 0

-----------------------------------------------------------------------------
(* put / aput and _persist_put                                             *)

\* The card is in the cache, and announced, before its INSERT is awaited.
Put(c) ==
    /\ insert[c] = "no"
    /\ cache' = [ cache EXCEPT ![c] = "pending" ]
    /\ insert' = [ insert EXCEPT ![c] = "sent" ]
    /\ UNCHANGED << db, op, hooks, fired, todo, scan, paused, missed, restarts,
                    clicks >>

\* INSERT .. ON CONFLICT DO UPDATE SET status = EXCLUDED.status, with the
\* status the card had when put was called.  A failure is logged and dropped.
PersistPut(c) ==
    /\ insert[c] = "sent"
    /\ insert' = [ insert EXCEPT ![c] = "done" ]
    /\ \/ /\ db' = [ db EXCEPT ![c] = "pending" ]
          /\ UNCHANGED missed
       \/ /\ DbFails
          /\ missed' = missed \cup {c}
          /\ UNCHANGED db
    /\ UNCHANGED << cache, op, hooks, fired, todo, scan, paused, restarts,
                    clicks >>

-----------------------------------------------------------------------------
(* atransition, called by ack_decision_internal and reject_decision        *)

\* Somebody can name the card: it was announced, or is in the table.
Known(c) == insert[c] # "no"

Begin(a, c, to) ==
    op' = [ op EXCEPT ![a] = [ NoOp EXCEPT !.pc = "update1", !.card = c,
                                           !.to = to ] ]

\* Neither handler looks at the status the card has.
Click(u, c, to) ==
    /\ op[u].pc = "idle"
    /\ Known(c)
    /\ clicks < MaxClicks
    /\ clicks' = clicks + 1
    /\ Begin(u, c, to)
    /\ UNCHANGED << cache, db, insert, hooks, fired, todo, scan, paused,
                    missed, restarts >>

\* Faulty: the row is read back but not written.
PersistNothing(a) ==
    /\ op[a].pc \in { "update1", "update2" }
    /\ op' = [ op EXCEPT ![a].pc = IF @ = "update1" THEN "got1" ELSE "got2",
                         ![a].row = IF db[op[a].card] = "none"
                                    THEN "none" ELSE op[a].to ]
    /\ UNCHANGED << cache, db, insert, hooks, fired, todo, scan, paused,
                    missed, restarts, clicks >>

\* The database executes _TRANSITION_SQL, which has no status in its WHERE.
PersistTransition(a) ==
    /\ op[a].pc \in { "update1", "update2" }
    /\ LET c == op[a].card
           found == db[c] # "none"
           sent(row) == op' = [ op EXCEPT
               ![a].pc = IF @ = "update1" THEN "got1" ELSE "got2",
               ![a].row = row ]
       IN  \/ /\ found
              /\ db' = [ db EXCEPT ![c] = op[a].to ]
              /\ sent(op[a].to)
              /\ UNCHANGED missed
           \/ /\ ~ found \/ DbFails
              /\ sent("none")
              /\ missed' = missed \cup {c}
              /\ UNCHANGED db
    /\ UNCHANGED << cache, insert, hooks, fired, todo, scan, paused, restarts,
                    clicks >>

\* Faulty: the hook is created for a card that is pending in the cache only.
AnswerIfPending(a) ==
    /\ op' = [ op EXCEPT ![a] = NoOp ]
    /\ IF op[a].to = "acked" /\ cache[op[a].card] = "pending"
       THEN /\ hooks' = hooks \cup { op[a].card }
            /\ fired' = [ fired EXCEPT ![op[a].card] = @ + 1 ]
       ELSE UNCHANGED << hooks, fired >>

\* The handler answers the user; an ack also creates the on_decision_acked task.
Answer(a) ==
    /\ op' = [ op EXCEPT ![a] = NoOp ]
    /\ IF op[a].to = "acked"
       THEN /\ hooks' = hooks \cup { op[a].card }
            /\ fired' = [ fired EXCEPT ![op[a].card] = @ + 1 ]
       ELSE UNCHANGED << hooks, fired >>

SetCache(a) == cache' = [ cache EXCEPT ![op[a].card] = op[a].to ]

\* Faulty: the cache is left alone.
ResumeUncached(a) ==
    /\ op[a].pc = "got1"
    /\ op[a].row # "none"
    /\ Answer(a)
    /\ UNCHANGED << cache, db, insert, todo, scan, paused, missed, restarts,
                    clicks >>

\* The first UPDATE returned a row: the cache takes it over.
ResumePersisted(a) ==
    /\ op[a].pc = "got1"
    /\ op[a].row # "none"
    /\ SetCache(a)
    /\ Answer(a)
    /\ UNCHANGED << db, insert, todo, scan, paused, missed, restarts, clicks >>

\* Faulty: only the table is tried again.
ResumeRetryOnly(a) ==
    /\ op[a].pc = "got1"
    /\ op[a].row = "none"
    /\ op' = [ op EXCEPT ![a].pc = "update2" ]
    /\ UNCHANGED << cache, db, insert, hooks, fired, todo, scan, paused,
                    missed, restarts, clicks >>

\* It returned none: transition the cached card and try the UPDATE again, or
\* hydrate the cache first.
ResumeMissing(a) ==
    /\ op[a].pc = "got1"
    /\ op[a].row = "none"
    /\ IF cache[op[a].card] # "none"
       THEN SetCache(a) /\ op' = [ op EXCEPT ![a].pc = "update2" ]
       ELSE op' = [ op EXCEPT ![a].pc = "select" ] /\ UNCHANGED cache
    /\ UNCHANGED << db, insert, hooks, fired, todo, scan, paused, missed,
                    restarts, clicks >>

\* _hydrate: SELECT .. WHERE id = ..
Hydrate(a) ==
    /\ op[a].pc \in { "select", "get" }
    /\ \E row \in { db[op[a].card] } \cup (IF DbFails THEN {"none"} ELSE {}) :
          op' = [ op EXCEPT ![a].pc = IF @ = "select" THEN "gotsel" ELSE "gotget",
                            ![a].row = row ]
    /\ UNCHANGED << cache, db, insert, hooks, fired, todo, scan, paused,
                    missed, restarts, clicks >>

\* Not in the table and not in the cache: 404.
ResumeHydrated(a) ==
    /\ op[a].pc = "gotsel"
    /\ IF op[a].row # "none" \/ cache[op[a].card] # "none"
       THEN SetCache(a) /\ op' = [ op EXCEPT ![a].pc = "update2" ]
       ELSE op' = [ op EXCEPT ![a] = NoOp ] /\ UNCHANGED cache
    /\ UNCHANGED << db, insert, hooks, fired, todo, scan, paused, missed,
                    restarts, clicks >>

\* The answer of the second UPDATE does not reach the cache.
ResumeSecond(a) ==
    /\ op[a].pc = "got2"
    /\ Answer(a)
    /\ UNCHANGED << cache, db, insert, todo, scan, paused, missed, restarts,
                    clicks >>

\* The event loop runs the created task.
RunHook(c) ==
    /\ c \in hooks
    /\ hooks' = hooks \ {c}
    /\ UNCHANGED << cache, db, insert, op, fired, todo, scan, paused, missed,
                    restarts, clicks >>

-----------------------------------------------------------------------------
(* GET /{id}: aget                                                         *)

\* A cached card is returned at once; otherwise the table is asked ..
Get(u, c) ==
    /\ op[u].pc = "idle"
    /\ Known(c)
    /\ cache[c] = "none"
    /\ op' = [ op EXCEPT ![u] = [ NoOp EXCEPT !.pc = "get", !.card = c ] ]
    /\ UNCHANGED << cache, db, insert, hooks, fired, todo, scan, paused,
                    missed, restarts, clicks >>

\* .. and its row replaces whatever the cache holds by then.
ResumeGet(u) ==
    /\ op[u].pc = "gotget"
    /\ IF op[u].row # "none"
       THEN cache' = [ cache EXCEPT ![op[u].card] = op[u].row ]
       ELSE UNCHANGED cache
    /\ op' = [ op EXCEPT ![u] = NoOp ]
    /\ UNCHANGED << db, insert, hooks, fired, todo, scan, paused, missed,
                    restarts, clicks >>

-----------------------------------------------------------------------------
(* pipeline_runner_tick                                                    *)

RunnerIdle == Running /\ op[Runner].pc = "idle" /\ ~ paused

\* Faulty: the status filter is lost.
RunnerScanAll ==
    /\ RunnerIdle
    /\ todo = {} /\ scan = "off"
    /\ todo' = { c \in Card : db[c] # "none" }
    /\ scan' = "merge"
    /\ UNCHANGED << cache, db, insert, op, hooks, fired, paused, missed,
                    restarts, clicks >>

\* alist(status_filter="pending"): the rows of the table ..
RunnerScan ==
    /\ RunnerIdle
    /\ todo = {} /\ scan = "off"
    /\ \E rows \in { { c \in Card : db[c] = "pending" } }
                     \cup (IF DbFails THEN { {} } ELSE {}) : todo' = rows
    /\ scan' = "merge"
    /\ UNCHANGED << cache, db, insert, op, hooks, fired, paused, missed,
                    restarts, clicks >>

\* Faulty: the cache alone is listed.
MergedCacheOnly(rows) == { c \in Card : cache[c] = "pending" }

\* .. and the cached cards that are pending by the time the rows arrive.  A
\* cached card with another status does not remove its row.
Merged(rows) ==
    rows \cup { c \in Card : cache[c] = "pending" }

RunnerMerge ==
    /\ scan = "merge"
    /\ scan' = "off"
    /\ todo' = Merged(todo) \cap (AutoAck \cup Stop)
    /\ UNCHANGED << cache, db, insert, op, hooks, fired, paused, missed,
                    restarts, clicks >>

\* The cards come in order of age, which the model leaves open.
RunnerAck(c) ==
    /\ RunnerIdle /\ scan = "off"
    /\ c \in todo \cap AutoAck
    /\ todo' = todo \ {c}
    /\ Begin(Runner, c, "acked")
    /\ UNCHANGED << cache, db, insert, hooks, fired, scan, paused, missed,
                    restarts, clicks >>

\* A role_failure or orchestrator_gap card: _persist_pipeline_pause, and out.
RunnerStop(c) ==
    /\ RunnerIdle /\ scan = "off"
    /\ c \in todo \cap Stop
    /\ paused' = TRUE
    /\ todo' = {}
    /\ UNCHANGED << cache, db, insert, op, hooks, fired, scan, missed,
                    restarts, clicks >>

-----------------------------------------------------------------------------

\* The process dies and starts again: the cache, the coroutines and the tasks
\* are gone, the table stays.
Restart ==
    /\ restarts < MaxRestarts
    /\ restarts' = restarts + 1
    /\ cache' = [ c \in Card |-> "none" ]
    /\ op' = [ a \in Actors |-> NoOp ]
    /\ insert' = [ c \in Card |-> IF insert[c] = "sent" THEN "done"
                                                        ELSE insert[c] ]
    /\ hooks' = {} /\ todo' = {} /\ scan' = "off"
    /\ UNCHANGED << db, fired, paused, missed, clicks >>

\* What the event loop and the database do once it is asked of them.
Progress(a) ==
    \/ PersistTransition(a) \/ ResumePersisted(a) \/ ResumeMissing(a)
    \/ Hydrate(a) \/ ResumeHydrated(a) \/ ResumeSecond(a) \/ ResumeGet(a)

RunnerTick ==
    \/ RunnerScan \/ RunnerMerge
    \/ \E c \in Card : RunnerAck(c) \/ RunnerStop(c)

Next ==
    \/ \E c \in Card : Put(c) \/ PersistPut(c) \/ RunHook(c)
    \/ \E u \in User, c \in Card :
          Get(u, c) \/ \E to \in Decided : Click(u, c, to)
    \/ \E a \in Actors : Progress(a)
    \/ RunnerTick
    \/ Restart

Spec == Init /\ [][Next]_vars

\* The database answers, the event loop resumes what is ready, and the runner
\* polls for ever.  Nothing is assumed of people or of restarts.
Fairness ==
    /\ \A c \in Card : WF_vars(PersistPut(c)) /\ WF_vars(RunHook(c))
    /\ \A a \in Actors : WF_vars(Progress(a))
    /\ WF_vars(RunnerTick)

FairSpec == Spec /\ Fairness

-----------------------------------------------------------------------------
(* Properties                                                              *)

Busy(c) == insert[c] = "sent" \/ \E a \in Actors : op[a].pc # "idle"
                                                   /\ op[a].card = c

\* When nothing is under way for a card and every write of it has reached the
\* table, the cache holds the status that the table holds (_DecisionStore:
\* every put and transition is mirrored to decision_card).  Holds for one
\* decider, restarts included.
CacheFollowsDb ==
    \A c \in Card \ missed :
        (~ Busy(c) /\ cache[c] # "none") => cache[c] = db[c]

\* A card whose ack hook was created is decided in the table, whoever else
\* decides it meanwhile and whenever the Hub restarts: what was started on an
\* ack never comes back to the queue as pending, unless a write was missed.
DecisionDurable ==
    \A c \in Card \ missed : fired[c] > 0 => db[c] \in Decided

\* While the Hub stays up, whatever queries fail or come late, a card whose
\* ack hook was created is decided in the cache.
DecisionCached ==
    restarts = 0 => \A c \in Card : fired[c] > 0 => cache[c] \in Decided

\* on_decision_acked runs the side effect again when it is called again, and
\* relies on its caller: the ack hook of a card is created at most once.
\* Holds for the runner alone, unless a write was missed.
HookOnce == \A c \in Card \ missed : fired[c] <= 1

\* In an autonomous project a stored card of a kind the policy lets through
\* is decided in the end, by the runner if by nobody else, or the runner has
\* paused the project; a restart in between does not lose the card.
AutoProgress ==
    \A c \in AutoAck : (db[c] = "pending") ~> (db[c] \in Decided \/ paused)

\* An ack that reached the table creates the hook, unless the Hub restarts
\* between the two.
EveryAckFires ==
    \A c \in Card : (db[c] = "acked" /\ restarts = 0)
                       ~> (fired[c] > 0 \/ restarts > 0)
=============================================================================
