------------------------ MODULE DecisionStoreProofs ------------------------
(***************************************************************************)
(* Proofs about DecisionStore, for any cards, any people and any number of *)
(* restarts: what an ack has started stays decided in the table and, while *)
(* the Hub is up, in the cache; and for a project that the runner alone    *)
(* decides, the cache follows the table and no ack hook is created twice.  *)
(***************************************************************************)
EXTENDS DecisionStore, TLAPS

-----------------------------------------------------------------------------
(* The inductive invariants                                                *)

\* There is no row before the INSERT of _persist_put is executed.
RowsInserted == \A c \in Card : insert[c] # "done" => db[c] = "none"

\* Nothing is known of a card, and nobody works on it, before put.
Announced ==
    /\ \A c \in Card : cache[c] # "none" \/ fired[c] > 0 \/ c \in todo
                          => insert[c] # "no"
    /\ \A a \in Actors : op[a].pc # "idle" => insert[op[a].card] # "no"

\* Past a first UPDATE that returned no row the write counts as missed; after
\* one that did the row is decided, since no INSERT can come later.
Answered ==
    \A a \in Actors :
        /\ op[a].pc \in { "select", "gotsel", "update2", "got2" }
              => op[a].card \in missed
        /\ op[a].pc = "got1" /\ op[a].row = "none" => op[a].card \in missed
        /\ op[a].pc = "got1" /\ op[a].card \notin missed
              => db[op[a].card] \in Decided

\* Without a restart a card that was put stays in the cache, so nobody reads
\* it from the table, and a transition is in the cache before it is answered.
CacheKept ==
    restarts = 0 =>
        /\ \A c \in Card : insert[c] # "no" => cache[c] # "none"
        /\ \A a \in Actors :
              /\ op[a].pc \notin { "get", "gotget" }
              /\ op[a].pc \in { "update2", "got2" } => cache[op[a].card] \in Decided

StoreInv == /\ TypeOK /\ RowsInserted /\ Announced /\ Answered /\ CacheKept
            /\ DecisionDurable /\ DecisionCached

\* The transition that the runner is in is at work on c.
RunnerOn(c) == op[Runner].pc # "idle" /\ op[Runner].card = c

\* What holds besides when the runner alone decides.  The cache and the table
\* differ only between the UPDATE and its answer, and a card is on the runner's
\* list, or in its hands, or its hook was created, and never two of these.
RunnerInv ==
    /\ op[Runner].pc \notin { "get", "gotget" }
    /\ scan = "merge" => op[Runner].pc = "idle"
    /\ \A c \in Card \ missed :
          /\ insert[c] = "sent" => cache[c] = "pending"
          /\ insert[c] = "done" /\ cache[c] # "none"
                /\ ~(RunnerOn(c) /\ op[Runner].pc = "got1") => cache[c] = db[c]
          /\ RunnerOn(c) /\ op[Runner].pc = "got1" => db[c] = op[Runner].to
          /\ c \in todo => fired[c] = 0
          /\ RunnerOn(c) => fired[c] = 0 /\ c \notin todo
          /\ fired[c] <= 1

AloneInv == StoreInv /\ RunnerInv

-----------------------------------------------------------------------------
(* What the steps do to op and to the hooks                                *)

LEMMA NoOpType == NoOp \in Op /\ NoOp.pc = "idle"
BY StoreAssumption DEF NoOp, Op, OpPcs, Decided, Status

LEMMA OpWrite ==
    ASSUME TypeOK, NEW a \in Actors, NEW r \in Op, op' = [ op EXCEPT ![a] = r ]
    PROVE  /\ op' \in [ Actors -> Op ] /\ op'[a] = r
           /\ \A b \in Actors : b # a => op'[b] = op[b]
BY DEF TypeOK

\* An atransition begins.
LEMMA BeginEffect ==
    ASSUME TypeOK, NEW a \in Actors, NEW c \in Card, NEW to \in Decided,
           Begin(a, c, to)
    PROVE  /\ op' \in [ Actors -> Op ]
           /\ op'[a].pc = "update1" /\ op'[a].card = c /\ op'[a].to = to
           /\ \A b \in Actors : b # a => op'[b] = op[b]
<1> DEFINE r == [ NoOp EXCEPT !.pc = "update1", !.card = c, !.to = to ]
<1>1. r \in Op /\ r.pc = "update1" /\ r.card = c /\ r.to = to
    BY NoOpType DEF NoOp, Op, OpPcs
<1>2. op' = [ op EXCEPT ![a] = r ]
    BY DEF Begin
<1> HIDE DEF r
<1> QED
    BY <1>1, <1>2, OpWrite

\* A query was sent or executed, with or without an answer.
LEMMA MoveEffect ==
    ASSUME TypeOK, NEW a \in Actors, NEW pc \in OpPcs, NEW row \in Status,
           op' = [ op EXCEPT ![a].pc = pc, ![a].row = row ]
    PROVE  /\ op' \in [ Actors -> Op ]
           /\ op'[a].pc = pc /\ op'[a].row = row
           /\ op'[a].card = op[a].card /\ op'[a].to = op[a].to
           /\ \A b \in Actors : b # a => op'[b] = op[b]
<1> DEFINE r == [ [ op[a] EXCEPT !.pc = pc ] EXCEPT !.row = row ]
<1>1. op[a] \in Op
    BY DEF TypeOK
<1>2. r \in Op /\ r.pc = pc /\ r.row = row /\ r.card = op[a].card /\ r.to = op[a].to
    BY <1>1 DEF Op
<1>3. op' = [ op EXCEPT ![a] = r ]
    BY DEF TypeOK
<1> HIDE DEF r
<1> QED
    BY <1>2, <1>3, OpWrite

LEMMA GotoEffect ==
    ASSUME TypeOK, NEW a \in Actors, NEW pc \in OpPcs,
           op' = [ op EXCEPT ![a].pc = pc ]
    PROVE  /\ op' \in [ Actors -> Op ]
           /\ op'[a].pc = pc /\ op'[a].row = op[a].row
           /\ op'[a].card = op[a].card /\ op'[a].to = op[a].to
           /\ \A b \in Actors : b # a => op'[b] = op[b]
<1> DEFINE r == [ op[a] EXCEPT !.pc = pc ]
<1>1. op[a] \in Op
    BY DEF TypeOK
<1>2. r \in Op /\ r.pc = pc /\ r.row = op[a].row /\ r.card = op[a].card
      /\ r.to = op[a].to
    BY <1>1 DEF Op
<1>3. op' = [ op EXCEPT ![a] = r ]
    BY DEF TypeOK
<1> HIDE DEF r
<1> QED
    BY <1>2, <1>3, OpWrite

LEMMA EndEffect ==
    ASSUME TypeOK, NEW a \in Actors, op' = [ op EXCEPT ![a] = NoOp ]
    PROVE  /\ op' \in [ Actors -> Op ] /\ op'[a].pc = "idle"
           /\ \A b \in Actors : b # a => op'[b] = op[b]
BY NoOpType, OpWrite

\* The fields of a running operation.
LEMMA OpFields ==
    ASSUME TypeOK, NEW a \in Actors
    PROVE  op[a].pc \in OpPcs /\ op[a].card \in Card /\ op[a].to \in Decided
           /\ op[a].row \in Status
BY DEF TypeOK, Op

\* An answered ack creates one hook, of its own card.
LEMMA AnswerEffect ==
    ASSUME TypeOK, NEW a \in Actors, Answer(a)
    PROVE  /\ op' \in [ Actors -> Op ] /\ op'[a].pc = "idle"
           /\ \A b \in Actors : b # a => op'[b] = op[b]
           /\ hooks' \in SUBSET Card
           /\ fired' \in [ Card -> Nat ]
           /\ \A c \in Card : c # op[a].card => fired'[c] = fired[c]
           /\ fired'[op[a].card] <= fired[op[a].card] + 1
<1>1. op[a].card \in Card
    BY OpFields
<1>2. op' = [ op EXCEPT ![a] = NoOp ]
    BY DEF Answer
<1>3. /\ hooks' \in SUBSET Card /\ fired' \in [ Card -> Nat ]
      /\ \A c \in Card : c # op[a].card => fired'[c] = fired[c]
      /\ fired'[op[a].card] <= fired[op[a].card] + 1
  <2>1. CASE op[a].to = "acked"
    BY <1>1, <2>1 DEF Answer, TypeOK
  <2>2. CASE op[a].to # "acked"
    BY <1>1, <2>2 DEF Answer, TypeOK
  <2> QED
    BY <2>1, <2>2
<1> QED
    BY <1>2, <1>3, EndEffect

\* The database executed the UPDATE: the row took the status, or was missed.
LEMMA PersistEffect ==
    ASSUME TypeOK, NEW a \in Actors, PersistTransition(a)
    PROVE  /\ op' \in [ Actors -> Op ]
           /\ op[a].pc \in { "update1", "update2" }
           /\ op'[a].pc = IF op[a].pc = "update1" THEN "got1" ELSE "got2"
           /\ op'[a].card = op[a].card /\ op'[a].to = op[a].to
           /\ \A b \in Actors : b # a => op'[b] = op[b]
           /\ \/ /\ db[op[a].card] # "none"
                 /\ db' = [ db EXCEPT ![op[a].card] = op[a].to ]
                 /\ op'[a].row = op[a].to
                 /\ missed' = missed
              \/ /\ op'[a].row = "none"
                 /\ missed' = missed \cup { op[a].card }
                 /\ db' = db
<1> DEFINE pc == IF op[a].pc = "update1" THEN "got1" ELSE "got2"
           sent(row) == op' = [ op EXCEPT ![a].pc = pc, ![a].row = row ]
<1>1. pc \in OpPcs /\ "none" \in Status /\ op[a].to \in Status
    BY OpFields DEF OpPcs, Status
<1>2. op[a].pc \in { "update1", "update2" }
    BY DEF PersistTransition
<1>3. \/ /\ db[op[a].card] # "none"
         /\ db' = [ db EXCEPT ![op[a].card] = op[a].to ]
         /\ sent(op[a].to)
         /\ missed' = missed
      \/ /\ sent("none")
         /\ missed' = missed \cup { op[a].card }
         /\ db' = db
    BY DEF PersistTransition, TypeOK
<1> HIDE DEF pc
<1>4. CASE /\ db[op[a].card] # "none"
           /\ db' = [ db EXCEPT ![op[a].card] = op[a].to ]
           /\ sent(op[a].to)
           /\ missed' = missed
  <2>1. /\ op' \in [ Actors -> Op ]
        /\ op'[a].pc = pc /\ op'[a].row = op[a].to
        /\ op'[a].card = op[a].card /\ op'[a].to = op[a].to
        /\ \A b \in Actors : b # a => op'[b] = op[b]
    BY <1>1, <1>4, MoveEffect
  <2> QED
    BY <1>2, <1>4, <2>1 DEF pc
<1>5. CASE sent("none") /\ missed' = missed \cup { op[a].card } /\ db' = db
  <2>1. /\ op' \in [ Actors -> Op ]
        /\ op'[a].pc = pc /\ op'[a].row = "none"
        /\ op'[a].card = op[a].card /\ op'[a].to = op[a].to
        /\ \A b \in Actors : b # a => op'[b] = op[b]
    BY <1>1, <1>5, MoveEffect
  <2> QED
    BY <1>2, <1>5, <2>1 DEF pc
<1> QED
    BY <1>3, <1>4, <1>5

\* The database executed a SELECT.
LEMMA HydrateEffect ==
    ASSUME TypeOK, NEW a \in Actors, Hydrate(a)
    PROVE  /\ op' \in [ Actors -> Op ]
           /\ op[a].pc \in { "select", "get" }
           /\ op'[a].pc = IF op[a].pc = "select" THEN "gotsel" ELSE "gotget"
           /\ op'[a].card = op[a].card
           /\ \A b \in Actors : b # a => op'[b] = op[b]
<1> DEFINE pc == IF op[a].pc = "select" THEN "gotsel" ELSE "gotget"
<1>1. pc \in OpPcs
    BY DEF OpPcs
<1>2. op[a].pc \in { "select", "get" }
    BY DEF Hydrate
<1>3. PICK row \in { db[op[a].card] } \cup (IF DbFails THEN {"none"} ELSE {}) :
         op' = [ op EXCEPT ![a].pc = pc, ![a].row = row ]
    BY DEF Hydrate, TypeOK
<1>4. row \in Status
    BY OpFields DEF TypeOK, Status
<1> HIDE DEF pc
<1>5. /\ op' \in [ Actors -> Op ] /\ op'[a].pc = pc /\ op'[a].card = op[a].card
      /\ \A b \in Actors : b # a => op'[b] = op[b]
    BY <1>1, <1>3, <1>4, MoveEffect
<1> QED
    BY <1>2, <1>5 DEF pc

-----------------------------------------------------------------------------
(* Every step keeps StoreInv                                               *)

LEMMA StoreInit == Init => StoreInv
<1> SUFFICES ASSUME Init PROVE StoreInv
    OBVIOUS
<1>1. TypeOK
    BY NoOpType DEF Init, TypeOK, Status
<1>2. \A a \in Actors : op[a].pc = "idle"
    BY NoOpType DEF Init
<1> QED
    BY <1>1, <1>2
    DEF Init, StoreInv, RowsInserted, Announced, Answered, CacheKept,
        DecisionDurable, DecisionCached

LEMMA PutStep ==
    ASSUME StoreInv, NEW c \in Card, Put(c)
    PROVE  StoreInv'
<1> USE DEF StoreInv
<1>1. TypeOK'
    BY DEF Put, TypeOK, Status
<1>2. RowsInserted' /\ Announced'
    BY DEF Put, TypeOK, RowsInserted, Announced
<1>3. Answered' /\ DecisionDurable'
    BY DEF Put, Answered, DecisionDurable
<1>4. CacheKept' /\ DecisionCached'
  <2>1. \A a \in Actors : op[a].pc # "idle" => op[a].card # c
    BY DEF Put, Announced
  <2>2. fired[c] = 0
    BY DEF Put, Announced, TypeOK
  <2>3. cache' = [ cache EXCEPT ![c] = "pending" ]
    BY DEF Put
  <2>4. CacheKept'
    BY <2>1, <2>3 DEF Put, CacheKept, TypeOK
  <2>5. DecisionCached'
    BY <2>2, <2>3 DEF Put, DecisionCached, TypeOK
  <2> QED
    BY <2>4, <2>5
<1> QED
    BY <1>1, <1>2, <1>3, <1>4

\* The INSERT finds no row, so it cannot undo a decision.
LEMMA PersistPutStep ==
    ASSUME StoreInv, NEW c \in Card, PersistPut(c)
    PROVE  StoreInv'
<1> USE DEF StoreInv
<1>1. /\ insert[c] = "sent" /\ insert' = [ insert EXCEPT ![c] = "done" ]
      /\ \/ db' = [ db EXCEPT ![c] = "pending" ] /\ missed' = missed
         \/ db' = db /\ missed' = missed \cup {c}
      /\ UNCHANGED << cache, op, hooks, fired, todo, scan, paused, restarts,
                      clicks >>
    BY DEF PersistPut
<1>2. TypeOK'
    BY <1>1 DEF TypeOK, Status
<1>3. db[c] = "none"
    BY <1>1 DEF RowsInserted
<1>4. RowsInserted' /\ Announced'
    BY <1>1 DEF TypeOK, RowsInserted, Announced
<1>5. Answered' /\ DecisionDurable'
    BY <1>1, <1>3 DEF TypeOK, Op, Answered, DecisionDurable, Decided
<1>6. CacheKept' /\ DecisionCached'
    BY <1>1 DEF TypeOK, CacheKept, DecisionCached
<1> QED
    BY <1>2, <1>4, <1>5, <1>6

LEMMA RunHookStep ==
    ASSUME StoreInv, NEW c \in Card, RunHook(c)
    PROVE  StoreInv'
BY DEF StoreInv, RunHook, TypeOK, RowsInserted, Announced, Answered, CacheKept,
       DecisionDurable, DecisionCached

\* An actor begins to work on a card that was put.
LEMMA BeginStep ==
    ASSUME StoreInv, NEW a \in Actors, NEW c \in Card, NEW to \in Decided,
           Begin(a, c, to), insert[c] # "no", clicks' \in Nat,
           todo' \subseteq todo,
           UNCHANGED << cache, db, insert, hooks, fired, scan, paused, missed,
                        restarts >>
    PROVE  StoreInv'
<1> USE DEF StoreInv
<1>1. /\ op' \in [ Actors -> Op ]
      /\ op'[a].pc = "update1" /\ op'[a].card = c
      /\ \A b \in Actors : b # a => op'[b] = op[b]
    BY BeginEffect
<1>2. TypeOK'
    BY <1>1 DEF TypeOK
<1>3. RowsInserted' /\ Announced'
    BY <1>1 DEF RowsInserted, Announced
<1>4. Answered' /\ DecisionDurable'
    BY <1>1 DEF Answered, DecisionDurable
<1>5. CacheKept' /\ DecisionCached'
    BY <1>1 DEF CacheKept, DecisionCached
<1> QED
    BY <1>2, <1>3, <1>4, <1>5

LEMMA ClickStep ==
    ASSUME StoreInv, NEW u \in User, NEW c \in Card, NEW to \in Decided,
           Click(u, c, to)
    PROVE  StoreInv'
<1>1. u \in Actors /\ clicks' \in Nat
    BY DEF Actors, Click, StoreInv, TypeOK
<1> QED
    BY <1>1, BeginStep DEF Click, Known

LEMMA RunnerAckStep ==
    ASSUME StoreInv, NEW c \in Card, RunnerAck(c)
    PROVE  StoreInv'
<1>1. Runner \in Actors /\ "acked" \in Decided
    BY DEF Actors, Decided
<1>2. insert[c] # "no" /\ clicks' \in Nat /\ todo' \subseteq todo
    BY DEF RunnerAck, StoreInv, Announced, TypeOK
<1> QED
    BY <1>1, <1>2, BeginStep DEF RunnerAck

\* A row is written, or the write is remembered as missed.
LEMMA PersistTransitionStep ==
    ASSUME StoreInv, NEW a \in Actors, PersistTransition(a)
    PROVE  StoreInv'
<1> USE DEF StoreInv
<1> DEFINE c == op[a].card
<1>1. c \in Card /\ op[a].to \in Decided
    BY OpFields
<1>2. /\ op' \in [ Actors -> Op ]
      /\ op[a].pc \in { "update1", "update2" }
      /\ op'[a].pc = IF op[a].pc = "update1" THEN "got1" ELSE "got2"
      /\ op'[a].card = c
      /\ \A b \in Actors : b # a => op'[b] = op[b]
      /\ \/ /\ db[c] # "none" /\ db' = [ db EXCEPT ![c] = op[a].to ]
            /\ op'[a].row = op[a].to /\ missed' = missed
         \/ op'[a].row = "none" /\ missed' = missed \cup {c} /\ db' = db
    BY PersistEffect
<1>3. UNCHANGED << cache, insert, hooks, fired, todo, scan, paused, restarts, clicks >>
    BY DEF PersistTransition
<1>4. TypeOK'
    BY <1>1, <1>2, <1>3 DEF TypeOK, Status
<1>5. RowsInserted' /\ Announced'
    BY <1>1, <1>2, <1>3 DEF TypeOK, RowsInserted, Announced
<1>6. Answered' /\ DecisionDurable'
  <2>1. \A b \in Actors : op[b].card \in Card
    BY OpFields
  <2>2. op[a].to # "none"
    BY <1>1 DEF Decided
  <2>3. \A d \in Card : db[d] \in Decided => db'[d] \in Decided
    BY <1>1, <1>2 DEF TypeOK
  <2>4. c \notin missed' => db'[c] \in Decided
    BY <1>1, <1>2 DEF TypeOK
  <2>5. missed \subseteq missed'
    BY <1>2
  <2>6. Answered'
    BY <1>1, <1>2, <2>1, <2>2, <2>3, <2>4, <2>5 DEF Answered
  <2>7. DecisionDurable'
    BY <1>3, <2>3, <2>5 DEF DecisionDurable
  <2> QED
    BY <2>6, <2>7
<1>7. CacheKept' /\ DecisionCached'
    BY <1>2, <1>3 DEF CacheKept, DecisionCached
<1> QED
    BY <1>4, <1>5, <1>6, <1>7

\* The decision goes into the cache.
LEMMA SetCacheEffect ==
    ASSUME TypeOK, NEW a \in Actors, SetCache(a)
    PROVE  /\ cache' \in [ Card -> Status ]
           /\ cache'[op[a].card] = op[a].to /\ cache'[op[a].card] \in Decided
           /\ \A c \in Card : c # op[a].card => cache'[c] = cache[c]
           /\ \A c \in Card : cache[c] # "none" => cache'[c] # "none"
           /\ \A c \in Card : cache[c] \in Decided => cache'[c] \in Decided
BY OpFields DEF SetCache, TypeOK, Status, Decided

LEMMA ResumePersistedStep ==
    ASSUME StoreInv, NEW a \in Actors, ResumePersisted(a)
    PROVE  StoreInv'
<1> USE DEF StoreInv
<1> DEFINE c == op[a].card
<1>1. c \in Card /\ insert[c] # "no"
    BY OpFields DEF ResumePersisted, Announced
<1>2. /\ cache' \in [ Card -> Status ]
      /\ cache'[c] \in Decided
      /\ \A d \in Card : d # c => cache'[d] = cache[d]
      /\ \A d \in Card : cache[d] # "none" => cache'[d] # "none"
      /\ \A d \in Card : cache[d] \in Decided => cache'[d] \in Decided
    BY SetCacheEffect DEF ResumePersisted
<1>3. /\ op' \in [ Actors -> Op ] /\ op'[a].pc = "idle"
      /\ \A b \in Actors : b # a => op'[b] = op[b]
      /\ hooks' \in SUBSET Card /\ fired' \in [ Card -> Nat ]
      /\ \A d \in Card : d # c => fired'[d] = fired[d]
    BY AnswerEffect DEF ResumePersisted
<1>4. /\ op[a].pc = "got1"
      /\ UNCHANGED << db, insert, todo, scan, paused, missed, restarts, clicks >>
    BY DEF ResumePersisted
<1>5. TypeOK'
    BY <1>2, <1>3, <1>4 DEF TypeOK
<1>6. RowsInserted' /\ Announced'
    BY <1>1, <1>2, <1>3, <1>4 DEF RowsInserted, Announced
<1>7. Answered'
    BY <1>3, <1>4 DEF Answered
<1>8. DecisionDurable'
    BY <1>1, <1>3, <1>4 DEF Answered, DecisionDurable
<1>9. CacheKept'
  <2>1. \A b \in Actors : op[b].card \in Card
    BY OpFields
  <2> QED
    BY <1>2, <1>3, <1>4, <2>1 DEF CacheKept
<1>10. DecisionCached'
    BY <1>2, <1>3, <1>4 DEF DecisionCached
<1> QED
    BY <1>5, <1>6, <1>7, <1>8, <1>9, <1>10

\* The cached card is transitioned before the UPDATE is tried again.
LEMMA RetryStep ==
    ASSUME StoreInv, NEW a \in Actors, op[a].card \in missed,
           op[a].pc # "idle",
           SetCache(a), op' = [ op EXCEPT ![a].pc = "update2" ],
           UNCHANGED << db, insert, hooks, fired, todo, scan, paused, missed,
                        restarts, clicks >>
    PROVE  StoreInv'
<1> USE DEF StoreInv
<1>1. "update2" \in OpPcs /\ \A b \in Actors : op[b].card \in Card
    BY OpFields DEF OpPcs
<1>2. /\ op' \in [ Actors -> Op ]
      /\ op'[a].pc = "update2" /\ op'[a].card = op[a].card
      /\ \A b \in Actors : b # a => op'[b] = op[b]
    BY <1>1, GotoEffect
<1>3. /\ cache' \in [ Card -> Status ] /\ cache'[op[a].card] \in Decided
      /\ \A c \in Card : c # op[a].card => cache'[c] = cache[c]
      /\ \A c \in Card : cache[c] # "none" => cache'[c] # "none"
      /\ \A c \in Card : cache[c] \in Decided => cache'[c] \in Decided
    BY SetCacheEffect
<1>4. TypeOK'
    BY <1>2, <1>3 DEF TypeOK
<1>5. RowsInserted' /\ Announced'
    BY <1>1, <1>2, <1>3 DEF RowsInserted, Announced
<1>6. Answered' /\ DecisionDurable'
    BY <1>2 DEF Answered, DecisionDurable
<1>7. CacheKept' /\ DecisionCached'
    BY <1>1, <1>2, <1>3 DEF CacheKept, DecisionCached
<1> QED
    BY <1>4, <1>5, <1>6, <1>7

LEMMA ResumeMissingStep ==
    ASSUME StoreInv, NEW a \in Actors, ResumeMissing(a)
    PROVE  StoreInv'
<1> USE DEF StoreInv
<1>1. /\ op[a].pc = "got1" /\ op[a].row = "none"
      /\ UNCHANGED << db, insert, hooks, fired, todo, scan, paused, missed,
                      restarts, clicks >>
    BY DEF ResumeMissing
<1>2. op[a].card \in missed
    BY <1>1 DEF Answered
<1>3. CASE SetCache(a) /\ op' = [ op EXCEPT ![a].pc = "update2" ]
    BY <1>1, <1>2, <1>3, RetryStep
<1>4. CASE op' = [ op EXCEPT ![a].pc = "select" ] /\ cache' = cache
  <2>1. "select" \in OpPcs
    BY DEF OpPcs
  <2>2. /\ op' \in [ Actors -> Op ]
        /\ op'[a].pc = "select" /\ op'[a].card = op[a].card
        /\ \A b \in Actors : b # a => op'[b] = op[b]
    BY <1>4, <2>1, GotoEffect
  <2>3. TypeOK'
    BY <1>1, <1>4, <2>2 DEF TypeOK
  <2> QED
    BY <1>1, <1>2, <1>4, <2>2, <2>3
    DEF RowsInserted, Announced, Answered, CacheKept, DecisionDurable,
        DecisionCached
<1> QED
    BY <1>3, <1>4 DEF ResumeMissing

LEMMA HydrateStep ==
    ASSUME StoreInv, NEW a \in Actors, Hydrate(a)
    PROVE  StoreInv'
<1> USE DEF StoreInv
<1>1. UNCHANGED << cache, db, insert, hooks, fired, todo, scan, paused,
                   missed, restarts, clicks >>
    BY DEF Hydrate
<1>2. TypeOK'
    BY <1>1, HydrateEffect DEF TypeOK
<1> QED
    BY <1>1, <1>2, HydrateEffect
    DEF RowsInserted, Announced, Answered, CacheKept, DecisionDurable,
        DecisionCached

LEMMA ResumeHydratedStep ==
    ASSUME StoreInv, NEW a \in Actors, ResumeHydrated(a)
    PROVE  StoreInv'
<1> USE DEF StoreInv
<1>1. /\ op[a].pc = "gotsel"
      /\ UNCHANGED << db, insert, hooks, fired, todo, scan, paused, missed,
                      restarts, clicks >>
    BY DEF ResumeHydrated
<1>2. op[a].card \in missed
    BY <1>1 DEF Answered
<1>3. CASE SetCache(a) /\ op' = [ op EXCEPT ![a].pc = "update2" ]
    BY <1>1, <1>2, <1>3, RetryStep
<1>4. CASE op' = [ op EXCEPT ![a] = NoOp ] /\ cache' = cache
  <2>1. TypeOK'
    BY <1>1, <1>4, EndEffect DEF TypeOK
  <2> QED
    BY <1>1, <1>4, <2>1, EndEffect
    DEF RowsInserted, Announced, Answered, CacheKept, DecisionDurable,
        DecisionCached
<1> QED
    BY <1>3, <1>4 DEF ResumeHydrated

LEMMA ResumeSecondStep ==
    ASSUME StoreInv, NEW a \in Actors, ResumeSecond(a)
    PROVE  StoreInv'
<1> USE DEF StoreInv
<1> DEFINE c == op[a].card
<1>1. /\ op[a].pc = "got2"
      /\ UNCHANGED << cache, db, insert, todo, scan, paused, missed, restarts,
                      clicks >>
    BY DEF ResumeSecond
<1>2. c \in Card /\ insert[c] # "no" /\ c \in missed
    BY <1>1, OpFields DEF Announced, Answered
<1>3. /\ op' \in [ Actors -> Op ] /\ op'[a].pc = "idle"
      /\ \A b \in Actors : b # a => op'[b] = op[b]
      /\ hooks' \in SUBSET Card /\ fired' \in [ Card -> Nat ]
      /\ \A d \in Card : d # c => fired'[d] = fired[d]
    BY AnswerEffect DEF ResumeSecond
<1>4. TypeOK'
    BY <1>1, <1>3 DEF TypeOK
<1>5. RowsInserted' /\ Announced'
    BY <1>1, <1>2, <1>3 DEF RowsInserted, Announced
<1>6. Answered' /\ DecisionDurable'
    BY <1>1, <1>2, <1>3 DEF Answered, DecisionDurable
<1>7. CacheKept'
    BY <1>1, <1>3 DEF CacheKept
<1>8. DecisionCached'
    BY <1>1, <1>2, <1>3 DEF CacheKept, DecisionCached
<1> QED
    BY <1>4, <1>5, <1>6, <1>7, <1>8

\* The table is read only for a card that a restart took from the cache.
LEMMA GetStep ==
    ASSUME StoreInv, NEW u \in User, NEW c \in Card, Get(u, c)
    PROVE  StoreInv'
<1> USE DEF StoreInv
<1> DEFINE r == [ NoOp EXCEPT !.pc = "get", !.card = c ]
<1>1. r \in Op /\ r.pc = "get" /\ r.card = c /\ u \in Actors
    BY NoOpType DEF NoOp, Op, OpPcs, Actors
<1>2. /\ op' = [ op EXCEPT ![u] = r ] /\ insert[c] # "no" /\ cache[c] = "none"
      /\ UNCHANGED << cache, db, insert, hooks, fired, todo, scan, paused,
                      missed, restarts, clicks >>
    BY DEF Get, Known
<1> HIDE DEF r
<1>3. /\ op' \in [ Actors -> Op ] /\ op'[u] = r
      /\ \A b \in Actors : b # u => op'[b] = op[b]
    BY <1>1, <1>2, OpWrite
<1>4. TypeOK'
    BY <1>2, <1>3 DEF TypeOK
<1>5. restarts # 0
    BY <1>2 DEF CacheKept
<1> QED
    BY <1>1, <1>2, <1>3, <1>4, <1>5
    DEF RowsInserted, Announced, Answered, CacheKept, DecisionDurable,
        DecisionCached

LEMMA ResumeGetStep ==
    ASSUME StoreInv, NEW a \in Actors, ResumeGet(a)
    PROVE  StoreInv'
<1> USE DEF StoreInv
<1>1. /\ op[a].pc = "gotget" /\ op' = [ op EXCEPT ![a] = NoOp ]
      /\ UNCHANGED << db, insert, hooks, fired, todo, scan, paused, missed,
                      restarts, clicks >>
    BY DEF ResumeGet
<1>2. op[a].card \in Card /\ op[a].row \in Status
    BY OpFields
<1>3. cache' = cache \/ cache' = [ cache EXCEPT ![op[a].card] = op[a].row ]
    BY DEF ResumeGet
<1>4. /\ op' \in [ Actors -> Op ] /\ op'[a].pc = "idle"
      /\ \A b \in Actors : b # a => op'[b] = op[b]
    BY <1>1, EndEffect
<1>5. TypeOK'
    BY <1>1, <1>2, <1>3, <1>4 DEF TypeOK
<1>6. RowsInserted' /\ Announced'
    BY <1>1, <1>2, <1>3, <1>4 DEF TypeOK, RowsInserted, Announced
<1>7. Answered' /\ DecisionDurable'
    BY <1>1, <1>4 DEF Answered, DecisionDurable
<1>8. restarts # 0
    BY <1>1 DEF CacheKept
<1> QED
    BY <1>1, <1>5, <1>6, <1>7, <1>8 DEF CacheKept, DecisionCached

\* What is on the runner's list is in the table or in the cache.
LEMMA RunnerListStep ==
    ASSUME StoreInv, RunnerScan \/ RunnerMerge \/ \E c \in Card : RunnerStop(c)
    PROVE  StoreInv'
<1> USE DEF StoreInv
<1>1. UNCHANGED << cache, db, insert, op, hooks, fired, missed, restarts, clicks >>
    BY DEF RunnerScan, RunnerMerge, RunnerStop
<1>2. \A c \in Card : c \in todo' =>
          c \in todo \/ db[c] = "pending" \/ cache[c] = "pending"
    BY DEF RunnerScan, RunnerMerge, RunnerStop, Merged
<1>3. todo' \in SUBSET Card
    BY DEF RunnerScan, RunnerMerge, RunnerStop, Merged, TypeOK
<1>4. scan' \in { "off", "merge" }
    BY DEF RunnerScan, RunnerMerge, RunnerStop, TypeOK
<1>5. paused' \in BOOLEAN
    BY Zenon DEF RunnerScan, RunnerMerge, RunnerStop, TypeOK
<1>6. TypeOK'
    BY <1>1, <1>3, <1>4, <1>5 DEF TypeOK
<1>7. RowsInserted' /\ Announced'
    BY <1>1, <1>2, <1>3 DEF RowsInserted, Announced, TypeOK
<1> QED
    BY <1>1, <1>6, <1>7
    DEF Answered, CacheKept, DecisionDurable, DecisionCached

LEMMA RestartStep ==
    ASSUME StoreInv, Restart
    PROVE  StoreInv'
<1> USE DEF StoreInv
<1>1. /\ restarts' = restarts + 1
      /\ cache' = [ c \in Card |-> "none" ] /\ op' = [ a \in Actors |-> NoOp ]
      /\ insert' = [ c \in Card |-> IF insert[c] = "sent" THEN "done" ELSE insert[c] ]
      /\ hooks' = {} /\ todo' = {} /\ scan' = "off"
      /\ UNCHANGED << db, fired, paused, missed, clicks >>
    BY DEF Restart
<1>2. TypeOK'
    BY <1>1, NoOpType DEF TypeOK, Status
<1>3. \A a \in Actors : op'[a].pc = "idle"
    BY <1>1, NoOpType
<1>4. restarts' # 0
    BY <1>1 DEF TypeOK
<1> QED
    BY <1>1, <1>2, <1>3, <1>4
    DEF TypeOK, RowsInserted, Announced, Answered, CacheKept, DecisionDurable,
        DecisionCached

LEMMA StoreStep == StoreInv /\ [Next]_vars => StoreInv'
<1> SUFFICES ASSUME StoreInv, [Next]_vars PROVE StoreInv'
    OBVIOUS
<1>1. ASSUME NEW c \in Card, Put(c) \/ PersistPut(c) \/ RunHook(c)
      PROVE  StoreInv'
    BY <1>1, PutStep, PersistPutStep, RunHookStep
<1>2. ASSUME NEW u \in User, NEW c \in Card,
             Get(u, c) \/ \E to \in Decided : Click(u, c, to)
      PROVE  StoreInv'
    BY <1>2, GetStep, ClickStep
<1>3. ASSUME NEW a \in Actors, Progress(a) PROVE StoreInv'
    BY <1>3, PersistTransitionStep, ResumePersistedStep, ResumeMissingStep,
       HydrateStep, ResumeHydratedStep, ResumeSecondStep, ResumeGetStep
    DEF Progress
<1>4. CASE RunnerTick
    BY <1>4, RunnerListStep, RunnerAckStep DEF RunnerTick
<1>5. CASE Restart
    BY <1>5, RestartStep
<1>6. CASE UNCHANGED vars
    BY <1>6
    DEF vars, StoreInv, TypeOK, RowsInserted, Announced, Answered, CacheKept,
        DecisionDurable, DecisionCached
<1> QED
    BY <1>1, <1>2, <1>3, <1>4, <1>5, <1>6 DEF Next

LEMMA StoreInvariant == Spec => []StoreInv
BY StoreInit, StoreStep, PTL DEF Spec

\* The cache, the table, the queries in flight and the tasks keep their types.
THEOREM StoreTypes == Spec => []TypeOK
<1>1. StoreInv => TypeOK
    BY DEF StoreInv
<1> QED
    BY <1>1, StoreInvariant, PTL

\* Whoever decides meanwhile and whenever the Hub restarts, a card whose ack
\* hook was created is decided in decision_card, unless a write was missed.
THEOREM StoreDurable == Spec => []DecisionDurable
<1>1. StoreInv => DecisionDurable
    BY DEF StoreInv
<1> QED
    BY <1>1, StoreInvariant, PTL

\* Until the first restart it is decided in _cards, even when writes fail.
THEOREM StoreCached == Spec => []DecisionCached
<1>1. StoreInv => DecisionCached
    BY DEF StoreInv
<1> QED
    BY <1>1, StoreInvariant, PTL

-----------------------------------------------------------------------------
(* A project that the runner alone decides                                 *)

LEMMA RunnerActs ==
    Runner \in Actors /\ (User = {} => \A a \in Actors : a = Runner)
BY DEF Actors

LEMMA AlonePut ==
    ASSUME AloneInv, NEW c \in Card, Put(c)
    PROVE  RunnerInv'
<1> USE DEF AloneInv, StoreInv
<1>1. /\ insert[c] = "no" /\ cache' = [ cache EXCEPT ![c] = "pending" ]
      /\ insert' = [ insert EXCEPT ![c] = "sent" ]
      /\ UNCHANGED << db, op, hooks, fired, todo, scan, paused, missed, restarts,
                      clicks >>
    BY DEF Put
<1> QED
    BY <1>1 DEF TypeOK, RunnerInv, RunnerOn

LEMMA AlonePersistPut ==
    ASSUME AloneInv, NEW c \in Card, PersistPut(c)
    PROVE  RunnerInv'
<1> USE DEF AloneInv, StoreInv
<1>1. /\ insert[c] = "sent" /\ insert' = [ insert EXCEPT ![c] = "done" ]
      /\ \/ db' = [ db EXCEPT ![c] = "pending" ] /\ missed' = missed
         \/ db' = db /\ missed' = missed \cup {c}
      /\ UNCHANGED << cache, op, hooks, fired, todo, scan, paused, restarts,
                      clicks >>
    BY DEF PersistPut
<1>2. db[c] = "none" /\ Runner \in Actors
    BY <1>1, RunnerActs DEF RowsInserted
<1>3. c \notin missed => ~(RunnerOn(c) /\ op[Runner].pc = "got1")
    BY <1>2 DEF Answered, RunnerOn, Decided
<1> QED
    BY <1>1, <1>2, <1>3 DEF TypeOK, RunnerInv, RunnerOn

\* The runner takes a card from its list.
LEMMA AloneAck ==
    ASSUME AloneInv, NEW c \in Card, RunnerAck(c)
    PROVE  RunnerInv'
<1> USE DEF AloneInv, StoreInv
<1>1. /\ op[Runner].pc = "idle" /\ scan = "off" /\ c \in todo
      /\ todo' = todo \ {c} /\ Begin(Runner, c, "acked")
      /\ UNCHANGED << cache, db, insert, hooks, fired, scan, paused, missed,
                      restarts, clicks >>
    BY DEF RunnerAck, RunnerIdle
<1>2. op'[Runner].pc = "update1" /\ op'[Runner].card = c
    BY <1>1, BeginEffect, RunnerActs DEF Decided
<1> QED
    BY <1>1, <1>2 DEF RunnerInv, RunnerOn

\* After the UPDATE the table is ahead of the cache, for the card in hand only.
LEMMA AlonePersistTransition ==
    ASSUME AloneInv, PersistTransition(Runner)
    PROVE  RunnerInv'
<1> USE DEF AloneInv, StoreInv
<1> DEFINE c == op[Runner].card
<1>1. c \in Card /\ op[Runner].to \in Decided
    BY OpFields, RunnerActs
<1>2. /\ op[Runner].pc \in { "update1", "update2" }
      /\ op'[Runner].pc = IF op[Runner].pc = "update1" THEN "got1" ELSE "got2"
      /\ op'[Runner].card = c /\ op'[Runner].to = op[Runner].to
      /\ \/ db' = [ db EXCEPT ![c] = op[Runner].to ] /\ missed' = missed
         \/ missed' = missed \cup {c} /\ db' = db
    BY PersistEffect, RunnerActs
<1>3. UNCHANGED << cache, insert, hooks, fired, todo, scan, paused, restarts, clicks >>
    BY DEF PersistTransition
<1>4. c \notin missed => op[Runner].pc = "update1"
    BY <1>2, RunnerActs DEF Answered
<1>5. \A d \in Card : d # c => db'[d] = db[d]
    BY <1>1, <1>2 DEF TypeOK
<1>6. c \notin missed' => db'[c] = op[Runner].to
    BY <1>1, <1>2 DEF TypeOK
<1>7. missed \subseteq missed'
    BY <1>2
<1>8. \A d \in Card \ missed' :
          /\ insert'[d] = "sent" => cache'[d] = "pending"
          /\ d \in todo' => fired'[d] = 0
          /\ RunnerOn(d)' => fired'[d] = 0 /\ d \notin todo'
          /\ fired'[d] <= 1
    BY <1>2, <1>3, <1>7 DEF RunnerInv, RunnerOn
<1>9. \A d \in Card \ missed' :
          /\ insert'[d] = "done" /\ cache'[d] # "none"
                /\ ~(RunnerOn(d)' /\ op'[Runner].pc = "got1") => cache'[d] = db'[d]
          /\ RunnerOn(d)' /\ op'[Runner].pc = "got1" => db'[d] = op'[Runner].to
    BY <1>2, <1>3, <1>4, <1>5, <1>6, <1>7 DEF RunnerInv, RunnerOn
<1> QED
    BY <1>2, <1>3, <1>8, <1>9 DEF RunnerInv

\* The answer brings the cache up to the table, and creates the one hook.
LEMMA AloneResumePersisted ==
    ASSUME AloneInv, ResumePersisted(Runner)
    PROVE  RunnerInv'
<1> USE DEF AloneInv, StoreInv
<1> DEFINE c == op[Runner].card
<1>1. c \in Card
    BY OpFields, RunnerActs
<1>2. cache'[c] = op[Runner].to /\ \A d \in Card : d # c => cache'[d] = cache[d]
    BY SetCacheEffect, RunnerActs DEF ResumePersisted
<1>3. /\ op'[Runner].pc = "idle"
      /\ fired' \in [ Card -> Nat ]
      /\ \A d \in Card : d # c => fired'[d] = fired[d]
      /\ fired'[c] <= fired[c] + 1
    BY AnswerEffect, RunnerActs DEF ResumePersisted
<1>4. /\ op[Runner].pc = "got1"
      /\ UNCHANGED << db, insert, todo, scan, paused, missed, restarts, clicks >>
    BY DEF ResumePersisted
<1>5. c \notin missed => insert[c] = "done"
    BY <1>1, <1>4, RunnerActs DEF Answered, RowsInserted, Decided
<1>6. RunnerOn(c)
    BY <1>4 DEF RunnerOn
<1>7. \A d \in Card : d # c => ~RunnerOn(d)
    BY DEF RunnerOn
<1>8. \A d \in Card : ~RunnerOn(d)'
    BY <1>3 DEF RunnerOn
<1>9. c \notin missed => /\ cache'[c] = db[c] /\ c \notin todo /\ fired'[c] <= 1
    BY <1>1, <1>2, <1>3, <1>4, <1>6 DEF RunnerInv
<1>10. \A d \in Card \ missed :
          /\ insert[d] = "sent" => cache'[d] = "pending"
          /\ insert[d] = "done" /\ cache'[d] # "none" => cache'[d] = db[d]
          /\ d \in todo => fired'[d] = 0
          /\ fired'[d] <= 1
    BY <1>2, <1>3, <1>4, <1>5, <1>7, <1>9 DEF RunnerInv
<1> QED
    BY <1>3, <1>4, <1>8, <1>10 DEF RunnerInv

\* The other steps of a transition concern a card whose write was missed.
LEMMA AloneMissed ==
    ASSUME AloneInv,
           \/ ResumeMissing(Runner) \/ Hydrate(Runner)
           \/ ResumeHydrated(Runner) \/ ResumeSecond(Runner)
    PROVE  RunnerInv'
<1> USE DEF AloneInv, StoreInv
<1> DEFINE c == op[Runner].card
<1>1. c \in Card
    BY OpFields, RunnerActs
<1>2. c \in missed /\ op[Runner].pc # "idle"
    BY RunnerActs
    DEF ResumeMissing, Hydrate, ResumeHydrated, ResumeSecond, Answered, RunnerInv
<1>3. UNCHANGED << db, insert, todo, scan, paused, missed, restarts, clicks >>
    BY DEF ResumeMissing, Hydrate, ResumeHydrated, ResumeSecond
<1>4. /\ \A d \in Card : d # c => cache'[d] = cache[d]
      /\ \A d \in Card : d # c => fired'[d] = fired[d]
  <2>1. CASE ResumeMissing(Runner) \/ ResumeHydrated(Runner)
    BY <2>1, SetCacheEffect, RunnerActs DEF ResumeMissing, ResumeHydrated
  <2>2. CASE Hydrate(Runner)
    BY <2>2 DEF Hydrate
  <2>3. CASE ResumeSecond(Runner)
    BY <2>3, AnswerEffect, RunnerActs DEF ResumeSecond
  <2> QED
    BY <2>1, <2>2, <2>3
<1>5. /\ op'[Runner].pc = "idle" \/ op'[Runner].card = c
      /\ op'[Runner].pc \notin { "get", "gotget" }
  <2>1. CASE ResumeMissing(Runner)
    BY <2>1, GotoEffect, RunnerActs DEF ResumeMissing, OpPcs
  <2>2. CASE Hydrate(Runner)
    BY <2>2, HydrateEffect, RunnerActs DEF RunnerInv
  <2>3. CASE ResumeHydrated(Runner)
    BY <2>3, GotoEffect, EndEffect, RunnerActs DEF ResumeHydrated, OpPcs
  <2>4. CASE ResumeSecond(Runner)
    BY <2>4, AnswerEffect, RunnerActs DEF ResumeSecond
  <2> QED
    BY <2>1, <2>2, <2>3, <2>4
<1>6. \A d \in Card \ missed : ~RunnerOn(d) /\ ~RunnerOn(d)' /\ d # c
    BY <1>2, <1>5 DEF RunnerOn
<1>7. scan' # "merge"
    BY <1>2, <1>3 DEF RunnerInv
<1> QED
    BY <1>3, <1>4, <1>5, <1>6, <1>7 DEF RunnerInv

\* The list is made of cards that are pending, whose hook was not created.
LEMMA AloneList ==
    ASSUME AloneInv, RunnerScan \/ RunnerMerge \/ \E c \in Card : RunnerStop(c)
    PROVE  RunnerInv'
<1> USE DEF AloneInv, StoreInv
<1>1. UNCHANGED << cache, db, insert, op, hooks, fired, missed, restarts, clicks >>
    BY DEF RunnerScan, RunnerMerge, RunnerStop
<1>2. \A c \in Card : c \in todo' =>
          c \in todo \/ db[c] = "pending" \/ cache[c] = "pending"
    BY DEF RunnerScan, RunnerMerge, RunnerStop, Merged
<1>3. op[Runner].pc = "idle"
    BY DEF RunnerScan, RunnerMerge, RunnerStop, RunnerIdle, RunnerInv
<1>4. \A c \in Card \ missed : c \in todo' => fired[c] = 0
  <2> SUFFICES ASSUME NEW c \in Card \ missed, c \in todo' PROVE fired[c] = 0
    OBVIOUS
  <2>1. CASE c \in todo
    BY <2>1 DEF RunnerInv
  <2>2. CASE db[c] = "pending"
    BY <2>2 DEF DecisionDurable, Decided, TypeOK
  <2>3. CASE cache[c] = "pending"
    <3>1. insert[c] # "no"
      BY <2>3 DEF Announced
    <3>2. db[c] \notin Decided
      BY <1>3, <2>3, <3>1 DEF RunnerInv, RunnerOn, RowsInserted, Decided, TypeOK
    <3> QED
      BY <3>2 DEF DecisionDurable, TypeOK
  <2> QED
    BY <1>2, <2>1, <2>2, <2>3
<1> QED
    BY <1>1, <1>3, <1>4 DEF RunnerInv, RunnerOn

LEMMA AloneRestart ==
    ASSUME AloneInv, Restart
    PROVE  RunnerInv'
<1> USE DEF AloneInv, StoreInv
<1>1. /\ cache' = [ c \in Card |-> "none" ] /\ op' = [ a \in Actors |-> NoOp ]
      /\ insert' = [ c \in Card |-> IF insert[c] = "sent" THEN "done" ELSE insert[c] ]
      /\ todo' = {} /\ scan' = "off" /\ UNCHANGED << db, fired, missed >>
    BY DEF Restart
<1>2. op'[Runner].pc = "idle"
    BY <1>1, NoOpType, RunnerActs
<1> QED
    BY <1>1, <1>2 DEF RunnerInv, RunnerOn, TypeOK

LEMMA AloneStep ==
    ASSUME User = {}
    PROVE  AloneInv /\ [Next]_vars => AloneInv'
<1> SUFFICES ASSUME AloneInv, [Next]_vars PROVE AloneInv'
    OBVIOUS
<1>1. StoreInv'
    BY StoreStep DEF AloneInv
<1>2. RunnerInv'
  <2>1. ASSUME NEW c \in Card, Put(c) \/ PersistPut(c) PROVE RunnerInv'
    BY <2>1, AlonePut, AlonePersistPut
  <2>2. ASSUME NEW c \in Card, RunHook(c) PROVE RunnerInv'
    BY <2>2 DEF RunHook, AloneInv, RunnerInv, RunnerOn
  <2>3. ASSUME NEW a \in Actors, Progress(a) PROVE RunnerInv'
    <3>1. a = Runner
      BY RunnerActs
    <3>2. CASE ResumeGet(a)
      BY <3>1, <3>2 DEF ResumeGet, AloneInv, RunnerInv
    <3> QED
      BY <2>3, <3>1, <3>2, AlonePersistTransition, AloneResumePersisted, AloneMissed
      DEF Progress
  <2>4. CASE RunnerTick
    BY <2>4, AloneList, AloneAck DEF RunnerTick
  <2>5. CASE Restart
    BY <2>5, AloneRestart
  <2>6. CASE UNCHANGED vars
    BY <2>6 DEF vars, AloneInv, RunnerInv, RunnerOn
  <2> QED
    BY <2>1, <2>2, <2>3, <2>4, <2>5, <2>6 DEF Next
<1> QED
    BY <1>1, <1>2 DEF AloneInv

LEMMA AloneInit == Init => AloneInv
<1> SUFFICES ASSUME Init PROVE AloneInv
    OBVIOUS
<1>1. op[Runner].pc = "idle"
    BY NoOpType, RunnerActs DEF Init
<1> QED
    BY <1>1, StoreInit DEF Init, AloneInv, RunnerInv, RunnerOn

\* With the runner as the only decider the cache never disagrees with the table
\* about a card at rest whose writes reached it, restarts included.
THEOREM StoreFollowsDb == ASSUME User = {} PROVE Spec => []CacheFollowsDb
<1>1. AloneInv => CacheFollowsDb
  <2> SUFFICES ASSUME AloneInv, NEW c \in Card \ missed,
                      ~Busy(c), cache[c] # "none"
               PROVE  cache[c] = db[c]
    BY DEF CacheFollowsDb
  <2>1. insert[c] = "done"
    BY DEF Busy, AloneInv, StoreInv, Announced, TypeOK
  <2>2. ~RunnerOn(c)
    BY RunnerActs DEF Busy, RunnerOn
  <2> QED
    BY <2>1, <2>2 DEF AloneInv, RunnerInv
<1> QED
    BY <1>1, AloneInit, AloneStep, PTL DEF Spec

\* The runner's ticks, its stale list and restarts never create the ack hook of
\* a card twice, as on_decision_acked relies on, unless a write was missed.
THEOREM StoreHookOnce == ASSUME User = {} PROVE Spec => []HookOnce
<1>1. AloneInv => HookOnce
    BY DEF AloneInv, RunnerInv, HookOnce
<1> QED
    BY <1>1, AloneInit, AloneStep, PTL DEF Spec
=============================================================================
