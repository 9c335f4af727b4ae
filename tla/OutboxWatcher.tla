--------------------------- MODULE OutboxWatcher ---------------------------
(***************************************************************************)
(* The projection of the file bus into Postgres.  Daemons append JSON      *)
(* lines to outbox files (shared/runtime/db-outbox.sh, db/dashboard/       *)
(* serve.py); one watcher (db/watcher/spine_watcher.py) reads each file    *)
(* from a saved cursor, applies every line in a transaction of its own and *)
(* saves the cursor when it is through with the file.                      *)
(*                                                                         *)
(* One worker handle of one role, whose outbox is "role", and the instance *)
(* outbox "inst".  A position in a file is a number of complete lines; a   *)
(* line without its newline is not there yet.  The schema is the current   *)
(* one (V13 or later), so the fallbacks for older ones are not taken.      *)
(***************************************************************************)
EXTENDS Naturals, Sequences, FiniteSets

CONSTANTS
    RoleLines,      \* bodies of lines that daemons write to the role outbox
    InstLines,      \* bodies of lines written to the instance outbox
    SecondsPerDay,  \* seconds of a (short) day
    MaxClock,       \* bound: seconds that pass
    MaxLines,       \* bound: lines written to the two files
    MaxOutboxFaults       \* bound: lost connections and crashes of the watcher

NoKey == "none"     \* idempotency_key, engagement_id: null
IdKey == STRING \cup { NoKey }

OutboxFile == { "role", "inst" }

\* type "bad" stands for a line that raises ValueError or JSONDecodeError,
\* "other" for one that is logged and skipped (an unknown type, an unknown
\* event_type, an unknown role).
LineType == { "cost", "event", "instance", "engagement", "bad", "other" }

\* what: the event_type.  inst: instance_id of the daemon.  key, eng:
\* idempotency_key and engagement_id, or NoKey.  slug: of EngagementCreated.
LineBody == [ type : LineType, what : STRING, inst : STRING, key : IdKey,
              eng : IdKey, slug : STRING ]

InstanceTypes == { "InstanceStarted", "InstanceHeartbeat", "InstanceStopped" }

ASSUME OutboxAssumption ==
    /\ RoleLines \subseteq LineBody /\ InstLines \subseteq LineBody
    /\ \A b \in RoleLines \cup InstLines :
          b.type = "instance" => b.what \in InstanceTypes
    /\ \A b \in RoleLines : b.type \notin { "instance", "engagement" }
    /\ \A b \in InstLines : b.type \notin { "cost", "event" }
    /\ SecondsPerDay \in Nat \ {0}
    /\ MaxClock \in Nat /\ MaxLines \in Nat /\ MaxOutboxFaults \in Nat

VARIABLES
    clock,      \* seconds since the first day began
    outbox,     \* outbox[f]: the complete lines of the file
    cursor,     \* cursor[f]: the saved cursor
    drain,      \* where the watcher is
    assignment, \* rows of assignment, one per day
    costRow,    \* rows of cost_row: day and second, and the line they are of
    eventRows,  \* eventRows[f][n]: rows of event made of line n of f
    engagement, \* rows of engagement
    messages,   \* messages[n]: rows of engagement_message made of line n
    spineInstance, \* the row of spine_instance
    faults      \* faults so far

outboxVars == << clock, outbox, cursor, drain, assignment, costRow, eventRows,
                 engagement, messages, spineInstance, faults >>

Day(ts) == ts \div SecondsPerDay

\* A written line: its body and the second at which it was written.
OutboxLine == [ body : LineBody, ts : Nat ]

Drain == [ pc : { "open", "ingest", "save", "down" }, file : OutboxFile,
           at : Nat, end : Nat ]

Assignment == [ day : Nat, inst : STRING, key : IdKey,
                status : { "active", "done" } ]

Engagement == [ id : IdKey, slug : STRING ]

\* status "none": there is no row.
SpineInstance == [ status : { "none", "alive", "stopped" }, started : Nat,
                   seen : Nat ]

OutboxTypeOK ==
    /\ clock \in Nat /\ faults \in Nat
    /\ outbox \in [ OutboxFile -> Seq(OutboxLine) ]
    /\ cursor \in [ OutboxFile -> Nat ]
    /\ drain \in Drain
    /\ assignment \subseteq Assignment
    /\ costRow \subseteq [ day : Nat, ts : Nat, line : Nat ]
    /\ eventRows \in [ OutboxFile -> [ 1..MaxLines -> Nat ] ]
    /\ engagement \subseteq Engagement
    /\ messages \in [ 1..MaxLines -> Nat ]
    /\ spineInstance \in SpineInstance

NoInstance == [ status |-> "none", started |-> 0, seen |-> 0 ]

StartOfTick == [ pc |-> "open", file |-> "role", at |-> 0, end |-> 0 ]

OutboxInit ==
    /\ clock = 0 /\ faults = 0
    /\ outbox = [ f \in OutboxFile |-> << >> ]
    /\ cursor = [ f \in OutboxFile |-> 0 ]
    /\ drain = StartOfTick
    /\ assignment = {} /\ costRow = {} /\ engagement = {}
    /\ eventRows = [ f \in OutboxFile |-> [ n \in 1..MaxLines |-> 0 ] ]
    /\ messages = [ n \in 1..MaxLines |-> 0 ]
    /\ spineInstance = NoInstance

tables == << assignment, costRow, eventRows, engagement, messages,
             spineInstance >>

-----------------------------------------------------------------------------
(* The writers                                                             *)

SecondPasses ==
    /\ clock < MaxClock
    /\ clock' = clock + 1
    /\ UNCHANGED << outbox, cursor, drain, tables, faults >>

\* spine_outbox_emit_cost, _event, _instance_event, _engagement_event and
\* _append_outbox_line: one append under a lock.  One that fails is forgotten.
Emit(f, body) ==
    /\ Len(outbox["role"]) + Len(outbox["inst"]) < MaxLines
    /\ outbox' = [ outbox EXCEPT ![f] =
                      Append(@, [ body |-> body, ts |-> clock ]) ]
    /\ UNCHANGED << clock, cursor, drain, tables, faults >>

-----------------------------------------------------------------------------
(* The transaction of one line.  An operator that ends in Rejects says     *)
(* when the database raises an error in it.                                *)

OfDay(d) == { a \in assignment : a.day = d }

\* UNIQUE (worker_id, idempotency_key), and the index assignment_one_active_
\* per_instance on (worker_id, instance_id) WHERE status = 'active'.  ON
\* CONFLICT (assignment_id) looks at neither.
AssignmentRejects(line, key) ==
    LET d == Day(line.ts) IN
    \/ OfDay(d) = {} /\ \E a \in assignment :
                            \/ a.status = "active" /\ a.inst = line.body.inst
                            \/ key # NoKey /\ a.key = key
    \/ /\ \E a \in OfDay(d) : a.key = NoKey
       /\ key # NoKey /\ \E b \in assignment : b.key = key

\* resolve_org_ids: one assignment per worker and day, which keeps the first
\* key it was given.
AssignmentAfter(line, key) ==
    LET d == Day(line.ts) IN
    IF OfDay(d) = {}
      THEN assignment \cup { [ day |-> d, inst |-> line.body.inst, key |-> key,
                               status |-> "active" ] }
      ELSE { IF a.day = d /\ a.key = NoKey THEN [ a EXCEPT !.key = key ] ELSE a :
               a \in assignment }

\* cost_row.engagement_id, event.engagement_id and engagement_message.
\* engagement_id reference engagement.
ForeignKeyRejects(line) ==
    line.body.eng # NoKey /\ \A e \in engagement : e.id # line.body.eng

AddEvent(f, n) == eventRows' = [ eventRows EXCEPT ![f][n] = @ + 1 ]

\* ON CONFLICT (assignment_id, ts) DO NOTHING.
CostAfter(line, n) ==
    IF \E c \in costRow : c.ts = line.ts
      THEN costRow
      ELSE costRow \cup { [ day |-> Day(line.ts), ts |-> line.ts, line |-> n ] }

\* _ingest_cost_body, after resolve_org_ids: the cost row and an audit event.
IngestCost(f, n, line) ==
    /\ assignment' = AssignmentAfter(line, line.body.key)
    /\ costRow' = CostAfter(line, n)
    /\ AddEvent(f, n)
    /\ UNCHANGED << engagement, messages, spineInstance >>

DoneTypes == { "ReportWritten", "AggregateCompleted", "WorkerCompleted" }

\* ingest_event_line: the event row, and the end of the day's assignment.
IngestEvent(f, n, line) ==
    /\ AddEvent(f, n)
    /\ assignment' = { IF a.day = Day(line.ts) /\ line.body.what \in DoneTypes
                         THEN [ a EXCEPT !.status = "done" ] ELSE a :
                         a \in AssignmentAfter(line, NoKey) }
    /\ UNCHANGED << costRow, engagement, messages, spineInstance >>

Later(s, t)   == IF s < t THEN t ELSE s
Earlier(s, t) == IF s < t THEN s ELSE t

\* Faulty: a heartbeat brings a stopped instance back.
InstanceAfterRevives(r, what, ts) ==
    IF what = "InstanceStarted" \/ r.status # "none"
      THEN [ status |-> IF what = "InstanceStopped" THEN "stopped" ELSE "alive",
             started |-> IF r.status = "none" THEN ts ELSE Earlier(r.started, ts),
             seen |-> Later(r.seen, ts) ]
      ELSE r

\* ingest_instance_event: an upsert that keeps the earliest start, and two
\* updates that find no row before the first start.
InstanceAfter(r, what, ts) ==
    CASE what = "InstanceStarted" ->
           IF r.status = "none"
             THEN [ status |-> "alive", started |-> ts, seen |-> ts ]
             ELSE [ status |-> "alive", started |-> Earlier(r.started, ts),
                    seen |-> Later(r.seen, ts) ]
      [] what = "InstanceHeartbeat" ->
           IF r.status = "none" THEN r ELSE [ r EXCEPT !.seen = Later(@, ts) ]
      [] what = "InstanceStopped"   ->
           IF r.status = "none" THEN r
             ELSE [ r EXCEPT !.status = "stopped", !.seen = Later(@, ts) ]

IngestInstance(line) ==
    /\ spineInstance' = InstanceAfter(spineInstance, line.body.what, line.ts)
    /\ UNCHANGED << assignment, costRow, eventRows, engagement, messages >>

\* EngagementCreated: ON CONFLICT (team_id, slug) DO NOTHING; the primary key
\* engagement_id is no part of that clause.
EngagementRejects(line) ==
    IF line.body.what = "EngagementCreated"
      THEN /\ \A e \in engagement : e.slug # line.body.slug
           /\ \E e \in engagement : e.id = line.body.eng
      ELSE /\ line.body.what \in { "EngagementMessage", "ArtifactCreated" }
           /\ ForeignKeyRejects(line)

EngagementAfter(line) ==
    IF /\ line.body.what = "EngagementCreated"
       /\ \A e \in engagement : e.slug # line.body.slug
      THEN engagement \cup { [ id |-> line.body.eng, slug |-> line.body.slug ] }
      ELSE engagement

MessagesAfter(n, line) ==
    IF line.body.what = "EngagementMessage" THEN [ messages EXCEPT ![n] = @ + 1 ]
                                            ELSE messages

\* ingest_engagement_event.  A change of status updates columns that nothing
\* here reads, of a row that need not exist; an artifact is inserted under an
\* identifier made of its uri, once.
IngestEngagement(n, line) ==
    /\ engagement' = EngagementAfter(line)
    /\ messages' = MessagesAfter(n, line)
    /\ UNCHANGED << assignment, costRow, eventRows, spineInstance >>

\* What ingest_outbox_line raises as an error that is no loss of connection.
LineRejected(line) ==
    \/ line.body.type \in { "cost", "event" } /\ ForeignKeyRejects(line)
    \/ /\ line.body.type = "event" \/ (line.body.type = "cost" /\ line.body.key = NoKey)
       /\ AssignmentRejects(line, NoKey)
    \/ line.body.type = "engagement" /\ EngagementRejects(line)
    \/ line.body.type = "bad"

\* ingest_cost_line: "duplicate ingest avoided".  The violation is of any
\* unique constraint, and it comes before the foreign key is looked at.
TakenForDuplicate(line) ==
    /\ line.body.type = "cost" /\ line.body.key # NoKey
    /\ AssignmentRejects(line, line.body.key)

IngestLine(f, n, line) ==
    \/ line.body.type = "cost"       /\ IngestCost(f, n, line)
    \/ line.body.type = "event"      /\ IngestEvent(f, n, line)
    \/ line.body.type = "instance"   /\ IngestInstance(line)
    \/ line.body.type = "engagement" /\ IngestEngagement(n, line)
    \/ line.body.type = "other"      /\ UNCHANGED tables

-----------------------------------------------------------------------------
(* The watcher                                                             *)

\* Faulty: the instance outbox is not among the discovered ones.
NextFileRoleOnly == [ pc |-> "open", file |-> "role", at |-> 0, end |-> 0 ]

\* tick: the role outboxes in order, then the instance outbox, then a nap.
NextFile == [ pc |-> "open", file |-> IF drain.file = "role" THEN "inst" ELSE "role",
              at |-> 0, end |-> 0 ]

\* drain_file reads the cursor and the file.
OpenOutbox ==
    /\ drain.pc = "open"
    /\ LET f == drain.file IN
       drain' = IF cursor[f] < Len(outbox[f])
                  THEN [ pc |-> "ingest", file |-> f, at |-> cursor[f],
                         end |-> Len(outbox[f]) ]
                  ELSE NextFile
    /\ UNCHANGED << clock, outbox, cursor, tables, faults >>

Current == outbox[drain.file][drain.at + 1]

InBatch == drain.pc = "ingest" /\ drain.at < drain.end

\* The transaction commits, and the line is done with.
ApplyLine ==
    /\ InBatch
    /\ ~LineRejected(Current) /\ ~TakenForDuplicate(Current)
    /\ IngestLine(drain.file, drain.at + 1, Current)
    /\ drain' = [ drain EXCEPT !.at = @ + 1 ]
    /\ UNCHANGED << clock, outbox, cursor, faults >>

\* The transaction is rolled back, and the line is done with all the same.
SkipDuplicate ==
    /\ InBatch
    /\ TakenForDuplicate(Current)
    /\ drain' = [ drain EXCEPT !.at = @ + 1 ]
    /\ UNCHANGED << clock, outbox, cursor, tables, faults >>

\* A malformed line, or an error of the database: the file is left there.
StopAtLine ==
    /\ InBatch
    /\ LineRejected(Current) /\ ~TakenForDuplicate(Current)
    /\ drain' = [ drain EXCEPT !.pc = "save" ]
    /\ UNCHANGED << clock, outbox, cursor, tables, faults >>

EndOfBatch ==
    /\ drain.pc = "ingest" /\ drain.at = drain.end
    /\ drain' = [ drain EXCEPT !.pc = "save" ]
    /\ UNCHANGED << clock, outbox, cursor, tables, faults >>

\* Faulty: the cursor goes to the end of what was read.
SaveCursorAtEnd ==
    /\ drain.pc = "save"
    /\ cursor' = [ cursor EXCEPT ![drain.file] = drain.end ]
    /\ drain' = NextFile
    /\ UNCHANGED << clock, outbox, tables, faults >>

\* advance_cursor, by an atomic rename.
SaveCursor ==
    /\ drain.pc = "save"
    /\ cursor' = [ cursor EXCEPT ![drain.file] = drain.at ]
    /\ drain' = NextFile
    /\ UNCHANGED << clock, outbox, tables, faults >>

\* OperationalError or InterfaceError: out of the tick, without the cursor.
\* The line at hand may have been committed (a lost acknowledgement is one
\* more ApplyLine before this step).
LoseConnection ==
    /\ faults < MaxOutboxFaults
    /\ drain.pc = "ingest"
    /\ faults' = faults + 1
    /\ drain' = [ drain EXCEPT !.pc = "down" ]
    /\ UNCHANGED << clock, outbox, cursor, tables >>

\* connect_with_retry, and a fresh tick.
Reconnect ==
    /\ drain.pc = "down"
    /\ drain' = StartOfTick
    /\ UNCHANGED << clock, outbox, cursor, tables, faults >>

\* The process is killed and started again.
WatcherDies ==
    /\ faults < MaxOutboxFaults
    /\ drain # StartOfTick
    /\ faults' = faults + 1
    /\ drain' = StartOfTick
    /\ UNCHANGED << clock, outbox, cursor, tables >>

OutboxWatcherStep ==
    \/ OpenOutbox \/ ApplyLine \/ SkipDuplicate \/ StopAtLine \/ EndOfBatch
    \/ SaveCursor \/ Reconnect

OutboxNext ==
    \/ SecondPasses
    \/ \E body \in RoleLines : Emit("role", body)
    \/ \E body \in InstLines : Emit("inst", body)
    \/ OutboxWatcherStep \/ LoseConnection \/ WatcherDies

\* The loop of main() runs for ever, and connections come back.
OutboxFairness == WF_outboxVars(OutboxWatcherStep)

OutboxSpec == OutboxInit /\ [][OutboxNext]_outboxVars /\ OutboxFairness

-----------------------------------------------------------------------------
(* Properties                                                              *)

RoleLine(n) == outbox["role"][n]
InstLine(n) == outbox["inst"][n]

\* "No work is dropped because the cursor is only advanced after a successful
\* commit", whatever fails and whenever the watcher dies: a line the cursor
\* has passed is in the tables, at least once.  This covers lifecycle events,
\* messages and the costs that carry no idempotency key.
AtLeastOnce ==
    /\ \A n \in 1..cursor["role"] :
          /\ RoleLine(n).body.type = "event" => eventRows["role"][n] > 0
          /\ RoleLine(n).body.type = "cost" /\ RoleLine(n).body.key = NoKey =>
                \E c \in costRow : c.ts = RoleLine(n).ts
    /\ \A n \in 1..cursor["inst"] :
          InstLine(n).body.type = "engagement"
             /\ InstLine(n).body.what = "EngagementMessage" => messages[n] > 0

CaughtUp == \A f \in OutboxFile : cursor[f] = Len(outbox[f])

Ons(what) == { n \in DOMAIN outbox["inst"] : /\ InstLine(n).body.type = "instance"
                                             /\ InstLine(n).body.what \in what }

InstanceExact ==
    LET starts == Ons({"InstanceStarted"})
        first  == CHOOSE n \in starts : \A m \in starts : n <= m
        signs  == { n \in Ons(InstanceTypes) : n >= first }
        last   == CHOOSE n \in signs : \A m \in signs : m <= n
    IN  IF starts = {} THEN spineInstance = NoInstance
        ELSE /\ spineInstance.started = InstLine(first).ts
             /\ spineInstance.seen = InstLine(last).ts
             /\ spineInstance.status = "stopped" <=>
                   \E n \in signs : /\ InstLine(n).body.what = "InstanceStopped"
                                    /\ \A m \in starts : m < n

AssignmentExact ==
    \A a \in assignment :
        a.status = "done" <=>
          \E n \in DOMAIN outbox["role"] :
              /\ RoleLine(n).body.type = "event"
              /\ RoleLine(n).body.what \in DoneTypes
              /\ Day(RoleLine(n).ts) = a.day

\* However often the watcher went over parts of a file again, once it has
\* caught up the tables say what the whole files say.  The instance stopped if
\* no start follows its last stop, it started when it first did, and it was last
\* seen at the last sign of it; a day's assignment is done exactly if the file
\* reports an end on that day.
ReplayExact == CaughtUp => InstanceExact /\ AssignmentExact

\* Every file is drained to its end or to a line that is refused then and for
\* ever.  In particular a line that names an engagement gets through once the
\* instance outbox, which is read after it, has brought the engagement.
OutboxDrains ==
    <>[](\A f \in OutboxFile :
           \/ cursor[f] = Len(outbox[f])
           \/ LineRejected(outbox[f][cursor[f] + 1]))
=============================================================================
