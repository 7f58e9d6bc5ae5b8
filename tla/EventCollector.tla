--------------------------- MODULE EventCollector ---------------------------
(***************************************************************************)
(* The resident event collector (internal/server/events.go) with the       *)
(* tables it writes (internal/store/session_event.go, unread.go): the read *)
(* loop of the upstream's event stream, the queue to the flusher, the      *)
(* flusher, retention, the seeding of the session statuses after a         *)
(* restart, and the clients that page through the events and mark sessions *)
(* as read.                                                                *)
(***************************************************************************)
EXTENDS Integers, Sequences, FiniteSets, FiniteSetsExt, Functions

CONSTANTS Sessions,
          Kinds,          \* the event types the upstream sends
          QueueSize,      \* eventQueueSize
          FlushBatch,     \* eventFlushBatch
          SeedWindow,     \* seedSessionStatuses: the last hour
          SeedLimit,      \* seedSessionStatuses: at most 1000 rows
          Retention,      \* eventRetention
          PageLimit,      \* the limit of GET /api/events
          MaxEvents,      \* bound on the events of one behaviour
          MaxClock,       \* bound on the clock
          MaxFaults       \* bound on failed statements and restarts together

ASSUME CollectorAssumption ==
    /\ Kinds \subseteq {"busy", "idle", "updated", "delta"}
    /\ {QueueSize, FlushBatch, SeedLimit, PageLimit} \subseteq Nat \ {0}
    /\ {SeedWindow, Retention, MaxEvents, MaxClock, MaxFaults} \subseteq Nat
    /\ SeedWindow <= Retention        \* one hour, seven days

VARIABLES now,        \* the clock
          received,   \* how many events the callback has taken
          pc,         \* StartEventCollector
          canceled,   \* its ctx
          fpc,        \* flushEventsLoop
          back,       \* where flush returns to
          queue,      \* the buffered channel
          batch,      \* the flusher's slice
          statuses,   \* sessionStatuses
          table,      \* session_events: the event under each row id
          rowid,      \* the last row id drawn
          unread,     \* session_unread
          failures,
          restarts,
          cursors,    \* the since values a paging client has used
          seen        \* the ids it was given

memory == <<pc, canceled, fpc, back, queue, batch, statuses>>
database == <<table, rowid>>
counters == <<received, failures, restarts>>
client == <<cursors, seen>>

(***************************************************************************)
(* History: the events that never reach the table, the sessions with       *)
(* activity since they were last read, the ones whose mark was lost, the   *)
(* last status event of each session, and when and whether completely the  *)
(* statuses were seeded.                                                   *)
(***************************************************************************)
VARIABLES lost, fresh, unmarked, truth, seed

history == <<lost, fresh, unmarked, truth, seed>>

vars == <<now, memory, database, unread, counters, client, history>>

-----------------------------------------------------------------------------
(* Events.  The four kinds stand for session.status, session.idle,         *)
(* message.updated and message.part.delta.                                 *)

Event == [id : 1..MaxEvents, session : Sessions, kind : Kinds, at : 0..MaxClock]

NoStatus == "none"

\* The status an event carries, if any.
HasStatus(e) == e.kind \in {"busy", "idle"}

isUnreadTriggerEvent(e) == e.kind # "delta"

Ids(s) == {e.id : e \in Range(s)}

Triggers(s) == {e.session : e \in {x \in Range(s) : isUnreadTriggerEvent(x)}}

-----------------------------------------------------------------------------
(* Statements.                                                             *)

\* Row ids are drawn in the order of the batch and never again.
InsertEvents(es) ==
    /\ rowid' = rowid + Len(es)
    /\ table' = [i \in DOMAIN table \cup (rowid + 1)..(rowid + Len(es)) |->
                   IF i \in DOMAIN table THEN table[i] ELSE es[i - rowid]]

\* ORDER BY created_at, id.
Sooner(i, j) == table[i].at < table[j].at \/ (table[i].at = table[j].at /\ i < j)

LastRow(rows) == CHOOSE i \in rows : \A j \in rows : ~Sooner(i, j)

\* LIMIT, in ascending and in descending order.
Oldest(rows, limit) == {i \in rows : Cardinality({j \in rows : Sooner(j, i)}) < limit}
Newest(rows, limit) == {i \in rows : Cardinality({j \in rows : Sooner(i, j)}) < limit}

Since(since) == {i \in DOMAIN table : table[i].at > since}

\* Faulty variant: the newest rows also with a since.
ListEventsDesc(since, limit) == Newest(Since(since), limit)

\* ListEvents with a since: the oldest rows after it.  Without: the newest rows.
ListEvents(since, limit) == Oldest(Since(since), limit)
ListNewest(limit) == Newest(DOMAIN table, limit)

DeleteEventsOlderThan(cutoff) ==
    /\ table' = Restrict(table, {i \in DOMAIN table : table[i].at >= cutoff})
    /\ UNCHANGED rowid

-----------------------------------------------------------------------------
Init ==
    /\ now = 0 /\ received = 0 /\ failures = 0 /\ restarts = 0
    /\ pc = "cleanup" /\ canceled = FALSE /\ fpc = "off" /\ back = "select"
    /\ queue = <<>> /\ batch = <<>> /\ table = <<>> /\ rowid = 0
    /\ statuses = [s \in Sessions |-> NoStatus]
    /\ unread = {} /\ cursors = {} /\ seen = {}
    /\ lost = {} /\ fresh = {} /\ unmarked = {}
    /\ truth = [s \in Sessions |-> [status |-> NoStatus, id |-> 0, at |-> 0, life |-> 0]]
    /\ seed = [at |-> 0, whole |-> TRUE]

\* A statement may fail; the code logs it and goes on.
Fails == failures + restarts < MaxFaults /\ failures' = failures + 1

\* A statement under the collector's ctx also fails once that is canceled.
Succeeds == ~canceled /\ UNCHANGED failures
Refused == Fails \/ (canceled /\ UNCHANGED failures)

-----------------------------------------------------------------------------
(* StartEventCollector                                                     *)

\* The sweep at the start, and the passes of cleanupEventsLoop.
StartCleanup ==
    /\ pc = "cleanup" /\ pc' = "seed"
    /\ \/ Succeeds /\ DeleteEventsOlderThan(now - Retention)
       \/ Refused /\ UNCHANGED database
    /\ UNCHANGED <<now, canceled, fpc, back, queue, batch, statuses, unread, received,
                   restarts, client, history>>

CleanupPass ==
    /\ pc # "cleanup" /\ Succeeds
    /\ DeleteEventsOlderThan(now - Retention)
    /\ UNCHANGED <<now, memory, unread, received, restarts, client, history>>

StatusHits(rows, s) == {i \in rows : table[i].session = s /\ HasStatus(table[i])}

\* Faulty variant: session.idle, which carries no status field, is skipped.
SeededNoIdle(rows, s) ==
    LET hits == {i \in StatusHits(rows, s) : table[i].kind = "busy"}
    IN  IF hits = {} THEN NoStatus ELSE "busy"

\* The rows are applied in order, so the last one that carries a status stays.
Seeded(rows, s) ==
    LET hits == StatusHits(rows, s)
    IN  IF hits = {} THEN NoStatus ELSE table[LastRow(hits)].kind

seedSessionStatuses ==
    LET cutoff == now - SeedWindow
        rows == ListEvents(cutoff, SeedLimit)
    IN  /\ pc = "seed" /\ pc' = (IF canceled THEN "wait" ELSE "stream")
        /\ fpc' = "select"
        /\ \/ /\ Succeeds
              /\ statuses' = [s \in Sessions |-> Seeded(rows, s)]
              /\ seed' = [at |-> now, whole |-> rows = Since(cutoff)]
           \/ /\ Refused /\ UNCHANGED statuses
              /\ seed' = [at |-> now, whole |-> FALSE]
        /\ UNCHANGED <<now, canceled, back, queue, batch, database, unread, received, restarts,
                       client, lost, fresh, unmarked, truth>>

Full == Len(queue) >= QueueSize

\* The callback of StreamEvents, which may still find whole events in its
\* buffer after ctx is canceled.  A full queue drops the event.
Receive(s, k) ==
    LET e == [id |-> received + 1, session |-> s, kind |-> k, at |-> now]
    IN  /\ pc = "stream" /\ received < MaxEvents
        /\ received' = received + 1
        /\ statuses' = IF HasStatus(e) THEN [statuses EXCEPT ![s] = k] ELSE statuses
        /\ truth' = IF HasStatus(e)
                    THEN [truth EXCEPT ![s] = [status |-> k, id |-> e.id, at |-> now,
                                               life |-> restarts]]
                    ELSE truth
        /\ queue' = IF Full THEN queue ELSE Append(queue, e)
        /\ lost' = IF Full THEN lost \cup {e.id} ELSE lost
        /\ fresh' = fresh \cup Triggers(<<e>>)
        /\ unmarked' = IF Full THEN unmarked \cup Triggers(<<e>>) ELSE unmarked
        /\ UNCHANGED <<now, pc, canceled, fpc, back, batch, database, unread, failures,
                       restarts, client, seed>>

\* StreamEvents returns: the stream broke, or ctx ended it.
StreamEnds ==
    /\ pc = "stream" /\ pc' = IF canceled THEN "wait" ELSE "backoff"
    /\ UNCHANGED <<now, canceled, fpc, back, queue, batch, statuses, database, unread,
                   counters, client, history>>

\* The select after it.  (A request under a canceled ctx fails at once.)
Reconnect ==
    /\ pc = "backoff" /\ pc' = IF canceled THEN "wait" ELSE "stream"
    /\ UNCHANGED <<now, canceled, fpc, back, queue, batch, statuses, database, unread,
                   counters, client, history>>

\* The deferred receive from flushed.
Exit ==
    /\ pc = "wait" /\ fpc = "done" /\ pc' = "exited"
    /\ UNCHANGED <<now, canceled, fpc, back, queue, batch, statuses, database, unread,
                   counters, client, history>>

-----------------------------------------------------------------------------
(* flushEventsLoop                                                         *)

\* case se := <-queue, of either select.
Take ==
    /\ fpc \in {"select", "drain"} /\ queue # <<>>
    /\ queue' = Tail(queue) /\ batch' = Append(batch, Head(queue))
    /\ IF Len(batch') >= FlushBatch THEN fpc' = "insert" /\ back' = fpc
                                    ELSE UNCHANGED <<fpc, back>>
    /\ UNCHANGED <<now, pc, canceled, statuses, database, unread, counters, client, history>>

\* Faulty variant: the ticker waits for a full batch.
FlushTickFull ==
    /\ fpc = "select" /\ Len(batch) >= FlushBatch
    /\ fpc' = "insert" /\ back' = "select"
    /\ UNCHANGED <<now, pc, canceled, queue, batch, statuses, database, unread, counters,
                   client, history>>

\* case <-ticker.C with something to flush.
FlushTick ==
    /\ fpc = "select" /\ batch # <<>>
    /\ fpc' = "insert" /\ back' = "select"
    /\ UNCHANGED <<now, pc, canceled, queue, batch, statuses, database, unread, counters,
                   client, history>>

\* case <-ctx.Done().
StartDrain ==
    /\ fpc = "select" /\ canceled /\ fpc' = "drain"
    /\ UNCHANGED <<now, pc, canceled, back, queue, batch, statuses, database, unread, counters,
                   client, history>>

\* Faulty variant: no return after the last flush.
EndDrainLoops ==
    /\ fpc = "drain" /\ queue = <<>> /\ batch # <<>>
    /\ back' = "drain" /\ fpc' = "insert"
    /\ UNCHANGED <<now, pc, canceled, queue, batch, statuses, database, unread, counters,
                   client, history>>

\* default: the last flush.
EndDrain ==
    /\ fpc = "drain" /\ queue = <<>>
    /\ back' = "done" /\ fpc' = IF batch = <<>> THEN "done" ELSE "insert"
    /\ UNCHANGED <<now, pc, canceled, queue, batch, statuses, database, unread, counters,
                   client, history>>

\* Faulty variant: the slice is not reset.
FlushedKeeps == fpc' = back /\ UNCHANGED batch

\* The end of flush.
Flushed == fpc' = back /\ batch' = <<>>

\* Faulty variant: a failed INSERT returns at once.
FlushInsertReturns ==
    /\ fpc = "insert"
    /\ \/ InsertEvents(batch) /\ UNCHANGED <<failures, lost>>
          /\ IF Triggers(batch) = {} THEN Flushed ELSE fpc' = "mark" /\ UNCHANGED batch
       \/ Fails /\ UNCHANGED database /\ lost' = lost \cup Ids(batch) /\ Flushed
    /\ UNCHANGED <<now, pc, canceled, back, queue, statuses, unread, received, restarts,
                   client, fresh, unmarked, truth, seed>>

\* The first statement of flush.  One that reports a failure may have taken
\* effect (its ctx has a timeout); either way the batch is not tried again.
FlushInsert ==
    /\ fpc = "insert"
    /\ \/ InsertEvents(batch) /\ UNCHANGED <<failures, lost>>
       \/ Fails /\ InsertEvents(batch) /\ UNCHANGED lost
       \/ Fails /\ UNCHANGED database /\ lost' = lost \cup Ids(batch)
    /\ IF Triggers(batch) = {} THEN Flushed ELSE fpc' = "mark" /\ UNCHANGED batch
    /\ UNCHANGED <<now, pc, canceled, back, queue, statuses, unread, received, restarts,
                   client, fresh, unmarked, truth, seed>>

\* The second: the sessions of the batch, whether it was stored or not.
FlushMark ==
    /\ fpc = "mark" /\ Flushed
    /\ \/ unread' = unread \cup Triggers(batch) /\ UNCHANGED <<failures, unmarked>>
       \/ Fails /\ UNCHANGED unread /\ unmarked' = unmarked \cup Triggers(batch)
    /\ UNCHANGED <<now, pc, canceled, back, queue, statuses, database, received, restarts,
                   client, lost, fresh, truth, seed>>

-----------------------------------------------------------------------------
(* The clients, the clock and the process.                                 *)

\* GET /api/events: the first request comes without since, or with one from
\* before all events; the next ones start from the last row received.
Beginning == -1

Fetch(page, since) ==
    /\ page # {}
    /\ cursors' = cursors \cup since \cup {table[LastRow(page)].at}
    /\ seen' = seen \cup {table[i].id : i \in page}
    /\ UNCHANGED <<now, memory, database, unread, counters, history>>

PollNewest == cursors = {} /\ Fetch(ListNewest(PageLimit), {})

Poll ==
    LET since == IF cursors = {} THEN Beginning ELSE Max(cursors)
    IN  Fetch(ListEvents(since, PageLimit), {since})

\* POST /api/unread/{id}
MarkSessionRead(s) ==
    /\ unread' = unread \ {s}
    /\ fresh' = fresh \ {s} /\ unmarked' = unmarked \ {s}
    /\ UNCHANGED <<now, memory, database, counters, client, lost, truth, seed>>

Tick ==
    /\ now < MaxClock /\ now' = now + 1
    /\ UNCHANGED <<memory, database, unread, counters, client, history>>

\* SIGTERM.
Cancel ==
    /\ ~canceled /\ canceled' = TRUE
    /\ UNCHANGED <<now, pc, fpc, back, queue, batch, statuses, database, unread, counters,
                   client, history>>

\* The events of the process that are not in the table yet.
Unstored == (IF fpc = "mark" THEN <<>> ELSE batch) \o queue

\* The process ends, whether it was told to or not (main does not wait for
\* the collector), and is started again.
Restart ==
    /\ failures + restarts < MaxFaults /\ restarts' = restarts + 1
    /\ pc' = "cleanup" /\ canceled' = FALSE /\ fpc' = "off" /\ back' = "select"
    /\ queue' = <<>> /\ batch' = <<>>
    /\ statuses' = [s \in Sessions |-> NoStatus]
    /\ lost' = lost \cup Ids(Unstored)
    /\ unmarked' = unmarked \cup Triggers(batch \o queue)
    /\ UNCHANGED <<now, database, unread, received, failures, client, fresh, truth, seed>>

CollectorNext ==
    \/ StartCleanup \/ CleanupPass \/ seedSessionStatuses
    \/ \E s \in Sessions, k \in Kinds : Receive(s, k)
    \/ StreamEnds \/ Reconnect \/ Exit

FlusherNext == Take \/ FlushTick \/ StartDrain \/ EndDrain \/ FlushInsert \/ FlushMark

ClientNext == PollNewest \/ Poll \/ \E s \in Sessions : MarkSessionRead(s)

Next == CollectorNext \/ FlusherNext \/ ClientNext \/ Tick \/ Cancel \/ Restart

Spec == Init /\ [][Next]_vars

\* Goroutines that can run do; a canceled ctx ends the stream.
FairSpec ==
    /\ Spec
    /\ WF_vars(FlusherNext)
    /\ WF_vars(StartCleanup) /\ WF_vars(seedSessionStatuses)
    /\ WF_vars(canceled /\ StreamEnds) /\ WF_vars(Reconnect) /\ WF_vars(Exit)

-----------------------------------------------------------------------------
(* An event is stored at most once and in the order of its arrival, across *)
(* batches, failed statements and restarts, and one that is neither stored *)
(* nor on its way was dropped at a full queue, by a failed INSERT, by a    *)
(* restart or by retention.                                                *)
Precedes(e, f) == e.id < f.id /\ e.at <= f.at

Ordered(s) == \A i, j \in DOMAIN s : i < j => Precedes(s[i], s[j])

InOrder ==
    /\ Ordered(table) /\ Ordered(Unstored)
    /\ \A e \in Range(table), f \in Range(Unstored) : Precedes(e, f)
    /\ \A n \in 1..received :
          \/ n \in Ids(table) \cup Ids(Unstored) \cup lost
          \/ \A e \in Range(table) \cup Range(Unstored) : n < e.id

(* A client that pages forward with since misses no row from where it      *)
(* began, except one that shares its timestamp with a cursor (ListEvents). *)
CursorComplete ==
    seen # {} =>
        \A e \in Range(table) :
            (Beginning \in cursors \/ e.id > Min(seen)) =>
                e.id \in seen \/ e.at > Max(cursors) \/ e.at \in cursors

(* A session with new activity since it was last read is flagged, or its   *)
(* event is on the way to the flusher's second statement, or the mark was  *)
(* dropped with a full queue, a failed statement or a restart.  A failed   *)
(* INSERT alone costs no mark.                                             *)
UnreadKept == fresh \subseteq unread \cup unmarked \cup Triggers(batch \o queue)

(* The status the collector holds of a session is that of its last status  *)
(* event, also across restarts: unless that event was lost before it       *)
(* reached the table, left the seeding window, or was not among the rows   *)
(* the seeding read.                                                       *)
Recent(s) == truth[s].id > 0 /\ truth[s].at > seed.at - SeedWindow

Restored(s) == truth[s].id \notin lost /\ seed.whole

StatusKept ==
    pc \notin {"cleanup", "seed"} =>
        \A s \in Sessions :
            (truth[s].id > 0 /\ truth[s].life = restarts) \/ (Recent(s) /\ Restored(s)) =>
                statuses[s] = truth[s].status

(* Every event the flusher may take leaves the queue and the batch, while  *)
(* ctx lives.                                                              *)
Held(i) == i \in Ids(batch \o queue)

Flows == \A i \in 1..MaxEvents : (Held(i) /\ ~canceled) ~> (~Held(i) \/ canceled)

(* A canceled collector returns, after its flusher.  *)
ShutdownEnds == canceled ~> (pc = "exited" \/ ~canceled)

-----------------------------------------------------------------------------
(* The inductive invariant behind the four invariants. *)

TypeOK ==
    /\ now \in 0..MaxClock /\ received \in 0..MaxEvents /\ restarts \in Nat
    /\ pc \in {"cleanup", "seed", "stream", "backoff", "wait", "exited"}
    /\ fpc \in {"off", "select", "drain", "insert", "mark", "done"}
    /\ back \in {"select", "drain", "done"}
    /\ queue \in Seq(Event) /\ batch \in Seq(Event)
    /\ rowid \in Nat /\ DOMAIN table \subseteq 1..rowid /\ table \in [DOMAIN table -> Event]
    /\ truth \in [Sessions -> [status : {NoStatus, "busy", "idle"}, id : 0..MaxEvents,
                               at : 0..MaxClock, life : Nat]]
    /\ statuses \in [Sessions -> {NoStatus, "busy", "idle"}]
    /\ seed.at \in 0..MaxClock
    /\ cursors \subseteq Beginning..MaxClock /\ seen \subseteq 1..MaxEvents

\* The queue and the flusher's slice never outgrow what was made for them.
Slots ==
    /\ Len(queue) <= QueueSize /\ Len(batch) <= FlushBatch
    /\ fpc \in {"select", "drain"} => Len(batch) < FlushBatch
    /\ pc \in {"cleanup", "seed"} <=> fpc = "off"
    /\ fpc = "off" => queue = <<>> /\ batch = <<>>

Alive == Range(table) \cup Range(Unstored)

\* Nothing comes from the future.
Known == \A e \in Alive : e.id <= received /\ e.at <= now

\* A cursor is never ahead of what is still to be stored, and what is ahead of
\* all cursors came after all that was seen.
Polled ==
    /\ cursors = {} <=> seen = {}
    /\ \A c \in cursors : c <= now /\ \A e \in Range(Unstored) : c <= e.at
    /\ \A n \in seen :
        /\ n <= received
        /\ \A e \in Alive : (\A c \in cursors : c < e.at) => n < e.id

Carries(e, s) == e.session = s /\ HasStatus(e)

\* The last status event of a session is stored or on its way, unless it was
\* lost or retention removed it.
TruthKept ==
    \A s \in Sessions :
        /\ truth[s].id <= received /\ truth[s].life <= restarts
        /\ pc \in {"cleanup", "seed"} /\ truth[s].id > 0 => truth[s].life < restarts
        /\ \A e \in Alive : Carries(e, s) => e.id <= truth[s].id
        /\ truth[s].id > 0 =>
              \/ \E e \in Alive : /\ e.id = truth[s].id /\ e.at = truth[s].at
                                 /\ Carries(e, s) /\ e.kind = truth[s].status
              \/ truth[s].id \in lost
              \/ truth[s].at < now - Retention

IInv ==
    /\ TypeOK /\ Slots /\ Known /\ InOrder
    /\ UnreadKept
    /\ Polled /\ CursorComplete
    /\ TruthKept /\ StatusKept

=============================================================================
