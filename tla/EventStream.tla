----------------------------- MODULE EventStream -----------------------------
(***************************************************************************)
(* The tail of the job_events ledger (services/event_stream.py): one       *)
(* poller per API engine reads the rows after its cursor and fans them out *)
(* to the bounded queues of the live subscribers of that engine, and a     *)
(* snapshot read pages through the ledger from the start.  A row gets its  *)
(* id when it is inserted and becomes visible when its transaction         *)
(* commits, so rows need not appear in the order of their ids.             *)
(***************************************************************************)
EXTENDS EngineProcess, Sequences, FiniteSetsExt, Functions

CONSTANTS Sub,        \* the live subscribers
          BATCH,      \* rows per poll and per snapshot page
          QUEUE_MAX,  \* rows a subscriber's queue holds
          MaxId       \* bound on the ids of the ledger

ASSUME StreamAssumption == BATCH \in Nat \ {0} /\ QUEUE_MAX \in Nat \ {0}

VARIABLES seq,        \* the last id of the ledger's identity column
          open,       \* ids whose transaction is still open
          ledger,     \* ids of the committed rows
          after_id,   \* after_id[e]: the cursor of the poller of e
          poll,       \* poll[e]: what the poller of e awaits
          sub,        \* sub[c]: the connection of subscriber c
          snap        \* a snapshot read of the ledger

eventVars == <<seq, open, ledger, after_id, poll, sub, snap>>

\* last is the newest row the client was handed, seen every such row; owed are
\* the rows committed while it was connected and missed those it will not get.
Gone == [on |-> {}, queue |-> <<>>, last |-> 0, seen |-> {}, owed |-> {}, missed |-> {}]
NoSnap == [at |-> "idle", after_id |-> 0, seen |-> <<>>, start |-> {}]

Id == 1..MaxId
EventTypeOK ==
    /\ seq \in 0..MaxId
    /\ open \subseteq Id /\ ledger \subseteq Id /\ open \cap ledger = {}
    /\ after_id \in [Engine -> 0..MaxId]
    /\ poll \in [Engine -> {"idle", "head", "page"}]
    /\ \A c \in Sub : /\ sub[c].on \subseteq Engine /\ Len(sub[c].queue) <= QUEUE_MAX
                      /\ sub[c].missed \subseteq sub[c].owed
                      /\ sub[c].missed \cap sub[c].seen = {}
    /\ snap.at \in {"idle", "paging", "done"}

EventInit ==
    /\ seq = 0 /\ open = {} /\ ledger = {}
    /\ after_id = [e \in Engine |-> 0]
    /\ poll = [e \in Engine |-> "idle"]
    /\ sub = [c \in Sub |-> Gone]
    /\ snap = NoSnap

max_event_id == IF ledger = {} THEN 0 ELSE Max(ledger)

-----------------------------------------------------------------------------
(* The ledger: transactions of the whole deployment. *)

record_event ==
    /\ seq < setup.events
    /\ seq' = seq + 1 /\ open' = open \cup {seq + 1}
    /\ UNCHANGED <<procVars, ledger, after_id, poll, sub, snap>>

\* A subscriber is owed the row; one whose poller has passed its id misses it.
commit(i) ==
    /\ open' = open \ {i} /\ ledger' = ledger \cup {i}
    /\ sub' = [c \in Sub |->
                 IF sub[c].on = {} THEN sub[c]
                 ELSE [sub[c] EXCEPT !.owed = @ \cup {i},
                           !.missed = @ \cup {x \in {i} : \E e \in sub[c].on : x <= after_id[e]}]]
    /\ UNCHANGED <<procVars, seq, after_id, poll, snap>>

rollback(i) == open' = open \ {i} /\ UNCHANGED <<procVars, seq, ledger, after_id, poll, sub, snap>>

-----------------------------------------------------------------------------
(* The poller. *)

on(e) == {c \in Sub : e \in sub[c].on}

\* The cursor jumps to the head: what a subscriber was still owed is passed.
Passed(e, head) ==
    [c \in Sub |-> IF c \in on(e)
                   THEN [sub[c] EXCEPT !.missed = @ \cup {i \in sub[c].owed : after_id[e] < i /\ i <= head}]
                   ELSE sub[c]]

to_head(e) ==
    /\ after_id' = [after_id EXCEPT ![e] = max_event_id]
    /\ sub' = Passed(e, max_event_id)

\* _poll_once up to its await: with no listener it only moves the cursor.
poll_once(e) ==
    /\ proc[e].events = "running" /\ poll[e] = "idle"
    /\ poll' = [poll EXCEPT ![e] = IF on(e) = {} THEN "head" ELSE "page"]
    /\ UNCHANGED <<procVars, seq, open, ledger, after_id, sub, snap>>

\* The first BATCH rows after an id, in id order.
page_after(id) ==
    LET rows == {i \in ledger : i > id}
    IN  [n \in 1..Min({BATCH, Cardinality(rows)}) |->
            CHOOSE i \in rows : Cardinality({k \in rows : k < i}) = n - 1]
events_since(e) == page_after(after_id[e])

\* put_nowait, dropping the oldest row of a full queue.
put_nowait(s, i) ==
    IF Len(s.queue) < QUEUE_MAX THEN [s EXCEPT !.queue = Append(@, i)]
    ELSE [s EXCEPT !.queue = Append(Tail(@), i),
                   !.missed = @ \cup ({Head(s.queue)} \cap s.owed)]

\* put_nowait of each row in turn: the newest QUEUE_MAX rows stay.
fan_out(s, rows) ==
    LET all == s.queue \o rows
        drop == Max({0, Len(all) - QUEUE_MAX})
    IN  [s EXCEPT !.queue = SubSeq(all, drop + 1, Len(all)),
                  !.missed = @ \cup ({all[n] : n \in 1..drop} \cap s.owed)]

\* The cursor after a page: its last row, so that the next poll goes on there.
cursor_at_head(rows) == max_event_id
cursor_at_first(rows) == Head(rows)
cursor(rows) == rows[Len(rows)]

poll_done(e) ==
    /\ poll[e] # "idle"
    /\ trip_works
    /\ IF poll[e] = "head" THEN to_head(e)
       ELSE IF events_since(e) = <<>> THEN UNCHANGED <<after_id, sub>>
       ELSE /\ after_id' = [after_id EXCEPT ![e] = cursor(events_since(e))]
            /\ sub' = [c \in Sub |-> IF c \in on(e) THEN fan_out(sub[c], events_since(e)) ELSE sub[c]]
    /\ poll' = [poll EXCEPT ![e] = "idle"]
    /\ UNCHANGED <<setup, proc, stops, seq, open, ledger, snap>>

\* A poll fails: the next one reads from the same cursor.
poll_fails(e) ==
    /\ poll[e] # "idle"
    /\ trip_fails
    /\ poll' = [poll EXCEPT ![e] = "idle"]
    /\ UNCHANGED <<setup, proc, stops, seq, open, ledger, after_id, sub, snap>>

-----------------------------------------------------------------------------
(* The readers. *)

\* A connection of the SSE endpoint or of StreamEvents; it begins "now".
subscribe(c, e) ==
    /\ proc[e].http = "serving" /\ sub[c].on = {} /\ "tail" \in setup.calls
    /\ sub' = [sub EXCEPT ![c] = [Gone EXCEPT !.on = {e}]]
    /\ UNCHANGED <<procVars, seq, open, ledger, after_id, poll, snap>>

\* queue.get(): the row goes to the client.
get(c) ==
    /\ sub[c].queue # <<>>
    /\ sub' = [sub EXCEPT ![c].queue = Tail(@), ![c].last = Head(sub[c].queue),
                          ![c].seen = @ \cup {Head(sub[c].queue)}]
    /\ UNCHANGED <<procVars, seq, open, ledger, after_id, poll, snap>>

unsubscribe(c) ==
    /\ sub[c].on # {}
    /\ sub' = [sub EXCEPT ![c] = Gone]
    /\ UNCHANGED <<procVars, seq, open, ledger, after_id, poll, snap>>

\* StreamEvents(snapshot=true): pages from id 0 until a short one.
snapshot_begins ==
    /\ snap.at = "idle" /\ "snapshot" \in setup.calls
    /\ snap' = [NoSnap EXCEPT !.at = "paging", !.start = ledger]
    /\ UNCHANGED <<procVars, seq, open, ledger, after_id, poll, sub>>

exhausted(rows) == Len(rows) < BATCH

snapshot_for_ctx ==
    LET rows == page_after(snap.after_id)
    IN  /\ snap.at = "paging"
        /\ snap' = [snap EXCEPT !.seen = @ \o rows,
                                !.after_id = IF exhausted(rows) THEN @ ELSE rows[Len(rows)],
                                !.at = IF exhausted(rows) THEN "done" ELSE "paging"]
        /\ UNCHANGED <<procVars, seq, open, ledger, after_id, poll, sub>>

\* A step of the process: the connections and the poller of an engine end with
\* its tasks, and the cursor with its memory.
EventsFollow ==
    LET up(e) == proc'[e].at = "group"
    IN  /\ poll' = [e \in Engine |-> IF up(e) THEN poll[e] ELSE "idle"]
        /\ after_id' = [e \in Engine |-> IF up(e) THEN after_id[e] ELSE 0]
        /\ sub' = [c \in Sub |-> IF \A e \in sub[c].on : up(e) THEN sub[c] ELSE Gone]
        /\ UNCHANGED <<seq, open, ledger, snap>>

\* start(): a fresh engine begins at the head.
start(e) ==
    /\ events_start(e)
    /\ IF proc'[e].events = "running"
       THEN to_head(e) /\ UNCHANGED <<seq, open, ledger, poll, snap>>
       ELSE EventsFollow

EventOwn(e) == poll_once(e) \/ poll_done(e) \/ poll_fails(e)
EventNext ==
    \/ record_event
    \/ \E i \in open : commit(i) \/ rollback(i)
    \/ \E e \in Engine : EventOwn(e)
    \/ \E c \in Sub, e \in Engine : subscribe(c, e)
    \/ \E c \in Sub : get(c) \/ unsubscribe(c)
    \/ snapshot_begins \/ snapshot_for_ctx

-----------------------------------------------------------------------------
(* Properties. *)

\* A subscriber gets its rows in id order and none twice, through failed
\* polls, full queues and rows that commit out of order.
RowsInOrder ==
    \A c \in Sub : LET rows == <<sub[c].last>> \o sub[c].queue
                   IN  \A n \in 1..Len(rows) - 1 : rows[n] < rows[n + 1]

\* A row committed while a subscriber is connected reaches it, unless it fell
\* to one of the three known causes: a full queue, a cursor that had passed
\* its id, or a poll for the head that was under way when it connected.
RowReaches ==
    \A c \in Sub : \A i \in Id :
        i \in sub[c].owed ~> i \in sub[c].seen \cup sub[c].missed \/ i \notin sub[c].owed

\* A snapshot that ends has handed out every row that was there when it began,
\* in order, however the ledger grew meanwhile.
SnapshotComplete ==
    snap.at = "done" =>
        /\ snap.start \subseteq Range(snap.seen)
        /\ \A n \in 1..Len(snap.seen) - 1 : snap.seen[n] < snap.seen[n + 1]
=============================================================================
