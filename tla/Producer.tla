------------------------------ MODULE Producer ------------------------------
(***************************************************************************)
(* The producer process (vm-ingest/ingest_worker.py): it keeps the running *)
(* book in memory, writes every event through to RAW_EVENTS and the        *)
(* recomputed line of its position to POSITION_BOOK, and rebuilds the book *)
(* from RAW_EVENTS when it starts.                                         *)
(*                                                                         *)
(* The handlers are coroutines with blocking bodies, so one request runs   *)
(* at a time; the two writes of a request run in threads.  The pools of    *)
(* the two StreamingService objects appear as StreamContract has them: a   *)
(* stream_row that returns has committed its row, one that raises may have *)
(* left a row that is committed later or lost; a stream_batch that returns *)
(* has only buffered its rows.  A committed row becomes readable later.    *)
(*                                                                         *)
(* Time is the number of timestamps taken.  An event's new mark or rating  *)
(* is its timestamp: every event is recognisable in a book, and of two     *)
(* marks the larger is the later.                                          *)
(***************************************************************************)
EXTENDS Book, Sequences

CONSTANTS
  POSITIONS_DIM,   \* attributes of the positions of the dimension table
  UnknownIds,      \* other position ids that requests carry (/api/debug/probe)
  EventTypes,      \* event types that requests carry
  Batches,         \* bodies of /ingest/batch: sequences of [pos, type]
  Faults,          \* what may go wrong, out of FaultKinds
  MaxClock,        \* timestamps taken in a behaviour (a bound)
  MaxHorizon       \* how many of them may leave the 24 hour window (a bound)

Known == DOMAIN POSITIONS_DIM
Ids == Known \union UnknownIds
FaultKinds == {"crash",         \* the process dies and is started again
               "lag",           \* it is back before its last rows are readable
               "init_fail",     \* lifespan: a pool cannot be opened
               "load_fail",     \* lifespan: POSITIONS_DIM cannot be read
               "hydrate_fail",  \* lifespan: RAW_EVENTS cannot be read
               "raw_error",     \* a write to RAW_EVENTS raises
               "book_error"}    \* a write to POSITION_BOOK raises

Attrs == [baseline : Int \union {Null}, rating : Int \union {Null}, par : Int \union {Null}]

ASSUME ProducerAssumption ==
  /\ IsFiniteSet(Known) /\ POSITIONS_DIM \in [Known -> Attrs]
  /\ Known \intersect UnknownIds = {}
  /\ EventTypes \subseteq {"TRADE", "MARK", "CREDIT_EVENT"}
  /\ Batches \subseteq Seq([pos : Ids, type : {"TRADE", "MARK", "CREDIT_EVENT"}])
  /\ Faults \subseteq FaultKinds
  /\ MaxClock \in Nat /\ MaxHorizon \in Nat

VARIABLES
  phase,      \* "down", "seed" (lifespan, after the pools are open), "serving"
  rawUp,      \* service.channels is not empty
  bookUp,     \* book_service.channels is not empty
  positions,  \* POSITIONS
  BOOK,       \* book.BOOK
  recent,     \* lifespan: positions with an event in the last 24 hours
  todo,       \* lifespan: positions not seeded yet
  marking,    \* lifespan: the position between its book row and its baseline mark
  call,       \* the request in progress
  raw,        \* readable rows of RAW_EVENTS
  book,       \* readable rows of POSITION_BOOK
  rawFly,     \* rows submitted to RAW_EVENTS and not readable
  bookFly,    \* rows submitted to POSITION_BOOK and not readable
  clock,      \* the last timestamp taken
  horizon,    \* timestamps up to this one are older than 24 hours
  acked       \* events answered with a book_flush_committed_ms

memory == << rawUp, bookUp, positions, BOOK, recent, todo, marking >>
tables == << raw, book, rawFly, bookFly >>
vars == << phase, memory, call, tables, clock, horizon, acked >>

Idle == [kind |-> "none"]
Empty == [p \in {} |-> NoAttrs]

Init ==
  /\ phase = "down"
  /\ rawUp = FALSE /\ bookUp = FALSE
  /\ positions = Empty /\ BOOK = Empty
  /\ recent = {} /\ todo = {} /\ marking = {}
  /\ call = Idle
  /\ raw = {} /\ book = {} /\ rawFly = {} /\ bookFly = {}
  /\ clock = 0 /\ horizon = 0
  /\ acked = {}

(***************************************************************************)
(* The two tables (external).                                              *)
(***************************************************************************)
Submitted(rows, flush) == {[row |-> r, flush |-> flush] : r \in rows}

\* wait_for_flush returned for the row: it can no longer be lost.
Sure(fly, row) == {IF f.row = row THEN [row |-> row, flush |-> "seen"] ELSE f : f \in fly}

Pending(table, fly, row) == row \in table \/ \E f \in fly : f.row = row

Land ==
  /\ \/ \E f \in rawFly : /\ raw' = raw \union {f.row}
                          /\ rawFly' = rawFly \ {f}
                          /\ UNCHANGED << book, bookFly >>
     \/ \E f \in bookFly : /\ book' = book \union {f.row}
                           /\ bookFly' = bookFly \ {f}
                           /\ UNCHANGED << raw, rawFly >>
  /\ UNCHANGED << phase, memory, call, clock, horizon, acked >>

\* A row whose call did not return is lost with the channel or the process.
Lose ==
  /\ \/ /\ phase = "down" \/ "raw_error" \in Faults
        /\ \E f \in rawFly : f.flush = "sent" /\ rawFly' = rawFly \ {f}
        /\ UNCHANGED bookFly
     \/ /\ phase = "down" \/ "book_error" \in Faults
        /\ \E f \in bookFly : f.flush = "sent" /\ bookFly' = bookFly \ {f}
        /\ UNCHANGED rawFly
  /\ UNCHANGED << phase, memory, call, raw, book, clock, horizon, acked >>

Age ==
  /\ horizon < MaxHorizon /\ horizon < clock
  /\ horizon' = horizon + 1
  /\ UNCHANGED << phase, memory, call, tables, clock, acked >>

\* WHERE EVENT_TS >= DATEADD('hour', -24, SYSDATE())
Recent == {e \in raw : e.ts > horizon}

(***************************************************************************)
(* lifespan.                                                               *)
(***************************************************************************)
Hydrated(b, ev) ==
  [p \in DOMAIN b |->
     IF p \notin PositionsOf(ev) THEN b[p]
     ELSE ApplyHydrated(b, p, LatestByType(Of(ev, p), "MARK"),
                              LatestByType(Of(ev, p), "CREDIT_EVENT"))[p]]

MayBoot ==
  /\ phase = "down"
  /\ "lag" \in Faults \/ (rawFly = {} /\ bookFly = {})
  /\ clock + Cardinality(Known) <= MaxClock

\* One of the two calls of initialize() raises, in either pool with or without
\* some of its channels open, and everything after it is skipped.
BootFails ==
  /\ MayBoot /\ "init_fail" \in Faults
  /\ phase' = "serving"
  /\ rawUp' \in BOOLEAN /\ bookUp' \in BOOLEAN
  /\ bookUp' => rawUp'
  /\ UNCHANGED << positions, BOOK, recent, todo, marking, call, tables, clock, horizon, acked >>

\* Fault: the book is initialised before POSITIONS is filled.
Boot_BookFirst ==
  /\ MayBoot
  /\ phase' = "seed"
  /\ rawUp' = TRUE /\ bookUp' = TRUE
  /\ positions' = POSITIONS_DIM
  /\ BOOK' = Hydrated(InitBook(positions), Recent)
  /\ recent' = PositionsOf(Recent)
  /\ todo' = Known
  /\ UNCHANGED << marking, call, tables, clock, horizon, acked >>

Boot ==
  /\ MayBoot
  /\ phase' = "seed"
  /\ rawUp' = TRUE /\ bookUp' = TRUE
  /\ \/ positions' = POSITIONS_DIM
     \/ "load_fail" \in Faults /\ positions' = Empty
  /\ \/ /\ BOOK' = Hydrated(InitBook(positions'), Recent)
        /\ recent' = PositionsOf(Recent)
     \/ /\ "hydrate_fail" \in Faults
        /\ BOOK' = InitBook(positions')
        /\ recent' = {}
  /\ todo' = Known
  /\ UNCHANGED << marking, call, tables, clock, horizon, acked >>

AttrsOf(p) == IF p \in DOMAIN positions THEN positions[p] ELSE NoAttrs

SeedRow(p, ts) ==
  [pos |-> p, type |-> "MARK", value |-> AttrsOf(p).baseline, ts |-> ts,
   attrs |-> AttrsOf(p), app |-> "seed"]

\* Fault: every position is seeded at every start.
SeedsBaseline_Always(p) == TRUE

\* A position with an event in the last 24 hours keeps its marks.
SeedsBaseline(p) == p \notin recent

\* One round of the seed loop, first half: the book row of the position.  If the
\* write raises, or the position has a recent event, the round is over.
SeedBook(p) ==
  /\ phase = "seed" /\ marking = {} /\ p \in todo
  /\ clock' = clock + 1
  /\ \E flush \in {"sent", "seen"} :
       /\ flush = "seen" \/ ("book_error" \in Faults /\ p \in DOMAIN BOOK)
       /\ bookFly' = bookFly \union
            IF p \in DOMAIN BOOK THEN Submitted({BookRowFor(BOOK, p, clock')}, flush) ELSE {}
       /\ marking' = IF flush = "seen" /\ SeedsBaseline(p) THEN {p} ELSE {}
  /\ todo' = todo \ ({p} \ marking')
  /\ phase' = IF todo' = {} THEN "serving" ELSE "seed"
  /\ UNCHANGED << rawUp, bookUp, positions, BOOK, recent, call, raw, book, rawFly, horizon, acked >>

\* Second half: the baseline mark, with the timestamp of the book row.
SeedMark(p) ==
  /\ phase = "seed" /\ p \in marking
  /\ \E flush \in {"sent", "seen"} :
       /\ flush = "seen" \/ "raw_error" \in Faults
       /\ rawFly' = rawFly \union Submitted({SeedRow(p, clock)}, flush)
  /\ marking' = {} /\ todo' = todo \ {p}
  /\ phase' = IF todo' = {} THEN "serving" ELSE "seed"
  /\ UNCHANGED << rawUp, bookUp, positions, BOOK, recent, call, raw, book, bookFly,
                  clock, horizon, acked >>

\* _self_heal_loop: the book pool is looked at only if the raw pool is, or came, up.
Heal ==
  /\ phase = "serving"
  /\ \/ ~rawUp /\ rawUp' = TRUE /\ bookUp' \in {bookUp, TRUE}
     \/ rawUp /\ ~bookUp /\ bookUp' = TRUE /\ UNCHANGED rawUp
  /\ UNCHANGED << phase, positions, BOOK, recent, todo, marking, call, tables, clock, horizon, acked >>

\* The process stops or dies at any point; what it kept in memory is gone.
Crash ==
  /\ "crash" \in Faults /\ phase # "down"
  /\ phase' = "down"
  /\ rawUp' = FALSE /\ bookUp' = FALSE
  /\ positions' = Empty /\ BOOK' = Empty
  /\ recent' = {} /\ todo' = {} /\ marking' = {}
  /\ call' = Idle
  /\ UNCHANGED << tables, clock, horizon, acked >>

(***************************************************************************)
(* POST /ingest.                                                           *)
(***************************************************************************)
EventAt(item, ts) ==
  [pos |-> item.pos, type |-> item.type, value |-> ts, ts |-> ts,
   attrs |-> AttrsOf(item.pos), app |-> "vm-hpa"]

\* The request is refused (503) unless service.channels is not empty.
Accepting == phase = "serving" /\ call = Idle /\ rawUp

\* _write_through up to the wait: the book moves before either write is known.
Ingest(p, type) ==
  LET e == EventAt([pos |-> p, type |-> type], clock + 1)
      booked == p \in DOMAIN BOOK /\ bookUp
  IN
  /\ Accepting /\ clock < MaxClock
  /\ clock' = clock + 1
  /\ BOOK' = UpdateBookState(BOOK, e)
  /\ rawFly' = rawFly \union Submitted({e}, "sent")
  /\ bookFly' = bookFly \union
       IF booked THEN Submitted({BookRowFor(BOOK', p, e.ts)}, "sent") ELSE {}
  /\ call' = [kind |-> "raw", event |-> e,
              row |-> IF booked THEN BookRowFor(BOOK', p, e.ts) ELSE Null]
  /\ UNCHANGED << phase, rawUp, bookUp, positions, recent, todo, marking, raw, book, horizon, acked >>

RawOk ==
  /\ call.kind = "raw" /\ Pending(raw, rawFly, call.event)
  /\ rawFly' = Sure(rawFly, call.event)
  /\ call' = IF call.row # Null THEN [call EXCEPT !.kind = "book"] ELSE Idle
  /\ UNCHANGED << phase, memory, raw, book, bookFly, clock, horizon, acked >>

\* The answer is 500; the write to POSITION_BOOK goes on.
RawError ==
  /\ call.kind = "raw" /\ "raw_error" \in Faults
  /\ call' = Idle
  /\ UNCHANGED << phase, memory, tables, clock, horizon, acked >>

BookOk ==
  /\ call.kind = "book" /\ Pending(book, bookFly, call.row)
  /\ bookFly' = Sure(bookFly, call.row)
  /\ acked' = acked \union {call.event}
  /\ call' = Idle
  /\ UNCHANGED << phase, memory, raw, book, rawFly, clock, horizon >>

\* Fault: book_flush_committed_ms is filled in although the write raised.
BookError_Acks ==
  /\ call.kind = "book" /\ "book_error" \in Faults
  /\ acked' = acked \union {call.event}
  /\ call' = Idle
  /\ UNCHANGED << phase, memory, tables, clock, horizon >>

\* Not fatal: the answer is 200 with book_flush_committed_ms null.
BookError ==
  /\ call.kind = "book" /\ "book_error" \in Faults
  /\ call' = Idle
  /\ UNCHANGED << phase, memory, tables, clock, horizon, acked >>

(***************************************************************************)
(* POST /ingest/batch: the rows are stamped in order, then appended one    *)
(* position at a time.  Nothing waits for a flush.                         *)
(***************************************************************************)
BatchCall(rows) == IF rows = {} THEN Idle ELSE [kind |-> "batch", rows |-> rows]

IngestBatch(items) ==
  /\ Accepting /\ clock + Len(items) <= MaxClock
  /\ clock' = clock + Len(items)
  /\ call' = BatchCall({EventAt(items[i], clock + i) : i \in 1 .. Len(items)})
  /\ UNCHANGED << phase, memory, tables, horizon, acked >>

\* by_partition lists the positions in the order of their first rows, and the
\* rows of a position in their own order.
FirstOf(rows) == CHOOSE r \in rows : \A s \in rows : r.ts <= s.ts

BatchGroup ==
  LET group == Of(call.rows, FirstOf(call.rows).pos)
      rest  == call.rows \ group
  IN
  /\ call.kind = "batch"
  /\ rawFly' = rawFly \union Submitted(group, "sent")
  /\ call' = IF bookUp THEN [kind |-> "apply", rows |-> rest, group |-> group,
                             last |-> RowNumberOne(group)]
                       ELSE BatchCall(rest)
  /\ UNCHANGED << phase, memory, raw, book, bookFly, clock, horizon, acked >>

\* update_book_state with the next row of the group.
BatchApply ==
  LET e == FirstOf(call.group) IN
  /\ call.kind = "apply" /\ call.group # {}
  /\ BOOK' = UpdateBookState(BOOK, e)
  /\ call' = [call EXCEPT !.group = @ \ {e}]
  /\ UNCHANGED << phase, rawUp, bookUp, positions, recent, todo, marking, tables, clock, horizon, acked >>

\* One book row for the group, stamped with the time of its last event.
BatchBook ==
  LET p == call.last.pos IN
  /\ call.kind = "apply" /\ call.group = {}
  /\ \/ bookFly' = bookFly \union
          IF p \in DOMAIN BOOK THEN Submitted({BookRowFor(BOOK, p, call.last.ts)}, "sent")
                               ELSE {}
     \/ "book_error" \in Faults /\ bookFly' = bookFly
  /\ call' = BatchCall(call.rows)
  /\ UNCHANGED << phase, memory, raw, book, rawFly, clock, horizon, acked >>

\* stream_batch raises: this group and the ones after it are dropped.
BatchError ==
  /\ call.kind = "batch" /\ "raw_error" \in Faults
  /\ call' = Idle
  /\ UNCHANGED << phase, memory, tables, clock, horizon, acked >>

Next ==
  \/ Land \/ Lose \/ Age
  \/ Boot \/ BootFails \/ Heal \/ Crash
  \/ \E p \in Known : SeedBook(p) \/ SeedMark(p)
  \/ \E p \in Ids, type \in EventTypes : Ingest(p, type)
  \/ RawOk \/ RawError \/ BookOk \/ BookError
  \/ \E items \in Batches : IngestBatch(items)
  \/ BatchGroup \/ BatchApply \/ BatchBook \/ BatchError

Spec == Init /\ [][Next]_vars
-----------------------------------------------------------------------------
Line  == [opening : Int \union {Null}, mark : Int \union {Null},
          rating : Int \union {Null}, par : Int \union {Null}]
Event == [pos : Ids, type : {"TRADE", "MARK", "CREDIT_EVENT"}, value : Int \union {Null},
          ts : Nat, attrs : Attrs, app : {"vm-hpa", "seed"}]
BookRow == [pos : Known, ts : Nat, line : Line]

\* Every variable keeps its type; BOOK knows exactly the loaded positions.
TypeOK ==
  /\ phase \in {"down", "seed", "serving"}
  /\ rawUp \in BOOLEAN /\ bookUp \in BOOLEAN
  /\ positions \in {Empty, POSITIONS_DIM}
  /\ BOOK \in [DOMAIN positions -> Line]
  /\ recent \subseteq Ids /\ todo \subseteq Known /\ marking \subseteq todo
  /\ raw \subseteq Event /\ book \subseteq BookRow
  /\ \A f \in rawFly : f.row \in Event /\ f.flush \in {"sent", "seen"}
  /\ \A f \in bookFly : f.row \in BookRow /\ f.flush \in {"sent", "seen"}
  /\ clock \in 0 .. MaxClock /\ horizon \in 0 .. clock
  /\ acked \subseteq Event
  /\ \/ call = Idle
     \/ call \in [kind : {"raw"}, event : Event, row : BookRow \union {Null}]
     \/ call \in [kind : {"book"}, event : Event, row : BookRow]
     \/ call \in [kind : {"batch"}, rows : SUBSET Event]
     \/ call \in [kind : {"apply"}, rows : SUBSET Event, group : SUBSET Event, last : Event]

\* Nothing is under way, so the tables show all they ever will of the past.
Quiescent == phase = "serving" /\ call = Idle /\ rawFly = {} /\ bookFly = {}

\* book.py: the running book mirrors "bookCte in queries.ts EXACTLY, so all three
\* serving strategies agree".  Once every write has settled, the rows written
\* through are, position by position, the lines rolled up from RAW_EVENTS.
StrategiesAgree == Quiescent => Preagg(book) = Windowed(Recent)

\* The two rollups of RAW_EVENTS are the same book at every moment, whatever rows
\* are missing, NULL or of a position nobody knows.
RollupsAgree == Windowed(Recent) = Optimized(Recent)

\* An answer with a book_flush_committed_ms is a promise: for as long as a restart
\* reads the event back, 24 hours, POSITION_BOOK never shows a mark older than the
\* one it acknowledged, across failed writes and restarts.
NoStaleBook ==
  Quiescent => \A e \in acked :
    e.type = "MARK" /\ e.ts > horizon =>
      e.pos \in PositionsOf(book) /\ Preagg(book)[e.pos].mark >= e.value

\* _hydrate_book_from_raw_events: baselines are seeded only for positions without
\* a recent event "so live marks are never clobbered".
LiveMarksKept ==
  \A s \in raw : s.app = "seed" =>
    ~ \E e \in Recent : e.app # "seed" /\ e.type = "MARK" /\ e.pos = s.pos /\ e.ts < s.ts

\* book.py: "on every event" the producer "mutates BOOK": when /health is "ok" the
\* book it mutates holds every position.
HealthyBookIsFull == phase = "serving" /\ rawUp /\ bookUp => DOMAIN BOOK = Known
=============================================================================
