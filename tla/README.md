# A TLA+ model of the ACME Credit streaming dashboard

The program streams credit events into two Snowflake interactive tables through a
producer on a VM (`vm-ingest/`, Python) and serves a live desk from them (`web/`,
Next.js with a custom server). This directory holds its model: TLA+ modules, the
configurations TLC checks, and theorems TLAPS proves.

## 1. Inventory

| Part | Code | State | Operations | Hard because |
|---|---|---|---|---|
| Channel pool | `vm-ingest/streaming_service.py` | list of channels, `_recovering` | `initialize`, `stream_row`, `stream_batch`, `_recover_channel`, `shutdown` | threads share the channels; a channel breaks between append and flush; retries |
| Position book | `vm-ingest/book.py` | `BOOK`, one line per position | `init_book`, `apply_hydrated`, `update_book_state`, `book_row_for` | must be what three SQL queries compute |
| Serving strategies | `web/src/server/queries.ts` | none | `bookCte`, `book_summary_windowed/optimized/preagg` | NULLs, ties, 24 hour window |
| Producer | `vm-ingest/ingest_worker.py` | `POSITIONS`, `BOOK`, the two pools | start (init, load, hydrate, seed), `/ingest`, `/ingest/batch`, self-heal loop | two writes of which one may fail; crash between any two steps; visibility lag |
| Reader | `web/src/server/snowflake-reader.ts` | hashes, snapshot, timer | `start`, `poll` | polls overlap and wait in the middle |
| Broker, custom server | `web/src/server/ws-broker.ts`, `web/server.js`, `web/src/app/api/warmup` | map of sockets | register, broadcast, upgrade, warmup | two module graphs share globals; tabs come between a hash and a message |
| Ingest routes, VM proxy | `web/src/app/api/ingest*`, `web/src/server/vm-proxy.ts` | cached tunnel host and key | optimistic broadcast, forward, visibility probes | 15 s timeout against a commit; host rotation |
| Tunnel self-healing | `ingest_worker.py`, `setup.sql`, `vm-proxy.ts`, `api/health`, `deploy-app.sh` | host in `APP_CONFIG`, `last_host` | register host, refresh after 60 s | must converge after a rotation |
| Browser store, WebSocket client | `web/src/lib/store.ts`, `web/src/lib/ws.ts` | tape, tiles, latency bars, dedupe set, socket | one action per message, reconnect | five sources write the same rows in any order |
| Desk page | `web/src/app/desk/page.tsx`, `api/snapshot*`, `api/observability` | timers, view, error count | poll, change of view, time travel | answers of an old view; polls overlap |
| Serving comparison | `api/serving-compare`, `ServingStrategyComparison.tsx`, `app/demo/page.tsx` | last verdict | poll, compare | three reads one after another while the tables change |
| Latency bars and statistics | `MarketSimulator`, `EventGenerator`, `InteractiveLatency`, `lib/liveStats.ts` and the panels | bars, samples | measure, back-fill, rank | several clocks; parts must add up, in whatever order they come |
| Agent chat | `AgentChat.tsx`, `api/agent/stream`, `server/agent-proxy.ts` | two stream buffers, messages | ask, parse, append, clear | streams cut anywhere, broken at any point |
| Snowflake client | `web/src/server/snowflake-client.ts` | none | one request per query | the service may fail or be slow |
| Display, DDL, deployment | remaining components, `setup.sql`, scripts, `terraform/` | none at run time | | |

How they meet. A click goes to `/api/ingest`, which tells the broker (optimistic
message), forwards to the producer through the tunnel, tells the broker again
(verified), and lets two probes wait for the row to be readable in either table
(it_visible). The producer applies the event to `BOOK` and hands the event to the pool
of `RAW_EVENTS` and the new line of the position to the pool of `POSITION_BOOK`, in two
threads. Both tables become readable about a second later. The reader of the web
server queries them every 200 ms and broadcasts the tiles that changed; the desk
also polls snapshots. In the tab, the messages, the answers and the polls all write the
same store, from which every panel works out its own numbers.

The hazards of this code are listed, each at its line, in `PROJECT.json`.

## 2. Modules

| Module | Models | Depends on |
|---|---|---|
| `StreamContract` | what a pool promises its callers | |
| `StreamingService` | the pool, thread by thread | checked to implement `StreamContract` |
| `Book` | `book.py` and the book queries, as operators | |
| `Producer` | the producer process and the two tables | extends `Book`; uses the pools as `StreamContract` has them |
| `SnowflakeReader` | reader, broker and custom server | |
| `IngestContract` | what `/api/ingest` promises the tabs of one event | |
| `Ingest` | the route, the proxy, its probes, the tunnel and the healing of its host | checked to implement `IngestContract` |
| `DashboardStore` | the reducers of tape and bars, as operators | |
| `Dashboard` | one tab: socket client, generator, snapshot poll | extends `DashboardStore`; its server is `IngestContract` |
| `Desk` | views, polls and error count of the desk page | |
| `ServingCompare` | route and panels of the comparison | |
| `AgentChat` | question, proxy, route, page | |
| `LatencyViews` | every number worked out from the bars, as operators | |
| `LatencyLab` | how the bars come to be | extends `LatencyViews`, `DashboardStore` |
| `Pages` | the last four state machines, one followed at a time | instances of them |
| `PagePartsProofs` | theorems on `ServingCompare`, `AgentChat` and `LatencyLab` | |
| other `*Proofs` | theorems on the module of that name | |
| `MC*` | constants of the TLC runs | |

### StreamingService

A call is one `stream_row` or `stream_batch`; calls carry the number in which they
are submitted, which stands for their rows. Every thread has a program counter with
one value per point where another thread can get in between: before the append,
between append and `wait_for_flush`, in the flush, before the lock of
`_recover_channel`, after the close, after the reopen. `gen` counts the channel
objects a slot has held: `wait_for_flush` reads `self.channels[partition]` again, so a
thread may wait on another channel than the one it appended to (`waitsOn`).
`_hash_to_partition` is the constant `PartitionOf`; only its being a function of the
key matters.

The SDK is external: rows are buffered per channel and committed in order; a channel
that breaks or is closed loses its buffer; a flush returns when the buffer of its
channel is empty. `CallersOverlap` says whether two calls of a partition may run at
once. For the pool of `RAW_EVENTS` they do not: the handlers of the single uvicorn
worker are coroutines that block, so a request ends before the next begins, and they
wait for the raw write. For `POSITION_BOOK` they may: when the raw write raises, the
handler returns 500 without waiting for the book write.

### Book and Producer

`Book` gives the same events to four definitions: `UpdateBookState` (the running
book), `Windowed` (window functions), `Optimized` (GROUP BY and MAX_BY) and `Preagg`
(rows written through). Attributes no computation reads are dropped. So is
the P&L, which the producer and the three queries compute in one way from the mark, the
opening price and the par of a line; that `book.py` and the queries round it to cents
separately is not modelled.

`Producer` has the whole life of the process: a start in its order (pools, dimension,
book, hydration, one seed round per position, in which the book row comes first,
`SeedBook`, and the baseline mark after it, `SeedMark`), a request with its two writes,
a batch group by group (`BatchGroup` submits the rows of a position, `BatchApply`
applies one of them to the book, `BatchBook` submits the line), the channel watchdog,
and a crash at any point, which loses the memory and leaves the rows in flight. A row is
in flight (`rawFly`, `bookFly`) until it is readable; its `flush` is `"seen"` once its
flush returned, after which it cannot be lost. `Faults` names what may go wrong in a
run. Timestamps are taken from one clock, never twice the same (the code has
microseconds and one request at a time). The new mark or rating of an event is its
timestamp, so that every event can be recognised in a book. A batch row takes its
timestamp when the batch is parsed; the rows of a batch have increasing ones.

### SnowflakeReader

The content of a tile is a value per database version, and equal to its hash: fields
that the stable hashers leave out are left out. A poll starts (`Poll`), its four
queries are answered (`Answered`), or, if the KPI row changed, it records the KPI hash,
broadcasts the tape and waits again (`AnsweredKpi`, `KpiAnswered`). Up to `Slots` polls
run at once and each query answers with any version since its poll began, so answers
arrive out of order. `view` is what each tab received last. `Restart` replaces the
container; `warmup` is the one request that starts the poll loop.

### IngestContract and Ingest

`IngestContract` is the life of an event as a tab may know it: announced, then verified
(only once it is committed) or given up; its visibility told once per table, as
confirmed only if a query could see it. A given-up event may be committed all the same.

`Ingest` runs the route: `ensureConfig()` in the three steps between which others get in
(`Fire`, `ReadConfig`, `UseConfig`), the call of the producer (`Deliver`, `VmEnds`,
`Commit`), the answer, the failure and the deadline of 15 s (`Verify`, `Fail`,
`TimeOut`), and one step per read of a probe (`Probe`). An answer can only come over a
tunnel that is still there (`Answered`). The tunnel moves (`Rotate`), alone or with the
producer; the self-heal loop reads the host, registers it and remembers it in separate
steps (`HealRead`, `HealRegister`); a deployment writes the host its `.env` holds
(`Redeploy`). `Health` is the health route, which asks the cached host. `Forget` lets the
next event take the place of one that is over, so that the two events of a run stand for
a stream of them.

### DashboardStore and Dashboard

The reducers are operators on sequences: a tape row is `[id, status]`, a bar
`[id, source, vm, it, render]`. `Dashboard` applies them. The server is the contract with
a broadcast at each step that has one; a message reaches the sockets that are open.
WebSocket objects are kept apart from `wsRef`, because `onclose` clears the ref of
whichever is current. `Replay` is the effect run again with the same refs. The pushed
rows of the tape are keyed by position and time, so that they never match an id (`-e`
for event `e`); the polled ones do. `Others` are events of other writers, which only the
table tells of. The dedupe set is modelled without its cap of 200, which two events do
not reach.

### Desk, ServingCompare, AgentChat, LatencyLab and Pages

The components that call routes of their own share no state, so `Pages` chooses one
(`part`) and leaves the others at rest; its runs follow each in turn.

`Desk`: a slot is a fetch under way with the view it was asked for and whether its
closure is alive. The content of a tile is the view (or the push) it came from and the
version of the database it shows. `Switch` is the cleanup of the effect and the effect
again. `failedHere` remembers the failures of the chosen view, to compare with the
error count.

`ServingCompare`: the totals of a strategy are the version of the table it reads; the
three reads are separate steps, each with the fall-back to the other warehouse.

`AgentChat`: a line of the agent is two halves, its text and its newlines, and a read
takes any number of halves, so that text and end of a line may come apart. An event of
the agent has its JSON in one data line: the proxy joins several with newlines before it
parses them, and two whole documents so joined are none, so the model drops the event;
one document spread over lines is left out. The parsers are recursive functions over the
lines a read ends (`Through`). `Answer` computes from the whole script what the page
should show.

`LatencyLab`: a profile says how long each piece of work of an event really takes, and
every clock of the code shows a sum of such pieces (`PostTotal`, `ServerTotal`,
`HandlerOf`). The simulator, the generator and the "Fire & measure" widget post events;
messages, answers and paints make and complete the bars. `LatencyViews` then has what
each panel computes: percentiles, the stack, the reconciliation, the freshness of the
strategies, the health line, the doc table, the swim lanes and the verdict. Sorting is
defined by rank: at place `i` is the number with fewer than `i` numbers below it and at
least `i` up to it (`Below`, `UpTo`); filters are `Only` of `DashboardStore`. The
widgets stay mounted: a page left and opened again loses the samples of the "Fire &
measure" widget and keeps the bars in the store, and the clause of `PanelsAgree` that
compares the two is about pages that stay.

## 3. Runs

`CHECK_DEADLOCK FALSE` is in every configuration, because every model is finite: the
calls, the clock, the versions and the faults run out.

| Run | Shows | Bounds, and why they are enough |
|---|---|---|
| `pool_serial` | acknowledged rows are in the table, partitions keep call order, the pool implements `StreamContract` | 2 threads; a partition with a row call and a batch, a second partition; 3 attempts, 3 faults: a retry of one partition beside a call of the other, three failures in one call |
| `pool_live` | recovery is exclusive, `_recovering` is released, calls return, an empty pool is reopened | 2 overlapping calls of one partition, 3 attempts, 2 faults, shutdown at any time: two threads find the same break and the repair fails |
| `producer_agree` | `POSITION_BOOK` is the rollup of `RAW_EVENTS`, line by line | two positions, 6 timestamps: seeds, an event or a batch, a crash at any point of it, seeds again; a batch whose groups interleave, one that mixes a mark and a rating |
| `producer_faults` | the two rollups are one book; no book line older than an acknowledged mark; no seed over a live mark | one known and one unknown position, trades and marks, a batch of two, 4 timestamps, all failures but lag and hydration, the window moving by 2, over two of them |
| `reader_safety` | what is recorded as sent was sent; a broadcast means a change; tiles converge | 2 tabs, 2 polls, 2 versions, 1 fault: late answers bring the old content back; a tab comes, goes or stays while the other is served |
| `ingest` | the route implements `IngestContract`; a known host is kept; while users post, the dashboard finds a rotated host; every POST ends | 2 events (symmetric in effect, reused without end), 1 probed table, 1 rotation, 1 redeployment, 2 failures, 2 reads of a probe: a POST that reads the host before a rotation and uses it after, beside one that refreshes the cache |
| `dash` | one connection; one row and one bar per event; green rows are committed; measured bars stay; the tab reconnects; the tape converges | an own event and one of another writer, a tape and a chart of 2, 2 sockets, 1 poll, 1 loss, 1 replay, 1 push: every pair of the five channels meets in both orders |
| `pages` | the desk shows its view and converges, the banner goes away, time travel arrives; the verdict of the comparison settles; an answer of the agent is whole and ends; bars add up and the panels agree | desk: 2 fetches, 1 change of the tables, 1 failure, 2 changes of view, 1 push, a banner after 1; comparison: 2 requests, 1 mark, 2 failures, 1 new mount; chat: three scripts, 2 questions, pieces of up to 3 halves, 1 break; latency: 2 events with unlike profiles, 1 loss of the socket |

The bounds are small because each property needs at most two actors and two failures to
go wrong; a larger instance repeats the same encounters. The mutants listed in
`PROJECT.json` show that each property fails within these bounds when the code is
changed in one plausible place. Their definitions stand, marked "Fault:", before the
definition they replace, and no run uses them.

Fairness is stated on what the code itself drives. In the pool: the watchdog's
`initialize`, the steps of a thread inside a call (bounded retries, `wait_for_flush`
with its timeout), and the SDK's commits. In the reader: the timers (warmup, poll), the
answer of a query (which may also be a failure), the close event of a lost socket, and
the reconnect of a tab. In `Ingest`: what follows a POST (`Serve`: its awaits end, the
call of the producer by its deadline), the commit of a row the producer took, the minute
of the cache, the self-heal loop and the health poll; nothing makes a row visible, and
nothing makes anybody post. That users go on posting is the hypothesis `PostsArrive` of
`SelfHeals`: only a POST reads `APP_CONFIG` again, and without one the new host is not
found (see the table below). In
`Dashboard`: the handshake, the close event, the timer, the handling of a message, and
the poll. In `Pages`: every request is answered or fails and what follows its await
runs; the intervals of the desk and of the comparison fire; a stream goes on, ends or
breaks. The two intervals of the desk share the slots of the model, and strong fairness
stands for each of them finding one. No fairness makes a call arrive, a failure happen,
the process stop or the database change. `LatencyLab` has only safety properties.

### Where the code and its documentation part

Each of these runs is expected to find a violation; `PROJECT.json` quotes the text.

| Run | What happens |
|---|---|
| `pool_lost_ack` | a flush waits on the channel another call has just opened and acknowledges a lost row |
| `producer_empty_book` | a start healed by the watchdog has no book |
| `reader_kpi` | a KPI hash recorded before a failed query silences the KPI tile |
| `latency_recon` | a `verified` message after the HTTP answer puts the tunnel time into a client bar, where the reconciliation counts it a second time |

The other disagreements we met bound what the passing runs may claim. They are why a
switch is off, a property has a hypothesis, or a property is not stated:

| Behaviour | Seen by |
|---|---|
| a failed raw write leaves its event, or its seed, in the book (`ingest_worker.py:261`, `:389`) | `producer_agree` with `"raw_error"` in `Faults`: `StrategiesAgree` fails |
| a position silent for 24 hours leaves the two rollups and stays in `POSITION_BOOK` (`queries.ts:46`) | `producer_agree` with `MaxHorizon` 2: `StrategiesAgree` fails |
| probe positions (`api/debug/probe/route.ts:31`) are in two strategies of three | `producer_agree` with `probe` in `UnknownIds`: `StrategiesAgree` fails |
| a restart within the visibility lag seeds over a live mark (`ingest_worker.py:369`) | `producer_faults` with `"lag"`: `LiveMarksKept` fails |
| a failed hydration seeds every position (documented, `ingest_worker.py:102`) | `producer_faults` with `"hydrate_fail"` |
| a retry after commit appends the row again (`streaming_service.py:185`) | `StreamContract` allows up to `MaxCopies` rows per call |
| a pool opened half way answers healthy and is never completed: the watchdog retries an empty pool only (`streaming_service.py:84`, `ingest_worker.py:339`); the comment at `:417` says that it is retried | `pool_live` with two partitions and the property `FailedStartIsRetried`, which fails |
| after a rotation the health route asks the old host until somebody posts (`api/health/route.ts:22`); `README.md:727` says that the application reads `APP_CONFIG` again every minute | `ingest` with the property `HealthFindsHost`, which fails: hence the hypothesis `PostsArrive` of `SelfHeals` |
| a lost warmup leaves connected tabs without a poll loop (`server.js:85`) | `WarmupLost`; `TilesConverge` assumes that the loop runs |
| a deployment with an old `.env` overwrites the registered host, and the producer does not register it again (`deploy-app.sh:160`) | `Redeploy`: the hypothesis of `SelfHeals` |
| an event that was given up may be committed; its optimistic row stays pending until it leaves the tape, unless a poll has its id (`route.ts:100-190`) | `IngestContract`; `TapeConverges` keeps unmatched pending rows |
| pushed rows carry other ids than the events (`snowflake-reader.ts`, `mapTapeRows`), so a push never confirms a pending row, which the comment there says it does; the next poll does | `PushTape`, `TapeConverges` |
| the close of an old socket clears the ref of the new one, and a replayed effect can leave two live sockets (`ws.ts:184`) | `Close`, `Replay`: the hypothesis of `OneConnection` |
| with the preview off, the optimistic message still adds its row (`ws.ts:92`) | `Optimistic` beside `Answer` |
| a client bar that takes the place of a ws bar loses a visibility word told before it (`store.ts:219`) | `AddLatencyBar`; `SegmentsAddUp` speaks of bars whose row was seen |
| a tab that misses `verified` keeps a bar without VM times | `Cut`, and `missed` in `SegmentsAddUp` |
| pushes overwrite the historic tiles of time travel, and its one fetch is not retried (`desk/page.tsx:154-200`) | the hypotheses of `PastIsShown` |
| a failed query of the snapshot shows a default in an answer that is ok (`api/snapshot/route.ts:96`) | `QueryFails`; `TilesConverge` says that it does not stay |
| Clear during an answer makes the next delta throw (`AgentChat.tsx:233`) | `gone`; `AnswerIsWhole` speaks of chats not cleared |
| the tail of an agent stream without its blank line is not looked at, and an event without a type takes that of the one before (`agent-proxy.ts:174`) | `ProxyEnds`, `ProxyLine`; `Answer` follows the same rules |
| the hop of the simulator is added to a median over all bars, client bars with their network included (`MarketSimulator.tsx:68`) | `ClickToVisualized`; `PanelsAgree` compares it for simulator bars |
| the doc table and the swim lanes count bars whose row was never seen | `LiveDocStats`, `SwimLanes`; `PanelsAgree` compares confirmed bars |

## 4. Proofs

| Theorem | For |
|---|---|
| `StreamingServiceProofs!TypeCorrect`, `RecoveryIsExclusive` | any threads, partitions, calls, faults |
| `AckedRowsAreCommitted`, `PartitionIsOrdered`, `PoolImplementsContract` | the same, if `~CallersOverlap` |
| `ProducerProofs!WindowedIsOptimized` | any set of events, timestamps distinct within a position |
| `RollupFollowsBook` | any book, events and one later event |
| `TypesKept`, `RollupsAlwaysAgree` | any positions, events, batches, failures, clocks |
| `HealthyBooksAreFull` | the same, without `"init_fail"` and `"load_fail"` |
| `StartsKeepLiveMarks`, `AcknowledgedMarksStay` | any of them, without `"lag"` and `"hydrate_fail"` |
| `BooksAgree` | crashes the only failures, known positions, until the first row is older than 24 hours |
| `SnowflakeReaderProofs!TypeCorrect`, `RecordedHashesAreShown`, `ConnectedTabsShowTheSnapshot`, `OpenSocketsAreRegistered`, `OnlyChangesAreBroadcast` | any tabs, polls, contents, faults |
| `IngestProofs!TypeCorrect`, `LastGoodIsKept`, `PathImplementsContract` | any events, tables, reads, rotations, redeployments, failures |
| `DeskProofs!DeskTypeCorrect`, `OnlyTheViewIsShown` | any finite set of fetches, any failures, changes of view, pushes |
| `PagesProofs!PagesShowTheirView` | the same, with the desk among the other components of `Pages` |
| `PagePartsProofs!LabTypeCorrect`, `BarsAddUp` | any finite set of events, any times of their work, any samples, losses |
| `AscendingSorts`, `PercentilesInOrder` | any numbers, any count of them |
| `PanelsOfBarsAgree` | as `BarsAddUp`, if `SERVED_SAMPLES = MAX_LATENCY_BARS` |
| `ReconMissesTransportOnly` | as `BarsAddUp` |
| `ChatTypeCorrect`, `TheAnswerIsWhole` | any set of scripts of the agent, any questions, pieces, breaks |
| `ServingTypeCorrect` | any requests, marks, failures |
| `PagesProofs!SegmentsOfPagesAddUp`, `PanelsOfPagesAgree`, `AnswerOfPagesIsWhole`, `PagesTypeCorrect` | the same, with each part among the other components of `Pages` |
| `DashboardProofs!TypeCorrect`, `ConnectionIsOne`, `MeasuredBarStays`, `EveryEventOnce`, `GreenRowsAreCommitted` | any events, sockets, messages, losses, lengths of tape and chart |

The assumptions are the named ones of the modules (`PoolAssumption`, `NullAssumption`,
`ProducerAssumption`, `ReaderAssumption`, `IngestAssumption`, `StoreAssumption`,
`DashboardAssumption`, `PagesAssumption`, and `DeskAssumption`, `AgentAssumption`
and `LabAssumption`, hypotheses of the theorems about `Desk`, `AgentChat` and `LatencyLab`
that `PagesAssumption` gives);
TLC evaluates them in every run.

*Pool.* Exclusive recovery is inductive once it says which threads are past the lock and
that `_recovering` is the set of their partitions. The other two need the invariant
that, without overlap, a busy thread is the only one of its partition; that everything
in a buffer belongs to calls not later than the busy one, in order, after everything in
the table; and that a thread between append and the end of its flush has its row in the
buffer or the table, or its channel is no longer the one it waits on. The last part is
what fails when calls overlap. The refinement of `StreamContract` maps calls, tables and
outcomes to themselves. Its bound on copies (`CopiesBounded`) counts the appends of a
call: the rows it has in the buffer and in the table of its partition are at most the
appends it has behind it, hence at most the attempts; a commit only moves a row from one
to the other, and may do so when the call is long over. With `AckedRowsCommitted` for
the calls that return, every step of the pool is one step of the contract, or leaves its
variables alone.

*Book.* Both rollups are expressed through the event with the largest timestamp: keying
MAX_BY by the timestamp of the rows of one type selects the row that ROW_NUMBER numbers
first among them. `RollupFollowsBook`: apply an event to the book and add it to the
table, and the line of its position is still the rollup.

*Producer.* `TypeInv` adds to `TypeOK` that every row, in a table, on its way or in the
hands of a request, is stamped by now (`Stamped`), which makes timestamps distinct within
a position and gives `RollupsAgree` at once; and that the rounds a start has left fit the
clock. The other results rest on three invariants, each with the positions still to be
seeded as the hard case:

- `LiveInv`: a seed is later than another row of its position only if that row is older
  than 24 hours, because a start takes only positions of which it read nothing recent
  (`recent`), and the rows of a request carry stamps taken after the last seed. With lag
  or a failed hydration that is false, and so is `LiveMarksKept`.
- `PromiseInv`: an event is promised from the submission of its line until its request
  fails, and for good once it is acknowledged. Then neither of its rows can be lost any
  more; while it is in the window (`Fresh`), `BOOK`, wherever it has the position, shows a
  mark at least as late, and so does every line submitted with it or after it. A restart
  keeps that, because it hydrates from a table that has the event. Older than the window,
  a restart falls back to the baseline, as the code means to, and `NoStaleBook` says
  nothing of it.
- `AgreeInv`: while nothing has left the window, each line of `BOOK` is the rollup of the
  rows applied to it (`Lined`), a row being applied after it was submitted, and the latest
  row of `POSITION_BOOK` shows the line (`Published`), except for the position whose row is
  about to be written or seeded. A crash loses the book but no submitted row, and the next
  start reads the same rollup. At rest the exceptions are gone and the tables agree.
  `"raw_error"`, unknown positions and the window each break it; see the table above.

*Reader.* `HashedIsShown` and `SnapshotIsShown` are proved together with
`OpenIsRegistered` and the fact that a recorded hash of a plain tile is the cached
content; the KPI tile is the exception, and has only the second property. The same fact
gives `BroadcastOnChange`: what differs from the hash differs from the cache.

*Ingest.* The refinement mapping is the identity on the four variables of the contract.
What has to be known is what the program counter of a POST, the producer and the probes
say of the phase of its event (`PathInv`): a POST between its announcement and its end
is pending; the producer answers ok only what is committed; a probe has reads left only
of a verified event of which nothing has been told. Every step of `Ingest` is then one
step of the contract, or leaves its variables alone.

*Desk.* That the banner counts no failure of another view needs the failures that are
on their way: errors plus the failed fetches of the view that have not been handled are
at most the failures since the view was chosen, and in the past there are no errors to
carry over (`ViewInv`). `PagesProofs` carries it over to the composition the runs check:
each step of `Pages` is a step of the desk or leaves it alone, and a desk at rest is in
`ViewInv`.

*Dashboard.* There is a socket or a timer for each time the effect has run, at most; while
it has run once, either the only socket is the current one and no timer is set, or there
is no socket and one timer (`ConnInv`). `ClientBarStays` needs that the chart has one bar
per event and that messages name events (`BarsInv`); cutting the oldest bar shifts the
others, and does not change which event they are of. `EveryEventOnce` and
`GreenRowsAreCommitted` need more than the tape: every list of rows that may become the
tape is sound (`Sound`: rows of events or of pushes, one per id, green only if committed),
those of the polls under way and of the messages on their way included, and every
`verified` on its way is of a committed event (`TapeInv`). Of a query's answer this
follows from its order: the rows are the events by rank (`Ranked`). Of the pending rows
kept on top it follows from what a filter returns (`OnlyKeeps`): rows of the tape in their
order, in the set, none twice. The filter is a recursive function, and the induction over
its steps is one over a set of numbers (`Climb`), which needs no operator parameter.

*Latency bars.* Each bar has the network time of whoever measured it, and the times of the
VM, unless it is a bar of the socket whose `verified` message is still to come
(`Unverified`) or was lost (`BarOk`). That such a bar shows no word on its row yet needs
the order of the messages: of one event they are sent as optimistic, `verified`,
`it_visible` (`InOrder`, `MessageOk`), and a probe starts when `verified` is sent. A word
on the row therefore finds the times filled in, and a bar without them is not counted as
seen. What the clocks show is arithmetic (`Clocks`): no difference of two of them is ever
negative, so nothing is clamped away. `LabTypeCorrect` counts the open requests of the
simulator as a set, which each `Post` enlarges and each answer reduces by one.
`PagesProofs` carries the result over to `Pages`, action by action.

*Panels.* First what the operators return, for samples of any number. `AscendingSorts`: the
number of a rank exists, and taking it for every rank gives the same numbers in ascending
order (`UpTo` is unchanged); `PercentilesInOrder` follows. What a filter keeps is in the
set and in the sequence (`OnlyThese`); it keeps everything if all of it passes
(`OnlyAll`). With these, most of `PanelsAgree` holds because two panels that filter
differently rank the same sequence, or rank one number. The pipeline of a click is added to
both sides of the comparison, so it cancels in the verdict (`VerdictTold`).

Two clauses need to know how the bars came to be, and they make the invariant
(`PanelInv`, on top of `LabInv`). The samples of the "Fire & measure" widget are kept
apart from the bars of its fires, so `FiresTold` says that, as long as all bars are
fires, the last samples are the click-to-screen times of the last bars, counted from the
end: both lists lose their oldest element first. That needs equal capacities, hence the
hypothesis `SERVED_SAMPLES = MAX_LATENCY_BARS`. Both are 20 in the code
(`InteractiveLatency.tsx:85`, `store.ts:112`); with different ones the card and the
chart would show medians of different sets of fires. The simulator's hop is a sample of
its own as well: `SimTold` says that the one sample is of the one simulated event that
was answered. `JobsTold`, `BarsTold` and `MissedTold` say what the kind of an event
allows: whether it is probed, when it has a bar, and that a fire, which needs no
message, is never missed.

`ReconMissesTransportOnly` measures the finding `latency_recon`: for a bar of the socket
the reconciliation is exact, for a bar the tab measured it exceeds the work and the
render by the bar's transport, which its network time contains already. In the same way
`HealthyBooksAreFull` shows that `producer_empty_book` has no third cause; that
`AckedRowsAreCommitted` needs only `~CallersOverlap` bounds `pool_lost_ack`, and that
`BroadcastOnChange` and `HashedIsShown` hold of the plain tiles bounds `reader_kpi`.

*Chat.* `AnswerIsWhole` is about the numbers of lines, so the invariant (`ChatInv`) says how
far each of the two parsers is. After `k` whole lines the proxy has gathered the data
lines since the last line of another kind, has the type that was named last (`Parsed`),
and has told exactly the events of those lines, in their order (`Tells`). After `i` whole
events the page shows the first deltas of what was told, as many as there are among the
`i`, or an error (`Shown`, `Holds`). What a buffer holds is the half line left over, if
the number of halves read is odd (`Left`), so a read ends exactly the lines between two
numbers, whatever its size. A route that closed without an error has told everything
(`IsAll`), hence a page that has read it all shows the whole answer. Both loops are
recursive functions, and the inductions over their steps are over a set of numbers
(`Climb`). A chat that was cleared under an answer is excluded, as in the property; that
the page throws only then is part of `ChatTypeCorrect`.

*Comparison.* `ServingTypeCorrect` says that each total of a request is of a version its
table has had: the tables only grow, and a request reads them in the order of `Strategies`
(`Read`). `PagesTypeCorrect` combines the types of the four parts: each is kept by its own
actions and left alone by those of the others.

Left to TLC: liveness (`EveryCallReturns`, `EmptyPoolReopens`, `TilesConverge` of the
reader and of the desk, `SelfHeals`, `EveryPostEnds`, `Reconnects`, `TapeConverges`,
`BannerClears`, `PastIsShown`, `TotalsSettle`, `AnswerEnds`), which this prover does not
reach. Every invariant and every action property of a passing run is stated by a theorem,
under the hypotheses of the table.

## 5. Not modelled, and what is next

- Display components, database objects, the semantic view and deployment scripts keep
  no state of the running system; what the deployment writes to `APP_CONFIG` is the step
  `Redeploy`.
- `/api/ingest-batch` forwards to the producer's batch and has no caller in the pages;
  `flush_and_wait` has no caller.
- `StressTest` and `BurstStats` keep a list of round trips of their own, next to the
  bars, and decide nothing by it. The round trips the comparison samples are left out for
  the same reason.
- The setters of single values in the store (KPI row, sectors, marks) appear as the tiles
  of `SnowflakeReader` and `Desk`; the label of the health poll and the toasts are wording.
- The Snowflake client: a query is one request, answered or failed in every model; how it
  turns the answer into rows is left out.
- The parts of the tile queries of `queries.ts` that only filter or format.

What is left to prove is liveness. The findings and the excluded cases in the
hypotheses of the theorems are where the model should follow the code when it changes.
