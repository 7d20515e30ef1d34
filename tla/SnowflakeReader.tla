--------------------------- MODULE SnowflakeReader ---------------------------
(***************************************************************************)
(* The push path of the web server: the poll loop that reads the tiles     *)
(* every 200 ms and broadcasts the ones that changed                       *)
(* (web/src/server/snowflake-reader.ts), the broker that holds the sockets *)
(* (web/src/server/ws-broker.ts), and the custom server that registers     *)
(* them and loads both modules (web/server.js).                            *)
(*                                                                         *)
(* setInterval does not wait for poll(), so polls overlap.  A poll runs in *)
(* one event-loop turn from the moment its four queries are answered,      *)
(* except that a changed KPI row makes it await two more queries.          *)
(*                                                                         *)
(* The database is external: a version that grows, and the content each    *)
(* tile has at each version.  Two contents are different here when the     *)
(* stable hash of the tile tells them apart; the fields it leaves out      *)
(* (age, lag) are left out.  The latency stamps are too.                   *)
(***************************************************************************)
EXTENDS Integers, FiniteSets

CONSTANTS
  Clients,      \* browser tabs
  Slots,        \* polls that may be under way at once (a bound)
  MaxVersion,   \* versions of the database (a bound)
  Contents,     \* content of each tile at each version
  None,
  MaxFaults     \* failed queries, lost warmups, lost sockets and restarts (a bound)

Keys == {"tape", "kpi", "sector", "topmarks"}
Versions == 0 .. MaxVersion

\* Tiles whose content is broadcast in the turn that hashes it.
PlainKeys == Keys \ {"kpi"}

ASSUME ReaderAssumption ==
  /\ MaxVersion \in Nat /\ MaxFaults \in Nat
  /\ \A k \in Keys, v \in Versions : Contents[k][v] # None   \* no tile is empty

VARIABLES
  db,        \* version of the database
  warmup,    \* GET /api/warmup of server.js: "pending", "done" or "lost"
  loaded,    \* globalThis.__wsBrokerClients exists
  running,   \* state.running
  hashes,    \* state.hashes
  snapshot,  \* state.latestSnapshot
  polls,     \* per slot: stage of the poll, version it started at, rows it holds
  clients,   \* keys of the broker's map of sockets
  socket,    \* per client: "none", "open" or "closing"
  view,      \* per client: the content it received last for each tile
  casts,     \* per plain tile: the parity of the number of broadcasts
  faults     \* failures so far

reader == << hashes, snapshot, casts >>
boot == << warmup, loaded, running >>
broker == << clients, socket, view >>
vars == << db, boot, reader, polls, broker, faults >>

Nothing == [k \in Keys |-> None]
IdlePoll == [stage |-> "idle", since |-> 0, rows |-> Nothing]

Init ==
  /\ db = 0
  /\ warmup = "pending" /\ loaded = FALSE /\ running = FALSE
  /\ hashes = Nothing /\ snapshot = Nothing
  /\ casts = [k \in PlainKeys |-> 0]
  /\ polls = [i \in Slots |-> IdlePoll]
  /\ clients = {}
  /\ socket = [c \in Clients |-> "none"]
  /\ view = [c \in Clients |-> Nothing]
  /\ faults = 0

Fault == faults < MaxFaults /\ faults' = faults + 1

\* A row written by the producer becomes queryable (external).
Write ==
  /\ db < MaxVersion
  /\ db' = db + 1
  /\ UNCHANGED << boot, reader, polls, broker, faults >>

(***************************************************************************)
(* Loading the modules.  bootstrapModules asks for /api/warmup once, 1.5 s *)
(* after listen(); a failure is logged.  /api/ingest imports the broker    *)
(* and not the reader.                                                     *)
(***************************************************************************)
Warmup ==
  /\ warmup = "pending"
  /\ warmup' = "done" /\ loaded' = TRUE /\ running' = TRUE
  /\ UNCHANGED << db, reader, polls, broker, faults >>

WarmupLost ==
  /\ warmup = "pending"
  /\ Fault
  /\ warmup' = "lost"
  /\ UNCHANGED << db, loaded, running, reader, polls, broker >>

IngestRouteLoaded ==
  /\ ~loaded
  /\ loaded' = TRUE
  /\ UNCHANGED << db, warmup, running, reader, polls, broker, faults >>

(***************************************************************************)
(* poll().                                                                 *)
(***************************************************************************)
Poll(i) ==
  /\ running /\ polls[i].stage = "idle"
  /\ polls' = [polls EXCEPT ![i] = [stage |-> "query", since |-> db, rows |-> Nothing]]
  /\ UNCHANGED << db, boot, reader, broker, faults >>

\* Fault: every poll broadcasts.
Changed_Always(k, rows) == TRUE

Changed(k, rows) == hashes[k] # rows[k]

\* broker.broadcast for the tiles of keys: the open sockets get the content, the
\* others leave the map.
Broadcast(keys, rows) ==
  /\ casts' = [k \in PlainKeys |-> IF k \in keys THEN 1 - casts[k] ELSE casts[k]]
  /\ view' = [c \in Clients |->
                IF c \in clients /\ socket[c] = "open"
                THEN [k \in Keys |-> IF k \in keys THEN rows[k] ELSE view[c][k]]
                ELSE view[c]]
  /\ clients' = IF keys = {} THEN clients ELSE {c \in clients : socket[c] = "open"}
  /\ UNCHANGED socket

Cache(keys, rows) ==
  snapshot' = [k \in Keys |-> IF k \in keys THEN rows[k] ELSE snapshot[k]]

\* Fault: the hashes of the other tiles are forgotten.
SetHashes_Replace(keys, rows) == hashes' = [k \in keys |-> rows[k]]

SetHashes(keys, rows) ==
  hashes' = [k \in Keys |-> IF k \in keys THEN rows[k] ELSE hashes[k]]

\* What the queries of a poll return: each was evaluated at some moment since
\* the poll started.
Answers(i) ==
  {[k \in Keys |-> Contents[k][seen[k]]] : seen \in [Keys -> polls[i].since .. db]}

\* The KPI row is the one already hashed: the whole poll is one turn.
Answered(i) ==
  /\ polls[i].stage = "query"
  /\ \E rows \in Answers(i) :
       LET keys == {k \in PlainKeys : Changed(k, rows)} IN
       /\ ~Changed("kpi", rows)
       /\ SetHashes(keys, rows) /\ Cache(keys, rows) /\ Broadcast(keys, rows)
  /\ polls' = [polls EXCEPT ![i] = IdlePoll]
  /\ UNCHANGED << db, boot, faults >>

\* Fault: all hashes are recorded before the second wait.
AnsweredKpi_HashesAll(i) ==
  /\ polls[i].stage = "query"
  /\ \E rows \in Answers(i) :
       LET keys == {"tape"} \intersect {k \in Keys : Changed(k, rows)} IN
       /\ Changed("kpi", rows)
       /\ SetHashes(Keys, rows)
       /\ Cache(keys, rows) /\ Broadcast(keys, rows)
       /\ polls' = [polls EXCEPT ![i].stage = "kpi", ![i].rows = rows]
  /\ UNCHANGED << db, boot, faults >>

\* The KPI row changed: its hash is recorded and the poll awaits the watchlist
\* and the lag.
AnsweredKpi(i) ==
  /\ polls[i].stage = "query"
  /\ \E rows \in Answers(i) :
       LET keys == {"tape"} \intersect {k \in Keys : Changed(k, rows)} IN
       /\ Changed("kpi", rows)
       /\ SetHashes(keys \union {"kpi"}, rows)
       /\ Cache(keys, rows) /\ Broadcast(keys, rows)
       /\ polls' = [polls EXCEPT ![i].stage = "kpi", ![i].rows = rows]
  /\ UNCHANGED << db, boot, faults >>

\* Fault: the KPI row is cached for newcomers and sent to nobody else.
KpiAnswered_Silent(i) ==
  LET rows == polls[i].rows
      changed == {k \in {"sector", "topmarks"} : Changed(k, rows)}
  IN
  /\ polls[i].stage = "kpi"
  /\ SetHashes(changed, rows) /\ Cache({"kpi"} \union changed, rows)
  /\ Broadcast(changed, rows)
  /\ polls' = [polls EXCEPT ![i] = IdlePoll]
  /\ UNCHANGED << db, boot, faults >>

KpiAnswered(i) ==
  LET rows == polls[i].rows
      changed == {k \in {"sector", "topmarks"} : Changed(k, rows)}
      keys == {"kpi"} \union changed
  IN
  /\ polls[i].stage = "kpi"
  /\ SetHashes(changed, rows) /\ Cache(keys, rows) /\ Broadcast(keys, rows)
  /\ polls' = [polls EXCEPT ![i] = IdlePoll]
  /\ UNCHANGED << db, boot, faults >>

\* One of the queries fails; the error is logged and the poll ends.
PollError(i) ==
  /\ polls[i].stage # "idle"
  /\ Fault
  /\ polls' = [polls EXCEPT ![i] = IdlePoll]
  /\ UNCHANGED << db, boot, reader, broker >>

(***************************************************************************)
(* Sockets.                                                                *)
(***************************************************************************)
\* Fault: a new socket waits for the next change.
Upgrade_NoSnapshot(c) ==
  /\ socket[c] = "none" /\ loaded
  /\ socket' = [socket EXCEPT ![c] = "open"]
  /\ clients' = clients \union {c}
  /\ UNCHANGED << db, boot, reader, polls, view, faults >>

\* The upgrade handler registers the socket and sends it the snapshot, in one
\* turn.  Before the globals exist it closes the socket (1013).
Upgrade(c) ==
  /\ socket[c] = "none" /\ loaded
  /\ socket' = [socket EXCEPT ![c] = "open"]
  /\ clients' = clients \union {c}
  /\ view' = [view EXCEPT ![c] =
       [k \in Keys |-> IF snapshot[k] # None THEN snapshot[k] ELSE @[k]]]
  /\ UNCHANGED << db, boot, reader, polls, faults >>

SocketLost(c) ==
  /\ socket[c] = "open"
  /\ Fault
  /\ socket' = [socket EXCEPT ![c] = "closing"]
  /\ UNCHANGED << db, boot, reader, polls, clients, view >>

\* ws.on("close"): unregister.
SocketClosed(c) ==
  /\ socket[c] = "closing"
  /\ socket' = [socket EXCEPT ![c] = "none"]
  /\ clients' = clients \ {c}
  /\ UNCHANGED << db, boot, reader, polls, view, faults >>

\* The container is replaced: the server starts empty, the tabs keep what they show.
Restart ==
  /\ Fault
  /\ warmup' = "pending" /\ loaded' = FALSE /\ running' = FALSE
  /\ hashes' = Nothing /\ snapshot' = Nothing
  /\ polls' = [i \in Slots |-> IdlePoll]
  /\ clients' = {}
  /\ socket' = [c \in Clients |-> "none"]
  /\ UNCHANGED << db, view, casts >>

Next ==
  \/ Write \/ Warmup \/ WarmupLost \/ IngestRouteLoaded \/ Restart
  \/ \E i \in Slots :
       Poll(i) \/ Answered(i) \/ AnsweredKpi(i) \/ KpiAnswered(i) \/ PollError(i)
  \/ \E c \in Clients : Upgrade(c) \/ SocketLost(c) \/ SocketClosed(c)

Spec == Init /\ [][Next]_vars

(***************************************************************************)
(* The timers fire, every query is answered or fails, a lost socket is     *)
(* noticed, and a tab without a socket tries again.  Nothing obliges the   *)
(* database to change or a failure to happen.                              *)
(***************************************************************************)
Fairness ==
  /\ WF_vars(Warmup)
  /\ \A i \in Slots : /\ WF_vars(Poll(i))
                      /\ WF_vars(Answered(i) \/ AnsweredKpi(i) \/ KpiAnswered(i))
  /\ \A c \in Clients : WF_vars(Upgrade(c)) /\ WF_vars(SocketClosed(c))

FairSpec == Spec /\ Fairness

-----------------------------------------------------------------------------
Values == {Contents[k][v] : k \in Keys, v \in Versions}
Rows == [Keys -> Values \union {None}]

\* Every variable keeps its type.
TypeOK ==
  /\ db \in Versions
  /\ warmup \in {"pending", "done", "lost"}
  /\ loaded \in BOOLEAN /\ running \in BOOLEAN
  /\ hashes \in Rows /\ snapshot \in Rows
  /\ casts \in [PlainKeys -> {0, 1}]
  /\ polls \in [Slots -> [stage : {"idle", "query", "kpi"}, since : Versions, rows : Rows]]
  /\ clients \subseteq Clients
  /\ socket \in [Clients -> {"none", "open", "closing"}]
  /\ view \in [Clients -> Rows]
  /\ faults \in 0 .. MaxFaults

\* hasChanged answers for all clients at once, so a recorded hash must mean that
\* every connected tab shows that content: those that were connected when it
\* was recorded and those that came later.
HashedIsShown ==
  \A c \in clients, k \in PlainKeys :
    socket[c] = "open" /\ hashes[k] # None => view[c][k] = hashes[k]

\* The same for the KPI row, whose hash is recorded two queries earlier: every
\* connected tab shows the KPI message the server has cached.
SnapshotIsShown ==
  \A c \in clients, k \in Keys :
    socket[c] = "open" /\ snapshot[k] # None => view[c][k] = snapshot[k]

\* An open socket is in the map: no tab is connected and deaf.
OpenIsRegistered == \A c \in Clients : socket[c] = "open" => c \in clients

\* snowflake-reader.ts "broadcasts only on change": charts do not move on idle.
BroadcastOnChange ==
  [][\A k \in PlainKeys : casts'[k] # casts[k] => snapshot'[k] # snapshot[k]]_vars

\* ASSUMPTIONS.md: "New data appears within one poll cycle" of becoming queryable.
\* Without the delay: once the database is quiet, a connected tab ends up
\* showing what it holds, in spite of overlapping polls and failed queries.
Converges(k) ==
  \A c \in Clients : <>[](running /\ socket[c] = "open") => <>[](view[c][k] = Contents[k][db])

TilesConverge == \A k \in PlainKeys : Converges(k)
KpiConverges == Converges("kpi")
=============================================================================
