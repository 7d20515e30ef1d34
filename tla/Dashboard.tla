------------------------------- MODULE Dashboard -------------------------------
(***************************************************************************)
(* One browser tab: the WebSocket client (web/src/lib/ws.ts), the event    *)
(* generator (components/EventGenerator.tsx) and the snapshot poll, all    *)
(* writing the tape and the latency bars of the store, against a server    *)
(* that keeps IngestContract.  The tab is told of an event five times,     *)
(* over three channels that do not wait for each other: optimistic,        *)
(* verified and it_visible on the socket, the answer of its own POST, and  *)
(* the rows of the polls and of the tape pushes.                           *)
(*                                                                         *)
(* Events are numbered in the order of their EVENT_TS, so the tape query   *)
(* is a matter of numbers.  A pushed row is not keyed by the event but by  *)
(* its position and time: the id of the pushed row of event e is -e.       *)
(***************************************************************************)
EXTENDS Integers, FiniteSets, DashboardStore

CONSTANTS
  Events,       \* 1 .. n
  Mine,         \* events fired by the generator of this tab
  Others,       \* events of other writers of RAW_EVENTS, which no message tells of
  Sockets,      \* WebSocket objects that may exist at once (a bound)
  PollSlots,    \* snapshot polls that may be under way at once (a bound)
  MaxDrops,     \* connections that fail or are lost (a bound)
  MaxReplays,   \* times React runs the effect again with the same refs (a bound)
  MaxPushes,    \* tape pushes (a bound)
  Words         \* what it_visible may say: "floor", "real"

ASSUME DashboardAssumption ==
  /\ Events \subseteq Nat \ {0} /\ IsFiniteSet(Events)
  /\ Mine \subseteq Events /\ Others \subseteq Events \ Mine
  /\ Sockets # {} /\ 0 \notin Sockets
  /\ MaxDrops \in Nat /\ MaxReplays \in Nat /\ MaxPushes \in Nat

VARIABLES
  phase, committed, visible, told,  \* as in IngestContract
  sock,      \* per WebSocket object: "none", "connecting", "open" or "closing"
  wsRef,     \* wsRef.current, 0 for null
  timers,    \* reconnect timers that have been set and not fired
  seen,      \* seenIdsRef
  inbox,     \* per WebSocket object: messages on the way to the tab
  tape, bars,
  optimisticEnabled,
  answered,  \* per own event: "no", "yes" or "painted"
  polls,     \* per slot: the rows of the answer under way, << >> if none
  drops, replays, pushes

contractVars == << phase, committed, visible, told >>
socketVars == << sock, wsRef, timers, seen, inbox >>
storeVars == << tape, bars, optimisticEnabled >>
vars == << contractVars, socketVars, storeVars, answered, polls, drops, replays, pushes >>

Raw == "raw"
Server == INSTANCE IngestContract WITH Tables <- {Raw}

\* RAW_EVENTS as tape_query() reads it: the newest rows first.
Row(id) == [id |-> id, status |-> "verified"]
Shown == {e \in Events : Raw \in visible[e]}
Newest(n) ==
  FirstN([i \in 1 .. Cardinality(Shown) |->
           Row(CHOOSE e \in Shown : Cardinality({f \in Shown : f >= e}) = i)], n)

First == CHOOSE s \in Sockets : TRUE

\* The page is loaded: the effect has called connect().
Init ==
  /\ phase = [e \in Events |-> IF e \in Others THEN "verified" ELSE "new"]
  /\ committed = Others
  /\ visible = [e \in Events |-> {}]
  /\ told = [e \in Events |-> [t \in {Raw} |-> IF e \in Others THEN "floor" ELSE "none"]]
  /\ wsRef = First
  /\ sock = [s \in Sockets |-> IF s = First THEN "connecting" ELSE "none"]
  /\ timers = 0
  /\ seen = {}
  /\ inbox = [s \in Sockets |-> << >>]
  /\ tape = << >> /\ bars = << >> /\ optimisticEnabled = TRUE
  /\ answered = [e \in Mine |-> "no"]
  /\ polls = [p \in PollSlots |-> << >>]
  /\ drops = 0 /\ replays = 0 /\ pushes = 0

-----------------------------------------------------------------------------
(* The server: a step of the contract and its broadcast.                   *)

Broadcast(msg) ==
  inbox' = [s \in Sockets |-> IF sock[s] = "open" THEN Append(inbox[s], msg) ELSE inbox[s]]

Message(type, e) == [type |-> type, e |-> e, word |-> "none", rows |-> << >>]

UnchangedTab ==
  UNCHANGED << sock, wsRef, timers, seen, storeVars, answered, polls, drops, replays >>

Announce(e) ==
  /\ Server!Announce(e)
  /\ Broadcast(Message("optimistic", e))
  /\ UnchangedTab /\ UNCHANGED pushes

Verify(e) ==
  /\ Server!Verify(e)
  /\ Broadcast(Message("verified", e))
  /\ UnchangedTab /\ UNCHANGED pushes

Tell(e, word) ==
  /\ Server!Tell(e, Raw, word)
  /\ Broadcast([Message("it_visible", e) EXCEPT !.word = word])
  /\ UnchangedTab /\ UNCHANGED pushes

\* Commits, rows that become visible and events that are given up are not told.
Silent(e) ==
  /\ Server!Commit(e) \/ Server!Show(e, Raw) \/ Server!GiveUp(e)
  /\ UnchangedTab /\ UNCHANGED << inbox, pushes >>

\* A change of the tape: mapTapeRows() keys the rows by position and time.
PushTape ==
  /\ pushes < MaxPushes /\ Shown # {}
  /\ pushes' = pushes + 1
  /\ Broadcast([Message("tape", 0) EXCEPT !.rows =
       [i \in DOMAIN Newest(MAX_TAPE) |-> Row(-Newest(MAX_TAPE)[i].id)]])
  /\ UnchangedTab /\ UNCHANGED contractVars

-----------------------------------------------------------------------------
(* The socket.                                                             *)

UnchangedElse == UNCHANGED << contractVars, storeVars, seen, answered, polls, pushes >>

\* connect(), with the readyStates after the caller's own changes.
Connect(states) ==
  IF wsRef # 0 /\ states[wsRef] = "open"
    THEN sock' = states /\ UNCHANGED wsRef
    ELSE \E s \in Sockets : /\ states[s] = "none"
                            /\ sock' = [states EXCEPT ![s] = "connecting"]
                            /\ wsRef' = s

TimerFires ==
  /\ timers > 0
  /\ timers' = timers - 1
  /\ Connect(sock)
  /\ UnchangedElse /\ UNCHANGED << inbox, drops, replays >>

Opened(s) ==
  /\ sock[s] = "connecting"
  /\ sock' = [sock EXCEPT ![s] = "open"]
  /\ UnchangedElse /\ UNCHANGED << wsRef, timers, inbox, drops, replays >>

\* Fault: the error schedules a reconnect, and so does the close that follows.
ErrorSchedules(s) ==
  /\ sock[s] \in {"connecting", "open"}
  /\ drops < MaxDrops /\ drops' = drops + 1
  /\ sock' = [sock EXCEPT ![s] = "closing"]
  /\ inbox' = [inbox EXCEPT ![s] = << >>]
  /\ timers' = timers + 1
  /\ UnchangedElse /\ UNCHANGED << wsRef, replays >>

\* onerror, or a connection the network or the server ends: what is under way
\* is lost, and the close event follows.
Error(s) ==
  /\ sock[s] \in {"connecting", "open"}
  /\ drops < MaxDrops /\ drops' = drops + 1
  /\ sock' = [sock EXCEPT ![s] = "closing"]
  /\ inbox' = [inbox EXCEPT ![s] = << >>]
  /\ UnchangedElse /\ UNCHANGED << wsRef, timers, replays >>

\* Fault: only the close event of the current socket schedules a reconnect.
CloseOfCurrent(s) ==
  /\ sock[s] = "closing"
  /\ sock' = [sock EXCEPT ![s] = "none"]
  /\ wsRef' = 0
  /\ timers' = IF wsRef = s THEN timers + 1 ELSE timers
  /\ UnchangedElse /\ UNCHANGED << inbox, drops, replays >>

\* onclose: it speaks of this socket and clears the ref of whichever is current.
Close(s) ==
  /\ sock[s] = "closing"
  /\ sock' = [sock EXCEPT ![s] = "none"]
  /\ wsRef' = 0
  /\ timers' = timers + 1
  /\ UnchangedElse /\ UNCHANGED << inbox, drops, replays >>

\* The cleanup of the effect and the effect again: the timer set last, which may
\* have fired, is cleared, the current socket closed, and connect() called.
Replay ==
  /\ replays < MaxReplays /\ replays' = replays + 1
  /\ timers' \in {timers, timers - 1} /\ timers' >= 0
  /\ Connect(IF wsRef = 0 THEN sock ELSE [sock EXCEPT ![wsRef] = "closing"])
  /\ inbox' = IF wsRef = 0 THEN inbox ELSE [inbox EXCEPT ![wsRef] = << >>]
  /\ UnchangedElse /\ UNCHANGED drops

-----------------------------------------------------------------------------
(* onmessage.                                                              *)

WsBar(e) == [id |-> e, source |-> "ws", vm |-> FALSE, it |-> "none", render |-> FALSE]

Optimistic(e) ==
  IF e \in seen
    THEN UNCHANGED << seen, tape, bars >>
    ELSE /\ seen' = seen \union {e}
         /\ tape' = AddOptimisticEvent(tape, e)
         /\ bars' = AddLatencyBar(bars, WsBar(e))

Verified(e) ==
  /\ seen' = seen \union {e}
  /\ tape' = VerifyEvent(tape, e)
  /\ bars' = UpdateLatencyBarByEventId(bars, e, TRUE)

ItVisible(e, word) ==
  /\ bars' = UpdateLatencyBarItPoll(bars, e, "it", word)
  /\ UNCHANGED << seen, tape >>

Tape(rows) ==
  /\ tape' = SetTape(tape, rows, optimisticEnabled)
  /\ UNCHANGED << seen, bars >>

OnMessage(s) ==
  /\ sock[s] = "open" /\ inbox[s] # << >>
  /\ inbox' = [inbox EXCEPT ![s] = Tail(@)]
  /\ LET msg == Head(inbox[s]) IN
       CASE msg.type = "optimistic" -> Optimistic(msg.e)
         [] msg.type = "verified" -> Verified(msg.e)
         [] msg.type = "it_visible" -> ItVisible(msg.e, msg.word)
         [] msg.type = "tape" -> Tape(msg.rows)
  /\ UNCHANGED << contractVars, sock, wsRef, timers, optimisticEnabled, answered, polls,
                  drops, replays, pushes >>

-----------------------------------------------------------------------------
(* The event generator, the polls and the switch.                          *)

UnchangedWire == UNCHANGED << contractVars, socketVars, drops, replays, pushes >>

ClientBar(e) == [id |-> e, source |-> "client", vm |-> TRUE, it |-> "none", render |-> FALSE]

\* The POST is answered: a pending row, unless the preview is off, and a bar.
\* A failed one shows an error and touches neither.
Answer(e) ==
  /\ answered[e] = "no" /\ phase[e] \in {"verified", "failed"}
  /\ answered' = [answered EXCEPT ![e] = IF phase[e] = "verified" THEN "yes" ELSE "painted"]
  /\ IF phase[e] = "verified"
       THEN /\ tape' = IF optimisticEnabled THEN AddOptimisticEvent(tape, e) ELSE tape
            /\ bars' = AddLatencyBar(bars, ClientBar(e))
       ELSE UNCHANGED << tape, bars >>
  /\ UNCHANGED << optimisticEnabled, polls >> /\ UnchangedWire

\* Two animation frames later.
Painted(e) ==
  /\ answered[e] = "yes"
  /\ answered' = [answered EXCEPT ![e] = "painted"]
  /\ bars' = UpdateLatencyBar(bars, e, TRUE)
  /\ UNCHANGED << tape, optimisticEnabled, polls >> /\ UnchangedWire

\* The server has run the query; an empty tape is applied with no effect but
\* that of the preview, and is left out.
PollReads(p) ==
  /\ polls[p] = << >> /\ Shown # {}
  /\ polls' = [polls EXCEPT ![p] = Newest(MAX_TAPE)]
  /\ UNCHANGED << storeVars, answered >> /\ UnchangedWire

PollLands(p) ==
  /\ polls[p] # << >>
  /\ polls' = [polls EXCEPT ![p] = << >>]
  /\ tape' = SetTape(tape, polls[p], optimisticEnabled)
  /\ UNCHANGED << bars, optimisticEnabled, answered >> /\ UnchangedWire

SwitchPreview ==
  /\ optimisticEnabled' = ~optimisticEnabled
  /\ UNCHANGED << tape, bars, answered, polls >> /\ UnchangedWire

-----------------------------------------------------------------------------

Next ==
  \/ \E e \in Events : Announce(e) \/ Verify(e) \/ Silent(e)
                       \/ \E word \in Words : Tell(e, word)
  \/ PushTape
  \/ \E s \in Sockets : Opened(s) \/ Error(s) \/ Close(s) \/ OnMessage(s)
  \/ TimerFires \/ Replay
  \/ \E e \in Mine : Answer(e) \/ Painted(e)
  \/ \E p \in PollSlots : PollReads(p) \/ PollLands(p)
  \/ SwitchPreview

Spec == Init /\ [][Next]_vars

\* What the browser does by itself: a handshake that does not fail ends, the
\* close event fires, timers fire, messages are handled, polls go round and are
\* answered.  Nothing is asked of the server.
FairSpec ==
  /\ Spec
  /\ \A s \in Sockets : WF_vars(Opened(s)) /\ WF_vars(Close(s)) /\ WF_vars(OnMessage(s))
  /\ WF_vars(TimerFires)
  /\ \A p \in PollSlots : WF_vars(PollReads(p) \/ PollLands(p))

-----------------------------------------------------------------------------

Alive == {s \in Sockets : sock[s] # "none"}

TypeOK ==
  /\ sock \in [Sockets -> {"none", "connecting", "open", "closing"}]
  /\ wsRef \in Sockets \union {0} /\ timers \in 0 .. 1 + MaxReplays
  /\ seen \subseteq Events
  /\ \A i \in DOMAIN tape : tape[i].status \in {"pending", "verified"}
  /\ Len(tape) <= MAX_TAPE /\ Len(bars) <= MAX_LATENCY_BARS
  /\ \A i \in DOMAIN bars : bars[i].id \in Events /\ bars[i].source \in {"ws", "client"}
  /\ answered \in [Mine -> {"no", "yes", "painted"}]

\* As long as the effect runs once, the tab has one connection, or one timer
\* that will make one: it is neither deaf nor served twice (ws.ts:184-207).
OneConnection == replays = 0 => Cardinality(Alive) + timers = 1

\* However often and over however many channels an event is told, the tape has
\* one row under its id, and the chart one bar (store.ts:164-172, 217-237).
OneOfEach ==
  /\ \A i, j \in DOMAIN tape : tape[i].id = tape[j].id => i = j
  /\ \A i, j \in DOMAIN bars : bars[i].id = bars[j].id => i = j

\* A row is green only if the event is committed, whatever has been lost or
\* reordered: pending until the server has confirmed it (store.ts:182-184).
GreenIsCommitted ==
  \A i \in DOMAIN tape : tape[i].status = "verified" =>
    tape[i].id \in committed \/ -tape[i].id \in committed

\* A measured bar is not given back for the echo on the socket (store.ts:219-221).
ClientBarStays ==
  [][\A e \in Mine : \A i \in BarsOf(bars, e) :
       bars[i].source = "client" =>
         \A j \in BarsOf(bars', e) : bars'[j].source = "client"]_vars

\* The tab is connected again after the last loss.
Reconnects == <>[](\E s \in Sockets : sock[s] = "open")

\* Rows cease to appear, and from some time on the tape is the rows of the
\* server under the pending rows they do not have: a row the server shows is not
\* left pending, and a push with other ids, or an overtaken poll, does not stay.
TapeConverges ==
  <>[](Shown # {} =>
         tape = FirstN(PendingUnmatched(tape, Newest(MAX_TAPE)) \o Newest(MAX_TAPE), MAX_TAPE))
=============================================================================
