------------------------------- MODULE LatencyLab -------------------------------
(***************************************************************************)
(* Where the latency bars come from: the events that the market simulator, *)
(* the buttons of the event generator and the "Fire & measure" widget      *)
(* send, as they pass through the routes /api/ingest and                   *)
(* /api/ingest-verified, the messages of the socket and the answer of the  *)
(* request.  Each of these measures a part of the way with a clock of its  *)
(* own; a profile says how long each piece of work really takes.           *)
(***************************************************************************)
EXTENDS LatencyViews, FiniteSets

CONSTANTS
  Events,         \* 1 .. N, in the order in which they are sent (a bound)
  Profile,        \* per event: how long the pieces of its work take
  MAX_IN_FLIGHT,  \* requests the simulator keeps open
  INGRESS_SAMPLES, SERVED_SAMPLES,  \* samples the two widgets keep
  BUDGET_MS,      \* what a visibility probe waits before it gives up
  MaxCuts         \* losses of the socket (a bound)

LabAssumption ==
  /\ IsFiniteSet(Events)
  /\ Profile \in [Events -> [hop : Nat, parse : Nat, tunnel : Nat, sdk : Nat, raw : Nat,
                            bookFlush : Nat, rest : Nat, it : Nat, bookIt : Nat, paint : Nat,
                            partition : Nat]]
  /\ {MAX_IN_FLIGHT, INGRESS_SAMPLES, SERVED_SAMPLES, MAX_LATENCY_BARS} \subseteq Nat \ {0}
  /\ BUDGET_MS \in Nat /\ MaxCuts \in Nat
  /\ {MIN_CLICKS, STREAMLIT_RENDER_MS, TIED_MS} \subseteq Nat

VARIABLES
  jobs,      \* per event: who sent it, and where its request and its probes are
  wire,      \* messages on the socket of this tab
  bars,      \* latencyBars of the store
  inFlight,  \* the simulator's count of open requests
  sim,       \* the simulator's counts and ingress samples
  served,    \* click-to-screen samples of "Fire & measure"
  missed,    \* events with a message this tab did not get (history)
  cuts

labVars == << jobs, wire, bars, inFlight, sim, served, missed, cuts >>

Quiet == [kind |-> "none", stage |-> "none", raw |-> "off", book |-> "off"]

LabInit ==
  /\ jobs = [e \in Events |-> Quiet]
  /\ wire = << >>
  /\ bars = << >>
  /\ inFlight = 0
  /\ sim = [count |-> 0, errors |-> 0, ingress |-> << >>]
  /\ served = << >>
  /\ missed = {} /\ cuts = 0

-----------------------------------------------------------------------------
(* What the clocks show.                                                   *)

\* Both tables are written at the same time; the slower one is waited for.
FlushOf(p) == Max({p.raw, p.bookFlush})
HandlerOf(p) == p.sdk + FlushOf(p) + p.rest
\* What the route measures of a request, and what a browser measures of it.
ServerTotal(p) == p.parse + p.tunnel + HandlerOf(p)
PostTotal(p) == p.hop + ServerTotal(p)

AtLeast0(n) == Max({0, n})

\* The part of the handler that is neither append nor flush.
Overhead(p) == AtLeast0(HandlerOf(p) - p.sdk - FlushOf(p))

NoVm == [sdk |-> 0, flush |-> 0, over |-> 0, transport |-> 0, partition |-> 0]

\* The optimistic message: all the server knows is its parsing time.
WsBar(e, p) ==
  [id |-> e, source |-> "ws", network |-> p.parse, vm |-> NoVm,
   it |-> NoWord, book |-> NoWord, render |-> 0]

\* The verified message fills in the VM's times and the transport.
VerifiedVm(p) ==
  [sdk |-> p.sdk, flush |-> FlushOf(p), over |-> Overhead(p),
   transport |-> AtLeast0(ServerTotal(p) - p.parse - HandlerOf(p)),
   partition |-> p.partition]

\* The answer to a click: what the VM did not do is called network.
ClickBar(e, p) ==
  [id |-> e, source |-> "client", network |-> AtLeast0(PostTotal(p) - HandlerOf(p)),
   vm |-> [VerifiedVm(p) EXCEPT !.transport = 0],
   it |-> NoWord, book |-> NoWord, render |-> 0]

\* "Fire & measure": what the server did not do, and the tunnel.
ClickToScreen(p) == PostTotal(p) + p.it + p.paint
FireBar(e, p) ==
  [id |-> e, source |-> "client",
   network |-> AtLeast0(ClickToScreen(p) - (ServerTotal(p) + p.it))
               + AtLeast0(ServerTotal(p) - HandlerOf(p)),
   vm |-> [VerifiedVm(p) EXCEPT !.transport = 0, !.partition = 0],
   it |-> [ms |-> p.it, word |-> "real"], book |-> NoWord, render |-> 0]

-----------------------------------------------------------------------------
(* The server.                                                             *)

\* broker.broadcast.
Broadcast(msg) == wire' = Append(wire, msg)

Done(e) == jobs[e].stage = "done"
Open(e) == jobs[e].stage \in {"posted", "acked", "refused"}

\* A request is sent and the route takes it: the simulator's tick if not too many
\* are open, a button if its last request is done with.  /api/ingest tells all tabs.
Post(e, kind) ==
  /\ jobs[e] = Quiet /\ \A d \in Events : d < e => jobs[d] # Quiet
  /\ IF kind = "sim" THEN inFlight < MAX_IN_FLIGHT
     ELSE \A d \in Events : jobs[d].kind = kind => ~Open(d)
  /\ jobs' = [jobs EXCEPT ![e] = [@ EXCEPT !.kind = kind, !.stage = "posted"]]
  /\ inFlight' = IF kind = "sim" THEN inFlight + 1 ELSE inFlight
  /\ IF kind = "fire" THEN UNCHANGED wire
     ELSE Broadcast([type |-> "optimistic", id |-> e])
  /\ UNCHANGED << bars, sim, served, missed, cuts >>

\* The VM has committed.  /api/ingest announces it, starts both probes and
\* answers; /api/ingest-verified goes on to read the row.
VmAnswers(e) ==
  /\ jobs[e].stage = "posted"
  /\ IF jobs[e].kind = "fire"
       THEN /\ jobs' = [jobs EXCEPT ![e].stage = "acked"]
            /\ UNCHANGED wire
       ELSE /\ jobs' = [jobs EXCEPT ![e] =
                          [@ EXCEPT !.stage = "acked", !.raw = "probing", !.book = "probing"]]
            /\ Broadcast([type |-> "verified", id |-> e])
  /\ UNCHANGED << bars, inFlight, sim, served, missed, cuts >>

\* The VM, or a read of the row, failed: 502.
Refuses(e) ==
  /\ jobs[e].stage = "posted" \/ (jobs[e].kind = "fire" /\ jobs[e].stage = "acked")
  /\ jobs' = [jobs EXCEPT ![e].stage = "refused"]
  /\ UNCHANGED << wire, bars, inFlight, sim, served, missed, cuts >>

\* A probe has seen the row, or gives up.
ProbeSpeaks(e, table, word) ==
  LET seen == IF table = "raw" THEN Profile[e].it ELSE Profile[e].bookIt
  IN  /\ jobs[e][table] = "probing"
      /\ jobs' = [jobs EXCEPT ![e] = [@ EXCEPT ![table] = "told"]]
      /\ Broadcast([type |-> "it_visible", id |-> e,
                       table |-> IF table = "raw" THEN "it" ELSE "book",
                       poll |-> [ms |-> IF word = "real" THEN seen ELSE BUDGET_MS,
                                 word |-> word]])
      /\ UNCHANGED << bars, inFlight, sim, served, missed, cuts >>

-----------------------------------------------------------------------------
(* The browser.                                                            *)

\* The answer to the simulator: the hop is what the server did not measure.
SimAnswered(e) ==
  /\ jobs[e].kind = "sim" /\ jobs[e].stage \in {"acked", "refused"}
  /\ jobs' = [jobs EXCEPT ![e].stage = "done"]
  /\ inFlight' = inFlight - 1
  /\ sim' = IF jobs[e].stage = "acked"
              THEN [sim EXCEPT !.count = @ + 1,
                               !.ingress = LastN(Append(@, AtLeast0(PostTotal(Profile[e])
                                                      - ServerTotal(Profile[e]))),
                                         INGRESS_SAMPLES)]
              ELSE [sim EXCEPT !.errors = @ + 1]
  /\ UNCHANGED << wire, bars, served, missed, cuts >>

\* The answer to a click makes a bar; the paint follows.
ClickAnswered(e) ==
  /\ jobs[e].kind = "click" /\ jobs[e].stage \in {"acked", "refused"}
  /\ jobs' = [jobs EXCEPT ![e].stage = IF @ = "acked" THEN "painting" ELSE "done"]
  /\ bars' = IF jobs[e].stage = "acked"
               THEN AddLatencyBar(bars, ClickBar(e, Profile[e])) ELSE bars
  /\ UNCHANGED << wire, inFlight, sim, served, missed, cuts >>

ClickPainted(e) ==
  /\ jobs[e].stage = "painting"
  /\ jobs' = [jobs EXCEPT ![e].stage = "done"]
  /\ bars' = UpdateLatencyBar(bars, e, Profile[e].paint)
  /\ UNCHANGED << wire, inFlight, sim, served, missed, cuts >>

\* The answer to "Fire & measure", after the paint: with the row if a read found it.
FireAnswered(e, found) ==
  /\ jobs[e].kind = "fire" /\ jobs[e].stage \in {"acked", "refused"}
  /\ found => jobs[e].stage = "acked"
  /\ jobs' = [jobs EXCEPT ![e].stage = "done"]
  /\ IF found
       THEN /\ bars' = AddLatencyBar(bars, FireBar(e, Profile[e]))
            /\ served' = LastN(Append(served, ClickToScreen(Profile[e])), SERVED_SAMPLES)
       ELSE UNCHANGED << bars, served >>
  /\ UNCHANGED << wire, inFlight, sim, missed, cuts >>

\* onmessage.
Deliver ==
  /\ wire # << >>
  /\ wire' = Tail(wire)
  /\ LET m == Head(wire)  p == Profile[m.id] IN
       bars' = CASE m.type = "optimistic" -> AddLatencyBar(bars, WsBar(m.id, p))
                 [] m.type = "verified" -> UpdateLatencyBarByEventId(bars, m.id, VerifiedVm(p))
                 [] m.type = "it_visible" -> UpdateLatencyBarItPoll(bars, m.id, m.table, m.poll)
  /\ UNCHANGED << jobs, inFlight, sim, served, missed, cuts >>

\* The socket is lost and opened again: what was on its way, or was broadcast
\* in the meantime, never comes.
Cut ==
  /\ wire # << >> /\ cuts < MaxCuts
  /\ cuts' = cuts + 1
  /\ missed' = missed \union {wire[i].id : i \in DOMAIN wire}
  /\ wire' = << >>
  /\ UNCHANGED << jobs, bars, inFlight, sim, served >>

LabNext ==
  \/ Deliver \/ Cut
  \/ \E e \in Events :
       \/ \E kind \in {"sim", "click", "fire"} : Post(e, kind)
       \/ VmAnswers(e) \/ Refuses(e)
       \/ \E table \in {"raw", "book"}, word \in {"real", "floor"} : ProbeSpeaks(e, table, word)
       \/ SimAnswered(e) \/ ClickAnswered(e) \/ ClickPainted(e)
       \/ \E found \in BOOLEAN : FireAnswered(e, found)

LabSpec == LabInit /\ [][LabNext]_labVars

-----------------------------------------------------------------------------

LabTypeOK ==
  /\ \A e \in Events :
       /\ jobs[e].kind \in {"none", "sim", "click", "fire"}
       /\ jobs[e].stage \in {"none", "posted", "acked", "refused", "painting", "done"}
       /\ {jobs[e].raw, jobs[e].book} \subseteq {"off", "probing", "told"}
  /\ inFlight = Cardinality({e \in Events : jobs[e].kind = "sim" /\ Open(e)})
  /\ inFlight <= MAX_IN_FLIGHT
  /\ Len(bars) <= MAX_LATENCY_BARS
  /\ Len(sim.ingress) <= INGRESS_SAMPLES /\ Len(served) <= SERVED_SAMPLES
  /\ missed \subseteq Events /\ cuts \in 0 .. MaxCuts

\* The work that a bar claims to measure, each piece of it once.
WorkOf(b) ==
  LET p == Profile[b.id]
  IN  p.parse + p.tunnel + HandlerOf(p) + p.it
      + (IF b.source = "client" THEN p.hop ELSE 0)
      + (IF jobs[b.id].kind = "fire" THEN p.paint ELSE 0)

\* "The bar carries the FULL pipeline breakdown, so we can report the honest
\* end-to-end" (lib/liveStats.ts:7-8): the segments of a bar whose row was seen are
\* the work done for its event, nothing twice and nothing left out, in whatever
\* order the answer, verified and it_visible came, unless a message was lost.
SegmentsAddUp ==
  \A i \in DOMAIN bars :
    IsConfirmed(bars[i]) /\ bars[i].id \notin missed =>
      /\ E2E(bars[i]) = WorkOf(bars[i])
      /\ Handler(bars[i]) = HandlerOf(Profile[bars[i].id])

\* "These six terms are DISJOINT [...] so they sum to the true end-to-end with no
\* double-count and no gap" (latency/page.tsx:200-205), of the last bar seen.
ReconAddsUp ==
  LET c == Confirmed(bars)
  IN  c # << >> /\ c[Len(c)].id \notin missed =>
        Recon(bars) = WorkOf(c[Len(c)]) + c[Len(c)].render

SumOfSteps ==
  LET shown == [i \in DOMAIN Pipeline |-> AtLeast0(LiveLast(bars, Pipeline[i]))]
  IN  shown[1] + shown[2] + shown[3] + shown[4] + shown[5] + shown[6]

NoPipeline == [i \in DOMAIN bars |-> [bars[i] EXCEPT !.network = 0, !.vm = NoVm]]

\* The panels work their numbers out on their own and tell the same: the three
\* that rank clicks; the widget's samples and the bars of its fires; for one event,
\* the live total, the stack, the steps of the latency page, its reconciliation, the
\* doc table of the desk and the simulator's way from the click to the picture.  The
\* click pipeline, which both sides of the comparison share, does not sway its verdict.
\* The widgets stay mounted; one mounted anew starts without samples, next to old bars.
PanelsAgree ==
  LET live == LiveLatency(bars)
      stats == LatencyStatsOf(bars)
      fresh == StrategyFreshness(bars)
      b == bars[1]
      fires == \A i \in DOMAIN bars : jobs[bars[i].id].kind = "fire"
  IN  /\ Clicked(bars) = Confirmed(bars) =>
           /\ live.p50 = stats.p50 /\ live.p50 = fresh.q_user
           /\ live.p99 = stats.p99 /\ live.count = stats.count
      /\ fires /\ Confirmed(bars) = bars => live.p50 = Median(served)
      /\ PipelineHealth(bars).rawPct = live.confirmedPct
      /\ Len(bars) = 1 /\ IsConfirmed(b) =>
           /\ live.last = StackTotal(b) - b.render + TransportOf(b)
           /\ b.source = "client" => SumOfSteps = StackTotal(b)
           /\ b.source = "ws" => SumOfSteps = Recon(bars) - b.network
           /\ \A i \in DOMAIN Pipeline :
                LiveMedian(bars, Pipeline[i]) = LiveLast(bars, Pipeline[i])
           /\ jobs[b.id].kind = "sim" /\ sim.count = 1 /\ Done(b.id) /\ b.id \notin missed =>
                ClickToVisualized(bars, sim.ingress, << 1 >>) = WorkOf(b) + Profile[b.id].hop + 1
           /\ LiveDocStats(bars, << 1 >>).e2e = live.last - TransportOf(b) - b.vm.over + 1
      /\ \A page \in {<< >>, << 1 >>, << 1, STREAMLIT_RENDER_MS >>} :
           Comparison(bars, page, << 1 >>, << 1 >>) = Comparison(NoPipeline, page, << 1 >>, << 1 >>)
=============================================================================
