----------------------------- MODULE LatencyViews -----------------------------
(***************************************************************************)
(* What the pages compute from the latency bars of the store: the live     *)
(* percentiles (web/src/lib/liveStats.ts) and the numbers that the desk,   *)
(* the demo page and the latency page each work out for themselves.  The   *)
(* panels filter, add up and rank the same bars in different ways.         *)
(*                                                                         *)
(* A bar is [id, source, network, vm, it, book, render], where vm is [sdk, *)
(* flush, over, transport, partition] and it and book, the two probes, are *)
(* [ms, word]: 0 and "none" until the probe speaks, "floor" if it gave up. *)
(***************************************************************************)
EXTENDS Integers, DashboardStore, FiniteSetsExt

CONSTANTS
  MIN_CLICKS,           \* bars that the summary of the comparison needs: 5
  STREAMLIT_RENDER_MS,  \* what a rerun of the Streamlit page takes
  TIED_MS               \* a difference the summary calls a tie: 500

Null == -1      \* a number that is not there yet; the pages show a dash
NoWord == [ms |-> 0, word |-> "none"]

-----------------------------------------------------------------------------
(* Filters, medians and percentiles.                                       *)

\* .filter(test) and .map(of).
Keep(s, Test(_)) == Only(s, {x \in ToSet(s) : Test(x)})
Times(s, Of(_)) == [i \in DOMAIN s |-> Of(s[i])]

\* .sort(): at i is the number with fewer than i numbers below it and no fewer than i
\* up to it.
Below(xs, x) == Cardinality({i \in DOMAIN xs : xs[i] < x})
UpTo(xs, x) == Cardinality({i \in DOMAIN xs : xs[i] <= x})
Ascending(xs) ==
  [i \in DOMAIN xs |-> CHOOSE x \in ToSet(xs) : Below(xs, x) < i /\ i <= UpTo(xs, x)]

\* The upper one of two middle elements.
Median(xs) == IF xs = << >> THEN Null ELSE Ascending(xs)[(Len(xs) \div 2) + 1]

\* Nearest rank, clamped to the last one.
Pct(xs, p) ==
  IF xs = << >> THEN Null
                ELSE Ascending(xs)[Min({Len(xs), ((p * Len(xs)) \div 100) + 1})]

\* Twice the median of LatencyComparison, which takes the mean of two middle ones.
MedianAvg2(xs) ==
  IF xs = << >> THEN Null
  ELSE LET s == Ascending(xs)  mid == (Len(xs) \div 2) + 1
       IN  IF Len(xs) % 2 # 0 THEN 2 * s[mid] ELSE s[mid - 1] + s[mid]

-----------------------------------------------------------------------------
(* One bar.                                                                *)

Handler(b) == b.vm.sdk + b.vm.flush + b.vm.over

\* Fault: the transport is added whoever measured the bar.
TransportOfAll(b) == b.vm.transport

\* A client bar has the transport in its network time already.
TransportOf(b) == IF b.source = "ws" THEN b.vm.transport ELSE 0

E2E(b) == b.network + TransportOf(b) + Handler(b) + b.it.ms

\* The footer of a stack of LatencyTimeline: the render counts, the transport of
\* a ws bar has no segment.
StackTotal(b) == b.network + Handler(b) + b.render + b.it.ms

\* The terms of the reconciliation on the latency page, whoever measured the bar.
ReconTotal(b) == b.network + b.vm.transport + Handler(b) + b.it.ms + b.render

IsProbed(b) == b.it.ms > 0
Probed(bars) == Keep(bars, IsProbed)
IsConfirmed(b) == IsProbed(b) /\ b.it.word # "floor"
Confirmed(bars) == Keep(bars, IsConfirmed)

Network(b) == b.network
Visibility(b) == b.it.ms
Sdk(b) == b.vm.sdk
Flush(b) == b.vm.flush

-----------------------------------------------------------------------------
(* computeLiveLatency: all bars whose row was seen.                        *)

LiveLatency(bars) ==
  LET c == Confirmed(bars)
      totals == Times(c, E2E)
  IN  [count |-> Len(c),
       p50 |-> Median(totals), p90 |-> Pct(totals, 90), p99 |-> Pct(totals, 99),
       last |-> IF c = << >> THEN Null ELSE E2E(c[Len(c)]),
       visibility |-> Median(Times(c, Visibility)),
       transport |-> Median(Times(c, TransportOf)),
       confirmedPct |-> IF Probed(bars) = << >> THEN Null
                        ELSE (100 * Len(c)) \div Len(Probed(bars))]

(***************************************************************************)
(* Panels of the clicks only.                                              *)
(***************************************************************************)
IsClicked(b) == b.source = "client" /\ IsConfirmed(b)
Clicked(bars) == Keep(bars, IsClicked)

\* From the click to the row in RAW_EVENTS.
ClickTotal(b) == b.network + Handler(b) + b.it.ms

StatsOf(c) ==
  LET totals == Times(c, ClickTotal)
  IN  [count |-> Len(c), p50 |-> Median(totals), p99 |-> Pct(totals, 99)]

\* Fault: bars of a probe that gave up are counted.
LatencyStatsOfAll(bars) ==
  StatsOf(Keep(bars, LAMBDA b : b.source = "client" /\ IsProbed(b)))

\* LatencyStats: click to verified.
LatencyStatsOf(bars) == StatsOf(Clicked(bars))

\* The freshness of the serving strategies, from the click ("user") and from
\* where the event is produced ("pipeline"): raw table, book, optimistic paint.
StrategyFreshness(bars) ==
  LET c == Clicked(bars)
      ofBook == Keep(c, LAMBDA b : b.book.word \notin {"none", "floor"})
  IN  [q_pipeline |-> Median(Times(c, LAMBDA b : Handler(b) + b.it.ms)),
       q_user |-> Median(Times(c, ClickTotal)),
       qbook_pipeline |-> Median(Times(ofBook, LAMBDA b : Handler(b) + b.book.ms)),
       qbook_user |-> Median(Times(ofBook, LAMBDA b : b.network + Handler(b) + b.book.ms)),
       v_pipeline |-> Median(Times(c, LAMBDA b : Handler(b) + b.render)),
       v_user |-> Median(Times(c, LAMBDA b : b.network + Handler(b) + b.render))]

\* The health line below it: both probes of all bars, and the spread over partitions.
PipelineHealth(bars) ==
  LET ofBook == Keep(bars, LAMBDA b : b.book.word # "none")
      seen == Keep(ofBook, LAMBDA b : b.book.word # "floor")
      parts == {bars[i].vm.partition : i \in DOMAIN bars}
      On(p) == Cardinality({i \in DOMAIN bars : bars[i].vm.partition = p})
  IN  [rawPct |-> IF Probed(bars) = << >> THEN Null
                  ELSE (100 * Len(Confirmed(bars))) \div Len(Probed(bars)),
       bookPct |-> IF ofBook = << >> THEN Null ELSE (100 * Len(seen)) \div Len(ofBook),
       distinct |-> Cardinality(parts),
       skewPct |-> IF bars = << >> THEN Null
                   ELSE (100 * Max({On(p) : p \in parts})) \div Len(bars)]

(***************************************************************************)
(* The latency page.  A zero is a segment this path does not measure.      *)
(***************************************************************************)
\* The live fields of a step of the pipeline, and whose bars have them.
Pipeline == << "network", "transport", "append", "flush", "it", "render" >>
StepSource == [network |-> {"client"}, transport |-> {"ws"}, append |-> {"client", "ws"},
               flush |-> {"client", "ws"}, it |-> {"client", "ws"}, render |-> {"client"}]

StepTime(b, step) ==
  CASE step = "network" -> b.network
    [] step = "transport" -> b.vm.transport
    [] step = "append" -> b.vm.sdk + b.vm.over
    [] step = "flush" -> b.vm.flush
    [] step = "it" -> b.it.ms
    [] step = "render" -> b.render

StepBars(bars, step) == Keep(Confirmed(bars), LAMBDA b : b.source \in StepSource[step])

LiveMedian(bars, step) ==
  LET xs == Times(StepBars(bars, step), LAMBDA b : StepTime(b, step))
  IN  Median(Keep(xs, LAMBDA x : x > 0))

LiveLast(bars, step) ==
  LET of == StepBars(bars, step)
  IN  IF of = << >> \/ StepTime(of[Len(of)], step) = 0 THEN Null
      ELSE StepTime(of[Len(of)], step)

\* Do the parts add up?  Of the last bar whose row was seen.
Recon(bars) ==
  LET c == Confirmed(bars)
  IN  IF c = << >> THEN Null ELSE ReconTotal(c[Len(c)])

(***************************************************************************)
(* Panels of all bars, probed or not.                                      *)
(***************************************************************************)
\* liveDocStats of the desk: every bar counts, and its zeros and floors too.
LiveDocStats(bars, chartTimings) ==
  LET Of(F(_)) == Median(Times(bars, F))
  IN  [n |-> Len(bars), itPoll |-> Of(Visibility),
       e2e |-> IF bars = << >> \/ chartTimings = << >> THEN Null
               ELSE Of(Network) + Of(Sdk) + Of(Flush) + Of(Visibility) + Median(chartTimings)]

\* The swim lanes of LatencyComparison, React against a Streamlit rerun, in half
\* milliseconds: they share the click pipeline.
OrZero(x) == IF x = Null THEN 0 ELSE x

SwimLanes(bars, fullPage, delivery, scan) ==
  LET Of(F(_)) == OrZero(MedianAvg2(Times(bars, F)))
      click == Of(Network) + Of(Sdk) + Of(Flush)
      pushed == OrZero(Median(scan)) + OrZero(Median(delivery))
  IN  [react |-> click + Of(Visibility) + 2 * (pushed + OrZero(Median(fullPage))),
       streamlit |-> click + 2 * STREAMLIT_RENDER_MS]

\* The verdict below them, which needs enough bars, a full-page render, a delivery
\* over the socket and a scan of the tape.
Comparison(bars, fullPage, delivery, scan) ==
  LET lanes == SwimLanes(bars, fullPage, delivery, scan)
      delta == lanes.streamlit - lanes.react
      shown == Len(bars) >= MIN_CLICKS /\ fullPage # << >> /\ delivery # << >> /\ scan # << >>
  IN  IF ~shown THEN "hidden"
      ELSE IF delta > -2 * TIED_MS /\ delta < 2 * TIED_MS THEN "tied"
      ELSE IF delta > 0 THEN "react" ELSE "streamlit"

\* MarketSimulator: the hop of its own posts in front of the live end-to-end time.
ClickToQueryable(bars, ingress) ==
  LET live == LiveLatency(bars).p50
  IN  IF live = Null THEN Null
      ELSE live + IF ingress = << >> THEN 0 ELSE Median(ingress)

ClickToVisualized(bars, ingress, fullPage) ==
  IF ClickToQueryable(bars, ingress) = Null THEN Null
  ELSE ClickToQueryable(bars, ingress) + IF fullPage = << >> THEN 0 ELSE Median(fullPage)
=============================================================================
