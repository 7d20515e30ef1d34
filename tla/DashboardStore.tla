---------------------------- MODULE DashboardStore ----------------------------
(***************************************************************************)
(* The reducers of the browser's store (web/src/lib/store.ts) that decide  *)
(* what stays on screen: the tape and the latency bars.  Each is a         *)
(* function of the old value; Dashboard and LatencyLab apply them.         *)
(*                                                                         *)
(* A tape row is [id, status].  A bar is [id, source, vm, it, render]: who *)
(* measured it, what the verified message fills in, the word on the        *)
(* visibility of its row and what the paint took.  Dashboard keeps of      *)
(* these only whether they have been filled in, LatencyLab the times.      *)
(***************************************************************************)
EXTENDS Naturals, Sequences, SequencesExt

CONSTANTS
  MAX_TAPE,          \* rows of the tape
  MAX_LATENCY_BARS   \* bars of the chart

ASSUME StoreAssumption == /\ MAX_TAPE \in Nat \ {0}
                          /\ MAX_LATENCY_BARS \in Nat \ {0}

Ids(rows) == {rows[i].id : i \in DOMAIN rows}

\* Fault: nothing is cut.
FirstNAll(s, n) == s

\* .slice(0, n) and .slice(-n)
FirstN(s, n) == SubSeq(s, 1, IF Len(s) < n THEN Len(s) ELSE n)
LastN(s, n) == SubSeq(s, IF Len(s) > n THEN Len(s) - n + 1 ELSE 1, Len(s))

-----------------------------------------------------------------------------
(* The tape.                                                               *)

\* Fault: the row is added whether or not the tape has it.
AddOptimisticAgain(tape, e) ==
  FirstN(<< [id |-> e, status |-> "pending"] >> \o tape, MAX_TAPE)

AddOptimisticEvent(tape, e) ==
  IF e \in Ids(tape)
    THEN tape
    ELSE FirstN(<< [id |-> e, status |-> "pending"] >> \o tape, MAX_TAPE)

VerifyEvent(tape, e) ==
  [i \in DOMAIN tape |->
     IF tape[i].id = e THEN [tape[i] EXCEPT !.status = "verified"] ELSE tape[i]]

\* .filter(r => r in S): SelectSeq as a function, which proofs can unfold.
Only(s, S) ==
  LET kept[n \in 0 .. Len(s)] ==
        IF n = 0 THEN << >>
        ELSE IF s[n] \in S THEN Append(kept[n - 1], s[n]) ELSE kept[n - 1]
  IN  kept[Len(s)]

\* Pending rows the server's rows do not have.
PendingUnmatched(tape, rows) ==
  Only(tape, {r \in ToSet(tape) : r.status = "pending" /\ r.id \notin Ids(rows)})

\* Fault: every pending row is kept on top, matched or not.
SetTapeKeepsAll(tape, rows, optimisticEnabled) ==
  FirstN(SelectSeq(tape, LAMBDA r : optimisticEnabled /\ r.status = "pending") \o rows, MAX_TAPE)

\* Fault: an answer of the server confirms every pending row.
SetTapeGreens(tape, rows, optimisticEnabled) ==
  FirstN([i \in DOMAIN PendingUnmatched(tape, rows) |->
            [PendingUnmatched(tape, rows)[i] EXCEPT !.status = "verified"]] \o rows, MAX_TAPE)

\* The rows of the server replace the tape; with the optimistic preview on, the
\* pending rows it does not have stay on top.
SetTape(tape, rows, optimisticEnabled) ==
  FirstN(IF optimisticEnabled THEN PendingUnmatched(tape, rows) \o rows ELSE rows,
        MAX_TAPE)

-----------------------------------------------------------------------------
(* The latency bars.                                                       *)

BarsOf(bars, e) == {i \in DOMAIN bars : bars[i].id = e}

\* Fault: the last bar of an event wins, whoever measured it.
AddLatencyBarLastWins(bars, bar) ==
  IF BarsOf(bars, bar.id) # {}
    THEN [i \in DOMAIN bars |-> IF bars[i].id = bar.id THEN bar ELSE bars[i]]
    ELSE LastN(Append(bars, bar), MAX_LATENCY_BARS)

\* A client bar takes the place of a ws bar of the event; any other second bar
\* is ignored.
AddLatencyBar(bars, bar) ==
  IF BarsOf(bars, bar.id) # {}
    THEN [i \in DOMAIN bars |->
            IF bars[i].id = bar.id /\ bar.source = "client" /\ bars[i].source # "client"
              THEN bar ELSE bars[i]]
    ELSE LastN(Append(bars, bar), MAX_LATENCY_BARS)

\* verified: the commit times are filled in.
UpdateLatencyBarByEventId(bars, e, vm) ==
  [i \in DOMAIN bars |-> IF bars[i].id = e THEN [bars[i] EXCEPT !.vm = vm] ELSE bars[i]]

\* it_visible: of the raw table ("it") or of the book ("book").
UpdateLatencyBarItPoll(bars, e, table, word) ==
  [i \in DOMAIN bars |->
     IF bars[i].id = e THEN [bars[i] EXCEPT ![table] = word] ELSE bars[i]]

\* updateLatencyBar, whose label is that of the client bar of the event.
UpdateLatencyBar(bars, e, ms) ==
  [i \in DOMAIN bars |->
     IF bars[i].id = e /\ bars[i].source = "client"
       THEN [bars[i] EXCEPT !.render = ms] ELSE bars[i]]
=============================================================================
