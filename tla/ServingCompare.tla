----------------------------- MODULE ServingCompare -----------------------------
(***************************************************************************)
(* The comparison of the three serving strategies: the route               *)
(* /api/serving-compare, which reads the book in three ways one after      *)
(* another while the tables go on changing, and the two panels that poll   *)
(* it, on the desk (components/ServingStrategyComparison.tsx) and on the   *)
(* demo page (app/demo/page.tsx).                                          *)
(*                                                                         *)
(* The totals of a table are its version; a mark moves RAW_EVENTS and      *)
(* POSITION_BOOK each in its own time.  The round trips that the panels     *)
(* sample are left out: nothing is decided by them.                        *)
(***************************************************************************)
EXTENDS Integers, Sequences, FiniteSets

CONSTANTS
  Requests,         \* 1 .. N, slots for the requests under way at once (a bound)
  MaxRows,          \* versions of the tables (a bound)
  MaxServingFaults, \* queries and requests that fail (a bound)
  MaxMounts         \* times the panel is left and mounted again (a bound)

ServingAssumption ==
  /\ MaxRows \in Nat /\ MaxServingFaults \in Nat /\ MaxMounts \in Nat

Strategies == << "windowed", "preagg", "optimized" >>
TableOf == [windowed |-> "raw", preagg |-> "book", optimized |-> "raw"]
NoTotal == -1
Panels == {"desk", "demo"}

VARIABLES
  panel,      \* which of the two panels is mounted
  rows,       \* per table: the version that a query sees
  requests,   \* per slot: stage, warehouse to read from, totals so far, alive
  shown,      \* the panel: does it say that the totals match, and its error
  broken,     \* faults so far
  mounts

servingVars == << panel, rows, requests, shown, broken, mounts >>

NoRequest == [stage |-> "done", from |-> "interactive", totals |-> << >>, alive |-> FALSE]
Asking == [NoRequest EXCEPT !.stage = "reading", !.alive = TRUE]
Blank == [match |-> "none", err |-> FALSE]

\* A panel asks at once when it is mounted.
ServingInit ==
  /\ panel \in Panels
  /\ rows = [t \in {"raw", "book"} |-> 0]
  /\ requests = [r \in Requests |-> IF r = 1 THEN Asking ELSE NoRequest]
  /\ shown = Blank
  /\ broken = 0 /\ mounts = 0

\* The first slot that is free takes the next request.
Free(r) == requests[r] = NoRequest /\ \A q \in Requests : q < r => requests[q] # NoRequest

Breaks == broken < MaxServingFaults /\ broken' = broken + 1

\* A commit becomes visible in one of the tables.
Commit(t) ==
  /\ rows[t] < MaxRows
  /\ rows' = [rows EXCEPT ![t] = @ + 1]
  /\ UNCHANGED << panel, requests, shown, broken, mounts >>

-----------------------------------------------------------------------------
(* The route.                                                              *)

Reading(r) == requests[r].stage = "reading" /\ Len(requests[r].totals) < Len(Strategies)
Turn(r) == Len(requests[r].totals) + 1

\* The next strategy starts on the interactive warehouse again.
Answers(r, total) ==
  requests' = [requests EXCEPT ![r].totals = Append(@, total), ![r].from = "interactive"]

ReadOk(r) ==
  /\ Reading(r)
  /\ Answers(r, rows[TableOf[Strategies[Turn(r)]]])
  /\ UNCHANGED << panel, rows, shown, broken, mounts >>

\* The totals of the standard warehouse stand in for those of the interactive
\* one; a strategy that fails on both has none.
ReadFails(r) ==
  /\ Reading(r) /\ Breaks
  /\ IF requests[r].from = "interactive"
       THEN requests' = [requests EXCEPT ![r].from = "standard"]
       ELSE Answers(r, NoTotal)
  /\ UNCHANGED << panel, rows, shown, mounts >>

\* Fault: more than three strategies are asked to agree.
TotalsMatchOfAll(totals) ==
  /\ Cardinality({i \in DOMAIN totals : totals[i] # NoTotal}) > 3
  /\ \A i, j \in DOMAIN totals : totals[i] = totals[j]

\* All strategies that answered agree, and there is more than one of them.
TotalsMatch(totals) ==
  LET ok == {i \in DOMAIN totals : totals[i] # NoTotal}
  IN  Cardinality(ok) > 1 /\ \A i, j \in ok : totals[i] = totals[j]

RequestBreaks(r) ==
  /\ requests[r].stage = "reading" /\ Breaks
  /\ requests' = [requests EXCEPT ![r].stage = "failed"]
  /\ UNCHANGED << panel, rows, shown, mounts >>

-----------------------------------------------------------------------------
(* The panel.                                                              *)

\* setInterval: ticks do not wait for each other.
Tick(r) ==
  /\ Free(r)
  /\ requests' = [requests EXCEPT ![r] = Asking]
  /\ UNCHANGED << panel, rows, shown, broken, mounts >>

\* An answer lands and replaces what is shown, whichever tick asked for it.
AnswerShown(r) ==
  /\ requests[r].stage = "reading" /\ ~Reading(r)
  /\ requests' = [requests EXCEPT ![r] = NoRequest]
  /\ shown' = IF requests[r].alive
                THEN [match |-> IF TotalsMatch(requests[r].totals) THEN "yes" ELSE "no",
                      err |-> FALSE]
                ELSE shown
  /\ UNCHANGED << panel, rows, broken, mounts >>

\* The desk says so and keeps what it shows; the demo page says nothing.
ErrorShown(r) ==
  /\ requests[r].stage = "failed"
  /\ requests' = [requests EXCEPT ![r] = NoRequest]
  /\ shown' = IF requests[r].alive /\ panel = "desk" THEN [shown EXCEPT !.err = TRUE] ELSE shown
  /\ UNCHANGED << panel, rows, broken, mounts >>

\* The page is left and opened again, perhaps the other one.
Remount(p, r) ==
  /\ mounts < MaxMounts /\ Free(r)
  /\ mounts' = mounts + 1 /\ panel' = p
  /\ shown' = Blank
  /\ requests' = [q \in Requests |-> IF q = r THEN Asking ELSE [requests[q] EXCEPT !.alive = FALSE]]
  /\ UNCHANGED << rows, broken >>

ReadEnds(r) == ReadOk(r) \/ ReadFails(r) \/ RequestBreaks(r)
Lands(r) == AnswerShown(r) \/ ErrorShown(r)

ServingNext ==
  \/ \E t \in {"raw", "book"} : Commit(t)
  \/ \E r \in Requests : ReadEnds(r) \/ Lands(r) \/ Tick(r) \/ \E p \in Panels : Remount(p, r)

ServingSpec == ServingInit /\ [][ServingNext]_servingVars

-----------------------------------------------------------------------------

ServingTypeOK ==
  /\ panel \in Panels
  /\ \A r \in Requests :
       /\ requests[r].stage \in {"reading", "failed", "done"}
       /\ Len(requests[r].totals) <= Len(Strategies)
       /\ \A i \in DOMAIN requests[r].totals :
            \/ requests[r].totals[i] = NoTotal
            \/ requests[r].totals[i] <= rows[TableOf[Strategies[i]]]
  /\ shown.match \in {"none", "yes", "no"}
  /\ shown.err => panel = "desk"

\* Marks that come while the three are read make them differ, answers that overtake
\* each other show an old verdict, and queries fail; once both tables hold the
\* same marks the panel says for good that the totals match, and drops its error.
TotalsSettle ==
  <>[](rows["raw"] = rows["book"] => shown = [match |-> "yes", err |-> FALSE])
=============================================================================
