--------------------------------- MODULE Desk ---------------------------------
(***************************************************************************)
(* The polling effect of the desk page (web/src/app/desk/page.tsx) with    *)
(* the routes it polls: /api/snapshot and its standard-warehouse and       *)
(* time-travel variants, and /api/observability.  Polls are started by a   *)
(* timer whether or not the last one has been answered, and the view may   *)
(* change while they are under way.  The socket pushes the same tiles on   *)
(* its own.                                                                *)
(*                                                                         *)
(* The content of a tile is the view it was fetched for ("push" when it    *)
(* came over the socket) and the version of the database it shows, Default *)
(* when its query failed.                                                  *)
(***************************************************************************)
EXTENDS Integers, FiniteSets

CONSTANTS
  Fetches,      \* 1 .. N, slots for the fetches that are under way at once (a bound)
  MaxVersion,   \* changes of the database (a bound)
  MaxFaults,    \* queries and requests that fail (a bound)
  MaxSwitches,  \* changes of the view (a bound)
  MaxPushes,    \* messages on the socket (a bound)
  BannerAfter   \* failures that raise the banner: 3

DeskAssumption ==
  /\ IsFiniteSet(Fetches)
  /\ MaxVersion \in Nat /\ MaxFaults \in Nat /\ MaxSwitches \in Nat /\ MaxPushes \in Nat
  /\ BannerAfter \in Nat \ {0}

Versions == 0 .. MaxVersion
Default == -1
LiveViews == {"interactive", "standard"}
Views == LiveViews \union {"past"}
Kinds == {"snapshot", "observability"}

VARIABLES
  db,         \* version of the tables
  view,       \* timeTravelOffset > 0, or else warehouseMode
  fetches,    \* per slot: kind, view, alive of its closure, stage, version read
  tiles,      \* per kind of fetch: the content of the tiles it sets
  errors,     \* consecutiveErrorCount
  failedHere, \* snapshot requests that have failed since the view was chosen (history)
  faults, switches, pushes

vars == << db, view, fetches, tiles, errors, failedHere, faults, switches, pushes >>

Idle == [kind |-> "snapshot", view |-> "past", alive |-> FALSE, stage |-> "idle", v |-> Default]
Asked(kind, w) == [kind |-> kind, view |-> w, alive |-> TRUE, stage |-> "asked", v |-> Default]

Empty == [from |-> "none", v |-> Default]

\* The page is opened in the interactive view, which polls at once.
Init ==
  /\ db = 0 /\ view = "interactive"
  /\ fetches = [f \in Fetches |-> IF f = 1 THEN Asked("snapshot", view) ELSE Idle]
  /\ tiles = [k \in Kinds |-> Empty]
  /\ errors = 0 /\ failedHere = 0
  /\ faults = 0 /\ switches = 0 /\ pushes = 0

\* The first slot that is free takes the next fetch.
Free(f) == fetches[f] = Idle /\ \A g \in Fetches : g < f => fetches[g] # Idle

Fault == faults < MaxFaults /\ faults' = faults + 1

Write ==
  /\ db < MaxVersion
  /\ db' = db + 1
  /\ UNCHANGED << view, fetches, tiles, errors, failedHere, faults, switches, pushes >>

-----------------------------------------------------------------------------
(* The routes.                                                             *)

Answer(f, stage, v) ==
  /\ fetches' = [fetches EXCEPT ![f].stage = stage, ![f].v = v]
  /\ UNCHANGED << db, view, tiles, errors, switches, pushes >>

\* What a read returns: the tables, or the tables of long ago.
Reads(f) == IF fetches[f].view = "past" THEN 0 ELSE db

Served(f) ==
  /\ fetches[f].stage = "asked"
  /\ Answer(f, "ok", Reads(f))
  /\ UNCHANGED << faults, failedHere >>

\* Promise.allSettled: the tiles of a query that failed get their defaults, in an
\* answer that is ok.  Promise.all: the route answers 500.
QueryFails(f) ==
  /\ fetches[f].stage = "asked"
  /\ Fault
  /\ Answer(f, IF fetches[f].kind = "snapshot" THEN "ok" ELSE "failed", Default)
  /\ UNCHANGED failedHere

\* The request itself fails, or is answered with an error status.
RequestFails(f) ==
  /\ fetches[f].stage = "asked"
  /\ Fault
  /\ Answer(f, "failed", Default)
  /\ failedHere' = IF fetches[f].alive /\ fetches[f].kind = "snapshot"
                     THEN failedHere + 1 ELSE failedHere

-----------------------------------------------------------------------------
(* The page.                                                               *)

\* setInterval: a live view polls, however many answers are due.
Poll(f, kind) ==
  /\ view \in LiveViews /\ Free(f)
  /\ fetches' = [fetches EXCEPT ![f] = Asked(kind, view)]
  /\ UNCHANGED << db, view, tiles, errors, failedHere, faults, switches, pushes >>

Frees(f) ==
  /\ fetches' = [fetches EXCEPT ![f] = Idle]
  /\ UNCHANGED << db, view, failedHere, faults, switches, pushes >>

Shows(f) == tiles' = [tiles EXCEPT ![fetches[f].kind] = [from |-> fetches[f].view, v |-> fetches[f].v]]

\* Fault: what follows the await does not ask whether the view is still the same.
LandsAnyway(f) ==
  /\ fetches[f].stage = "ok"
  /\ Shows(f)
  /\ errors' = IF fetches[f].kind = "snapshot" THEN 0 ELSE errors
  /\ Frees(f)

\* Fault: an answer does not reset the count.
LandsSilently(f) ==
  /\ fetches[f].stage = "ok"
  /\ IF fetches[f].alive THEN Shows(f) ELSE UNCHANGED tiles
  /\ UNCHANGED errors
  /\ Frees(f)

\* Fault: tiles that show the view already are not set again.
LandsOnce(f) ==
  /\ fetches[f].stage = "ok"
  /\ IF fetches[f].alive /\ tiles[fetches[f].kind].from # fetches[f].view
       THEN Shows(f) ELSE UNCHANGED tiles
  /\ errors' = IF fetches[f].alive /\ fetches[f].kind = "snapshot" THEN 0 ELSE errors
  /\ Frees(f)

\* An answer lands: with its view left it is dropped; otherwise its tiles are
\* set, whatever their age, and the error count is reset.
Lands(f) ==
  /\ fetches[f].stage = "ok"
  /\ IF fetches[f].alive
       THEN /\ Shows(f)
            /\ errors' = IF fetches[f].kind = "snapshot" THEN 0 ELSE errors
       ELSE UNCHANGED << tiles, errors >>
  /\ Frees(f)

\* Fault: failures of a view that was left are counted in the next one.
FailsAnyway(f) ==
  /\ fetches[f].stage = "failed"
  /\ errors' = IF fetches[f].kind = "snapshot" /\ fetches[f].view \in LiveViews
                 THEN errors + 1 ELSE errors
  /\ UNCHANGED tiles
  /\ Frees(f)

\* A failed snapshot of a live view is counted; the time-travel fetch and the
\* observability poll are given up without a count.
Fails(f) ==
  /\ fetches[f].stage = "failed"
  /\ errors' = IF fetches[f].alive /\ fetches[f].kind = "snapshot" /\ fetches[f].view \in LiveViews
                 THEN errors + 1 ELSE errors
  /\ UNCHANGED tiles
  /\ Frees(f)

\* Fault: no cleanup, so the closures of the old view believe to be current.
SwitchNoCleanup(w, f) ==
  /\ w # view /\ switches < MaxSwitches
  /\ Free(f)
  /\ switches' = switches + 1
  /\ view' = w
  /\ fetches' = [fetches EXCEPT ![f] = Asked("snapshot", w)]
  /\ UNCHANGED << db, tiles, errors, failedHere, faults, pushes >>

\* The cleanup of the effect and the effect again.  A live view polls both
\* routes at once, the second as its interval does; the past is fetched once.
Switch(w, f) ==
  /\ w # view /\ switches < MaxSwitches
  /\ Free(f)
  /\ switches' = switches + 1
  /\ view' = w
  /\ fetches' = [g \in Fetches |-> IF g = f THEN Asked("snapshot", w)
                                   ELSE [fetches[g] EXCEPT !.alive = FALSE]]
  /\ errors' = IF view \in LiveViews THEN 0 ELSE errors
  /\ failedHere' = 0
  /\ UNCHANGED << db, tiles, faults, pushes >>

\* The socket knows nothing of the view.
Push ==
  /\ pushes < MaxPushes
  /\ pushes' = pushes + 1
  /\ tiles' = [tiles EXCEPT !["snapshot"] = [from |-> "push", v |-> db]]
  /\ UNCHANGED << db, view, fetches, errors, failedHere, faults, switches >>

-----------------------------------------------------------------------------

Answered(f) == Served(f) \/ QueryFails(f) \/ RequestFails(f)
Handled(f) == Lands(f) \/ Fails(f)

Next ==
  \/ Write \/ Push
  \/ \E f \in Fetches : \/ Answered(f) \/ Handled(f)
                        \/ \E kind \in Kinds : Poll(f, kind)
                        \/ \E w \in Views : Switch(w, f)

Spec == Init /\ [][Next]_vars

-----------------------------------------------------------------------------

Contents == [from : Views \union {"push", "none"}, v : Versions \union {Default}]

TypeOK ==
  /\ db \in Versions /\ view \in Views
  /\ \A f \in Fetches :
       /\ fetches[f].kind \in Kinds /\ fetches[f].view \in Views
       /\ fetches[f].stage \in {"idle", "asked", "ok", "failed"}
       /\ fetches[f].v \in Versions \union {Default}
       /\ fetches[f].alive => fetches[f].view = view
  /\ tiles \in [Kinds -> Contents]
  /\ errors \in 0 .. MaxFaults /\ failedHere \in 0 .. MaxFaults

\* Only the view that is chosen, or the socket, changes a tile or the banner: an
\* answer that was under way when the view changed is never shown in the next one,
\* and its failure is not counted there ("so a stuck red banner [...] doesn't
\* carry", desk/page.tsx:337).
ShowsItsView ==
  [][/\ \A k \in Kinds : tiles'[k] # tiles[k] => tiles'[k].from \in {view, "push"}
     /\ errors' <= failedHere']_vars

\* The banner goes away: when requests are answered again, or the view is left.
BannerClears == errors >= BannerAfter ~> errors = 0

\* Once the view and the tables no longer change, the tiles of a live view end up
\* showing the tables, in spite of overlapping polls that land in any order,
\* failures, pushes and earlier views.
TilesConverge ==
  <>[](view \in LiveViews =>
         \A k \in Kinds : tiles[k].from \in {view, "push"} /\ tiles[k].v = db)

\* Time travel shows the past if its one fetch comes through and nothing is
\* pushed: neither is retried nor held back (desk/page.tsx:157-200).
PastIsShown ==
  <>[](view = "past" /\ faults = 0 /\ pushes = 0 =>
         tiles["snapshot"] = [from |-> "past", v |-> 0])
=============================================================================
