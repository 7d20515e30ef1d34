---------------------------- MODULE IngestContract ----------------------------
(***************************************************************************)
(* What POST /api/ingest promises the tabs about one event, without the    *)
(* tunnel, the producer or the probes: it is announced, and then either    *)
(* verified, once its row is committed, or given up.  A given-up event may *)
(* be committed all the same, before or after.  The visibility of its rows *)
(* is told only of a verified event, once per table, and told as confirmed *)
(* only when a row is visible.                                             *)
(***************************************************************************)
CONSTANTS Events, Tables

VARIABLES
  phase,      \* per event: "new", "pending", "verified" or "failed"
  committed,  \* events whose row is committed to RAW_EVENTS
  visible,    \* per event: the tables that show it
  told        \* per event: what was told of each table, "none", "floor" or "real"

contractVars == << phase, committed, visible, told >>

Init ==
  /\ phase = [e \in Events |-> "new"]
  /\ committed = {}
  /\ visible = [e \in Events |-> {}]
  /\ told = [e \in Events |-> [t \in Tables |-> "none"]]

Announce(e) ==
  /\ phase[e] = "new"
  /\ phase' = [phase EXCEPT ![e] = "pending"]
  /\ UNCHANGED << committed, visible, told >>

Commit(e) ==
  /\ phase[e] # "new"
  /\ committed' = committed \union {e}
  /\ UNCHANGED << phase, visible, told >>

Verify(e) ==
  /\ phase[e] = "pending" /\ e \in committed
  /\ phase' = [phase EXCEPT ![e] = "verified"]
  /\ UNCHANGED << committed, visible, told >>

GiveUp(e) ==
  /\ phase[e] = "pending"
  /\ phase' = [phase EXCEPT ![e] = "failed"]
  /\ UNCHANGED << committed, visible, told >>

Show(e, t) ==
  /\ e \in committed /\ t \notin visible[e]
  /\ visible' = [visible EXCEPT ![e] = @ \union {t}]
  /\ UNCHANGED << phase, committed, told >>

Tell(e, t, word) ==
  /\ phase[e] = "verified" /\ told[e][t] = "none"
  /\ word = "real" => t \in visible[e]
  /\ told' = [told EXCEPT ![e][t] = word]
  /\ UNCHANGED << phase, committed, visible >>

\* The id of a finished event is free for the next one (a fresh UUID).
Forget(e) ==
  /\ phase[e] \in {"verified", "failed"}
  /\ phase' = [phase EXCEPT ![e] = "new"]
  /\ committed' = committed \ {e}
  /\ visible' = [visible EXCEPT ![e] = {}]
  /\ told' = [told EXCEPT ![e] = [t \in Tables |-> "none"]]

Next ==
  \E e \in Events :
    \/ Announce(e) \/ Commit(e) \/ Verify(e) \/ GiveUp(e) \/ Forget(e)
    \/ \E t \in Tables : Show(e, t) \/ \E word \in {"floor", "real"} : Tell(e, t, word)

Spec == Init /\ [][Next]_contractVars
=============================================================================
