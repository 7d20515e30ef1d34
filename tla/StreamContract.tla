--------------------------- MODULE StreamContract ---------------------------
(***************************************************************************)
(* What the channel pool promises its callers, without channels, buffers   *)
(* or retries: a call is submitted, its rows land in the table of its      *)
(* partition, never before rows of a later call and at most MaxCopies      *)
(* times, and the call ends.  A call that ends "ok" and that waits for its *)
(* flush has landed; a call that ends "err" may land all the same, before  *)
(* or after its caller is told.                                            *)
(***************************************************************************)
EXTENDS Integers, Sequences, FiniteSets

CONSTANTS Calls, Partitions, PartitionOf, RowCalls, MaxCopies

VARIABLES next, table, outcome

contractVars == << next, table, outcome >>

Copies(c) == { i \in 1 .. Len(table[PartitionOf[c]]) : table[PartitionOf[c]][i] = c }

Init ==
  /\ next = 1
  /\ table = [p \in Partitions |-> << >>]
  /\ outcome = [c \in Calls |-> "none"]

Submit ==
  /\ next \in Calls
  /\ next' = next + 1
  /\ UNCHANGED << table, outcome >>

Land(c) ==
  LET t == table[PartitionOf[c]] IN
  /\ c < next
  /\ \A i \in 1 .. Len(t) : t[i] <= c
  /\ Cardinality(Copies(c)) < MaxCopies
  /\ table' = [table EXCEPT ![PartitionOf[c]] = Append(@, c)]
  /\ UNCHANGED << next, outcome >>

End(c, result) ==
  /\ c < next /\ outcome[c] = "none"
  /\ result = "ok" /\ c \in RowCalls => Copies(c) # {}
  /\ outcome' = [outcome EXCEPT ![c] = result]
  /\ UNCHANGED << next, table >>

Next ==
  \/ Submit
  \/ \E c \in Calls : Land(c) \/ \E result \in {"ok", "err"} : End(c, result)

Spec == Init /\ [][Next]_contractVars
=============================================================================
