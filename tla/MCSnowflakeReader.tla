------------------------- MODULE MCSnowflakeReader -------------------------
(* Small instances of SnowflakeReader for TLC. *)
EXTENDS SnowflakeReader

CONSTANTS c1, c2, s1, s2

TwoClients == {c1, c2}
OneClient == {c1}
TwoSlots == {s1, s2}

\* A mark moves the tape, the totals and the top marks; sectors weigh what the
\* dimension table says.
EveryVersionNew ==
  [k \in Keys |-> [v \in Versions |-> IF k = "sector" THEN 0 ELSE v]]
=============================================================================
