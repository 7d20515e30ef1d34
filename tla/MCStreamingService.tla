------------------------- MODULE MCStreamingService -------------------------
(* Small instances of StreamingService for TLC. *)
EXTENDS StreamingService

CONSTANTS t1, t2

TwoThreads == {t1, t2}

\* Calls 1 and 2 share a partition; call 3, if there is one, has another.
TwoPartitions == [c \in Calls |-> IF c <= 2 THEN 0 ELSE 1]

OnePartition == [c \in Calls |-> 0]

\* Call 2 is a batch, the others are single rows.
AllButSecond == Calls \ {2}
=============================================================================
