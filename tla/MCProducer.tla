----------------------------- MODULE MCProducer -----------------------------
(* Small instances of Producer for TLC. *)
EXTENDS Producer

CONSTANTS p1, p2, probe

OnePosition == [p \in {p1} |-> [baseline |-> 0, rating |-> 0, par |-> 2]]
TwoPositions == [p \in {p1, p2} |-> [baseline |-> 0, rating |-> 0,
                                    par |-> IF p = p1 THEN 2 ELSE 3]]

Mark(p) == [pos |-> p, type |-> "MARK"]

Rating(p) == [pos |-> p, type |-> "CREDIT_EVENT"]

\* The positions of a batch are interleaved, and its groups mix marks and ratings.
MixedBatch == {<< Mark(p1), Mark(p2), Rating(p1) >>, << Mark(p1), Rating(p1) >>}

TwoMarks == {<< Mark(p1), Mark(p1) >>}
=============================================================================
