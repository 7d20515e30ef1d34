-------------------------------- MODULE MCPages --------------------------------
(* Small instances of Pages for TLC. *)
EXTENDS Pages

AllParts == {"desk", "serving", "chat", "latency"}
LatencyOnly == {"latency"}

Two == {1, 2}

\* The two events do not spend their time on the same things.
TwoProfiles ==
  << [hop |-> 2, parse |-> 1, tunnel |-> 3, sdk |-> 1, raw |-> 4, bookFlush |-> 2, rest |-> 1,
      it |-> 5, bookIt |-> 2, paint |-> 1, partition |-> 1],
     [hop |-> 1, parse |-> 0, tunnel |-> 2, sdk |-> 1, raw |-> 1, bookFlush |-> 3, rest |-> 0,
      it |-> 2, bookIt |-> 6, paint |-> 2, partition |-> 0] >>

\* What the probes of an event may say: the first one's row may not be seen in time,
\* the second one's is seen in both tables.  A probe without a word is still at it.
ProbeWordsOf ==
  << {<< "raw", "real" >>, << "raw", "floor" >>}, {<< "raw", "real" >>, << "book", "real" >>} >>

E(type) == [is |-> "event", of |-> type]
T(text) == [is |-> "data", of |-> text]
B == [is |-> "blank", of |-> ""]

\* A status, two deltas and one that is not JSON, a stream that ends in DONE; an
\* event in two data lines, one without a type, and a tail without its blank line;
\* an answer that ends in an error.
ThreeScripts ==
  {<< E("status"), T("s"), B, E("delta"), T("a"), B, T("bad"), B, T("b"), B, T("DONE") >>,
   << T("c"), B, B, E("delta"), T("d"), T("e"), B, T("f"), B, E("tool"), T("g"), B, T("h") >>,
   << E("delta"), T("i"), B, E("error"), T("j"), B, E("delta"), T("k"), B >>}
=============================================================================
