--------------------------- MODULE ProducerProofs ---------------------------
(***************************************************************************)
(* What holds of the position book for every set of events, every set of   *)
(* positions and all values, and of the producer that keeps it for every   *)
(* dimension table and every bound.                                        *)
(***************************************************************************)
EXTENDS Producer, WellFoundedInduction, FiniteSetTheorems, TLAPS

-----------------------------------------------------------------------------
(* The position book and its rollup.                                       *)

\* The rows carry a timestamp, none later than now.
StampedBy(rows, now) == \A r \in rows : r.ts \in 0 .. now

\* A table with rows has a latest one, which ORDER BY ... DESC finds.
LEMMA LatestExists ==
  ASSUME NEW now \in Nat, NEW rows, StampedBy(rows, now), rows # {}
  PROVE  /\ RowNumberOne(rows) \in rows
         /\ \A s \in rows : s.ts <= RowNumberOne(rows).ts
<1> DEFINE Ages == {k \in 0 .. now : \E r \in rows : r.ts = now - k}
<1>1. Ages \subseteq Nat /\ Ages # {}
  <2>1. PICK r \in rows : TRUE  OBVIOUS
  <2>2. r.ts \in 0 .. now  BY DEF StampedBy
  <2>3. now - r.ts \in 0 .. now /\ r.ts = now - (now - r.ts)  BY <2>2
  <2>4. QED  BY <2>3
<1>2. PICK k \in Ages : \A j \in Ages : ~ (<< j, k >> \in OpToRel(<, Nat))
  <2> HIDE DEF Ages
  <2>1. QED  BY <1>1, NatLessThanWellFounded, WFMin
<1>3. PICK r \in rows : r.ts = now - k  OBVIOUS
<1>4. ASSUME NEW s \in rows PROVE s.ts <= r.ts
  <2>1. s.ts \in 0 .. now  BY DEF StampedBy
  <2>2. now - s.ts \in Ages  BY <2>1
  <2>3. ~ (now - s.ts < k)  BY <1>1, <1>2, <2>2 DEF OpToRel
  <2>4. k \in 0 .. now  OBVIOUS
  <2>5. QED  BY <1>3, <2>1, <2>3, <2>4
<1>5. QED  BY <1>4 DEF RowNumberOne

LEMMA KeyedByType ==
  ASSUME NEW now \in Nat, NEW ev, NEW type, StampedBy(ev, now)
  PROVE  /\ {e \in ev : TsWhen(e, type) # Null} = OfType(ev, type)
         /\ \A e \in OfType(ev, type) : TsWhen(e, type) = e.ts /\ ValueWhen(e, type) = e.value
BY NullAssumption DEF StampedBy, TsWhen, ValueWhen, OfType

\* MAX_BY with a key that is NULL for the other types finds the row that the
\* window function finds among the rows of the type.
LEMMA SameLatest ==
  ASSUME NEW now \in Nat, NEW ev, NEW type, StampedBy(ev, now)
  PROVE  LatestByType(ev, type) = LatestOrNull(OfType(ev, type))
<1> DEFINE T == OfType(ev, type)
<1>0. /\ {e \in ev : TsWhen(e, type) # Null} = T
      /\ \A e \in T : TsWhen(e, type) = e.ts /\ ValueWhen(e, type) = e.value
  BY KeyedByType
<1>1. (CHOOSE r \in T : \A s \in T : TsWhen(s, type) <= TsWhen(r, type)) = RowNumberOne(T)
  <2>1. \A r \in T : (\A s \in T : TsWhen(s, type) <= TsWhen(r, type))
                       <=> (\A s \in T : s.ts <= r.ts)
    BY <1>0
  <2>2. QED  BY <2>1 DEF RowNumberOne
<1>2. CASE T = {}
  BY <1>0, <1>2 DEF LatestByType, MaxBy, LatestOrNull
<1>3. CASE T # {}
  <2> DEFINE r == CHOOSE r \in T : \A s \in T : TsWhen(s, type) <= TsWhen(r, type)
  <2>1. LatestByType(ev, type) = ValueWhen(r, type)
    BY <1>0, <1>3 DEF LatestByType, MaxBy
  <2>2. RowNumberOne(T) \in T
    BY <1>3, LatestExists DEF StampedBy, OfType
  <2>3. ValueWhen(RowNumberOne(T), type) = RowNumberOne(T).value  BY <1>0, <2>2
  <2>4. LatestOrNull(T) = RowNumberOne(T).value  BY <1>3 DEF LatestOrNull
  <2> HIDE DEF r
  <2>5. r = RowNumberOne(T)  BY <1>1 DEF r
  <2>6. LatestByType(ev, type) = ValueWhen(r, type)  BY <2>1
  <2>7. QED  BY <2>3, <2>4, <2>5, <2>6
<1>4. QED  BY <1>2, <1>3

\* queries.ts: strategies 1 and 3 are two texts for one book.  A window query and
\* a GROUP BY with MAX_BY give the same lines for every set of events, those with
\* NULL marks and unknown positions included.
THEOREM WindowedIsOptimized ==
  ASSUME NEW now \in Nat, NEW ev, StampedBy(ev, now)
  PROVE  Windowed(ev) = Optimized(ev)
<1> SUFFICES ASSUME NEW p \in PositionsOf(ev)
             PROVE  WindowedLine(Of(ev, p)) = OptimizedLine(Of(ev, p))
  BY DEF Windowed, Optimized
<1> DEFINE rows == Of(ev, p)
<1>1. StampedBy(rows, now) /\ rows # {}  BY DEF StampedBy, Of, PositionsOf
<1> HIDE DEF rows
<1> DEFINE r == CHOOSE r \in rows : \A s \in rows : EventTs(s) <= EventTs(r)
<1>2. {e \in rows : EventTs(e) # Null} = rows  BY <1>1, NullAssumption DEF StampedBy, EventTs
<1>3. r = RowNumberOne(rows)  BY DEF EventTs, RowNumberOne
<1>4. /\ MaxBy(rows, LAMBDA e : e.attrs.baseline, EventTs) = r.attrs.baseline
      /\ MaxBy(rows, LAMBDA e : e.attrs.rating, EventTs) = r.attrs.rating
      /\ MaxBy(rows, LAMBDA e : e.attrs.par, EventTs) = r.attrs.par
  BY <1>1, <1>2 DEF MaxBy
<1>5. /\ LatestByType(rows, "MARK") = LatestOrNull(OfType(rows, "MARK"))
      /\ LatestByType(rows, "CREDIT_EVENT") = LatestOrNull(OfType(rows, "CREDIT_EVENT"))
  BY <1>1, SameLatest
<1>6. WindowedLine(rows) = OptimizedLine(rows)
  BY <1>3, <1>4, <1>5 DEF WindowedLine, OptimizedLine
<1>7. QED  BY <1>6 DEF rows

-----------------------------------------------------------------------------
LEMMA NewestIsLatest ==
  ASSUME NEW now \in Nat, NEW rows, StampedBy(rows, now), NEW e, e.ts \in Int, e.ts > now
  PROVE  RowNumberOne(rows \union {e}) = e
<1> DEFINE R == rows \union {e}
           IsLatest(r) == \A s \in R : s.ts <= r.ts
<1>1. IsLatest(e)  BY DEF StampedBy
<1>2. ASSUME NEW r \in R, IsLatest(r) PROVE r = e  BY <1>2 DEF StampedBy
<1>3. (CHOOSE r \in R : IsLatest(r)) = e  BY <1>1, <1>2
<1>4. QED  BY <1>3 DEF RowNumberOne

LEMMA OfTypeAfter ==
  ASSUME NEW ev, NEW e, NEW type
  PROVE  OfType(ev \union {e}, type)
           = IF e.type = type THEN OfType(ev, type) \union {e} ELSE OfType(ev, type)
BY DEF OfType

\* The latest value of a type after one more event.
LEMMA LatestAfter ==
  ASSUME NEW now \in Nat, NEW ev, StampedBy(ev, now), NEW e, e.ts \in Int, e.ts > now,
         NEW type
  PROVE  LatestOrNull(OfType(ev \union {e}, type))
           = IF e.type = type THEN e.value ELSE LatestOrNull(OfType(ev, type))
<1>1. StampedBy(OfType(ev, type), now)  BY DEF StampedBy, OfType
<1>2. RowNumberOne(OfType(ev, type) \union {e}) = e  BY <1>1, NewestIsLatest
<1>3. CASE e.type = type
  <2>1. OfType(ev \union {e}, type) = OfType(ev, type) \union {e}  BY <1>3, OfTypeAfter
  <2>2. LatestOrNull(OfType(ev, type) \union {e}) = e.value  BY <1>2 DEF LatestOrNull
  <2>3. QED  BY <1>3, <2>1, <2>2
<1>4. CASE e.type # type
  <2>1. OfType(ev \union {e}, type) = OfType(ev, type)  BY ZenonT(20), <1>4, OfTypeAfter
  <2>2. QED  BY <1>4, <2>1
<1>5. QED  BY <1>3, <1>4

\* The rolled up line of a position after one more event.
LEMMA LineAfter ==
  ASSUME NEW now \in Nat, NEW ev, StampedBy(ev, now), ev # {},
         NEW e, e.ts \in Int, e.ts > now, e.value # Null, \A f \in ev : f.attrs = e.attrs
  PROVE  WindowedLine(ev \union {e})
           = CASE e.type = "MARK" -> [WindowedLine(ev) EXCEPT !.mark = e.value]
               [] e.type = "CREDIT_EVENT" -> [WindowedLine(ev) EXCEPT !.rating = e.value]
               [] OTHER -> WindowedLine(ev)
<1> DEFINE line == WindowedLine(ev)
           after == WindowedLine(ev \union {e})
<1>1. RowNumberOne(ev \union {e}) = e  BY NewestIsLatest
<1>2. RowNumberOne(ev).attrs = e.attrs  BY LatestExists
<1>3. after.opening = line.opening /\ after.par = line.par
  BY <1>1, <1>2 DEF WindowedLine
<1>4. after.mark = IF e.type = "MARK" THEN e.value ELSE line.mark
  BY <1>1, <1>2, LatestAfter DEF WindowedLine, Coalesce
<1>5. after.rating = IF e.type = "CREDIT_EVENT" THEN e.value ELSE line.rating
  BY <1>1, <1>2, LatestAfter DEF WindowedLine, Coalesce
<1>6. /\ line = [opening |-> line.opening, mark |-> line.mark,
                 rating |-> line.rating, par |-> line.par]
      /\ after = [opening |-> after.opening, mark |-> after.mark,
                  rating |-> after.rating, par |-> after.par]
  BY DEF WindowedLine
<1> HIDE DEF line, after
<1>7. after = CASE e.type = "MARK" -> [line EXCEPT !.mark = e.value]
                [] e.type = "CREDIT_EVENT" -> [line EXCEPT !.rating = e.value]
                [] OTHER -> line
  <2>1. CASE e.type = "MARK"  BY <1>3, <1>4, <1>5, <1>6, <2>1
  <2>2. CASE e.type = "CREDIT_EVENT"  BY <1>3, <1>4, <1>5, <1>6, <2>2
  <2>3. CASE e.type \notin {"MARK", "CREDIT_EVENT"}  BY <1>3, <1>4, <1>5, <1>6, <2>3
  <2>4. QED  BY <2>1, <2>2, <2>3
<1>8. QED  BY <1>7 DEF line, after

\* book.py mirrors bookCte: moving the line of a position by an event and adding
\* the event to the table the line is rolled up from give the same line, for
\* every history of the position, every kind of event and every value.  What the
\* mirror rests on is in the hypotheses: the event is the newest of its position
\* and carries the attributes the position had before.
THEOREM RollupFollowsBook ==
  ASSUME NEW now \in Nat, NEW ev, StampedBy(ev, now), ev # {},
         NEW e, e.ts \in Int, e.ts > now, e.value # Null, \A f \in ev : f.attrs = e.attrs,
         NEW b, e.pos \in DOMAIN b, b[e.pos] = WindowedLine(ev)
  PROVE  /\ UpdateBookState(b, e)[e.pos] = WindowedLine(ev \union {e})
         /\ \A p \in DOMAIN b : p # e.pos => UpdateBookState(b, e)[p] = b[p]
<1> DEFINE line == WindowedLine(ev)
           after == WindowedLine(ev \union {e})
<1>1. after = CASE e.type = "MARK" -> [line EXCEPT !.mark = e.value]
                [] e.type = "CREDIT_EVENT" -> [line EXCEPT !.rating = e.value]
                [] OTHER -> line
  BY LineAfter
<1> HIDE DEF line, after
<1>2. UpdateBookState(b, e)[e.pos]
        = CASE e.type = "MARK" -> [b[e.pos] EXCEPT !.mark = e.value]
            [] e.type = "CREDIT_EVENT" -> [b[e.pos] EXCEPT !.rating = e.value]
            [] OTHER -> b[e.pos]
  <2>1. CASE e.type = "MARK"  BY <2>1 DEF UpdateBookState
  <2>2. CASE e.type = "CREDIT_EVENT"  BY <2>2 DEF UpdateBookState
  <2>3. CASE e.type \notin {"MARK", "CREDIT_EVENT"}  BY <2>3 DEF UpdateBookState
  <2>4. QED  BY <2>1, <2>2, <2>3
<1>3. b[e.pos] = line  BY DEF line
<1>4. UpdateBookState(b, e)[e.pos] = after  BY <1>1, <1>2, <1>3
<1>5. \A p \in DOMAIN b : p # e.pos => UpdateBookState(b, e)[p] = b[p]  BY DEF UpdateBookState
<1>6. QED  BY <1>4, <1>5 DEF after

-----------------------------------------------------------------------------

(***************************************************************************)
(* Types.  Beside TypeOK, the invariant says that everything is stamped by *)
(* now, that nothing is under way outside "serving", and that the stamps   *)
(* the seed loop still takes are within the bound.                         *)
(***************************************************************************)
RowsIn(fly) == {f.row : f \in fly}
RawRows  == raw \union RowsIn(rawFly)
BookRows == book \union RowsIn(bookFly)

CallRows ==
  CASE call.kind \in {"raw", "book"} -> {call.event}
    [] call.kind = "batch" -> call.rows
    [] call.kind = "apply" -> call.rows \union call.group \union {call.last}
    [] OTHER -> {}

Timed(rows, now) == \A r \in rows : r.ts \in 1 .. now

Stamped ==
  Timed(RawRows, clock) /\ Timed(BookRows, clock) /\ Timed(CallRows, clock) /\ Timed(acked, clock)

TypeInv ==
  /\ TypeOK /\ Stamped
  /\ phase # "serving" => call = Idle
  /\ phase = "seed" => clock + Cardinality(todo \ marking) <= MaxClock
  /\ phase # "seed" => marking = {}
  /\ \A p \in marking : marking = {p} /\ p \notin recent /\ clock > 0
  /\ call.kind = "batch" => call.rows # {}

LEMMA TimedStamped ==
  ASSUME NEW now \in Nat, NEW rows, Timed(rows, now) PROVE StampedBy(rows, now)
BY DEF Timed, StampedBy

LEMMA SubmittedRows ==
  ASSUME NEW rows, NEW flush
  PROVE  /\ RowsIn(Submitted(rows, flush)) = rows
         /\ \A f \in Submitted(rows, flush) : f.row \in rows /\ f.flush = flush
<1>1. \A r \in rows : [row |-> r, flush |-> flush] \in Submitted(rows, flush)
  BY DEF Submitted
<1>2. \A f \in Submitted(rows, flush) : f.row \in rows /\ f.flush = flush  BY DEF Submitted
<1>3. ASSUME NEW r \in rows PROVE r \in RowsIn(Submitted(rows, flush))
  <2>1. PICK f \in Submitted(rows, flush) : f = [row |-> r, flush |-> flush]  BY <1>1
  <2>2. f.row = r  BY <2>1
  <2>3. QED  BY <2>2 DEF RowsIn
<1>4. \A r \in RowsIn(Submitted(rows, flush)) : r \in rows  BY <1>2 DEF RowsIn
<1>5. QED  BY <1>2, <1>3, <1>4

LEMMA RowsInUnion ==
  ASSUME NEW F, NEW G PROVE RowsIn(F \union G) = RowsIn(F) \union RowsIn(G)
BY DEF RowsIn

LEMMA SubmitOne ==
  ASSUME NEW fly, NEW row, NEW later, later = fly \union Submitted({row}, "sent")
  PROVE  RowsIn(later) = RowsIn(fly) \union {row}
<1> DEFINE rows == {row}
           flush == "sent"
<1> HIDE DEF rows, flush
<1>1. RowsIn(fly \union Submitted(rows, flush)) = RowsIn(fly) \union rows
  BY RowsInUnion, SubmittedRows
<1>2. QED  BY <1>1 DEF rows, flush

LEMMA SureRows ==
  ASSUME NEW fly, NEW row
  PROVE  /\ RowsIn(Sure(fly, row)) = RowsIn(fly)
         /\ \A f \in Sure(fly, row) : f.flush = "seen" \/ f \in fly
         /\ \A f \in fly : f.row # row => f \in Sure(fly, row)
         /\ row \in RowsIn(fly) => [row |-> row, flush |-> "seen"] \in Sure(fly, row)
<1> DEFINE New(f) == IF f.row = row THEN [row |-> row, flush |-> "seen"] ELSE f
<1>1. \A f \in fly : New(f) \in Sure(fly, row) /\ New(f).row = f.row  BY DEF Sure
<1>2. \A g \in Sure(fly, row) : \E f \in fly : g = New(f)  BY DEF Sure
<1>3. RowsIn(Sure(fly, row)) = RowsIn(fly)  BY <1>1, <1>2 DEF RowsIn
<1>4. \A f \in Sure(fly, row) : f.flush = "seen" \/ f \in fly  BY <1>2
<1>5. \A f \in fly : f.row # row => f \in Sure(fly, row)  BY <1>1
<1>6. row \in RowsIn(fly) => [row |-> row, flush |-> "seen"] \in Sure(fly, row)
  BY <1>1 DEF RowsIn
<1>7. QED  BY <1>3, <1>4, <1>5, <1>6

LEMMA AttrsTyped == ASSUME TypeOK PROVE \A p : AttrsOf(p) \in Attrs
<1>1. NoAttrs \in Attrs  BY DEF NoAttrs, Attrs
<1>2. \A p \in DOMAIN positions : positions[p] \in Attrs
  BY ProducerAssumption DEF TypeOK, Empty
<1>3. QED  BY <1>1, <1>2 DEF AttrsOf

Types == {"TRADE", "MARK", "CREDIT_EVENT"}

LEMMA EventTyped ==
  ASSUME TypeOK, NEW item \in [pos : Ids, type : Types], NEW ts \in Nat
  PROVE  /\ EventAt(item, ts) \in Event
         /\ EventAt(item, ts).ts = ts /\ EventAt(item, ts).value = ts
BY AttrsTyped DEF EventAt, Event, Types

LEMMA SeedTyped ==
  ASSUME TypeOK, NEW p \in Known, NEW ts \in Nat
  PROVE  SeedRow(p, ts) \in Event
<1>1. AttrsOf(p) \in Attrs  BY AttrsTyped
<1>2. AttrsOf(p).baseline \in Int \union {Null}  BY <1>1 DEF Attrs
<1>3. QED  BY <1>1, <1>2 DEF SeedRow, Event, Ids

LEMMA UpdateTyped ==
  ASSUME NEW D, NEW b \in [D -> Line], NEW e \in Event
  PROVE  UpdateBookState(b, e) \in [D -> Line]
<1>1. e.value \in Int \union {Null}  BY DEF Event
<1>2. ASSUME NEW p \in D
      PROVE  [b[p] EXCEPT !.mark = e.value] \in Line /\ [b[p] EXCEPT !.rating = e.value] \in Line
  BY <1>1 DEF Line
<1>3. QED  BY <1>2 DEF UpdateBookState

LEMMA RowTyped ==
  ASSUME NEW D, D \subseteq Known, NEW b \in [D -> Line], NEW p \in D, NEW ts \in Nat
  PROVE  BookRowFor(b, p, ts) \in BookRow
<1>1. b[p] \in Line /\ p \in Known  OBVIOUS
<1>2. QED  BY <1>1 DEF BookRowFor, BookRow

LEMMA InitBookTyped == InitBook(POSITIONS_DIM) \in [Known -> Line] /\ InitBook(Empty) \in [DOMAIN Empty -> Line]
<1>1. \A p \in Known : POSITIONS_DIM[p] \in Attrs  BY ProducerAssumption
<1>2. InitBook(POSITIONS_DIM) \in [Known -> Line]  BY <1>1 DEF InitBook, Attrs, Line, Known
<1>3. QED  BY <1>2 DEF InitBook, Empty

LEMMA LatestTyped ==
  ASSUME NEW now \in Nat, NEW ev, ev \subseteq Event, Timed(ev, now), NEW type
  PROVE  LatestByType(ev, type) \in Int \union {Null}
<1>1. StampedBy(ev, now) /\ StampedBy(OfType(ev, type), now)
  BY DEF Timed, StampedBy, OfType
<1>2. LatestByType(ev, type) = LatestOrNull(OfType(ev, type))  BY <1>1, SameLatest
<1>3. OfType(ev, type) # {} => RowNumberOne(OfType(ev, type)) \in Event
  BY <1>1, LatestExists DEF OfType
<1>4. QED  BY <1>2, <1>3 DEF LatestOrNull, Event

LEMMA HydratedTyped ==
  ASSUME NEW now \in Nat, NEW ev, ev \subseteq Event, Timed(ev, now),
         NEW D, NEW b \in [D -> Line]
  PROVE  Hydrated(b, ev) \in [D -> Line]
<1> SUFFICES ASSUME NEW p \in D, p \in PositionsOf(ev)
             PROVE  ApplyHydrated(b, p, LatestByType(Of(ev, p), "MARK"),
                                  LatestByType(Of(ev, p), "CREDIT_EVENT"))[p] \in Line
  BY DEF Hydrated
<1>1. Of(ev, p) \subseteq Event /\ Timed(Of(ev, p), now)  BY DEF Of, Timed
<1> DEFINE m == LatestByType(Of(ev, p), "MARK")
           g == LatestByType(Of(ev, p), "CREDIT_EVENT")
<1>2. m \in Int \union {Null} /\ g \in Int \union {Null}  BY <1>1, LatestTyped
<1> HIDE DEF m, g
<1>3. ApplyHydrated(b, p, m, g)[p]
        = [b[p] EXCEPT !.mark = Coalesce(m, @), !.rating = Coalesce(g, @)]
  BY DEF ApplyHydrated
<1>4. b[p] \in Line  OBVIOUS
<1>5. ApplyHydrated(b, p, m, g)[p] \in Line  BY <1>2, <1>3, <1>4 DEF Line, Coalesce
<1>6. QED  BY <1>5 DEF m, g

-----------------------------------------------------------------------------
\* The steps of the tables change what is readable, not what is known.
LEMMA LandRows ==
  ASSUME Land
  PROVE  RawRows' = RawRows /\ BookRows' = BookRows
<1>1. ASSUME NEW f \in rawFly, raw' = raw \union {f.row}, rawFly' = rawFly \ {f},
             book' = book, bookFly' = bookFly
      PROVE  RawRows' = RawRows /\ BookRows' = BookRows
  BY <1>1 DEF RawRows, BookRows, RowsIn
<1>2. ASSUME NEW f \in bookFly, book' = book \union {f.row}, bookFly' = bookFly \ {f},
             raw' = raw, rawFly' = rawFly
      PROVE  RawRows' = RawRows /\ BookRows' = BookRows
  BY <1>2 DEF RawRows, BookRows, RowsIn
<1>3. QED  BY <1>1, <1>2 DEF Land

LEMMA LoseRows ==
  ASSUME Lose
  PROVE  /\ RawRows' \subseteq RawRows /\ BookRows' \subseteq BookRows
         /\ rawFly' \subseteq rawFly /\ bookFly' \subseteq bookFly
BY DEF Lose, RawRows, BookRows, RowsIn

LEMMA SureType ==
  ASSUME NEW fly, NEW row, NEW T, \A f \in fly : f.row \in T /\ f.flush \in {"sent", "seen"}
  PROVE  \A f \in Sure(fly, row) : f.row \in T /\ f.flush \in {"sent", "seen"}
<1>1. \A f \in Sure(fly, row) : f.row \in RowsIn(Sure(fly, row))  BY DEF RowsIn
<1>2. RowsIn(fly) \subseteq T  BY DEF RowsIn
<1>3. QED  BY <1>1, <1>2, SureRows

LEMMA TablesType == ASSUME TypeInv, Land \/ Lose \/ Age PROVE TypeInv'
<1>1. UNCHANGED << phase, memory, call, clock, acked >>  BY DEF Land, Lose, Age
<1>2. CASE Land
  <2>1. TypeOK'  BY <1>1, <1>2 DEF Land, TypeInv, TypeOK, memory
  <2>2. Stamped'  BY <1>1, <1>2, LandRows DEF TypeInv, Stamped, CallRows
  <2>3. QED  BY <1>1, <2>1, <2>2 DEF TypeInv, memory
<1>3. CASE Lose
  <2>1. TypeOK'  BY <1>1, <1>3, LoseRows DEF Lose, TypeInv, TypeOK, memory
  <2>2. Stamped'  BY <1>1, <1>3, LoseRows DEF TypeInv, Stamped, CallRows, Timed
  <2>3. QED  BY <1>1, <2>1, <2>2 DEF TypeInv, memory
<1>4. CASE Age
  <2>1. UNCHANGED tables  BY <1>4 DEF Age
  <2>2. horizon' \in 0 .. clock  BY <1>4 DEF Age, TypeInv, TypeOK
  <2>3. TypeOK'  BY <1>1, <2>1, <2>2 DEF TypeInv, TypeOK, memory, tables
  <2>4. Stamped'
    BY <1>1, <2>1 DEF TypeInv, Stamped, CallRows, RawRows, BookRows, tables
  <2>5. QED  BY <1>1, <2>3, <2>4 DEF TypeInv, memory
<1>5. QED  BY <1>2, <1>3, <1>4

\* The lifespan's rebuild, the watchdog and a crash change what is in memory.
LEMMA MemoryType == ASSUME TypeInv, Boot \/ BootFails \/ Heal \/ Crash PROVE TypeInv'
<1>1. UNCHANGED << tables, clock, horizon, acked >>  BY DEF Boot, BootFails, Heal, Crash
<1>2. call = Idle => call' = Idle  BY DEF Boot, BootFails, Heal, Crash
<1>3. call' = call \/ call' = Idle  BY DEF Boot, BootFails, Heal, Crash
<1>4. Stamped'
  <2>1. RawRows' = RawRows /\ BookRows' = BookRows  BY <1>1 DEF RawRows, BookRows, tables
  <2>2. Timed(CallRows', clock)
    <3>1. CASE call' = call  BY <3>1 DEF CallRows, TypeInv, Stamped
    <3>2. CASE call' = Idle  BY <3>2 DEF CallRows, Idle, Timed
    <3>3. QED  BY <1>3, <3>1, <3>2
  <2>3. QED  BY <1>1, <2>1, <2>2 DEF TypeInv, Stamped
<1>5. /\ clock \in Nat /\ Recent \subseteq Event /\ Timed(Recent, clock)
      /\ PositionsOf(Recent) \subseteq Ids
  <2>1. clock \in Nat /\ raw \subseteq Event  BY DEF TypeInv, TypeOK
  <2>2. Recent \subseteq raw  BY DEF Recent
  <2>3. Timed(Recent, clock)  BY <2>2 DEF TypeInv, Stamped, RawRows, Timed
  <2>4. QED  BY <2>1, <2>2, <2>3 DEF PositionsOf, Event
<1>6. CASE Boot
  <2>1. /\ phase' = "seed" /\ rawUp' = TRUE /\ bookUp' = TRUE /\ todo' = Known
        /\ positions' \in {Empty, POSITIONS_DIM} /\ call' = call
        /\ recent' \subseteq Ids
    BY <1>5, <1>6 DEF Boot
  <2>2. InitBook(positions') \in [DOMAIN positions' -> Line]
    BY <2>1, InitBookTyped DEF Known
  <2>3. Hydrated(InitBook(positions'), Recent) \in [DOMAIN positions' -> Line]
    BY <1>5, <2>2, HydratedTyped
  <2>4. BOOK' \in [DOMAIN positions' -> Line]  BY <1>6, <2>2, <2>3 DEF Boot
  <2>5. /\ call = Idle /\ clock + Cardinality(Known) <= MaxClock
        /\ marking = {} /\ marking' = {} /\ Known \ {} = Known
    BY <1>6 DEF Boot, MayBoot, TypeInv
  <2>6. TypeOK'  BY <1>1, <2>1, <2>4, <2>5 DEF TypeInv, TypeOK, tables
  <2>7. QED  BY <1>1, <1>4, <2>1, <2>5, <2>6 DEF TypeInv
<1>7. CASE BootFails
  <2>1. /\ phase = "down" /\ phase' = "serving" /\ rawUp' \in BOOLEAN /\ bookUp' \in BOOLEAN
        /\ UNCHANGED << positions, BOOK, recent, todo, marking, call >>
    BY <1>7 DEF BootFails, MayBoot
  <2>2. TypeOK'  BY <1>1, <2>1 DEF TypeInv, TypeOK, tables
  <2>3. QED  BY <1>4, <2>1, <2>2 DEF TypeInv
<1>8. CASE Heal
  <2>1. /\ phase' = phase /\ phase = "serving" /\ rawUp' \in BOOLEAN /\ bookUp' \in BOOLEAN
        /\ UNCHANGED << positions, BOOK, recent, todo, marking, call >>
    BY <1>8 DEF Heal, TypeInv, TypeOK
  <2>2. TypeOK'  BY <1>1, <2>1 DEF TypeInv, TypeOK, tables
  <2>3. QED  BY <1>4, <2>1, <2>2 DEF TypeInv
<1>9. CASE Crash
  <2>1. /\ phase' = "down" /\ rawUp' = FALSE /\ bookUp' = FALSE /\ positions' = Empty
        /\ BOOK' = Empty /\ recent' = {} /\ todo' = {} /\ marking' = {}
        /\ call' = Idle
    BY <1>9 DEF Crash
  <2>2. Empty \in [DOMAIN Empty -> Line]  BY DEF Empty
  <2>3. TypeOK'  BY <1>1, <2>1, <2>2 DEF TypeInv, TypeOK, tables
  <2>4. call'.kind = "none"  BY <2>1 DEF Idle
  <2>5. QED  BY <1>4, <2>1, <2>3, <2>4 DEF TypeInv
<1>10. QED  BY <1>6, <1>7, <1>8, <1>9

\* A step of the seed loop: the book row of p, or its baseline mark.
IsSeed(r) == r.app = "seed"

BookHalf(p, seeds, rows) ==
  /\ marking = {} /\ marking' \subseteq {p} /\ clock' = clock + 1 /\ seeds = {}
  /\ IF marking' = {p} THEN p \notin recent ELSE p \in recent \/ "book_error" \in Faults
  /\ \/ rows = {} /\ p \notin DOMAIN BOOK
     \/ p \in DOMAIN BOOK /\ rows = {BookRowFor(BOOK, p, clock + 1)}

MarkHalf(p, seeds, rows) ==
  /\ marking = {p} /\ p \notin recent /\ marking' = {} /\ clock' = clock /\ clock > 0
  /\ seeds = {SeedRow(p, clock)} /\ rows = {}

Seeded(p, seeds, rows) ==
  /\ phase = "seed" /\ p \in todo /\ clock \in Nat /\ call = Idle
  /\ BookHalf(p, seeds, rows) \/ MarkHalf(p, seeds, rows)
  /\ clock' \in Nat \ {0} /\ clock <= clock'
  /\ todo' = todo \ ({p} \ marking') /\ phase' = IF todo' = {} THEN "serving" ELSE "seed"
  /\ seeds \subseteq Event
  /\ \A s \in seeds : /\ s.pos = p /\ s.ts = clock' /\ IsSeed(s) /\ p \notin recent
                      /\ s.attrs = AttrsOf(p) /\ s.value = AttrsOf(p).baseline /\ s.type = "MARK"
  /\ rows \subseteq BookRow
  /\ \A r \in rows : /\ r.pos = p /\ r.ts = clock' /\ p \in DOMAIN BOOK
                     /\ r.line = BOOK[p]
  /\ RawRows' = RawRows \union seeds /\ BookRows' = BookRows \union rows
  /\ rawFly \subseteq rawFly' /\ bookFly \subseteq bookFly'
  /\ \A f \in rawFly' : f \in rawFly \/ (f.row \in seeds /\ f.flush \in {"sent", "seen"})
  /\ \A f \in bookFly' : f \in bookFly \/ (f.row \in rows /\ f.flush \in {"sent", "seen"})
  /\ CallRows' = {}
  /\ UNCHANGED << rawUp, bookUp, positions, BOOK, recent, call, raw, book, horizon, acked >>

LEMMA SubmittedTo ==
  ASSUME NEW fly, NEW rows, NEW flush, NEW later, later = fly \union Submitted(rows, flush)
  PROVE  RowsIn(later) = RowsIn(fly) \union rows /\ fly \subseteq later
<1>1. RowsIn(fly \union Submitted(rows, flush)) = RowsIn(fly) \union rows
  BY RowsInUnion, SubmittedRows
<1>2. QED  BY <1>1

LEMMA SeedBookEffect ==
  ASSUME TypeInv, NEW p \in Known, SeedBook(p)
  PROVE  \E rows : Seeded(p, {}, rows)
<1>1. /\ phase = "seed" /\ marking = {} /\ p \in todo /\ clock' = clock + 1
      /\ todo' = todo \ ({p} \ marking') /\ phase' = IF todo' = {} THEN "serving" ELSE "seed"
      /\ UNCHANGED << rawUp, bookUp, positions, BOOK, recent, call, raw, book, rawFly,
                      horizon, acked >>
  BY DEF SeedBook
<1>2. clock \in Nat /\ call = Idle  BY <1>1 DEF TypeInv, TypeOK
<1>3. PICK flush \in {"sent", "seen"} :
        /\ flush = "seen" \/ ("book_error" \in Faults /\ p \in DOMAIN BOOK)
        /\ bookFly' = bookFly \union
             IF p \in DOMAIN BOOK THEN Submitted({BookRowFor(BOOK, p, clock')}, flush) ELSE {}
        /\ marking' = IF flush = "seen" /\ SeedsBaseline(p) THEN {p} ELSE {}
  BY DEF SeedBook
<1>4. PICK rows :
        /\ \/ rows = {} /\ p \notin DOMAIN BOOK
           \/ p \in DOMAIN BOOK /\ rows = {BookRowFor(BOOK, p, clock + 1)}
        /\ bookFly' = bookFly \union Submitted(rows, flush)
  <2>1. Submitted({}, flush) = {}  BY DEF Submitted
  <2>2. QED  BY <1>1, <1>3, <2>1
<1>5. BookHalf(p, {}, rows)  BY <1>1, <1>3, <1>4 DEF BookHalf, SeedsBaseline
<1>6. \A r \in rows : /\ r \in BookRow /\ r.pos = p /\ r.ts = clock + 1 /\ p \in DOMAIN BOOK
                      /\ r.line = BOOK[p]
  <2>1. BOOK \in [DOMAIN positions -> Line] /\ DOMAIN positions \subseteq Known
    BY DEF TypeInv, TypeOK, Empty, Known
  <2>2. p \in DOMAIN BOOK => BookRowFor(BOOK, p, clock + 1) \in BookRow
    BY <1>2, <2>1, RowTyped
  <2>3. QED  BY <1>4, <2>2 DEF BookRowFor
<1>7. RawRows' = RawRows  BY <1>1 DEF RawRows
<1>8. /\ BookRows' = BookRows \union rows /\ bookFly \subseteq bookFly'
      /\ \A f \in bookFly' : f \in bookFly \/ (f.row \in rows /\ f.flush \in {"sent", "seen"})
  <2>1. RowsIn(bookFly') = RowsIn(bookFly) \union rows /\ bookFly \subseteq bookFly'
    BY <1>4, SubmittedTo
  <2>2. \A f \in bookFly' : f \in bookFly \/ (f.row \in rows /\ f.flush = flush)
    BY <1>4, SubmittedRows
  <2>3. flush \in {"sent", "seen"}  BY <1>3
  <2>4. QED  BY <1>1, <2>1, <2>2, <2>3 DEF BookRows
<1>9. CallRows' = {}  BY <1>1, <1>2 DEF CallRows, Idle
<1>10. clock' \in Nat \ {0} /\ clock <= clock'  BY <1>1, <1>2
<1>11. Seeded(p, {}, rows)
  BY <1>1, <1>2, <1>5, <1>6, <1>7, <1>8, <1>9, <1>10 DEF Seeded
<1>12. QED  BY <1>11

LEMMA SeedMarkEffect ==
  ASSUME TypeInv, NEW p \in Known, SeedMark(p)
  PROVE  \E seeds : Seeded(p, seeds, {})
<1>1. /\ p \in marking /\ marking' = {} /\ todo' = todo \ {p}
      /\ phase' = IF todo' = {} THEN "serving" ELSE "seed"
      /\ UNCHANGED << rawUp, bookUp, positions, BOOK, recent, call, raw, book, bookFly, clock,
                      horizon, acked >>
  BY DEF SeedMark
<1>2. /\ clock \in Nat /\ clock > 0 /\ call = Idle /\ phase = "seed" /\ p \in todo
      /\ marking = {p} /\ p \notin recent
  BY <1>1 DEF TypeInv, TypeOK
<1> DEFINE seeds == {SeedRow(p, clock)}
<1>3. PICK flush \in {"sent", "seen"} : rawFly' = rawFly \union Submitted(seeds, flush)
  BY DEF SeedMark
<1>4. \A s \in seeds : /\ s \in Event /\ s.pos = p /\ s.ts = clock /\ IsSeed(s)
                       /\ s.attrs = AttrsOf(p) /\ s.value = AttrsOf(p).baseline
                       /\ s.type = "MARK"
  <2>1. SeedRow(p, clock) \in Event  BY <1>2, SeedTyped DEF TypeInv
  <2>2. QED  BY <2>1 DEF SeedRow, IsSeed
<1>5. MarkHalf(p, seeds, {})  BY <1>1, <1>2 DEF MarkHalf
<1> HIDE DEF seeds
<1>6. /\ RawRows' = RawRows \union seeds /\ rawFly \subseteq rawFly'
      /\ \A f \in rawFly' : f \in rawFly \/ (f.row \in seeds /\ f.flush \in {"sent", "seen"})
  <2>1. RowsIn(rawFly') = RowsIn(rawFly) \union seeds /\ rawFly \subseteq rawFly'
    BY <1>3, SubmittedTo
  <2>2. \A f \in rawFly' : f \in rawFly \/ (f.row \in seeds /\ f.flush = flush)
    BY <1>3, SubmittedRows
  <2>3. QED  BY <1>1, <1>3, <2>1, <2>2 DEF RawRows
<1>7. BookRows' = BookRows  BY <1>1 DEF BookRows
<1>8. CallRows' = {}  BY <1>1, <1>2 DEF CallRows, Idle
<1>9. Seeded(p, seeds, {})
  BY <1>1, <1>2, <1>4, <1>5, <1>6, <1>7, <1>8 DEF Seeded
<1>10. QED  BY <1>9

LEMMA SeedEffect ==
  ASSUME TypeInv, NEW p \in Known, SeedBook(p) \/ SeedMark(p)
  PROVE  \E seeds, rows : Seeded(p, seeds, rows)
BY SeedBookEffect, SeedMarkEffect

LEMMA SeedType == ASSUME TypeInv, NEW p \in Known, SeedBook(p) \/ SeedMark(p) PROVE TypeInv'
<1>1. PICK seeds, rows : Seeded(p, seeds, rows)  BY SeedEffect
<1>2. /\ phase = "seed" /\ p \in todo /\ clock \in Nat /\ call = Idle
      /\ clock' \in Nat \ {0} /\ clock <= clock'
      /\ todo' = todo \ ({p} \ marking') /\ phase' = IF todo' = {} THEN "serving" ELSE "seed"
      /\ UNCHANGED << rawUp, bookUp, positions, BOOK, recent, call, raw, book, horizon, acked >>
  BY <1>1 DEF Seeded
<1>3. /\ marking' = {} \/ (marking' = {p} /\ p \notin recent)
      /\ \/ clock' = clock + 1 /\ marking = {}
         \/ clock' = clock /\ marking = {p} /\ marking' = {}
  BY <1>1 DEF Seeded, BookHalf, MarkHalf
<1>4. todo \subseteq Known /\ marking' \subseteq todo' /\ (todo' = {} => marking' = {})
  BY <1>2, <1>3 DEF TypeInv, TypeOK
<1>5. clock' + Cardinality(todo' \ marking') <= MaxClock /\ clock' \in 0 .. MaxClock
  <2> DEFINE left == todo \ marking
  <2>1. IsFiniteSet(left) /\ IsFiniteSet(left \ {p})
    <3>1. IsFiniteSet(Known) /\ left \subseteq Known  BY <1>4, ProducerAssumption
    <3>2. QED  BY <3>1, FS_Subset
  <2>2. todo' \ marking' = left \ {p}  BY <1>2, <1>3
  <2>3. p \in left => Cardinality(left \ {p}) = Cardinality(left) - 1
    BY <2>1, FS_RemoveElement
  <2>4. p \notin left => left \ {p} = left  OBVIOUS
  <2>5. p \in left <=> clock' = clock + 1  BY <1>2, <1>3
  <2>6. Cardinality(left) \in Nat /\ Cardinality(left \ {p}) \in Nat
    BY <2>1, FS_CardinalityType
  <2>7. clock + Cardinality(left) <= MaxClock  BY <1>2 DEF TypeInv
  <2>8. MaxClock \in Nat  BY ProducerAssumption
  <2> HIDE DEF left
  <2>9. clock' + Cardinality(left \ {p}) <= MaxClock
    <3>1. CASE p \in left  BY <1>2, <2>3, <2>5, <2>6, <2>7, <3>1
    <3>2. CASE p \notin left  BY <1>2, <1>3, <2>4, <2>5, <2>6, <2>7, <3>2
    <3>3. QED  BY <3>1, <3>2
  <2>10. QED  BY <1>2, <2>2, <2>6, <2>8, <2>9
<1>6. TypeOK'
  <2>1. \A f \in rawFly' : f.row \in Event /\ f.flush \in {"sent", "seen"}
    BY <1>1 DEF Seeded, TypeInv, TypeOK
  <2>2. \A f \in bookFly' : f.row \in BookRow /\ f.flush \in {"sent", "seen"}
    BY <1>1 DEF Seeded, TypeInv, TypeOK
  <2>3. horizon' \in 0 .. clock'  BY <1>2 DEF TypeInv, TypeOK
  <2>4. QED  BY <1>2, <1>4, <1>5, <2>1, <2>2, <2>3 DEF TypeInv, TypeOK
<1>7. Stamped'
  <2>1. Timed(RawRows, clock') /\ Timed(BookRows, clock') /\ Timed(acked, clock')
    BY <1>2 DEF TypeInv, Stamped, Timed
  <2>2. /\ RawRows' = RawRows \union seeds /\ BookRows' = BookRows \union rows
        /\ \A r \in seeds \union rows : r.ts = clock'
        /\ CallRows' = {}
    BY <1>1 DEF Seeded
  <2>3. QED  BY <1>2, <2>1, <2>2 DEF Stamped, Timed
<1>8. QED  BY <1>2, <1>3, <1>4, <1>5, <1>6, <1>7 DEF TypeInv

\* POST /ingest: the event and its line are submitted together.
Ingested(p, type, e, row) ==
  LET booked == p \in DOMAIN BOOK /\ bookUp IN
  /\ e \in Event /\ e.pos = p /\ e.type = type /\ e.ts = clock + 1 /\ e.value = clock + 1
  /\ e.app = "vm-hpa" /\ e.attrs = AttrsOf(p)
  /\ clock' = clock + 1 /\ clock' \in 0 .. MaxClock /\ phase = "serving" /\ call = Idle
  /\ BOOK' = UpdateBookState(BOOK, e) /\ BOOK' \in [DOMAIN positions -> Line]
  /\ rawFly' = rawFly \union Submitted({e}, "sent") /\ RawRows' = RawRows \union {e}
  /\ call' = [kind |-> "raw", event |-> e, row |-> row]
  /\ booked =>
       /\ row \in BookRow /\ row.pos = p /\ row.ts = clock + 1
       /\ row.line = BOOK'[p]
       /\ bookFly' = bookFly \union Submitted({row}, "sent") /\ BookRows' = BookRows \union {row}
  /\ ~booked => row = Null /\ bookFly' = bookFly /\ BookRows' = BookRows

LEMMA IngestEffect ==
  ASSUME TypeInv, NEW p \in Ids, NEW type \in EventTypes, Ingest(p, type)
  PROVE  \E e, row : Ingested(p, type, e, row)
<1>0. PICK e, row :
        /\ e = EventAt([pos |-> p, type |-> type], clock + 1)
        /\ row = IF p \in DOMAIN BOOK /\ bookUp THEN BookRowFor(BOOK', p, e.ts) ELSE Null
  OBVIOUS
<1>1. clock \in Nat /\ MaxClock \in Nat  BY ProducerAssumption DEF TypeInv, TypeOK
<1>2. type \in Types  BY ProducerAssumption DEF Types
<1>3. /\ e \in Event /\ e.pos = p /\ e.type = type /\ e.ts = clock + 1 /\ e.value = clock + 1
      /\ e.app = "vm-hpa" /\ e.attrs = AttrsOf(p)
  <2>1. [pos |-> p, type |-> type] \in [pos : Ids, type : Types]  BY <1>2
  <2>2. e \in Event  BY <1>0, <1>1, <2>1, EventTyped DEF TypeInv
  <2>3. QED  BY <1>0, <2>2 DEF EventAt
<1>4. /\ clock' = clock + 1 /\ clock < MaxClock /\ phase = "serving" /\ call = Idle
      /\ BOOK' = UpdateBookState(BOOK, e)
      /\ rawFly' = rawFly \union Submitted({e}, "sent")
      /\ raw' = raw /\ book' = book
  BY <1>0 DEF Ingest, Accepting
<1>5. call' = [kind |-> "raw", event |-> e, row |-> row]  BY <1>0 DEF Ingest
<1>6. bookFly' = bookFly \union
           IF p \in DOMAIN BOOK /\ bookUp THEN Submitted({row}, "sent") ELSE {}
  BY <1>0 DEF Ingest
<1>7. BOOK \in [DOMAIN positions -> Line] /\ DOMAIN positions \subseteq Known
  BY DEF TypeInv, TypeOK, Empty, Known
<1>8. BOOK' \in [DOMAIN positions -> Line]  BY <1>3, <1>4, <1>7, UpdateTyped
<1>9. RawRows' = RawRows \union {e}
  <2>1. RowsIn(rawFly') = RowsIn(rawFly) \union {e}  BY <1>4, SubmitOne
  <2>2. QED  BY <1>4, <2>1 DEF RawRows
<1>10. ASSUME p \in DOMAIN BOOK, bookUp
       PROVE  /\ row \in BookRow /\ row.pos = p /\ row.ts = clock + 1
              /\ row.line = BOOK'[p]
              /\ bookFly' = bookFly \union Submitted({row}, "sent")
              /\ BookRows' = BookRows \union {row}
  <2>1. row = BookRowFor(BOOK', p, e.ts)  BY <1>0, <1>10
  <2>2. row \in BookRow  BY <1>1, <1>3, <1>7, <1>8, <1>10, <2>1, RowTyped
  <2>3. row.pos = p /\ row.ts = clock + 1 /\ row.line = BOOK'[p]
    BY <1>3, <2>1 DEF BookRowFor
  <2>4. bookFly' = bookFly \union Submitted({row}, "sent")  BY <1>6, <1>10
  <2>5. RowsIn(bookFly') = RowsIn(bookFly) \union {row}  BY <2>4, SubmitOne
  <2>7. BookRows' = BookRows \union {row}  BY <1>4, <2>5 DEF BookRows
  <2>8. QED  BY <2>2, <2>3, <2>4, <2>7
<1>11. ASSUME ~(p \in DOMAIN BOOK /\ bookUp)
       PROVE  row = Null /\ bookFly' = bookFly /\ BookRows' = BookRows
  <2>1. bookFly' = bookFly  BY <1>6, <1>11
  <2>2. QED  BY <1>0, <1>4, <1>11, <2>1 DEF BookRows
<1>12. clock' \in 0 .. MaxClock  BY <1>1, <1>4
<1>13. Ingested(p, type, e, row)
  BY <1>3, <1>4, <1>5, <1>8, <1>9, <1>10, <1>11, <1>12 DEF Ingested
<1>14. QED  BY <1>13

LEMMA IngestType ==
  ASSUME TypeInv, NEW p \in Ids, NEW type \in EventTypes, Ingest(p, type)
  PROVE  TypeInv'
<1>1. UNCHANGED << phase, rawUp, bookUp, positions, recent, todo, marking, raw, book, horizon, acked >>
  BY DEF Ingest
<1>2. clock \in Nat  BY DEF TypeInv, TypeOK
<1>3. PICK e, row : Ingested(p, type, e, row)  BY IngestEffect
<1>4. /\ e \in Event /\ e.ts = clock + 1 /\ clock' = clock + 1 /\ clock' \in 0 .. MaxClock
      /\ BOOK' \in [DOMAIN positions -> Line] /\ phase = "serving"
      /\ rawFly' = rawFly \union Submitted({e}, "sent") /\ RawRows' = RawRows \union {e}
      /\ call' = [kind |-> "raw", event |-> e, row |-> row]
  BY <1>3 DEF Ingested
<1>5. \/ /\ row \in BookRow /\ row.ts = clock + 1
         /\ bookFly' = bookFly \union Submitted({row}, "sent") /\ BookRows' = BookRows \union {row}
      \/ row = Null /\ bookFly' = bookFly /\ BookRows' = BookRows
  BY <1>3 DEF Ingested
<1>6. \A f \in rawFly' : f.row \in Event /\ f.flush \in {"sent", "seen"}
  BY <1>4, SubmittedRows DEF TypeInv, TypeOK
<1>7. \A f \in bookFly' : f.row \in BookRow /\ f.flush \in {"sent", "seen"}
  BY <1>5, SubmittedRows DEF TypeInv, TypeOK
<1>8. call' \in [kind : {"raw"}, event : Event, row : BookRow \union {Null}]  BY <1>4, <1>5
<1>9. TypeOK'
  <2>1. horizon' \in 0 .. clock'  BY <1>1, <1>2, <1>4 DEF TypeInv, TypeOK
  <2>2. QED  BY <1>1, <1>4, <1>6, <1>7, <1>8, <2>1 DEF TypeInv, TypeOK
<1>10. Stamped'
  <2>1. Timed(RawRows', clock')  BY <1>2, <1>4 DEF TypeInv, Stamped, Timed
  <2>2. Timed(BookRows', clock')  BY <1>2, <1>4, <1>5 DEF TypeInv, Stamped, Timed
  <2>3. CallRows' = {e}  BY <1>4 DEF CallRows
  <2>4. Timed({e}, clock') /\ Timed(acked', clock')
    BY <1>1, <1>2, <1>4 DEF TypeInv, Stamped, Timed
  <2>5. QED  BY <2>1, <2>2, <2>3, <2>4 DEF Stamped
<1>11. QED  BY <1>1, <1>4, <1>9, <1>10 DEF TypeInv

\* The answers to the two writes of a request.
LEMMA AnswerType ==
  ASSUME TypeInv, RawOk \/ RawError \/ BookOk \/ BookError \/ BatchError
  PROVE  TypeInv'
<1>1. UNCHANGED << phase, memory, raw, book, clock, horizon >>
  BY DEF RawOk, RawError, BookOk, BookError, BatchError, tables
<1>2. call # Idle /\ phase = "serving"
  BY DEF RawOk, RawError, BookOk, BookError, BatchError, Idle, TypeInv, TypeOK
<1>3. RawRows' = RawRows /\ \A f \in rawFly' : f.row \in Event /\ f.flush \in {"sent", "seen"}
  <2>1. rawFly' = rawFly \/ rawFly' = Sure(rawFly, call.event)
    BY DEF RawOk, RawError, BookOk, BookError, BatchError, tables
  <2>2. \A f \in rawFly : f.row \in Event /\ f.flush \in {"sent", "seen"}  BY DEF TypeInv, TypeOK
  <2>3. QED  BY <1>1, <2>1, <2>2, SureRows, SureType DEF RawRows
<1>4. BookRows' = BookRows /\ \A f \in bookFly' : f.row \in BookRow /\ f.flush \in {"sent", "seen"}
  <2>1. bookFly' = bookFly \/ bookFly' = Sure(bookFly, call.row)
    BY DEF RawOk, RawError, BookOk, BookError, BatchError, tables
  <2>2. \A f \in bookFly : f.row \in BookRow /\ f.flush \in {"sent", "seen"}  BY DEF TypeInv, TypeOK
  <2>3. QED  BY <1>1, <2>1, <2>2, SureRows, SureType DEF BookRows
<1>5. CASE call' = Idle
  <2>1. acked' = acked \/ (acked' = acked \union {call.event} /\ BookOk)
    BY DEF RawOk, RawError, BookOk, BookError, BatchError
  <2>2. acked' \subseteq Event /\ Timed(acked', clock)
    <3>1. BookOk => call.event \in Event /\ call.event.ts \in 1 .. clock
      BY DEF BookOk, TypeInv, TypeOK, Stamped, CallRows, Timed, Idle
    <3>2. QED  BY <2>1, <3>1 DEF TypeInv, TypeOK, Stamped, Timed
  <2>3. TypeOK'  BY <1>1, <1>3, <1>4, <1>5, <2>2 DEF TypeInv, TypeOK, memory
  <2>4. CallRows' = {}  BY <1>5 DEF CallRows, Idle
  <2>5. Stamped'  BY <1>1, <1>3, <1>4, <2>2, <2>4 DEF TypeInv, Stamped, Timed
  <2>6. call'.kind = "none" /\ phase' = "serving"  BY <1>1, <1>2, <1>5 DEF Idle
  <2>7. QED  BY <1>1, <1>2, <2>3, <2>5, <2>6 DEF TypeInv, memory
<1>6. CASE RawOk /\ call' = [call EXCEPT !.kind = "book"] /\ call.row # Null
  <2>1. acked' = acked  BY <1>6 DEF RawOk
  <2>2. call \in [kind : {"raw"}, event : Event, row : BookRow \union {Null}]
    BY <1>6 DEF RawOk, TypeInv, TypeOK, Idle
  <2>3. call' \in [kind : {"book"}, event : Event, row : BookRow]  BY <1>6, <2>2
  <2>4. TypeOK'  BY <1>1, <1>3, <1>4, <2>1, <2>3 DEF TypeInv, TypeOK, memory
  <2>5. CallRows' = CallRows  BY <1>6, <2>2, <2>3 DEF CallRows
  <2>6. Stamped'  BY <1>1, <1>3, <1>4, <2>1, <2>5 DEF TypeInv, Stamped
  <2>7. call'.kind = "book" /\ phase' = "serving"  BY <1>1, <1>2, <2>3
  <2>8. QED  BY <1>1, <1>2, <2>4, <2>6, <2>7 DEF TypeInv, memory
<1>7. QED  BY <1>5, <1>6 DEF RawOk, RawError, BookOk, BookError, BatchError

-----------------------------------------------------------------------------
\* POST /ingest/batch.
LEMMA FirstExists ==
  ASSUME NEW now \in Nat, NEW rows, Timed(rows, now), rows # {}
  PROVE  /\ FirstOf(rows) \in rows
         /\ \A s \in rows : FirstOf(rows).ts <= s.ts
<1> DEFINE Stamps == {k \in 1 .. now : \E r \in rows : r.ts = k}
<1>1. Stamps \subseteq Nat /\ Stamps # {}
  <2>1. PICK r \in rows : TRUE  OBVIOUS
  <2>2. r.ts \in 1 .. now  BY DEF Timed
  <2>3. r.ts \in Stamps  BY <2>2
  <2>4. QED  BY <2>3
<1>2. PICK k \in Stamps : \A j \in Stamps : ~ (<< j, k >> \in OpToRel(<, Nat))
  <2> HIDE DEF Stamps
  <2>1. QED  BY <1>1, NatLessThanWellFounded, WFMin
<1>3. PICK r \in rows : r.ts = k  OBVIOUS
<1>4. ASSUME NEW s \in rows PROVE r.ts <= s.ts
  <2>1. s.ts \in 1 .. now  BY DEF Timed
  <2>2. s.ts \in Stamps /\ s.ts \in Nat  BY <2>1
  <2>3. k \in 1 .. now /\ k \in Nat  OBVIOUS
  <2>4. ~ (s.ts < k)
    <3> HIDE DEF Stamps
    <3>1. QED  BY <1>2, <2>2, <2>3 DEF OpToRel
  <2>5. QED  BY <1>3, <2>2, <2>3, <2>4
<1>5. QED  BY <1>4 DEF FirstOf

\* The rows of a request are stamped one after the other, all after what there is.
Batched(rows) ==
  /\ phase = "serving" /\ call = Idle
  /\ clock' \in clock .. MaxClock /\ call' = BatchCall(rows)
  /\ rows \subseteq Event
  /\ \A r \in rows : /\ r.ts \in clock + 1 .. clock' /\ r.value = r.ts
                      /\ r.app = "vm-hpa" /\ r.attrs = AttrsOf(r.pos)
  /\ \A r, s \in rows : r.ts = s.ts => r = s
  /\ UNCHANGED << phase, memory, tables, horizon, acked >>

LEMMA BatchEffect ==
  ASSUME TypeInv, NEW items \in Batches, IngestBatch(items)
  PROVE  \E rows : Batched(rows)
<1>1. PICK n, rows :
        /\ n \in Nat /\ n = Len(items) /\ rows = {EventAt(items[i], clock + i) : i \in 1 .. n}
  <2>1. items \in Seq([pos : Ids, type : Types])  BY ProducerAssumption DEF Types
  <2>2. Len(items) \in Nat  BY <2>1
  <2>3. QED  BY <2>2
<1>2. \A i \in 1 .. n : items[i] \in [pos : Ids, type : Types]
  <2> DEFINE Item == [pos : Ids, type : Types]
  <2>1. items \in Seq(Item)  BY ProducerAssumption DEF Types
  <2> HIDE DEF Item
  <2>2. \A i \in 1 .. Len(items) : items[i] \in Item  BY <2>1
  <2>3. QED  BY <1>1, <2>2 DEF Item
<1>3. clock \in Nat /\ MaxClock \in Nat /\ n \in Nat  BY <1>1, ProducerAssumption DEF TypeInv, TypeOK
<1>4. ASSUME NEW i \in 1 .. n
      PROVE  /\ EventAt(items[i], clock + i) \in Event
             /\ EventAt(items[i], clock + i).ts = clock + i
             /\ EventAt(items[i], clock + i).value = clock + i
             /\ EventAt(items[i], clock + i).app = "vm-hpa"
             /\ EventAt(items[i], clock + i).attrs = AttrsOf(EventAt(items[i], clock + i).pos)
  <2>1. clock + i \in Nat  BY <1>3
  <2>2. EventAt(items[i], clock + i) \in Event  BY <1>2, <2>1, EventTyped DEF TypeInv
  <2>3. QED  BY <2>2 DEF EventAt
<1>5. clock' = clock + n /\ clock + n <= MaxClock  BY <1>1 DEF IngestBatch
<1>6. \A r \in rows : /\ r \in Event /\ r.ts \in clock + 1 .. clock' /\ r.value = r.ts
                      /\ r.app = "vm-hpa" /\ r.attrs = AttrsOf(r.pos)
  <2> SUFFICES ASSUME NEW i \in 1 .. n, NEW r, r = EventAt(items[i], clock + i)
               PROVE  /\ r \in Event /\ r.ts \in clock + 1 .. clock' /\ r.value = r.ts
                      /\ r.app = "vm-hpa" /\ r.attrs = AttrsOf(r.pos)
    BY <1>1
  <2>1. r.ts = clock + i  BY <1>4
  <2>2. clock + i \in clock + 1 .. clock'  BY <1>3, <1>5
  <2>3. QED  BY <1>4, <2>1, <2>2
<1>7. ASSUME NEW r \in rows, NEW s \in rows, r.ts = s.ts PROVE r = s
  <2>1. PICK i \in 1 .. n : r = EventAt(items[i], clock + i)  BY <1>1
  <2>2. PICK j \in 1 .. n : s = EventAt(items[j], clock + j)  BY <1>1
  <2>3. clock + i = clock + j
    <3>1. r.ts = clock + i  BY <1>4, <2>1
    <3>2. s.ts = clock + j  BY <1>4, <2>2
    <3>3. QED  BY <1>7, <3>1, <3>2
  <2>4. i \in Int /\ j \in Int  BY <1>3
  <2>5. i = j  BY <1>3, <2>3, <2>4
  <2>6. QED  BY <2>1, <2>2, <2>5
<1>8. phase = "serving" /\ call = Idle /\ call' = BatchCall(rows)
  BY <1>1 DEF IngestBatch, Accepting
<1>9. UNCHANGED << phase, memory, tables, horizon, acked >>  BY DEF IngestBatch
<1>10. clock' \in clock .. MaxClock  BY <1>3, <1>5
<1>11. Batched(rows)  BY <1>6, <1>7, <1>8, <1>9, <1>10 DEF Batched
<1>12. QED  BY <1>11

\* A group is every row of the call with the position of the first.
Grouped(group, rest, last) ==
  /\ call.kind = "batch" /\ call.rows \subseteq Event /\ call \in [kind : {"batch"}, rows : SUBSET Event]
  /\ group \subseteq call.rows /\ rest = call.rows \ group /\ last \in group
  /\ \A s \in group : s.ts <= last.ts
  /\ \A s \in call.rows : s \in group <=> s.pos = last.pos
  /\ rawFly' = rawFly \union Submitted(group, "sent") /\ RawRows' = RawRows \union group
  /\ BookRows' = BookRows
  /\ call' = IF bookUp THEN [kind |-> "apply", rows |-> rest, group |-> group, last |-> last]
                       ELSE BatchCall(rest)
  /\ UNCHANGED << phase, memory, raw, book, bookFly, clock, horizon, acked >>

LEMMA SubmitSent ==
  ASSUME NEW fly, NEW rows, NEW later, later = fly \union Submitted(rows, "sent")
  PROVE  RowsIn(later) = RowsIn(fly) \union rows
<1> DEFINE flush == "sent"
<1> HIDE DEF flush
<1>1. RowsIn(fly \union Submitted(rows, flush)) = RowsIn(fly) \union rows
  BY RowsInUnion, SubmittedRows
<1>2. QED  BY <1>1 DEF flush

LEMMA GroupEffect ==
  ASSUME TypeInv, BatchGroup
  PROVE  \E group, rest, last : Grouped(group, rest, last)
<1>1. PICK first, group, rest, last :
        /\ first = FirstOf(call.rows) /\ group = Of(call.rows, first.pos)
        /\ rest = call.rows \ group /\ last = RowNumberOne(group)
  OBVIOUS
<1>2. /\ call.kind = "batch" /\ rawFly' = rawFly \union Submitted(group, "sent")
      /\ call' = IF bookUp THEN [kind |-> "apply", rows |-> rest, group |-> group, last |-> last]
                           ELSE BatchCall(rest)
      /\ UNCHANGED << phase, memory, raw, book, bookFly, clock, horizon, acked >>
  BY <1>1 DEF BatchGroup
<1>3. call \in [kind : {"batch"}, rows : SUBSET Event] /\ call.rows # {}
  BY <1>2 DEF TypeInv, TypeOK, Idle
<1>4. clock \in Nat /\ Timed(call.rows, clock)  BY <1>2 DEF TypeInv, TypeOK, Stamped, CallRows
<1>5. first \in call.rows  BY <1>1, <1>3, <1>4, FirstExists
<1>6. first \in group /\ group \subseteq call.rows /\ \A s \in group : s.pos = first.pos
  BY <1>1, <1>5 DEF Of
<1>7. StampedBy(group, clock)  BY <1>4, <1>6 DEF Timed, StampedBy
<1>8. last \in group /\ \A s \in group : s.ts <= last.ts  BY <1>1, <1>4, <1>6, <1>7, LatestExists
<1>9. \A s \in call.rows : s \in group <=> s.pos = last.pos  BY <1>1, <1>6, <1>8 DEF Of
<1>10. RawRows' = RawRows \union group /\ BookRows' = BookRows
  <2>1. RowsIn(rawFly') = RowsIn(rawFly) \union group  BY <1>2, SubmitSent
  <2>2. QED  BY <1>2, <2>1 DEF RawRows, BookRows
<1>11. Grouped(group, rest, last)
  BY <1>1, <1>2, <1>3, <1>6, <1>8, <1>9, <1>10 DEF Grouped
<1>12. QED  BY <1>11

LEMMA BatchCallType ==
  ASSUME NEW rows, rows \subseteq Event, NEW c, c = BatchCall(rows)
  PROVE  /\ c = Idle \/ c \in [kind : {"batch"}, rows : SUBSET Event]
         /\ c.kind \in {"none", "batch"}
         /\ c.kind = "batch" => c.rows # {}
         /\ c.kind = "batch" => c.rows = rows
         /\ c.kind # "batch" => rows = {} /\ c = Idle
BY DEF BatchCall, Idle

\* One row of the group reaches the book.
Applied(e) ==
  /\ call.kind = "apply" /\ e \in call.group /\ \A s \in call.group : e.ts <= s.ts
  /\ call \in [kind : {"apply"}, rows : SUBSET Event, group : SUBSET Event, last : Event]
  /\ BOOK' = UpdateBookState(BOOK, e)
  /\ call' = [call EXCEPT !.group = @ \ {e}]
  /\ UNCHANGED << phase, rawUp, bookUp, positions, recent, todo, marking, tables, clock, horizon, acked >>

LEMMA ApplyEffect == ASSUME TypeInv, BatchApply PROVE \E e : Applied(e)
<1>1. PICK e : e = FirstOf(call.group)  OBVIOUS
<1>2. call.kind = "apply" /\ call.group # {}  BY DEF BatchApply
<1>3. call \in [kind : {"apply"}, rows : SUBSET Event, group : SUBSET Event, last : Event]
  BY <1>2 DEF TypeInv, TypeOK, Idle
<1>4. clock \in Nat /\ Timed(call.group, clock)
  BY <1>2 DEF TypeInv, TypeOK, Stamped, CallRows, Timed
<1>5. e \in call.group /\ \A s \in call.group : e.ts <= s.ts  BY <1>1, <1>2, <1>4, FirstExists
<1>6. Applied(e)  BY <1>1, <1>2, <1>3, <1>5 DEF BatchApply, Applied
<1>7. QED  BY <1>6

\* The line of the position is submitted after its group.
Booked(p, rows) ==
  /\ call.kind = "apply" /\ call.group = {} /\ p = call.last.pos
  /\ call \in [kind : {"apply"}, rows : SUBSET Event, group : SUBSET Event, last : Event]
  /\ \/ rows = {} /\ ("book_error" \in Faults \/ p \notin DOMAIN BOOK)
     \/ p \in DOMAIN BOOK /\ rows = {BookRowFor(BOOK, p, call.last.ts)}
  /\ rows \subseteq BookRow
  /\ \A r \in rows : /\ r.pos = p /\ r.ts = call.last.ts /\ p \in DOMAIN BOOK
                      /\ r.line = BOOK[p]
  /\ bookFly' = bookFly \union Submitted(rows, "sent")
  /\ BookRows' = BookRows \union rows /\ RawRows' = RawRows
  /\ call' = BatchCall(call.rows)
  /\ UNCHANGED << phase, memory, raw, book, rawFly, clock, horizon, acked >>

LEMMA BatchBookEffect == ASSUME TypeInv, BatchBook PROVE \E p, rows : Booked(p, rows)
<1>1. PICK p : p = call.last.pos  OBVIOUS
<1>2. /\ call.kind = "apply" /\ call.group = {} /\ call' = BatchCall(call.rows)
      /\ UNCHANGED << phase, memory, raw, book, rawFly, clock, horizon, acked >>
  BY DEF BatchBook
<1>3. call \in [kind : {"apply"}, rows : SUBSET Event, group : SUBSET Event, last : Event]
  BY <1>2 DEF TypeInv, TypeOK, Idle
<1>4. \/ "book_error" \in Faults /\ bookFly' = bookFly
      \/ p \notin DOMAIN BOOK /\ bookFly' = bookFly
      \/ /\ p \in DOMAIN BOOK
         /\ bookFly' = bookFly \union Submitted({BookRowFor(BOOK, p, call.last.ts)}, "sent")
  BY <1>1 DEF BatchBook
<1>5. BOOK \in [DOMAIN positions -> Line] /\ DOMAIN positions \subseteq Known
  BY DEF TypeInv, TypeOK, Empty, Known
<1>6. call.last.ts \in Nat  BY <1>3 DEF Event
<1>7. PICK rows :
        /\ \/ rows = {} /\ ("book_error" \in Faults \/ p \notin DOMAIN BOOK)
           \/ p \in DOMAIN BOOK /\ rows = {BookRowFor(BOOK, p, call.last.ts)}
        /\ bookFly' = bookFly \union Submitted(rows, "sent")
  <2>1. bookFly' = bookFly => bookFly' = bookFly \union Submitted({}, "sent")
    BY DEF Submitted
  <2>2. QED  BY <1>4, <2>1
<1>8. p \in DOMAIN BOOK => /\ BookRowFor(BOOK, p, call.last.ts) \in BookRow
                           /\ BookRowFor(BOOK, p, call.last.ts).pos = p
                           /\ BookRowFor(BOOK, p, call.last.ts).ts = call.last.ts
                           /\ BookRowFor(BOOK, p, call.last.ts).line = BOOK[p]
  BY <1>5, <1>6, RowTyped DEF BookRowFor
<1>9. /\ rows \subseteq BookRow
      /\ \A r \in rows : /\ r.pos = p /\ r.ts = call.last.ts /\ p \in DOMAIN BOOK
                         /\ r.line = BOOK[p]
  BY <1>7, <1>8
<1>10. BookRows' = BookRows \union rows /\ RawRows' = RawRows
  <2>1. RowsIn(bookFly') = RowsIn(bookFly) \union rows  BY <1>7, SubmitSent
  <2>2. QED  BY <1>2, <2>1 DEF BookRows, RawRows
<1>11. Booked(p, rows)  BY <1>1, <1>2, <1>3, <1>7, <1>9, <1>10 DEF Booked
<1>12. QED  BY <1>11

LEMMA BatchType ==
  ASSUME TypeInv, \/ \E items \in Batches : IngestBatch(items)
                  \/ BatchGroup \/ BatchApply \/ BatchBook
  PROVE  TypeInv'
<1>0. clock \in Nat /\ MaxClock \in Nat  BY ProducerAssumption DEF TypeInv, TypeOK
<1>1. CASE \E items \in Batches : IngestBatch(items)
  <2>1. PICK rows : Batched(rows)  BY <1>1, BatchEffect
  <2>2. /\ call' = BatchCall(rows) /\ rows \subseteq Event /\ clock' \in clock .. MaxClock
        /\ \A r \in rows : r.ts \in clock + 1 .. clock'
        /\ UNCHANGED << phase, memory, tables, horizon, acked >> /\ phase = "serving"
    BY <2>1 DEF Batched
  <2>3. /\ call' = Idle \/ call' \in [kind : {"batch"}, rows : SUBSET Event]
        /\ call'.kind = "batch" => call'.rows # {} /\ call'.rows = rows
    BY <2>2, BatchCallType
  <2>4. horizon' \in 0 .. clock' /\ clock' \in 0 .. MaxClock  BY <1>0, <2>2 DEF TypeInv, TypeOK
  <2>5. TypeOK'  BY <2>2, <2>3, <2>4 DEF TypeInv, TypeOK, memory, tables
  <2>6. Timed(CallRows', clock')
    <3>1. CASE call' = Idle  BY <3>1 DEF CallRows, Idle, Timed
    <3>2. CASE call' \in [kind : {"batch"}, rows : SUBSET Event]
      <4>1. CallRows' = rows  BY <2>3, <3>2 DEF CallRows
      <4>2. QED  BY <1>0, <2>2, <4>1 DEF Timed
    <3>3. QED  BY <2>3, <3>1, <3>2
  <2>7. Timed(RawRows', clock') /\ Timed(BookRows', clock') /\ Timed(acked', clock')
    BY <1>0, <2>2 DEF TypeInv, Stamped, RawRows, BookRows, Timed, tables
  <2>8. QED  BY <2>2, <2>3, <2>5, <2>6, <2>7 DEF TypeInv, Stamped, memory
<1>2. CASE BatchGroup
  <2>1. PICK group, rest, last : Grouped(group, rest, last)  BY <1>2, GroupEffect
  <2>2. /\ call.kind = "batch" /\ call \in [kind : {"batch"}, rows : SUBSET Event]
        /\ group \subseteq call.rows /\ rest \subseteq call.rows /\ last \in group
        /\ call.rows \subseteq Event
        /\ rawFly' = rawFly \union Submitted(group, "sent") /\ RawRows' = RawRows \union group
        /\ BookRows' = BookRows
        /\ UNCHANGED << phase, memory, raw, book, bookFly, clock, horizon, acked >>
        /\ \/ call' = [kind |-> "apply", rows |-> rest, group |-> group, last |-> last]
           \/ call' = BatchCall(rest)
    BY <2>1 DEF Grouped
  <2>3. phase = "serving"  BY <2>2 DEF TypeInv, Idle
  <2>4. CallRows = call.rows /\ Timed(call.rows, clock)  BY <2>2 DEF CallRows, TypeInv, Stamped
  <2>5. /\ \/ call' = Idle \/ call' \in [kind : {"batch"}, rows : SUBSET Event]
           \/ call' \in [kind : {"apply"}, rows : SUBSET Event, group : SUBSET Event, last : Event]
        /\ call'.kind = "batch" => call'.rows # {}
        /\ Timed(CallRows', clock)
    <3>1. CASE call' = [kind |-> "apply", rows |-> rest, group |-> group, last |-> last]
      <4>1. CallRows' = rest \union group \union {last}  BY <3>1 DEF CallRows
      <4>2. CallRows' \subseteq call.rows  BY <2>2, <4>1
      <4>3. rest \subseteq Event /\ group \subseteq Event /\ last \in Event  BY <2>2
      <4>4. QED  BY <2>4, <3>1, <4>2, <4>3 DEF Timed
    <3>2. CASE call' = BatchCall(rest)
      <4>1. /\ call' = Idle \/ call' \in [kind : {"batch"}, rows : SUBSET Event]
            /\ call'.kind = "batch" => call'.rows # {} /\ call'.rows = rest
        BY <2>2, <3>2, BatchCallType
      <4>2. CallRows' \subseteq call.rows  BY <2>2, <4>1 DEF CallRows, Idle
      <4>3. QED  BY <2>4, <4>1, <4>2 DEF Timed
    <3>3. QED  BY <2>2, <3>1, <3>2
  <2>6. \A f \in rawFly' : f.row \in Event /\ f.flush \in {"sent", "seen"}
    BY <2>2, SubmittedRows DEF TypeInv, TypeOK
  <2>7. TypeOK'  BY <2>2, <2>5, <2>6 DEF TypeInv, TypeOK, memory
  <2>8. Stamped'  BY <2>2, <2>4, <2>5 DEF TypeInv, Stamped, Timed
  <2>9. QED  BY <2>2, <2>3, <2>5, <2>7, <2>8 DEF TypeInv, memory
<1>3. CASE BatchApply
  <2>1. PICK e : Applied(e)  BY <1>3, ApplyEffect
  <2>2. /\ call.kind = "apply" /\ e \in call.group /\ BOOK' = UpdateBookState(BOOK, e)
        /\ call \in [kind : {"apply"}, rows : SUBSET Event, group : SUBSET Event, last : Event]
        /\ call' = [call EXCEPT !.group = @ \ {e}]
        /\ UNCHANGED << phase, rawUp, bookUp, positions, recent, todo, marking, tables, clock, horizon, acked >>
    BY <2>1 DEF Applied
  <2>3. phase = "serving"  BY <2>2 DEF TypeInv, Idle
  <2>4. e \in Event  BY <2>2
  <2>5. BOOK' \in [DOMAIN positions -> Line]  BY <2>2, <2>4, UpdateTyped DEF TypeInv, TypeOK
  <2>6. call' \in [kind : {"apply"}, rows : SUBSET Event, group : SUBSET Event, last : Event]
        /\ call'.rows = call.rows /\ call'.group = call.group \ {e} /\ call'.last = call.last
    BY <2>2
  <2>7. CallRows' \subseteq CallRows  BY <2>2, <2>6 DEF CallRows
  <2>8. TypeOK'  BY <2>2, <2>5, <2>6 DEF TypeInv, TypeOK, tables
  <2>9. Stamped'  BY <2>2, <2>7 DEF TypeInv, Stamped, RawRows, BookRows, Timed, tables
  <2>10. QED  BY <2>2, <2>3, <2>6, <2>8, <2>9 DEF TypeInv
<1>4. CASE BatchBook
  <2>1. PICK p, rows : Booked(p, rows)  BY <1>4, BatchBookEffect
  <2>2. /\ call.kind = "apply" /\ call' = BatchCall(call.rows)
        /\ call \in [kind : {"apply"}, rows : SUBSET Event, group : SUBSET Event, last : Event]
        /\ rows \subseteq BookRow /\ \A r \in rows : r.ts = call.last.ts
        /\ bookFly' = bookFly \union Submitted(rows, "sent")
        /\ BookRows' = BookRows \union rows /\ RawRows' = RawRows
        /\ UNCHANGED << phase, memory, raw, book, rawFly, clock, horizon, acked >>
    BY <2>1 DEF Booked
  <2>3. phase = "serving"  BY <2>2 DEF TypeInv, Idle
  <2>4. Timed(call.rows, clock) /\ call.last.ts \in 1 .. clock /\ call.rows \subseteq Event
    BY <2>2 DEF CallRows, TypeInv, Stamped, Timed
  <2>5. /\ call' = Idle \/ call' \in [kind : {"batch"}, rows : SUBSET Event]
        /\ call'.kind = "batch" => call'.rows # {} /\ call'.rows = call.rows
    BY <2>2, <2>4, BatchCallType
  <2>6. CallRows' \subseteq call.rows  BY <2>5 DEF CallRows, Idle
  <2>7. \A f \in bookFly' : f.row \in BookRow /\ f.flush \in {"sent", "seen"}
    BY <2>2, SubmittedRows DEF TypeInv, TypeOK
  <2>8. TypeOK'  BY <2>2, <2>5, <2>7 DEF TypeInv, TypeOK, memory
  <2>9. Stamped'  BY <2>2, <2>4, <2>6 DEF TypeInv, Stamped, Timed
  <2>10. QED  BY <2>2, <2>3, <2>5, <2>8, <2>9 DEF TypeInv, memory
<1>5. QED  BY <1>1, <1>2, <1>3, <1>4

LEMMA TypeStart == Init => TypeInv
<1> SUFFICES ASSUME Init PROVE TypeInv  OBVIOUS
<1>1. Empty \in [DOMAIN Empty -> Line] /\ MaxClock \in Nat  BY ProducerAssumption DEF Empty
<1>2. TypeOK
  <2>1. rawUp \in BOOLEAN /\ bookUp \in BOOLEAN  BY Zenon DEF Init
  <2>2. /\ phase = "down" /\ positions = Empty /\ BOOK = Empty /\ recent = {} /\ todo = {}
        /\ marking = {}
        /\ call = Idle /\ raw = {} /\ book = {} /\ rawFly = {} /\ bookFly = {}
        /\ clock = 0 /\ horizon = 0 /\ acked = {}
    BY DEF Init
  <2>3. QED  BY <1>1, <2>1, <2>2 DEF TypeOK
<1>3. Stamped  BY DEF Init, Stamped, RawRows, BookRows, RowsIn, CallRows, Idle, Timed
<1>4. QED  BY <1>2, <1>3 DEF Init, TypeInv, Idle

LEMMA TypeStep == TypeInv /\ [Next]_vars => TypeInv'
<1> SUFFICES ASSUME TypeInv, [Next]_vars PROVE TypeInv'  OBVIOUS
<1>1. CASE UNCHANGED vars
  <2>1. RawRows' = RawRows /\ BookRows' = BookRows /\ CallRows' = CallRows
    BY <1>1 DEF vars, tables, RawRows, BookRows, CallRows
  <2>2. TypeOK'  BY <1>1 DEF TypeInv, TypeOK, vars, memory, tables
  <2>3. Stamped'  BY <1>1, <2>1 DEF TypeInv, Stamped, vars
  <2>4. QED  BY <1>1, <2>2, <2>3 DEF TypeInv, vars, memory
<1>2. CASE Next
  <2>1. CASE Land \/ Lose \/ Age  BY <2>1, TablesType
  <2>2. CASE Boot \/ BootFails \/ Heal \/ Crash  BY <2>2, MemoryType
  <2>3. CASE \E p \in Known : SeedBook(p) \/ SeedMark(p)  BY <2>3, SeedType
  <2>4. CASE \E p \in Ids, type \in EventTypes : Ingest(p, type)  BY <2>4, IngestType
  <2>5. CASE RawOk \/ RawError \/ BookOk \/ BookError \/ BatchError  BY <2>5, AnswerType
  <2>6. CASE \/ \E items \in Batches : IngestBatch(items)
             \/ BatchGroup \/ BatchApply \/ BatchBook
    BY <2>6, BatchType
  <2>7. QED  BY <1>2, <2>1, <2>2, <2>3, <2>4, <2>5, <2>6 DEF Next
<1>3. QED  BY <1>1, <1>2

LEMMA TypeHolds == Spec => []TypeInv
<1>1. QED  BY TypeStart, TypeStep, PTL DEF Spec

\* Every variable keeps its type, for every dimension table, every set of faults
\* and every bound: BOOK has exactly the loaded positions, and its lines are lines.
THEOREM TypesKept == Spec => []TypeOK
<1>1. TypeInv => TypeOK  BY DEF TypeInv
<1>2. QED  BY <1>1, TypeHolds, PTL

\* POSITIONS is filled by the start, or the process is down.
Loaded == phase # "down" => positions = POSITIONS_DIM

LEMMA StaysLoaded ==
  ASSUME "init_fail" \notin Faults, "load_fail" \notin Faults, Loaded, [Next]_vars
  PROVE  Loaded'
<1>1. CASE UNCHANGED << phase, positions >>  BY <1>1 DEF Loaded
<1>2. CASE Boot  BY <1>2 DEF Boot, Loaded
<1>3. CASE BootFails  BY <1>3 DEF BootFails
<1>4. CASE Crash  BY <1>4 DEF Crash, Loaded
<1>5. CASE \E p \in Known : SeedBook(p) \/ SeedMark(p)  BY <1>5 DEF SeedBook, SeedMark, Loaded
<1>6. CASE \/ Land \/ Lose \/ Age \/ Heal \/ RawOk \/ RawError \/ BookOk \/ BookError
           \/ BatchGroup \/ BatchApply \/ BatchBook \/ BatchError
  BY <1>1, <1>6 DEF Land, Lose, Age, Heal, RawOk, RawError, BookOk, BookError, BatchGroup,
                    BatchApply, BatchBook, BatchError, memory
<1>7. CASE \E p \in Ids, type \in EventTypes : Ingest(p, type)  BY <1>1, <1>7 DEF Ingest
<1>8. CASE \E items \in Batches : IngestBatch(items)  BY <1>1, <1>8 DEF IngestBatch, memory
<1>9. CASE UNCHANGED vars  BY <1>1, <1>9 DEF vars, memory
<1>10. QED  BY <1>2, <1>3, <1>4, <1>5, <1>6, <1>7, <1>8, <1>9 DEF Next

\* The empty book of producer_empty_book has two causes and no third: unless the pools
\* cannot be opened or POSITIONS_DIM cannot be read at a start (ingest_worker.py:415), a
\* producer whose /health is "ok" has every position in its book, whatever else fails.
THEOREM HealthyBooksAreFull ==
  ASSUME "init_fail" \notin Faults, "load_fail" \notin Faults
  PROVE  Spec => []HealthyBookIsFull
<1>1. Init => Loaded  BY DEF Init, Loaded
<1>2. Loaded /\ [Next]_vars => Loaded'  BY StaysLoaded
<1>3. TypeInv /\ Loaded => HealthyBookIsFull
  <2> SUFFICES ASSUME TypeInv, Loaded, phase = "serving" PROVE DOMAIN BOOK = Known
    BY DEF HealthyBookIsFull
  <2>1. BOOK \in [DOMAIN positions -> Line] /\ positions = POSITIONS_DIM
    BY DEF TypeInv, TypeOK, Loaded
  <2>2. QED  BY <2>1 DEF Known
<1>4. QED  BY <1>1, <1>2, <1>3, TypeHolds, PTL DEF Spec

\* queries.ts: the two rollups of RAW_EVENTS are the same book in every state the
\* producer and the tables can reach.
THEOREM RollupsAlwaysAgree == Spec => []RollupsAgree
<1>1. TypeInv => RollupsAgree
  <2> SUFFICES ASSUME TypeInv PROVE RollupsAgree  OBVIOUS
  <2>1. clock \in Nat /\ Timed(Recent, clock)
    BY DEF TypeInv, TypeOK, Stamped, RawRows, Recent, Timed
  <2>2. StampedBy(Recent, clock)  BY <2>1, TimedStamped
  <2>3. QED  BY <2>1, <2>2, WindowedIsOptimized DEF RollupsAgree
<1>2. QED  BY <1>1, TypeHolds, PTL

-----------------------------------------------------------------------------
(***************************************************************************)
(* Seeds and live marks.  A start sees every row that was submitted before *)
(* it (no "lag") and reads RAW_EVENTS (no "hydrate_fail").  Then a seed is *)
(* later than another row of its position only if that row is older than   *)
(* 24 hours, because the seed loop takes only positions whose rows all are *)
(* (SeedsOnlyOld), and because rows still to be submitted carry stamps     *)
(* taken after the last seed (CallAfterSeeds).                             *)
(***************************************************************************)
SeedsKeepLive ==
  \A s, e \in RawRows :
    IsSeed(s) /\ ~IsSeed(e) /\ e.pos = s.pos /\ e.ts <= s.ts => e.ts <= horizon

SeedsOnlyOld ==
  phase = "seed" => \A e \in RawRows : ~IsSeed(e) /\ e.pos \notin recent => e.ts <= horizon

CallAfterSeeds ==
  \A r \in CallRows : ~IsSeed(r) /\ \A s \in RawRows : IsSeed(s) => s.ts < r.ts

LiveInv == SeedsKeepLive /\ SeedsOnlyOld /\ CallAfterSeeds

(***************************************************************************)
(* Promises.  An event whose line was submitted with it is promised until  *)
(* its request fails, and for good once it is acknowledged.                *)
(***************************************************************************)
WithLine(c) == (c.kind = "raw" /\ c.row # Null) \/ c.kind = "book"
Promised == acked \union IF WithLine(call) THEN {call.event} ELSE {}

\* The row is readable or can no longer be lost.
Safe(table, fly, row) == row \in table \/ [row |-> row, flush |-> "seen"] \in fly

Fresh(e) == e.type = "MARK" /\ e.ts > horizon
AtLeast(line, e) == line.mark \in Int /\ line.mark >= e.value

Stamping ==
  /\ \A e \in RawRows : ~IsSeed(e) => e.value = e.ts
  /\ \A e \in CallRows \union acked : ~IsSeed(e) /\ e.value = e.ts
  /\ WithLine(call) => call.row.pos = call.event.pos /\ call.row.ts = call.event.ts

EventsSafe ==
  /\ \A e \in acked : Safe(raw, rawFly, e)
  /\ call.kind = "book" => Safe(raw, rawFly, call.event)

RowsSafe ==
  \A e \in acked : \E r \in BookRows : r.pos = e.pos /\ r.ts >= e.ts /\ Safe(book, bookFly, r)

NoOlderRow ==
  \A e \in Promised : Fresh(e) =>
    \A r \in BookRows : r.pos = e.pos /\ r.ts >= e.ts => AtLeast(r.line, e)

NoOlderLine ==
  \A e \in Promised : Fresh(e) => (e.pos \in DOMAIN BOOK => AtLeast(BOOK[e.pos], e))

CallAfterPromises ==
  call.kind \in {"batch", "apply"} => \A r \in CallRows, e \in acked : e.ts < r.ts

PromiseInv ==
  Stamping /\ EventsSafe /\ RowsSafe /\ NoOlderRow /\ NoOlderLine /\ CallAfterPromises

(***************************************************************************)
(* Agreement.  With crashes as the only fault, no unknown positions and no *)
(* row older than 24 hours, every line of BOOK is at every moment the      *)
(* rollup of the rows applied to it, and, except where a row is about to   *)
(* be written, the latest row of POSITION_BOOK shows it.                   *)
(***************************************************************************)
Group == IF call.kind = "apply" THEN call.group ELSE {}
AppliedOf(p) == Of(RawRows, p) \ Group

Unseeded(p) == phase = "seed" /\ p \in todo
Lined(p) ==
  IF Unseeded(p) /\ p \notin recent
  THEN Of(RawRows, p) = {} /\ BOOK[p] = InitBook(POSITIONS_DIM)[p]
  ELSE AppliedOf(p) # {} /\ BOOK[p] = WindowedLine(AppliedOf(p))

Published(p) ==
  \E r \in BookRows :
    /\ r.pos = p /\ r.line = BOOK[p]
    /\ \A s \in BookRows : s.pos = p /\ s # r => s.ts < r.ts

Unpublished(p) ==
  \/ Unseeded(p) /\ p \notin marking
  \/ call.kind = "apply" /\ p = call.last.pos

KnownRows ==
  /\ \A r \in RawRows \union CallRows : r.pos \in Known /\ r.attrs = POSITIONS_DIM[r.pos]
  /\ \A r \in CallRows : r.value = r.ts

Started ==
  /\ phase # "down" => bookUp /\ positions = POSITIONS_DIM
  /\ phase = "serving" => todo = {}

\* Rows still to be submitted or applied are later than all of their position.
LaterRows(rows) ==
  /\ \A r, s \in rows : r.ts = s.ts => r = s
  /\ \A r \in rows, s \in RawRows \ rows : s.pos = r.pos => s.ts < r.ts

CallRowsLater ==
  /\ call.kind \in {"batch", "apply"} =>
       /\ LaterRows(call.rows) /\ call.rows \intersect RawRows = {}
       /\ \A r \in call.rows, s \in BookRows : s.pos = r.pos => s.ts < r.ts
  /\ call.kind = "apply" =>
       /\ LaterRows(call.group) /\ call.group \subseteq RawRows /\ call.last \in RawRows
       /\ \A r \in call.group : r.pos = call.last.pos
       /\ \A r \in call.rows : r.pos # call.last.pos
       /\ \A s \in BookRows : s.pos = call.last.pos => s.ts < call.last.ts

Agreed ==
  /\ KnownRows /\ Started /\ CallRowsLater
  /\ phase # "down" => \A p \in Known : Lined(p) /\ (Unpublished(p) \/ Published(p))

AgreeInv == horizon = 0 => Agreed

-----------------------------------------------------------------------------
\* The steps that submit nothing to RAW_EVENTS and take no timestamp.
Quiet ==
  \/ Land \/ Lose \/ Age \/ BootFails \/ Heal \/ Crash
  \/ RawOk \/ RawError \/ BookOk \/ BookError \/ BatchError
  \/ BatchApply \/ BatchBook \/ UNCHANGED vars

LEMMA QuietRows ==
  ASSUME TypeInv, Quiet
  PROVE  /\ RawRows' \subseteq RawRows /\ CallRows' \subseteq CallRows
         /\ horizon' \in Int /\ horizon' >= horizon /\ clock' = clock
         /\ phase' = "seed" => phase = "seed" /\ recent' = recent
<1>0. horizon \in Int  BY DEF TypeInv, TypeOK
<1>1. CASE Land \/ Lose
  <2>1. RawRows' \subseteq RawRows  BY <1>1, LandRows, LoseRows
  <2>2. UNCHANGED << phase, memory, call, clock, horizon >>  BY <1>1 DEF Land, Lose
  <2>3. QED  BY <1>0, <2>1, <2>2 DEF CallRows, memory
<1>2. CASE Age \/ UNCHANGED vars
  <2>1. UNCHANGED << phase, memory, call, tables, clock >>  BY <1>2 DEF Age, vars
  <2>2. horizon' \in Int /\ horizon' >= horizon  BY <1>0, <1>2 DEF Age, vars
  <2>3. RawRows' = RawRows /\ CallRows' = CallRows  BY <2>1 DEF RawRows, CallRows, tables
  <2>4. QED  BY <2>1, <2>2, <2>3 DEF memory
<1>3. CASE BootFails \/ Heal
  <2>1. UNCHANGED << call, tables, clock, horizon >> /\ phase' = "serving"
    BY <1>3 DEF BootFails, Heal
  <2>2. RawRows' = RawRows /\ CallRows' = CallRows  BY <2>1 DEF RawRows, CallRows, tables
  <2>3. QED  BY <1>0, <2>1, <2>2
<1>4. CASE Crash
  <2>1. UNCHANGED << tables, clock, horizon >> /\ phase' = "down" /\ call' = Idle
    BY <1>4 DEF Crash
  <2>2. RawRows' = RawRows /\ CallRows' = {}  BY <2>1 DEF RawRows, CallRows, tables, Idle
  <2>3. QED  BY <1>0, <2>1, <2>2
<1>5. CASE RawOk \/ RawError \/ BookOk \/ BookError \/ BatchError
  <2>1. UNCHANGED << phase, memory, raw, clock, horizon >>
    BY <1>5 DEF RawOk, RawError, BookOk, BookError, BatchError, tables
  <2>2. RowsIn(rawFly') = RowsIn(rawFly)
    <3>1. rawFly' = rawFly \/ rawFly' = Sure(rawFly, call.event)
      BY <1>5 DEF RawOk, RawError, BookOk, BookError, BatchError, tables
    <3>2. QED  BY <3>1, SureRows
  <2>3. CallRows' \subseteq CallRows
    <3>1. CASE call' = Idle  BY <3>1 DEF CallRows, Idle
    <3>2. CASE call.kind = "raw" /\ call' = [call EXCEPT !.kind = "book"] /\ call # Idle
      <4>1. call \in [kind : {"raw"}, event : Event, row : BookRow \union {Null}]
        BY <3>2 DEF TypeInv, TypeOK, Idle
      <4>2. call'.kind = "book" /\ call'.event = call.event  BY <3>2, <4>1
      <4>3. QED  BY <3>2, <4>2 DEF CallRows
    <3>3. QED  BY <1>5, <3>1, <3>2 DEF RawOk, RawError, BookOk, BookError, BatchError, Idle
  <2>4. QED  BY <1>0, <2>1, <2>2, <2>3 DEF RawRows, memory
<1>6. CASE BatchApply
  <2>1. PICK e : Applied(e)  BY <1>6, ApplyEffect
  <2>2. /\ call.kind = "apply" /\ UNCHANGED << phase, recent, tables, clock, horizon >>
        /\ call'.kind = "apply" /\ call'.rows = call.rows
        /\ call'.group = call.group \ {e} /\ call'.last = call.last
    BY <2>1 DEF Applied
  <2>3. CallRows' \subseteq CallRows /\ RawRows' = RawRows  BY <2>2 DEF CallRows, RawRows, tables
  <2>4. QED  BY <1>0, <2>2, <2>3
<1>7. CASE BatchBook
  <2>1. PICK p, rows : Booked(p, rows)  BY <1>7, BatchBookEffect
  <2>2. /\ UNCHANGED << phase, memory, clock, horizon >> /\ call' = BatchCall(call.rows)
        /\ RawRows' = RawRows /\ call.kind = "apply" /\ call.rows \subseteq Event
    BY <2>1 DEF Booked
  <2>3. call' = Idle \/ (call'.kind = "batch" /\ call'.rows = call.rows)
    BY <2>2, BatchCallType
  <2>4. CallRows' \subseteq CallRows  BY <2>2, <2>3 DEF CallRows, Idle
  <2>5. QED  BY <1>0, <2>2, <2>4 DEF memory
<1>8. QED  BY <1>1, <1>2, <1>3, <1>4, <1>5, <1>6, <1>7 DEF Quiet

\* What a start reads.
LEMMA BootReads ==
  ASSUME TypeInv, Boot, "lag" \notin Faults
  PROVE  RawRows = raw /\ BookRows = book /\ rawFly = {} /\ bookFly = {} /\ call = Idle
         /\ RawRows' = RawRows /\ BookRows' = BookRows /\ CallRows' = {}
<1>1. rawFly = {} /\ bookFly = {} /\ phase = "down"  BY DEF Boot, MayBoot
<1>2. UNCHANGED << call, tables >>  BY DEF Boot
<1>3. call = Idle  BY <1>1 DEF TypeInv
<1>4. RawRows = raw /\ BookRows = book  BY <1>1 DEF RawRows, BookRows, RowsIn
<1>5. RawRows' = RawRows /\ BookRows' = BookRows  BY <1>2 DEF RawRows, BookRows, tables
<1>6. CallRows' = {}  BY <1>2, <1>3 DEF CallRows, Idle
<1>7. QED  BY <1>1, <1>3, <1>4, <1>5, <1>6

-----------------------------------------------------------------------------
\* No step that submits nothing to RAW_EVENTS can put a seed over a live mark.
LEMMA LiveQuiet == ASSUME TypeInv, LiveInv, Quiet PROVE LiveInv'
<1>1. /\ RawRows' \subseteq RawRows /\ CallRows' \subseteq CallRows
      /\ horizon \in Int /\ horizon' \in Int /\ horizon' >= horizon
      /\ phase' = "seed" => phase = "seed" /\ recent' = recent
  BY QuietRows DEF TypeInv, TypeOK
<1>2. \A e \in RawRows : e.ts \in Int  BY DEF TypeInv, Stamped, Timed
<1>3. \A e \in RawRows : e.ts <= horizon => e.ts <= horizon'  BY <1>1, <1>2
<1>4. SeedsKeepLive'  BY <1>1, <1>3 DEF LiveInv, SeedsKeepLive
<1>5. SeedsOnlyOld'  BY <1>1, <1>3 DEF LiveInv, SeedsOnlyOld
<1>6. CallAfterSeeds'  BY <1>1 DEF LiveInv, CallAfterSeeds
<1>7. QED  BY <1>4, <1>5, <1>6 DEF LiveInv

\* A row stamped after all of RAW_EVENTS, or after all seeds, may be added.
LEMMA LiveAdds ==
  ASSUME TypeInv, LiveInv, NEW rows, RawRows' = RawRows \union rows, UNCHANGED horizon,
         \A r \in rows : r.ts \in Int /\ ~IsSeed(r) /\ \A s \in RawRows : IsSeed(s) => s.ts < r.ts
  PROVE  SeedsKeepLive'
<1>1. \A e \in RawRows : e.ts \in Int  BY DEF TypeInv, Stamped, Timed
<1> SUFFICES ASSUME NEW s \in RawRows', NEW e \in RawRows',
                    IsSeed(s), ~IsSeed(e), e.pos = s.pos, e.ts <= s.ts
             PROVE  e.ts <= horizon
  BY DEF SeedsKeepLive
<1>2. s \in RawRows  OBVIOUS
<1>3. e \in RawRows
  <2>1. e \in rows => s.ts < e.ts  BY <1>2
  <2>2. e \in rows => e.ts \in Int  OBVIOUS
  <2>3. QED  BY <1>1, <1>2, <2>1, <2>2
<1>4. QED  BY <1>2, <1>3 DEF LiveInv, SeedsKeepLive

LEMMA LiveBoot ==
  ASSUME TypeInv, LiveInv, Boot, "lag" \notin Faults, "hydrate_fail" \notin Faults
  PROVE  LiveInv'
<1>1. RawRows = raw /\ RawRows' = RawRows /\ CallRows' = {}  BY BootReads
<1>2. recent' = PositionsOf(Recent) /\ UNCHANGED horizon  BY DEF Boot
<1>3. horizon \in Int /\ \A e \in RawRows : e.ts \in Int  BY DEF TypeInv, TypeOK, Stamped, Timed
<1>4. SeedsKeepLive'  BY <1>1, <1>2 DEF LiveInv, SeedsKeepLive
<1>5. SeedsOnlyOld'
  <2>1. ASSUME NEW e \in raw, e.pos \notin PositionsOf(Recent) PROVE e.ts <= horizon
    <3>1. e \notin Recent  BY <2>1 DEF PositionsOf
    <3>2. QED  BY <1>1, <1>3, <3>1 DEF Recent
  <2>2. QED  BY <1>1, <1>2, <2>1 DEF SeedsOnlyOld
<1>6. CallAfterSeeds'  BY <1>1 DEF CallAfterSeeds
<1>7. QED  BY <1>4, <1>5, <1>6 DEF LiveInv

LEMMA LiveSeed == ASSUME TypeInv, LiveInv, NEW p \in Known, SeedBook(p) \/ SeedMark(p) PROVE LiveInv'
<1>1. PICK seeds, rows : Seeded(p, seeds, rows)  BY SeedEffect
<1>2. /\ phase = "seed" /\ RawRows' = RawRows \union seeds /\ CallRows' = {}
      /\ \A s \in seeds : s.pos = p /\ p \notin recent /\ IsSeed(s)
      /\ UNCHANGED << recent, horizon >>
  BY <1>1 DEF Seeded
<1>3. SeedsKeepLive'
  <2> SUFFICES ASSUME NEW s \in RawRows', NEW e \in RawRows',
                      IsSeed(s), ~IsSeed(e), e.pos = s.pos, e.ts <= s.ts
               PROVE  e.ts <= horizon
    BY <1>2 DEF SeedsKeepLive
  <2>1. e \in RawRows  BY <1>2
  <2>2. CASE s \in RawRows  BY <2>1, <2>2 DEF LiveInv, SeedsKeepLive
  <2>3. CASE s \in seeds
    <3>1. e.pos \notin recent  BY <1>2, <2>3
    <3>2. QED  BY <1>2, <2>1, <3>1 DEF LiveInv, SeedsOnlyOld
  <2>4. QED  BY <1>2, <2>2, <2>3
<1>4. SeedsOnlyOld'  BY <1>2 DEF LiveInv, SeedsOnlyOld
<1>5. CallAfterSeeds'  BY <1>2 DEF CallAfterSeeds
<1>6. QED  BY <1>3, <1>4, <1>5 DEF LiveInv

LEMMA LiveIngest ==
  ASSUME TypeInv, LiveInv, NEW p \in Ids, NEW type \in EventTypes, Ingest(p, type)
  PROVE  LiveInv'
<1>1. PICK e, row : Ingested(p, type, e, row)  BY IngestEffect
<1>2. /\ e.ts = clock + 1 /\ e.app = "vm-hpa" /\ phase = "serving"
      /\ RawRows' = RawRows \union {e} /\ call' = [kind |-> "raw", event |-> e, row |-> row]
  BY <1>1 DEF Ingested
<1>3. UNCHANGED << phase, horizon >>  BY DEF Ingest
<1>4. clock \in Nat /\ \A s \in RawRows : s.ts \in 1 .. clock
  BY DEF TypeInv, TypeOK, Stamped, Timed
<1>5. e.ts \in Int /\ ~IsSeed(e) /\ \A s \in RawRows : s.ts < e.ts
  BY <1>2, <1>4 DEF IsSeed
<1>6. SeedsKeepLive'
  <2>1. PICK rows : rows = {e}  OBVIOUS
  <2>2. RawRows' = RawRows \union rows  BY <1>2, <2>1
  <2>3. QED  BY <1>3, <1>5, <2>1, <2>2, LiveAdds
<1>7. SeedsOnlyOld'  BY <1>2, <1>3 DEF SeedsOnlyOld
<1>8. CallAfterSeeds'
  <2>1. CallRows' = {e}  BY <1>2 DEF CallRows
  <2>2. QED  BY <1>2, <1>5, <2>1 DEF CallAfterSeeds
<1>9. QED  BY <1>6, <1>7, <1>8 DEF LiveInv

LEMMA LiveBatch ==
  ASSUME TypeInv, LiveInv, NEW items \in Batches, IngestBatch(items)
  PROVE  LiveInv'
<1>1. PICK rows : Batched(rows)  BY BatchEffect
<1>2. /\ call' = BatchCall(rows) /\ rows \subseteq Event
      /\ \A r \in rows : r.ts \in clock + 1 .. clock' /\ r.app = "vm-hpa"
      /\ UNCHANGED << phase, memory, tables, horizon >>
  BY <1>1 DEF Batched
<1>3. clock \in Nat /\ \A s \in RawRows : s.ts \in 1 .. clock
  BY DEF TypeInv, TypeOK, Stamped, Timed
<1>4. RawRows' = RawRows  BY <1>2 DEF RawRows, tables
<1>5. CallRows' \subseteq rows
  <2>1. call' = Idle \/ (call'.kind = "batch" /\ call'.rows = rows)  BY <1>2, BatchCallType
  <2>2. QED  BY <2>1 DEF CallRows, Idle
<1>6. SeedsKeepLive' /\ SeedsOnlyOld'
  BY <1>2, <1>4 DEF LiveInv, SeedsKeepLive, SeedsOnlyOld, memory
<1>7. CallAfterSeeds'  BY <1>2, <1>3, <1>4, <1>5 DEF CallAfterSeeds, IsSeed
<1>8. QED  BY <1>6, <1>7 DEF LiveInv

LEMMA LiveGroup == ASSUME TypeInv, LiveInv, BatchGroup PROVE LiveInv'
<1>1. PICK group, rest, last : Grouped(group, rest, last)  BY GroupEffect
<1>2. /\ call.kind = "batch" /\ group \subseteq call.rows /\ rest \subseteq call.rows
      /\ last \in group /\ call.rows \subseteq Event
      /\ RawRows' = RawRows \union group
      /\ call' = IF bookUp THEN [kind |-> "apply", rows |-> rest, group |-> group, last |-> last]
                           ELSE BatchCall(rest)
      /\ UNCHANGED << phase, recent, horizon >>
  BY <1>1 DEF Grouped, memory
<1>3. CallRows = call.rows /\ phase = "serving"  BY <1>2 DEF CallRows, TypeInv, Idle
<1>4. \A r \in call.rows : r.ts \in Int /\ ~IsSeed(r) /\ \A s \in RawRows : IsSeed(s) => s.ts < r.ts
  BY <1>3 DEF TypeInv, Stamped, Timed, LiveInv, CallAfterSeeds
<1>5. CallRows' \subseteq call.rows
  <2>1. CASE call' = [kind |-> "apply", rows |-> rest, group |-> group, last |-> last]
    <3>1. CallRows' = rest \union group \union {last}  BY <2>1 DEF CallRows
    <3>2. QED  BY <1>2, <3>1
  <2>2. CASE call' = BatchCall(rest)
    <3>1. rest \subseteq Event  BY <1>2
    <3>2. call' = Idle \/ (call'.kind = "batch" /\ call'.rows = rest)  BY <2>2, <3>1, BatchCallType
    <3>3. QED  BY <1>2, <3>2 DEF CallRows, Idle
  <2>3. QED  BY <1>2, <2>1, <2>2
<1>6. SeedsKeepLive'  BY <1>2, <1>4, LiveAdds
<1>7. SeedsOnlyOld'  BY <1>2, <1>3 DEF SeedsOnlyOld
<1>8. CallAfterSeeds'
  <2>1. \A r \in call.rows, s \in RawRows' : IsSeed(s) => s.ts < r.ts
    BY <1>2, <1>4
  <2>2. QED  BY <1>4, <1>5, <2>1 DEF CallAfterSeeds
<1>9. QED  BY <1>6, <1>7, <1>8 DEF LiveInv

LEMMA LiveStart == Init => LiveInv
BY DEF Init, LiveInv, SeedsKeepLive, SeedsOnlyOld, CallAfterSeeds, RawRows, RowsIn, CallRows, Idle

LEMMA LiveStep ==
  ASSUME "lag" \notin Faults, "hydrate_fail" \notin Faults
  PROVE  TypeInv /\ LiveInv /\ [Next]_vars => LiveInv'
<1> SUFFICES ASSUME TypeInv, LiveInv, [Next]_vars PROVE LiveInv'  OBVIOUS
<1>1. CASE Quiet  BY <1>1, LiveQuiet
<1>2. CASE Boot  BY <1>2, LiveBoot
<1>3. CASE \E p \in Known : SeedBook(p) \/ SeedMark(p)  BY <1>3, LiveSeed
<1>4. CASE \E p \in Ids, type \in EventTypes : Ingest(p, type)  BY <1>4, LiveIngest
<1>5. CASE \E items \in Batches : IngestBatch(items)  BY <1>5, LiveBatch
<1>6. CASE BatchGroup  BY <1>6, LiveGroup
<1>7. QED  BY <1>1, <1>2, <1>3, <1>4, <1>5, <1>6 DEF Next, Quiet

\* _hydrate_book_from_raw_events: a start never seeds a baseline over a live mark of
\* the last 24 hours.  It may with "lag" or "hydrate_fail": the hypotheses are needed.
THEOREM StartsKeepLiveMarks ==
  ASSUME "lag" \notin Faults, "hydrate_fail" \notin Faults
  PROVE  Spec => []LiveMarksKept
<1>1. TypeInv /\ LiveInv => LiveMarksKept
  <2> SUFFICES ASSUME TypeInv, LiveInv,
                      NEW s \in raw, s.app = "seed", NEW e \in Recent,
                      e.app # "seed", e.pos = s.pos, e.ts < s.ts
               PROVE  FALSE
    BY DEF LiveMarksKept
  <2>1. e \in raw /\ e.ts > horizon  BY DEF Recent
  <2>2. s \in RawRows /\ e \in RawRows  BY <2>1 DEF RawRows
  <2>3. e.ts \in Int /\ s.ts \in Int /\ horizon \in Int
    BY <2>2 DEF TypeInv, TypeOK, Stamped, Timed
  <2>4. e.ts <= horizon  BY <2>2, <2>3 DEF LiveInv, SeedsKeepLive, IsSeed
  <2>5. QED  BY <2>1, <2>3, <2>4
<1>2. QED  BY <1>1, TypeStart, TypeStep, LiveStart, LiveStep, PTL DEF Spec

-----------------------------------------------------------------------------
\* A step that brings no event to the book: what it adds to RAW_EVENTS was under way
\* or is a seed, what it adds to POSITION_BOOK are lines of BOOK, and it promises
\* nothing that was not promised.
NothingNew ==
  /\ \A e \in RawRows' : IsSeed(e) \/ e \in RawRows \union CallRows
  /\ \A r \in BookRows' : r \in BookRows \/ (r.pos \in DOMAIN BOOK /\ r.line = BOOK[r.pos])
  /\ horizon' \in Int /\ horizon' >= horizon
  /\ CallRows' \subseteq CallRows /\ acked' \subseteq acked \union CallRows
  /\ Promised' \subseteq Promised
  /\ WithLine(call') => WithLine(call) /\ call'.event = call.event /\ call'.row = call.row
  /\ call'.kind \in {"batch", "apply"} => call.kind \in {"batch", "apply"} /\ acked' = acked

LEMMA NothingNewQuiet == ASSUME TypeInv, Quiet PROVE NothingNew
<1>1. /\ RawRows' \subseteq RawRows /\ CallRows' \subseteq CallRows
      /\ horizon' \in Int /\ horizon' >= horizon
  BY QuietRows
<1> DEFINE Rest == /\ \A r \in BookRows' :
                         r \in BookRows \/ (r.pos \in DOMAIN BOOK /\ r.line = BOOK[r.pos])
                   /\ acked' \subseteq acked \union CallRows
                   /\ Promised' \subseteq Promised
                   /\ WithLine(call') => /\ WithLine(call)
                                         /\ call'.event = call.event /\ call'.row = call.row
                   /\ call'.kind \in {"batch", "apply"}
                        => call.kind \in {"batch", "apply"} /\ acked' = acked
<1>2. CASE Land \/ Lose \/ Age \/ BootFails \/ Heal \/ UNCHANGED vars
  <2>1. UNCHANGED << call, acked >>  BY <1>2 DEF Land, Lose, Age, BootFails, Heal, vars
  <2>2. BookRows' \subseteq BookRows
    <3>1. CASE Land \/ Lose  BY <3>1, LandRows, LoseRows
    <3>2. CASE Age \/ BootFails \/ Heal \/ UNCHANGED vars
      BY <3>2 DEF Age, BootFails, Heal, vars, tables, BookRows
    <3>3. QED  BY <1>2, <3>1, <3>2
  <2>3. Rest  BY <2>1, <2>2 DEF Promised, WithLine
  <2>4. QED  BY <1>1, <2>3 DEF NothingNew
<1>3. CASE Crash \/ RawError \/ BookError \/ BatchError
  <2>1. UNCHANGED << tables, acked >> /\ call' = Idle
    BY <1>3 DEF Crash, RawError, BookError, BatchError
  <2>2. BookRows' = BookRows  BY <2>1 DEF BookRows, tables
  <2>3. Promised' = acked  BY <2>1 DEF Promised, WithLine, Idle
  <2>4. Rest  BY <2>1, <2>2, <2>3 DEF Promised, WithLine, Idle
  <2>5. QED  BY <1>1, <2>4 DEF NothingNew
<1>4. CASE RawOk
  <2>1. UNCHANGED << book, bookFly, acked >> /\ call.kind = "raw"  BY <1>4 DEF RawOk
  <2>2. BookRows' = BookRows  BY <2>1 DEF BookRows
  <2>3. CASE call' = Idle
    <3>1. Promised' = acked  BY <2>1, <2>3 DEF Promised, WithLine, Idle
    <3>2. Rest  BY <2>1, <2>2, <2>3, <3>1 DEF Promised, WithLine, Idle
    <3>3. QED  BY <1>1, <3>2 DEF NothingNew
  <2>4. CASE call' = [call EXCEPT !.kind = "book"] /\ call.row # Null
    <3>1. call \in [kind : {"raw"}, event : Event, row : BookRow \union {Null}]
      BY <2>1 DEF TypeInv, TypeOK, Idle
    <3>2. call'.kind = "book" /\ call'.event = call.event /\ call'.row = call.row
      BY <2>4, <3>1
    <3>3. Promised' = Promised  BY <2>1, <2>4, <3>2 DEF Promised, WithLine
    <3>4. Rest  BY <2>1, <2>2, <2>4, <3>2, <3>3 DEF WithLine
    <3>5. QED  BY <1>1, <3>4 DEF NothingNew
  <2>5. QED  BY <1>4, <2>3, <2>4 DEF RawOk
<1>5. CASE BookOk
  <2>1. UNCHANGED book /\ call.kind = "book" /\ call' = Idle /\ acked' = acked \union {call.event}
    BY <1>5 DEF BookOk
  <2>2. BookRows' = BookRows  BY <1>5, SureRows DEF BookOk, BookRows
  <2>3. Promised' = Promised  BY <2>1 DEF Promised, WithLine, Idle
  <2>4. CallRows = {call.event}  BY <2>1 DEF CallRows
  <2>5. Rest  BY <2>1, <2>2, <2>3, <2>4 DEF WithLine, Idle
  <2>6. QED  BY <1>1, <2>5 DEF NothingNew
<1>6. CASE BatchApply
  <2>1. PICK e : Applied(e)  BY <1>6, ApplyEffect
  <2>2. UNCHANGED << tables, acked >> /\ call.kind = "apply" /\ call'.kind = "apply"
    BY <2>1 DEF Applied
  <2>3. BookRows' = BookRows /\ Promised' = Promised  BY <2>2 DEF BookRows, Promised, WithLine, tables
  <2>4. Rest  BY <2>2, <2>3 DEF WithLine
  <2>5. QED  BY <1>1, <2>4 DEF NothingNew
<1>7. CASE BatchBook
  <2>1. PICK p, rows : Booked(p, rows)  BY <1>7, BatchBookEffect
  <2>2. /\ UNCHANGED acked /\ call.kind = "apply" /\ call' = BatchCall(call.rows)
        /\ call.rows \subseteq Event /\ BookRows' = BookRows \union rows
        /\ \A r \in rows : r.pos = p /\ p \in DOMAIN BOOK /\ r.line = BOOK[p]
    BY <2>1 DEF Booked
  <2>3. call'.kind \in {"none", "batch"}  BY <2>2, BatchCallType
  <2>4. Promised' = Promised  BY <2>2, <2>3 DEF Promised, WithLine
  <2>5. Rest  BY <2>2, <2>3, <2>4 DEF WithLine
  <2>6. QED  BY <1>1, <2>5 DEF NothingNew
<1>8. QED  BY <1>2, <1>3, <1>4, <1>5, <1>6, <1>7 DEF Quiet

LEMMA NothingNewBoot == ASSUME TypeInv, Boot, "lag" \notin Faults PROVE NothingNew
<1>1. RawRows' = RawRows /\ BookRows' = BookRows /\ CallRows' = {} /\ call = Idle
  BY BootReads
<1>2. UNCHANGED << call, horizon, acked >>  BY DEF Boot
<1>3. horizon \in Int  BY DEF TypeInv, TypeOK
<1>4. Promised' = Promised  BY <1>2 DEF Promised, WithLine
<1>5. QED  BY <1>1, <1>2, <1>3, <1>4 DEF NothingNew, WithLine, Idle

LEMMA NothingNewSeed == ASSUME TypeInv, NEW p \in Known, SeedBook(p) \/ SeedMark(p) PROVE NothingNew
<1>1. PICK seeds, rows : Seeded(p, seeds, rows)  BY SeedEffect
<1>2. /\ RawRows' = RawRows \union seeds /\ \A s \in seeds : IsSeed(s)
      /\ BookRows' = BookRows \union rows
      /\ \A r \in rows : r.pos = p /\ p \in DOMAIN BOOK /\ r.line = BOOK[p]
      /\ CallRows' = {} /\ call = Idle /\ UNCHANGED << call, horizon, acked >>
  BY <1>1 DEF Seeded
<1>3. horizon \in Int  BY DEF TypeInv, TypeOK
<1>4. Promised' = Promised  BY <1>2 DEF Promised, WithLine
<1>5. QED  BY <1>2, <1>3, <1>4 DEF NothingNew, WithLine, Idle

LEMMA NothingNewGroup == ASSUME TypeInv, BatchGroup PROVE NothingNew
<1>1. PICK group, rest, last : Grouped(group, rest, last)  BY GroupEffect
<1>2. /\ call.kind = "batch" /\ group \subseteq call.rows /\ rest \subseteq call.rows
      /\ last \in group /\ call.rows \subseteq Event
      /\ RawRows' = RawRows \union group /\ BookRows' = BookRows
      /\ call' = IF bookUp THEN [kind |-> "apply", rows |-> rest, group |-> group, last |-> last]
                           ELSE BatchCall(rest)
      /\ UNCHANGED << horizon, acked >>
  BY <1>1 DEF Grouped
<1>3. CallRows = call.rows /\ horizon \in Int  BY <1>2 DEF CallRows, TypeInv, TypeOK
<1>4. /\ call'.kind \in {"none", "batch", "apply"} /\ CallRows' \subseteq CallRows
  <2>1. CASE call' = [kind |-> "apply", rows |-> rest, group |-> group, last |-> last]
    <3>1. CallRows' = rest \union group \union {last}  BY <2>1 DEF CallRows
    <3>2. QED  BY <1>2, <1>3, <2>1, <3>1
  <2>2. CASE call' = BatchCall(rest)
    <3>1. rest \subseteq Event  BY <1>2
    <3>2. call' = Idle \/ (call'.kind = "batch" /\ call'.rows = rest)  BY <2>2, <3>1, BatchCallType
    <3>3. QED  BY <1>2, <1>3, <3>2 DEF CallRows, Idle
  <2>3. QED  BY <1>2, <2>1, <2>2
<1>5. Promised' = Promised  BY <1>2, <1>4 DEF Promised, WithLine
<1>6. QED  BY <1>2, <1>3, <1>4, <1>5 DEF NothingNew, WithLine

LEMMA PromisedTyped ==
  ASSUME TypeInv
  PROVE  Promised \subseteq Event /\ \A e \in Promised : e.ts \in 1 .. clock
<1>1. call.kind \in {"raw", "book"} => call.event \in Event /\ call.event.ts \in 1 .. clock
  BY DEF TypeInv, TypeOK, Stamped, CallRows, Timed, Idle
<1>2. QED  BY <1>1 DEF TypeInv, TypeOK, Stamped, Timed, Promised, WithLine

LEMMA PromiseNothingNew ==
  ASSUME TypeInv, PromiseInv, NothingNew
  PROVE  /\ Stamping' /\ NoOlderRow' /\ CallAfterPromises'
         /\ BOOK' = BOOK => NoOlderLine'
<1>1. Stamping'
  <2>1. \A e \in RawRows' : ~IsSeed(e) => e.value = e.ts
    BY DEF NothingNew, PromiseInv, Stamping
  <2>2. \A e \in CallRows' \union acked' : ~IsSeed(e) /\ e.value = e.ts
    BY DEF NothingNew, PromiseInv, Stamping
  <2>3. QED  BY <2>1, <2>2 DEF NothingNew, PromiseInv, Stamping
<1>2. ASSUME NEW e \in Promised', Fresh(e)' PROVE e \in Promised /\ Fresh(e)
  <2>1. e \in Promised /\ horizon' >= horizon /\ horizon' \in Int  BY DEF NothingNew
  <2>2. horizon \in Int /\ e.ts \in Int  BY <2>1, PromisedTyped DEF TypeInv, TypeOK
  <2>3. QED  BY <1>2, <2>1, <2>2 DEF Fresh
<1>3. NoOlderRow'
  <2> SUFFICES ASSUME NEW e \in Promised', Fresh(e)',
                      NEW r \in BookRows', r.pos = e.pos, r.ts >= e.ts
               PROVE  AtLeast(r.line, e)
    BY DEF NoOlderRow, AtLeast
  <2>1. e \in Promised /\ Fresh(e)  BY <1>2
  <2>2. r \in BookRows \/ (r.pos \in DOMAIN BOOK /\ r.line = BOOK[r.pos])  BY DEF NothingNew
  <2>3. QED  BY <2>1, <2>2 DEF PromiseInv, NoOlderRow, NoOlderLine
<1>4. BOOK' = BOOK => NoOlderLine'
  BY <1>2 DEF PromiseInv, NoOlderLine, AtLeast
<1>5. CallAfterPromises'  BY DEF NothingNew, PromiseInv, CallAfterPromises
<1>6. QED  BY <1>1, <1>3, <1>4, <1>5

-----------------------------------------------------------------------------
\* Nothing that is safe is lost: not when a row lands, not when another is lost, not
\* when one is made safe, not when more are submitted.
LEMMA SureSafe ==
  ASSUME NEW table, NEW fly, NEW row, NEW later, later = Sure(fly, row)
  PROVE  /\ \A r : Safe(table, fly, r) => Safe(table, later, r)
         /\ Pending(table, fly, row) => Safe(table, later, row)
<1>1. row \in RowsIn(fly) => [row |-> row, flush |-> "seen"] \in later  BY SureRows
<1>2. \A f \in fly : f.row # row => f \in later  BY SureRows
<1>3. ASSUME NEW r, [row |-> r, flush |-> "seen"] \in fly
      PROVE  [row |-> r, flush |-> "seen"] \in later
  <2>1. CASE r = row
    <3>1. [row |-> r, flush |-> "seen"].row = row  BY <2>1
    <3>2. row \in RowsIn(fly)  BY <1>3, <3>1 DEF RowsIn
    <3>3. QED  BY <1>1, <2>1, <3>2
  <2>2. CASE r # row
    <3>1. [row |-> r, flush |-> "seen"].row # row  BY <2>2
    <3>2. QED  BY <1>2, <1>3, <3>1
  <2>3. QED  BY <2>1, <2>2
<1>4. Pending(table, fly, row) => row \in table \/ row \in RowsIn(fly)  BY DEF Pending, RowsIn
<1>5. QED  BY <1>1, <1>3, <1>4 DEF Safe

LEMMA LandSafe ==
  ASSUME NEW table, NEW fly, NEW f \in fly, NEW table2, NEW fly2,
         table2 = table \union {f.row}, fly2 = fly \ {f}
  PROVE  \A r : Safe(table, fly, r) => Safe(table2, fly2, r)
<1> SUFFICES ASSUME NEW r, [row |-> r, flush |-> "seen"] \in fly
             PROVE  r \in table2 \/ [row |-> r, flush |-> "seen"] \in fly2
  BY DEF Safe
<1>1. CASE [row |-> r, flush |-> "seen"] = f
  <2>1. f.row = r  BY <1>1
  <2>2. QED  BY <2>1
<1>2. QED  BY <1>1

LEMMA LoseSafe ==
  ASSUME NEW table, NEW fly, NEW f \in fly, f.flush = "sent", NEW fly2, fly2 = fly \ {f}
  PROVE  \A r : Safe(table, fly, r) => Safe(table, fly2, r)
<1>1. \A r : [row |-> r, flush |-> "seen"] # f
  <2> SUFFICES ASSUME NEW r, [row |-> r, flush |-> "seen"] = f PROVE FALSE  OBVIOUS
  <2>1. [row |-> r, flush |-> "seen"].flush = "seen"  OBVIOUS
  <2>2. QED  BY <2>1
<1>2. QED  BY <1>1 DEF Safe

LEMMA MoreSafe ==
  ASSUME NEW table, NEW fly, NEW fly2, fly \subseteq fly2
  PROVE  \A r : Safe(table, fly, r) => Safe(table, fly2, r)
BY DEF Safe

KeepsSafe ==
  /\ \A r : Safe(raw, rawFly, r) => Safe(raw', rawFly', r)
  /\ \A r : Safe(book, bookFly, r) => Safe(book', bookFly', r)

LEMMA SafeStep == ASSUME TypeInv, [Next]_vars PROVE KeepsSafe
<1>1. CASE Land
  <2>1. CASE \E f \in rawFly : /\ raw' = raw \union {f.row} /\ rawFly' = rawFly \ {f}
                             /\ UNCHANGED << book, bookFly >>
    BY <2>1, LandSafe DEF KeepsSafe
  <2>2. CASE \E f \in bookFly : /\ book' = book \union {f.row} /\ bookFly' = bookFly \ {f}
                              /\ UNCHANGED << raw, rawFly >>
    BY <2>2, LandSafe DEF KeepsSafe
  <2>3. QED  BY <1>1, <2>1, <2>2 DEF Land
<1>2. CASE Lose
  <2>1. raw' = raw /\ book' = book  BY <1>2 DEF Lose
  <2>2. CASE (\E f \in rawFly : f.flush = "sent" /\ rawFly' = rawFly \ {f}) /\ bookFly' = bookFly
    BY <2>1, <2>2, LoseSafe DEF KeepsSafe
  <2>3. CASE (\E f \in bookFly : f.flush = "sent" /\ bookFly' = bookFly \ {f}) /\ rawFly' = rawFly
    BY <2>1, <2>3, LoseSafe DEF KeepsSafe
  <2>4. QED  BY <1>2, <2>2, <2>3 DEF Lose
<1>3. CASE RawOk
  <2>1. raw' = raw /\ book' = book /\ bookFly' = bookFly /\ rawFly' = Sure(rawFly, call.event)
    BY <1>3 DEF RawOk
  <2>2. QED  BY <2>1, SureSafe DEF KeepsSafe
<1>4. CASE BookOk
  <2>1. raw' = raw /\ book' = book /\ rawFly' = rawFly /\ bookFly' = Sure(bookFly, call.row)
    BY <1>4 DEF BookOk
  <2>2. QED  BY <2>1, SureSafe DEF KeepsSafe
<1>5. ASSUME raw' = raw, book' = book, rawFly \subseteq rawFly', bookFly \subseteq bookFly'
      PROVE  KeepsSafe
  BY <1>5, MoreSafe DEF KeepsSafe
<1>6. CASE \/ Age \/ Boot \/ BootFails \/ Heal \/ Crash \/ RawError \/ BookError \/ BatchError
           \/ BatchApply \/ UNCHANGED vars \/ \E items \in Batches : IngestBatch(items)
  <2>1. UNCHANGED tables
    BY <1>6 DEF Age, Boot, BootFails, Heal, Crash, RawError, BookError, BatchError, BatchApply,
                IngestBatch, vars
  <2>2. QED  BY <1>5, <2>1 DEF tables
<1>7. CASE \E p \in Known : SeedBook(p) \/ SeedMark(p)
  <2>1. PICK p \in Known : SeedBook(p) \/ SeedMark(p)  BY <1>7
  <2>2. PICK seeds, rows : Seeded(p, seeds, rows)  BY <2>1, SeedEffect
  <2>3. QED  BY <1>5, <2>2 DEF Seeded
<1>8. CASE \E p \in Ids, type \in EventTypes : Ingest(p, type)
  <2>1. PICK p \in Ids, type \in EventTypes : Ingest(p, type)  BY <1>8
  <2>2. PICK e, row : Ingested(p, type, e, row)  BY <2>1, IngestEffect
  <2>3. raw' = raw /\ book' = book  BY <2>1 DEF Ingest
  <2>4. rawFly \subseteq rawFly' /\ bookFly \subseteq bookFly'  BY <2>2 DEF Ingested
  <2>5. QED  BY <1>5, <2>3, <2>4
<1>9. CASE BatchGroup
  <2>1. PICK group, rest, last : Grouped(group, rest, last)  BY <1>9, GroupEffect
  <2>2. QED  BY <1>5, <2>1 DEF Grouped
<1>10. CASE BatchBook
  <2>1. PICK p, rows : Booked(p, rows)  BY <1>10, BatchBookEffect
  <2>2. QED  BY <1>5, <2>1 DEF Booked
<1>11. QED  BY <1>1, <1>2, <1>3, <1>4, <1>6, <1>7, <1>8, <1>9, <1>10 DEF Next

\* Every request leaves what it acknowledged safe.
LEMMA AnsweredStep ==
  ASSUME TypeInv, [Next]_vars
  PROVE  /\ acked' = acked \/ (BookOk /\ acked' = acked \union {call.event})
         /\ call'.kind = "book" => call' = call \/ (RawOk /\ call'.event = call.event)
<1>1. CASE RawOk
  <2>1. acked' = acked /\ call.kind = "raw"  BY <1>1 DEF RawOk
  <2>2. call \in [kind : {"raw"}, event : Event, row : BookRow \union {Null}]
    BY <2>1 DEF TypeInv, TypeOK, Idle
  <2>3. call' = Idle \/ call' = [call EXCEPT !.kind = "book"]  BY <1>1 DEF RawOk
  <2>4. call'.kind = "book" => call'.event = call.event  BY <2>2, <2>3 DEF Idle
  <2>5. QED  BY <1>1, <2>1, <2>4
<1>2. CASE BookOk
  BY <1>2 DEF BookOk, Idle
<1>3. CASE \E p \in Ids, type \in EventTypes : Ingest(p, type)
  BY <1>3 DEF Ingest
<1>4. CASE BatchGroup
  <2>1. PICK group, rest, last : Grouped(group, rest, last)  BY <1>4, GroupEffect
  <2>2. rest \subseteq Event  BY <2>1 DEF Grouped
  <2>3. call'.kind # "book"  BY <2>1, <2>2, BatchCallType DEF Grouped
  <2>4. QED  BY <2>1, <2>3 DEF Grouped
<1>5. CASE BatchBook
  <2>1. PICK p, rows : Booked(p, rows)  BY <1>5, BatchBookEffect
  <2>2. call.rows \subseteq Event /\ call' = BatchCall(call.rows) /\ acked' = acked
    BY <2>1 DEF Booked
  <2>3. QED  BY <2>2, BatchCallType
<1>6. CASE BatchApply
  <2>1. PICK e : Applied(e)  BY <1>6, ApplyEffect
  <2>2. QED  BY <2>1 DEF Applied
<1>7. CASE \E items \in Batches : IngestBatch(items)
  <2>1. PICK items \in Batches : IngestBatch(items)  BY <1>7
  <2>2. PICK rows : Batched(rows)  BY <2>1, BatchEffect
  <2>3. rows \subseteq Event /\ call' = BatchCall(rows) /\ acked' = acked  BY <2>2 DEF Batched
  <2>4. QED  BY <2>3, BatchCallType
<1>8. CASE \/ Land \/ Lose \/ Age \/ Boot \/ BootFails \/ (\E p \in Known : SeedBook(p) \/ SeedMark(p)) \/ Heal
           \/ UNCHANGED vars
  BY <1>8 DEF Land, Lose, Age, Boot, BootFails, SeedBook, SeedMark, Heal, vars
<1>9. CASE Crash \/ RawError \/ BookError \/ BatchError
  BY <1>9 DEF Crash, RawError, BookError, BatchError, Idle
<1>10. QED  BY <1>1, <1>2, <1>3, <1>4, <1>5, <1>6, <1>7, <1>8, <1>9 DEF Next

LEMMA SafeKept == ASSUME TypeInv, PromiseInv, [Next]_vars PROVE EventsSafe' /\ RowsSafe'
<1>1. KeepsSafe  BY SafeStep
<1>2. /\ acked' = acked \/ (BookOk /\ acked' = acked \union {call.event})
      /\ call'.kind = "book" => call' = call \/ (RawOk /\ call'.event = call.event)
  BY AnsweredStep
<1>3. EventsSafe'
  <2>1. ASSUME RawOk PROVE Safe(raw', rawFly', call.event)
    <3>1. Pending(raw, rawFly, call.event) /\ rawFly' = Sure(rawFly, call.event) /\ raw' = raw
      BY <2>1 DEF RawOk
    <3>2. QED  BY <3>1, SureSafe
  <2>2. BookOk => call.kind = "book"  BY DEF BookOk
  <2>3. \A e \in acked' : Safe(raw', rawFly', e)
    BY <1>1, <1>2, <2>2 DEF PromiseInv, EventsSafe, KeepsSafe
  <2>4. call'.kind = "book" => Safe(raw', rawFly', call'.event)
    BY <1>1, <1>2, <2>1 DEF PromiseInv, EventsSafe, KeepsSafe
  <2>5. QED  BY <2>3, <2>4 DEF EventsSafe, Safe
<1>4. RowsSafe'
  <2>1. \A r : Safe(book', bookFly', r) => r \in BookRows'
    <3> SUFFICES ASSUME NEW r, [row |-> r, flush |-> "seen"] \in bookFly' PROVE r \in RowsIn(bookFly')
      BY DEF Safe, BookRows
    <3>1. [row |-> r, flush |-> "seen"].row = r  OBVIOUS
    <3>2. QED  BY <3>1 DEF RowsIn
  <2>2. \A e \in acked : \E r \in BookRows' :
          r.pos = e.pos /\ r.ts >= e.ts /\ Safe(book', bookFly', r)
    BY <1>1, <2>1 DEF PromiseInv, RowsSafe, KeepsSafe
  <2>3. ASSUME BookOk
        PROVE  \E r \in BookRows' :
                 r.pos = call.event.pos /\ r.ts >= call.event.ts /\ Safe(book', bookFly', r)
    <3>1. /\ call.kind = "book" /\ Pending(book, bookFly, call.row)
          /\ bookFly' = Sure(bookFly, call.row) /\ book' = book
      BY <2>3 DEF BookOk
    <3>2. Safe(book', bookFly', call.row)  BY <3>1, SureSafe
    <3>3. call \in [kind : {"book"}, event : Event, row : BookRow]
      BY <3>1 DEF TypeInv, TypeOK, Idle
    <3>4. call.row.ts \in Nat /\ call.event.ts \in Nat  BY <3>3 DEF Event, BookRow
    <3>5. call.row.pos = call.event.pos /\ call.row.ts = call.event.ts
      BY <3>1 DEF PromiseInv, Stamping, WithLine
    <3>6. QED  BY <2>1, <3>2, <3>4, <3>5
  <2>4. QED  BY <1>2, <2>2, <2>3 DEF RowsSafe, Safe
<1>5. QED  BY <1>3, <1>4

-----------------------------------------------------------------------------
\* An event moves the mark of its own position, and to its own value.
LEMMA UpdateMark ==
  ASSUME NEW D, NEW b \in [D -> Line], NEW e, e.value # Null, NEW p \in D
  PROVE  /\ UpdateBookState(b, e)[p].mark \in {b[p].mark, e.value}
         /\ e.pos = p /\ e.type = "MARK" => UpdateBookState(b, e)[p].mark = e.value
<1>1. b[p] \in Line  OBVIOUS
<1>2. CASE p = e.pos /\ e.type = "MARK"
  <2>1. UpdateBookState(b, e)[p] = [b[p] EXCEPT !.mark = e.value]  BY <1>2 DEF UpdateBookState
  <2>2. QED  BY <1>1, <2>1 DEF Line
<1>3. CASE p = e.pos /\ e.type = "CREDIT_EVENT"
  <2>1. UpdateBookState(b, e)[p] = [b[p] EXCEPT !.rating = e.value]  BY <1>3 DEF UpdateBookState
  <2>2. QED  BY <1>1, <1>3, <2>1 DEF Line
<1>4. CASE ~(p = e.pos /\ e.type = "MARK") /\ ~(p = e.pos /\ e.type = "CREDIT_EVENT")
  <2>1. UpdateBookState(b, e)[p] = b[p]  BY <1>4 DEF UpdateBookState
  <2>2. QED  BY <1>4, <2>1
<1>5. QED  BY <1>2, <1>3, <1>4

\* A later event leaves every line at least at the marks promised before it.
LEMMA LaterKeepsLine ==
  ASSUME TypeInv, NEW e, e.ts \in Int, e.value = e.ts, BOOK' = UpdateBookState(BOOK, e),
         NEW f \in Event, f.value = f.ts, f.ts <= e.ts,
         f.pos \in DOMAIN BOOK, AtLeast(BOOK[f.pos], f)
  PROVE  f.pos \in DOMAIN BOOK' /\ AtLeast(BOOK'[f.pos], f)
<1>1. BOOK \in [DOMAIN positions -> Line]  BY DEF TypeInv, TypeOK
<1>2. DOMAIN BOOK' = DOMAIN BOOK  BY DEF UpdateBookState
<1>3. e.value # Null  BY NullAssumption
<1>4. BOOK'[f.pos].mark \in {BOOK[f.pos].mark, e.value}  BY <1>1, <1>3, UpdateMark
<1>5. f.ts \in Int  BY DEF Event
<1>6. QED  BY <1>2, <1>4, <1>5 DEF AtLeast

LEMMA PromiseApply == ASSUME TypeInv, PromiseInv, BatchApply PROVE NoOlderLine'
<1>1. PICK e : Applied(e)  BY ApplyEffect
<1>2. /\ call.kind = "apply" /\ e \in call.group /\ BOOK' = UpdateBookState(BOOK, e)
      /\ call'.kind = "apply" /\ UNCHANGED << horizon, acked >>
  BY <1>1 DEF Applied
<1>3. e \in CallRows /\ e.ts \in Int /\ e.value = e.ts
  BY <1>2 DEF CallRows, TypeInv, Stamped, Timed, PromiseInv, Stamping
<1>4. Promised' = acked /\ Promised = acked  BY <1>2 DEF Promised, WithLine
<1>5. \A f \in acked : f \in Event /\ f.value = f.ts /\ f.ts < e.ts /\ f.ts \in Int
  BY <1>2, <1>3, <1>4, PromisedTyped DEF PromiseInv, Stamping, CallAfterPromises
<1>6. DOMAIN BOOK' = DOMAIN BOOK  BY <1>2 DEF UpdateBookState
<1> SUFFICES ASSUME NEW f \in acked, Fresh(f), f.pos \in DOMAIN BOOK
             PROVE  AtLeast(BOOK'[f.pos], f)
  BY <1>2, <1>4, <1>6 DEF NoOlderLine, Fresh, AtLeast
<1>7. AtLeast(BOOK[f.pos], f)  BY <1>4 DEF PromiseInv, NoOlderLine
<1>8. f.ts <= e.ts  BY <1>3, <1>5
<1>9. QED  BY <1>2, <1>3, <1>5, <1>7, <1>8, LaterKeepsLine

\* The mark a start reads is that of the latest readable row, which by LiveInv is no
\* seed when it could hide a promised mark.
LEMMA PromiseBoot ==
  ASSUME TypeInv, LiveInv, PromiseInv, Boot, "lag" \notin Faults, "hydrate_fail" \notin Faults
  PROVE  NoOlderLine'
<1>1. RawRows = raw /\ rawFly = {} /\ call = Idle  BY BootReads
<1>2. UNCHANGED << call, raw, horizon, acked >> /\ BOOK' = Hydrated(InitBook(positions'), Recent)
  BY DEF Boot, tables
<1>3. Promised' = acked  BY <1>1, <1>2 DEF Promised, WithLine, Idle
<1> SUFFICES ASSUME NEW e \in acked, Fresh(e), e.pos \in DOMAIN BOOK'
             PROVE  AtLeast(BOOK'[e.pos], e)
  BY <1>2, <1>3 DEF NoOlderLine, Fresh, AtLeast
<1>4. e \in raw /\ e \in Event /\ ~IsSeed(e) /\ e.value = e.ts
  BY <1>1 DEF PromiseInv, EventsSafe, Safe, Stamping, TypeInv, TypeOK
<1>5. /\ clock \in Nat /\ horizon \in Int /\ raw \subseteq Event
      /\ \A r \in raw : r.ts \in 1 .. clock
  BY <1>1 DEF TypeInv, TypeOK, Stamped, Timed
<1>6. e.ts > horizon /\ e.type = "MARK" /\ e \in Recent  BY <1>4 DEF Fresh, Recent
<1> DEFINE rows == Of(Recent, e.pos)
           marks == OfType(rows, "MARK")
           latest == RowNumberOne(marks)
<1>7. e \in marks /\ StampedBy(rows, clock) /\ StampedBy(marks, clock)
  BY <1>5, <1>6 DEF Of, OfType, Recent, StampedBy
<1>8. latest \in marks /\ latest.ts >= e.ts
  <2> HIDE DEF marks, rows
  <2>1. QED  BY <1>5, <1>7, LatestExists
<1>9. latest \in raw /\ latest.pos = e.pos /\ latest.ts > horizon
  BY <1>8 DEF Of, OfType, Recent
<1> HIDE DEF latest
<1>10. ~IsSeed(latest)
  <2>1. e \in RawRows /\ latest \in RawRows /\ e.ts <= latest.ts  BY <1>1, <1>4, <1>5, <1>8, <1>9
  <2>2. IsSeed(latest) => e.ts <= horizon
    BY <1>4, <1>9, <2>1 DEF LiveInv, SeedsKeepLive
  <2>3. QED  BY <1>5, <1>6, <2>1, <2>2 DEF TypeInv, Stamped, Timed
<1>11. latest.value = latest.ts /\ latest.ts \in Int /\ latest.value \in Int
  BY <1>1, <1>5, <1>9, <1>10 DEF PromiseInv, Stamping
<1>12. LatestByType(rows, "MARK") = latest.value
  <2>1. LatestByType(rows, "MARK") = LatestOrNull(marks)
    <3> HIDE DEF rows
    <3>1. QED  BY <1>5, <1>7, SameLatest
  <2>2. LatestOrNull(marks) = latest.value
    <3>1. marks # {}  BY <1>7
    <3> HIDE DEF marks
    <3>2. QED  BY <3>1 DEF LatestOrNull, latest
  <2>3. QED  BY <2>1, <2>2
<1>13. e.pos \in PositionsOf(Recent)  BY <1>6 DEF PositionsOf
<1> DEFINE b == InitBook(positions')
           m == LatestByType(rows, "MARK")
           g == LatestByType(rows, "CREDIT_EVENT")
<1>14. b \in [DOMAIN positions' -> Line]
  <2>1. positions' \in {POSITIONS_DIM, Empty}  BY DEF Boot
  <2>2. QED  BY <2>1, InitBookTyped DEF Known
<1>15. DOMAIN BOOK' = DOMAIN b /\ BOOK'[e.pos] = ApplyHydrated(b, e.pos, m, g)[e.pos]
  BY <1>2, <1>13 DEF Hydrated
<1>16. m # Null  BY <1>11, <1>12, NullAssumption
<1> HIDE DEF b, m, g
<1>17. e.pos \in DOMAIN b /\ b[e.pos] \in Line  BY <1>14, <1>15
<1>18. ApplyHydrated(b, e.pos, m, g)[e.pos].mark = m
  <2>1. ApplyHydrated(b, e.pos, m, g)[e.pos]
          = [b[e.pos] EXCEPT !.mark = Coalesce(m, @), !.rating = Coalesce(g, @)]
    BY <1>17 DEF ApplyHydrated
  <2>2. Coalesce(m, b[e.pos].mark) = m  BY <1>16 DEF Coalesce
  <2>3. QED  BY <1>17, <2>1, <2>2 DEF Line
<1>19. BOOK'[e.pos].mark = latest.value  BY <1>12, <1>15, <1>18 DEF m
<1>20. QED  BY <1>4, <1>8, <1>11, <1>19 DEF AtLeast

\* A new event promises its own mark, which is above all others.
LEMMA PromiseIngest ==
  ASSUME TypeInv, PromiseInv, NEW p \in Ids, NEW type \in EventTypes, Ingest(p, type)
  PROVE  Stamping' /\ NoOlderRow' /\ NoOlderLine' /\ CallAfterPromises'
<1>1. PICK e, row : Ingested(p, type, e, row)  BY IngestEffect
<1>2. /\ e \in Event /\ e.pos = p /\ e.ts = clock + 1 /\ e.value = clock + 1 /\ ~IsSeed(e)
      /\ call = Idle /\ call' = [kind |-> "raw", event |-> e, row |-> row]
      /\ RawRows' = RawRows \union {e} /\ BOOK' = UpdateBookState(BOOK, e)
  BY <1>1 DEF Ingested, IsSeed
<1>3. \/ row = Null /\ BookRows' = BookRows
      \/ /\ p \in DOMAIN BOOK /\ row.pos = p /\ row.ts = clock + 1 /\ row.line = BOOK'[p]
         /\ BookRows' = BookRows \union {row}
  BY <1>1 DEF Ingested
<1>4. UNCHANGED << acked, horizon >>  BY DEF Ingest
<1>5. clock \in Nat /\ BOOK \in [DOMAIN positions -> Line] /\ DOMAIN BOOK' = DOMAIN BOOK
  BY <1>2 DEF TypeInv, TypeOK, UpdateBookState
<1>6. CallRows' = {e}  BY <1>2 DEF CallRows
<1>7. Stamping'
  <2>1. WithLine(call') => row # Null  BY <1>2 DEF WithLine
  <2>2. QED  BY <1>2, <1>3, <1>4, <1>6, <2>1 DEF PromiseInv, Stamping
<1>8. Promised = acked /\ Promised' \subseteq acked \union {e}
  BY <1>2, <1>4 DEF Promised, WithLine, Idle
<1>9. e \in Promised' => e \in acked \/ row # Null
  BY <1>2, <1>4 DEF Promised, WithLine
<1>10. \A f \in acked : f \in Event /\ f.value = f.ts /\ f.ts \in 1 .. clock
  BY <1>8, PromisedTyped DEF PromiseInv, Stamping
<1>11. e \notin acked  BY <1>2, <1>5, <1>10
<1>12. NoOlderLine'
  <2> SUFFICES ASSUME NEW f \in Promised', Fresh(f), f.pos \in DOMAIN BOOK
               PROVE  AtLeast(BOOK'[f.pos], f)
    BY <1>4, <1>5 DEF NoOlderLine, Fresh, AtLeast
  <2>1. CASE f \in acked
    <3>1. AtLeast(BOOK[f.pos], f)  BY <1>8, <2>1 DEF PromiseInv, NoOlderLine
    <3>2. f.ts <= e.ts /\ e.ts \in Int /\ e.value = e.ts  BY <1>2, <1>5, <1>10, <2>1
    <3>3. QED  BY <1>2, <1>10, <2>1, <3>1, <3>2, LaterKeepsLine
  <2>2. CASE f = e
    <3>1. e.value # Null /\ e.value \in Int  BY <1>2, <1>5, NullAssumption
    <3>2. e.type = "MARK" /\ e.pos \in DOMAIN BOOK  BY <2>2 DEF Fresh
    <3>3. BOOK'[e.pos].mark = e.value  BY <1>2, <1>5, <3>1, <3>2, UpdateMark
    <3>4. QED  BY <2>2, <3>1, <3>3 DEF AtLeast
  <2>3. QED  BY <1>8, <2>1, <2>2
<1>13. NoOlderRow'
  <2> SUFFICES ASSUME NEW f \in Promised', Fresh(f), NEW r \in BookRows',
                      r.pos = f.pos, r.ts >= f.ts
               PROVE  AtLeast(r.line, f)
    BY <1>4 DEF NoOlderRow, Fresh, AtLeast
  <2>1. CASE r \in BookRows
    <3>1. r.ts \in 1 .. clock  BY <2>1 DEF TypeInv, Stamped, Timed
    <3>2. f # e  BY <1>2, <1>5, <3>1
    <3>3. f \in acked  BY <1>8, <3>2
    <3>4. QED  BY <1>8, <2>1, <3>3 DEF PromiseInv, NoOlderRow
  <2>2. CASE r \notin BookRows
    <3>1. r = row /\ p \in DOMAIN BOOK /\ row.pos = p /\ row.line = BOOK'[p]  BY <1>3, <2>2
    <3>2. f.pos = p /\ f.pos \in DOMAIN BOOK'  BY <1>5, <3>1
    <3>3. Fresh(f)'  BY <1>4 DEF Fresh
    <3>4. AtLeast(BOOK'[f.pos], f)  BY <1>12, <3>2, <3>3 DEF NoOlderLine, AtLeast
    <3>5. QED  BY <3>1, <3>2, <3>4
  <2>3. QED  BY <2>1, <2>2
<1>14. CallAfterPromises'  BY <1>2 DEF CallAfterPromises
<1>15. QED  BY <1>7, <1>12, <1>13, <1>14

LEMMA PromiseBatch ==
  ASSUME TypeInv, PromiseInv, NEW items \in Batches, IngestBatch(items)
  PROVE  Stamping' /\ NoOlderRow' /\ NoOlderLine' /\ CallAfterPromises'
<1>1. PICK rows : Batched(rows)  BY BatchEffect
<1>2. /\ call = Idle /\ call' = BatchCall(rows) /\ rows \subseteq Event
      /\ \A r \in rows : r.ts \in clock + 1 .. clock' /\ r.value = r.ts /\ ~IsSeed(r)
      /\ UNCHANGED << BOOK, tables, horizon, acked >>
  BY <1>1 DEF Batched, memory, IsSeed
<1>3. RawRows' = RawRows /\ BookRows' = BookRows  BY <1>2 DEF RawRows, BookRows, tables
<1>4. call' = Idle \/ (call'.kind = "batch" /\ call'.rows = rows)  BY <1>2, BatchCallType
<1>5. CallRows' \subseteq rows  BY <1>4 DEF CallRows, Idle
<1>6. ~WithLine(call') /\ Promised' = Promised  BY <1>2, <1>4 DEF Promised, WithLine, Idle
<1>7. Stamping'  BY <1>2, <1>3, <1>5, <1>6 DEF PromiseInv, Stamping
<1>8. NoOlderRow' /\ NoOlderLine'
  BY <1>2, <1>3, <1>6 DEF PromiseInv, NoOlderRow, NoOlderLine, Fresh, AtLeast
<1>9. CallAfterPromises'
  <2>1. clock \in Nat /\ \A e \in acked : e.ts \in 1 .. clock
    BY PromisedTyped DEF TypeInv, TypeOK, Stamped, Timed
  <2>2. QED  BY <1>2, <1>5, <2>1 DEF CallAfterPromises
<1>10. QED  BY <1>7, <1>8, <1>9

LEMMA PromiseStart == Init => PromiseInv
BY DEF Init, PromiseInv, Stamping, EventsSafe, RowsSafe, NoOlderRow, NoOlderLine, CallAfterPromises,
       Promised, WithLine, RawRows, RowsIn, CallRows, Idle

LEMMA PromiseStep ==
  ASSUME "lag" \notin Faults, "hydrate_fail" \notin Faults
  PROVE  TypeInv /\ LiveInv /\ PromiseInv /\ [Next]_vars => PromiseInv'
<1> SUFFICES ASSUME TypeInv, LiveInv, PromiseInv, [Next]_vars PROVE PromiseInv'  OBVIOUS
<1>1. EventsSafe' /\ RowsSafe'  BY SafeKept
<1>2. CASE Quiet
  <2>1. NothingNew  BY <1>2, NothingNewQuiet
  <2>2. Stamping' /\ NoOlderRow' /\ CallAfterPromises' /\ (BOOK' = BOOK => NoOlderLine')
    BY <2>1, PromiseNothingNew
  <2>3. CASE BatchApply  BY <1>1, <2>2, <2>3, PromiseApply DEF PromiseInv
  <2>4. CASE Crash
    <3>1. NoOlderLine'  BY <2>4 DEF Crash, Empty, NoOlderLine
    <3>2. QED  BY <1>1, <2>2, <3>1 DEF PromiseInv
  <2>5. CASE BatchBook
    <3>1. BOOK' = BOOK  BY <2>5 DEF BatchBook, memory
    <3>2. QED  BY <1>1, <2>2, <3>1 DEF PromiseInv
  <2>6. CASE \/ Land \/ Lose \/ Age \/ BootFails \/ Heal \/ RawOk \/ RawError \/ BookOk
             \/ BookError \/ BatchError \/ UNCHANGED vars
    <3>1. BOOK' = BOOK
      BY <2>6 DEF Land, Lose, Age, BootFails, Heal, RawOk, RawError, BookOk, BookError, BatchError,
                  vars, memory
    <3>2. QED  BY <1>1, <2>2, <3>1 DEF PromiseInv
  <2>7. QED  BY <1>2, <2>3, <2>4, <2>5, <2>6 DEF Quiet
<1>3. CASE Boot
  <2>1. Stamping' /\ NoOlderRow' /\ CallAfterPromises'
    BY <1>3, NothingNewBoot, PromiseNothingNew
  <2>2. QED  BY <1>1, <1>3, <2>1, PromiseBoot DEF PromiseInv
<1>4. CASE \E p \in Known : SeedBook(p) \/ SeedMark(p)
  <2>1. BOOK' = BOOK  BY <1>4 DEF SeedBook, SeedMark
  <2>2. Stamping' /\ NoOlderRow' /\ CallAfterPromises' /\ NoOlderLine'
    BY <1>4, <2>1, NothingNewSeed, PromiseNothingNew
  <2>3. QED  BY <1>1, <2>2 DEF PromiseInv
<1>5. CASE \E p \in Ids, type \in EventTypes : Ingest(p, type)
  BY <1>1, <1>5, PromiseIngest DEF PromiseInv
<1>6. CASE \E items \in Batches : IngestBatch(items)  BY <1>1, <1>6, PromiseBatch DEF PromiseInv
<1>7. CASE BatchGroup
  <2>1. BOOK' = BOOK  BY <1>7 DEF BatchGroup, memory
  <2>2. Stamping' /\ NoOlderRow' /\ CallAfterPromises' /\ NoOlderLine'
    BY <1>7, <2>1, NothingNewGroup, PromiseNothingNew
  <2>3. QED  BY <1>1, <2>2 DEF PromiseInv
<1>8. QED  BY <1>2, <1>3, <1>4, <1>5, <1>6, <1>7 DEF Next, Quiet

\* An answer with a book_flush_committed_ms is a promise POSITION_BOOK keeps for 24
\* hours, across failed writes, failed starts and restarts, whatever the positions,
\* the batches and the bounds.
THEOREM AcknowledgedMarksStay ==
  ASSUME "lag" \notin Faults, "hydrate_fail" \notin Faults
  PROVE  Spec => []NoStaleBook
<1>1. TypeInv /\ PromiseInv => NoStaleBook
  <2> SUFFICES ASSUME TypeInv, PromiseInv, Quiescent,
                      NEW e \in acked, e.type = "MARK", e.ts > horizon
               PROVE  e.pos \in PositionsOf(book) /\ Preagg(book)[e.pos].mark >= e.value
    BY DEF NoStaleBook
  <2>1. bookFly = {} /\ call = Idle  BY DEF Quiescent
  <2>2. PICK r \in book : r.pos = e.pos /\ r.ts >= e.ts
    BY <2>1 DEF PromiseInv, RowsSafe, Safe
  <2>3. /\ clock \in Nat /\ \A s \in book : s \in BookRows /\ s.ts \in 1 .. clock
        /\ e.ts \in 1 .. clock
    BY DEF TypeInv, TypeOK, Stamped, Timed, BookRows
  <2> DEFINE rows == Of(book, e.pos)
             latest == RowNumberOne(rows)
  <2>4. r \in rows /\ StampedBy(rows, clock)  BY <2>2, <2>3 DEF Of, StampedBy
  <2>5. latest \in rows /\ r.ts <= latest.ts
    <3> HIDE DEF rows
    <3>1. QED  BY <2>3, <2>4, LatestExists
  <2>6. latest \in BookRows /\ latest.pos = e.pos /\ latest.ts >= e.ts
    BY <2>2, <2>3, <2>5 DEF Of
  <2>7. AtLeast(latest.line, e)
    BY <2>6 DEF PromiseInv, NoOlderRow, Promised, Fresh
  <2>8. e.pos \in PositionsOf(book)  BY <2>2 DEF PositionsOf
  <2>9. Preagg(book)[e.pos] = latest.line  BY <2>8 DEF Preagg, LatestRow
  <2>10. QED  BY <2>7, <2>8, <2>9 DEF AtLeast
<1>2. QED
  BY <1>1, TypeStart, TypeStep, LiveStart, LiveStep, PromiseStart, PromiseStep, PTL DEF Spec

-----------------------------------------------------------------------------
\* The line a seed rolls up to is the line the book starts with.
LEMMA SeedLine ==
  ASSUME NEW p \in Known, NEW s, s.type = "MARK", s.attrs = POSITIONS_DIM[p],
         s.value = POSITIONS_DIM[p].baseline, s.ts \in Nat
  PROVE  WindowedLine({s}) = InitBook(POSITIONS_DIM)[p]
<1>1. RowNumberOne({s}) = s
  <2>1. RowNumberOne({s}) \in {s}  BY LatestExists, s.ts \in 0 .. s.ts DEF StampedBy
  <2>2. QED  BY <2>1
<1>2. OfType({s}, "MARK") = {s} /\ OfType({s}, "CREDIT_EVENT") = {}  BY DEF OfType
<1>3. LatestOrNull({s}) = s.value /\ LatestOrNull({}) = Null  BY <1>1 DEF LatestOrNull
<1>4. WindowedLine({s}) = [opening |-> s.attrs.baseline,
                           mark |-> Coalesce(s.value, s.attrs.baseline),
                           rating |-> Coalesce(Null, s.attrs.rating), par |-> s.attrs.par]
  BY <1>1, <1>2, <1>3 DEF WindowedLine
<1>5. QED  BY <1>4 DEF Coalesce, InitBook, Known

LEMMA SameLine ==
  ASSUME NEW k \in Line, NEW o, NEW m, NEW g, NEW q,
         k.opening = o, k.mark = m, k.rating = g, k.par = q
  PROVE  k = [opening |-> o, mark |-> m, rating |-> g, par |-> q]
BY DEF Line

\* The line a start rebuilds for a position is the rollup of its rows.
LEMMA HydratedLine ==
  ASSUME NEW now \in Nat, NEW ev, ev \subseteq Event, Timed(ev, now),
         NEW p \in PositionsOf(ev), p \in Known,
         \A r \in Of(ev, p) : r.attrs = POSITIONS_DIM[p]
  PROVE  Hydrated(InitBook(POSITIONS_DIM), ev)[p] = WindowedLine(Of(ev, p))
<1> DEFINE rows == Of(ev, p)
           m == LatestByType(rows, "MARK")
           g == LatestByType(rows, "CREDIT_EVENT")
           b == InitBook(POSITIONS_DIM)
<1>1. rows # {} /\ StampedBy(rows, now) /\ rows \subseteq Event /\ Timed(rows, now)
  BY DEF PositionsOf, Of, StampedBy, Timed
<1>2. /\ b[p] \in Line /\ p \in DOMAIN b
      /\ b[p].opening = POSITIONS_DIM[p].baseline /\ b[p].mark = POSITIONS_DIM[p].baseline
      /\ b[p].rating = POSITIONS_DIM[p].rating /\ b[p].par = POSITIONS_DIM[p].par
  BY InitBookTyped DEF InitBook, Known
<1> HIDE DEF rows, b
<1>3. /\ m = LatestOrNull(OfType(rows, "MARK"))
      /\ g = LatestOrNull(OfType(rows, "CREDIT_EVENT"))
  BY <1>1, SameLatest
<1>4. m \in Int \union {Null} /\ g \in Int \union {Null}  BY <1>1, LatestTyped
<1> HIDE DEF m, g
<1>5. PICK mark, rating : /\ mark = Coalesce(m, POSITIONS_DIM[p].baseline)
                          /\ rating = Coalesce(g, POSITIONS_DIM[p].rating)
  OBVIOUS
<1>6. mark \in Int \union {Null} /\ rating \in Int \union {Null}
  BY <1>2, <1>4, <1>5 DEF Coalesce, Line
<1>7. Hydrated(b, ev)[p] = [b[p] EXCEPT !.mark = mark, !.rating = rating]
  <2>1. Hydrated(b, ev)[p] = ApplyHydrated(b, p, m, g)[p]  BY <1>2 DEF Hydrated, rows, m, g
  <2>2. ApplyHydrated(b, p, m, g)[p]
          = [b[p] EXCEPT !.mark = Coalesce(m, @), !.rating = Coalesce(g, @)]
    BY <1>2 DEF ApplyHydrated
  <2>3. QED  BY <1>2, <1>5, <2>1, <2>2
<1>8. RowNumberOne(rows).attrs = POSITIONS_DIM[p]
  <2>1. RowNumberOne(rows) \in rows  BY <1>1, LatestExists
  <2>2. QED  BY <2>1 DEF rows
<1>9. WindowedLine(rows) = [opening |-> POSITIONS_DIM[p].baseline, mark |-> mark,
                            rating |-> rating, par |-> POSITIONS_DIM[p].par]
  BY <1>3, <1>5, <1>8 DEF WindowedLine
<1>10. Hydrated(b, ev)[p] = WindowedLine(rows)
  <2>1. PICK line : line = b[p]  OBVIOUS
  <2>2. PICK k : k = [line EXCEPT !.mark = mark, !.rating = rating]  OBVIOUS
  <2>3. line \in Line  BY <1>2, <2>1
  <2>4. /\ k \in Line /\ k.opening = line.opening /\ k.mark = mark
        /\ k.rating = rating /\ k.par = line.par
    BY <1>6, <2>2, <2>3 DEF Line
  <2>5. k = [opening |-> line.opening, mark |-> mark, rating |-> rating, par |-> line.par]
    BY <2>4, SameLine
  <2>6. QED  BY <1>2, <1>7, <1>9, <2>1, <2>2, <2>5
<1>11. QED  BY <1>10 DEF rows, b

\* RollupFollowsBook for a line of the whole book; the other lines stay.
LEMMA UpdateLine ==
  ASSUME NEW b, NEW e, NEW ev, e.pos \in DOMAIN b, b[e.pos] = WindowedLine(ev), ev # {},
         e.ts \in Nat \ {0}, e.value = e.ts, \A f \in ev : f.ts \in Nat /\ f.ts < e.ts /\ f.attrs = e.attrs
  PROVE  /\ UpdateBookState(b, e)[e.pos] = WindowedLine(ev \union {e})
         /\ \A p \in DOMAIN b : p # e.pos => UpdateBookState(b, e)[p] = b[p]
<1>1. PICK now : now = e.ts - 1  OBVIOUS
<1>2. /\ now \in Nat /\ StampedBy(ev, now) /\ e.ts \in Int /\ e.ts > now /\ e.value # Null
      /\ \A f \in ev : f.attrs = e.attrs
  BY <1>1, NullAssumption DEF StampedBy
<1>3. QED  BY <1>2, RollupFollowsBook

\* What a step needs to publish a line, or to leave one published.
LEMMA PublishedNew ==
  ASSUME NEW r, NEW p, BookRows' = BookRows \union {r}, r.pos = p, r.line = BOOK'[p],
         \A s \in BookRows : s.pos = p => s.ts < r.ts
  PROVE  Published(p)'
BY DEF Published

LEMMA PublishedOther ==
  ASSUME NEW rows, NEW p, Published(p), BookRows' = BookRows \union rows,
         \A r \in rows : r.pos # p, BOOK'[p] = BOOK[p]
  PROVE  Published(p)'
BY DEF Published

-----------------------------------------------------------------------------
\* The steps of agreement.  RAW_EVENTS, POSITION_BOOK and BOOK as they are:
LEMMA AgreeSame ==
  ASSUME Agreed, RawRows' = RawRows, BookRows' = BookRows, CallRows' \subseteq CallRows,
         UNCHANGED << phase, memory >>,
         \/ call' = call
         \/ call.kind \in {"raw", "book"} /\ call'.kind \in {"none", "book"}
  PROVE  Agreed'
<1>1. UNCHANGED << bookUp, positions, BOOK, recent, todo, marking >>  BY DEF memory
<1>2. KnownRows'  BY DEF Agreed, KnownRows
<1>3. Started'  BY <1>1 DEF Agreed, Started
<1>4. Group' = Group  BY DEF Group
<1>5. CallRowsLater'  BY DEF Agreed, CallRowsLater, LaterRows
<1>6. ASSUME NEW p \in Known, phase # "down"
      PROVE  Lined(p)' /\ (Unpublished(p) \/ Published(p))'
  <2>1. Lined(p) /\ (Unpublished(p) \/ Published(p))  BY <1>6 DEF Agreed
  <2>2. Lined(p)'  BY <1>1, <1>4, <2>1 DEF Lined, Unseeded, AppliedOf
  <2>3. Published(p) => Published(p)'  BY <1>1 DEF Published
  <2>4. Unpublished(p) => Unpublished(p)'  BY <1>1 DEF Unpublished, Unseeded
  <2>5. QED  BY <2>1, <2>2, <2>3, <2>4
<1>7. QED  BY <1>2, <1>3, <1>5, <1>6 DEF Agreed

\* Down, nothing is claimed of the book, and rows may be lost.
LEMMA AgreeDown ==
  ASSUME Agreed, RawRows' \subseteq RawRows, BookRows' \subseteq BookRows, phase' = "down",
         call' = Idle
  PROVE  Agreed'
<1>1. CallRows' = {}  BY DEF CallRows, Idle
<1>2. KnownRows'  BY <1>1 DEF Agreed, KnownRows
<1>3. Started'  BY DEF Started
<1>4. CallRowsLater'  BY DEF CallRowsLater, Idle
<1>5. QED  BY <1>2, <1>3, <1>4 DEF Agreed

OnlyCrashes == Faults \subseteq {"crash"} /\ UnknownIds = {}

LEMMA AgreeBoot ==
  ASSUME TypeInv, Agreed, horizon = 0, Boot, OnlyCrashes
  PROVE  Agreed'
<1>1. RawRows = raw /\ RawRows' = RawRows /\ BookRows' = BookRows /\ CallRows' = {} /\ call = Idle
  BY BootReads DEF OnlyCrashes
<1>2. /\ positions' = POSITIONS_DIM /\ phase' = "seed" /\ todo' = Known /\ call' = call
      /\ BOOK' = Hydrated(InitBook(positions'), Recent) /\ recent' = PositionsOf(Recent)
  BY DEF Boot, OnlyCrashes
<1>3. bookUp' /\ marking' = {}
  <2>1. phase = "down" /\ marking' = marking  BY DEF Boot, MayBoot
  <2>2. bookUp'  BY Zenon DEF Boot
  <2>3. QED  BY <2>1, <2>2 DEF TypeInv
<1>4. clock \in Nat /\ raw \subseteq Event /\ Timed(raw, clock)
  BY <1>1 DEF TypeInv, TypeOK, Stamped
<1>5. Recent = raw  BY <1>4 DEF Recent, Timed
<1>6. KnownRows'  BY <1>1 DEF Agreed, KnownRows
<1>7. Started'
  <2>1. phase' # "down" => bookUp' /\ positions' = POSITIONS_DIM  BY <1>2, <1>3
  <2>2. phase' = "serving" => todo' = {}  BY <1>2
  <2>3. QED  BY <2>1, <2>2 DEF Started
<1>8. CallRowsLater'  BY <1>1, <1>2 DEF CallRowsLater, Idle
<1>9. Group' = {}  BY <1>1, <1>2 DEF Group, Idle
<1>10. ASSUME NEW p \in Known PROVE Lined(p)' /\ Unpublished(p)'
  <2>1. Unseeded(p)'  BY <1>2 DEF Unseeded
  <2>2. Unpublished(p)'  BY <1>3, <2>1 DEF Unpublished
  <2>3. CASE p \in PositionsOf(raw)
    <3>1. \A r \in Of(raw, p) : r.attrs = POSITIONS_DIM[p]
      BY <1>1 DEF Agreed, KnownRows, Of
    <3>2. BOOK'[p] = WindowedLine(Of(raw, p))  BY <1>2, <1>4, <1>5, <2>3, <3>1, HydratedLine
    <3>3. Of(raw, p) # {} /\ p \in recent'  BY <1>2, <1>5, <2>3 DEF Of, PositionsOf
    <3>4. AppliedOf(p)' = Of(raw, p)  BY <1>1, <1>9 DEF AppliedOf
    <3>5. QED  BY <2>2, <3>2, <3>3, <3>4 DEF Lined
  <2>4. CASE p \notin PositionsOf(raw)
    <3>1. Of(raw, p) = {} /\ p \notin recent'  BY <1>2, <1>5, <2>4 DEF Of, PositionsOf
    <3>2. BOOK'[p] = InitBook(POSITIONS_DIM)[p]
      BY <1>2, <1>5, <2>4 DEF Hydrated, InitBook, Known
    <3>3. Of(RawRows', p) = {}  BY <1>1, <3>1
    <3>4. QED  BY <2>1, <2>2, <3>1, <3>2, <3>3 DEF Lined
  <2>5. QED  BY <2>3, <2>4
<1>11. QED  BY <1>6, <1>7, <1>8, <1>10 DEF Agreed

LEMMA AgreeSeed ==
  ASSUME TypeInv, Agreed, NEW p \in Known, SeedBook(p) \/ SeedMark(p), OnlyCrashes
  PROVE  Agreed'
<1>1. PICK seeds, rows : Seeded(p, seeds, rows)  BY SeedEffect
<1>2. /\ phase = "seed" /\ p \in todo /\ todo' = todo \ ({p} \ marking') /\ call = Idle /\ call' = call
      /\ phase' = IF todo' = {} THEN "serving" ELSE "seed"
      /\ RawRows' = RawRows \union seeds /\ BookRows' = BookRows \union rows /\ CallRows' = {}
      /\ UNCHANGED << bookUp, positions, BOOK, recent >> /\ clock \in Nat
      /\ clock' \in Nat \ {0}
  BY <1>1 DEF Seeded
<1>3. /\ marking' \subseteq {p} /\ marking \subseteq {p}
      /\ \/ /\ seeds = {} /\ marking = {}
            /\ IF marking' = {p} THEN p \notin recent ELSE p \in recent
         \/ /\ marking = {p} /\ marking' = {} /\ p \notin recent /\ rows = {}
            /\ seeds = {SeedRow(p, clock')}
  BY <1>1 DEF Seeded, BookHalf, MarkHalf, OnlyCrashes
<1>4. \A s \in seeds : /\ s.pos = p /\ s.ts = clock' /\ s.attrs = AttrsOf(p)
                       /\ s.value = AttrsOf(p).baseline /\ s.type = "MARK"
  BY <1>1 DEF Seeded
<1>5. positions = POSITIONS_DIM /\ DOMAIN BOOK = Known
  BY <1>2 DEF Agreed, Started, TypeInv, TypeOK, Known
<1>6. AttrsOf(p) = POSITIONS_DIM[p]  BY <1>5 DEF AttrsOf, Known
<1>7. \A r \in rows : r.pos = p /\ r.ts = clock' /\ r.line = BOOK[p]
  BY <1>1 DEF Seeded
<1>8. KnownRows'
  <2>1. \A r \in RawRows' : r.pos \in Known /\ r.attrs = POSITIONS_DIM[r.pos]
    BY <1>2, <1>4, <1>6 DEF Agreed, KnownRows
  <2>2. QED  BY <1>2, <2>1 DEF KnownRows
<1>9. Started'  BY <1>2 DEF Agreed, Started
<1>10. CallRowsLater'  BY <1>2 DEF CallRowsLater, Idle
<1>11. Group = {} /\ Group' = {}  BY <1>2 DEF Group, Idle
<1>12. Lined(p) /\ (Unpublished(p) \/ Published(p))  BY <1>2 DEF Agreed
<1>13. Published(p)'
  <2>1. CASE marking = {}
    <3>1. PICK row : rows = {row} /\ row.pos = p /\ row.ts = clock + 1 /\ row.line = BOOK[p]
      BY <1>1, <1>5, <2>1 DEF Seeded, BookHalf, MarkHalf
    <3>2. \A s \in BookRows : s.pos = p => s.ts < row.ts
      BY <1>2, <3>1 DEF TypeInv, Stamped, Timed
    <3>3. QED  BY <1>2, <3>1, <3>2, PublishedNew
  <2>2. CASE marking = {p}
    <3>1. ~Unpublished(p)  BY <1>2, <2>2 DEF Unpublished, Idle
    <3>2. Published(p) /\ BookRows' = BookRows /\ BOOK' = BOOK  BY <1>2, <1>3, <1>12, <2>2, <3>1
    <3>3. QED  BY <3>2 DEF Published
  <2>3. QED  BY <1>3, <2>1, <2>2
<1>14. Lined(p)'
  <2>1. CASE marking' = {p}
    <3>1. seeds = {} /\ RawRows' = RawRows /\ p \notin recent  BY <1>2, <1>3, <2>1
    <3>2. Unseeded(p) /\ Unseeded(p)'  BY <1>2, <2>1 DEF Unseeded
    <3>3. Of(RawRows, p) = {} /\ BOOK[p] = InitBook(POSITIONS_DIM)[p]
      BY <1>12, <3>1, <3>2 DEF Lined
    <3>4. Of(RawRows', p) = {} /\ p \notin recent' /\ BOOK'[p] = InitBook(POSITIONS_DIM)[p]
      BY <1>2, <3>1, <3>3
    <3>5. QED  BY <3>2, <3>4 DEF Lined
  <2>2. CASE marking' = {} /\ p \in recent
    <3>1. seeds = {} /\ RawRows' = RawRows /\ ~Unseeded(p)'  BY <1>2, <1>3, <2>2 DEF Unseeded
    <3>2. AppliedOf(p) # {} /\ BOOK[p] = WindowedLine(AppliedOf(p))
      BY <1>12, <2>2 DEF Lined
    <3>3. AppliedOf(p)' = AppliedOf(p)  BY <1>11, <3>1 DEF AppliedOf
    <3>4. QED  BY <1>2, <3>1, <3>2, <3>3 DEF Lined
  <2>3. CASE marking' = {} /\ p \notin recent
    <3>1. Unseeded(p) /\ ~Unseeded(p)'  BY <1>2, <2>3 DEF Unseeded
    <3>2. Of(RawRows, p) = {} /\ BOOK[p] = InitBook(POSITIONS_DIM)[p]
      BY <1>12, <2>3, <3>1 DEF Lined
    <3>3. PICK s : seeds = {s}  BY <1>3, <2>3
    <3>4. WindowedLine({s}) = InitBook(POSITIONS_DIM)[p]
      BY <1>2, <1>4, <1>6, <3>3, SeedLine
    <3>5. Of(RawRows', p) = {s}
      <4>1. Of(RawRows', p) = Of(RawRows, p) \union seeds  BY <1>2, <1>4 DEF Of
      <4>2. QED  BY <3>2, <3>3, <4>1
    <3>6. AppliedOf(p)' = {s}  BY <1>11, <3>5 DEF AppliedOf
    <3>7. QED  BY <1>2, <3>1, <3>2, <3>4, <3>6 DEF Lined
  <2>4. QED  BY <1>3, <2>1, <2>2, <2>3
<1>15. ASSUME NEW q \in Known, q # p PROVE Lined(q)' /\ (Unpublished(q) \/ Published(q))'
  <2>0. Lined(q) /\ (Unpublished(q) \/ Published(q))  BY <1>2 DEF Agreed
  <2>1. Of(RawRows', q) = Of(RawRows, q)  BY <1>2, <1>4, <1>15 DEF Of
  <2>2. AppliedOf(q)' = AppliedOf(q)  BY <1>11, <2>1 DEF AppliedOf
  <2>3. Unseeded(q)' <=> Unseeded(q)  BY <1>2, <1>15 DEF Unseeded
  <2>4. Lined(q)'  BY <1>2, <2>0, <2>1, <2>2, <2>3 DEF Lined
  <2>5. Published(q) => Published(q)'
    <3>1. \A r \in rows : r.pos # q  BY <1>7, <1>15
    <3>2. BOOK'[q] = BOOK[q] /\ BookRows' = BookRows \union rows  BY <1>2
    <3>3. QED  BY <3>1, <3>2, PublishedOther
  <2>6. Unpublished(q) => Unpublished(q)'
    <3>1. q \notin marking'  BY <1>3, <1>15
    <3>2. QED  BY <1>2, <2>3, <3>1 DEF Unpublished, Idle
  <2>7. QED  BY <2>0, <2>4, <2>5, <2>6
<1>16. QED  BY <1>8, <1>9, <1>10, <1>13, <1>14, <1>15 DEF Agreed

LEMMA AgreeIngest ==
  ASSUME TypeInv, Agreed, NEW p \in Ids, NEW type \in EventTypes, Ingest(p, type), OnlyCrashes
  PROVE  Agreed'
<1>0. UNCHANGED << phase, bookUp, positions, recent, todo, marking >>  BY DEF Ingest
<1>1. PICK e, row : Ingested(p, type, e, row)  BY IngestEffect
<1>2. /\ e.pos = p /\ e.ts = clock + 1 /\ e.value = e.ts /\ e.attrs = AttrsOf(p)
      /\ phase = "serving" /\ call = Idle /\ BOOK' = UpdateBookState(BOOK, e)
      /\ RawRows' = RawRows \union {e} /\ call' = [kind |-> "raw", event |-> e, row |-> row]
  BY <1>1 DEF Ingested
<1>3. /\ clock \in Nat /\ p \in Known /\ positions = POSITIONS_DIM /\ DOMAIN BOOK = Known
      /\ todo = {}
  BY <1>2 DEF Agreed, Started, TypeInv, TypeOK, Known, Ids, OnlyCrashes
<1>4. bookUp  BY <1>2 DEF Agreed, Started
<1>5. /\ row.pos = p /\ row.ts = clock + 1 /\ row.line = BOOK'[p]
      /\ BookRows' = BookRows \union {row}
  BY <1>1, <1>3, <1>4 DEF Ingested
<1>6. AttrsOf(p) = POSITIONS_DIM[p]  BY <1>3 DEF AttrsOf, Known
<1>7. CallRows' = {e}  BY <1>2 DEF CallRows
<1>8. KnownRows'
  <2>1. \A r \in RawRows' \union CallRows' : r.pos \in Known /\ r.attrs = POSITIONS_DIM[r.pos]
    BY <1>2, <1>3, <1>6, <1>7 DEF Agreed, KnownRows
  <2>2. QED  BY <1>2, <1>7, <2>1 DEF Agreed, KnownRows
<1>9. Started'  BY <1>0 DEF Agreed, Started
<1>10. CallRowsLater'  BY <1>2 DEF CallRowsLater
<1>11. Group = {} /\ Group' = {}  BY <1>2 DEF Group, Idle
<1>12. \A q : ~Unseeded(q) /\ ~Unseeded(q)'  BY <1>0, <1>2 DEF Unseeded
<1>13. \A q \in Known : /\ Of(RawRows, q) # {} /\ BOOK[q] = WindowedLine(Of(RawRows, q))
                        /\ Published(q)
  <2> SUFFICES ASSUME NEW q \in Known
               PROVE  /\ Of(RawRows, q) # {} /\ BOOK[q] = WindowedLine(Of(RawRows, q))
                      /\ Published(q)
    OBVIOUS
  <2>1. Lined(q) /\ (Unpublished(q) \/ Published(q))  BY <1>2 DEF Agreed
  <2>2. AppliedOf(q) = Of(RawRows, q)  BY <1>11 DEF AppliedOf
  <2>3. ~Unpublished(q)  BY <1>2, <1>12 DEF Unpublished, Idle
  <2>4. QED  BY <1>12, <2>1, <2>2, <2>3 DEF Lined
<1>14. /\ BOOK'[p] = WindowedLine(Of(RawRows, p) \union {e})
       /\ \A q \in Known : q # p => BOOK'[q] = BOOK[q]
  <2>1. \A f \in Of(RawRows, p) : f.ts \in Nat /\ f.ts < e.ts /\ f.attrs = e.attrs
    <3>1. \A f \in Of(RawRows, p) : f \in RawRows /\ f.pos = p  BY DEF Of
    <3>2. \A f \in RawRows : f.ts \in 1 .. clock /\ f.attrs = POSITIONS_DIM[f.pos]
      BY DEF TypeInv, Stamped, Timed, Agreed, KnownRows
    <3>3. QED  BY <1>2, <1>3, <1>6, <3>1, <3>2
  <2>2. e.ts \in Nat \ {0}  BY <1>2, <1>3
  <2>3. QED  BY <1>2, <1>3, <1>13, <2>1, <2>2, UpdateLine
<1>15. ASSUME NEW q \in Known PROVE Lined(q)' /\ Published(q)'
  <2>1. CASE q = p
    <3>1. Of(RawRows', p) = Of(RawRows, p) \union {e}  BY <1>2 DEF Of
    <3>2. AppliedOf(p)' = Of(RawRows, p) \union {e}  BY <1>11, <3>1 DEF AppliedOf
    <3>3. Lined(p)'  BY <1>12, <1>14, <3>2 DEF Lined
    <3>4. \A s \in BookRows : s.pos = p => s.ts < row.ts
      BY <1>3, <1>5 DEF TypeInv, Stamped, Timed
    <3>5. QED  BY <1>5, <2>1, <3>3, <3>4, PublishedNew
  <2>2. CASE q # p
    <3>1. Of(RawRows', q) = Of(RawRows, q)  BY <1>2, <2>2 DEF Of
    <3>2. AppliedOf(q)' = Of(RawRows, q)  BY <1>11, <3>1 DEF AppliedOf
    <3>3. Lined(q)'  BY <1>12, <1>13, <1>14, <2>2, <3>2 DEF Lined
    <3>4. Published(q)'
      <4>1. PICK rows : rows = {row}  OBVIOUS
      <4>2. QED  BY <1>5, <1>13, <1>14, <2>2, <4>1, PublishedOther
    <3>5. QED  BY <3>3, <3>4
  <2>3. QED  BY <2>1, <2>2
<1>16. QED  BY <1>8, <1>9, <1>10, <1>15 DEF Agreed

LEMMA AgreeBatch ==
  ASSUME TypeInv, Agreed, NEW items \in Batches, IngestBatch(items), OnlyCrashes
  PROVE  Agreed'
<1>1. PICK rows : Batched(rows)  BY BatchEffect
<1>2. /\ phase = "serving" /\ call = Idle /\ call' = BatchCall(rows) /\ rows \subseteq Event
      /\ \A r \in rows : r.ts \in clock + 1 .. clock' /\ r.value = r.ts /\ r.attrs = AttrsOf(r.pos)
      /\ \A r, s \in rows : r.ts = s.ts => r = s
      /\ UNCHANGED << phase, bookUp, positions, BOOK, recent, todo, marking, tables >>
  BY <1>1 DEF Batched, memory
<1>3. RawRows' = RawRows /\ BookRows' = BookRows  BY <1>2 DEF RawRows, BookRows, tables
<1>4. call' = Idle \/ (call'.kind = "batch" /\ call'.rows = rows)  BY <1>2, BatchCallType
<1>5. CallRows' \subseteq rows  BY <1>4 DEF CallRows, Idle
<1>6. positions = POSITIONS_DIM  BY <1>2 DEF Agreed, Started
<1>7. \A r \in rows : r.pos \in Known /\ r.attrs = POSITIONS_DIM[r.pos]
  BY <1>2, <1>6 DEF Event, Ids, OnlyCrashes, AttrsOf, Known
<1>8. KnownRows'  BY <1>2, <1>3, <1>5, <1>7 DEF Agreed, KnownRows
<1>9. Started'  BY <1>2 DEF Agreed, Started
<1>10. /\ clock \in Nat /\ \A s \in RawRows : s.ts \in 1 .. clock
       /\ \A s \in BookRows : s.ts \in 1 .. clock
  BY DEF TypeInv, TypeOK, Stamped, Timed
<1>11. CallRowsLater'
  <2>1. \A r \in rows : /\ \A s \in RawRows : s.ts < r.ts
                        /\ \A s \in BookRows : s.ts < r.ts
    BY <1>2, <1>10
  <2>2. rows \intersect RawRows = {}  BY <1>2, <1>10
  <2>3. CASE call' = Idle  BY <2>3 DEF CallRowsLater, Idle
  <2>4. CASE call'.kind = "batch" /\ call'.rows = rows
    BY <1>2, <1>3, <2>1, <2>2, <2>4 DEF CallRowsLater, LaterRows
  <2>5. QED  BY <1>4, <2>3, <2>4
<1>12. Group = {} /\ Group' = {}  BY <1>2, <1>4 DEF Group, Idle
<1>13. ASSUME NEW q \in Known PROVE Lined(q)' /\ (Unpublished(q) \/ Published(q))'
  <2>1. Lined(q) /\ (Unpublished(q) \/ Published(q))  BY <1>2 DEF Agreed
  <2>2. Lined(q)'  BY <1>2, <1>3, <1>12, <2>1 DEF Lined, Unseeded, AppliedOf
  <2>3. Published(q) => Published(q)'  BY <1>2, <1>3 DEF Published
  <2>4. ~Unpublished(q)  BY <1>2 DEF Unpublished, Unseeded, Idle
  <2>5. QED  BY <2>1, <2>2, <2>3, <2>4
<1>14. QED  BY <1>8, <1>9, <1>11, <1>13 DEF Agreed

\* The rows of a group are submitted, and wait to be applied.
LEMMA AgreeGroup == ASSUME TypeInv, Agreed, BatchGroup PROVE Agreed'
<1>1. PICK group, rest, last : Grouped(group, rest, last)  BY GroupEffect
<1>2. /\ call.kind = "batch" /\ group \subseteq call.rows /\ rest = call.rows \ group
      /\ last \in group /\ call.rows \subseteq Event
      /\ \A s \in call.rows : s \in group <=> s.pos = last.pos
      /\ RawRows' = RawRows \union group /\ BookRows' = BookRows
      /\ UNCHANGED << phase, bookUp, positions, BOOK, recent, todo, marking >>
  BY <1>1 DEF Grouped, memory
<1>3. phase = "serving" /\ CallRows = call.rows  BY <1>2 DEF TypeInv, CallRows, Idle
<1>4. call' = [kind |-> "apply", rows |-> rest, group |-> group, last |-> last]
  <2>1. bookUp  BY <1>3 DEF Agreed, Started
  <2>2. QED  BY <1>1, <2>1 DEF Grouped
<1>5. CallRows' = call.rows
  <2>1. CallRows' = rest \union group \union {last}  BY <1>4 DEF CallRows
  <2>2. QED  BY <1>2, <2>1
<1>6. /\ LaterRows(call.rows) /\ call.rows \intersect RawRows = {}
      /\ \A r \in call.rows, s \in BookRows : s.pos = r.pos => s.ts < r.ts
  BY <1>2 DEF Agreed, CallRowsLater
<1>7. \A r \in call.rows, s \in RawRows : s.pos = r.pos => s.ts < r.ts
  BY <1>6 DEF LaterRows
<1>8. KnownRows'
  <2>1. \A r \in RawRows' \union CallRows' : r \in RawRows \union CallRows
    BY <1>2, <1>3, <1>5
  <2>2. QED  BY <1>2, <1>3, <1>5, <2>1 DEF Agreed, KnownRows
<1>9. Started'  BY <1>2 DEF Agreed, Started
<1>10. CallRowsLater'
  <2>1. LaterRows(rest)'
    <3>1. \A r, s \in rest : r.ts = s.ts => r = s  BY <1>2, <1>6 DEF LaterRows
    <3>2. ASSUME NEW r \in rest, NEW s \in RawRows', s.pos = r.pos PROVE s.ts < r.ts
      <4>1. s \notin group  BY <1>2, <3>2
      <4>2. QED  BY <1>2, <1>7, <3>2, <4>1
    <3>3. QED  BY <3>1, <3>2 DEF LaterRows
  <2>2. LaterRows(group)'
    <3>1. \A r, s \in group : r.ts = s.ts => r = s  BY <1>2, <1>6 DEF LaterRows
    <3>2. \A r \in group, s \in RawRows' \ group : s.pos = r.pos => s.ts < r.ts
      BY <1>2, <1>7
    <3>3. QED  BY <3>1, <3>2 DEF LaterRows
  <2>3. /\ rest \intersect RawRows' = {} /\ group \subseteq RawRows' /\ last \in RawRows'
        /\ \A r \in group : r.pos = last.pos /\ \A r2 \in rest : r2.pos # last.pos
    BY <1>2, <1>6
  <2>4. /\ \A r \in rest, s \in BookRows' : s.pos = r.pos => s.ts < r.ts
        /\ \A s \in BookRows' : s.pos = last.pos => s.ts < last.ts
    BY <1>2, <1>6
  <2>5. /\ call'.kind = "apply" /\ call'.rows = rest /\ call'.group = group /\ call'.last = last
    BY <1>4
  <2>6. \A r \in rest : r.pos # last.pos  BY <1>2
  <2>7. QED  BY <2>1, <2>2, <2>3, <2>4, <2>5, <2>6 DEF CallRowsLater, LaterRows
<1>11. Group = {} /\ Group' = group  BY <1>2, <1>4 DEF Group
<1>12. ASSUME NEW q \in Known PROVE Lined(q)' /\ (Unpublished(q) \/ Published(q))'
  <2>1. Lined(q) /\ (Unpublished(q) \/ Published(q))  BY <1>3 DEF Agreed
  <2>2. AppliedOf(q)' = AppliedOf(q)
    <3>1. group \intersect RawRows = {}  BY <1>2, <1>6
    <3>2. QED  BY <1>2, <1>11, <3>1 DEF AppliedOf, Of
  <2>3. ~Unseeded(q) /\ ~Unseeded(q)'  BY <1>2, <1>3 DEF Unseeded
  <2>4. Lined(q)'  BY <1>2, <2>1, <2>2, <2>3 DEF Lined
  <2>5. Published(q) => Published(q)'  BY <1>2 DEF Published
  <2>6. ~Unpublished(q)  BY <1>2, <2>3 DEF Unpublished
  <2>7. QED  BY <2>1, <2>4, <2>5, <2>6
<1>13. QED  BY <1>8, <1>9, <1>10, <1>12 DEF Agreed

LEMMA AgreeApply == ASSUME TypeInv, Agreed, BatchApply PROVE Agreed'
<1>1. PICK e : Applied(e)  BY ApplyEffect
<1>2. /\ call.kind = "apply" /\ e \in call.group /\ \A s \in call.group : e.ts <= s.ts
      /\ call \in [kind : {"apply"}, rows : SUBSET Event, group : SUBSET Event, last : Event]
      /\ BOOK' = UpdateBookState(BOOK, e) /\ call' = [call EXCEPT !.group = @ \ {e}]
      /\ UNCHANGED << phase, bookUp, positions, recent, todo, marking, tables >>
  BY <1>1 DEF Applied
<1>3. /\ call'.kind = "apply" /\ call'.rows = call.rows /\ call'.group = call.group \ {e}
      /\ call'.last = call.last
  BY <1>2
<1>4. RawRows' = RawRows /\ BookRows' = BookRows /\ CallRows' \subseteq CallRows
  BY <1>2, <1>3 DEF RawRows, BookRows, CallRows, tables
<1>5. /\ phase = "serving" /\ e \in CallRows /\ clock \in Nat
      /\ \A s \in RawRows \union CallRows : s.ts \in 1 .. clock
  BY <1>2 DEF TypeInv, TypeOK, Stamped, Timed, CallRows, Idle
<1>6. KnownRows'  BY <1>4 DEF Agreed, KnownRows
<1>7. Started'  BY <1>2 DEF Agreed, Started
<1>8. /\ LaterRows(call.group) /\ call.group \subseteq RawRows
      /\ \A r \in call.group : r.pos = call.last.pos
  BY <1>2 DEF Agreed, CallRowsLater
<1>9. CallRowsLater'
  <2>1. LaterRows(call.group)'
    <3>1. \A r, s \in call.group \ {e} : r.ts = s.ts => r = s  BY <1>8 DEF LaterRows
    <3>2. ASSUME NEW r \in call.group \ {e}, NEW s \in RawRows \ (call.group \ {e}), s.pos = r.pos
          PROVE  s.ts < r.ts
      <4>1. CASE s = e
        <5>1. e.ts <= r.ts /\ e.ts # r.ts  BY <1>2, <1>8 DEF LaterRows
        <5>2. e.ts \in Int /\ r.ts \in Int  BY <1>2, <1>5, <1>8
        <5>3. QED  BY <4>1, <5>1, <5>2
      <4>2. CASE s # e  BY <1>8, <3>2, <4>2 DEF LaterRows
      <4>3. QED  BY <4>1, <4>2
    <3>3. QED  BY <1>3, <1>4, <3>1, <3>2 DEF LaterRows
  <2>2. LaterRows(call.rows)'  BY <1>2, <1>4 DEF Agreed, CallRowsLater, LaterRows
  <2>3. QED  BY <1>2, <1>3, <1>4, <2>1, <2>2 DEF Agreed, CallRowsLater, LaterRows
<1>10. Group = call.group /\ Group' = call.group \ {e}  BY <1>2, <1>3 DEF Group
<1>11. \A q : ~Unseeded(q) /\ ~Unseeded(q)'  BY <1>2, <1>5 DEF Unseeded
<1>12. PICK p : p = call.last.pos  OBVIOUS
<1>13. e.pos = p /\ p \in Known /\ DOMAIN BOOK = Known /\ e.attrs = POSITIONS_DIM[p]
       /\ e.value = e.ts /\ e.ts \in Nat \ {0} /\ e \in RawRows
  BY <1>2, <1>5, <1>8, <1>12 DEF Agreed, KnownRows, Started, TypeInv, TypeOK, Known
<1>14. \A q \in Known : AppliedOf(q) # {} /\ BOOK[q] = WindowedLine(AppliedOf(q))
  BY <1>5, <1>11 DEF Agreed, Lined
<1>15. /\ BOOK'[p] = WindowedLine(AppliedOf(p) \union {e})
       /\ \A q \in Known : q # p => BOOK'[q] = BOOK[q]
  <2>1. \A f \in AppliedOf(p) : f.ts \in Nat /\ f.ts < e.ts /\ f.attrs = e.attrs
    <3>1. \A f \in AppliedOf(p) : f \in RawRows \ call.group /\ f.pos = p
      BY <1>10 DEF AppliedOf, Of
    <3>2. \A f \in RawRows : f.ts \in Nat /\ f.attrs = POSITIONS_DIM[f.pos]
      BY <1>5 DEF Agreed, KnownRows
    <3>3. QED  BY <1>2, <1>8, <1>13, <3>1, <3>2 DEF LaterRows
  <2>2. QED  BY <1>2, <1>13, <1>14, <2>1, UpdateLine
<1>16. ASSUME NEW q \in Known PROVE Lined(q)' /\ (Unpublished(q) \/ Published(q))'
  <2>1. Unpublished(q) \/ Published(q)  BY <1>5 DEF Agreed
  <2>2. CASE q = p
    <3>1. AppliedOf(p)' = AppliedOf(p) \union {e}
      BY <1>4, <1>2, <1>10, <1>13 DEF AppliedOf, Of
    <3>2. Lined(q)'  BY <1>11, <1>15, <2>2, <3>1 DEF Lined
    <3>3. Unpublished(q)'  BY <1>3, <1>12, <2>2 DEF Unpublished
    <3>4. QED  BY <3>2, <3>3
  <2>3. CASE q # p
    <3>1. AppliedOf(q)' = AppliedOf(q)
      BY <1>4, <1>10, <1>13, <2>3 DEF AppliedOf, Of
    <3>2. Lined(q)'  BY <1>11, <1>14, <1>15, <2>3, <3>1 DEF Lined
    <3>3. ~Unpublished(q)  BY <1>11, <1>12, <2>3 DEF Unpublished
    <3>4. Published(q)'  BY <1>4, <1>15, <2>1, <2>3, <3>3 DEF Published
    <3>5. QED  BY <3>2, <3>4
  <2>4. QED  BY <2>2, <2>3
<1>17. QED  BY <1>6, <1>7, <1>9, <1>16 DEF Agreed

LEMMA AgreeBatchBook ==
  ASSUME TypeInv, Agreed, BatchBook, OnlyCrashes
  PROVE  Agreed'
<1>1. PICK p, rows : Booked(p, rows)  BY BatchBookEffect
<1>2. /\ call.kind = "apply" /\ call.group = {} /\ p = call.last.pos
      /\ call.rows \subseteq Event /\ call' = BatchCall(call.rows)
      /\ BookRows' = BookRows \union rows /\ RawRows' = RawRows
      /\ \A r \in rows : /\ r.pos = p /\ r.ts = call.last.ts
                         /\ r.line = BOOK[p]
      /\ UNCHANGED << phase, bookUp, positions, BOOK, recent, todo, marking >>
  BY <1>1 DEF Booked, memory
<1>3. phase = "serving"  BY <1>2 DEF TypeInv, Idle
<1>4. p \in Known /\ DOMAIN BOOK = Known
  BY <1>2, <1>3 DEF Agreed, KnownRows, Started, CallRowsLater, TypeInv, TypeOK, Known
<1>5. PICK row : rows = {row}  BY <1>1, <1>4 DEF Booked, OnlyCrashes
<1>6. call' = Idle \/ (call'.kind = "batch" /\ call'.rows = call.rows)  BY <1>2, BatchCallType
<1>7. CallRows' \subseteq CallRows  BY <1>2, <1>6 DEF CallRows, Idle
<1>8. KnownRows'  BY <1>2, <1>7 DEF Agreed, KnownRows
<1>9. Started'  BY <1>2 DEF Agreed, Started
<1>10. CallRowsLater'
  <2>1. /\ LaterRows(call.rows) /\ call.rows \intersect RawRows = {}
        /\ \A r \in call.rows, s \in BookRows : s.pos = r.pos => s.ts < r.ts
        /\ \A r \in call.rows : r.pos # call.last.pos
    BY <1>2 DEF Agreed, CallRowsLater
  <2>2. \A r \in call.rows, s \in BookRows' : s.pos = r.pos => s.ts < r.ts  BY <1>2, <2>1
  <2>3. CASE call' = Idle  BY <2>3 DEF CallRowsLater, Idle
  <2>4. CASE call'.kind = "batch" /\ call'.rows = call.rows
    <3>1. LaterRows(call.rows)'  BY <1>2, <2>1, <2>4 DEF LaterRows
    <3>2. QED  BY <1>2, <2>1, <2>2, <2>4, <3>1 DEF CallRowsLater, LaterRows
  <2>5. QED  BY <1>6, <2>3, <2>4
<1>11. Group = {} /\ Group' = {}  BY <1>2, <1>6 DEF Group, Idle
<1>12. ASSUME NEW q \in Known PROVE Lined(q)' /\ (Unpublished(q) \/ Published(q))'
  <2>1. Lined(q) /\ (Unpublished(q) \/ Published(q))  BY <1>3 DEF Agreed
  <2>2. Lined(q)'  BY <1>2, <1>11, <2>1 DEF Lined, Unseeded, AppliedOf
  <2>3. CASE q = p
    <3>1. \A s \in BookRows : s.pos = p => s.ts < row.ts
      BY <1>2, <1>5 DEF Agreed, CallRowsLater
    <3>2. Published(q)'  BY <1>2, <1>5, <2>3, <3>1, PublishedNew
    <3>3. QED  BY <2>2, <3>2
  <2>4. CASE q # p
    <3>1. ~Unpublished(q)  BY <1>2, <1>3, <2>4 DEF Unpublished, Unseeded
    <3>2. Published(q)'  BY <1>2, <2>1, <2>4, <3>1, PublishedOther
    <3>3. QED  BY <2>2, <3>2
  <2>5. QED  BY <2>3, <2>4
<1>13. QED  BY <1>8, <1>9, <1>10, <1>12 DEF Agreed

LEMMA AgreeStart == Init => AgreeInv
BY DEF Init, AgreeInv, Agreed, KnownRows, Started, CallRowsLater, RawRows, BookRows, RowsIn, CallRows, Idle

LEMMA AgreeStep ==
  ASSUME OnlyCrashes
  PROVE  TypeInv /\ AgreeInv /\ [Next]_vars => AgreeInv'
<1> SUFFICES ASSUME TypeInv, AgreeInv, [Next]_vars, horizon' = 0 PROVE Agreed'
  BY DEF AgreeInv
<1>1. horizon = 0
  <2>1. horizon \in Nat  BY DEF TypeInv, TypeOK
  <2>2. CASE Quiet
    <3>1. horizon' >= horizon  BY <2>2, QuietRows
    <3>2. QED  BY <2>1, <3>1
  <2>3. CASE \/ Boot \/ (\E p \in Known : SeedBook(p) \/ SeedMark(p)) \/ BatchGroup
             \/ (\E p \in Ids, type \in EventTypes : Ingest(p, type))
             \/ (\E items \in Batches : IngestBatch(items))
    BY <2>3 DEF Boot, SeedBook, SeedMark, BatchGroup, Ingest, IngestBatch
  <2>4. QED  BY <2>2, <2>3 DEF Next, Quiet
<1>2. Agreed  BY <1>1 DEF AgreeInv
<1>3. CASE Land \/ UNCHANGED vars
  <2>1. RawRows' = RawRows /\ BookRows' = BookRows
    <3>1. CASE Land  BY <3>1, LandRows
    <3>2. CASE UNCHANGED vars  BY <3>2 DEF vars, tables, RawRows, BookRows
    <3>3. QED  BY <1>3, <3>1, <3>2
  <2>2. UNCHANGED << phase, memory >> /\ call' = call  BY <1>3 DEF Land, vars
  <2>3. CallRows' = CallRows  BY <2>2 DEF CallRows
  <2>4. QED  BY <1>2, <2>1, <2>2, <2>3, AgreeSame
<1>4. CASE RawOk \/ BookOk
  <2>1. UNCHANGED << phase, memory, raw, book >>  BY <1>4 DEF RawOk, BookOk
  <2>2. RawRows' = RawRows /\ BookRows' = BookRows
    <3>1. CASE RawOk  BY <2>1, <3>1, SureRows DEF RawOk, RawRows, BookRows
    <3>2. CASE BookOk  BY <2>1, <3>2, SureRows DEF BookOk, RawRows, BookRows
    <3>3. QED  BY <1>4, <3>1, <3>2
  <2>3. CallRows' \subseteq CallRows  BY <1>4, QuietRows DEF Quiet
  <2>4. call.kind \in {"raw", "book"} /\ call'.kind \in {"none", "book"}
    <3>1. CASE BookOk  BY <3>1 DEF BookOk, Idle
    <3>2. CASE RawOk
      <4>1. call \in [kind : {"raw"}, event : Event, row : BookRow \union {Null}]
        BY <3>2 DEF RawOk, TypeInv, TypeOK, Idle
      <4>2. QED  BY <3>2, <4>1 DEF RawOk, Idle
    <3>3. QED  BY <1>4, <3>1, <3>2
  <2>5. QED  BY <1>2, <2>1, <2>2, <2>3, <2>4, AgreeSame
<1>5. CASE Lose \/ Crash
  <2>1. CASE Lose
    <3>1. phase = "down"  BY <2>1 DEF Lose, OnlyCrashes
    <3>2. phase' = phase /\ call' = call /\ call = Idle  BY <2>1, <3>1 DEF Lose, TypeInv
    <3>3. QED  BY <1>2, <2>1, <3>1, <3>2, LoseRows, AgreeDown
  <2>2. CASE Crash
    <3>1. phase' = "down" /\ call' = Idle /\ UNCHANGED tables  BY <2>2 DEF Crash
    <3>2. RawRows' = RawRows /\ BookRows' = BookRows  BY <3>1 DEF RawRows, BookRows, tables
    <3>3. QED  BY <1>2, <3>1, <3>2, AgreeDown
  <2>3. QED  BY <1>5, <2>1, <2>2
<1>6. CASE Age \/ BootFails \/ Heal \/ RawError \/ BookError \/ BatchError
  <2>1. ~Age  BY <1>1 DEF Age
  <2>2. ~BootFails /\ ~RawError /\ ~BookError /\ ~BatchError
    BY DEF BootFails, RawError, BookError, BatchError, OnlyCrashes
  <2>3. CASE Heal
    <3>1. phase = "serving" /\ phase' = phase /\ UNCHANGED << positions, BOOK, recent, todo, marking, call, tables >>
      BY <2>3 DEF Heal
    <3>2. bookUp  BY <1>2, <3>1 DEF Agreed, Started
    <3>3. bookUp'  BY Zenon, <2>3, <3>2 DEF Heal
    <3>4. RawRows' = RawRows /\ BookRows' = BookRows /\ CallRows' = CallRows /\ Group' = Group
      BY <3>1 DEF RawRows, BookRows, CallRows, tables, Group
    <3>5. KnownRows' /\ CallRowsLater'
      BY <1>2, <3>1, <3>4 DEF Agreed, KnownRows, CallRowsLater, LaterRows
    <3>6. Started'  BY <1>2, <3>1, <3>3 DEF Agreed, Started
    <3>7. ASSUME NEW p \in Known PROVE Lined(p)' /\ (Unpublished(p) \/ Published(p))'
      <4>1. Lined(p) /\ (Unpublished(p) \/ Published(p))  BY <1>2, <3>1 DEF Agreed
      <4>2. Lined(p)'  BY <3>1, <3>4, <4>1 DEF Lined, Unseeded, AppliedOf
      <4>3. (Unpublished(p) \/ Published(p))'
        BY <3>1, <3>4, <4>1 DEF Unpublished, Unseeded, Published
      <4>4. QED  BY <4>2, <4>3
    <3>8. QED  BY <3>5, <3>6, <3>7 DEF Agreed
  <2>4. QED  BY <1>6, <2>1, <2>2, <2>3
<1>7. CASE Boot  BY <1>1, <1>2, <1>7, AgreeBoot
<1>8. CASE \E p \in Known : SeedBook(p) \/ SeedMark(p)  BY <1>2, <1>8, AgreeSeed
<1>9. CASE \E p \in Ids, type \in EventTypes : Ingest(p, type)  BY <1>2, <1>9, AgreeIngest
<1>10. CASE \E items \in Batches : IngestBatch(items)  BY <1>2, <1>10, AgreeBatch
<1>11. CASE BatchGroup  BY <1>2, <1>11, AgreeGroup
<1>12. CASE BatchApply  BY <1>2, <1>12, AgreeApply
<1>13. CASE BatchBook  BY <1>2, <1>13, AgreeBatchBook
<1>14. QED
  BY <1>3, <1>4, <1>5, <1>6, <1>7, <1>8, <1>9, <1>10, <1>11, <1>12, <1>13 DEF Next

\* When all is quiet, both books have the line of BOOK for every position.
LEMMA QuiescentLines ==
  ASSUME TypeInv, AgreeInv, horizon = 0, Quiescent
  PROVE  /\ PositionsOf(book) = Known /\ PositionsOf(Recent) = Known
         /\ \A p \in Known : LatestRow(book, p).line = WindowedLine(Of(Recent, p))
<1>1. /\ phase = "serving" /\ call = Idle /\ rawFly = {} /\ bookFly = {}
      /\ RawRows = raw /\ BookRows = book
  BY DEF Quiescent, RawRows, BookRows, RowsIn
<1>2. Agreed  BY DEF AgreeInv
<1>4. /\ clock \in Nat /\ \A r \in raw : r.ts \in 1 .. clock
      /\ \A s \in book : s.ts \in 1 .. clock
  BY <1>1 DEF TypeInv, TypeOK, Stamped, Timed
<1>5. Recent = raw  BY <1>4 DEF Recent
<1>6. ASSUME NEW p \in Known
      PROVE  Of(raw, p) # {} /\ BOOK[p] = WindowedLine(Of(raw, p)) /\ Published(p)
  <2>1. ~Unseeded(p) /\ ~Unpublished(p)  BY <1>1 DEF Unseeded, Unpublished, Idle
  <2>2. AppliedOf(p) = Of(raw, p)  BY <1>1 DEF AppliedOf, Group, Idle
  <2>3. Lined(p) /\ (Unpublished(p) \/ Published(p))  BY <1>1, <1>2 DEF Agreed
  <2>4. QED  BY <2>1, <2>2, <2>3 DEF Lined
<1>7. PositionsOf(raw) = Known
  <2>1. \A r \in raw : r.pos \in Known  BY <1>1, <1>2 DEF Agreed, KnownRows
  <2>2. QED  BY <1>6, <2>1 DEF PositionsOf, Of
<1>8. PositionsOf(book) = Known
  <2>1. \A r \in book : r.pos \in Known  BY DEF TypeInv, TypeOK, BookRow
  <2>2. QED  BY <1>1, <1>6, <2>1 DEF PositionsOf, Published
<1>9. ASSUME NEW p \in Known PROVE LatestRow(book, p).line = BOOK[p]
  <2>1. PICK r \in book : /\ r.pos = p /\ r.line = BOOK[p]
                          /\ \A s \in book : s.pos = p /\ s # r => s.ts < r.ts
    BY <1>1, <1>6 DEF Published
  <2> DEFINE rows == Of(book, p)
             latest == RowNumberOne(rows)
  <2>2. r \in rows /\ StampedBy(rows, clock)  BY <1>4, <2>1 DEF Of, StampedBy
  <2>3. latest \in rows /\ r.ts <= latest.ts
    <3> HIDE DEF rows
    <3>1. QED  BY <1>4, <2>2, LatestExists
  <2>4. latest \in book /\ latest.pos = p  BY <2>3 DEF Of
  <2> HIDE DEF latest
  <2>5. latest = r
    <3>1. r.ts \in Int /\ latest.ts \in Int  BY <1>4, <2>4
    <3>2. QED  BY <2>1, <2>3, <2>4, <3>1
  <2>6. QED  BY <2>1, <2>5 DEF LatestRow, latest
<1>10. QED  BY <1>5, <1>6, <1>7, <1>8, <1>9

\* book.py and queries.ts: however many positions, batches, events and restarts there
\* are, once the writes have settled the book written through is the book rolled up
\* from RAW_EVENTS, when crashes are the only fault and no row is a day old.
THEOREM BooksAgree ==
  ASSUME Faults \subseteq {"crash"}, UnknownIds = {}
  PROVE  Spec => [](horizon = 0 => StrategiesAgree)
<1>1. OnlyCrashes  BY DEF OnlyCrashes
<1>2. TypeInv /\ AgreeInv => (horizon = 0 => StrategiesAgree)
  <2> SUFFICES ASSUME TypeInv, AgreeInv, horizon = 0, Quiescent
               PROVE  Preagg(book) = Windowed(Recent)
    BY DEF StrategiesAgree
  <2>1. QED  BY QuiescentLines DEF Preagg, Windowed
<1>3. TypeInv /\ AgreeInv /\ [Next]_vars => AgreeInv'  BY <1>1, AgreeStep
<1>4. QED  BY <1>2, <1>3, TypeStart, TypeStep, AgreeStart, PTL DEF Spec
=============================================================================
