-------------------------------- MODULE Book --------------------------------
(***************************************************************************)
(* The position book: how the producer keeps it in memory                  *)
(* (vm-ingest/book.py) and the three ways the dashboard computes it        *)
(* (web/src/server/queries.ts): from RAW_EVENTS with window functions      *)
(* ("windowed"), from RAW_EVENTS with GROUP BY and MAX_BY ("optimized"),   *)
(* and from the rows the producer wrote to POSITION_BOOK ("preagg").       *)
(*                                                                         *)
(* An event is a row of RAW_EVENTS: position, type, NEW_MARK or TO_RATING  *)
(* (one value, Null when the column is), EVENT_TS, and the attributes of   *)
(* the position stamped on it.  A line is one position of a book, without  *)
(* the attributes that are only shown (issuer, sector, tranche, fund,      *)
(* watchlist) and without the P&L, which is the same function of the mark, *)
(* the opening mark and the par amount in book.py and in all three queries.*)
(***************************************************************************)
EXTENDS Integers, FiniteSets

CONSTANT Null   \* NULL, None

ASSUME NullAssumption == Null \notin Int

Coalesce(a, b) == IF a # Null THEN a ELSE b

\* The attributes of a position POSITIONS does not know.
NoAttrs == [baseline |-> Null, rating |-> Null, par |-> Null]

(***************************************************************************)
(* book.py: BOOK is a function from the known positions to their state.    *)
(***************************************************************************)
InitBook(positions) ==
  [p \in DOMAIN positions |->
     [opening |-> positions[p].baseline, mark |-> positions[p].baseline,
      rating |-> positions[p].rating, par |-> positions[p].par]]

\* Fault: the rating is not restored.
ApplyHydrated_MarkOnly(book, pos, mark, rating) ==
  [p \in DOMAIN book |->
     IF p # pos THEN book[p] ELSE [book[p] EXCEPT !.mark = Coalesce(mark, @)]]

ApplyHydrated(book, pos, mark, rating) ==
  [p \in DOMAIN book |->
     IF p # pos THEN book[p]
     ELSE [book[p] EXCEPT !.mark = Coalesce(mark, @), !.rating = Coalesce(rating, @)]]

UpdateBookState(book, e) ==
  [p \in DOMAIN book |->
     CASE p = e.pos /\ e.type = "MARK" /\ e.value # Null
            -> [book[p] EXCEPT !.mark = e.value]
       [] p = e.pos /\ e.type = "CREDIT_EVENT" /\ e.value # Null
            -> [book[p] EXCEPT !.rating = e.value]
       [] OTHER -> book[p]]

\* The POSITION_BOOK row of a position of the book at time ts.
BookRowFor(book, pos, ts) == [pos |-> pos, ts |-> ts, line |-> book[pos]]

(***************************************************************************)
(* queries.ts.                                                             *)
(***************************************************************************)
PositionsOf(rows) == {r.pos : r \in rows}
Of(rows, p) == {r \in rows : r.pos = p}
OfType(ev, type) == {e \in ev : e.type = type}

\* ROW_NUMBER() OVER (PARTITION BY POSITION_ID ORDER BY <ts> DESC) = 1
RowNumberOne(rows) == CHOOSE r \in rows : \A s \in rows : s.ts <= r.ts

\* A LEFT JOIN with the latest row of a type: NULL when there is none.
LatestOrNull(rows) == IF rows = {} THEN Null ELSE RowNumberOne(rows).value

\* bookCte
WindowedLine(ev) ==
  LET latest == RowNumberOne(ev) IN
  [opening |-> latest.attrs.baseline,
   mark    |-> Coalesce(LatestOrNull(OfType(ev, "MARK")), latest.attrs.baseline),
   rating  |-> Coalesce(LatestOrNull(OfType(ev, "CREDIT_EVENT")), latest.attrs.rating),
   par     |-> latest.attrs.par]

Windowed(ev) == [p \in PositionsOf(ev) |-> WindowedLine(Of(ev, p))]

\* MAX_BY(expr, key): expr of the row with the largest key, rows whose key is
\* NULL ignored; NULL when there is no other.
MaxBy(rows, Expr(_), Key(_)) ==
  LET keyed == {r \in rows : Key(r) # Null} IN
  IF keyed = {} THEN Null
  ELSE Expr(CHOOSE r \in keyed : \A s \in keyed : Key(s) <= Key(r))

EventTs(e) == e.ts
TsWhen(e, type) == IF e.type = type THEN e.ts ELSE Null
ValueWhen(e, type) == IF e.type = type THEN e.value ELSE Null

\* Fault: the key of the MAX_BY is EVENT_TS, not EVENT_TS of the rows of the type.
LatestByType_AnyTs(ev, type) ==
  MaxBy(ev, LAMBDA e : ValueWhen(e, type), EventTs)

LatestByType(ev, type) ==
  MaxBy(ev, LAMBDA e : ValueWhen(e, type), LAMBDA e : TsWhen(e, type))

OptimizedLine(ev) ==
  LET baseline == MaxBy(ev, LAMBDA e : e.attrs.baseline, EventTs)
      rating   == MaxBy(ev, LAMBDA e : e.attrs.rating, EventTs)
  IN [opening |-> baseline,
      mark    |-> Coalesce(LatestByType(ev, "MARK"), baseline),
      rating  |-> Coalesce(LatestByType(ev, "CREDIT_EVENT"), rating),
      par     |-> MaxBy(ev, LAMBDA e : e.attrs.par, EventTs)]

Optimized(ev) == [p \in PositionsOf(ev) |-> OptimizedLine(Of(ev, p))]

\* bookPreaggCte: the latest row the producer wrote for each position.
LatestRow(rows, p) == RowNumberOne(Of(rows, p))
Preagg(rows) == [p \in PositionsOf(rows) |-> LatestRow(rows, p).line]
=============================================================================
