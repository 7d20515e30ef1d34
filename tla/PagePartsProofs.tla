---------------------------- MODULE PagePartsProofs ----------------------------
(***************************************************************************)
(* The components that Pages runs side by side, each on its own: the       *)
(* comparison of the serving strategies, the chat with the agent, the      *)
(* latency bars and the panels that read them.  The desk is in DeskProofs. *)
(***************************************************************************)
EXTENDS ServingCompare, AgentChat, LatencyLab, FiniteSetTheorems, SequenceTheorems,
        WellFoundedInduction, TLAPS

-----------------------------------------------------------------------------
(* THE SERVING COMPARISON                                                  *)

RequestT == [stage : {"reading", "failed", "done"}, from : {"interactive", "standard"},
             totals : Seq(Int), alive : BOOLEAN]

\* A total that was read is none, or of a version there has been.
Read(totals) ==
  /\ Len(totals) <= 3
  /\ \A i \in 1 .. Len(totals) : totals[i] = NoTotal \/ totals[i] <= rows[TableOf[Strategies[i]]]

ServingInv ==
  /\ panel \in Panels
  /\ rows \in [{"raw", "book"} -> Nat]
  /\ requests \in [Requests -> RequestT]
  /\ \A r \in Requests : Read(requests[r].totals)
  /\ shown \in [match : {"none", "yes", "no"}, err : BOOLEAN]
  /\ shown.err => panel = "desk"

LEMMA ThreeStrategies ==
  /\ Len(Strategies) = 3
  /\ \A i \in 1 .. 3 : TableOf[Strategies[i]] \in {"raw", "book"}
BY DEF Strategies, TableOf

LEMMA NoneAsked ==
  /\ NoRequest \in RequestT /\ Asking \in RequestT
  /\ Read(NoRequest.totals) /\ Read(Asking.totals)
<1>1. << >> \in Seq(Int) /\ Len(<< >>) = 0  OBVIOUS
<1>2. PICK no \in BOOLEAN : no = FALSE  OBVIOUS
<1>3. PICK yes \in BOOLEAN : yes = TRUE  OBVIOUS
<1>4. NoRequest = [stage |-> "done", from |-> "interactive", totals |-> << >>, alive |-> no]
  BY <1>2 DEF NoRequest
<1>5. Asking = [[NoRequest EXCEPT !.stage = "reading"] EXCEPT !.alive = yes]
  BY <1>3 DEF Asking
<1>6. [NoRequest EXCEPT !.stage = "reading"]
        = [stage |-> "reading", from |-> "interactive", totals |-> << >>, alive |-> no]
  BY <1>4
<1>7. Asking = [stage |-> "reading", from |-> "interactive", totals |-> << >>, alive |-> yes]
  BY <1>5, <1>6
<1>8. NoRequest \in RequestT /\ Asking \in RequestT  BY <1>1, <1>4, <1>7 DEF RequestT
<1>9. NoRequest.totals = << >> /\ Asking.totals = << >>  BY <1>4, <1>7
<1>10. QED  BY <1>1, <1>8, <1>9 DEF Read

\* One request changes.
LEMMA OneRequest ==
  ASSUME ServingInv, NEW r \in Requests, NEW q \in RequestT, Read(q.totals),
         requests' = [requests EXCEPT ![r] = q], rows' = rows, panel' = panel,
         shown' \in [match : {"none", "yes", "no"}, err : BOOLEAN],
         shown'.err => panel = "desk"
  PROVE  ServingInv'
<1>1. requests' \in [Requests -> RequestT]  BY DEF ServingInv
<1>2. \A s \in Requests : requests'[s] = IF s = r THEN q ELSE requests[s]  BY DEF ServingInv
<1>3. ASSUME NEW s \in Requests PROVE Read(requests'[s].totals)
  BY <1>2 DEF ServingInv
<1>4. \A s \in Requests : Read(requests[s].totals)'  BY <1>3 DEF Read
<1>5. QED  BY <1>1, <1>4 DEF ServingInv

\* One more total is read.
LEMMA OneTotal ==
  ASSUME ServingInv, NEW r \in Requests, Reading(r), NEW x \in Int,
         x = NoTotal \/ x <= rows[TableOf[Strategies[Turn(r)]]]
  PROVE  LET more == Append(requests[r].totals, x)
         IN  more \in Seq(Int) /\ Read(more)
<1> DEFINE totals == requests[r].totals
           more == Append(totals, x)
           n == Len(totals)
<1>1. totals \in Seq(Int)  BY DEF ServingInv, RequestT
<1>2. n \in Nat /\ n < 3 /\ Turn(r) = n + 1  BY <1>1, ThreeStrategies, LenProperties DEF Reading, Turn
<1>3. Read(totals)  BY DEF ServingInv
<1> HIDE DEF totals
<1>4. /\ more \in Seq(Int) /\ Len(more) = n + 1
      /\ \A i \in 1 .. n : more[i] = totals[i]
      /\ more[n + 1] = x
  BY <1>1, AppendProperties
<1> HIDE DEF more
<1>5. ASSUME NEW i \in 1 .. n + 1
      PROVE  more[i] = NoTotal \/ more[i] <= rows[TableOf[Strategies[i]]]
  <2>1. CASE i = n + 1  BY <1>2, <1>4, <2>1
  <2>2. CASE i # n + 1
    <3>1. i \in 1 .. n  BY <1>2, <2>2
    <3>2. QED  BY <1>3, <1>4, <3>1 DEF Read
  <2>3. QED  BY <2>1, <2>2
<1> HIDE DEF n
<1>6. Read(more)  BY <1>2, <1>4, <1>5 DEF Read
<1>7. QED  BY <1>4, <1>6 DEF more, totals

LEMMA CommitStep ==
  ASSUME ServingInv, NEW t \in {"raw", "book"}, Commit(t)
  PROVE  ServingInv'
<1>1. rows' = [rows EXCEPT ![t] = rows[t] + 1] /\ UNCHANGED << panel, requests, shown >>
  BY DEF Commit
<1>2. rows \in [{"raw", "book"} -> Nat]  BY DEF ServingInv
<1>3. rows' \in [{"raw", "book"} -> Nat]  BY <1>1, <1>2
<1>4. \A u \in {"raw", "book"} : rows[u] \in Nat /\ rows'[u] \in Nat /\ rows[u] <= rows'[u]
  BY <1>1, <1>2
<1>5. ASSUME NEW r \in Requests PROVE Read(requests[r].totals)'
  <2> DEFINE totals == requests[r].totals
  <2>1. Read(totals) /\ totals \in Seq(Int)  BY DEF ServingInv, RequestT
  <2>2. totals' = totals  BY <1>1
  <2>3. Len(totals) \in Nat /\ Len(totals) <= 3  BY <2>1, LenProperties DEF Read
  <2> HIDE DEF totals
  <2>4. ASSUME NEW i \in 1 .. Len(totals)
        PROVE  totals[i] = NoTotal \/ totals[i] <= rows'[TableOf[Strategies[i]]]
    <3>1. TableOf[Strategies[i]] \in {"raw", "book"}  BY <2>3, ThreeStrategies
    <3>2. totals[i] \in Int  BY <2>1, ElementOfSeq
    <3>3. totals[i] = NoTotal \/ totals[i] <= rows[TableOf[Strategies[i]]]  BY <2>1 DEF Read
    <3>4. QED  BY <1>4, <3>1, <3>2, <3>3
  <2>5. QED  BY <2>2, <2>3, <2>4 DEF Read, totals
<1>6. QED  BY <1>1, <1>3, <1>5 DEF ServingInv

\* The fields of a request.
LEMMA RequestIs ==
  ASSUME NEW q \in RequestT
  PROVE  /\ q.totals \in Seq(Int)
         /\ \A s \in {"reading", "failed", "done"} :
              [q EXCEPT !.stage = s] \in RequestT /\ [q EXCEPT !.stage = s].totals = q.totals
         /\ \A f \in {"interactive", "standard"} :
              [q EXCEPT !.from = f] \in RequestT /\ [q EXCEPT !.from = f].totals = q.totals
         /\ \A b \in BOOLEAN :
              [q EXCEPT !.alive = b] \in RequestT /\ [q EXCEPT !.alive = b].totals = q.totals
         /\ \A t \in Seq(Int) : [q EXCEPT !.totals = t] \in RequestT /\ [q EXCEPT !.totals = t].totals = t
BY DEF RequestT

LEMMA OneAnswer ==
  ASSUME ServingInv, NEW r \in Requests, Reading(r), NEW x \in Int, Answers(r, x),
         x = NoTotal \/ x <= rows[TableOf[Strategies[Turn(r)]]],
         rows' = rows, panel' = panel, shown' = shown
  PROVE  ServingInv'
<1> DEFINE q == requests[r]
           more == Append(q.totals, x)
           p == [q EXCEPT !.totals = more]
           next == [p EXCEPT !.from = "interactive"]
<1>1. q \in RequestT /\ requests \in [Requests -> RequestT]  BY DEF ServingInv
<1>2. more \in Seq(Int) /\ Read(more)  BY OneTotal
<1>3. requests' = [requests EXCEPT ![r] = next]
  <2> DEFINE first == [requests EXCEPT ![r].totals = more]
  <2>1. requests' = [first EXCEPT ![r].from = "interactive"]  BY DEF Answers
  <2> HIDE DEF more
  <2>2. first = [requests EXCEPT ![r] = p]  OBVIOUS
  <2> HIDE DEF p, first
  <2>3. first[r] = p  BY <1>1, <2>2
  <2>4. requests' = [first EXCEPT ![r] = next]  BY <2>1, <2>3
  <2> HIDE DEF next
  <2>5. [first EXCEPT ![r] = next] = [requests EXCEPT ![r] = next]  BY <1>1, <2>2
  <2>6. QED  BY <2>4, <2>5
<1> HIDE DEF more, q
<1>4. p \in RequestT /\ p.totals = more  BY <1>1, <1>2, RequestIs
<1> HIDE DEF p
<1>5. "interactive" \in {"interactive", "standard"}  OBVIOUS
<1>6. next \in RequestT /\ next.totals = more  BY <1>4, <1>5, RequestIs
<1> HIDE DEF next
<1>7. shown \in [match : {"none", "yes", "no"}, err : BOOLEAN] /\ (shown.err => panel = "desk")
  BY DEF ServingInv
<1>8. QED  BY <1>2, <1>3, <1>6, <1>7, OneRequest

LEMMA ReadStep ==
  ASSUME ServingInv, NEW r \in Requests, ReadOk(r) \/ ReadFails(r) \/ RequestBreaks(r)
  PROVE  ServingInv'
<1> DEFINE q == requests[r]
<1>1. q \in RequestT /\ Read(q.totals)  BY DEF ServingInv
<1>2. shown \in [match : {"none", "yes", "no"}, err : BOOLEAN] /\ (shown.err => panel = "desk")
  BY DEF ServingInv
<1>3. "standard" \in {"interactive", "standard"}  OBVIOUS
<1>4. CASE ReadOk(r)
  <2> DEFINE x == rows[TableOf[Strategies[Turn(r)]]]
  <2>1. Reading(r) /\ rows' = rows /\ panel' = panel /\ shown' = shown /\ Answers(r, x)
    BY <1>4 DEF ReadOk
  <2>2. x \in Nat
    <3>1. Len(q.totals) \in Nat /\ Len(q.totals) < 3
      BY <1>1, <2>1, RequestIs, ThreeStrategies, LenProperties DEF Reading
    <3>2. Turn(r) \in 1 .. 3  BY <3>1 DEF Turn
    <3>3. QED  BY <3>2, ThreeStrategies DEF ServingInv
  <2>3. x = rows[TableOf[Strategies[Turn(r)]]]  OBVIOUS
  <2> HIDE DEF x
  <2>4. x \in Int /\ x <= rows[TableOf[Strategies[Turn(r)]]]  BY <2>2, <2>3
  <2>5. QED  BY <2>1, <2>4, OneAnswer
<1>5. CASE ReadFails(r)
  <2> DEFINE next == [q EXCEPT !.from = "standard"]
  <2>1. Reading(r) /\ rows' = rows /\ panel' = panel /\ shown' = shown  BY <1>5 DEF ReadFails
  <2>2. CASE q.from = "interactive"
    <3>1. requests' = [requests EXCEPT ![r] = next]  BY <1>5, <2>2 DEF ReadFails
    <3> HIDE DEF q
    <3>2. next \in RequestT /\ next.totals = q.totals  BY <1>1, <1>3, RequestIs
    <3> HIDE DEF next
    <3>3. QED  BY <1>1, <1>2, <2>1, <3>1, <3>2, OneRequest
  <2>3. CASE q.from # "interactive"
    <3>1. Answers(r, NoTotal)  BY <1>5, <2>3 DEF ReadFails
    <3>2. NoTotal \in Int  BY DEF NoTotal
    <3>3. QED  BY <2>1, <3>1, <3>2, OneAnswer
  <2>4. QED  BY <2>2, <2>3
<1>6. CASE RequestBreaks(r)
  <2> DEFINE next == [q EXCEPT !.stage = "failed"]
  <2>1. rows' = rows /\ panel' = panel /\ shown' = shown
        /\ requests' = [requests EXCEPT ![r] = next]
    BY <1>6 DEF RequestBreaks
  <2> HIDE DEF q
  <2>2. next \in RequestT /\ next.totals = q.totals  BY <1>1, RequestIs
  <2> HIDE DEF next
  <2>3. QED  BY <1>1, <1>2, <2>1, <2>2, OneRequest
<1>7. QED  BY <1>4, <1>5, <1>6

LEMMA LandStep ==
  ASSUME ServingInv, NEW r \in Requests, AnswerShown(r) \/ ErrorShown(r) \/ Tick(r)
  PROVE  ServingInv'
<1>1. shown \in [match : {"none", "yes", "no"}, err : BOOLEAN] /\ (shown.err => panel = "desk")
  BY DEF ServingInv
<1>2. PICK match, err : /\ shown = [match |-> match, err |-> err]
                        /\ match \in {"none", "yes", "no"} /\ err \in BOOLEAN
  BY <1>1
<1>3. CASE AnswerShown(r)
  <2>1. requests' = [requests EXCEPT ![r] = NoRequest] /\ rows' = rows /\ panel' = panel
    BY <1>3 DEF AnswerShown
  <2>2. /\ shown' \in [match : {"none", "yes", "no"}, err : BOOLEAN]
        /\ shown'.err => panel = "desk"
    <3>1. CASE ~requests[r].alive  BY <1>1, <1>3, <3>1 DEF AnswerShown
    <3>2. CASE requests[r].alive
      <4>1. PICK no \in BOOLEAN : no = FALSE  OBVIOUS
      <4>2. PICK m \in {"yes", "no"} :
              m = IF TotalsMatch(requests[r].totals) THEN "yes" ELSE "no"
        OBVIOUS
      <4>3. shown' = [match |-> m, err |-> no]  BY <1>3, <3>2, <4>1, <4>2 DEF AnswerShown
      <4>4. QED  BY <4>1, <4>3
    <3>3. QED  BY <3>1, <3>2
  <2>3. QED  BY <2>1, <2>2, NoneAsked, OneRequest
<1>4. CASE ErrorShown(r)
  <2>1. requests' = [requests EXCEPT ![r] = NoRequest] /\ rows' = rows /\ panel' = panel
    BY <1>4 DEF ErrorShown
  <2>2. /\ shown' \in [match : {"none", "yes", "no"}, err : BOOLEAN]
        /\ shown'.err => panel = "desk"
    <3>1. CASE ~(requests[r].alive /\ panel = "desk")  BY <1>1, <1>4, <3>1 DEF ErrorShown
    <3>2. CASE requests[r].alive /\ panel = "desk"
      <4>1. PICK yes \in BOOLEAN : yes = TRUE  OBVIOUS
      <4>2. shown' = [shown EXCEPT !.err = yes]  BY <1>4, <3>2, <4>1 DEF ErrorShown
      <4>3. shown' = [match |-> match, err |-> yes]  BY <1>2, <4>2
      <4>4. QED  BY <1>2, <3>2, <4>3
    <3>3. QED  BY <3>1, <3>2
  <2>3. QED  BY <2>1, <2>2, NoneAsked, OneRequest
<1>5. CASE Tick(r)
  <2>1. requests' = [requests EXCEPT ![r] = Asking] /\ rows' = rows /\ panel' = panel
        /\ shown' = shown
    BY <1>5 DEF Tick
  <2>2. QED  BY <1>1, <2>1, NoneAsked, OneRequest
<1>6. QED  BY <1>3, <1>4, <1>5

LEMMA RemountStep ==
  ASSUME ServingInv, NEW r \in Requests, NEW p \in Panels, Remount(p, r)
  PROVE  ServingInv'
<1>1. PICK no \in BOOLEAN : no = FALSE  OBVIOUS
<1>2. panel' = p /\ rows' = rows /\ shown' = Blank
      /\ requests' = [q \in Requests |-> IF q = r THEN Asking
                                         ELSE [requests[q] EXCEPT !.alive = no]]
  BY <1>1 DEF Remount
<1>3. Blank = [match |-> "none", err |-> no]  BY <1>1 DEF Blank
<1>4. shown' \in [match : {"none", "yes", "no"}, err : BOOLEAN] /\ ~shown'.err
  BY <1>1, <1>2, <1>3
<1>5. ASSUME NEW q \in Requests
      PROVE  requests'[q] \in RequestT /\ Read(requests'[q].totals)
  <2>1. CASE q = r  BY <1>2, <2>1, NoneAsked
  <2>2. CASE q # r
    <3> DEFINE old == requests[q]
               next == [old EXCEPT !.alive = no]
    <3>1. requests'[q] = next  BY <1>2, <2>2
    <3>2. old \in RequestT /\ Read(old.totals)  BY DEF ServingInv
    <3> HIDE DEF old
    <3>3. next \in RequestT /\ next.totals = old.totals  BY <1>1, <3>2, RequestIs
    <3> HIDE DEF next
    <3>4. QED  BY <3>1, <3>2, <3>3
  <2>3. QED  BY <2>1, <2>2
<1>6. requests' \in [Requests -> RequestT]  BY <1>2, <1>5
<1>7. \A q \in Requests : Read(requests[q].totals)'  BY <1>2, <1>5 DEF Read
<1>8. QED  BY <1>2, <1>4, <1>6, <1>7 DEF ServingInv

LEMMA InitServing == ASSUME ServingInit PROVE ServingInv
<1>1. PICK no \in BOOLEAN : no = FALSE  OBVIOUS
<1>2. shown = [match |-> "none", err |-> no]  BY <1>1 DEF ServingInit, Blank
<1>3. shown \in [match : {"none", "yes", "no"}, err : BOOLEAN] /\ ~shown.err  BY <1>1, <1>2
<1>4. requests \in [Requests -> RequestT] /\ \A r \in Requests : Read(requests[r].totals)
  BY NoneAsked DEF ServingInit
<1>5. QED  BY <1>3, <1>4 DEF ServingInit, ServingInv

LEMMA ServingStep == ASSUME ServingInv, [ServingNext]_servingVars PROVE ServingInv'
<1>1. CASE UNCHANGED servingVars
  BY <1>1 DEF servingVars, ServingInv, Read
<1>2. CASE ServingNext
  BY <1>2, CommitStep, ReadStep, LandStep, RemountStep DEF ServingNext, ReadEnds, Lands
<1>3. QED  BY <1>1, <1>2

LEMMA ServingTyped == ASSUME ServingInv PROVE ServingTypeOK
<1>1. ASSUME NEW r \in Requests
      PROVE  /\ requests[r].stage \in {"reading", "failed", "done"}
             /\ Len(requests[r].totals) <= Len(Strategies)
             /\ \A i \in DOMAIN requests[r].totals :
                  \/ requests[r].totals[i] = NoTotal
                  \/ requests[r].totals[i] <= rows[TableOf[Strategies[i]]]
  <2>1. requests[r] \in RequestT /\ Read(requests[r].totals)  BY DEF ServingInv
  <2>2. requests[r].totals \in Seq(Int)  BY <2>1 DEF RequestT
  <2>3. DOMAIN requests[r].totals = 1 .. Len(requests[r].totals)  BY <2>2, LenProperties
  <2>4. QED  BY <2>1, <2>3, ThreeStrategies DEF Read, RequestT
<1>2. shown.match \in {"none", "yes", "no"} /\ (shown.err => panel = "desk")
  BY DEF ServingInv
<1>3. QED  BY <1>1, <1>2 DEF ServingInv, ServingTypeOK

\* The type invariant of the serving comparison, whatever queries and requests fail or
\* answer late: a request holds totals of the strategies in their order, each of a
\* version its table has had, and only the panel of the desk shows an error
\* (serving-compare/route.ts:70-137, ServingStrategyComparison.tsx:183-215).
THEOREM ServingTypeCorrect == ServingSpec => []ServingTypeOK
<1>1. ServingInit => ServingInv  BY InitServing
<1>2. ServingInv /\ [ServingNext]_servingVars => ServingInv'  BY ServingStep
<1>3. ServingInv => ServingTypeOK  BY ServingTyped
<1>4. QED  BY <1>1, <1>2, <1>3, PTL DEF ServingSpec

-----------------------------------------------------------------------------
(* THE CHAT.  However the two streams are cut into pieces, the page shows  *)
(* the answer.  Lines and events are numbered; the induction is over them. *)

\* Induction up to N: what holds of 0, and of n + 1 if of n, holds of all.
LEMMA Climb ==
  ASSUME NEW N \in Nat, NEW Good, 0 \in Good,
         \A n \in 0 .. N : n # N /\ n \in Good => n + 1 \in Good
  PROVE  0 .. N \subseteq Good
<1> DEFINE Bad == {n \in 0 .. N : n \notin Good}
<1> SUFFICES ASSUME Bad # {} PROVE FALSE  OBVIOUS
<1>1. Bad \subseteq Nat  OBVIOUS
<1>2. PICK k \in Bad : \A j \in Bad : ~ (<< j, k >> \in OpToRel(<, Nat))
  <2> HIDE DEF Bad
  <2>1. QED  BY <1>1, NatLessThanWellFounded, WFMin
<1>3. k \in 1 .. N /\ k \notin Good  OBVIOUS
<1>4. k - 1 \in 0 .. N /\ k - 1 # N /\ k - 1 < k /\ k - 1 \in Nat /\ k \in Nat  BY <1>3
<1>5. k - 1 \notin Bad
  <2> HIDE DEF Bad
  <2>1. QED  BY <1>2, <1>4 DEF OpToRel
<1>6. k - 1 \in Good  BY <1>4, <1>5
<1>7. (k - 1) + 1 \in Good  BY <1>4, <1>6
<1>8. QED  BY <1>3, <1>7

\* The two loops, as operators of one level.
ParseAll(start, xs) == Through(ProxyLine, start, xs)
ShowAll(start, xs) == Through(PageEvent, start, xs)

\* What the loop of the proxy makes of start, line by line.
ProxyRuns(g, start, xs, n) ==
  g = [k \in 0 .. n |-> IF k = 0 THEN start ELSE ProxyLine(g[k - 1], xs[k])]

ParsedBy(g, start, xs) ==
  /\ g[0] = start
  /\ \A n \in 1 .. Len(xs) : g[n] = ProxyLine(g[n - 1], xs[n])
  /\ ParseAll(start, xs) = g[Len(xs)]

LEMMA ProxyLoop ==
  ASSUME NEW start, NEW xs, Len(xs) \in Nat
  PROVE  \E g : ParsedBy(g, start, xs)
<1> DEFINE N == Len(xs)
           Good == {n \in 0 .. N : \E g : ProxyRuns(g, start, xs, n)}
<1>1. 0 \in Good
  <2> DEFINE g == [k \in 0 .. 0 |-> start]
  <2>1. ProxyRuns(g, start, xs, 0)  BY DEF ProxyRuns
  <2>2. QED  BY <2>1
<1>2. ASSUME NEW n \in 0 .. N, n # N, n \in Good PROVE n + 1 \in Good
  <2>1. PICK g : ProxyRuns(g, start, xs, n)  BY <1>2
  <2> DEFINE next == ProxyLine(g[n], xs[n + 1])
             h == [k \in 0 .. n + 1 |-> IF k = n + 1 THEN next ELSE g[k]]
  <2>2. n \in Nat /\ n + 1 \in 0 .. N  BY <1>2
  <2>3. \A k \in 0 .. n : g[k] = IF k = 0 THEN start ELSE ProxyLine(g[k - 1], xs[k])
    BY <2>1 DEF ProxyRuns
  <2> HIDE DEF next
  <2>4. \A k \in 0 .. n + 1 : h[k] = IF k = 0 THEN start ELSE ProxyLine(h[k - 1], xs[k])
    <3> SUFFICES ASSUME NEW k \in 0 .. n + 1
                 PROVE  h[k] = IF k = 0 THEN start ELSE ProxyLine(h[k - 1], xs[k])
      OBVIOUS
    <3>1. CASE k = n + 1
      <4>1. h[k] = next /\ h[k - 1] = g[n] /\ k # 0  BY <2>2, <3>1
      <4>2. QED  BY <3>1, <4>1 DEF next
    <3>2. CASE k # n + 1
      <4>1. k \in 0 .. n /\ h[k] = g[k]  BY <2>2, <3>2
      <4>2. k # 0 => h[k - 1] = g[k - 1]  BY <2>2, <3>2
      <4> HIDE DEF h
      <4>3. QED  BY <2>3, <4>1, <4>2
    <3>3. QED  BY <3>1, <3>2
  <2>5. h = [k \in 0 .. n + 1 |-> h[k]]  OBVIOUS
  <2> HIDE DEF h
  <2>6. ProxyRuns(h, start, xs, n + 1)  BY <2>4, <2>5 DEF ProxyRuns
  <2>7. QED  BY <2>2, <2>6
<1>3. N \in Good
  <2> HIDE DEF Good, N
  <2>1. N \in Nat  BY DEF N
  <2>2. 0 .. N \subseteq Good  BY <1>1, <1>2, <2>1, Climb
  <2>3. QED  BY <2>1, <2>2
<1>4. PICK g : ProxyRuns(g, start, xs, N)  BY <1>3
<1> DEFINE after == CHOOSE f : f = [n \in 0 .. N |->
                      IF n = 0 THEN start ELSE ProxyLine(f[n - 1], xs[n])]
<1>5. after = [n \in 0 .. N |-> IF n = 0 THEN start ELSE ProxyLine(after[n - 1], xs[n])]
  BY <1>4 DEF ProxyRuns
<1>6. ParseAll(start, xs) = after[N]  BY DEF Through, ParseAll
<1> HIDE DEF after
<1>7. after[0] = start /\ \A n \in 1 .. N : after[n] = ProxyLine(after[n - 1], xs[n])
  <2>1. 0 \in 0 .. N /\ \A n \in 1 .. N : n \in 0 .. N /\ n # 0  OBVIOUS
  <2>2. QED  BY <1>5, <2>1
<1>8. QED  BY <1>6, <1>7 DEF ParsedBy, N

\* What the loop of the page makes of start, event by event.
PageRuns(g, start, xs, n) ==
  g = [k \in 0 .. n |-> IF k = 0 THEN start ELSE PageEvent(g[k - 1], xs[k])]

ShownBy(g, start, xs) ==
  /\ g[0] = start
  /\ \A n \in 1 .. Len(xs) : g[n] = PageEvent(g[n - 1], xs[n])
  /\ ShowAll(start, xs) = g[Len(xs)]

LEMMA PageLoop ==
  ASSUME NEW start, NEW xs, Len(xs) \in Nat
  PROVE  \E g : ShownBy(g, start, xs)
<1> DEFINE N == Len(xs)
           Good == {n \in 0 .. N : \E g : PageRuns(g, start, xs, n)}
<1>1. 0 \in Good
  <2> DEFINE g == [k \in 0 .. 0 |-> start]
  <2>1. PageRuns(g, start, xs, 0)  BY DEF PageRuns
  <2>2. QED  BY <2>1
<1>2. ASSUME NEW n \in 0 .. N, n # N, n \in Good PROVE n + 1 \in Good
  <2>1. PICK g : PageRuns(g, start, xs, n)  BY <1>2
  <2> DEFINE next == PageEvent(g[n], xs[n + 1])
             h == [k \in 0 .. n + 1 |-> IF k = n + 1 THEN next ELSE g[k]]
  <2>2. n \in Nat /\ n + 1 \in 0 .. N  BY <1>2
  <2>3. \A k \in 0 .. n : g[k] = IF k = 0 THEN start ELSE PageEvent(g[k - 1], xs[k])
    BY <2>1 DEF PageRuns
  <2> HIDE DEF next
  <2>4. \A k \in 0 .. n + 1 : h[k] = IF k = 0 THEN start ELSE PageEvent(h[k - 1], xs[k])
    <3> SUFFICES ASSUME NEW k \in 0 .. n + 1
                 PROVE  h[k] = IF k = 0 THEN start ELSE PageEvent(h[k - 1], xs[k])
      OBVIOUS
    <3>1. CASE k = n + 1
      <4>1. h[k] = next /\ h[k - 1] = g[n] /\ k # 0  BY <2>2, <3>1
      <4>2. QED  BY <3>1, <4>1 DEF next
    <3>2. CASE k # n + 1
      <4>1. k \in 0 .. n /\ h[k] = g[k]  BY <2>2, <3>2
      <4>2. k # 0 => h[k - 1] = g[k - 1]  BY <2>2, <3>2
      <4> HIDE DEF h
      <4>3. QED  BY <2>3, <4>1, <4>2
    <3>3. QED  BY <3>1, <3>2
  <2>5. h = [k \in 0 .. n + 1 |-> h[k]]  OBVIOUS
  <2> HIDE DEF h
  <2>6. PageRuns(h, start, xs, n + 1)  BY <2>4, <2>5 DEF PageRuns
  <2>7. QED  BY <2>2, <2>6
<1>3. N \in Good
  <2> HIDE DEF Good, N
  <2>1. N \in Nat  BY DEF N
  <2>2. 0 .. N \subseteq Good  BY <1>1, <1>2, <2>1, Climb
  <2>3. QED  BY <2>1, <2>2
<1>4. PICK g : PageRuns(g, start, xs, N)  BY <1>3
<1> DEFINE after == CHOOSE f : f = [n \in 0 .. N |->
                      IF n = 0 THEN start ELSE PageEvent(f[n - 1], xs[n])]
<1>5. after = [n \in 0 .. N |-> IF n = 0 THEN start ELSE PageEvent(after[n - 1], xs[n])]
  BY <1>4 DEF PageRuns
<1>6. ShowAll(start, xs) = after[N]  BY DEF Through, ShowAll
<1> HIDE DEF after
<1>7. after[0] = start /\ \A n \in 1 .. N : after[n] = PageEvent(after[n - 1], xs[n])
  <2>1. 0 \in 0 .. N /\ \A n \in 1 .. N : n \in 0 .. N /\ n # 0  OBVIOUS
  <2>2. QED  BY <1>5, <2>1
<1>8. QED  BY <1>6, <1>7 DEF ShownBy, N

-----------------------------------------------------------------------------
(* The answer.                                                             *)

LEMMA MarksFinite ==
  ASSUME script \in Seq(AgentLine)
  PROVE  /\ Len(script) \in Nat /\ \A i \in 1 .. Len(script) : script[i] \in AgentLine
         /\ Told \subseteq 1 .. Len(script) /\ IsFiniteSet(Told) /\ Cardinality(Told) \in Nat
<1>1. Len(script) \in Nat /\ \A i \in 1 .. Len(script) : script[i] \in AgentLine
      /\ DOMAIN script = 1 .. Len(script)
  BY LenProperties
<1>2. Told \subseteq 1 .. Len(script)  BY <1>1 DEF Told
<1>3. IsFiniteSet(1 .. Len(script))  BY <1>1, FS_Interval
<1>4. QED  BY <1>1, <1>2, <1>3, FS_Subset, FS_CardinalityType

LEMMA ToldToHas == \A k, j : j \in ToldTo(k) <=> j \in Told /\ j <= k
  BY DEF ToldTo

\* What is told up to a line.
LEMMA ToldCount ==
  ASSUME script \in Seq(AgentLine), NEW k \in Nat
  PROVE  /\ IsFiniteSet(ToldTo(k)) /\ Cardinality(ToldTo(k)) \in Nat
         /\ Cardinality(ToldTo(k)) <= Cardinality(Told)
<1>1. ToldTo(k) \subseteq Told  BY DEF ToldTo
<1>2. QED  BY <1>1, MarksFinite, FS_Subset, FS_CardinalityType

LEMMA ToldMore ==
  ASSUME script \in Seq(AgentLine), NEW i \in Told, NEW k \in Told, i < k
  PROVE  Cardinality(ToldTo(i)) < Cardinality(ToldTo(k))
<1>1. i \in Nat /\ k \in Nat /\ Told \subseteq Nat  BY MarksFinite
<1>2. k \notin ToldTo(i) /\ ToldTo(i) \union {k} \subseteq ToldTo(k)
  <2>1. ~(k <= i) /\ k <= k /\ \A j \in Told : j <= i => j <= k  BY <1>1
  <2>2. k \notin ToldTo(i) /\ k \in ToldTo(k)  BY <2>1, ToldToHas
  <2>3. \A j \in ToldTo(i) : j \in ToldTo(k)  BY <2>1, ToldToHas
  <2>4. QED  BY <2>2, <2>3
<1>3. /\ IsFiniteSet(ToldTo(i)) /\ Cardinality(ToldTo(i)) \in Nat
      /\ IsFiniteSet(ToldTo(k)) /\ Cardinality(ToldTo(k)) \in Nat
  BY <1>1, ToldCount
<1>4. Cardinality(ToldTo(i) \union {k}) = Cardinality(ToldTo(i)) + 1
  BY <1>2, <1>3, FS_AddElement
<1>5. Cardinality(ToldTo(i) \union {k}) <= Cardinality(ToldTo(k))  BY <1>2, <1>3, FS_Subset
<1>6. QED  BY <1>3, <1>4, <1>5

\* The events told are numbered in their order.
LEMMA AnswerAt ==
  ASSUME script \in Seq(AgentLine), NEW i \in Told
  PROVE  /\ Cardinality(ToldTo(i)) \in 1 .. Cardinality(Told)
         /\ Answer[Cardinality(ToldTo(i))] = script[i - 1].of
<1> DEFINE k == Cardinality(ToldTo(i))
           Numbered(n) == Cardinality(ToldTo(n)) = k
<1>1. i \in Nat /\ Told \subseteq Nat  BY MarksFinite
<1>2. k \in Nat /\ k <= Cardinality(Told) /\ IsFiniteSet(ToldTo(i))  BY <1>1, ToldCount
<1>3. k # 0
  <2>1. i \in ToldTo(i)  BY <1>1 DEF ToldTo
  <2>2. ToldTo(i) # {}  BY <2>1
  <2>3. QED  BY <1>2, <2>2, FS_EmptySet
<1>4. k \in 1 .. Cardinality(Told)  BY <1>2, <1>3, MarksFinite
<1>5. \A n \in Told : Numbered(n) => n = i
  <2> SUFFICES ASSUME NEW n \in Told, Numbered(n), n # i PROVE FALSE  OBVIOUS
  <2>1. n < i \/ i < n  BY <1>1
  <2>2. Cardinality(ToldTo(n)) < k \/ k < Cardinality(ToldTo(n))  BY <2>1, ToldMore
  <2>3. QED  BY <1>2, <2>2
<1>6. Numbered(i)  OBVIOUS
<1>7. (CHOOSE n \in Told : Numbered(n)) = i
  <2> HIDE DEF Numbered
  <2>1. QED  BY <1>5, <1>6
<1>8. Answer[k] = script[(CHOOSE n \in Told : Numbered(n)) - 1].of  BY <1>4 DEF Answer
<1>9. QED  BY <1>4, <1>7, <1>8

\* One line further, one more is told or none.
LEMMA ToldNext ==
  ASSUME script \in Seq(AgentLine), NEW k \in Nat
  PROVE  /\ k + 1 \notin Told => ToldTo(k + 1) = ToldTo(k)
         /\ k + 1 \in Told => Cardinality(ToldTo(k + 1)) = Cardinality(ToldTo(k)) + 1
<1>1. Told \subseteq Nat  BY MarksFinite
<1>2. ASSUME k + 1 \notin Told PROVE ToldTo(k + 1) = ToldTo(k)
  <2>1. \A j \in Told : j <= k + 1 <=> j <= k  BY <1>1, <1>2
  <2>2. QED  BY <2>1, ToldToHas DEF ToldTo
<1>3. ASSUME k + 1 \in Told PROVE Cardinality(ToldTo(k + 1)) = Cardinality(ToldTo(k)) + 1
  <2>1. ToldTo(k + 1) = ToldTo(k) \union {k + 1} /\ k + 1 \notin ToldTo(k)
    <3>1. \A j \in Told : j <= k + 1 <=> j <= k \/ j = k + 1  BY <1>1, <1>3
    <3>2. \A j : j \in ToldTo(k + 1) <=> j \in ToldTo(k) \union {k + 1}
      BY <1>3, <3>1, ToldToHas
    <3>3. ~(k + 1 <= k)  OBVIOUS
    <3>4. k + 1 \notin ToldTo(k)  BY <3>3, ToldToHas
    <3>5. QED  BY <3>2, <3>4
  <2>2. QED  BY <2>1, ToldCount, FS_AddElement
<1>4. QED  BY <1>2, <1>3

\* Nothing is told after a line that stops.
LEMMA ToldStops ==
  ASSUME script \in Seq(AgentLine), NEW k \in 1 .. Len(script), Stops(k)
  PROVE  ToldTo(k - 1) = Told
<1>1. Told \subseteq Nat /\ Len(script) \in Nat  BY MarksFinite
<1>2. ASSUME NEW i \in Told PROVE i <= k - 1
  <2>1. \A j \in 1 .. i : ~Stops(j)  BY DEF Told
  <2>2. k \notin 1 .. i  BY <2>1
  <2>3. QED  BY <1>1, <2>2
<1>3. QED  BY <1>2 DEF ToldTo

LEMMA ToldAll == ASSUME script \in Seq(AgentLine) PROVE ToldTo(Len(script)) = Told
<1>1. \A j \in Told : j <= Len(script)  BY MarksFinite
<1>2. \A j : j \in ToldTo(Len(script)) <=> j \in Told  BY <1>1, ToldToHas
<1>3. QED  BY <1>2

-----------------------------------------------------------------------------
(* The lines of the agent.                                                 *)

LEMMA MaxIs ==
  ASSUME NEW S, S \subseteq Int, NEW m \in S, \A x \in S : x <= m
  PROVE  Max(S) = m
<1>1. \A y \in S : (\A x \in S : y >= x) => y = m  OBVIOUS
<1>2. \A x \in S : m >= x  OBVIOUS
<1>3. QED  BY <1>1, <1>2 DEF Max

LEMMA TypeNext ==
  ASSUME script \in Seq(AgentLine), NEW k \in Nat, k < Len(script)
  PROVE  TypeOf(k + 1) = IF script[k + 1].is = "event" THEN script[k + 1].of ELSE TypeOf(k)
<1> DEFINE Named(i) == {j \in 1 .. i : script[j].is = "event"}
<1>1. \A i : TypeOf(i) = IF Named(i) = {} THEN "none" ELSE script[Max(Named(i))].of
  BY DEF TypeOf
<1>2. CASE script[k + 1].is = "event"
  <2>1. Named(k + 1) \subseteq Int /\ k + 1 \in Named(k + 1) /\ \A x \in Named(k + 1) : x <= k + 1
    BY <1>2
  <2> HIDE DEF Named
  <2>2. Max(Named(k + 1)) = k + 1  BY <2>1, MaxIs
  <2>3. QED  BY <1>1, <1>2, <2>1, <2>2
<1>3. CASE script[k + 1].is # "event"
  <2>1. Named(k + 1) = Named(k)  BY <1>3
  <2> HIDE DEF Named
  <2>2. QED  BY <1>1, <1>3, <2>1
<1>4. QED  BY <1>2, <1>3

\* The prover does not know that the texts written in the model are strings.
Text == STRING \union {"", "proxy", "connection", "error"}

EventT == [type : {"delta", "status", "error", "done"}, text : Text]
ParserT == [type : EventTypes \union {"none"}, data : Seq(STRING), out : Seq(EventT),
            over : BOOLEAN]

\* The data lines since the last line of another kind are in the buffer.
Gathered(data, k) ==
  \E m \in 0 .. k :
    /\ data \in Seq(STRING) /\ Len(data) = k - m
    /\ \A j \in 1 .. k - m : script[m + j].is = "data" /\ data[j] = script[m + j].of
    /\ m # 0 => script[m].is # "data"

\* A parser that has read k lines of the script and goes on.
Parsed(type, data, k) ==
  /\ type = TypeOf(k) /\ Gathered(data, k)
  /\ \A j \in 1 .. k : ~Stops(j)

\* A blank line makes an event of what was gathered, if it is one line.
LEMMA WholeIs ==
  ASSUME script \in Seq(AgentLine), NEW k \in Nat, k < Len(script), NEW data,
         Gathered(data, k), script[k + 1].is = "blank"
  PROVE  /\ Whole(k + 1) <=> Len(data) = 1 /\ data[1] # "bad"
         /\ Len(data) = 1 => data[1] = script[k].of
<1>1. PICK m \in 0 .. k :
        /\ data \in Seq(STRING) /\ Len(data) = k - m
        /\ \A j \in 1 .. k - m : script[m + j].is = "data" /\ data[j] = script[m + j].of
        /\ m # 0 => script[m].is # "data"
  BY DEF Gathered
<1>2. \A i \in m + 1 .. k : script[i].is = "data" /\ data[i - m] = script[i].of
  <2> SUFFICES ASSUME NEW i \in m + 1 .. k
               PROVE  script[i].is = "data" /\ data[i - m] = script[i].of
    OBVIOUS
  <2>1. i - m \in 1 .. k - m /\ m + (i - m) = i  OBVIOUS
  <2>2. QED  BY <1>1, <2>1
<1>3. Len(script) \in Nat /\ DOMAIN script = 1 .. Len(script)  BY LenProperties
<1>4. DataOf(k + 1) = m + 1 .. k
  <2>1. ASSUME NEW j \in m + 1 .. k PROVE j \in DataOf(k + 1)
    <3>1. \A i \in Marks : i < k + 1 => i < j
      <4> SUFFICES ASSUME NEW i \in Marks, i < k + 1, ~(i < j) PROVE FALSE  OBVIOUS
      <4>1. i \in 1 .. Len(script) /\ script[i].is # "data"  BY <1>3 DEF Marks
      <4>2. i \in m + 1 .. k  BY <1>3, <4>1
      <4>3. QED  BY <1>2, <4>1, <4>2
    <3>2. j \in 1 .. (k + 1) - 1  OBVIOUS
    <3>3. script[j].is = "data"  BY <1>2
    <3>4. QED  BY <3>1, <3>2, <3>3 DEF DataOf
  <2>2. ASSUME NEW j \in DataOf(k + 1) PROVE j \in m + 1 .. k
    <3>1. j \in 1 .. (k + 1) - 1 /\ \A i \in Marks : i < k + 1 => i < j  BY DEF DataOf
    <3>2. m # 0 => m \in Marks  BY <1>1, <1>3 DEF Marks
    <3>3. m # 0 => m < j  BY <3>1, <3>2
    <3>4. QED  BY <3>1, <3>3
  <2>3. QED  BY <2>1, <2>2
<1>5. CASE Len(data) = 1
  <2>1. m = k - 1 /\ m + 1 = k /\ k - m = 1 /\ k \in m + 1 .. k /\ m + 1 .. k = {k}
    <3>1. k - m = 1  BY <1>1, <1>5
    <3>2. m = k - 1  BY <3>1
    <3>3. QED  BY <3>2
  <2>2. data[1] = script[k].of  BY <1>2, <2>1
  <2>3. DataOf(k + 1) = {k}  BY <1>4, <2>1
  <2>4. Whole(k + 1) <=> script[k].of # "bad"  BY <2>3 DEF Whole
  <2>5. QED  BY <1>5, <2>2, <2>4
<1>6. CASE Len(data) # 1
  <2>1. m # k - 1  BY <1>1, <1>6
  <2>2. \A j : m + 1 .. k # {j}
    <3> SUFFICES ASSUME NEW j, m + 1 .. k = {j} PROVE FALSE  OBVIOUS
    <3>1. j \in m + 1 .. k  OBVIOUS
    <3>2. m + 1 \in m + 1 .. k /\ k \in m + 1 .. k  BY <3>1
    <3>3. m + 1 = k  BY <3>2
    <3>4. QED  BY <2>1, <3>3
  <2>3. ~Whole(k + 1)  BY <1>4, <2>2 DEF Whole
  <2>4. QED  BY <1>6, <2>3
<1>7. QED  BY <1>5, <1>6

\* What a line does to what is gathered.
LEMMA GatherNext ==
  ASSUME script \in Seq(AgentLine), NEW k \in Nat, k < Len(script), NEW data, Gathered(data, k)
  PROVE  /\ script[k + 1].is = "data" => Gathered(Append(data, script[k + 1].of), k + 1)
         /\ script[k + 1].is # "data" => Gathered(<< >>, k + 1)
<1>1. PICK m \in 0 .. k :
        /\ data \in Seq(STRING) /\ Len(data) = k - m
        /\ \A j \in 1 .. k - m : script[m + j].is = "data" /\ data[j] = script[m + j].of
        /\ m # 0 => script[m].is # "data"
  BY DEF Gathered
<1>2. Len(script) \in Nat /\ k + 1 \in 1 .. Len(script) /\ script[k + 1] \in AgentLine
  BY LenProperties
<1>3. CASE script[k + 1].is = "data"
  <2> DEFINE x == script[k + 1].of
             more == Append(data, x)
  <2>1. x \in STRING  BY <1>2, <1>3 DEF AgentLine
  <2>2. /\ more \in Seq(STRING) /\ Len(more) = (k - m) + 1
        /\ \A j \in 1 .. k - m : more[j] = data[j]
        /\ more[(k - m) + 1] = x
    <3> HIDE DEF x
    <3>1. QED  BY <1>1, <2>1, AppendProperties
  <2> HIDE DEF more
  <2>3. m \in 0 .. k + 1 /\ (k + 1) - m = (k - m) + 1 /\ m + ((k - m) + 1) = k + 1  OBVIOUS
  <2>4. \A j \in 1 .. (k + 1) - m : script[m + j].is = "data" /\ more[j] = script[m + j].of
    <3> SUFFICES ASSUME NEW j \in 1 .. (k + 1) - m
                 PROVE  script[m + j].is = "data" /\ more[j] = script[m + j].of
      OBVIOUS
    <3>1. CASE j = (k - m) + 1
      <4>1. m + j = k + 1  BY <2>3, <3>1
      <4>2. QED  BY <1>3, <2>2, <3>1, <4>1
    <3>2. CASE j # (k - m) + 1
      <4>1. j \in 1 .. k - m  BY <3>2
      <4>2. QED  BY <1>1, <2>2, <4>1
    <3>3. QED  BY <3>1, <3>2
  <2>5. Gathered(more, k + 1)  BY <1>1, <2>2, <2>3, <2>4 DEF Gathered
  <2>6. QED  BY <1>3, <2>5 DEF more
<1>4. CASE script[k + 1].is # "data"
  <2>1. k + 1 \in 0 .. k + 1 /\ << >> \in Seq(STRING) /\ Len(<< >>) = (k + 1) - (k + 1)
        /\ 1 .. (k + 1) - (k + 1) = {}
    OBVIOUS
  <2>2. Gathered(<< >>, k + 1)  BY <1>4, <2>1 DEF Gathered
  <2>3. QED  BY <1>4, <2>2
<1>5. QED  BY <1>3, <1>4

-----------------------------------------------------------------------------
(* The events on the way to the page.                                      *)

DeltaSet(q, i) == {j \in 1 .. i : q[j].type = "delta"}
Deltas(q, i) == Cardinality(DeltaSet(q, i))

\* The deltas of q are the texts of the answer, in their order; an error is the last event.
Says(q) ==
  /\ q \in Seq(EventT)
  /\ \A i \in 1 .. Len(q) : q[i].type = "delta" =>
       Deltas(q, i) \in 1 .. Cardinality(Told) /\ q[i].text = Answer[Deltas(q, i)]
  /\ \A i \in 1 .. Len(q) : q[i].type = "error" => i = Len(q)

\* q is what the first k lines say.
Tells(q, k) ==
  /\ Says(q) /\ Deltas(q, Len(q)) = Cardinality(ToldTo(k))
  /\ \A i \in 1 .. Len(q) : q[i].type # "error"

\* q is all the page will be told.
IsAll(q) ==
  /\ Says(q) /\ q # << >>
  /\ q[Len(q)].type = "error" \/ Deltas(q, Len(q)) = Cardinality(Told)

LEMMA DeltasAre ==
  ASSUME NEW q, NEW i \in Nat
  PROVE  IsFiniteSet(DeltaSet(q, i)) /\ Deltas(q, i) \in Nat
<1>1. DeltaSet(q, i) \subseteq 1 .. i /\ IsFiniteSet(1 .. i)  BY FS_Interval DEF DeltaSet
<1>2. QED  BY <1>1, FS_Subset, FS_CardinalityType DEF Deltas

LEMMA NoDeltas == \A q : Deltas(q, 0) = 0
<1>1. \A q : DeltaSet(q, 0) = {}  BY DEF DeltaSet
<1>2. QED  BY <1>1, FS_EmptySet DEF Deltas

\* One event further, one more delta or none.
LEMMA DeltasNext ==
  ASSUME NEW q, NEW i \in Nat
  PROVE  Deltas(q, i + 1) = Deltas(q, i) + (IF q[i + 1].type = "delta" THEN 1 ELSE 0)
<1>1. i + 1 \notin DeltaSet(q, i)  BY DEF DeltaSet
<1>2. 1 .. i + 1 = (1 .. i) \union {i + 1}  OBVIOUS
<1>3. CASE q[i + 1].type = "delta"
  <2>1. DeltaSet(q, i + 1) = DeltaSet(q, i) \union {i + 1}  BY <1>2, <1>3 DEF DeltaSet
  <2>2. QED  BY <1>1, <1>3, <2>1, DeltasAre, FS_AddElement DEF Deltas
<1>4. CASE q[i + 1].type # "delta"
  <2>1. DeltaSet(q, i + 1) = DeltaSet(q, i)  BY <1>2, <1>4 DEF DeltaSet
  <2>2. Deltas(q, i + 1) = Deltas(q, i)  BY <2>1 DEF Deltas
  <2>3. QED  BY <1>4, <2>2, DeltasAre
<1>5. QED  BY <1>3, <1>4

LEMMA DeltasSame ==
  ASSUME NEW q, NEW r, NEW i \in Nat, \A j \in 1 .. i : q[j] = r[j]
  PROVE  Deltas(q, i) = Deltas(r, i)
<1>1. DeltaSet(q, i) = DeltaSet(r, i)  BY DEF DeltaSet
<1>2. QED  BY <1>1 DEF Deltas

\* Of an answer, no more is ever said than there is.
LEMMA MostTold ==
  ASSUME script \in Seq(AgentLine), NEW q, Says(q), NEW i \in 0 .. Len(q)
  PROVE  Deltas(q, i) <= Cardinality(Told)
<1> DEFINE Good == {n \in 0 .. i : Deltas(q, n) <= Cardinality(Told)}
<1>1. Len(q) \in Nat /\ i \in Nat /\ Cardinality(Told) \in Nat
  BY LenProperties, MarksFinite DEF Says
<1>2. 0 \in Good  BY <1>1, NoDeltas
<1>3. ASSUME NEW n \in 0 .. i, n # i, n \in Good PROVE n + 1 \in Good
  <2>1. n \in Nat /\ n + 1 \in 1 .. Len(q) /\ n + 1 \in 0 .. i  BY <1>1, <1>3
  <2>2. CASE q[n + 1].type = "delta"
    <3>1. Deltas(q, n + 1) \in 1 .. Cardinality(Told)  BY <2>1, <2>2 DEF Says
    <3>2. QED  BY <1>1, <2>1, <3>1
  <2>3. CASE q[n + 1].type # "delta"
    <3>1. Deltas(q, n + 1) = Deltas(q, n)
      <4>1. Deltas(q, n + 1) = Deltas(q, n) + 0  BY <2>1, <2>3, DeltasNext
      <4>2. Deltas(q, n) \in Nat  BY <2>1, DeltasAre
      <4>3. QED  BY <4>1, <4>2
    <3>2. QED  BY <1>3, <2>1, <3>1
  <2>4. QED  BY <2>2, <2>3
<1>4. 0 .. i \subseteq Good
  <2> HIDE DEF Good
  <2>1. QED  BY <1>1, <1>2, <1>3, Climb
<1>5. QED  BY <1>1, <1>4

LEMMA OneEvent ==
  ASSUME NEW q \in Seq(EventT), NEW e \in EventT
  PROVE  LET r == Append(q, e)
         IN  /\ r \in Seq(EventT) /\ r # << >> /\ Len(q) \in Nat /\ Len(r) = Len(q) + 1
             /\ \A i \in 1 .. Len(q) : r[i] = q[i] /\ Deltas(r, i) = Deltas(q, i)
             /\ r[Len(r)] = e
             /\ Deltas(r, Len(r)) = Deltas(q, Len(q)) + (IF e.type = "delta" THEN 1 ELSE 0)
<1> DEFINE r == Append(q, e)
           n == Len(q)
<1>1. /\ r \in Seq(EventT) /\ r # << >> /\ n \in Nat /\ Len(r) = n + 1
      /\ \A i \in 1 .. n : r[i] = q[i]
      /\ r[n + 1] = e
  BY AppendProperties, LenProperties
<1> HIDE DEF r, n
<1>2. ASSUME NEW i \in 0 .. n PROVE Deltas(r, i) = Deltas(q, i)
  <2>1. i \in Nat /\ \A j \in 1 .. i : r[j] = q[j]  BY <1>1
  <2>2. QED  BY <2>1, DeltasSame
<1>3. Deltas(r, n + 1) = Deltas(r, n) + (IF e.type = "delta" THEN 1 ELSE 0)
  BY <1>1, DeltasNext
<1>4. n \in 0 .. n /\ \A i \in 1 .. n : i \in 0 .. n  BY <1>1
<1>5. QED  BY <1>1, <1>2, <1>3, <1>4 DEF r, n

\* An event that is not of the answer.
LEMMA TellOther ==
  ASSUME NEW k, NEW q, Tells(q, k), NEW e \in EventT, e.type # "delta"
  PROVE  /\ Says(Append(q, e)) /\ Append(q, e) # << >>
         /\ Deltas(Append(q, e), Len(Append(q, e))) = Cardinality(ToldTo(k))
         /\ e.type # "error" => Tells(Append(q, e), k)
         /\ e.type = "error" => IsAll(Append(q, e))
<1> DEFINE r == Append(q, e)
<1>1. q \in Seq(EventT)  BY DEF Tells, Says
<1>2. /\ r \in Seq(EventT) /\ r # << >> /\ Len(q) \in Nat /\ Len(r) = Len(q) + 1
      /\ \A i \in 1 .. Len(q) : r[i] = q[i] /\ Deltas(r, i) = Deltas(q, i)
      /\ r[Len(r)] = e
      /\ Deltas(r, Len(r)) = Deltas(q, Len(q)) + 0
  BY <1>1, OneEvent
<1> HIDE DEF r
<1>3. Deltas(r, Len(r)) = Cardinality(ToldTo(k))  BY <1>2, DeltasAre DEF Tells
<1>4. \A i \in 1 .. Len(r) : i \in 1 .. Len(q) \/ (i = Len(r) /\ r[i] = e)  BY <1>2
<1>5. Says(r)  BY <1>2, <1>4 DEF Tells, Says
<1>6. e.type # "error" => Tells(r, k)  BY <1>2, <1>3, <1>4, <1>5 DEF Tells
<1>7. e.type = "error" => IsAll(r)  BY <1>2, <1>5 DEF IsAll
<1>8. QED  BY <1>2, <1>3, <1>5, <1>6, <1>7 DEF r

\* The next text of the answer.
LEMMA TellDelta ==
  ASSUME script \in Seq(AgentLine), NEW k \in Nat, NEW q, Tells(q, k), k + 1 \in Told,
         NEW e \in EventT, e.type = "delta", e.text = script[k].of
  PROVE  Tells(Append(q, e), k + 1)
<1> DEFINE r == Append(q, e)
<1>1. q \in Seq(EventT)  BY DEF Tells, Says
<1>2. /\ r \in Seq(EventT) /\ Len(q) \in Nat /\ Len(r) = Len(q) + 1
      /\ \A i \in 1 .. Len(q) : r[i] = q[i] /\ Deltas(r, i) = Deltas(q, i)
      /\ r[Len(r)] = e
      /\ Deltas(r, Len(r)) = Deltas(q, Len(q)) + 1
  BY <1>1, OneEvent
<1> HIDE DEF r
<1>3. Deltas(r, Len(r)) = Cardinality(ToldTo(k + 1))
  <2>1. Cardinality(ToldTo(k + 1)) = Cardinality(ToldTo(k)) + 1  BY ToldNext
  <2>2. QED  BY <1>2, <2>1 DEF Tells
<1>4. /\ Cardinality(ToldTo(k + 1)) \in 1 .. Cardinality(Told)
      /\ Answer[Cardinality(ToldTo(k + 1))] = script[k].of
  <2>1. (k + 1) - 1 = k  OBVIOUS
  <2>2. /\ Cardinality(ToldTo(k + 1)) \in 1 .. Cardinality(Told)
        /\ Answer[Cardinality(ToldTo(k + 1))] = script[(k + 1) - 1].of
    BY AnswerAt
  <2>3. QED  BY <2>1, <2>2
<1>5. \A i \in 1 .. Len(r) : i \in 1 .. Len(q) \/ (i = Len(r) /\ r[i] = e)  BY <1>2
<1>6. Says(r)
  <2>1. \A i \in 1 .. Len(r) : r[i].type # "error"  BY <1>2, <1>5 DEF Tells
  <2>2. ASSUME NEW i \in 1 .. Len(r), r[i].type = "delta"
        PROVE  Deltas(r, i) \in 1 .. Cardinality(Told) /\ r[i].text = Answer[Deltas(r, i)]
    <3>1. CASE i \in 1 .. Len(q)  BY <1>2, <2>2, <3>1 DEF Tells, Says
    <3>2. CASE i = Len(r) /\ r[i] = e  BY <1>3, <1>4, <3>2
    <3>3. QED  BY <1>5, <3>1, <3>2
  <2>3. QED  BY <1>2, <2>1, <2>2 DEF Says
<1>7. \A i \in 1 .. Len(r) : r[i].type # "error"  BY <1>2, <1>5 DEF Tells
<1>8. QED  BY <1>3, <1>6, <1>7 DEF Tells, r

\* A line that says nothing.
LEMMA TellNothing ==
  ASSUME script \in Seq(AgentLine), NEW k \in Nat, NEW q, Tells(q, k), k + 1 \notin Told
  PROVE  Tells(q, k + 1)
BY ToldNext DEF Tells

-----------------------------------------------------------------------------
(* One line in the proxy.                                                  *)

\* The parser p after k lines of the script, when q had been sent before the read.
After(p, q, k) ==
  /\ p \in ParserT
  /\ IF p.over THEN IsAll(q \o p.out) ELSE Parsed(p.type, p.data, k) /\ Tells(q \o p.out, k)

LEMMA SendOne ==
  ASSUME NEW q \in Seq(EventT), NEW out \in Seq(EventT), NEW e \in EventT
  PROVE  q \o Append(out, e) = Append(q \o out, e) /\ Append(out, e) \in Seq(EventT)
<1>1. Append(out, e) = out \o << e >> /\ q \o out \in Seq(EventT) /\ << e >> \in Seq(EventT)
  BY AppendIsConcat, ConcatProperties
<1>2. Append(q \o out, e) = (q \o out) \o << e >>  BY <1>1, AppendIsConcat
<1>3. (q \o out) \o << e >> = q \o (out \o << e >>)  BY <1>1, ConcatAssociative
<1>4. QED  BY <1>1, <1>2, <1>3, AppendProperties

LEMMA LineKinds ==
  ASSUME script \in Seq(AgentLine), NEW k \in Nat, k < Len(script)
  PROVE  LET line == script[k + 1]
         IN  \/ line.is = "event" /\ line.of \in EventTypes /\ line.of # "DONE"
             \/ line.is = "data" /\ line.of \in STRING
             \/ line.is = "blank" /\ line.of # "DONE"
<1>1. k + 1 \in 1 .. Len(script) /\ script[k + 1] \in AgentLine  BY LenProperties
<1>2. QED  BY <1>1 DEF AgentLine, EventTypes, SKIP_EVENTS

\* Only a blank line tells, and only it or DONE stops.
LEMMA NotBlank ==
  ASSUME NEW i, script[i].is # "blank"
  PROVE  i \notin Told /\ (Stops(i) <=> script[i].of = "DONE")
BY DEF Told, Whole, Stops

\* What a parser that goes on has sent is typed, and no line has stopped it.
LEMMA ToldIf ==
  ASSUME script \in Seq(AgentLine), NEW k \in Nat, k < Len(script),
         \A j \in 1 .. k : ~Stops(j)
  PROVE  k + 1 \in Told <=> Whole(k + 1) /\ TypeOf(k + 1) \notin SKIP_EVENTS \union {"error"}
                            /\ ~Stops(k + 1)
<1>1. k + 1 \in DOMAIN script  BY LenProperties
<1>2. (\A j \in 1 .. k + 1 : ~Stops(j)) <=> ~Stops(k + 1)
  <2>1. \A j \in 1 .. k + 1 : j \in 1 .. k \/ j = k + 1  OBVIOUS
  <2>2. k + 1 \in 1 .. k + 1  OBVIOUS
  <2>3. QED  BY <2>1, <2>2
<1>3. QED  BY <1>1, <1>2 DEF Told

LEMMA NoStopNext ==
  ASSUME NEW k \in Nat, \A j \in 1 .. k : ~Stops(j), ~Stops(k + 1)
  PROVE  \A j \in 1 .. k + 1 : ~Stops(j)
<1>1. \A j \in 1 .. k + 1 : j \in 1 .. k \/ j = k + 1  OBVIOUS
<1>2. QED  BY <1>1

\* The fields of a parser, whatever they are.
LEMMA Fields ==
  ASSUME NEW type, NEW data, NEW out, NEW over, NEW p,
         p = [type |-> type, data |-> data, out |-> out, over |-> over]
  PROVE  /\ \A x, y : [p EXCEPT !.type = x, !.data = y]
                        = [type |-> x, data |-> y, out |-> out, over |-> over]
         /\ \A x : [p EXCEPT !.data = x] = [type |-> type, data |-> x, out |-> out, over |-> over]
         /\ \A x : [p EXCEPT !.out = x] = [type |-> type, data |-> data, out |-> x, over |-> over]
         /\ \A x : [p EXCEPT !.over = x] = [type |-> type, data |-> data, out |-> out, over |-> x]
         /\ \A x, y : [p EXCEPT !.out = x, !.over = y]
                        = [type |-> type, data |-> data, out |-> x, over |-> y]
         /\ p.type = type /\ p.data = data /\ p.out = out /\ p.over = over
<1>1. \A x : [p EXCEPT !.type = x] = [type |-> x, data |-> data, out |-> out, over |-> over]
  OBVIOUS
<1>2. \A x : [p EXCEPT !.data = x] = [type |-> type, data |-> x, out |-> out, over |-> over]
  OBVIOUS
<1>3. \A x : [p EXCEPT !.out = x] = [type |-> type, data |-> data, out |-> x, over |-> over]
  OBVIOUS
<1>4. \A x : [p EXCEPT !.over = x] = [type |-> type, data |-> data, out |-> out, over |-> x]
  OBVIOUS
<1>5. \A x, y : [p EXCEPT !.type = x, !.data = y]
                  = [type |-> x, data |-> y, out |-> out, over |-> over]
  <2> TAKE x, y
  <2> DEFINE p1 == [p EXCEPT !.type = x]
  <2>1. p1 = [type |-> x, data |-> data, out |-> out, over |-> over]  BY <1>1
  <2> HIDE DEF p1
  <2>2. [p1 EXCEPT !.data = y] = [type |-> x, data |-> y, out |-> out, over |-> over]  BY <2>1
  <2>3. QED  BY <2>2 DEF p1
<1>6. \A x, y : [p EXCEPT !.out = x, !.over = y]
                  = [type |-> type, data |-> data, out |-> x, over |-> y]
  <2> TAKE x, y
  <2> DEFINE p1 == [p EXCEPT !.out = x]
  <2>1. p1 = [type |-> type, data |-> data, out |-> x, over |-> over]  BY <1>3
  <2> HIDE DEF p1
  <2>2. [p1 EXCEPT !.over = y] = [type |-> type, data |-> data, out |-> x, over |-> y]  BY <2>1
  <2>3. QED  BY <2>2 DEF p1
<1>7. p.type = type /\ p.data = data /\ p.out = out /\ p.over = over  OBVIOUS
<1>8. QED  BY <1>1, <1>2, <1>3, <1>4, <1>5, <1>6, <1>7

LEMMA EventIs ==
  \A type \in {"delta", "status", "error", "done"}, text \in Text :
    /\ Event(type, text) \in EventT
    /\ Event(type, text).type = type /\ Event(type, text).text = text
BY DEF Event, EventT

LEMMA LineStep ==
  ASSUME script \in Seq(AgentLine), NEW k \in Nat, k < Len(script),
         NEW q \in Seq(EventT), NEW p, After(p, q, k)
  PROVE  After(ProxyLine(p, script[k + 1]), q, k + 1)
<1> DEFINE line == script[k + 1]
           r == ProxyLine(p, line)
           sent0 == q \o p.out
<1>1. CASE p.over
  <2>1. r = p  BY <1>1 DEF ProxyLine
  <2>2. QED  BY <1>1, <2>1 DEF After
<1>2. CASE ~p.over
  <2>1. /\ p.type \in EventTypes \union {"none"} /\ p.data \in Seq(STRING)
        /\ p.out \in Seq(EventT)
        /\ p = [type |-> p.type, data |-> p.data, out |-> p.out, over |-> p.over]
        /\ p.over = FALSE
    BY <1>2 DEF After, ParserT
  <2>2. p.type = TypeOf(k) /\ Gathered(p.data, k) /\ \A j \in 1 .. k : ~Stops(j)
    BY <1>2 DEF After, Parsed
  <2>3. Tells(sent0, k)  BY <1>2 DEF After
  <2>4. TypeOf(k + 1) = IF line.is = "event" THEN line.of ELSE p.type  BY <2>2, TypeNext
  <2>5. \A type \in EventTypes \union {"none"}, data \in Seq(STRING), out \in Seq(EventT) :
          /\ [type |-> type, data |-> data, out |-> out, over |-> FALSE] \in ParserT
          /\ [type |-> type, data |-> data, out |-> out, over |-> TRUE] \in ParserT
    BY DEF ParserT
  <2> SUFFICES After(r, q, k + 1)  OBVIOUS
  <2> HIDE DEF line, sent0, r
  \* A line that says nothing and does not stop the parser.
  <2>6. ASSUME NEW type \in EventTypes \union {"none"}, NEW data \in Seq(STRING),
               r = [type |-> type, data |-> data, out |-> p.out, over |-> FALSE],
               type = TypeOf(k + 1), Gathered(data, k + 1), ~Stops(k + 1), k + 1 \notin Told
        PROVE  After(r, q, k + 1)
    <3>1. r \in ParserT  BY <2>1, <2>5, <2>6
    <3>2. Parsed(type, data, k + 1)  BY <2>2, <2>6, NoStopNext DEF Parsed
    <3>3. Tells(sent0, k + 1)  BY <2>3, <2>6, TellNothing
    <3>4. r.type = type /\ r.data = data /\ r.out = p.out /\ r.over = FALSE  BY <2>6
    <3>5. QED  BY <3>1, <3>2, <3>3, <3>4 DEF After, sent0
  \* A line that sends an event.
  <2>7. ASSUME NEW data \in Seq(STRING), NEW e \in EventT,
               r = [type |-> p.type, data |-> data, out |-> Append(p.out, e), over |-> FALSE],
               p.type = TypeOf(k + 1), Gathered(data, k + 1), ~Stops(k + 1),
               Tells(Append(sent0, e), k + 1)
        PROVE  After(r, q, k + 1)
    <3>1. q \o Append(p.out, e) = Append(sent0, e) /\ Append(p.out, e) \in Seq(EventT)
      BY <2>1, SendOne DEF sent0
    <3>2. r \in ParserT  BY <2>1, <2>5, <2>7, <3>1
    <3>3. Parsed(p.type, data, k + 1)  BY <2>2, <2>7, NoStopNext DEF Parsed
    <3>4. r.type = p.type /\ r.data = data /\ r.out = Append(p.out, e) /\ r.over = FALSE
      BY <2>7
    <3>5. QED  BY <2>7, <3>1, <3>2, <3>3, <3>4 DEF After
  \* A line that ends the answer.
  <2>8. ASSUME NEW data \in Seq(STRING), NEW e \in EventT,
               r = [type |-> p.type, data |-> data, out |-> Append(p.out, e), over |-> TRUE],
               IsAll(Append(sent0, e))
        PROVE  After(r, q, k + 1)
    <3>1. q \o Append(p.out, e) = Append(sent0, e) /\ Append(p.out, e) \in Seq(EventT)
      BY <2>1, SendOne DEF sent0
    <3>2. r \in ParserT  BY <2>1, <2>5, <2>8, <3>1
    <3>3. r.out = Append(p.out, e) /\ r.over = TRUE  BY <2>8
    <3>4. QED  BY <2>8, <3>1, <3>2, <3>3 DEF After
  <2>9. CASE line.is = "event"
    <3>1. line.of \in EventTypes /\ line.of # "DONE"  BY <2>9, LineKinds DEF line
    <3>2. r = [type |-> line.of, data |-> << >>, out |-> p.out, over |-> FALSE]
      <4>1. r = [p EXCEPT !.type = line.of, !.data = << >>]  BY <1>2, <2>9 DEF ProxyLine, r
      <4>2. QED  BY <2>1, <4>1, Fields
    <3>3. k + 1 \notin Told /\ ~Stops(k + 1)  BY <2>9, <3>1, NotBlank DEF line
    <3>4. Gathered(<< >>, k + 1)  BY <2>2, <2>9, GatherNext DEF line
    <3>5. << >> \in Seq(STRING) /\ line.of = TypeOf(k + 1)  BY <2>4, <2>9
    <3>6. QED  BY <2>6, <3>1, <3>2, <3>3, <3>4, <3>5
  <2>10. CASE line.is = "data" /\ line.of = "DONE"
    <3> DEFINE e == Event("done", "")
    <3>1. e \in EventT /\ e.type = "done"  BY EventIs DEF Text
    <3>2. r = [type |-> p.type, data |-> p.data, out |-> Append(p.out, e), over |-> TRUE]
      <4>1. r = [p EXCEPT !.out = Append(p.out, e), !.over = TRUE]
        BY <1>2, <2>10 DEF ProxyLine, r
      <4> HIDE DEF e
      <4>2. QED  BY <2>1, <4>1, Fields
    <3>3. Stops(k + 1)  BY <2>10 DEF Stops, line
    <3>4. ToldTo(k) = Told
      <4>1. k + 1 \in 1 .. Len(script) /\ (k + 1) - 1 = k  BY LenProperties
      <4>2. QED  BY <3>3, <4>1, ToldStops
    <3> HIDE DEF e
    <3>5. IsAll(Append(sent0, e))  BY <2>3, <3>1, <3>4, TellOther DEF IsAll
    <3>6. QED  BY <2>1, <2>8, <3>1, <3>2, <3>5
  <2>11. CASE line.is = "data" /\ line.of # "DONE"
    <3> DEFINE data == Append(p.data, line.of)
    <3>1. line.of \in STRING  BY <2>11, LineKinds DEF line
    <3>2. r = [type |-> p.type, data |-> data, out |-> p.out, over |-> FALSE]
      <4>1. r = [p EXCEPT !.data = data]  BY <1>2, <2>11 DEF ProxyLine, r
      <4> HIDE DEF data
      <4>2. QED  BY <2>1, <4>1, Fields
    <3>3. k + 1 \notin Told /\ ~Stops(k + 1)  BY <2>11, NotBlank DEF line
    <3>4. Gathered(data, k + 1)  BY <2>2, <2>11, GatherNext DEF line
    <3>5. data \in Seq(STRING)  BY <2>1, <3>1, AppendProperties
    <3>6. p.type = TypeOf(k + 1)  BY <2>4, <2>11
    <3> HIDE DEF data
    <3>7. QED  BY <2>1, <2>6, <3>2, <3>3, <3>4, <3>5, <3>6
  <2>12. CASE line.is = "blank"
    <3>1. /\ Whole(k + 1) <=> Len(p.data) = 1 /\ p.data[1] # "bad"
          /\ Len(p.data) = 1 => p.data[1] = script[k].of
      BY <2>2, <2>12, WholeIs DEF line
    <3>2. Gathered(<< >>, k + 1) /\ << >> \in Seq(STRING)  BY <2>2, <2>12, GatherNext DEF line
    <3>3. p.type = TypeOf(k + 1)  BY <2>4, <2>12
    <3>4. line.of # "DONE"  BY <2>12, LineKinds DEF line
    <3>5. Stops(k + 1) <=> Whole(k + 1) /\ p.type = "error"  BY <3>3, <3>4 DEF Stops, line
    <3>6. k + 1 \in Told <=> Whole(k + 1) /\ p.type \notin SKIP_EVENTS \union {"error"}
      BY <2>2, <3>3, <3>5, ToldIf
    <3> DEFINE emptied == [p EXCEPT !.data = << >>]
               e(type) == Event(type, p.data[1])
               Emit(type) == [emptied EXCEPT !.out = Append(p.out, e(type))]
    <3>7. emptied = [type |-> p.type, data |-> << >>, out |-> p.out, over |-> FALSE]
      <4>1. PICK t, d, o, v : p = [type |-> t, data |-> d, out |-> o, over |-> v]  BY <2>1
      <4>2. t = p.type /\ o = p.out /\ v = p.over  BY <4>1
      <4>3. emptied = [type |-> t, data |-> << >>, out |-> o, over |-> v]  BY <4>1
      <4>4. QED  BY <2>1, <4>2, <4>3
    <3>8. \A type : Emit(type) = [type |-> p.type, data |-> << >>,
                                  out |-> Append(p.out, e(type)), over |-> FALSE]
      <4> HIDE DEF e, emptied
      <4>1. PICK t, v : t = p.type /\ v = FALSE  OBVIOUS
      <4>2. emptied = [type |-> t, data |-> << >>, out |-> p.out, over |-> v]  BY <3>7, <4>1
      <4> HIDE DEF emptied
      <4>3. \A x : [emptied EXCEPT !.out = x]
                     = [type |-> t, data |-> << >>, out |-> x, over |-> v]
        BY <4>2
      <4>4. QED  BY <4>1, <4>3
    <3>9. Len(p.data) = 1 =>
            \A type \in {"delta", "status", "error"} :
              e(type) \in EventT /\ e(type).type = type /\ e(type).text = p.data[1]
      <4> SUFFICES ASSUME Len(p.data) = 1, NEW type \in {"delta", "status", "error"}
                   PROVE  e(type) \in EventT /\ e(type).type = type /\ e(type).text = p.data[1]
        OBVIOUS
      <4>1. p.data[1] \in STRING  BY <2>1, LenProperties
      <4>2. p.data[1] \in Text  BY <4>1 DEF Text
      <4>3. type \in {"delta", "status", "error", "done"}  OBVIOUS
      <4>4. QED  BY <4>2, <4>3, EventIs
    <3>10. Len(p.data) \in Nat /\ (p.data = << >> <=> Len(p.data) = 0)
      BY <2>1, LenProperties, EmptySeq
    <3>11. CASE p.data = << >>
      <4>1. r = p  BY <1>2, <2>12, <3>11 DEF ProxyLine, r
      <4>2. ~Whole(k + 1)  BY <3>1, <3>10, <3>11
      <4>3. r = [type |-> p.type, data |-> << >>, out |-> p.out, over |-> FALSE]
        BY <2>1, <3>11, <4>1
      <4>4. QED  BY <2>1, <2>6, <3>2, <3>3, <3>5, <3>6, <4>2, <4>3
    <3>12. CASE p.data # << >> /\ (Len(p.data) > 1 \/ p.data[1] = "bad")
      <4>1. r = emptied  BY <1>2, <2>12, <3>12 DEF ProxyLine, r
      <4>2. ~Whole(k + 1)
        <5>1. ~(Len(p.data) = 1 /\ p.data[1] # "bad")
          <6> DEFINE n == Len(p.data)
                     bad == p.data[1] = "bad"
          <6>1. n \in Nat /\ (n > 1 \/ bad)  BY <3>10, <3>12
          <6> HIDE DEF n, bad
          <6>2. ~(n = 1 /\ ~bad)  BY <6>1
          <6>3. QED  BY <6>2 DEF n, bad
        <5>2. QED  BY <3>1, <5>1
      <4> HIDE DEF emptied
      <4>3. QED  BY <2>1, <2>6, <3>2, <3>3, <3>5, <3>6, <3>7, <4>1, <4>2
    <3>13. CASE p.data # << >> /\ ~(Len(p.data) > 1 \/ p.data[1] = "bad")
      <4>1. Whole(k + 1) /\ Len(p.data) = 1 /\ p.data[1] = script[k].of
        <5> DEFINE n == Len(p.data)
        <5>1. n # 0 /\ n \in Nat  BY <3>10, <3>13
        <5>2. ~(n > 1)  BY <3>13
        <5>3. n = 1
          <6> HIDE DEF n
          <6>1. QED  BY <5>1, <5>2
        <5>4. p.data[1] # "bad"  BY <3>13
        <5>5. QED  BY <3>1, <5>3, <5>4
      <4>2. r = IF p.type = "status" THEN Emit("status")
                ELSE IF p.type \in SKIP_EVENTS THEN emptied
                ELSE IF p.type = "error" THEN [Emit("error") EXCEPT !.over = TRUE]
                ELSE Emit("delta")
        BY <1>2, <2>12, <3>13 DEF ProxyLine, r
      <4> HIDE DEF Emit, emptied
      <4>3. "status" \in SKIP_EVENTS /\ "error" \notin SKIP_EVENTS /\ "status" # "error"
        BY DEF SKIP_EVENTS
      <4>4. CASE p.type = "status"
        <5>1. k + 1 \notin Told /\ ~Stops(k + 1)  BY <3>5, <3>6, <4>3, <4>4
        <5>2. e("status") \in EventT /\ e("status").type = "status"  BY <3>9, <4>1
        <5>3. r = [type |-> p.type, data |-> << >>, out |-> Append(p.out, e("status")),
                   over |-> FALSE]
          BY <3>8, <4>2, <4>4
        <5> HIDE DEF e
        <5>4. Tells(Append(sent0, e("status")), k)  BY <2>3, <5>2, TellOther
        <5>5. Tells(Append(sent0, e("status")), k + 1)  BY <5>1, <5>4, TellNothing
        <5>6. QED  BY <2>7, <3>2, <3>3, <5>1, <5>2, <5>3, <5>5
      <4>5. CASE p.type # "status" /\ p.type \in SKIP_EVENTS
        <5>1. k + 1 \notin Told /\ ~Stops(k + 1)  BY <3>5, <3>6, <4>3, <4>5
        <5>2. r = [type |-> p.type, data |-> << >>, out |-> p.out, over |-> FALSE]
          BY <3>7, <4>2, <4>5
        <5>3. QED  BY <2>1, <2>6, <3>2, <3>3, <5>1, <5>2
      <4>6. CASE p.type = "error"
        <5>1. e("error") \in EventT /\ e("error").type = "error"  BY <3>9, <4>1
        <5>2. r = [type |-> p.type, data |-> << >>, out |-> Append(p.out, e("error")),
                   over |-> TRUE]
          <6>1. r = [Emit("error") EXCEPT !.over = TRUE]  BY <4>2, <4>3, <4>6
          <6> HIDE DEF e
          <6>2. QED  BY <3>8, <6>1, Fields
        <5> HIDE DEF e
        <5>3. IsAll(Append(sent0, e("error")))  BY <2>3, <5>1, TellOther
        <5>4. QED  BY <2>8, <3>2, <5>1, <5>2, <5>3
      <4>7. CASE p.type \notin SKIP_EVENTS \union {"error"}
        <5>1. k + 1 \in Told /\ ~Stops(k + 1)  BY <3>5, <3>6, <4>1, <4>7
        <5>2. e("delta") \in EventT /\ e("delta").type = "delta"  BY <3>9, <4>1
        <5>3. e("delta").text = script[k].of  BY <3>9, <4>1
        <5>4. r = [type |-> p.type, data |-> << >>, out |-> Append(p.out, e("delta")),
                   over |-> FALSE]
          BY <3>8, <4>2, <4>3, <4>7
        <5> HIDE DEF e
        <5>5. Tells(Append(sent0, e("delta")), k + 1)  BY <2>3, <5>1, <5>2, <5>3, TellDelta
        <5>6. QED  BY <2>7, <3>2, <3>3, <5>1, <5>2, <5>4, <5>5
      <4>8. QED  BY <4>4, <4>5, <4>6, <4>7
    <3>14. QED  BY <3>11, <3>12, <3>13
  <2>13. line.is \in {"event", "data", "blank"}  BY LineKinds DEF line
  <2>14. QED  BY <2>9, <2>10, <2>11, <2>12, <2>13
<1>3. QED  BY <1>1, <1>2

-----------------------------------------------------------------------------
(* One read.                                                               *)

\* What is left in a buffer after n halves.
Left(n) == IF n % 2 = 1 THEN << n >> ELSE << >>

LEMMA Halving ==
  ASSUME NEW n \in Nat
  PROVE  /\ n \div 2 \in Nat /\ n % 2 \in {0, 1} /\ n = 2 * (n \div 2) + (n % 2)
OBVIOUS

\* A read ends the lines whose newlines are in it, each once.
LEMMA Halves ==
  ASSUME NEW m \in Nat, NEW n \in Nat \ {0}
  PROVE  LET h == Left(m) \o Piece(m, n)
             c == ((m + n) \div 2) - (m \div 2)
         IN  /\ c \in Nat
             /\ Ended(h) = [k \in 1 .. c |-> (m \div 2) + k]
             /\ Rest(h) = Left(m + n)
<1> DEFINE h == Left(m) \o Piece(m, n)
           a == m \div 2
           b == (m + n) \div 2
<1>1. /\ a \in Nat /\ m % 2 \in {0, 1} /\ m = 2 * a + (m % 2)
      /\ b \in Nat /\ (m + n) % 2 \in {0, 1} /\ m + n = 2 * b + ((m + n) % 2)
  BY Halving
<1>2. Left(m) \in Seq(Nat) /\ Len(Left(m)) = m % 2 /\ ((m % 2) = 1 => Left(m)[1] = m)
  BY <1>1 DEF Left
<1>3. Piece(m, n) \in Seq(Nat) /\ Len(Piece(m, n)) = n /\ \A i \in 1 .. n : Piece(m, n)[i] = m + i
  BY DEF Piece
<1> HIDE DEF a, b
<1>4. /\ Len(h) = (m % 2) + n
      /\ \A i \in 1 .. Len(h) : h[i] = IF i <= m % 2 THEN Left(m)[i] ELSE Piece(m, n)[i - (m % 2)]
  BY <1>2, <1>3, ConcatProperties
<1>5. h[1] = 2 * a + 1 /\ h[Len(h)] = m + n
  <2> HIDE DEF h
  <2>1. CASE m % 2 = 0  BY <1>1, <1>3, <1>4, <2>1
  <2>2. CASE m % 2 = 1
    <3>1. h[1] = m  BY <1>2, <1>4, <2>2
    <3>2. h[Len(h)] = m + n  BY <1>3, <1>4, <2>2
    <3>3. QED  BY <1>1, <2>2, <3>1, <3>2
  <2>3. QED  BY <1>1, <2>1, <2>2
<1> HIDE DEF h
<1>6. (h[1] - 1) \div 2 = a /\ h[1] % 2 # 0 /\ h[Len(h)] \div 2 = b
  BY <1>1, <1>5 DEF b
<1>7. Ended(h) = [k \in 1 .. b - a |-> a + k]  BY <1>6 DEF Ended
<1>8. Rest(h) = Left(m + n)  BY <1>5 DEF Rest, Left
<1>9. b - a \in Nat  BY <1>1
<1>10. QED  BY <1>7, <1>8, <1>9 DEF h, a, b

\* The lines of a read, one after the other.
LEMMA ReadLoop ==
  ASSUME script \in Seq(AgentLine), NEW k \in Nat, NEW c \in Nat, k + c <= Len(script),
         NEW q \in Seq(EventT), NEW p, After(p, q, k),
         NEW xs, Len(xs) = c, \A i \in 1 .. c : xs[i] = script[k + i]
  PROVE  After(ParseAll(p, xs), q, k + c)
<1>0. PICK g : ParsedBy(g, p, xs)  BY ProxyLoop
<1>1. /\ g[0] = p
      /\ \A n \in 1 .. c : g[n] = ProxyLine(g[n - 1], xs[n])
      /\ ParseAll(p, xs) = g[c]
  BY <1>0 DEF ParsedBy
<1> DEFINE Good == {n \in 0 .. c : After(g[n], q, k + n)}
<1>2. 0 \in Good  BY <1>1
<1>3. ASSUME NEW n \in 0 .. c, n # c, n \in Good PROVE n + 1 \in Good
  <2>1. Len(script) \in Nat  BY LenProperties
  <2>2. /\ n + 1 \in 1 .. c /\ (n + 1) - 1 = n /\ k + n \in Nat /\ k + n < Len(script)
        /\ k + (n + 1) = (k + n) + 1
    BY <1>3, <2>1
  <2>3. g[n + 1] = ProxyLine(g[n], xs[n + 1])  BY <1>1, <2>2
  <2>4. xs[n + 1] = script[k + (n + 1)]  BY <2>2
  <2>5. xs[n + 1] = script[(k + n) + 1]  BY <2>2, <2>4
  <2>6. After(g[n], q, k + n)  BY <1>3
  <2>7. After(ProxyLine(g[n], script[(k + n) + 1]), q, (k + n) + 1)
    BY <2>2, <2>6, LineStep
  <2>8. After(g[n + 1], q, k + (n + 1))  BY <2>2, <2>3, <2>5, <2>7
  <2>9. n + 1 \in 0 .. c  BY <2>2
  <2>10. QED  BY <2>8, <2>9
<1>4. c \in Good
  <2> HIDE DEF Good
  <2>1. 0 .. c \subseteq Good  BY <1>2, <1>3, Climb
  <2>2. QED  BY <2>1
<1>5. QED  BY <1>1, <1>4

-----------------------------------------------------------------------------
(* One event on the page.                                                  *)

MessageT == [role : {"user", "assistant"}, content : Seq(Text)]
LastOf(messages) == messages[Len(messages)]

\* The message m shows the first i events of q.
Holds(m, q, i) ==
  IF \E j \in 1 .. i : q[j].type = "error" THEN IsError(m)
  ELSE /\ Len(m.content) = Deltas(q, i)
       /\ \A j \in 1 .. Deltas(q, i) : m.content[j] = Answer[j]

\* The page after i events of q; it throws only when its chat was cleared.
Shown(page, q, i) ==
  /\ page.chat \in Seq(MessageT)
  /\ page.gone \in BOOLEAN
  /\ page = [chat |-> page.chat, steps |-> page.steps, gone |-> page.gone]
  /\ page.gone => cleared
  /\ ~cleared => page.chat # << >> /\ Holds(LastOf(page.chat), q, i)

LEMMA HoldsMore ==
  ASSUME NEW m, NEW q, NEW r, NEW i \in Nat, \A j \in 1 .. i : q[j] = r[j], Holds(m, q, i)
  PROVE  Holds(m, r, i)
<1>1. Deltas(q, i) = Deltas(r, i)  BY DeltasSame
<1>2. (\E j \in 1 .. i : q[j].type = "error") <=> (\E j \in 1 .. i : r[j].type = "error")
  OBVIOUS
<1>3. QED  BY <1>1, <1>2 DEF Holds

\* The last message of the chat gets another content.
LEMMA LastSet ==
  ASSUME NEW messages \in Seq(MessageT), messages # << >>, NEW m \in MessageT
  PROVE  LET all == [messages EXCEPT ![Len(messages)] = m]
         IN  all \in Seq(MessageT) /\ all # << >> /\ LastOf(all) = m
<1> DEFINE n == Len(messages)
           all == [messages EXCEPT ![n] = m]
<1>1. n \in Nat /\ n # 0 /\ DOMAIN messages = 1 .. n  BY LenProperties, EmptySeq
<1>2. all \in Seq(MessageT) /\ Len(all) = n /\ DOMAIN all = 1 .. n
  BY <1>1, ExceptSeq
<1>3. n \in 1 .. n  BY <1>1
<1>4. all[n] = m  BY <1>1, <1>3
<1>5. all # << >>  BY <1>1, <1>2, EmptySeq
<1>6. QED  BY <1>2, <1>4, <1>5 DEF LastOf

LEMMA EventStep ==
  ASSUME script \in Seq(AgentLine), NEW q, Says(q), NEW i \in Nat, i < Len(q),
         NEW page, Shown(page, q, i)
  PROVE  Shown(PageEvent(page, q[i + 1]), q, i + 1)
<1> DEFINE event == q[i + 1]
           r == PageEvent(page, event)
<1>1. q \in Seq(EventT) /\ Len(q) \in Nat  BY LenProperties DEF Says
<1>2. i + 1 \in 1 .. Len(q)  BY <1>1
<1>3. event \in EventT  BY <1>1, <1>2, ElementOfSeq
<1>4. event.type \in {"delta", "status", "error", "done"} /\ event.text \in Text
  BY <1>3 DEF EventT
<1>5. ~ \E j \in 1 .. i : q[j].type = "error"
  <2> SUFFICES ASSUME NEW j \in 1 .. i, q[j].type = "error" PROVE FALSE  OBVIOUS
  <2>1. j \in 1 .. Len(q) /\ j # Len(q)  BY <1>1
  <2>2. QED  BY <2>1 DEF Says
<1>6. Deltas(q, i + 1) = Deltas(q, i) + (IF event.type = "delta" THEN 1 ELSE 0)
  BY DeltasNext
<1>7. Deltas(q, i) \in Nat  BY DeltasAre
<1>8. \A j \in 1 .. i + 1 : j \in 1 .. i \/ j = i + 1  OBVIOUS
<1>9. event.type # "error" => ~ \E j \in 1 .. i + 1 : q[j].type = "error"  BY <1>5, <1>8
<1>10. PICK chat0, steps0, gone0 :
         /\ page = [chat |-> chat0, steps |-> steps0, gone |-> gone0]
         /\ chat0 = page.chat /\ gone0 = page.gone
  BY DEF Shown
<1>11. /\ chat0 \in Seq(MessageT) /\ gone0 \in BOOLEAN /\ (gone0 => cleared)
       /\ ~cleared => chat0 # << >> /\ Holds(LastOf(chat0), q, i)
  BY <1>10 DEF Shown
<1> SUFFICES Shown(r, q, i + 1)  OBVIOUS
<1> HIDE DEF event, r
\* What a page with these fields shows.
<1>12. ASSUME NEW c \in Seq(MessageT), NEW s, NEW g \in BOOLEAN,
              r = [chat |-> c, steps |-> s, gone |-> g], g => cleared,
              ~cleared => c # << >> /\ Holds(LastOf(c), q, i + 1)
       PROVE  Shown(r, q, i + 1)
  <2>1. r.chat = c /\ r.steps = s /\ r.gone = g  BY <1>12
  <2>2. QED  BY <1>12, <2>1 DEF Shown
<1>13. event.type \notin {"delta", "error"} /\ ~cleared => Holds(LastOf(chat0), q, i + 1)
  <2> SUFFICES ASSUME event.type \notin {"delta", "error"}, ~cleared
               PROVE  Holds(LastOf(chat0), q, i + 1)
    OBVIOUS
  <2>1. Deltas(q, i + 1) = Deltas(q, i)  BY <1>6, <1>7
  <2>2. QED  BY <1>5, <1>9, <1>11, <2>1 DEF Holds
<1>14. CASE page.gone
  <2>1. r = page  BY <1>14 DEF PageEvent, r
  <2>2. cleared  BY <1>10, <1>11, <1>14
  <2>3. QED  BY <1>10, <1>11, <1>12, <2>1, <2>2
<1>15. CASE ~page.gone /\ event.type = "delta"
  <2>1. CASE chat0 = << >>
    <3>1. r = [page EXCEPT !.gone = TRUE]  BY <1>10, <1>15, <2>1 DEF PageEvent, r
    <3>2. PICK t \in BOOLEAN : t = TRUE  OBVIOUS
    <3>3. r = [chat |-> chat0, steps |-> steps0, gone |-> t]  BY <1>10, <3>1, <3>2
    <3>4. QED  BY <1>11, <1>12, <2>1, <3>3
  <2>2. CASE chat0 # << >>
    <3> DEFINE n == Len(chat0)
               m == [chat0[n] EXCEPT !.content = Append(chat0[n].content, event.text)]
               c == [chat0 EXCEPT ![n] = m]
    <3>1. r = [page EXCEPT !.chat[Len(page.chat)].content = Append(@, event.text)]
      BY <1>10, <1>15, <2>2 DEF PageEvent, r
    <3>2. r = [page EXCEPT !.chat = c]  BY <1>10, <3>1
    <3>3. n \in 1 .. n /\ n \in Nat  BY <1>11, <2>2, LenProperties, EmptySeq
    <3>4. chat0[n] \in MessageT  BY <1>11, <3>3, ElementOfSeq
    <3>5. chat0[n].content \in Seq(Text)  BY <3>4 DEF MessageT
    <3>6. /\ Append(chat0[n].content, event.text) \in Seq(Text)
          /\ Len(Append(chat0[n].content, event.text)) = Len(chat0[n].content) + 1
          /\ \A j \in 1 .. Len(chat0[n].content) :
               Append(chat0[n].content, event.text)[j] = chat0[n].content[j]
          /\ Append(chat0[n].content, event.text)[Len(chat0[n].content) + 1] = event.text
      BY <1>4, <3>5, AppendProperties
    <3>7. m \in MessageT /\ m.content = Append(chat0[n].content, event.text)
      BY <3>4, <3>6 DEF MessageT
    <3> HIDE DEF m
    <3>8. c \in Seq(MessageT) /\ c # << >> /\ LastOf(c) = m  BY <1>11, <2>2, <3>7, LastSet
    <3> HIDE DEF c
    <3>9. r = [chat |-> c, steps |-> steps0, gone |-> gone0]  BY <1>10, <3>2
    <3>10. ~cleared => Holds(m, q, i + 1)
      <4> SUFFICES ASSUME ~cleared PROVE Holds(m, q, i + 1)  OBVIOUS
      <4>1. Holds(chat0[n], q, i)  BY <1>11 DEF LastOf
      <4>2. /\ Len(chat0[n].content) = Deltas(q, i)
            /\ \A j \in 1 .. Deltas(q, i) : chat0[n].content[j] = Answer[j]
        BY <1>5, <4>1 DEF Holds
      <4>3. Deltas(q, i + 1) = Deltas(q, i) + 1  BY <1>6, <1>15
      <4>4. event.text = Answer[Deltas(q, i + 1)]  BY <1>2, <1>15 DEF Says, event
      <4>5. \A j \in 1 .. Deltas(q, i + 1) : j \in 1 .. Deltas(q, i) \/ j = Deltas(q, i) + 1
        BY <1>7, <4>3
      <4>6. ASSUME NEW j \in 1 .. Deltas(q, i + 1) PROVE m.content[j] = Answer[j]
        BY <3>6, <3>7, <4>2, <4>3, <4>4, <4>5
      <4>7. Len(m.content) = Deltas(q, i + 1)  BY <3>6, <3>7, <4>2, <4>3
      <4>8. event.type # "error"  BY <1>15
      <4>9. QED  BY <1>9, <4>6, <4>7, <4>8 DEF Holds
    <3>11. QED  BY <1>11, <1>12, <3>8, <3>9, <3>10
  <2>3. QED  BY <2>1, <2>2
<1>16. CASE ~page.gone /\ event.type = "status"
  <2>1. r = [page EXCEPT !.steps = Append(@, event.text)]  BY <1>16 DEF PageEvent, r
  <2>2. r = [chat |-> chat0, steps |-> Append(steps0, event.text), gone |-> gone0]
    BY <1>10, <2>1
  <2>3. QED  BY <1>11, <1>12, <1>13, <1>16, <2>2
<1>17. CASE ~page.gone /\ event.type = "error"
  <2> DEFINE m == Failed(event.text)
             c == Replaced(chat0, m)
  <2>1. r = [page EXCEPT !.chat = Replaced(@, Failed(event.text))]
    BY <1>17 DEF PageEvent, r
  <2>2. r = [chat |-> c, steps |-> steps0, gone |-> gone0]  BY <1>10, <2>1
  <2>3. m \in MessageT /\ IsError(m)
    <3>1. "error" \in Text  BY DEF Text
    <3>2. << "error", event.text >> \in Seq(Text)  BY <1>4, <3>1
    <3>3. QED  BY <3>2 DEF Failed, MessageT, IsError
  <2> HIDE DEF m
  <2>4. c \in Seq(MessageT)  BY <1>11, <2>3, LastSet DEF Replaced
  <2>5. chat0 # << >> => c # << >> /\ LastOf(c) = m  BY <1>11, <2>3, LastSet DEF Replaced
  <2> HIDE DEF c
  <2>6. i + 1 \in 1 .. i + 1  OBVIOUS
  <2>7. Holds(m, q, i + 1)  BY <1>17, <2>3, <2>6 DEF Holds, event
  <2>8. QED  BY <1>11, <1>12, <2>2, <2>4, <2>5, <2>7
<1>18. CASE ~page.gone /\ event.type = "done"
  <2>1. r = page  BY <1>18 DEF PageEvent, r
  <2>2. QED  BY <1>10, <1>11, <1>12, <1>13, <1>18, <2>1
<1>19. QED  BY <1>4, <1>14, <1>15, <1>16, <1>17, <1>18

\* The events of a read, one after the other.
LEMMA ShowLoop ==
  ASSUME script \in Seq(AgentLine), NEW q, Says(q), NEW i \in Nat, NEW c \in Nat,
         i + c <= Len(q), NEW page, Shown(page, q, i),
         NEW xs, Len(xs) = c, \A n \in 1 .. c : xs[n] = q[i + n]
  PROVE  Shown(ShowAll(page, xs), q, i + c)
<1>0. PICK g : ShownBy(g, page, xs)  BY PageLoop
<1>1. /\ g[0] = page
      /\ \A n \in 1 .. c : g[n] = PageEvent(g[n - 1], xs[n])
      /\ ShowAll(page, xs) = g[c]
  BY <1>0 DEF ShownBy
<1> DEFINE Good == {n \in 0 .. c : Shown(g[n], q, i + n)}
<1>2. 0 \in Good  BY <1>1
<1>3. ASSUME NEW n \in 0 .. c, n # c, n \in Good PROVE n + 1 \in Good
  <2>1. Len(q) \in Nat  BY LenProperties DEF Says
  <2>2. /\ n + 1 \in 1 .. c /\ (n + 1) - 1 = n /\ i + n \in Nat /\ i + n < Len(q)
        /\ i + (n + 1) = (i + n) + 1
    BY <1>3, <2>1
  <2>3. g[n + 1] = PageEvent(g[n], xs[n + 1])  BY <1>1, <2>2
  <2>4. xs[n + 1] = q[i + (n + 1)]  BY <2>2
  <2>5. xs[n + 1] = q[(i + n) + 1]  BY <2>2, <2>4
  <2>6. Shown(g[n], q, i + n)  BY <1>3
  <2>7. Shown(PageEvent(g[n], q[(i + n) + 1]), q, (i + n) + 1)  BY <2>2, <2>6, EventStep
  <2>8. Shown(g[n + 1], q, i + (n + 1))  BY <2>2, <2>3, <2>5, <2>7
  <2>9. n + 1 \in 0 .. c  BY <2>2
  <2>10. QED  BY <2>8, <2>9
<1>4. c \in Good
  <2> HIDE DEF Good
  <2>1. 0 .. c \subseteq Good  BY <1>2, <1>3, Climb
  <2>2. QED  BY <2>1
<1>5. QED  BY <1>1, <1>4

-----------------------------------------------------------------------------
(* The inductive invariant.                                                *)

ChatTypes ==
  /\ script \in Scripts \union {<< >>}
  /\ sent \in 0 .. 2 * Len(script) /\ proxy.buffer = Left(sent)
  /\ proxy.type \in EventTypes \union {"none"} /\ proxy.data \in Seq(STRING)
  /\ route \in {"none", "open", "closed"}
  /\ got \in 0 .. 2 * Len(down) /\ buffer = Left(got)
  /\ chat \in Seq(MessageT)
  /\ streaming \in BOOLEAN /\ gone \in BOOLEAN /\ cleared \in BOOLEAN
  /\ asked \in 0 .. MaxQuestions /\ breaks \in 0 .. MaxBreaks

\* The proxy has told what the lines that ended say; a stream that the page still
\* reads is closed only after all of it, or after an error.
ProxyKnows ==
  /\ Says(down)
  /\ route = "open" => Parsed(proxy.type, proxy.data, sent \div 2) /\ Tells(down, sent \div 2)
  /\ route = "closed" /\ streaming => IsAll(down)

\* The page shows the events that ended, and in the end an error or the answer.
PageKnows ==
  /\ gone => cleared /\ ~streaming
  /\ steps # << >> => streaming
  /\ streaming => asked > 0
  /\ asked > 0 /\ ~cleared =>
       /\ chat # << >>
       /\ IF streaming THEN Holds(LastOf(chat), down, got \div 2)
          ELSE IsError(LastOf(chat)) \/ LastOf(chat).content = Answer

ChatInv == ChatTypes /\ ProxyKnows /\ PageKnows

\* What the script says does not change with the rest of the state.
LEMMA SameScript ==
  ASSUME script' = script
  PROVE  /\ Told' = Told /\ Answer' = Answer
         /\ \A i : Stops(i)' <=> Stops(i)
         /\ \A i : TypeOf(i)' = TypeOf(i)
<1>1. \A i : TypeOf(i)' = TypeOf(i)  BY DEF TypeOf
<1>2. \A i : DataOf(i)' = DataOf(i)  BY DEF DataOf, Marks
<1>3. \A i : Whole(i)' <=> Whole(i)  BY <1>2 DEF Whole
<1>4. \A i : Stops(i)' <=> Stops(i)  BY <1>1, <1>3 DEF Stops
<1>5. Told' = Told  BY <1>1, <1>3, <1>4 DEF Told
<1>6. Answer' = Answer  BY <1>5 DEF Answer, ToldTo
<1>7. QED  BY <1>1, <1>4, <1>5, <1>6

\* The next state of the invariant, with the answer of this one.
ProxyKnowsNext ==
  /\ Says(down')
  /\ route' = "open" =>
       Parsed(proxy'.type, proxy'.data, sent' \div 2) /\ Tells(down', sent' \div 2)
  /\ route' = "closed" /\ streaming' => IsAll(down')

PageKnowsNext ==
  /\ gone' => cleared' /\ ~streaming'
  /\ steps' # << >> => streaming'
  /\ streaming' => asked' > 0
  /\ asked' > 0 /\ ~cleared' =>
       /\ chat' # << >>
       /\ IF streaming' THEN Holds(LastOf(chat'), down', got' \div 2)
          ELSE IsError(LastOf(chat')) \/ LastOf(chat').content = Answer

LEMMA InvNext ==
  ASSUME script' = script, ChatTypes', ProxyKnowsNext, PageKnowsNext
  PROVE  ChatInv'
<1>1. Says(down')  =>  Says(down)'  BY SameScript DEF Says, Deltas, DeltaSet
<1>2. Parsed(proxy'.type, proxy'.data, sent' \div 2)
        => Parsed(proxy.type, proxy.data, sent \div 2)'
  <2>1. Gathered(proxy'.data, sent' \div 2) => Gathered(proxy.data, sent \div 2)'
    BY DEF Gathered
  <2>2. QED  BY <2>1, SameScript DEF Parsed
<1>3. Tells(down', sent' \div 2) => Tells(down, sent \div 2)'
  <2>1. Deltas(down, Len(down))' = Deltas(down', Len(down'))  BY DEF Deltas, DeltaSet
  <2>2. ToldTo(sent \div 2)' = ToldTo(sent' \div 2)  BY SameScript DEF ToldTo
  <2>3. QED  BY <1>1, <2>1, <2>2 DEF Tells
<1>4. IsAll(down') => IsAll(down)'
  <2>1. Deltas(down, Len(down))' = Deltas(down', Len(down'))  BY DEF Deltas, DeltaSet
  <2>2. QED  BY <1>1, <2>1, SameScript DEF IsAll
<1>5. ProxyKnows'  BY <1>1, <1>2, <1>3, <1>4 DEF ProxyKnows, ProxyKnowsNext
<1>6. Holds(LastOf(chat'), down', got' \div 2) => Holds(LastOf(chat), down, got \div 2)'
  <2>1. Deltas(down, got \div 2)' = Deltas(down', got' \div 2)  BY DEF Deltas, DeltaSet
  <2>2. QED  BY <2>1, SameScript DEF Holds, LastOf, IsError
<1>7. PageKnows'
  BY <1>6, SameScript DEF PageKnows, PageKnowsNext, LastOf, IsError
<1>8. QED  BY <1>5, <1>7 DEF ChatInv

LEMMA ScriptIs ==
  ASSUME AgentAssumption, ChatInv
  PROVE  script \in Seq(AgentLine) /\ Len(script) \in Nat
<1>1. << >> \in Seq(AgentLine)  OBVIOUS
<1>2. script \in Seq(AgentLine)  BY <1>1 DEF AgentAssumption, ChatInv, ChatTypes
<1>3. QED  BY <1>2, LenProperties

\* A stream that goes on is told to its end or to an error.
LEMMA ClosesStep ==
  ASSUME AgentAssumption, ChatInv, NEW event \in EventT, Closes(event),
         breaks' \in 0 .. MaxBreaks, IsAll(Append(down, event))
  PROVE  ChatInv'
<1>1. down \in Seq(EventT) /\ Len(down) \in Nat  BY LenProperties DEF ChatInv, ProxyKnows, Says
<1>2. down' = Append(down, event)  BY DEF Closes
<1>3. /\ down' \in Seq(EventT) /\ Len(down') = Len(down) + 1
      /\ \A i \in 1 .. Len(down) : down'[i] = down[i]
  BY <1>1, <1>2, OneEvent
<1>4. ChatTypes'
  <2>1. got \in 0 .. 2 * Len(down')  BY <1>1, <1>3 DEF ChatInv, ChatTypes
  <2>2. QED  BY <2>1 DEF ChatInv, ChatTypes, Closes, Left
<1>5. ProxyKnowsNext  BY <1>2 DEF ProxyKnowsNext, Closes, IsAll
<1>6. PageKnowsNext
  <2>1. got \div 2 \in Nat /\ got \div 2 <= Len(down)
    BY <1>1 DEF ChatInv, ChatTypes
  <2>2. \A j \in 1 .. got \div 2 : down[j] = down'[j]  BY <1>1, <1>3, <2>1
  <2>3. Holds(LastOf(chat), down, got \div 2) => Holds(LastOf(chat), down', got \div 2)
    BY <2>1, <2>2, HoldsMore
  <2>4. QED  BY <2>3 DEF ChatInv, PageKnows, PageKnowsNext, Closes
<1>7. script' = script  BY DEF Closes
<1>8. QED  BY <1>4, <1>5, <1>6, <1>7, InvNext

LEMMA EndsStep ==
  ASSUME AgentAssumption, ChatInv, ProxyEnds \/ ProxyBreaks
  PROVE  ChatInv'
<1>1. Event("done", "") \in EventT /\ Event("done", "").type = "done"  BY EventIs DEF Text
<1>2. Event("error", "proxy") \in EventT /\ Event("error", "proxy").type = "error"
  BY EventIs DEF Text
<1>3. script \in Seq(AgentLine) /\ Len(script) \in Nat  BY ScriptIs
<1>4. ASSUME route = "open" PROVE Tells(down, sent \div 2)
  BY <1>4 DEF ChatInv, ProxyKnows
<1>5. breaks \in 0 .. MaxBreaks /\ MaxBreaks \in Nat
  BY DEF ChatInv, ChatTypes, AgentAssumption
<1>6. CASE ProxyEnds
  <2>1. route = "open" /\ sent = 2 * Len(script) /\ Closes(Event("done", "")) /\ breaks' = breaks
    BY <1>6 DEF ProxyEnds, Closes
  <2>2. sent \div 2 = Len(script)
    <3>1. \A n \in Nat : (2 * n) \div 2 = n  OBVIOUS
    <3>2. QED  BY <1>3, <2>1, <3>1
  <2>3. ToldTo(sent \div 2) = Told  BY <1>3, <2>2, ToldAll
  <2>4. IsAll(Append(down, Event("done", "")))
    <3> DEFINE e == Event("done", "")
    <3>1. e \in EventT /\ e.type # "delta" /\ Tells(down, sent \div 2)  BY <1>1, <1>4, <2>1
    <3> HIDE DEF e
    <3>2. /\ Says(Append(down, e)) /\ Append(down, e) # << >>
          /\ Deltas(Append(down, e), Len(Append(down, e))) = Cardinality(ToldTo(sent \div 2))
      BY <3>1, TellOther
    <3>3. IsAll(Append(down, e))  BY <2>3, <3>2 DEF IsAll
    <3>4. QED  BY <3>3 DEF e
  <2>5. QED  BY <1>1, <1>5, <2>1, <2>4, ClosesStep
<1>7. CASE ProxyBreaks
  <2>1. route = "open" /\ Closes(Event("error", "proxy")) /\ breaks' = breaks + 1
        /\ breaks < MaxBreaks
    BY <1>7 DEF ProxyBreaks, Closes, Break
  <2>2. IsAll(Append(down, Event("error", "proxy")))
    <3> DEFINE e == Event("error", "proxy")
    <3>1. e \in EventT /\ e.type = "error" /\ e.type # "delta" /\ Tells(down, sent \div 2)
      BY <1>2, <1>4, <2>1
    <3> HIDE DEF e
    <3>2. IsAll(Append(down, e))  BY <3>1, TellOther
    <3>3. QED  BY <3>2 DEF e
  <2>3. breaks' \in 0 .. MaxBreaks  BY <1>5, <2>1
  <2>4. QED  BY <1>2, <2>1, <2>2, <2>3, ClosesStep
<1>8. QED  BY <1>6, <1>7

LEMMA ProxyStep ==
  ASSUME AgentAssumption, ChatInv, NEW n \in 1 .. MaxPiece, ProxyReads(n)
  PROVE  ChatInv'
<1> DEFINE halves == proxy.buffer \o Piece(sent, n)
           k == sent \div 2
           c == ((sent + n) \div 2) - (sent \div 2)
           p == [type |-> proxy.type, data |-> proxy.data, out |-> << >>, over |-> FALSE]
           xs == Lines(Ended(halves))
           parsed == ParseAll(p, xs)
<1>1. script \in Seq(AgentLine) /\ Len(script) \in Nat  BY ScriptIs
<1>2. sent \in Nat /\ n \in Nat \ {0} /\ sent + n <= 2 * Len(script) /\ proxy.buffer = Left(sent)
  BY <1>1 DEF ChatInv, ChatTypes, ProxyReads, AgentAssumption
<1>3. down \in Seq(EventT) /\ Len(down) \in Nat  BY LenProperties DEF ChatInv, ProxyKnows, Says
<1>4. /\ c \in Nat /\ Ended(halves) = [i \in 1 .. c |-> k + i] /\ Rest(halves) = Left(sent + n)
  BY <1>2, Halves
<1>5. k \in Nat /\ k + c = (sent + n) \div 2 /\ k + c <= Len(script)
  BY <1>1, <1>2
<1>6. Len(xs) = c /\ \A i \in 1 .. c : xs[i] = script[k + i]
  <2> DEFINE numbers == Ended(halves)
  <2> HIDE DEF c, k
  <2>1. DOMAIN numbers = 1 .. c /\ \A i \in 1 .. c : numbers[i] = k + i /\ numbers[i] # 0
    BY <1>4, <1>5
  <2> HIDE DEF numbers
  <2>2. Lines(numbers) = [i \in 1 .. c |-> script[k + i]]  BY <2>1 DEF Lines
  <2>3. Len(Lines(numbers)) = c /\ \A i \in 1 .. c : Lines(numbers)[i] = script[k + i]
    BY <1>4, <2>2
  <2>4. QED  BY <2>3 DEF numbers
<1>7. After(p, down, k)
  <2>1. Parsed(proxy.type, proxy.data, k) /\ Tells(down, k)
    BY DEF ChatInv, ProxyKnows, ProxyReads
  <2>2. p \in ParserT
    <3>1. << >> \in Seq(EventT) /\ FALSE \in BOOLEAN  OBVIOUS
    <3>2. proxy.type \in EventTypes \union {"none"} /\ proxy.data \in Seq(STRING)
      BY DEF ChatInv, ChatTypes
    <3>3. QED  BY <3>1, <3>2 DEF ParserT
  <2>3. p.type = proxy.type /\ p.data = proxy.data /\ p.out = << >> /\ p.over = FALSE
    OBVIOUS
  <2>4. down \o << >> = down  BY <1>3, ConcatEmptySeq
  <2> HIDE DEF p, k
  <2>5. QED  BY <2>1, <2>2, <2>3, <2>4 DEF After
<1>8. /\ sent' = sent + n
      /\ proxy' = [buffer |-> Rest(halves), type |-> parsed.type, data |-> parsed.data]
      /\ down' = down \o parsed.out
      /\ route' = IF parsed.over THEN "closed" ELSE "open"
      /\ UNCHANGED << script, got, buffer, chat, steps, streaming, gone, cleared, asked, breaks >>
  BY DEF ProxyReads, ParseAll
<1> HIDE DEF k, c, p, xs
<1>9. After(parsed, down, k + c)  BY <1>1, <1>3, <1>4, <1>5, <1>6, <1>7, ReadLoop
<1> HIDE DEF parsed, halves
<1>10. /\ parsed.type \in EventTypes \union {"none"} /\ parsed.data \in Seq(STRING)
       /\ parsed.out \in Seq(EventT) /\ parsed.over \in BOOLEAN
  BY <1>9 DEF After, ParserT
<1>11. /\ down' \in Seq(EventT) /\ Len(down') \in Nat /\ Len(down) <= Len(down')
       /\ \A i \in 1 .. Len(down) : down'[i] = down[i]
  BY <1>3, <1>8, <1>10, ConcatProperties, LenProperties
<1>12. /\ parsed.over => IsAll(down')
       /\ ~parsed.over => Parsed(parsed.type, parsed.data, k + c) /\ Tells(down', k + c)
  BY <1>8, <1>9 DEF After
<1>13. sent' \div 2 = k + c  BY <1>5, <1>8
<1>14. proxy'.buffer = Left(sent') /\ proxy'.type = parsed.type /\ proxy'.data = parsed.data
  BY <1>4, <1>8
<1>15. ChatTypes'
  <2>1. sent' \in 0 .. 2 * Len(script')  BY <1>1, <1>2, <1>8
  <2>2. got' \in 0 .. 2 * Len(down')  BY <1>3, <1>8, <1>11 DEF ChatInv, ChatTypes
  <2>3. route' \in {"none", "open", "closed"}  BY <1>8
  <2>4. buffer' = Left(got')  BY <1>8 DEF ChatInv, ChatTypes
  <2>5. /\ script' \in Scripts \union {<< >>} /\ chat' \in Seq(MessageT)
        /\ streaming' \in BOOLEAN /\ gone' \in BOOLEAN /\ cleared' \in BOOLEAN
        /\ asked' \in 0 .. MaxQuestions /\ breaks' \in 0 .. MaxBreaks
    BY <1>8 DEF ChatInv, ChatTypes
  <2>6. QED
    BY <1>10, <1>14, <2>1, <2>2, <2>3, <2>4, <2>5 DEF ChatTypes, Left
<1>16. ProxyKnowsNext
  <2>1. CASE parsed.over
    <3>1. route' = "closed" /\ IsAll(down')  BY <1>8, <1>12, <2>1
    <3>2. QED  BY <3>1 DEF ProxyKnowsNext, IsAll
  <2>2. CASE ~parsed.over
    <3>1. route' = "open" /\ Parsed(proxy'.type, proxy'.data, sent' \div 2)
          /\ Tells(down', sent' \div 2)
      BY <1>8, <1>12, <1>13, <1>14, <2>2
    <3>2. QED  BY <3>1 DEF ProxyKnowsNext, Tells
  <2>3. QED  BY <2>1, <2>2
<1>17. PageKnowsNext
  <2>1. got \div 2 \in Nat /\ got \div 2 <= Len(down)
    BY <1>3 DEF ChatInv, ChatTypes
  <2>2. \A j \in 1 .. got \div 2 : down[j] = down'[j]  BY <1>3, <1>11, <2>1
  <2>3. Holds(LastOf(chat), down, got \div 2) => Holds(LastOf(chat), down', got \div 2)
    BY <2>1, <2>2, HoldsMore
  <2>4. QED  BY <1>8, <2>3 DEF ChatInv, PageKnows, PageKnowsNext
<1>18. QED  BY <1>8, <1>15, <1>16, <1>17, InvNext

LEMMA ShowStep ==
  ASSUME AgentAssumption, ChatInv, NEW n \in 1 .. MaxPiece, PageReads(n)
  PROVE  ChatInv'
<1> DEFINE halves == buffer \o Piece(got, n)
           k == got \div 2
           c == ((got + n) \div 2) - (got \div 2)
           p == [chat |-> chat, steps |-> steps, gone |-> gone]
           xs == EventsIn(Ended(halves))
           page == ShowAll(p, xs)
<1>1. script \in Seq(AgentLine) /\ Len(script) \in Nat  BY ScriptIs
<1>2. down \in Seq(EventT) /\ Len(down) \in Nat /\ Says(down)
  BY LenProperties DEF ChatInv, ProxyKnows, Says
<1>3. got \in Nat /\ n \in Nat \ {0} /\ got + n <= 2 * Len(down) /\ buffer = Left(got)
  BY <1>2 DEF ChatInv, ChatTypes, PageReads, AgentAssumption
<1>4. /\ c \in Nat /\ Ended(halves) = [i \in 1 .. c |-> k + i] /\ Rest(halves) = Left(got + n)
  BY <1>3, Halves
<1>5. k \in Nat /\ k + c = (got + n) \div 2 /\ k + c <= Len(down)
  BY <1>2, <1>3
<1>6. Len(xs) = c /\ \A i \in 1 .. c : xs[i] = down[k + i]
  <2> DEFINE numbers == Ended(halves)
  <2> HIDE DEF c, k
  <2>1. DOMAIN numbers = 1 .. c /\ \A i \in 1 .. c : numbers[i] = k + i /\ numbers[i] # 0
    BY <1>4, <1>5
  <2> HIDE DEF numbers
  <2>2. EventsIn(numbers) = [i \in 1 .. c |-> down[k + i]]  BY <2>1 DEF EventsIn
  <2>3. Len(EventsIn(numbers)) = c /\ \A i \in 1 .. c : EventsIn(numbers)[i] = down[k + i]
    BY <1>4, <2>2
  <2>4. QED  BY <2>3 DEF numbers
<1>7. Shown(p, down, k)
  <2>1. streaming /\ ~gone /\ asked > 0  BY DEF ChatInv, PageKnows, PageReads
  <2>2. chat \in Seq(MessageT) /\ gone \in BOOLEAN  BY DEF ChatInv, ChatTypes
  <2>3. ~cleared => chat # << >> /\ Holds(LastOf(chat), down, k)
    BY <2>1 DEF ChatInv, PageKnows
  <2>4. p.chat = chat /\ p.steps = steps /\ p.gone = gone  OBVIOUS
  <2>5. p = [chat |-> p.chat, steps |-> p.steps, gone |-> p.gone]  BY <2>4
  <2> HIDE DEF p, k
  <2>6. QED  BY <2>1, <2>2, <2>3, <2>4, <2>5 DEF Shown
<1>8. /\ got' = got + n
      /\ buffer' = Rest(halves)
      /\ chat' = page.chat /\ gone' = page.gone
      /\ streaming' = ~page.gone
      /\ steps' = IF page.gone THEN << >> ELSE page.steps
      /\ UNCHANGED << script, sent, proxy, route, down, cleared, asked, breaks >>
      /\ streaming
  BY DEF PageReads, ShowAll
<1> HIDE DEF k, c, p, xs
<1>9. Shown(page, down, k + c)  BY <1>1, <1>2, <1>4, <1>5, <1>6, <1>7, ShowLoop
<1> HIDE DEF page, halves
<1>10. /\ page.chat \in Seq(MessageT) /\ page.gone \in BOOLEAN /\ (page.gone => cleared)
       /\ ~cleared => page.chat # << >> /\ Holds(LastOf(page.chat), down, k + c)
  BY <1>9 DEF Shown
<1>11. got' \div 2 = k + c  BY <1>5, <1>8
<1>12. ChatTypes'
  <2>1. got' \in 0 .. 2 * Len(down')  BY <1>2, <1>3, <1>8
  <2>2. buffer' = Left(got')  BY <1>4, <1>8
  <2>3. chat' \in Seq(MessageT) /\ gone' \in BOOLEAN  BY <1>8, <1>10
  <2>4. streaming' \in BOOLEAN  BY <1>8
  <2>5. /\ script' \in Scripts \union {<< >>}
        /\ sent' \in 0 .. 2 * Len(script') /\ proxy'.buffer = Left(sent')
        /\ proxy'.type \in EventTypes \union {"none"} /\ proxy'.data \in Seq(STRING)
        /\ route' \in {"none", "open", "closed"} /\ cleared' \in BOOLEAN
        /\ asked' \in 0 .. MaxQuestions /\ breaks' \in 0 .. MaxBreaks
    BY <1>8 DEF ChatInv, ChatTypes
  <2>6. QED  BY <2>1, <2>2, <2>3, <2>4, <2>5 DEF ChatTypes, Left
<1>13. ProxyKnowsNext
  BY <1>8 DEF ChatInv, ProxyKnows, ProxyKnowsNext
<1>14. PageKnowsNext
  <2>1. gone' => cleared' /\ ~streaming'  BY <1>8, <1>10
  <2>2. steps' # << >> => streaming'  BY <1>8
  <2>3. asked' > 0  BY <1>8 DEF ChatInv, PageKnows
  <2>4. ~cleared' => chat' # << >> /\ streaming' /\ Holds(LastOf(chat'), down', got' \div 2)
    BY <1>8, <1>10, <1>11
  <2>5. QED  BY <2>1, <2>2, <2>3, <2>4 DEF PageKnowsNext
<1>15. QED  BY <1>8, <1>12, <1>13, <1>14, InvNext

\* All events shown: an error, or the whole answer.
LEMMA AllShown ==
  ASSUME script \in Seq(AgentLine), NEW q, IsAll(q), NEW m \in MessageT, Holds(m, q, Len(q))
  PROVE  IsError(m) \/ m.content = Answer
<1>1. q \in Seq(EventT) /\ q # << >> /\ Len(q) \in Nat  BY LenProperties DEF IsAll, Says
<1>2. Len(q) \in 1 .. Len(q)  BY <1>1, EmptySeq
<1>3. CASE \E j \in 1 .. Len(q) : q[j].type = "error"  BY <1>3 DEF Holds
<1>4. CASE ~ \E j \in 1 .. Len(q) : q[j].type = "error"
  <2>1. q[Len(q)].type # "error"  BY <1>2, <1>4
  <2>2. Deltas(q, Len(q)) = Cardinality(Told)  BY <2>1 DEF IsAll
  <2>3. Len(m.content) = Cardinality(Told) /\ \A j \in 1 .. Cardinality(Told) : m.content[j] = Answer[j]
    BY <1>4, <2>2 DEF Holds
  <2>4. m.content \in Seq(Text)  BY DEF MessageT
  <2>5. m.content = [j \in 1 .. Cardinality(Told) |-> m.content[j]]
    BY <2>3, <2>4, LenProperties
  <2>6. Answer = [j \in 1 .. Cardinality(Told) |-> Answer[j]]  BY DEF Answer
  <2>7. QED  BY <2>3, <2>5, <2>6
<1>5. QED  BY <1>3, <1>4

LEMMA LastIs ==
  ASSUME chat \in Seq(MessageT), chat # << >>
  PROVE  LastOf(chat) \in MessageT
<1>1. Len(chat) \in Nat /\ Len(chat) # 0  BY LenProperties, EmptySeq
<1>2. Len(chat) \in 1 .. Len(chat)  BY <1>1
<1>3. QED  BY <1>2, ElementOfSeq DEF LastOf

LEMMA PageEndsStep ==
  ASSUME AgentAssumption, ChatInv, PageEnds
  PROVE  ChatInv'
<1>1. script \in Seq(AgentLine)  BY ScriptIs
<1>2. down \in Seq(EventT) /\ Len(down) \in Nat  BY LenProperties DEF ChatInv, ProxyKnows, Says
<1>3. /\ streaming /\ route = "closed" /\ got = 2 * Len(down)
      /\ streaming' = FALSE /\ steps' = << >>
      /\ UNCHANGED << script, sent, proxy, down, got, buffer, gone, cleared, asked, chat, route,
                      breaks >>
  BY DEF PageEnds, Finally
<1>4. ChatTypes'  BY <1>3 DEF ChatInv, ChatTypes, Left
<1>5. ProxyKnowsNext  BY <1>3 DEF ChatInv, ProxyKnows, ProxyKnowsNext
<1>6. PageKnowsNext
  <2>1. gone' => cleared' /\ ~streaming'  BY <1>3 DEF ChatInv, PageKnows
  <2>2. ASSUME asked > 0, ~cleared
        PROVE  chat # << >> /\ (IsError(LastOf(chat)) \/ LastOf(chat).content = Answer)
    <3>1. chat # << >> /\ Holds(LastOf(chat), down, got \div 2)
      BY <1>3, <2>2 DEF ChatInv, PageKnows
    <3>2. LastOf(chat) \in MessageT  BY <3>1, LastIs DEF ChatInv, ChatTypes
    <3>3. IsAll(down)  BY <1>3 DEF ChatInv, ProxyKnows
    <3>4. got \div 2 = Len(down)
      <4>1. \A n \in Nat : (2 * n) \div 2 = n  OBVIOUS
      <4>2. QED  BY <1>2, <1>3, <4>1
    <3>5. QED  BY <1>1, <3>1, <3>2, <3>3, <3>4, AllShown
  <2>3. QED  BY <1>3, <2>1, <2>2 DEF PageKnowsNext
<1>7. QED  BY <1>3, <1>4, <1>5, <1>6, InvNext

LEMMA PageBreaksStep ==
  ASSUME AgentAssumption, ChatInv, PageBreaks
  PROVE  ChatInv'
<1> DEFINE m == Failed("connection")
<1>1. /\ streaming /\ breaks < MaxBreaks /\ breaks' = breaks + 1
      /\ chat' = Replaced(chat, m) /\ route' = "closed"
      /\ streaming' = FALSE /\ steps' = << >>
      /\ UNCHANGED << script, sent, proxy, down, got, buffer, gone, cleared, asked >>
  BY DEF PageBreaks, Finally, Break
<1>2. m \in MessageT /\ IsError(m)
  <2>1. "error" \in Text /\ "connection" \in Text  BY DEF Text
  <2>2. << "error", "connection" >> \in Seq(Text)  BY <2>1
  <2>3. QED  BY <2>2 DEF Failed, MessageT, IsError
<1> HIDE DEF m
<1>3. chat \in Seq(MessageT)  BY DEF ChatInv, ChatTypes
<1>4. /\ chat' \in Seq(MessageT)
      /\ chat # << >> => chat' # << >> /\ LastOf(chat') = m
  BY <1>1, <1>2, <1>3, LastSet DEF Replaced
<1>5. ChatTypes'
  <2>1. breaks' \in 0 .. MaxBreaks  BY <1>1 DEF ChatInv, ChatTypes, AgentAssumption
  <2>2. QED  BY <1>1, <1>4, <2>1 DEF ChatInv, ChatTypes, Left
<1>6. ProxyKnowsNext  BY <1>1 DEF ChatInv, ProxyKnows, ProxyKnowsNext
<1>7. PageKnowsNext  BY <1>1, <1>2, <1>4 DEF ChatInv, PageKnows, PageKnowsNext
<1>8. QED  BY <1>1, <1>5, <1>6, <1>7, InvNext

LEMMA ClearStep ==
  ASSUME AgentAssumption, ChatInv, Clear
  PROVE  ChatInv'
<1>1. /\ ~gone /\ chat' = << >> /\ cleared' = TRUE
      /\ UNCHANGED << script, sent, proxy, route, down, got, buffer, steps, streaming, gone,
                      asked, breaks >>
  BY DEF Clear
<1>2. ChatTypes'  BY <1>1 DEF ChatInv, ChatTypes, Left
<1>3. ProxyKnowsNext  BY <1>1 DEF ChatInv, ProxyKnows, ProxyKnowsNext
<1>4. PageKnowsNext  BY <1>1 DEF ChatInv, PageKnows, PageKnowsNext
<1>5. QED  BY <1>1, <1>2, <1>3, <1>4, InvNext

\* Before the first line nothing is gathered or told.
LEMMA NothingYet ==
  script \in Seq(AgentLine) =>
    Parsed("none", << >>, 0) /\ Tells(<< >>, 0) /\ Says(<< >>)
<1> SUFFICES ASSUME script \in Seq(AgentLine)
             PROVE  Parsed("none", << >>, 0) /\ Tells(<< >>, 0) /\ Says(<< >>)
  OBVIOUS
<1>1. TypeOf(0) = "none"  BY DEF TypeOf
<1>2. Gathered(<< >>, 0)
  <2>1. 0 \in 0 .. 0 /\ << >> \in Seq(STRING) /\ Len(<< >>) = 0 - 0 /\ 1 .. 0 - 0 = {}  OBVIOUS
  <2>2. QED  BY <2>1 DEF Gathered
<1>3. Parsed("none", << >>, 0)  BY <1>1, <1>2 DEF Parsed
<1>4. Says(<< >>)
  <2>1. << >> \in Seq(EventT) /\ 1 .. Len(<< >>) = {}  OBVIOUS
  <2>2. QED  BY <2>1 DEF Says
<1>5. Cardinality(ToldTo(0)) = 0
  <2>1. \A j \in Told : ~(j <= 0)  BY MarksFinite
  <2>2. ToldTo(0) = {}  BY <2>1, ToldToHas
  <2>3. QED  BY <2>2, FS_EmptySet
<1>6. Deltas(<< >>, Len(<< >>)) = 0  BY NoDeltas
<1>7. Tells(<< >>, 0)  BY <1>4, <1>5, <1>6 DEF Tells
<1>8. QED  BY <1>3, <1>4, <1>7

LEMMA NothingYetNext ==
  (script \in Seq(AgentLine))' =>
    (Parsed("none", << >>, 0) /\ Tells(<< >>, 0) /\ Says(<< >>))'
BY NothingYet, PTL

LEMMA AsksStep ==
  ASSUME AgentAssumption, ChatInv, NEW s \in Scripts, Asks(s)
  PROVE  ChatInv'
<1> DEFINE u == [role |-> "user", content |-> << >>]
           a == [role |-> "assistant", content |-> << >>]
<1>1. /\ ~gone /\ asked < MaxQuestions /\ asked' = asked + 1
      /\ chat' = chat \o << u, a >>
      /\ steps' = << >> /\ streaming' = TRUE /\ cleared' = FALSE
      /\ script' = s /\ sent' = 0 /\ proxy' = Reset /\ route' = "open"
      /\ down' = << >> /\ got' = 0 /\ buffer' = << >>
      /\ UNCHANGED << gone, breaks >>
  BY DEF Asks
<1>2. script' \in Seq(AgentLine) /\ Len(script') \in Nat
  BY <1>1, LenProperties DEF AgentAssumption
<1>3. /\ chat' \in Seq(MessageT) /\ chat' # << >> /\ LastOf(chat') = a
  <2>1. u \in MessageT /\ a \in MessageT
    <3>1. << >> \in Seq(Text)  OBVIOUS
    <3>2. QED  BY <3>1 DEF MessageT
  <2> HIDE DEF u, a
  <2>2. << u, a >> \in Seq(MessageT) /\ Len(<< u, a >>) = 2 /\ << u, a >>[2] = a  BY <2>1
  <2>3. chat \in Seq(MessageT) /\ Len(chat) \in Nat  BY LenProperties DEF ChatInv, ChatTypes
  <2>4. /\ chat \o << u, a >> \in Seq(MessageT) /\ Len(chat \o << u, a >>) = Len(chat) + 2
        /\ (chat \o << u, a >>)[Len(chat) + 2] = a
    BY <2>2, <2>3, ConcatProperties
  <2>5. chat \o << u, a >> # << >>  BY <2>3, <2>4, EmptySeq
  <2>6. QED  BY <1>1, <2>4, <2>5 DEF LastOf
<1>4. ChatTypes'
  <2>1. 0 % 2 = 0 /\ << >> \in Seq(STRING) /\ Len(<< >>) = 0  OBVIOUS
  <2>2. proxy'.buffer = << >> /\ proxy'.type = "none" /\ proxy'.data = << >>  BY <1>1 DEF Reset
  <2>3. asked' \in 0 .. MaxQuestions  BY <1>1 DEF ChatInv, ChatTypes, AgentAssumption
  <2>4. sent' \in 0 .. 2 * Len(script') /\ got' \in 0 .. 2 * Len(down')
    BY <1>1, <1>2, <2>1
  <2>5. gone' \in BOOLEAN /\ breaks' \in 0 .. MaxBreaks  BY <1>1 DEF ChatInv, ChatTypes
  <2>6. proxy'.buffer = Left(sent)' /\ buffer' = Left(got)'  BY <1>1, <2>1, <2>2 DEF Left
  <2>7. QED  BY <1>1, <1>3, <2>1, <2>2, <2>3, <2>4, <2>5, <2>6 DEF ChatTypes
<1>5. (Parsed("none", << >>, 0) /\ Tells(<< >>, 0) /\ Says(<< >>))'  BY <1>2, NothingYetNext
<1>6. ProxyKnows'
  <2>1. proxy'.type = "none" /\ proxy'.data = << >>  BY <1>1 DEF Reset
  <2>2. 0 \div 2 = 0  OBVIOUS
  <2>3. Says(down)'  BY <1>1, <1>5 DEF Says, Deltas, DeltaSet
  <2>4. Tells(down, sent \div 2)'
    BY <1>1, <1>5, <2>2, <2>3 DEF Tells, ToldTo, Deltas, DeltaSet
  <2>5. Parsed(proxy.type, proxy.data, sent \div 2)'
    BY <1>1, <1>5, <2>1, <2>2 DEF Parsed, Gathered
  <2>6. QED  BY <1>1, <2>3, <2>4, <2>5 DEF ProxyKnows
<1>7. PageKnows'
  <2>1. a.content = << >> /\ Len(<< >>) = 0  OBVIOUS
  <2>2. Deltas(<< >>, 0) = 0 /\ 0 \div 2 = 0  BY NoDeltas
  <2>3. Deltas(down, got \div 2)' = 0  BY <1>1, <2>2 DEF Deltas, DeltaSet
  <2> HIDE DEF a
  <2>4. Holds(LastOf(chat), down, got \div 2)'
    BY <1>1, <1>3, <2>1, <2>2, <2>3 DEF Holds, LastOf
  <2>5. asked' > 0  BY <1>1 DEF ChatInv, ChatTypes, AgentAssumption
  <2>6. QED  BY <1>1, <1>3, <2>4, <2>5 DEF PageKnows, LastOf
<1>8. QED  BY <1>4, <1>6, <1>7 DEF ChatInv

-----------------------------------------------------------------------------

LEMMA InitChat == ASSUME AgentAssumption, AgentInit PROVE ChatInv
<1>1. /\ script = << >> /\ sent = 0 /\ proxy = Reset
      /\ route = "none" /\ down = << >> /\ got = 0 /\ buffer = << >>
      /\ chat = << >> /\ steps = << >> /\ streaming = FALSE /\ gone = FALSE
      /\ cleared = FALSE /\ asked = 0 /\ breaks = 0
  BY DEF AgentInit
<1>2. ChatTypes
  <2>1. 0 % 2 = 0 /\ << >> \in Seq(STRING) /\ Len(<< >>) = 0 /\ << >> \in Seq(MessageT)
    OBVIOUS
  <2>2. proxy.buffer = << >> /\ proxy.type = "none" /\ proxy.data = << >>  BY <1>1 DEF Reset
  <2>3. proxy.buffer = Left(sent) /\ buffer = Left(got)  BY <1>1, <2>1, <2>2 DEF Left
  <2>4. streaming \in BOOLEAN /\ gone \in BOOLEAN /\ cleared \in BOOLEAN  BY <1>1
  <2>5. sent \in 0 .. 2 * Len(script) /\ got \in 0 .. 2 * Len(down)  BY <1>1, <2>1
  <2>6. asked \in 0 .. MaxQuestions /\ breaks \in 0 .. MaxBreaks  BY <1>1 DEF AgentAssumption
  <2>7. QED  BY <1>1, <2>1, <2>2, <2>3, <2>4, <2>5, <2>6 DEF ChatTypes
<1>3. script \in Seq(AgentLine)  BY <1>1
<1>4. ProxyKnows  BY <1>1, <1>3, NothingYet DEF ProxyKnows
<1>5. PageKnows  BY <1>1 DEF PageKnows
<1>6. QED  BY <1>2, <1>4, <1>5 DEF ChatInv

LEMMA ChatStep ==
  ASSUME AgentAssumption, ChatInv, [AgentNext]_agentVars
  PROVE  ChatInv'
<1>1. CASE UNCHANGED agentVars
  <2>1. ChatTypes'  BY <1>1 DEF agentVars, ChatInv, ChatTypes, Left
  <2>2. ProxyKnowsNext  BY <1>1 DEF agentVars, ChatInv, ProxyKnows, ProxyKnowsNext
  <2>3. PageKnowsNext  BY <1>1 DEF agentVars, ChatInv, PageKnows, PageKnowsNext
  <2>4. script' = script  BY <1>1 DEF agentVars
  <2>5. QED  BY <2>1, <2>2, <2>3, <2>4, InvNext
<1>2. CASE AgentNext
  BY <1>2, ProxyStep, EndsStep, ShowStep, PageEndsStep, PageBreaksStep, ClearStep, AsksStep
     DEF AgentNext, Flows, Shows
<1>3. QED  BY <1>1, <1>2

LEMMA ChatTyped == ASSUME AgentAssumption, ChatInv PROVE AgentTypeOK
<1>1. \A n : Len(Left(n)) <= 1  BY DEF Left
<1>2. EventTypes \union {"none"} = SKIP_EVENTS \union {"none", "delta", "error"}
  BY DEF EventTypes
<1>3. \A i \in DOMAIN chat : chat[i].role \in {"user", "assistant"}
  <2> SUFFICES ASSUME NEW i \in DOMAIN chat PROVE chat[i].role \in {"user", "assistant"}
    OBVIOUS
  <2>1. chat[i] \in MessageT  BY LenProperties DEF ChatInv, ChatTypes
  <2>2. QED  BY <2>1 DEF MessageT
<1>4. sent \in 0 .. 2 * Len(script) /\ got \in 0 .. 2 * Len(down)  BY DEF ChatInv, ChatTypes
<1>5. Len(proxy.buffer) <= 1 /\ Len(buffer) <= 1  BY <1>1 DEF ChatInv, ChatTypes
<1>6. proxy.type \in SKIP_EVENTS \union {"none", "delta", "error"}
  BY <1>2 DEF ChatInv, ChatTypes
<1>7. QED
  BY <1>3, <1>4, <1>5, <1>6 DEF ChatInv, ChatTypes, PageKnows, AgentTypeOK

\* The first events are a part of the answer.
LEMMA WholeAnswer == ASSUME AgentAssumption, ChatInv PROVE AnswerIsWhole
<1> SUFFICES ASSUME asked > 0, ~cleared
             PROVE  \/ IsError(LastOf(chat))
                    \/ /\ IsPrefix(LastOf(chat).content, Answer)
                       /\ streaming \/ LastOf(chat).content = Answer
  BY DEF AnswerIsWhole, LastOf
<1> DEFINE m == LastOf(chat)
           n == Cardinality(Told)
<1>1. script \in Seq(AgentLine) /\ n \in Nat  BY ScriptIs, MarksFinite
<1>2. chat # << >> /\ m \in MessageT
  <2>1. chat # << >>  BY DEF ChatInv, PageKnows
  <2>2. QED  BY <2>1, LastIs DEF ChatInv, ChatTypes
<1>3. m.content \in Seq(Text) /\ Len(m.content) \in Nat  BY <1>2, LenProperties DEF MessageT
<1>4. Len(Answer) = n  BY <1>1 DEF Answer
<1> HIDE DEF m
\* A message that holds the first texts of the answer holds a part of it.
<1>5. ASSUME Len(m.content) <= n, \A j \in 1 .. Len(m.content) : m.content[j] = Answer[j]
      PROVE  IsPrefix(m.content, Answer)
  <2>1. SubSeq(m.content, 1, Len(m.content)) = [j \in 1 .. Len(m.content) |-> m.content[j]]
    BY <1>3
  <2>2. SubSeq(Answer, 1, Len(m.content)) = [j \in 1 .. Len(m.content) |-> Answer[j]]
    BY <1>3, <1>4
  <2>3. QED  BY <1>4, <1>5, <2>1, <2>2 DEF IsPrefix
<1>6. CASE streaming
  <2>1. Holds(m, down, got \div 2)  BY <1>6 DEF ChatInv, PageKnows, m
  <2>2. down \in Seq(EventT) /\ Len(down) \in Nat  BY LenProperties DEF ChatInv, ProxyKnows, Says
  <2>3. got \div 2 \in Nat /\ got \div 2 <= Len(down)  BY <2>2 DEF ChatInv, ChatTypes
  <2>4. Deltas(down, got \div 2) <= n  
    BY <1>1, <2>2, <2>3, MostTold DEF ChatInv, ProxyKnows, n
  <2>5. QED  BY <1>5, <1>6, <2>1, <2>4 DEF Holds, m
<1>7. CASE ~streaming
  <2>1. IsError(m) \/ m.content = Answer  BY <1>7 DEF ChatInv, PageKnows, m
  <2>2. m.content = Answer => IsPrefix(m.content, Answer)  BY <1>1, <1>4, <1>5
  <2>3. QED  BY <2>1, <2>2 DEF m
<1>8. QED  BY <1>6, <1>7

\* The type invariant of the chat, for any answers of the agent and any pieces: neither
\* parser keeps more than the start of a line (agent-proxy.ts:169-176,
\* AgentChat.tsx:66-82), and a page that has thrown was cleared under an answer.
THEOREM ChatTypeCorrect == ASSUME AgentAssumption PROVE AgentSpec => []AgentTypeOK
<1>1. AgentInit => ChatInv  BY InitChat
<1>2. ChatInv /\ [AgentNext]_agentVars => ChatInv'  BY ChatStep
<1>3. ChatInv => AgentTypeOK  BY ChatTyped
<1>4. QED  BY <1>1, <1>2, <1>3, PTL DEF AgentSpec

\* However the agent's stream and the route's are cut into pieces and whatever breaks,
\* the page shows a part of the answer while it streams, and then all of it, or an
\* error (agent-proxy.ts:101-176, AgentChat.tsx:79-205).
THEOREM TheAnswerIsWhole == ASSUME AgentAssumption PROVE AgentSpec => []AnswerIsWhole
<1>1. AgentInit => ChatInv  BY InitChat
<1>2. ChatInv /\ [AgentNext]_agentVars => ChatInv'  BY ChatStep
<1>3. ChatInv => AnswerIsWhole  BY WholeAnswer
<1>4. QED  BY <1>1, <1>2, <1>3, PTL DEF AgentSpec

-----------------------------------------------------------------------------
(* THE LATENCY BARS, for any events, any times their work takes, and any   *)
(* order of answers, messages, paints and losses of the socket.            *)

USE DEF LabAssumption

-----------------------------------------------------------------------------
(* Types.                                                                  *)

Vm == [sdk : Nat, flush : Nat, over : Nat, transport : Nat, partition : Nat]
Word == [ms : Nat, word : {"none", "real", "floor"}]

Bar == [id : Events, source : {"ws", "client"}, network : Nat, vm : Vm,
        it : Word, book : Word, render : Nat]

Plain == [type : {"optimistic", "verified"}, id : Events]
Visible == [type : {"it_visible"}, id : Events, table : {"it", "book"}, poll : Word]
Messages == Plain \union Visible

Job == [kind : {"none", "sim", "click", "fire"},
        stage : {"none", "posted", "acked", "refused", "painting", "done"},
        raw : {"off", "probing", "told"}, book : {"off", "probing", "told"}]

-----------------------------------------------------------------------------
(* The clocks.                                                             *)

LEMMA MaxOfTwo ==
  ASSUME NEW a \in Int, NEW b \in Int
  PROVE  Max({a, b}) = IF a >= b THEN a ELSE b
<1> DEFINE m == IF a >= b THEN a ELSE b
<1>1. m \in {a, b} /\ \A y \in {a, b} : m >= y  OBVIOUS
<1>2. \A x \in {a, b} : (\A y \in {a, b} : x >= y) => x = m  OBVIOUS
<1>3. QED  BY <1>1, <1>2 DEF Max

\* What each clock shows of the work of an event.
LEMMA Clocks ==
  ASSUME LabAssumption, NEW e \in Events
  PROVE  LET p == Profile[e]
         IN  /\ FlushOf(p) \in Nat /\ HandlerOf(p) = p.sdk + FlushOf(p) + p.rest
             /\ VerifiedVm(p) = [sdk |-> p.sdk, flush |-> FlushOf(p), over |-> p.rest,
                                 transport |-> p.tunnel, partition |-> p.partition]
             /\ ClickBar(e, p).network = p.hop + p.parse + p.tunnel
             /\ FireBar(e, p).network = p.hop + p.paint + p.parse + p.tunnel
             /\ ClickToScreen(p) = p.hop + p.parse + p.tunnel + HandlerOf(p) + p.it + p.paint
             /\ ClickToScreen(p) \in Nat
             /\ AtLeast0(PostTotal(p) - ServerTotal(p)) = p.hop /\ p.hop \in Nat
<1> DEFINE p == Profile[e]
<1>1. /\ p.hop \in Nat /\ p.parse \in Nat /\ p.tunnel \in Nat /\ p.sdk \in Nat /\ p.raw \in Nat
      /\ p.bookFlush \in Nat /\ p.rest \in Nat /\ p.it \in Nat /\ p.paint \in Nat
  OBVIOUS
<1> HIDE DEF p, LabAssumption
<1>2. FlushOf(p) \in Nat
  <2>1. FlushOf(p) = IF p.raw >= p.bookFlush THEN p.raw ELSE p.bookFlush
    BY <1>1, MaxOfTwo DEF FlushOf
  <2>2. QED  BY <1>1, <2>1
<1>3. \A n \in Nat : AtLeast0(n) = n
  <2>1. \A n \in Nat : AtLeast0(n) = IF 0 >= n THEN 0 ELSE n  BY MaxOfTwo DEF AtLeast0
  <2>2. QED  BY <2>1
<1>4. HandlerOf(p) = p.sdk + FlushOf(p) + p.rest /\ HandlerOf(p) \in Nat
  BY <1>1, <1>2 DEF HandlerOf
<1>5. /\ ServerTotal(p) = p.parse + p.tunnel + HandlerOf(p)
      /\ PostTotal(p) = p.hop + ServerTotal(p)
      /\ ClickToScreen(p) = PostTotal(p) + p.it + p.paint
      /\ ServerTotal(p) \in Nat /\ PostTotal(p) \in Nat /\ ClickToScreen(p) \in Nat
  BY <1>1, <1>4 DEF ServerTotal, PostTotal, ClickToScreen
<1>6. Overhead(p) = p.rest
  <2>1. HandlerOf(p) - p.sdk - FlushOf(p) = p.rest  BY <1>1, <1>2, <1>4
  <2>2. QED  BY <1>1, <1>3, <2>1 DEF Overhead
<1>7. AtLeast0(ServerTotal(p) - p.parse - HandlerOf(p)) = p.tunnel
  <2>1. ServerTotal(p) - p.parse - HandlerOf(p) = p.tunnel  BY <1>1, <1>4, <1>5
  <2>2. QED  BY <1>1, <1>3, <2>1
<1>8. AtLeast0(PostTotal(p) - HandlerOf(p)) = p.hop + p.parse + p.tunnel
  <2>1. /\ PostTotal(p) - HandlerOf(p) = p.hop + p.parse + p.tunnel
        /\ p.hop + p.parse + p.tunnel \in Nat
    BY <1>1, <1>4, <1>5
  <2>2. QED  BY <1>3, <2>1
<1>9. /\ AtLeast0(ClickToScreen(p) - (ServerTotal(p) + p.it)) = p.hop + p.paint
      /\ AtLeast0(ServerTotal(p) - HandlerOf(p)) = p.parse + p.tunnel
  <2>1. /\ ClickToScreen(p) - (ServerTotal(p) + p.it) = p.hop + p.paint
        /\ ServerTotal(p) - HandlerOf(p) = p.parse + p.tunnel
        /\ p.hop + p.paint \in Nat /\ p.parse + p.tunnel \in Nat
    BY <1>1, <1>4, <1>5
  <2>2. QED  BY <1>3, <2>1
<1>10. VerifiedVm(p) = [sdk |-> p.sdk, flush |-> FlushOf(p), over |-> p.rest,
                        transport |-> p.tunnel, partition |-> p.partition]
  BY <1>6, <1>7 DEF VerifiedVm
<1>11. ClickBar(e, p).network = p.hop + p.parse + p.tunnel  BY <1>8 DEF ClickBar
<1>12. FireBar(e, p).network = p.hop + p.paint + p.parse + p.tunnel
  BY <1>1, <1>9 DEF FireBar
<1>13. AtLeast0(PostTotal(p) - ServerTotal(p)) = p.hop
  <2>1. PostTotal(p) - ServerTotal(p) = p.hop  BY <1>1, <1>5
  <2>2. QED  BY <1>1, <1>3, <2>1
<1>14. ClickToScreen(p) = p.hop + p.parse + p.tunnel + HandlerOf(p) + p.it + p.paint
  BY <1>1, <1>4, <1>5
<1>15. QED  BY <1>1, <1>2, <1>4, <1>5, <1>10, <1>11, <1>12, <1>13, <1>14 DEF p

-----------------------------------------------------------------------------
(* The invariant.                                                          *)

\* The verified message of an event is on its way, or still to be sent.
IsOf(m, type, e) == m.type = type /\ m.id = e
Unverified(e) ==
  jobs[e].raw = "off" \/ \E i \in DOMAIN wire : IsOf(wire[i], "verified", e)

\* A job before its answer has started no probe; one that measures for itself never does.
JobOk(j) ==
  /\ j.kind = "none" <=> j.stage = "none"
  /\ j.stage \in {"none", "posted"} \/ j.kind = "fire" => j.raw = "off"
  /\ j.raw = "off" <=> j.book = "off"

\* A message speaks of a job that is told of, and the word on its row is true.
MessageOk(m) ==
  /\ jobs[m.id].kind \in {"sim", "click"}
  /\ m.type # "optimistic" => jobs[m.id].raw # "off"
  /\ m.type = "it_visible" /\ m.table = "it" /\ m.poll.word # "floor" =>
       m.poll = [ms |-> Profile[m.id].it, word |-> "real"]
  /\ m.type = "optimistic" /\ m.id \notin missed => Unverified(m.id)

\* The messages of an event come in the order optimistic, verified, it_visible.
InOrder(q) ==
  \A i, j \in DOMAIN q : i < j /\ q[i].id = q[j].id =>
    /\ ~(q[i].type = "verified" /\ q[j].type = "optimistic")
    /\ ~(q[i].type = "it_visible" /\ q[j].type = "verified")

\* The times of the VM are in the bar.
Filled(b) ==
  LET p == Profile[b.id]
  IN  /\ b.vm.sdk = p.sdk /\ b.vm.flush = FlushOf(p) /\ b.vm.over = p.rest
      /\ b.source = "ws" => b.vm.transport = p.tunnel

NetworkOf(b) ==
  LET p == Profile[b.id]
  IN  IF b.source = "ws" THEN p.parse
      ELSE p.hop + p.parse + p.tunnel + (IF jobs[b.id].kind = "fire" THEN p.paint ELSE 0)

\* A bar has the network time of whoever measured it; it has the times of the VM,
\* unless it is of the socket and the verified message is still to come, or lost.
BarOk(b) ==
  /\ jobs[b.id].kind # "none" /\ (jobs[b.id].kind = "fire" => b.source = "client")
  /\ b.network = NetworkOf(b)
  /\ b.it = NoWord \/ b.it.word = "floor" \/ b.it = [ms |-> Profile[b.id].it, word |-> "real"]
  /\ \/ b.id \in missed \/ Filled(b)
     \/ b.it = NoWord /\ b.source = "ws" /\ Unverified(b.id)

OpenSims == {e \in Events : jobs[e].kind = "sim" /\ Open(e)}

JobsInv ==
  /\ jobs \in [Events -> Job] /\ \A e \in Events : JobOk(jobs[e])
  /\ missed \subseteq Events /\ cuts \in 0 .. MaxCuts

GoodMessages == {m \in Messages : MessageOk(m)}
GoodBars == {b \in Bar : BarOk(b)}

WireInv == wire \in Seq(GoodMessages) /\ InOrder(wire)
BarsInv == bars \in Seq(GoodBars) /\ Len(bars) <= MAX_LATENCY_BARS

CountInv ==
  /\ inFlight = Cardinality(OpenSims) /\ inFlight <= MAX_IN_FLIGHT
  /\ sim \in [count : Nat, errors : Nat, ingress : Seq(Nat)]
  /\ Len(sim.ingress) <= INGRESS_SAMPLES
  /\ served \in Seq(Nat) /\ Len(served) <= SERVED_SAMPLES

LabInv == JobsInv /\ WireInv /\ BarsInv /\ CountInv

LEMMA InitLab == ASSUME LabAssumption, LabInit PROVE LabInv
<1>1. JobsInv  BY DEF LabInit, JobsInv, Quiet, Job, JobOk
<1>2. WireInv  BY DEF LabInit, WireInv, InOrder
<1>3. BarsInv  BY DEF LabInit, BarsInv
<1>4. CountInv
  <2>1. OpenSims = {}  BY DEF LabInit, OpenSims, Quiet
  <2>2. Cardinality(OpenSims) = 0  BY <2>1, FS_EmptySet
  <2>3. sim \in [count : Nat, errors : Nat, ingress : Seq(Nat)] /\ served \in Seq(Nat)
    BY DEF LabInit
  <2>4. Len(sim.ingress) = 0 /\ Len(served) = 0 /\ inFlight = 0  BY DEF LabInit
  <2>5. QED  BY <2>2, <2>3, <2>4 DEF CountInv
<1>5. QED  BY <1>1, <1>2, <1>3, <1>4 DEF LabInv

-----------------------------------------------------------------------------
(* The reducers.                                                           *)

LEMMA LastOfThem ==
  ASSUME NEW S, NEW q \in Seq(S), NEW x \in S, NEW n \in Nat \ {0}
  PROVE  LastN(Append(q, x), n) \in Seq(S) /\ Len(LastN(Append(q, x), n)) <= n
<1> DEFINE s == Append(q, x)
           m == IF Len(s) > n THEN Len(s) - n + 1 ELSE 1
<1>1. s \in Seq(S) /\ Len(s) = Len(q) + 1 /\ Len(q) \in Nat  OBVIOUS
<1>2. m \in 1 .. Len(s) /\ m \in Int /\ Len(s) \in Int /\ Len(s) - m + 1 <= n  BY <1>1
<1> HIDE DEF s, m
<1>3. \A i \in m .. Len(s) : s[i] \in S  BY <1>1, <1>2, ElementOfSeq
<1>4. SubSeq(s, m, Len(s)) \in Seq(S) /\ Len(SubSeq(s, m, Len(s))) = Len(s) - m + 1
  BY <1>2, <1>3, SubSeqProperties
<1>5. LastN(Append(q, x), n) = SubSeq(s, m, Len(s))  BY DEF LastN, s, m
<1>6. QED  BY <1>2, <1>4, <1>5

\* A sequence whose elements are known, changed in place or not.
LEMMA InPlace ==
  ASSUME NEW S, NEW q \in Seq(S), NEW T, NEW r, DOMAIN r = DOMAIN q,
         r = [i \in DOMAIN q |-> r[i]], \A i \in DOMAIN q : r[i] \in T
  PROVE  r \in Seq(T) /\ Len(r) = Len(q)
<1>1. DOMAIN q = 1 .. Len(q) /\ Len(q) \in Nat  BY LenProperties
<1>2. QED  BY <1>1

LEMMA Wider ==
  ASSUME NEW S, NEW q \in Seq(S), NEW T, \A i \in DOMAIN q : q[i] \in T
  PROVE  q \in Seq(T)
BY LenProperties

LEMMA OfMore ==
  ASSUME NEW S, NEW q \in Seq(S), NEW T, S \subseteq T
  PROVE  q \in Seq(T)
<1> HIDE DEF LabAssumption
<1>1. \A i \in DOMAIN q : q[i] \in T  BY LenProperties, ElementOfSeq
<1>2. QED  BY <1>1, Wider

\* A bar is added to good ones.
LEMMA Added ==
  ASSUME LabAssumption, NEW S, S \subseteq Bar, NEW q \in Seq(S), Len(q) <= MAX_LATENCY_BARS,
         NEW b \in S
  PROVE  AddLatencyBar(q, b) \in Seq(S) /\ Len(AddLatencyBar(q, b)) <= MAX_LATENCY_BARS
<1>1. CASE BarsOf(q, b.id) = {}
  <2>1. AddLatencyBar(q, b) = LastN(Append(q, b), MAX_LATENCY_BARS)
    BY <1>1 DEF AddLatencyBar
  <2>2. MAX_LATENCY_BARS \in Nat \ {0}  OBVIOUS
  <2>3. /\ LastN(Append(q, b), MAX_LATENCY_BARS) \in Seq(S)
        /\ Len(LastN(Append(q, b), MAX_LATENCY_BARS)) <= MAX_LATENCY_BARS
    BY <2>2, LastOfThem
  <2>4. QED  BY <2>1, <2>3
<1>2. CASE BarsOf(q, b.id) # {}
  <2> DEFINE r == [i \in DOMAIN q |->
                     IF q[i].id = b.id /\ b.source = "client" /\ q[i].source # "client"
                       THEN b ELSE q[i]]
  <2>1. AddLatencyBar(q, b) = r  BY <1>2 DEF AddLatencyBar
  <2>2. \A i \in DOMAIN q : q[i] \in S  BY LenProperties
  <2>3. DOMAIN r = DOMAIN q /\ r = [i \in DOMAIN q |-> r[i]] /\ \A i \in DOMAIN q : r[i] \in S
    BY <2>2
  <2> HIDE DEF r
  <2>4. r \in Seq(S) /\ Len(r) = Len(q)  BY <2>3, InPlace
  <2>5. QED  BY <2>1, <2>4
<1>3. QED  BY <1>1, <1>2

-----------------------------------------------------------------------------
(* What a step leaves as it was.                                           *)

KindsStay ==
  \A e \in Events : /\ jobs[e].kind # "none" => jobs'[e].kind = jobs[e].kind
                    /\ jobs[e].raw # "off" => jobs'[e].raw # "off"

\* A good bar stays good, unless what it waits for will not come.
LEMMA BarStays ==
  ASSUME KindsStay, missed \subseteq missed', NEW b \in GoodBars,
         Unverified(b.id) => Unverified(b.id)' \/ b.id \in missed' \/ b.it # NoWord
  PROVE  b \in GoodBars'
<1>0. b \in Bar /\ BarOk(b)  BY DEF GoodBars
<1>1. b.id \in Events /\ jobs[b.id].kind # "none"  BY <1>0 DEF Bar, BarOk
<1>2. jobs'[b.id].kind = jobs[b.id].kind  BY <1>1 DEF KindsStay
<1>3. BarOk(b)'
  <2>1. NetworkOf(b)' = NetworkOf(b)  BY <1>2 DEF NetworkOf
  <2>2. b.id \in missed' \/ Filled(b) \/ (b.it = NoWord /\ b.source = "ws" /\ Unverified(b.id)')
    BY <1>0 DEF BarOk
  <2>3. QED  BY <1>0, <1>1, <1>2, <2>1, <2>2 DEF BarOk, Filled
<1>4. QED  BY <1>0, <1>3 DEF GoodBars

LEMMA MessageStays ==
  ASSUME KindsStay, missed \subseteq missed', NEW m \in GoodMessages,
         Unverified(m.id) => Unverified(m.id)' \/ m.id \in missed' \/ m.type # "optimistic"
  PROVE  m \in GoodMessages'
<1>0. m \in Messages /\ MessageOk(m)  BY DEF GoodMessages
<1>1. m.id \in Events /\ jobs[m.id].kind \in {"sim", "click"}
  BY <1>0 DEF Messages, Plain, Visible, MessageOk
<1>2. jobs'[m.id].kind = jobs[m.id].kind /\ (jobs[m.id].raw # "off" => jobs'[m.id].raw # "off")
  BY <1>1 DEF KindsStay
<1>3. MessageOk(m)'  BY <1>0, <1>1, <1>2 DEF MessageOk
<1>4. QED  BY <1>0, <1>3 DEF GoodMessages

LEMMA OnTheWire ==
  ASSUME WireInv
  PROVE  \A i \in DOMAIN wire : wire[i] \in Messages /\ MessageOk(wire[i])
BY LenProperties DEF WireInv, GoodMessages

LEMMA Longer ==
  ASSUME WireInv, NEW m, wire' = Append(wire, m)
  PROVE  \A i \in DOMAIN wire : i \in DOMAIN wire' /\ wire'[i] = wire[i]
<1>1. wire \in Seq(GoodMessages \union {m})  BY Wider DEF WireInv
<1>2. QED  BY <1>1

\* One more message, which none that is on its way has to follow.
LEMMA OneMore ==
  ASSUME WireInv, NEW m \in GoodMessages', wire' = Append(wire, m),
         GoodMessages \subseteq GoodMessages',
         \A i \in DOMAIN wire : wire[i].id = m.id =>
           /\ ~(wire[i].type = "verified" /\ m.type = "optimistic")
           /\ ~(wire[i].type = "it_visible" /\ m.type = "verified")
  PROVE  WireInv'
<1>0. wire \in Seq(GoodMessages')  BY Wider DEF WireInv
<1>1. /\ wire' \in Seq(GoodMessages')
      /\ DOMAIN wire = 1 .. Len(wire) /\ DOMAIN wire' = 1 .. Len(wire) + 1 /\ Len(wire) \in Nat
      /\ \A i \in 1 .. Len(wire) : wire'[i] = wire[i]
      /\ wire'[Len(wire) + 1] = m
  BY <1>0
<1>2. InOrder(wire)'
  <2> SUFFICES ASSUME NEW i \in DOMAIN wire', NEW j \in DOMAIN wire', i < j,
                      wire'[i].id = wire'[j].id
               PROVE  /\ ~(wire'[i].type = "verified" /\ wire'[j].type = "optimistic")
                      /\ ~(wire'[i].type = "it_visible" /\ wire'[j].type = "verified")
    BY DEF InOrder
  <2>1. i \in DOMAIN wire /\ wire'[i] = wire[i]  BY <1>1
  <2>2. CASE j = Len(wire) + 1  BY <1>1, <2>1, <2>2
  <2>3. CASE j # Len(wire) + 1
    <3>1. j \in DOMAIN wire /\ wire'[j] = wire[j]  BY <1>1, <2>3
    <3>2. QED  BY <2>1, <3>1 DEF WireInv, InOrder
  <2>4. QED  BY <2>2, <2>3
<1>3. QED  BY <1>1, <1>2 DEF WireInv

\* The message at the head is taken off.
LEMMA OneLess ==
  ASSUME WireInv, wire # << >>, wire' = Tail(wire),
         \A i \in DOMAIN wire : i # 1 => wire[i] \in GoodMessages'
  PROVE  WireInv'
<1>1. /\ Len(wire) \in Nat \ {0} /\ Len(wire') = Len(wire) - 1
      /\ DOMAIN wire = 1 .. Len(wire) /\ DOMAIN wire' = 1 .. Len(wire) - 1
      /\ \A i \in 1 .. Len(wire) - 1 : wire'[i] = wire[i + 1]
      /\ wire' \in Seq(GoodMessages)
  BY EmptySeq, LenProperties, HeadTailProperties DEF WireInv
<1>2. InOrder(wire)'
  <2> SUFFICES ASSUME NEW i \in DOMAIN wire', NEW j \in DOMAIN wire', i < j,
                      wire'[i].id = wire'[j].id
               PROVE  /\ ~(wire'[i].type = "verified" /\ wire'[j].type = "optimistic")
                      /\ ~(wire'[i].type = "it_visible" /\ wire'[j].type = "verified")
    BY DEF InOrder
  <2>1. /\ i + 1 \in DOMAIN wire /\ j + 1 \in DOMAIN wire /\ i + 1 < j + 1
        /\ wire'[i] = wire[i + 1] /\ wire'[j] = wire[j + 1]
    BY <1>1
  <2>2. QED  BY <2>1 DEF WireInv, InOrder
<1>3. \A i \in DOMAIN wire' : wire'[i] \in GoodMessages'
  <2> SUFFICES ASSUME NEW i \in DOMAIN wire' PROVE wire'[i] \in GoodMessages'  OBVIOUS
  <2>1. i + 1 \in DOMAIN wire /\ i + 1 # 1 /\ wire'[i] = wire[i + 1]  BY <1>1
  <2>2. QED  BY <2>1
<1>4. wire' \in Seq(GoodMessages')  BY <1>1, <1>3, Wider
<1>5. QED  BY <1>2, <1>4 DEF WireInv

\* A step that takes no message and turns no probe on leaves open what is to be verified.
LEMMA StillUnverified ==
  ASSUME WireInv, NEW e, jobs'[e].raw = jobs[e].raw,
         wire' = wire \/ \E m \in GoodMessages' : wire' = Append(wire, m),
         Unverified(e)
  PROVE  Unverified(e)'
<1>1. \A i \in DOMAIN wire : i \in DOMAIN wire' /\ wire'[i] = wire[i]
  <2>1. CASE wire' = wire  BY <2>1
  <2>2. QED  BY <2>1, Longer
<1>2. CASE jobs[e].raw = "off"  BY <1>2 DEF Unverified
<1>3. CASE \E i \in DOMAIN wire : IsOf(wire[i], "verified", e)
  <2>1. PICK i \in DOMAIN wire : IsOf(wire[i], "verified", e)  BY <1>3
  <2>2. i \in DOMAIN wire' /\ IsOf(wire'[i], "verified", e)  BY <1>1, <2>1
  <2>3. QED  BY <2>2 DEF Unverified
<1>4. QED  BY <1>2, <1>3 DEF Unverified

\* A step that leaves what is to be verified leaves the good bars and messages.
LEMMA AllStay ==
  ASSUME KindsStay, missed \subseteq missed',
         \A e \in Events : Unverified(e) => Unverified(e)' \/ e \in missed'
  PROVE  GoodBars \subseteq GoodBars' /\ GoodMessages \subseteq GoodMessages'
<1>1. ASSUME NEW b \in GoodBars PROVE b \in GoodBars'
  <2>1. b.id \in Events  BY DEF GoodBars, Bar
  <2>2. QED  BY <2>1, BarStays
<1>2. ASSUME NEW m \in GoodMessages PROVE m \in GoodMessages'
  <2>1. m.id \in Events  BY DEF GoodMessages, Messages, Plain, Visible
  <2>2. QED  BY <2>1, MessageStays
<1>3. QED  BY <1>1, <1>2

-----------------------------------------------------------------------------
(* The steps.                                                              *)

\* What a step that changes the job of e leaves.
LEMMA OneJob ==
  ASSUME JobsInv, NEW e \in Events, NEW j \in Job, JobOk(j), jobs' = [jobs EXCEPT ![e] = j],
         jobs[e].kind # "none" => j.kind = jobs[e].kind,
         jobs[e].raw # "off" => j.raw # "off",
         UNCHANGED << missed, cuts >>
  PROVE  JobsInv' /\ KindsStay
<1>1. \A d \in Events : jobs'[d] = IF d = e THEN j ELSE jobs[d]  BY DEF JobsInv
<1>2. jobs' \in [Events -> Job]  BY DEF JobsInv
<1>3. JobsInv'  BY <1>1, <1>2 DEF JobsInv
<1>4. KindsStay  BY <1>1 DEF KindsStay
<1>5. QED  BY <1>3, <1>4

LEMMA PostStep ==
  ASSUME LabAssumption, LabInv, NEW e \in Events, NEW kind \in {"sim", "click", "fire"},
         Post(e, kind)
  PROVE  JobsInv' /\ WireInv' /\ BarsInv'
<1> DEFINE j == [jobs[e] EXCEPT !.kind = kind, !.stage = "posted"]
<1>1. /\ jobs[e] \in Job /\ jobs[e].kind = "none" /\ jobs[e].raw = "off"
      /\ jobs[e].book = "off"
  BY DEF Post, LabInv, JobsInv, Quiet
<1>2. /\ j.kind = kind /\ j.stage = "posted" /\ j.raw = "off" /\ j.book = "off" /\ j \in Job
      /\ JobOk(j)
  <2>1. j.kind = kind /\ j.stage = "posted" /\ j.raw = "off" /\ j.book = "off" /\ j \in Job
    BY <1>1 DEF Job
  <2>2. QED  BY <2>1 DEF JobOk
<1>3. jobs' = [jobs EXCEPT ![e] = j] /\ UNCHANGED << bars, missed, cuts >>  BY DEF Post
<1> HIDE DEF j
<1>4. JobsInv' /\ KindsStay  BY <1>1, <1>2, <1>3, OneJob DEF LabInv
<1>5. \A d \in Events : jobs'[d] = IF d = e THEN j ELSE jobs[d]
  BY <1>3 DEF LabInv, JobsInv
<1>6. \A d \in Events : jobs'[d].raw = jobs[d].raw  BY <1>1, <1>2, <1>5
<1> DEFINE m == [type |-> "optimistic", id |-> e]
<1>7. kind # "fire" => wire' = Append(wire, m)  BY DEF Post, Broadcast
<1>8. kind # "fire" => m \in GoodMessages'
  <2>1. m \in Messages /\ m.type = "optimistic" /\ m.id = e  BY DEF Messages, Plain
  <2>2. jobs'[e].kind = kind /\ jobs'[e].raw = "off"  BY <1>2, <1>5
  <2>3. ASSUME kind # "fire" PROVE MessageOk(m)'
    BY <2>1, <2>2, <2>3 DEF MessageOk, Unverified
  <2>4. QED  BY <2>1, <2>3 DEF GoodMessages
<1>9. kind = "fire" => wire' = wire  BY DEF Post
<1>10. \A d \in Events : Unverified(d) => Unverified(d)'
  <2>1. wire' = wire \/ \E k \in GoodMessages' : wire' = Append(wire, k)
    BY <1>7, <1>8, <1>9
  <2>2. QED  BY <1>6, <2>1, StillUnverified DEF LabInv
<1>11. GoodBars \subseteq GoodBars' /\ GoodMessages \subseteq GoodMessages'
  BY <1>3, <1>4, <1>10, AllStay
<1>12. BarsInv'  BY <1>3, <1>11, Wider DEF LabInv, BarsInv
<1>13. \A i \in DOMAIN wire : wire[i].id # e
  <2>1. \A i \in DOMAIN wire : jobs[wire[i].id].kind \in {"sim", "click"}
    BY OnTheWire DEF LabInv, MessageOk
  <2>2. QED  BY <1>1, <2>1
<1>14. WireInv'
  <2>1. CASE kind = "fire"
    <3> HIDE DEF LabAssumption
    <3>1. wire' = wire /\ wire \in Seq(GoodMessages) /\ InOrder(wire)
      BY <1>9, <2>1 DEF LabInv, WireInv
    <3>2. wire \in Seq(GoodMessages')  BY <1>11, <3>1, OfMore
    <3>3. QED  BY <3>1, <3>2 DEF WireInv, InOrder
  <2>2. CASE kind # "fire"
    <3>1. m.id = e  OBVIOUS
    <3> HIDE DEF m
    <3>2. QED  BY <1>7, <1>8, <1>11, <1>13, <2>2, <3>1, OneMore DEF LabInv
  <2>3. QED  BY <2>1, <2>2
<1>15. QED  BY <1>4, <1>12, <1>14

LEMMA VmAnswersStep ==
  ASSUME LabAssumption, LabInv, NEW e \in Events, VmAnswers(e)
  PROVE  JobsInv' /\ WireInv' /\ BarsInv'
<1> DEFINE told == jobs[e].kind # "fire"
           j == IF told THEN [jobs[e] EXCEPT !.stage = "acked", !.raw = "probing",
                                             !.book = "probing"]
                ELSE [jobs[e] EXCEPT !.stage = "acked"]
           m == [type |-> "verified", id |-> e]
<1>1. jobs[e].stage = "posted" /\ jobs[e] \in Job /\ JobOk(jobs[e])
  BY DEF VmAnswers, LabInv, JobsInv
<1>2. jobs[e].kind # "none" /\ jobs[e].raw = "off" /\ jobs[e].book = "off"
  BY <1>1 DEF JobOk
<1>3. /\ j \in Job /\ JobOk(j) /\ j.kind = jobs[e].kind
      /\ told => j.raw = "probing"
      /\ ~told => j.raw = "off"
  BY <1>1, <1>2 DEF Job, JobOk
<1>4. jobs' = [jobs EXCEPT ![e] = j]
  BY DEF VmAnswers, LabInv, JobsInv
<1>5. UNCHANGED << bars, missed, cuts >>  BY DEF VmAnswers
<1>6. (told => wire' = Append(wire, m)) /\ (~told => wire' = wire)
  BY DEF VmAnswers, Broadcast
<1> HIDE DEF j
<1>7. JobsInv' /\ KindsStay  BY <1>2, <1>3, <1>4, <1>5, OneJob DEF LabInv
<1>8. \A d \in Events : jobs'[d] = IF d = e THEN j ELSE jobs[d]
  BY <1>4 DEF LabInv, JobsInv
<1>9. told => m \in GoodMessages'
  <2>1. m \in Messages /\ m.type = "verified" /\ m.id = e  BY DEF Messages, Plain
  <2>2. told => jobs'[e].kind \in {"sim", "click"} /\ jobs'[e].raw = "probing"
    BY <1>1, <1>2, <1>3, <1>8 DEF Job
  <2>3. told => MessageOk(m)'  BY <2>1, <2>2 DEF MessageOk
  <2>4. QED  BY <2>1, <2>3 DEF GoodMessages
<1>10. \A d \in Events : Unverified(d) => Unverified(d)'
  <2>1. wire' = wire \/ \E k \in GoodMessages' : wire' = Append(wire, k)
    BY <1>6, <1>9
  <2>2. \A d \in Events : d # e \/ ~told => jobs'[d].raw = jobs[d].raw
    BY <1>2, <1>3, <1>8
  <2>3. told => Unverified(e)'
    <3>1. told => Len(wire) + 1 \in DOMAIN wire' /\ wire'[Len(wire) + 1] = m
      BY <1>6 DEF LabInv, WireInv
    <3>2. IsOf(m, "verified", e)  BY DEF IsOf
    <3>3. QED  BY <3>1, <3>2 DEF Unverified
  <2>4. QED  BY <2>1, <2>2, <2>3, StillUnverified DEF LabInv
<1>11. GoodBars \subseteq GoodBars' /\ GoodMessages \subseteq GoodMessages'
  BY <1>5, <1>7, <1>10, AllStay
<1>12. BarsInv'  BY <1>5, <1>11, Wider DEF LabInv, BarsInv
<1>13. \A i \in DOMAIN wire : wire[i].id = e => wire[i].type # "it_visible"
  <2>1. \A i \in DOMAIN wire : wire[i].type = "it_visible" => jobs[wire[i].id].raw # "off"
    BY OnTheWire DEF LabInv, MessageOk
  <2>2. QED  BY <1>2, <2>1
<1>14. WireInv'
  <2>1. CASE ~told
    <3> HIDE DEF LabAssumption
    <3>1. wire' = wire /\ wire \in Seq(GoodMessages) /\ InOrder(wire)
      BY <1>6, <2>1 DEF LabInv, WireInv
    <3>2. wire \in Seq(GoodMessages')  BY <1>11, <3>1, OfMore
    <3>3. QED  BY <3>1, <3>2 DEF WireInv, InOrder
  <2>2. CASE told
    <3>1. m.id = e /\ m.type = "verified"  OBVIOUS
    <3> HIDE DEF m
    <3>2. QED  BY <1>6, <1>9, <1>11, <1>13, <2>2, <3>1, OneMore DEF LabInv
  <2>3. QED  BY <2>1, <2>2
<1>15. QED  BY <1>7, <1>12, <1>14

LEMMA ProbeStep ==
  ASSUME LabAssumption, LabInv, NEW e \in Events, NEW table \in {"raw", "book"},
         NEW word \in {"real", "floor"}, ProbeSpeaks(e, table, word)
  PROVE  JobsInv' /\ WireInv' /\ BarsInv'
<1> DEFINE j == [jobs[e] EXCEPT ![table] = "told"]
           ms == IF word = "real"
                   THEN IF table = "raw" THEN Profile[e].it ELSE Profile[e].bookIt
                   ELSE BUDGET_MS
           m == [type |-> "it_visible", id |-> e,
                 table |-> IF table = "raw" THEN "it" ELSE "book",
                 poll |-> [ms |-> ms, word |-> word]]
<1>1. jobs[e][table] = "probing" /\ jobs[e] \in Job /\ JobOk(jobs[e])
  BY DEF ProbeSpeaks, LabInv, JobsInv
<1>2. /\ jobs[e].stage \notin {"none", "posted"} /\ jobs[e].kind \in {"sim", "click"}
  BY <1>1 DEF JobOk, Job
<1>3. /\ j \in Job /\ JobOk(j) /\ j.kind = jobs[e].kind
      /\ j.raw = "off" <=> jobs[e].raw = "off"
  BY <1>1, <1>2 DEF Job, JobOk
<1>4. jobs' = [jobs EXCEPT ![e] = j] /\ UNCHANGED << bars, missed, cuts >>
  BY DEF ProbeSpeaks
<1>5. wire' = Append(wire, m)  BY DEF ProbeSpeaks, Broadcast
<1> HIDE DEF j
<1>6. JobsInv' /\ KindsStay  BY <1>3, <1>4, OneJob DEF LabInv
<1>7. \A d \in Events : jobs'[d] = IF d = e THEN j ELSE jobs[d]
  BY <1>4 DEF LabInv, JobsInv
<1>8. m \in GoodMessages'
  <2>1. ms \in Nat
    <3>1. Profile[e].it \in Nat /\ Profile[e].bookIt \in Nat  OBVIOUS
    <3>2. QED  BY <3>1
  <2>2. m \in Messages
    <3> HIDE DEF ms
    <3>1. [ms |-> ms, word |-> word] \in Word  BY <2>1 DEF Word
    <3>2. QED  BY <3>1 DEF Messages, Visible
  <2>3. jobs'[e].kind \in {"sim", "click"} /\ jobs'[e].raw # "off"
    BY <1>1, <1>2, <1>3, <1>7 DEF JobOk
  <2>4. m.table = "it" /\ m.poll.word # "floor" =>
          m.poll = [ms |-> Profile[e].it, word |-> "real"]
    OBVIOUS
  <2>5. m.type = "it_visible" /\ m.id = e  OBVIOUS
  <2> HIDE DEF m
  <2>6. MessageOk(m)'  BY <2>3, <2>4, <2>5 DEF MessageOk
  <2>7. QED  BY <2>2, <2>6 DEF GoodMessages
<1>9. m.type = "it_visible"  OBVIOUS
<1> HIDE DEF m
<1>10. \A d \in Events : Unverified(d) => Unverified(d)'
  <2> SUFFICES ASSUME NEW d \in Events, Unverified(d) PROVE Unverified(d)'  OBVIOUS
  <2>1. \A i \in DOMAIN wire : i \in DOMAIN wire' /\ wire'[i] = wire[i]
    BY <1>5, Longer DEF LabInv
  <2>2. jobs[d].raw = "off" => jobs'[d].raw = "off"  BY <1>3, <1>7
  <2>3. QED  BY <2>1, <2>2 DEF Unverified
<1>11. GoodBars \subseteq GoodBars' /\ GoodMessages \subseteq GoodMessages'
  BY <1>4, <1>6, <1>10, AllStay
<1>12. BarsInv'  BY <1>4, <1>11, Wider DEF LabInv, BarsInv
<1>13. WireInv'  BY <1>5, <1>8, <1>9, <1>11, OneMore DEF LabInv
<1>14. QED  BY <1>6, <1>12, <1>13

\* The steps of the browser that only end a request, and those of the route that refuse one.
LEMMA EndStep ==
  ASSUME LabAssumption, LabInv, NEW e \in Events, NEW stage \in {"refused", "done", "painting"},
         jobs[e].stage \notin {"none"}, jobs' = [jobs EXCEPT ![e].stage = stage],
         UNCHANGED << wire, missed, cuts >>
  PROVE  /\ JobsInv' /\ WireInv' /\ KindsStay
         /\ GoodBars \subseteq GoodBars'
         /\ \A d \in Events : jobs'[d].kind = jobs[d].kind /\ (d # e => jobs'[d] = jobs[d])
         /\ jobs'[e].stage = stage
<1> DEFINE j == [jobs[e] EXCEPT !.stage = stage]
<1>1. jobs[e] \in Job /\ JobOk(jobs[e])  BY DEF LabInv, JobsInv
<1>2. /\ j \in Job /\ JobOk(j) /\ j.kind = jobs[e].kind /\ j.raw = jobs[e].raw /\ j.stage = stage
  BY <1>1 DEF Job, JobOk
<1>3. jobs' = [jobs EXCEPT ![e] = j]  BY DEF LabInv, JobsInv
<1> HIDE DEF j
<1>4. JobsInv' /\ KindsStay  BY <1>2, <1>3, OneJob DEF LabInv
<1>5. \A d \in Events : jobs'[d] = IF d = e THEN j ELSE jobs[d]
  BY <1>3 DEF LabInv, JobsInv
<1>6. \A d \in Events : Unverified(d) => Unverified(d)'
  BY <1>2, <1>5, StillUnverified DEF LabInv
<1>7. GoodBars \subseteq GoodBars' /\ GoodMessages \subseteq GoodMessages'
  BY <1>4, <1>6, AllStay
<1>8. WireInv'
  <2>1. wire \in Seq(GoodMessages) /\ InOrder(wire)  BY DEF LabInv, WireInv
  <2> HIDE DEF LabAssumption
  <2>2. wire \in Seq(GoodMessages')  BY <1>7, <2>1, OfMore
  <2>3. QED  BY <2>1, <2>2 DEF WireInv, InOrder
<1>9. QED  BY <1>2, <1>4, <1>5, <1>7, <1>8

LEMMA RefusesStep ==
  ASSUME LabAssumption, LabInv, NEW e \in Events, Refuses(e) \/ SimAnswered(e)
  PROVE  JobsInv' /\ WireInv' /\ BarsInv'
<1>1. PICK stage \in {"refused", "done"} :
        /\ jobs' = [jobs EXCEPT ![e].stage = stage] /\ jobs[e].stage # "none"
        /\ UNCHANGED << wire, missed, cuts, bars >>
  BY DEF Refuses, SimAnswered
<1>2. JobsInv' /\ WireInv' /\ GoodBars \subseteq GoodBars'  BY <1>1, EndStep
<1>3. BarsInv'  BY <1>1, <1>2, Wider DEF LabInv, BarsInv
<1>4. QED  BY <1>2, <1>3

\* The bar of an answer is complete from the start.
LEMMA ClickBarOk ==
  ASSUME LabAssumption, NEW e \in Events, jobs'[e].kind = "click"
  PROVE  ClickBar(e, Profile[e]) \in GoodBars'
<1> DEFINE p == Profile[e]
           b == ClickBar(e, p)
<1>1. /\ p.hop \in Nat /\ p.parse \in Nat /\ p.tunnel \in Nat /\ p.sdk \in Nat /\ p.rest \in Nat
      /\ p.it \in Nat /\ p.paint \in Nat /\ p.partition \in Nat
  OBVIOUS
<1>2. /\ FlushOf(p) \in Nat
      /\ VerifiedVm(p) = [sdk |-> p.sdk, flush |-> FlushOf(p), over |-> p.rest,
                          transport |-> p.tunnel, partition |-> p.partition]
      /\ b.network = p.hop + p.parse + p.tunnel
  BY Clocks
<1> HIDE DEF p
<1>3. /\ b.id = e /\ b.source = "client" /\ b.it = NoWord
      /\ b.vm = [sdk |-> p.sdk, flush |-> FlushOf(p), over |-> p.rest,
                 transport |-> 0, partition |-> p.partition]
  BY <1>2 DEF ClickBar
<1>4. b.vm \in Vm  BY <1>1, <1>2, <1>3 DEF Vm
<1>5. b \in Bar
  <2>1. NoWord \in Word  BY DEF NoWord, Word
  <2>2. b.network \in Nat  BY <1>1, <1>2
  <2>3. b = [id |-> e, source |-> "client", network |-> b.network, vm |-> b.vm,
             it |-> NoWord, book |-> NoWord, render |-> 0]
    BY DEF ClickBar
  <2> HIDE DEF b
  <2>4. QED  BY <1>4, <2>1, <2>2, <2>3 DEF Bar
<1> HIDE DEF b
<1>6. BarOk(b)'
  <2>1. Filled(b)  BY <1>3 DEF Filled, p
  <2>2. NetworkOf(b)' = b.network
    <3>1. NetworkOf(b)' = p.hop + p.parse + p.tunnel + 0  BY <1>3 DEF NetworkOf, p
    <3>2. QED  BY <1>1, <1>2, <3>1
  <2>3. QED  BY <1>3, <2>1, <2>2 DEF BarOk, Filled
<1>7. QED  BY <1>5, <1>6 DEF GoodBars, b, p

LEMMA FireBarOk ==
  ASSUME LabAssumption, NEW e \in Events, jobs'[e].kind = "fire"
  PROVE  FireBar(e, Profile[e]) \in GoodBars'
<1> DEFINE p == Profile[e]
           b == FireBar(e, p)
<1>1. /\ p.hop \in Nat /\ p.parse \in Nat /\ p.tunnel \in Nat /\ p.sdk \in Nat /\ p.rest \in Nat
      /\ p.it \in Nat /\ p.paint \in Nat
  OBVIOUS
<1>2. /\ FlushOf(p) \in Nat
      /\ VerifiedVm(p) = [sdk |-> p.sdk, flush |-> FlushOf(p), over |-> p.rest,
                          transport |-> p.tunnel, partition |-> p.partition]
      /\ b.network = p.hop + p.paint + p.parse + p.tunnel
  BY Clocks
<1> HIDE DEF p
<1>3. /\ b.id = e /\ b.source = "client" /\ b.it = [ms |-> p.it, word |-> "real"]
      /\ b.vm = [sdk |-> p.sdk, flush |-> FlushOf(p), over |-> p.rest,
                 transport |-> 0, partition |-> 0]
  <2> DEFINE vm == VerifiedVm(p)
  <2>1. b.vm = [vm EXCEPT !.transport = 0, !.partition = 0]  BY DEF FireBar
  <2>2. vm = [sdk |-> p.sdk, flush |-> FlushOf(p), over |-> p.rest,
              transport |-> p.tunnel, partition |-> p.partition]
    BY <1>2
  <2>3. b.id = e /\ b.source = "client" /\ b.it = [ms |-> p.it, word |-> "real"]
    BY DEF FireBar
  <2> HIDE DEF vm, b
  <2>4. QED  BY <2>1, <2>2, <2>3
<1>4. b.vm \in Vm  BY <1>1, <1>2, <1>3 DEF Vm
<1>5. b \in Bar
  <2>1. NoWord \in Word /\ b.it \in Word  BY <1>1, <1>3 DEF NoWord, Word
  <2>2. b.network \in Nat  BY <1>1, <1>2
  <2>3. b = [id |-> e, source |-> "client", network |-> b.network, vm |-> b.vm,
             it |-> b.it, book |-> NoWord, render |-> 0]
    BY DEF FireBar
  <2> HIDE DEF b
  <2>4. QED  BY <1>4, <2>1, <2>2, <2>3 DEF Bar
<1> HIDE DEF b
<1>6. BarOk(b)'
  <2>1. Filled(b)  BY <1>3 DEF Filled, p
  <2>2. NetworkOf(b)' = b.network
    <3>1. NetworkOf(b)' = p.hop + p.parse + p.tunnel + p.paint  BY <1>3 DEF NetworkOf, p
    <3>2. QED  BY <1>1, <1>2, <3>1
  <2>3. QED  BY <1>3, <2>1, <2>2 DEF BarOk, Filled, p
<1>7. QED  BY <1>5, <1>6 DEF GoodBars, b, p

\* A good bar is added to bars that stay good.
LEMMA BarAdded ==
  ASSUME LabAssumption, BarsInv, GoodBars \subseteq GoodBars', NEW b \in GoodBars',
         bars' = AddLatencyBar(bars, b)
  PROVE  BarsInv'
<1>1. bars \in Seq(GoodBars') /\ Len(bars) <= MAX_LATENCY_BARS  BY Wider DEF BarsInv
<1>2. GoodBars' \subseteq Bar  BY DEF GoodBars
<1>3. bars' \in Seq(GoodBars') /\ Len(bars') <= MAX_LATENCY_BARS
  BY <1>1, <1>2, Added
<1>4. QED  BY <1>3 DEF BarsInv

LEMMA AnswerStep ==
  ASSUME LabAssumption, LabInv, NEW e \in Events,
         ClickAnswered(e) \/ \E found \in BOOLEAN : FireAnswered(e, found)
  PROVE  JobsInv' /\ WireInv' /\ BarsInv'
<1>1. PICK stage \in {"painting", "done"} :
        jobs' = [jobs EXCEPT ![e].stage = stage] /\ jobs[e].stage # "none"
  BY DEF ClickAnswered, FireAnswered
<1>2. UNCHANGED << wire, missed, cuts >>  BY DEF ClickAnswered, FireAnswered
<1>3. /\ JobsInv' /\ WireInv' /\ GoodBars \subseteq GoodBars'
      /\ jobs'[e].kind = jobs[e].kind
  BY <1>1, <1>2, EndStep
<1>4. \/ bars' = bars
      \/ jobs[e].kind = "click" /\ bars' = AddLatencyBar(bars, ClickBar(e, Profile[e]))
      \/ jobs[e].kind = "fire" /\ bars' = AddLatencyBar(bars, FireBar(e, Profile[e]))
  BY DEF ClickAnswered, FireAnswered
<1>5. BarsInv'
  <2>1. CASE bars' = bars  BY <1>3, <2>1, Wider DEF LabInv, BarsInv
  <2>2. CASE jobs[e].kind = "click" /\ bars' = AddLatencyBar(bars, ClickBar(e, Profile[e]))
    BY <1>3, <2>2, ClickBarOk, BarAdded DEF LabInv
  <2>3. CASE jobs[e].kind = "fire" /\ bars' = AddLatencyBar(bars, FireBar(e, Profile[e]))
    BY <1>3, <2>3, FireBarOk, BarAdded DEF LabInv
  <2>4. QED  BY <1>4, <2>1, <2>2, <2>3
<1>6. QED  BY <1>3, <1>5

\* The paint says nothing of the rest of the bar.
LEMMA PaintStep ==
  ASSUME LabAssumption, LabInv, NEW e \in Events, ClickPainted(e)
  PROVE  JobsInv' /\ WireInv' /\ BarsInv'
<1>1. /\ jobs[e].stage # "none" /\ jobs' = [jobs EXCEPT ![e].stage = "done"]
      /\ UNCHANGED << wire, missed, cuts >>
  BY DEF ClickPainted
<1>2. JobsInv' /\ WireInv' /\ GoodBars \subseteq GoodBars'  BY <1>1, EndStep
<1> DEFINE ms == Profile[e].paint
           New(b) == IF b.id = e /\ b.source = "client" THEN [b EXCEPT !.render = ms] ELSE b
<1>3. bars' = [i \in DOMAIN bars |-> New(bars[i])]
  BY DEF ClickPainted, UpdateLatencyBar
<1>4. ms \in Nat  OBVIOUS
<1> HIDE DEF ms
<1>5. ASSUME NEW b \in GoodBars' PROVE New(b) \in GoodBars'
  <2>1. b \in Bar /\ BarOk(b)'  BY DEF GoodBars
  <2>2. /\ New(b) \in Bar /\ New(b).id = b.id /\ New(b).source = b.source
        /\ New(b).network = b.network /\ New(b).vm = b.vm /\ New(b).it = b.it
    BY <1>4, <2>1 DEF Bar
  <2> DEFINE c == New(b)
  <2> HIDE DEF c
  <2>3. c \in Bar /\ BarOk(c)'
    <3>1. /\ c \in Bar /\ c.id = b.id /\ c.source = b.source
          /\ c.network = b.network /\ c.vm = b.vm /\ c.it = b.it
      BY <2>2 DEF c
    <3>2. NetworkOf(c)' = NetworkOf(b)' /\ Filled(c) = Filled(b)
      BY <3>1 DEF NetworkOf, Filled
    <3>3. QED  BY <2>1, <3>1, <3>2 DEF BarOk, Filled
  <2>4. QED  BY <2>3 DEF GoodBars, c
<1>6. BarsInv'
  <2>1. \A i \in DOMAIN bars : bars[i] \in GoodBars'
    <3> HIDE DEF LabAssumption
    <3>1. bars \in Seq(GoodBars)  BY DEF LabInv, BarsInv
    <3>2. \A i \in DOMAIN bars : bars[i] \in GoodBars
      BY <3>1, LenProperties, ElementOfSeq
    <3>3. QED  BY <1>2, <3>2
  <2>2. DOMAIN bars' = DOMAIN bars /\ \A i \in DOMAIN bars : bars'[i] = New(bars[i])
    BY <1>3
  <2>3. \A i \in DOMAIN bars : bars'[i] \in GoodBars'  BY <1>5, <2>1, <2>2
  <2>4. bars' = [i \in DOMAIN bars |-> bars'[i]]  BY <1>3
  <2>5. bars' \in Seq(GoodBars') /\ Len(bars') = Len(bars)
    BY <2>2, <2>3, <2>4, InPlace DEF LabInv, BarsInv
  <2>6. QED  BY <2>5 DEF LabInv, BarsInv
<1>7. QED  BY <1>2, <1>6

\* What was on its way is lost: its events are missed from now on.
LEMMA CutStep ==
  ASSUME LabAssumption, LabInv, Cut
  PROVE  JobsInv' /\ WireInv' /\ BarsInv'
<1>1. /\ UNCHANGED << jobs, bars >> /\ wire' = << >> /\ cuts < MaxCuts /\ cuts' = cuts + 1
      /\ missed' = missed \union {wire[i].id : i \in DOMAIN wire}
  BY DEF Cut
<1>2. JobsInv'
  <2>1. \A i \in DOMAIN wire : wire[i].id \in Events
    BY OnTheWire DEF LabInv, Messages, Plain, Visible
  <2>2. missed' \subseteq Events  BY <1>1, <2>1 DEF LabInv, JobsInv
  <2>3. cuts' \in 0 .. MaxCuts  BY <1>1 DEF LabInv, JobsInv
  <2>4. QED  BY <1>1, <2>2, <2>3 DEF LabInv, JobsInv
<1>3. WireInv'  BY <1>1 DEF WireInv, InOrder
<1>4. \A e \in Events : Unverified(e) => Unverified(e)' \/ e \in missed'
  BY <1>1 DEF Unverified, IsOf
<1>5. GoodBars \subseteq GoodBars'
  <2>1. KindsStay /\ missed \subseteq missed'  BY <1>1 DEF KindsStay
  <2>2. QED  BY <1>4, <2>1, AllStay
<1>6. BarsInv'  BY <1>1, <1>5, Wider DEF LabInv, BarsInv
<1>7. QED  BY <1>2, <1>3, <1>6

\* The head of the wire is handled: the others stay good, and so do the bars of
\* other events.
LEMMA HeadTaken ==
  ASSUME LabInv, NEW m, m = Head(wire), wire # << >>, wire' = Tail(wire),
         UNCHANGED << jobs, missed, cuts >>
  PROVE  /\ m \in Messages /\ MessageOk(m) /\ m.id \in Events
         /\ JobsInv' /\ KindsStay /\ WireInv'
         /\ m.type # "verified" =>
              \A e \in Events : Unverified(e) => Unverified(e)'
         /\ \A e \in Events : e # m.id /\ Unverified(e) => Unverified(e)'
         /\ m.type = "it_visible" => ~Unverified(m.id)
<1>1. /\ Len(wire) \in Nat \ {0} /\ DOMAIN wire = 1 .. Len(wire) /\ m = wire[1]
      /\ DOMAIN wire' = 1 .. Len(wire) - 1
      /\ \A i \in 1 .. Len(wire) - 1 : wire'[i] = wire[i + 1]
  BY EmptySeq, LenProperties, HeadTailProperties DEF LabInv, WireInv
<1>2. m \in Messages /\ MessageOk(m)  BY <1>1, OnTheWire DEF LabInv
<1>3. m.id \in Events  BY <1>2 DEF Messages, Plain, Visible
<1>4. JobsInv' /\ KindsStay  BY DEF LabInv, JobsInv, KindsStay
<1>5. ASSUME NEW e, Unverified(e), ~IsOf(m, "verified", e) PROVE Unverified(e)'
  <2>1. CASE jobs[e].raw = "off"  BY <2>1 DEF Unverified
  <2>2. CASE \E i \in DOMAIN wire : IsOf(wire[i], "verified", e)
    <3>1. PICK i \in DOMAIN wire : IsOf(wire[i], "verified", e)  BY <2>2
    <3>2. i # 1  BY <1>1, <1>5, <3>1
    <3>3. i - 1 \in DOMAIN wire' /\ wire'[i - 1] = wire[i]  BY <1>1, <3>2
    <3>4. QED  BY <3>1, <3>3 DEF Unverified
  <2>3. QED  BY <1>5, <2>1, <2>2 DEF Unverified
<1>6. WireInv'
  <2>1. ASSUME NEW k, \E i \in DOMAIN wire : i # 1 /\ wire[i] = k PROVE k \in GoodMessages'
    <3>1. PICK i \in DOMAIN wire : i # 1 /\ wire[i] = k  BY <2>1
    <3>2. k \in GoodMessages  BY <3>1, LenProperties DEF LabInv, WireInv
    <3>3. 1 \in DOMAIN wire /\ 1 < i  BY <1>1, <3>1
    <3>4. ~(IsOf(m, "verified", k.id) /\ k.type = "optimistic")
      BY <1>1, <3>1, <3>3 DEF LabInv, WireInv, InOrder, IsOf
    <3>5. Unverified(k.id) => Unverified(k.id)' \/ k.type # "optimistic"
      BY <1>5, <3>4
    <3>6. QED  BY <1>4, <3>2, <3>5, MessageStays
  <2>2. QED  BY <2>1, OneLess DEF LabInv
<1>7. m.type = "it_visible" => ~Unverified(m.id)
  <2> SUFFICES ASSUME m.type = "it_visible", Unverified(m.id) PROVE FALSE  OBVIOUS
  <2>1. jobs[m.id].raw # "off"  BY <1>2 DEF MessageOk
  <2>2. PICK i \in DOMAIN wire : IsOf(wire[i], "verified", m.id)  BY <2>1 DEF Unverified
  <2>3. i # 1  BY <1>1, <2>2 DEF IsOf
  <2>4. 1 \in DOMAIN wire /\ 1 < i  BY <1>1, <2>3
  <2>5. QED  BY <1>1, <2>2, <2>4 DEF IsOf, LabInv, WireInv, InOrder
<1>8. QED  BY <1>2, <1>3, <1>4, <1>5, <1>6, <1>7 DEF IsOf

\* What the socket says of an event: its bar stays good, or becomes so.
LEMMA WsBarOk ==
  ASSUME LabAssumption, NEW e \in Events, jobs'[e].kind \in {"sim", "click"},
         e \in missed' \/ Unverified(e)'
  PROVE  WsBar(e, Profile[e]) \in GoodBars'
<1> DEFINE b == WsBar(e, Profile[e])
<1>1. Profile[e].parse \in Nat  OBVIOUS
<1>2. NoWord \in Word /\ NoVm \in Vm  BY DEF NoWord, Word, NoVm, Vm
<1>3. b \in Bar  BY <1>1, <1>2 DEF WsBar, Bar
<1>4. b.id = e /\ b.source = "ws" /\ b.it = NoWord /\ b.network = Profile[e].parse
  BY DEF WsBar
<1> HIDE DEF b
<1>5. NetworkOf(b)' = b.network  BY <1>4 DEF NetworkOf
<1>6. BarOk(b)'  BY <1>4, <1>5 DEF BarOk
<1>7. QED  BY <1>3, <1>6 DEF GoodBars, b

LEMMA VerifiedOk ==
  ASSUME LabAssumption, KindsStay, missed \subseteq missed', NEW b \in GoodBars
  PROVE  [b EXCEPT !.vm = VerifiedVm(Profile[b.id])] \in GoodBars'
<1> DEFINE p == Profile[b.id]
           vm == VerifiedVm(p)
           c == [b EXCEPT !.vm = vm]
<1>1. b \in Bar /\ BarOk(b) /\ b.id \in Events  BY DEF GoodBars, Bar
<1>2. /\ p.sdk \in Nat /\ p.rest \in Nat /\ p.tunnel \in Nat /\ p.partition \in Nat
  BY <1>1
<1>3. /\ FlushOf(p) \in Nat
      /\ vm = [sdk |-> p.sdk, flush |-> FlushOf(p), over |-> p.rest,
               transport |-> p.tunnel, partition |-> p.partition]
  BY <1>1, Clocks
<1> HIDE DEF p, vm
<1>4. vm \in Vm  BY <1>2, <1>3 DEF Vm
<1>5. /\ c \in Bar /\ c.id = b.id /\ c.source = b.source /\ c.network = b.network
      /\ c.vm = vm /\ c.it = b.it
  BY <1>1, <1>4 DEF Bar
<1> HIDE DEF c
<1>6. jobs'[b.id].kind = jobs[b.id].kind  BY <1>1 DEF BarOk, KindsStay
<1>7. BarOk(c)'
  <2>1. Filled(c)  BY <1>3, <1>5 DEF Filled, p
  <2>2. NetworkOf(c)' = NetworkOf(b)  BY <1>5, <1>6 DEF NetworkOf
  <2>3. QED  BY <1>1, <1>5, <1>6, <2>1, <2>2 DEF BarOk, Filled
<1>8. QED  BY <1>5, <1>7 DEF GoodBars, c, vm, p

\* A word on the row comes after the verified message.
LEMMA VisibleOk ==
  ASSUME LabAssumption, KindsStay, missed \subseteq missed', NEW b \in GoodBars,
         NEW m \in Messages, MessageOk(m), m.type = "it_visible", b.id = m.id,
         ~Unverified(b.id)
  PROVE  [b EXCEPT ![m.table] = m.poll] \in GoodBars'
<1> DEFINE c == [b EXCEPT ![m.table] = m.poll]
<1>1. b \in Bar /\ BarOk(b) /\ b.id \in Events  BY DEF GoodBars, Bar
<1>2. m.table \in {"it", "book"} /\ m.poll \in Word  BY DEF Messages, Plain, Visible
<1>3. /\ c \in Bar /\ c.id = b.id /\ c.source = b.source /\ c.network = b.network
      /\ c.vm = b.vm /\ (c.it = b.it \/ (m.table = "it" /\ c.it = m.poll))
  BY <1>1, <1>2 DEF Bar
<1> HIDE DEF c
<1>4. jobs'[b.id].kind = jobs[b.id].kind  BY <1>1 DEF BarOk, KindsStay
<1>5. BarOk(c)'
  <2>1. b.id \in missed \/ Filled(b)  BY <1>1 DEF BarOk
  <2>2. Filled(c) = Filled(b)  BY <1>3 DEF Filled
  <2>3. NetworkOf(c)' = NetworkOf(b)  BY <1>3, <1>4 DEF NetworkOf
  <2>4. c.it = NoWord \/ c.it.word = "floor" \/ c.it = [ms |-> Profile[c.id].it, word |-> "real"]
    BY <1>1, <1>3 DEF BarOk, MessageOk
  <2>5. QED  BY <1>1, <1>3, <1>4, <2>1, <2>2, <2>3, <2>4 DEF BarOk, Filled
<1>6. QED  BY <1>3, <1>5 DEF GoodBars, c

LEMMA DeliverStep ==
  ASSUME LabAssumption, LabInv, Deliver
  PROVE  JobsInv' /\ WireInv' /\ BarsInv'
<1>1. PICK m : m = Head(wire)  OBVIOUS
<1>2. /\ wire # << >> /\ wire' = Tail(wire) /\ UNCHANGED << jobs, missed, cuts >>
      /\ bars' = CASE m.type = "optimistic" -> AddLatencyBar(bars, WsBar(m.id, Profile[m.id]))
                   [] m.type = "verified" ->
                        UpdateLatencyBarByEventId(bars, m.id, VerifiedVm(Profile[m.id]))
                   [] m.type = "it_visible" ->
                        UpdateLatencyBarItPoll(bars, m.id, m.table, m.poll)
  BY <1>1 DEF Deliver
<1>3. /\ m \in Messages /\ MessageOk(m) /\ m.id \in Events
      /\ JobsInv' /\ KindsStay /\ WireInv'
      /\ m.type # "verified" => \A e \in Events : Unverified(e) => Unverified(e)'
      /\ \A e \in Events : e # m.id /\ Unverified(e) => Unverified(e)'
      /\ m.type = "it_visible" => ~Unverified(m.id)
  BY <1>1, <1>2, HeadTaken
<1>4. missed \subseteq missed'  BY <1>2
<1>5. \A b \in GoodBars : b \in Bar /\ BarOk(b) /\ b.id \in Events  BY DEF GoodBars, Bar
<1>6. \A i \in DOMAIN bars : bars[i] \in GoodBars  BY LenProperties DEF LabInv, BarsInv
<1>7. BarsInv'
  <2>1. CASE m.type = "optimistic"
    <3>1. GoodBars \subseteq GoodBars'  BY <1>3, <1>4, <2>1, AllStay
    <3>2. jobs'[m.id].kind \in {"sim", "click"} /\ (m.id \in missed' \/ Unverified(m.id)')
      <4>1. m.id \in missed \/ Unverified(m.id)  BY <1>3, <2>1 DEF MessageOk
      <4>2. QED  BY <1>2, <1>3, <2>1, <4>1 DEF MessageOk
    <3>3. WsBar(m.id, Profile[m.id]) \in GoodBars'  BY <1>3, <3>2, WsBarOk
    <3>4. bars' = AddLatencyBar(bars, WsBar(m.id, Profile[m.id]))  BY <1>2, <2>1
    <3>5. QED  BY <3>1, <3>3, <3>4, BarAdded DEF LabInv
  <2>2. CASE m.type = "verified"
    <3> DEFINE New(b) == IF b.id = m.id THEN [b EXCEPT !.vm = VerifiedVm(Profile[m.id])] ELSE b
    <3>1. bars' = [i \in DOMAIN bars |-> New(bars[i])]
      BY <1>2, <2>2 DEF UpdateLatencyBarByEventId
    <3>2. ASSUME NEW b \in GoodBars PROVE New(b) \in GoodBars'
      <4>1. CASE b.id = m.id  BY <1>3, <1>4, <4>1, VerifiedOk
      <4>2. CASE b.id # m.id  BY <1>3, <1>4, <1>5, <4>2, BarStays
      <4>3. QED  BY <4>1, <4>2
    <3> HIDE DEF New
    <3>3. \A i \in DOMAIN bars : bars'[i] \in GoodBars'  BY <1>6, <3>1, <3>2
    <3>4. bars' \in Seq(GoodBars') /\ Len(bars') = Len(bars)
      <4>1. DOMAIN bars' = DOMAIN bars /\ bars' = [i \in DOMAIN bars |-> bars'[i]]  BY <3>1
      <4>2. bars \in Seq(GoodBars)  BY DEF LabInv, BarsInv
      <4>3. QED  BY <3>3, <4>1, <4>2, InPlace
    <3>5. QED  BY <3>4 DEF LabInv, BarsInv
  <2>3. CASE m.type = "it_visible"
    <3> DEFINE New(b) == IF b.id = m.id THEN [b EXCEPT ![m.table] = m.poll] ELSE b
    <3>1. bars' = [i \in DOMAIN bars |-> New(bars[i])]
      BY <1>2, <2>3 DEF UpdateLatencyBarItPoll
    <3>2. ASSUME NEW b \in GoodBars PROVE New(b) \in GoodBars'
      <4>1. CASE b.id = m.id  BY <1>3, <1>4, <2>3, <4>1, VisibleOk
      <4>2. CASE b.id # m.id  BY <1>3, <1>4, <1>5, <4>2, BarStays
      <4>3. QED  BY <4>1, <4>2
    <3> HIDE DEF New
    <3>3. \A i \in DOMAIN bars : bars'[i] \in GoodBars'  BY <1>6, <3>1, <3>2
    <3>4. bars' \in Seq(GoodBars') /\ Len(bars') = Len(bars)
      <4>1. DOMAIN bars' = DOMAIN bars /\ bars' = [i \in DOMAIN bars |-> bars'[i]]  BY <3>1
      <4>2. bars \in Seq(GoodBars)  BY DEF LabInv, BarsInv
      <4>3. QED  BY <3>3, <4>1, <4>2, InPlace
    <3>5. QED  BY <3>4 DEF LabInv, BarsInv
  <2>4. QED  BY <1>3, <2>1, <2>2, <2>3 DEF Messages, Plain, Visible
<1>8. QED  BY <1>3, <1>7

-----------------------------------------------------------------------------
(* The counts of the widgets.                                              *)

LEMMA SameSims ==
  ASSUME CountInv, OpenSims' = OpenSims, UNCHANGED << inFlight, sim, served >>
  PROVE  CountInv'
BY DEF CountInv

LEMMA FiniteSims ==
  ASSUME LabAssumption
  PROVE  IsFiniteSet(OpenSims) /\ Cardinality(OpenSims) \in Nat
BY FS_Subset, FS_CardinalityType DEF OpenSims

\* The steps that open or close no request of the simulator.
LEMMA OtherSims ==
  ASSUME LabAssumption, LabInv,
         \/ Deliver \/ Cut
         \/ \E e \in Events :
              \/ \E kind \in {"click", "fire"} : Post(e, kind)
              \/ VmAnswers(e) \/ Refuses(e)
              \/ \E table \in {"raw", "book"}, word \in {"real", "floor"} :
                   ProbeSpeaks(e, table, word)
              \/ ClickAnswered(e) \/ ClickPainted(e)
              \/ \E found \in BOOLEAN : FireAnswered(e, found)
  PROVE  OpenSims' = OpenSims
<1> DEFINE IsSim(j) == j.kind = "sim" /\ j.stage \in {"posted", "acked", "refused"}
<1>1. OpenSims = {e \in Events : IsSim(jobs[e])}  BY DEF OpenSims, Open
<1>2. OpenSims' = {e \in Events : IsSim(jobs'[e])}  BY DEF OpenSims, Open
<1>3. CASE Deliver \/ Cut
  <2>1. jobs' = jobs  BY <1>3 DEF Deliver, Cut
  <2>2. QED  BY <1>1, <1>2, <2>1
<1>4. ASSUME NEW e \in Events, NEW j, jobs' = [jobs EXCEPT ![e] = j], IsSim(j) <=> IsSim(jobs[e])
      PROVE  OpenSims' = OpenSims
  <2>1. \A d \in Events : jobs'[d] = IF d = e THEN j ELSE jobs[d]
    BY <1>4 DEF LabInv, JobsInv
  <2>2. \A d \in Events : IsSim(jobs'[d]) <=> IsSim(jobs[d])  BY <1>4, <2>1
  <2>3. QED  BY <1>1, <1>2, <2>2
<1>5. \A e \in Events : jobs[e] \in Job  BY DEF LabInv, JobsInv
<1>6. ASSUME NEW e \in Events, NEW kind \in {"click", "fire"}, Post(e, kind)
      PROVE  OpenSims' = OpenSims
  <2> DEFINE j == [jobs[e] EXCEPT !.kind = kind, !.stage = "posted"]
  <2>1. j.kind = kind /\ jobs' = [jobs EXCEPT ![e] = j]  BY <1>5, <1>6 DEF Post, Job
  <2>2. jobs[e].kind = "none"
    <3>1. jobs[e] = Quiet  BY <1>6 DEF Post
    <3>2. QED  BY <3>1 DEF Quiet
  <2> HIDE DEF j
  <2>3. QED  BY <1>4, <2>1, <2>2
<1>7. ASSUME NEW e \in Events, VmAnswers(e) PROVE OpenSims' = OpenSims
  <2> DEFINE j == IF jobs[e].kind = "fire" THEN [jobs[e] EXCEPT !.stage = "acked"]
                  ELSE [jobs[e] EXCEPT !.stage = "acked", !.raw = "probing", !.book = "probing"]
  <2>1. jobs' = [jobs EXCEPT ![e] = j]  BY <1>7 DEF VmAnswers, LabInv, JobsInv
  <2>2. j.kind = jobs[e].kind /\ j.stage = "acked" /\ jobs[e].stage = "posted"
    BY <1>5, <1>7 DEF VmAnswers, Job
  <2> HIDE DEF j
  <2>3. QED  BY <1>4, <2>1, <2>2
<1>8. ASSUME NEW e \in Events, Refuses(e) PROVE OpenSims' = OpenSims
  <2> DEFINE j == [jobs[e] EXCEPT !.stage = "refused"]
  <2>1. jobs' = [jobs EXCEPT ![e] = j]  BY <1>8 DEF Refuses, LabInv, JobsInv
  <2>2. /\ j.kind = jobs[e].kind /\ j.stage = "refused"
        /\ jobs[e].stage \in {"posted", "acked"}
    BY <1>5, <1>8 DEF Refuses, Job
  <2> HIDE DEF j
  <2>3. QED  BY <1>4, <2>1, <2>2
<1>9. ASSUME NEW e \in Events, NEW table \in {"raw", "book"}, NEW word \in {"real", "floor"},
             ProbeSpeaks(e, table, word)
      PROVE  OpenSims' = OpenSims
  <2> DEFINE j == [jobs[e] EXCEPT ![table] = "told"]
  <2>1. jobs' = [jobs EXCEPT ![e] = j]  BY <1>9 DEF ProbeSpeaks
  <2>2. j.kind = jobs[e].kind /\ j.stage = jobs[e].stage  BY <1>5 DEF Job
  <2> HIDE DEF j
  <2>3. QED  BY <1>4, <2>1, <2>2
<1>10. ASSUME NEW e \in Events,
              ClickAnswered(e) \/ ClickPainted(e) \/ \E found \in BOOLEAN : FireAnswered(e, found)
       PROVE  OpenSims' = OpenSims
  <2>1. PICK stage \in {"painting", "done"} :
          jobs' = [jobs EXCEPT ![e].stage = stage] /\ ~IsSim(jobs[e])
    <3>1. jobs[e].stage = "painting" => ~IsSim(jobs[e])  OBVIOUS
    <3>2. jobs[e].kind \in {"click", "fire"} => ~IsSim(jobs[e])  OBVIOUS
    <3>3. QED  BY <1>10, <3>1, <3>2 DEF ClickAnswered, ClickPainted, FireAnswered
  <2> DEFINE j == [jobs[e] EXCEPT !.stage = stage]
  <2>2. jobs' = [jobs EXCEPT ![e] = j]  BY <2>1 DEF LabInv, JobsInv
  <2>3. j.kind = jobs[e].kind /\ j.stage = stage  BY <1>5 DEF Job
  <2> HIDE DEF j
  <2>4. QED  BY <1>4, <2>1, <2>2, <2>3
<1>11. QED  BY <1>3, <1>6, <1>7, <1>8, <1>9, <1>10

LEMMA CountStep ==
  ASSUME LabAssumption, LabInv, LabNext
  PROVE  CountInv'
<1>1. CASE Deliver \/ Cut
  <2>1. UNCHANGED << inFlight, sim, served >>  BY <1>1 DEF Deliver, Cut
  <2>2. QED  BY <1>1, <2>1, OtherSims, SameSims DEF LabInv
<1>2. ASSUME NEW e \in Events,
             \/ \E kind \in {"click", "fire"} : Post(e, kind)
             \/ VmAnswers(e) \/ Refuses(e)
             \/ \E table \in {"raw", "book"}, word \in {"real", "floor"} :
                  ProbeSpeaks(e, table, word)
             \/ ClickAnswered(e) \/ ClickPainted(e)
      PROVE  CountInv'
  <2>1. UNCHANGED << inFlight, sim, served >>
    BY <1>2 DEF Post, VmAnswers, Refuses, ProbeSpeaks, ClickAnswered, ClickPainted
  <2>2. OpenSims' = OpenSims  BY <1>2, OtherSims
  <2>3. QED  BY <2>1, <2>2, SameSims DEF LabInv
<1>3. ASSUME NEW e \in Events, NEW found \in BOOLEAN, FireAnswered(e, found) PROVE CountInv'
  <2>1. OpenSims' = OpenSims  BY <1>3, OtherSims
  <2>2. UNCHANGED << inFlight, sim >>  BY <1>3 DEF FireAnswered
  <2>3. served' \in Seq(Nat) /\ Len(served') <= SERVED_SAMPLES
    <3>1. CASE served' = served  BY <3>1 DEF LabInv, CountInv
    <3>2. CASE served' = LastN(Append(served, ClickToScreen(Profile[e])), SERVED_SAMPLES)
      <4>1. ClickToScreen(Profile[e]) \in Nat
        <5> HIDE DEF LabAssumption
        <5>1. QED  BY Clocks
      <4>2. SERVED_SAMPLES \in Nat \ {0} /\ served \in Seq(Nat)  BY DEF LabInv, CountInv
      <4>3. QED  BY <3>2, <4>1, <4>2, LastOfThem
    <3>3. QED  BY <1>3, <3>1, <3>2 DEF FireAnswered
  <2>4. QED  BY <2>1, <2>2, <2>3 DEF LabInv, CountInv
<1>4. ASSUME NEW e \in Events, Post(e, "sim") PROVE CountInv'
  <2>1. /\ jobs[e] = Quiet /\ inFlight < MAX_IN_FLIGHT /\ inFlight' = inFlight + 1
        /\ jobs' = [jobs EXCEPT ![e] = [jobs[e] EXCEPT !.kind = "sim", !.stage = "posted"]]
        /\ UNCHANGED << sim, served >>
    BY <1>4 DEF Post
  <2>2. \A d \in Events : jobs'[d] = IF d = e THEN [Quiet EXCEPT !.kind = "sim", !.stage = "posted"]
                                     ELSE jobs[d]
    BY <2>1 DEF LabInv, JobsInv
  <2>3. jobs'[e].kind = "sim" /\ jobs'[e].stage = "posted"  BY <2>2 DEF Quiet
  <2>4. OpenSims' = OpenSims \union {e} /\ e \notin OpenSims
    BY <2>1, <2>2, <2>3 DEF OpenSims, Open, Quiet
  <2>5. Cardinality(OpenSims') = Cardinality(OpenSims) + 1
    BY <2>4, FiniteSims, FS_AddElement
  <2>6. MAX_IN_FLIGHT \in Nat  OBVIOUS
  <2>7. inFlight' = Cardinality(OpenSims') /\ inFlight' <= MAX_IN_FLIGHT
    <3>1. inFlight = Cardinality(OpenSims)  BY DEF LabInv, CountInv
    <3>2. Cardinality(OpenSims) \in Nat  BY FiniteSims
    <3> HIDE DEF LabAssumption
    <3>3. QED  BY <2>1, <2>5, <2>6, <3>1, <3>2
  <2>8. QED  BY <2>1, <2>7 DEF LabInv, CountInv
<1>5. ASSUME NEW e \in Events, SimAnswered(e) PROVE CountInv'
  <2>1. /\ jobs[e].kind = "sim" /\ jobs[e].stage \in {"acked", "refused"}
        /\ jobs' = [jobs EXCEPT ![e].stage = "done"] /\ inFlight' = inFlight - 1
        /\ served' = served
    BY <1>5 DEF SimAnswered
  <2>2. /\ jobs'[e].stage = "done" /\ \A d \in Events : d # e => jobs'[d] = jobs[d]
    <3>1. jobs[e] \in Job  BY DEF LabInv, JobsInv
    <3>2. QED  BY <2>1, <3>1 DEF LabInv, JobsInv, Job
  <2>3. OpenSims' = OpenSims \ {e} /\ e \in OpenSims  BY <2>1, <2>2 DEF OpenSims, Open
  <2>4. Cardinality(OpenSims') = Cardinality(OpenSims) - 1
    BY <2>3, FiniteSims, FS_RemoveElement
  <2>5. MAX_IN_FLIGHT \in Nat  OBVIOUS
  <2>6. inFlight' = Cardinality(OpenSims') /\ inFlight' <= MAX_IN_FLIGHT
    <3>1. inFlight = Cardinality(OpenSims) /\ inFlight <= MAX_IN_FLIGHT
      BY DEF LabInv, CountInv
    <3>2. Cardinality(OpenSims) \in Nat  BY FiniteSims
    <3> HIDE DEF LabAssumption
    <3>3. QED  BY <2>1, <2>4, <2>5, <3>1, <3>2
  <2>7. /\ sim' \in [count : Nat, errors : Nat, ingress : Seq(Nat)]
        /\ Len(sim'.ingress) <= INGRESS_SAMPLES
    <3> DEFINE hop == AtLeast0(PostTotal(Profile[e]) - ServerTotal(Profile[e]))
               last == LastN(Append(sim.ingress, hop), INGRESS_SAMPLES)
    <3>1. hop \in Nat
      <4> HIDE DEF LabAssumption
      <4>1. QED  BY Clocks
    <3>2. /\ sim \in [count : Nat, errors : Nat, ingress : Seq(Nat)]
          /\ Len(sim.ingress) <= INGRESS_SAMPLES /\ INGRESS_SAMPLES \in Nat \ {0}
      BY DEF LabInv, CountInv
    <3>3. sim' = [sim EXCEPT !.count = sim.count + 1, !.ingress = last]
          \/ sim' = [sim EXCEPT !.errors = sim.errors + 1]
      BY <1>5, <3>2 DEF SimAnswered
    <3> HIDE DEF hop
    <3>4. last \in Seq(Nat) /\ Len(last) <= INGRESS_SAMPLES  BY <3>1, <3>2, LastOfThem
    <3> HIDE DEF last, LabAssumption
    <3>5. CASE sim' = [sim EXCEPT !.count = sim.count + 1, !.ingress = last]
      <4>1. sim' = [count |-> sim.count + 1, errors |-> sim.errors, ingress |-> last]
        BY <3>2, <3>5
      <4>2. sim.count + 1 \in Nat /\ sim.errors \in Nat  BY <3>2
      <4>3. QED  BY <3>4, <4>1, <4>2
    <3>6. CASE sim' = [sim EXCEPT !.errors = sim.errors + 1]
      <4>1. sim' = [count |-> sim.count, errors |-> sim.errors + 1, ingress |-> sim.ingress]
        BY <3>2, <3>6
      <4>2. sim.count \in Nat /\ sim.errors + 1 \in Nat  BY <3>2
      <4>3. QED  BY <3>2, <4>1, <4>2
    <3>7. QED  BY <3>3, <3>5, <3>6
  <2>8. QED  BY <2>1, <2>6, <2>7 DEF LabInv, CountInv
<1>6. QED  BY <1>1, <1>2, <1>3, <1>4, <1>5 DEF LabNext

-----------------------------------------------------------------------------

LEMMA LabStep ==
  ASSUME LabAssumption, LabInv, [LabNext]_labVars
  PROVE  LabInv'
<1>1. CASE LabNext
  <2>1. JobsInv' /\ WireInv' /\ BarsInv'
    BY <1>1, PostStep, VmAnswersStep, RefusesStep, ProbeStep, AnswerStep, PaintStep,
       DeliverStep, CutStep DEF LabNext
  <2>2. QED  BY <1>1, <2>1, CountStep DEF LabInv
<1>2. CASE UNCHANGED labVars
  <2>1. GoodBars' = GoodBars /\ GoodMessages' = GoodMessages /\ OpenSims' = OpenSims
    BY <1>2 DEF labVars, GoodBars, GoodMessages, OpenSims, BarOk, MessageOk, Unverified,
       NetworkOf, Filled, Open
  <2>2. QED
    BY <1>2, <2>1 DEF labVars, LabInv, JobsInv, WireInv, InOrder, BarsInv, CountInv
<1>3. QED  BY <1>1, <1>2

LEMMA LabTyped == ASSUME LabAssumption, LabInv PROVE LabTypeOK
  BY DEF LabInv, JobsInv, BarsInv, CountInv, LabTypeOK, Job, OpenSims

\* The bar of a row that was seen is complete: what it waited for has come.
LEMMA SumsAddUp == ASSUME LabAssumption, LabInv PROVE SegmentsAddUp
<1> SUFFICES ASSUME NEW i \in DOMAIN bars, IsConfirmed(bars[i]), bars[i].id \notin missed
             PROVE  /\ E2E(bars[i]) = WorkOf(bars[i])
                    /\ Handler(bars[i]) = HandlerOf(Profile[bars[i].id])
  BY DEF SegmentsAddUp
<1> DEFINE b == bars[i]
           p == Profile[b.id]
<1>1. b \in Bar /\ BarOk(b) /\ b.id \in Events
  BY LenProperties DEF LabInv, BarsInv, GoodBars, Bar
<1>2. IsConfirmed(b) /\ b.id \notin missed  OBVIOUS
<1>3. /\ p.hop \in Nat /\ p.parse \in Nat /\ p.tunnel \in Nat /\ p.sdk \in Nat /\ p.rest \in Nat
      /\ p.it \in Nat /\ p.paint \in Nat
  BY <1>1
<1>4. FlushOf(p) \in Nat /\ HandlerOf(p) = p.sdk + FlushOf(p) + p.rest  BY <1>1, Clocks
<1> HIDE DEF b
<1>5. Filled(b) /\ b.it.ms = p.it
  BY <1>1, <1>2 DEF IsConfirmed, IsProbed, BarOk, NoWord, p
<1> HIDE DEF p
<1>6. Handler(b) = p.sdk + FlushOf(p) + p.rest  BY <1>5 DEF Handler, Filled, p
<1>7. TransportOf(b) = IF b.source = "ws" THEN p.tunnel ELSE 0
  BY <1>5 DEF TransportOf, Filled, p
<1>8. /\ b.network = IF b.source = "ws" THEN p.parse
                     ELSE p.hop + p.parse + p.tunnel
                          + (IF jobs[b.id].kind = "fire" THEN p.paint ELSE 0)
      /\ jobs[b.id].kind = "fire" => b.source = "client"
      /\ b.source \in {"ws", "client"}
  BY <1>1 DEF BarOk, NetworkOf, Bar, p
<1>9. E2E(b) = b.network + TransportOf(b) + Handler(b) + p.it  BY <1>5 DEF E2E
<1>10. WorkOf(b) = p.parse + p.tunnel + HandlerOf(p) + p.it
                   + (IF b.source = "client" THEN p.hop ELSE 0)
                   + (IF jobs[b.id].kind = "fire" THEN p.paint ELSE 0)
  BY DEF WorkOf, p
<1>11. E2E(b) = WorkOf(b)  BY <1>3, <1>4, <1>6, <1>7, <1>8, <1>9, <1>10
<1>12. QED  BY <1>4, <1>6, <1>11 DEF b, p

THEOREM LabTypeCorrect == ASSUME LabAssumption PROVE LabSpec => []LabTypeOK
<1>1. LabInv => LabTypeOK  BY LabTyped
<1>2. QED  BY <1>1, InitLab, LabStep, PTL DEF LabSpec

\* liveStats.ts:7-8, "the FULL pipeline breakdown": whatever the order of answers,
\* messages and paints, the segments of a bar whose row was seen are the work done for
\* its event, none twice and none left out, unless a message of it was lost.
THEOREM BarsAddUp == ASSUME LabAssumption PROVE LabSpec => []SegmentsAddUp
<1>1. LabInv => SegmentsAddUp  BY SumsAddUp
<1>2. QED  BY <1>1, InitLab, LabStep, PTL DEF LabSpec
-----------------------------------------------------------------------------
(* THE PANELS.  What filters, medians and percentiles return, and why the  *)
(* numbers that the panels work out on their own fit together.             *)

HIDE DEF LabAssumption

(* What is kept of a sequence.                                             *)

\* One step of Only, and what makes a function the one Only is defined by.
KeptAt(s, S, g, n) ==
  IF n = 0 THEN << >> ELSE IF s[n] \in S THEN Append(g[n - 1], s[n]) ELSE g[n - 1]

Keeps(s, S, g, n) == g = [k \in 0 .. n |-> KeptAt(s, S, g, k)]

LEMMA OnlyLoop ==
  ASSUME NEW T, NEW s \in Seq(T), NEW S
  PROVE  \E g : Keeps(s, S, g, Len(s)) /\ Only(s, S) = g[Len(s)]
<1> DEFINE N == Len(s)
           Good == {n \in 0 .. N : \E g : Keeps(s, S, g, n)}
<1>1. N \in Nat  BY LenProperties
<1>2. 0 \in Good
  <2> DEFINE g == [k \in 0 .. 0 |-> << >>]
  <2>1. Keeps(s, S, g, 0)  BY DEF Keeps, KeptAt
  <2>2. QED  BY <1>1, <2>1
<1>3. ASSUME NEW n \in 0 .. N, n # N, n \in Good PROVE n + 1 \in Good
  <2>1. PICK g : Keeps(s, S, g, n)  BY <1>3
  <2> DEFINE h == [k \in 0 .. n + 1 |-> IF k = n + 1 THEN KeptAt(s, S, g, n + 1) ELSE g[k]]
  <2>2. n \in Nat /\ n + 1 \in 0 .. N  BY <1>1, <1>3
  <2>3. \A k \in 0 .. n : g[k] = KeptAt(s, S, g, k)  BY <2>1 DEF Keeps
  <2>4. \A k \in 0 .. n + 1 : h[k] = KeptAt(s, S, h, k)
    <3> SUFFICES ASSUME NEW k \in 0 .. n + 1 PROVE h[k] = KeptAt(s, S, h, k)  OBVIOUS
    <3>1. h[k] = KeptAt(s, S, g, k)  BY <2>2, <2>3
    <3>2. k # 0 => h[k - 1] = g[k - 1]  BY <2>2
    <3>3. QED
      <4> HIDE DEF h
      <4>1. QED  BY <3>1, <3>2 DEF KeptAt
  <2>5. Keeps(s, S, h, n + 1)
    <3>1. h = [k \in 0 .. n + 1 |-> h[k]]  OBVIOUS
    <3> HIDE DEF h
    <3>2. QED  BY <2>4, <3>1 DEF Keeps
  <2>6. QED  BY <2>2, <2>5
<1>4. N \in Good
  <2>1. 0 .. N \subseteq Good
    <3> HIDE DEF Good, N
    <3>1. QED  BY <1>1, <1>2, <1>3, Climb
  <2>2. QED  BY <1>1, <2>1
<1>5. PICK g : Keeps(s, S, g, N)  BY <1>4
<1> DEFINE kept == CHOOSE f : f = [n \in 0 .. N |->
                     IF n = 0 THEN << >>
                     ELSE IF s[n] \in S THEN Append(f[n - 1], s[n]) ELSE f[n - 1]]
<1>6. Keeps(s, S, kept, N)  BY <1>5 DEF Keeps, KeptAt
<1>7. Only(s, S) = kept[N]  BY DEF Only
<1>8. QED  BY <1>6, <1>7

\* What is kept are elements of s that are in S.
LEMMA OnlyThese ==
  ASSUME NEW T, NEW s \in Seq(T), NEW S
  PROVE  Only(s, S) \in Seq(T \intersect S)
<1> DEFINE N == Len(s)
<1>1. PICK g : Keeps(s, S, g, N) /\ Only(s, S) = g[N]  BY OnlyLoop
<1> DEFINE Good == {n \in 0 .. N : g[n] \in Seq(T \intersect S)}
<1>2. N \in Nat  BY LenProperties
<1>3. \A n \in 0 .. N : g[n] = KeptAt(s, S, g, n)  BY <1>1 DEF Keeps
<1>4. 0 \in Good
  <2>1. g[0] = << >>  BY <1>2, <1>3 DEF KeptAt
  <2>2. g[0] \in Seq(T \intersect S)  BY <2>1, EmptySeq
  <2>3. QED  BY <1>2, <2>2
<1>5. ASSUME NEW n \in 0 .. N, n # N, n \in Good PROVE n + 1 \in Good
  <2>1. n + 1 \in 1 .. N /\ n + 1 \in 0 .. N /\ (n + 1) - 1 = n  BY <1>2, <1>5
  <2>2. s[n + 1] \in T  BY <2>1, ElementOfSeq
  <2>3. g[n + 1] = IF s[n + 1] \in S THEN Append(g[n], s[n + 1]) ELSE g[n]
    BY <1>3, <2>1 DEF KeptAt
  <2>4. g[n] \in Seq(T \intersect S)  BY <1>5
  <2>5. g[n + 1] \in Seq(T \intersect S)  BY <2>2, <2>3, <2>4
  <2>6. QED  BY <2>1, <2>5
<1>6. 0 .. N \subseteq Good
  <2> HIDE DEF Good, N
  <2>1. QED  BY <1>2, <1>4, <1>5, Climb
<1>7. QED  BY <1>1, <1>2, <1>6

\* A sequence of elements of S is kept as it is.
LEMMA OnlyAll ==
  ASSUME NEW T, NEW s \in Seq(T), NEW S, \A i \in DOMAIN s : s[i] \in S
  PROVE  Only(s, S) = s
<1> DEFINE N == Len(s)
<1>1. PICK g : Keeps(s, S, g, N) /\ Only(s, S) = g[N]  BY OnlyLoop
<1> DEFINE Good == {n \in 0 .. N : /\ g[n] \in Seq(T) /\ Len(g[n]) = n
                                   /\ \A i \in 1 .. n : g[n][i] = s[i]}
<1>2. N \in Nat /\ DOMAIN s = 1 .. N  BY LenProperties
<1>3. \A n \in 0 .. N : g[n] = KeptAt(s, S, g, n)  BY <1>1 DEF Keeps
<1>4. 0 \in Good
  <2>1. g[0] = << >>  BY <1>2, <1>3 DEF KeptAt
  <2>2. g[0] \in Seq(T) /\ Len(g[0]) = 0  BY <2>1, EmptySeq
  <2>3. QED  BY <1>2, <2>2
<1>5. ASSUME NEW n \in 0 .. N, n # N, n \in Good PROVE n + 1 \in Good
  <2>1. n + 1 \in 1 .. N /\ n + 1 \in 0 .. N /\ (n + 1) - 1 = n
        /\ n + 1 # 0
    <3>1. n # N /\ n \in 0 .. N /\ N \in Nat  BY <1>2, <1>5
    <3> HIDE DEF N, Good
    <3>2. QED  BY <3>1
  <2> DEFINE x == s[n + 1]
  <2>2. x \in T /\ x \in S  BY <1>2, <2>1, ElementOfSeq
  <2>3. g[n + 1] = Append(g[n], x)
    <3>1. g[n + 1] = KeptAt(s, S, g, n + 1)  BY <1>3, <2>1
    <3>2. KeptAt(s, S, g, n + 1) = Append(g[(n + 1) - 1], x)  BY <2>1, <2>2 DEF KeptAt
    <3>3. QED  BY <2>1, <3>1, <3>2
  <2>4. g[n] \in Seq(T) /\ Len(g[n]) = n /\ \A i \in 1 .. n : g[n][i] = s[i]  BY <1>5
  <2> DEFINE q == g[n]
             r == g[n + 1]
  <2>5. /\ r \in Seq(T) /\ Len(r) = n + 1 /\ r[n + 1] = x /\ \A i \in 1 .. n : r[i] = s[i]
    <3>1. q \in Seq(T) /\ Len(q) = n /\ r = Append(q, x) /\ x \in T
          /\ \A i \in 1 .. n : q[i] = s[i]
      BY <2>2, <2>3, <2>4
    <3> HIDE DEF q, r, x
    <3>2. r \in Seq(T) /\ Len(r) = n + 1 /\ r[n + 1] = x /\ \A i \in 1 .. n : r[i] = q[i]
      BY <3>1, AppendProperties
    <3>3. QED  BY <3>1, <3>2
  <2>6. \A i \in 1 .. n + 1 : r[i] = s[i]
    <3> HIDE DEF r
    <3>1. \A i \in 1 .. n + 1 : i \in 1 .. n \/ i = n + 1  BY <2>1
    <3>2. QED  BY <2>5, <3>1
  <2>7. QED  BY <2>1, <2>5, <2>6
<1>6. 0 .. N \subseteq Good
  <2> HIDE DEF Good, N
  <2>1. QED  BY <1>2, <1>4, <1>5, Climb
<1>7. /\ g[N] \in Seq(T) /\ Len(g[N]) = N /\ \A i \in 1 .. N : g[N][i] = s[i]
  BY <1>2, <1>6
<1>8. g[N] = s  BY <1>7, SeqEqual
<1>9. QED  BY <1>1, <1>8

\* Of one element: it, or nothing.
LEMMA OnlyOne ==
  ASSUME NEW b, NEW S
  PROVE  Only(<< b >>, S) = IF b \in S THEN << b >> ELSE << >>
<1>1. << b >> \in Seq({b}) /\ Len(<< b >>) = 1 /\ << b >>[1] = b  OBVIOUS
<1>2. CASE b \in S
  <2>1. \A i \in DOMAIN << b >> : << b >>[i] \in S  BY <1>2
  <2>2. QED  BY <1>1, <1>2, <2>1, OnlyAll
<1>3. CASE b \notin S
  <2>1. Only(<< b >>, S) \in Seq({b} \intersect S)  BY <1>1, OnlyThese
  <2>2. {b} \intersect S = {}  BY <1>3
  <2> DEFINE q == Only(<< b >>, S)
  <2>3. q \in Seq({})  BY <2>1, <2>2
  <2> HIDE DEF q
  <2>4. q = << >>
    <3>1. Len(q) \in Nat /\ (Len(q) # 0 => q[1] \in {})  BY <2>3
    <3>2. QED  BY <2>3, <3>1, EmptySeq
  <2>5. QED  BY <1>3, <2>4 DEF q
<1>4. QED  BY <1>2, <1>3


-----------------------------------------------------------------------------
(* Ranks.                                                                  *)

\* Some element of a finite choice of numbers is the largest.
LEMMA Largest ==
  ASSUME NEW n \in Nat, NEW f, \A i \in 1 .. n : f[i] \in Int,
         NEW S \in SUBSET (1 .. n), S # {}
  PROVE  \E j \in S : \A k \in S : f[k] <= f[j]
<1> DEFINE Good == {m \in 0 .. n : \A R \in SUBSET (1 .. m) :
                      R # {} => \E j \in R : \A k \in R : f[k] <= f[j]}
<1>1. 0 \in Good
  <2>1. 0 \in 0 .. n /\ 1 .. 0 = {}  OBVIOUS
  <2>2. QED  BY <2>1
<1>2. ASSUME NEW m \in 0 .. n, m # n, m \in Good PROVE m + 1 \in Good
  <2>1. m \in Nat /\ m + 1 \in 1 .. n /\ m + 1 \in 0 .. n  BY <1>2
  <2> SUFFICES ASSUME NEW R \in SUBSET (1 .. m + 1), R # {}
               PROVE  \E j \in R : \A k \in R : f[k] <= f[j]
    BY <2>1
  <2> DEFINE Q == R \ {m + 1}
  <2>2. Q \in SUBSET (1 .. m)  BY <2>1
  <2>3. \A k \in R : k \in Q \/ k = m + 1  OBVIOUS
  <2>4. \A k \in R : f[k] \in Int  BY <2>1
  <2>5. CASE m + 1 \notin R
    <3>1. Q = R  BY <2>5
    <3>2. QED  BY <1>2, <2>2, <3>1
  <2>6. CASE Q = {} /\ m + 1 \in R
    <3>1. R = {m + 1}  BY <2>6
    <3>2. QED  BY <2>4, <3>1
  <2>7. CASE Q # {} /\ m + 1 \in R
    <3>1. PICK j \in Q : \A k \in Q : f[k] <= f[j]  BY <1>2, <2>2, <2>7
    <3>2. j \in R /\ f[j] \in Int /\ f[m + 1] \in Int  BY <2>4, <2>7
    <3>3. CASE f[m + 1] <= f[j]  BY <2>3, <3>1, <3>2, <3>3
    <3>4. CASE f[j] < f[m + 1]
      <4>1. \A k \in R : f[k] <= f[m + 1]
        <5> TAKE k \in R
        <5>1. CASE k = m + 1  BY <3>2, <5>1
        <5>2. CASE k \in Q
          <6>1. f[k] <= f[j] /\ f[k] \in Int  BY <2>4, <3>1, <5>2
          <6>2. QED  BY <3>2, <3>4, <6>1
        <5>3. QED  BY <2>3, <5>1, <5>2
      <4>2. QED  BY <2>7, <4>1
    <3>5. QED  BY <3>2, <3>3, <3>4
  <2>8. QED  BY <2>5, <2>6, <2>7
<1>3. 0 .. n \subseteq Good
  <2> HIDE DEF Good
  <2>1. QED  BY <1>1, <1>2, Climb
<1>4. n \in Good  BY <1>3
<1>5. QED  BY <1>4

LEMMA Smallest ==
  ASSUME NEW n \in Nat, NEW f, \A i \in 1 .. n : f[i] \in Int,
         NEW S \in SUBSET (1 .. n), S # {}
  PROVE  \E j \in S : \A k \in S : f[j] <= f[k]
<1> DEFINE g == [i \in 1 .. n |-> -f[i]]
<1>1. \A i \in 1 .. n : g[i] \in Int /\ g[i] = -f[i]  OBVIOUS
<1> HIDE DEF g
<1>2. PICK j \in S : \A k \in S : g[k] <= g[j]  BY <1>1, Largest
<1>3. \A k \in S : f[k] \in Int /\ g[k] = -f[k]  BY <1>1
<1>4. \A k \in S : f[j] <= f[k]
  <2> TAKE k \in S
  <2>1. g[k] <= g[j] /\ f[k] \in Int /\ f[j] \in Int /\ g[k] = -f[k] /\ g[j] = -f[j]
    BY <1>2, <1>3
  <2>2. QED  BY <2>1
<1>5. QED  BY <1>4

\* Ranks count positions, and grow with the number.
LEMMA RanksGrow ==
  ASSUME NEW xs \in Seq(Int), NEW x \in Int
  PROVE  /\ Below(xs, x) \in 0 .. Len(xs) /\ UpTo(xs, x) \in 0 .. Len(xs)
         /\ Below(xs, x) <= UpTo(xs, x)
         /\ \A y \in Int : x < y => UpTo(xs, x) <= Below(xs, y)
<1> DEFINE D == DOMAIN xs
           B(y) == {i \in D : xs[i] < y}
           U(y) == {i \in D : xs[i] <= y}
<1>1. D = 1 .. Len(xs) /\ Len(xs) \in Nat /\ \A i \in D : xs[i] \in Int
  BY LenProperties
<1>2. IsFiniteSet(D) /\ Cardinality(D) = Len(xs)
  <2>1. IsFiniteSet(1 .. Len(xs))
        /\ Cardinality(1 .. Len(xs)) = IF 1 > Len(xs) THEN 0 ELSE Len(xs) - 1 + 1
    BY <1>1, FS_Interval
  <2> HIDE DEF D
  <2>2. QED  BY <1>1, <2>1
<1> HIDE DEF D
<1>3. \A R \in SUBSET D : IsFiniteSet(R) /\ Cardinality(R) \in Nat /\ Cardinality(R) <= Len(xs)
  BY <1>2, FS_Subset, FS_CardinalityType
<1>4. \A R \in SUBSET D, Q \in SUBSET D : R \subseteq Q => Cardinality(R) <= Cardinality(Q)
  BY <1>3, FS_Subset
<1>5. \A y : B(y) \in SUBSET D /\ U(y) \in SUBSET D  OBVIOUS
<1>6. B(x) \subseteq U(x)  BY <1>1
<1>7. \A y \in Int : x < y => U(x) \subseteq B(y)  BY <1>1
<1>8. \A y : Below(xs, y) = Cardinality(B(y)) /\ UpTo(xs, y) = Cardinality(U(y))
  BY DEF Below, UpTo, D
<1> HIDE DEF B, U
<1>9. Below(xs, x) \in 0 .. Len(xs) /\ UpTo(xs, x) \in 0 .. Len(xs)
  BY <1>1, <1>3, <1>5, <1>8
<1>10. QED  BY <1>4, <1>5, <1>6, <1>7, <1>8, <1>9

\* .sort(): at every place there is a number with as many below it as its place wants.
LEMMA AscendingAt ==
  ASSUME NEW xs \in Seq(Int), NEW i \in 1 .. Len(xs)
  PROVE  LET x == Ascending(xs)[i]
         IN  /\ x \in ToSet(xs) /\ x \in Int
             /\ Below(xs, x) < i /\ i <= UpTo(xs, x)
<1> DEFINE D == DOMAIN xs
           n == Len(xs)
           Ok(x) == Below(xs, x) < i /\ i <= UpTo(xs, x)
           High == {k \in D : i <= UpTo(xs, xs[k])}
<1>1. D = 1 .. n /\ n \in Nat /\ \A k \in 1 .. n : xs[k] \in Int  BY LenProperties
<1>2. IsFiniteSet(D) /\ Cardinality(D) = n
  <2>1. IsFiniteSet(1 .. n) /\ Cardinality(1 .. n) = IF 1 > n THEN 0 ELSE n - 1 + 1
    BY <1>1, FS_Interval
  <2> HIDE DEF D, n
  <2>2. QED  BY <1>1, <2>1
<1>3. \A y : /\ Below(xs, y) = Cardinality({k \in D : xs[k] < y})
             /\ UpTo(xs, y) = Cardinality({k \in D : xs[k] <= y})
  BY DEF Below, UpTo
<1>4. i \in Nat \ {0} /\ i <= n  BY <1>1
<1> HIDE DEF D, n
<1>5. High # {}
  <2>1. D # {} /\ D \in SUBSET (1 .. n)
    <3>1. i \in D  BY <1>1 DEF n
    <3>2. QED  BY <1>1, <3>1
  <2>2. PICK j \in D : \A k \in D : xs[k] <= xs[j]  BY <1>1, <2>1, Largest
  <2>3. {k \in D : xs[k] <= xs[j]} = D  BY <2>2
  <2>4. UpTo(xs, xs[j]) = n  BY <1>2, <1>3, <2>3
  <2>5. QED  BY <1>4, <2>4
<1>6. PICK m \in High : \A k \in High : xs[m] <= xs[k]
  <2>1. High \in SUBSET (1 .. n)  BY <1>1
  <2> HIDE DEF High
  <2>2. QED  BY <1>1, <1>5, <2>1, Smallest
<1> DEFINE a == xs[m]
           Less == {k \in D : xs[k] < a}
<1>7. m \in D /\ a \in Int /\ i <= UpTo(xs, a)  BY <1>1, <1>6
<1>8. Below(xs, a) < i
  <2> SUFFICES ASSUME ~(Below(xs, a) < i) PROVE FALSE  OBVIOUS
  <2>1. Less \in SUBSET D /\ Cardinality(Less) = Below(xs, a)  BY <1>3
  <2>2. IsFiniteSet(Less) /\ Cardinality(Less) \in Nat
    BY <1>2, <2>1, FS_Subset, FS_CardinalityType
  <2>3. i <= Cardinality(Less)  BY <1>4, <2>1, <2>2
  <2>4. Less # {}
    <3> HIDE DEF Less
    <3>1. Less = {} => Cardinality(Less) = 0  BY FS_EmptySet
    <3>2. QED  BY <1>4, <2>2, <2>3, <3>1
  <2>5. PICK j \in Less : \A k \in Less : xs[k] <= xs[j]
    <3>1. Less \in SUBSET (1 .. n)  BY <1>1
    <3> HIDE DEF Less
    <3>2. QED  BY <1>1, <2>4, <3>1, Largest
  <2>6. j \in D /\ xs[j] < a /\ xs[j] \in Int /\ \A k \in D : xs[k] \in Int  BY <1>1
  <2>7. {k \in D : xs[k] <= xs[j]} = Less
    <3>1. \A k \in D : xs[k] <= xs[j] => xs[k] < a  BY <1>7, <2>6
    <3>2. QED  BY <2>5, <3>1
  <2>8. j \in High  BY <1>3, <2>3, <2>6, <2>7
  <2>9. a <= xs[j]  BY <1>6, <2>8
  <2>10. QED  BY <1>7, <2>6, <2>9
<1>9. a \in ToSet(xs) /\ Ok(a)  BY <1>7, <1>8 DEF ToSet, D
<1> HIDE DEF a, Ok
<1>10. Ascending(xs)[i] = CHOOSE x \in ToSet(xs) : Ok(x)
  BY <1>1 DEF Ascending, Ok, D, n
<1>11. Ascending(xs)[i] \in ToSet(xs) /\ Ok(Ascending(xs)[i])  BY <1>9, <1>10
<1>12. \A x \in ToSet(xs) : x \in Int  BY <1>1 DEF ToSet, D
<1>13. QED  BY <1>11, <1>12 DEF Ok

\* It is .sort(): the numbers ascend, and as many as before are up to any number.
THEOREM AscendingSorts ==
  ASSUME NEW xs \in Seq(Int)
  PROVE  /\ Ascending(xs) \in Seq(Int) /\ Len(Ascending(xs)) = Len(xs)
         /\ \A i, j \in 1 .. Len(xs) : i < j => Ascending(xs)[i] <= Ascending(xs)[j]
         /\ \A x \in Int : UpTo(Ascending(xs), x) = UpTo(xs, x)
<1> DEFINE n == Len(xs)
           s == Ascending(xs)
<1>1. n \in Nat /\ DOMAIN xs = 1 .. n  BY LenProperties
<1>2. \A i \in 1 .. n : s[i] \in Int /\ Below(xs, s[i]) < i /\ i <= UpTo(xs, s[i])
  BY AscendingAt
<1>3. s = [i \in 1 .. n |-> s[i]]
  <2>1. DOMAIN s = 1 .. n /\ s = [i \in DOMAIN s |-> s[i]]  BY <1>1 DEF Ascending
  <2> HIDE DEF s, n
  <2>2. QED  BY <2>1
<1> HIDE DEF s, n
<1>4. s \in Seq(Int) /\ Len(s) = n /\ DOMAIN s = 1 .. n
  <2>1. s \in [1 .. n -> Int]  BY <1>2, <1>3
  <2>2. QED  BY <1>1, <2>1, SeqDef, LenProperties
<1>5. \A x \in Int : /\ Below(xs, x) \in 0 .. n /\ UpTo(xs, x) \in 0 .. n
                      /\ \A y \in Int : x < y => UpTo(xs, x) <= Below(xs, y)
  BY RanksGrow DEF n
<1>6. ASSUME NEW i \in 1 .. n, NEW j \in 1 .. n, i < j PROVE s[i] <= s[j]
  <2> SUFFICES ASSUME ~(s[i] <= s[j]) PROVE FALSE  OBVIOUS
  <2>1. s[j] < s[i] /\ s[i] \in Int /\ s[j] \in Int  BY <1>2
  <2>2. UpTo(xs, s[j]) <= Below(xs, s[i])  BY <1>5, <2>1
  <2>3. /\ Below(xs, s[i]) < i /\ j <= UpTo(xs, s[j])
        /\ Below(xs, s[i]) \in 0 .. n /\ UpTo(xs, s[j]) \in 0 .. n
    BY <1>2, <1>5, <2>1
  <2>4. QED  BY <1>1, <1>6, <2>2, <2>3
<1>7. ASSUME NEW x \in Int PROVE UpTo(s, x) = UpTo(xs, x)
  <2> DEFINE u == UpTo(xs, x)
  <2>1. u \in 0 .. n  BY <1>5
  <2>2. ASSUME NEW i \in 1 .. n PROVE s[i] <= x <=> i <= u
    <3>1. s[i] \in Int /\ Below(xs, s[i]) < i /\ i <= UpTo(xs, s[i])  BY <1>2
    <3>2. Below(xs, s[i]) \in 0 .. n /\ UpTo(xs, s[i]) \in 0 .. n  BY <1>5, <3>1
    <3>3. CASE s[i] <= x
      <4>1. CASE s[i] = x  BY <3>1, <4>1
      <4>2. CASE s[i] < x
        <5>1. UpTo(xs, s[i]) <= Below(xs, x) /\ Below(xs, x) \in 0 .. n  BY <1>5, <3>1, <4>2
        <5>2. Below(xs, x) <= u  BY RanksGrow
        <5> HIDE DEF u
        <5>3. QED  BY <1>1, <2>1, <3>1, <3>2, <3>3, <5>1, <5>2
      <4>3. QED  BY <3>1, <3>3, <4>1, <4>2
    <3>4. CASE x < s[i]
      <4>1. u <= Below(xs, s[i])  BY <1>5, <3>1, <3>4
      <4> HIDE DEF u
      <4>2. QED  BY <1>1, <2>1, <3>1, <3>2, <3>4, <4>1
    <3>5. QED  BY <3>1, <3>3, <3>4
  <2> HIDE DEF u
  <2>3. {i \in 1 .. n : s[i] <= x} = 1 .. u  BY <1>1, <2>1, <2>2
  <2>4. UpTo(s, x) = Cardinality(1 .. u)  BY <1>4, <2>3 DEF UpTo
  <2>5. Cardinality(1 .. u) = IF 1 > u THEN 0 ELSE u - 1 + 1  BY <2>1, FS_Interval
  <2>6. QED  BY <1>1, <2>1, <2>4, <2>5 DEF u
<1>8. QED  BY <1>4, <1>6, <1>7 DEF s, n

\* The one number of a list of one.
LEMMA AscendingOne ==
  ASSUME NEW x \in Int
  PROVE  Ascending(<< x >>)[1] = x
<1>1. << x >> \in Seq(Int) /\ Len(<< x >>) = 1 /\ 1 \in 1 .. Len(<< x >>)  OBVIOUS
<1>2. Ascending(<< x >>)[1] \in ToSet(<< x >>)  BY <1>1, AscendingAt
<1>3. ToSet(<< x >>) = {x}  BY DEF ToSet
<1>4. QED  BY <1>2, <1>3

LEMMA MedianOfOne == \A x \in Int : Median(<< x >>) = x /\ Median(<< >>) = Null
<1> SUFFICES ASSUME NEW x \in Int PROVE Median(<< x >>) = x /\ Median(<< >>) = Null
  OBVIOUS
<1>1. << x >> # << >> /\ Len(<< x >>) = 1 /\ (1 \div 2) + 1 = 1  OBVIOUS
<1>2. Median(<< x >>) = Ascending(<< x >>)[1]  BY <1>1 DEF Median
<1>3. QED  BY <1>2, AscendingOne DEF Median

\* The mean of the middle two is a number, or a dash.
LEMMA MiddleIsInt ==
  ASSUME NEW xs \in Seq(Int)
  PROVE  Median(xs) \in Int /\ OrZero(MedianAvg2(xs)) \in Int
<1> DEFINE n == Len(xs)
           s == Ascending(xs)
           mid == (n \div 2) + 1
<1>1. CASE xs = << >>
  BY <1>1 DEF Median, MedianAvg2, OrZero, Null
<1>2. CASE xs # << >>
  <2>1. n \in Nat \ {0}  BY <1>2, EmptySeq
  <2>2. \A i \in 1 .. n : s[i] \in Int  BY AscendingAt
  <2>3. Median(xs) = s[mid]  BY <1>2 DEF Median
  <2>4. MedianAvg2(xs) = IF n % 2 # 0 THEN 2 * s[mid] ELSE s[mid - 1] + s[mid]
    BY <1>2 DEF MedianAvg2
  <2> HIDE DEF s, n
  <2>5. mid \in 1 .. n /\ (n % 2 # 0 \/ mid - 1 \in 1 .. n)  BY <2>1
  <2> HIDE DEF mid
  <2>6. s[mid] \in Int /\ (n % 2 # 0 \/ s[mid - 1] \in Int)  BY <2>2, <2>5
  <2>7. MedianAvg2(xs) \in Int  BY <2>4, <2>6
  <2>8. QED  BY <2>3, <2>6, <2>7 DEF OrZero
<1>3. QED  BY <1>1, <1>2

\* liveStats.ts:50-61: a higher percentile is no lower, and neither is below the median.
THEOREM PercentilesInOrder ==
  ASSUME NEW xs \in Seq(Int), xs # << >>
  PROVE  Median(xs) <= Pct(xs, 90) /\ Pct(xs, 90) <= Pct(xs, 99)
<1> DEFINE n == Len(xs)
           s == Ascending(xs)
           At(p) == IF n <= ((p * n) \div 100) + 1 THEN n ELSE ((p * n) \div 100) + 1
           mid == (n \div 2) + 1
<1>1. n \in Nat \ {0}  BY EmptySeq
<1>2. \A p \in {90, 99} : Pct(xs, p) = s[At(p)]
  <2>1. \A a, b \in Int : Min({a, b}) = IF a <= b THEN a ELSE b
    <3> SUFFICES ASSUME NEW a \in Int, NEW b \in Int
                 PROVE  Min({a, b}) = IF a <= b THEN a ELSE b
      OBVIOUS
    <3> DEFINE m == IF a <= b THEN a ELSE b
    <3>1. m \in {a, b} /\ \A y \in {a, b} : m =< y  OBVIOUS
    <3>2. \A x \in {a, b} : (\A y \in {a, b} : x =< y) => x = m  OBVIOUS
    <3>3. QED  BY <3>1, <3>2 DEF Min
  <2> SUFFICES ASSUME NEW p \in {90, 99} PROVE Pct(xs, p) = s[At(p)]  OBVIOUS
  <2>2. Pct(xs, p) = s[Min({n, ((p * n) \div 100) + 1})]  BY DEF Pct
  <2> HIDE DEF n, s
  <2>3. ((p * n) \div 100) + 1 \in Int  BY <1>1
  <2>4. Min({n, ((p * n) \div 100) + 1}) = At(p)  BY <1>1, <2>1, <2>3
  <2>5. QED  BY <2>2, <2>4
<1>3. Median(xs) = s[mid]  BY DEF Median
<1>4. /\ s \in Seq(Int) /\ Len(s) = n
      /\ \A i, j \in 1 .. n : i < j => s[i] <= s[j]
  BY AscendingSorts
<1> HIDE DEF n, s
<1>5. mid \in 1 .. n /\ At(90) \in 1 .. n /\ At(99) \in 1 .. n
  BY <1>1
<1>6. mid <= At(90) /\ At(90) <= At(99)  BY <1>1
<1>7. \A i, j \in 1 .. n : i <= j => s[i] <= s[j]
  <2> SUFFICES ASSUME NEW i \in 1 .. n, NEW j \in 1 .. n, i <= j PROVE s[i] <= s[j]
    OBVIOUS
  <2>1. i < j \/ i = j  OBVIOUS
  <2>2. s[i] \in Int  BY <1>4
  <2>3. QED  BY <1>4, <2>1, <2>2
<1> HIDE DEF At, mid
<1>8. QED  BY <1>2, <1>3, <1>5, <1>6, <1>7

-----------------------------------------------------------------------------
(* What the panels rest on beyond LabInv.                                  *)

IsFire(b) == jobs[b.id].kind = "fire"

\* An accepted event of the simulator or a button is probed, a refused one is not.
JobTold(j) ==
  /\ j.kind \in {"sim", "click"} /\ j.stage = "acked" => j.raw # "off"
  /\ j.stage = "refused" => j.raw = "off"
  /\ j.stage = "painting" => j.kind = "click"

\* A word on a row is a probe's, or the route's own; a fire has its bar when it is done.
BarTold(b) ==
  /\ b.it # NoWord => jobs[b.id].raw # "off" \/ IsFire(b)
  /\ b.source = "ws" => b.render = 0
  /\ IsFire(b) => jobs[b.id].stage = "done"

JobsTold == \A e \in Events : JobTold(jobs[e])
ToldBars == {b \in Bar : BarTold(b)}
BarsTold == \A i \in DOMAIN bars : bars[i] \in ToldBars
MissedTold == \A e \in missed : jobs[e].kind \in {"sim", "click"}

\* The events that the simulator has counted: one sample tells which.
IsCounted(j) == j.kind = "sim" /\ j.stage = "done" /\ j.raw # "off"
Counted == {e \in Events : IsCounted(jobs[e])}
SimTold ==
  /\ sim.count = 0 => Counted = {} /\ sim.ingress = << >>
  /\ sim.count = 1 => \E e \in Events : Counted = {e} /\ sim.ingress = << Profile[e].hop >>

\* Counted from the last: as long as the bars are of fires, the samples are theirs.
FromEnd(s, d) == s[Len(s) - d]
FiresTold ==
  /\ \A d \in 0 .. Len(bars) - 1 :
       (\A c \in 0 .. d : IsFire(FromEnd(bars, c))) =>
         /\ d < Len(served)
         /\ FromEnd(served, d) = ClickToScreen(Profile[FromEnd(bars, d).id])
  /\ Len(bars) < MAX_LATENCY_BARS => Len(served) <= Len(bars)

PanelInv == LabInv /\ JobsTold /\ BarsTold /\ MissedTold /\ SimTold /\ FiresTold

LEMMA InitPanels == ASSUME LabAssumption, LabInit PROVE PanelInv
<1>1. LabInv  BY InitLab
<1>2. \A e \in Events : jobs[e].kind = "none" /\ jobs[e].stage = "none"
  BY DEF LabInit, Quiet
<1>3. JobsTold  BY <1>2 DEF JobsTold, JobTold
<1>4. bars = << >> /\ missed = {} /\ served = << >> /\ sim.count = 0 /\ sim.ingress = << >>
  BY DEF LabInit
<1>5. BarsTold /\ MissedTold  BY <1>4 DEF BarsTold, MissedTold
<1>6. SimTold  BY <1>2, <1>4 DEF SimTold, Counted, IsCounted
<1>7. FiresTold
  <2>1. Len(bars) = 0 /\ Len(served) = 0  BY <1>4
  <2>2. 0 .. Len(bars) - 1 = {}  BY <2>1
  <2>3. QED  BY <2>1, <2>2 DEF FiresTold
<1>8. QED  BY <1>1, <1>3, <1>5, <1>6, <1>7 DEF PanelInv

-----------------------------------------------------------------------------
(* The jobs.                                                               *)

DoneStays == \A e \in Events : jobs[e].stage = "done" => jobs'[e].stage = "done"

\* What a step that moves the job of e leaves.
LEMMA JobMoves ==
  ASSUME JobsInv, JobsTold, NEW e \in Events, NEW j, jobs' = [jobs EXCEPT ![e] = j],
         JobTold(j),
         jobs[e].kind # "none" => j.kind = jobs[e].kind,
         jobs[e].raw # "off" => j.raw # "off",
         jobs[e].stage = "done" => j.stage = "done"
  PROVE  /\ KindsStay /\ DoneStays /\ JobsTold'
         /\ (IsCounted(j) <=> IsCounted(jobs[e])) => Counted' = Counted
         /\ IsCounted(j) => Counted' = Counted \union {e}
<1>1. \A d \in Events : jobs'[d] = IF d = e THEN j ELSE jobs[d]  BY DEF JobsInv
<1>2. KindsStay /\ DoneStays  BY <1>1 DEF KindsStay, DoneStays
<1>3. JobsTold'
  <2>1. \A d \in Events : JobTold(jobs'[d])  BY <1>1 DEF JobsTold
  <2>2. QED  BY <2>1 DEF JobsTold, JobTold
<1>4. Counted' = {d \in Events : IsCounted(jobs'[d])}  BY DEF Counted, IsCounted
<1>5. QED  BY <1>1, <1>2, <1>3, <1>4 DEF Counted

LEMMA JobsMove ==
  ASSUME LabAssumption, PanelInv, LabNext
  PROVE  /\ KindsStay /\ DoneStays /\ JobsTold'
         /\ (\A e \in Events : ~SimAnswered(e)) => Counted' = Counted
<1>0. JobsInv /\ JobsTold /\ \A e \in Events : jobs[e] \in Job /\ JobOk(jobs[e]) /\ JobTold(jobs[e])
  BY DEF PanelInv, LabInv, JobsInv, JobsTold
<1> DEFINE Goal == /\ KindsStay /\ DoneStays /\ JobsTold'
                   /\ (\A e \in Events : ~SimAnswered(e)) => Counted' = Counted
<1>1. CASE Deliver \/ Cut
  <2>1. jobs' = jobs  BY <1>1 DEF Deliver, Cut
  <2>2. QED
    BY <1>0, <2>1 DEF KindsStay, DoneStays, JobsTold, JobTold, Counted, IsCounted
<1>2. ASSUME NEW e \in Events, NEW kind \in {"sim", "click", "fire"}, Post(e, kind) PROVE Goal
  <2> DEFINE j == [jobs[e] EXCEPT !.kind = kind, !.stage = "posted"]
  <2>1. jobs' = [jobs EXCEPT ![e] = j]  BY <1>2 DEF Post
  <2>2. jobs[e].kind = "none" /\ jobs[e].stage = "none" /\ jobs[e].raw = "off"
    BY <1>2 DEF Post, Quiet
  <2>3. j.kind = kind /\ j.stage = "posted"  BY <1>0 DEF Job
  <2> HIDE DEF j
  <2>4. JobTold(j) /\ ~IsCounted(j) /\ ~IsCounted(jobs[e])
    BY <2>2, <2>3 DEF JobTold, IsCounted
  <2>5. QED  BY <1>0, <2>1, <2>2, <2>4, JobMoves
<1>3. ASSUME NEW e \in Events, VmAnswers(e) PROVE Goal
  <2> DEFINE j == IF jobs[e].kind = "fire" THEN [jobs[e] EXCEPT !.stage = "acked"]
                  ELSE [jobs[e] EXCEPT !.stage = "acked", !.raw = "probing", !.book = "probing"]
  <2>1. jobs' = [jobs EXCEPT ![e] = j]  BY <1>0, <1>3 DEF VmAnswers, JobsInv
  <2>2. /\ j.kind = jobs[e].kind /\ j.stage = "acked" /\ jobs[e].stage = "posted"
        /\ jobs[e].kind # "fire" => j.raw = "probing"
        /\ jobs[e].kind = "fire" => j.raw = jobs[e].raw
    BY <1>0, <1>3 DEF VmAnswers, Job
  <2> HIDE DEF j
  <2>3. JobTold(j) /\ ~IsCounted(j) /\ ~IsCounted(jobs[e])
    BY <2>2 DEF JobTold, IsCounted
  <2>4. QED  BY <1>0, <2>1, <2>2, <2>3, JobMoves
<1>4. ASSUME NEW e \in Events, Refuses(e) PROVE Goal
  <2> DEFINE j == [jobs[e] EXCEPT !.stage = "refused"]
  <2>1. jobs' = [jobs EXCEPT ![e] = j]  BY <1>0, <1>4 DEF Refuses, JobsInv
  <2>2. /\ j.kind = jobs[e].kind /\ j.stage = "refused" /\ j.raw = jobs[e].raw
        /\ jobs[e].stage = "posted" \/ (jobs[e].kind = "fire" /\ jobs[e].stage = "acked")
    <3>1. j.kind = jobs[e].kind /\ j.stage = "refused" /\ j.raw = jobs[e].raw
      BY <1>0 DEF Job
    <3>2. jobs[e].stage = "posted" \/ (jobs[e].kind = "fire" /\ jobs[e].stage = "acked")
      BY <1>4 DEF Refuses
    <3>3. QED  BY <3>1, <3>2
  <2> HIDE DEF j
  <2>3. jobs[e].raw = "off"  BY <1>0, <2>2 DEF JobOk
  <2>4. JobTold(j) /\ ~IsCounted(j) /\ ~IsCounted(jobs[e])
    BY <2>2, <2>3 DEF JobTold, IsCounted
  <2>5. QED  BY <1>0, <2>1, <2>2, <2>4, JobMoves
<1>5. ASSUME NEW e \in Events, NEW table \in {"raw", "book"}, NEW word \in {"real", "floor"},
             ProbeSpeaks(e, table, word)
      PROVE  Goal
  <2> DEFINE j == [jobs[e] EXCEPT ![table] = "told"]
  <2>1. jobs' = [jobs EXCEPT ![e] = j]  BY <1>5 DEF ProbeSpeaks
  <2>2. /\ j.kind = jobs[e].kind /\ j.stage = jobs[e].stage
        /\ jobs[e][table] = "probing"
        /\ j.raw = "off" <=> jobs[e].raw = "off"
    BY <1>0, <1>5 DEF ProbeSpeaks, Job
  <2> HIDE DEF j
  <2>3. JobTold(j) /\ (IsCounted(j) <=> IsCounted(jobs[e]))
    BY <1>0, <2>2 DEF JobTold, IsCounted
  <2>4. QED  BY <1>0, <2>1, <2>2, <2>3, JobMoves
<1>6. ASSUME NEW e \in Events, NEW stage \in {"painting", "done"}, jobs' = [jobs EXCEPT ![e].stage = stage],
             jobs[e].stage # "done", stage = "painting" => jobs[e].kind = "click",
             jobs[e].kind = "sim" => SimAnswered(e)
      PROVE  Goal
  <2> DEFINE j == [jobs[e] EXCEPT !.stage = stage]
  <2>1. jobs' = [jobs EXCEPT ![e] = j]  BY <1>0, <1>6 DEF JobsInv
  <2>2. j.kind = jobs[e].kind /\ j.stage = stage /\ j.raw = jobs[e].raw  BY <1>0 DEF Job
  <2> HIDE DEF j
  <2>3. JobTold(j)  BY <1>6, <2>2 DEF JobTold
  <2>4. jobs[e].kind # "sim" => (IsCounted(j) <=> IsCounted(jobs[e]))
    BY <2>2 DEF IsCounted
  <2>5. QED  BY <1>0, <1>6, <2>1, <2>2, <2>3, <2>4, JobMoves
<1>7. ASSUME NEW e \in Events, ClickAnswered(e) PROVE Goal
  <2>1. /\ jobs' = [jobs EXCEPT ![e].stage = IF jobs[e].stage = "acked" THEN "painting" ELSE "done"]
        /\ jobs[e].kind = "click" /\ jobs[e].stage # "done"
    BY <1>0, <1>7 DEF ClickAnswered, JobsInv
  <2>2. PICK stage \in {"painting", "done"} :
          stage = IF jobs[e].stage = "acked" THEN "painting" ELSE "done"
    OBVIOUS
  <2>3. QED  BY <1>6, <2>1, <2>2
<1>8. ASSUME NEW e \in Events, ClickPainted(e) PROVE Goal
  <2>1. /\ jobs' = [jobs EXCEPT ![e].stage = "done"]
        /\ jobs[e].kind = "click" /\ jobs[e].stage # "done"
    BY <1>0, <1>8 DEF ClickPainted, JobTold
  <2>2. PICK stage \in {"painting", "done"} : stage = "done"  OBVIOUS
  <2>3. QED  BY <1>6, <2>1, <2>2
<1>9. ASSUME NEW e \in Events, SimAnswered(e) \/ \E found \in BOOLEAN : FireAnswered(e, found)
      PROVE  Goal
  <2>1. /\ jobs' = [jobs EXCEPT ![e].stage = "done"] /\ jobs[e].stage # "done"
        /\ jobs[e].kind = "sim" => SimAnswered(e)
    BY <1>9 DEF SimAnswered, FireAnswered
  <2>2. PICK stage \in {"painting", "done"} : stage = "done"  OBVIOUS
  <2>3. QED  BY <1>6, <2>1, <2>2
<1>10. QED
  BY <1>1, <1>2, <1>3, <1>4, <1>5, <1>7, <1>8, <1>9 DEF LabNext

-----------------------------------------------------------------------------
(* The bars.                                                               *)

\* What the end of a cut sequence holds: the last element, and before it the end of q.
EndsWith(r, q, x, n) ==
  /\ Len(r) = IF Len(q) < n THEN Len(q) + 1 ELSE n
  /\ FromEnd(r, 0) = x
  /\ \A d \in 1 .. Len(r) - 1 : d <= Len(q) /\ FromEnd(r, d) = FromEnd(q, d - 1)

LEMMA EndOfThem ==
  ASSUME NEW S, NEW q \in Seq(S), NEW x \in S, NEW n \in Nat \ {0}, Len(q) <= n
  PROVE  EndsWith(LastN(Append(q, x), n), q, x, n)
<1> DEFINE r == LastN(Append(q, x), n)
           s == Append(q, x)
           m == IF Len(s) > n THEN Len(s) - n + 1 ELSE 1
<1>1. /\ s \in Seq(S) /\ Len(s) = Len(q) + 1 /\ Len(q) \in Nat /\ s[Len(q) + 1] = x
      /\ \A i \in 1 .. Len(q) : s[i] = q[i]
  OBVIOUS
<1>2. m \in 1 .. Len(s) /\ m \in Int /\ Len(s) \in Int  BY <1>1
<1>3. Len(s) - m + 1 = IF Len(q) < n THEN Len(q) + 1 ELSE n
  <2>1. Len(s) = Len(q) + 1 /\ Len(q) \in Nat  BY <1>1
  <2> HIDE DEF s
  <2>2. CASE Len(q) < n
    <3>1. ~(Len(s) > n) /\ m = 1  BY <2>1, <2>2
    <3> HIDE DEF m
    <3>2. QED  BY <2>1, <2>2, <3>1
  <2>3. CASE Len(q) = n
    <3>1. Len(s) > n /\ m = Len(s) - n + 1  BY <2>1, <2>3
    <3> HIDE DEF m
    <3>2. QED  BY <2>1, <2>3, <3>1
  <2> HIDE DEF m
  <2>4. QED  BY <2>1, <2>2, <2>3
<1>4. r = SubSeq(s, m, Len(s))  BY DEF LastN
<1> HIDE DEF r, s, m
<1>5. \A i \in m .. Len(s) : s[i] \in S  BY <1>1, <1>2, ElementOfSeq
<1>6. /\ r \in Seq(S) /\ Len(r) = Len(s) - m + 1
      /\ \A i \in 1 .. Len(s) - m + 1 : r[i] = s[m + i - 1]
  BY <1>2, <1>4, <1>5, SubSeqProperties
<1>7. Len(r) \in Nat \ {0}  BY <1>1, <1>3, <1>6
<1>8. FromEnd(r, 0) = x
  <2>1. Len(r) \in 1 .. Len(s) - m + 1 /\ m + Len(r) - 1 = Len(q) + 1
    BY <1>1, <1>2, <1>6, <1>7
  <2>2. r[Len(r)] = x  BY <1>1, <1>6, <2>1
  <2>3. Len(r) - 0 = Len(r)  BY <1>7
  <2>4. QED  BY <2>2, <2>3 DEF FromEnd
<1>9. ASSUME NEW d \in 1 .. Len(r) - 1
      PROVE  d <= Len(q) /\ FromEnd(r, d) = FromEnd(q, d - 1)
  <2>1. /\ Len(r) - d \in 1 .. Len(s) - m + 1
        /\ m + (Len(r) - d) - 1 = Len(q) - (d - 1)
        /\ Len(q) - (d - 1) \in 1 .. Len(q) /\ d <= Len(q)
    BY <1>1, <1>2, <1>6, <1>7
  <2>2. r[Len(r) - d] = s[Len(q) - (d - 1)]  BY <1>6, <2>1
  <2>3. s[Len(q) - (d - 1)] = q[Len(q) - (d - 1)]  BY <1>1, <2>1
  <2>4. QED  BY <2>1, <2>2, <2>3 DEF FromEnd
<1>10. EndsWith(r, q, x, n)  BY <1>3, <1>6, <1>8, <1>9 DEF EndsWith
<1>11. QED  BY <1>10 DEF r

\* The bars of a job are told of.
LEMMA BarsAre ==
  ASSUME LabInv
  PROVE  /\ Len(bars) \in Nat /\ DOMAIN bars = 1 .. Len(bars) /\ Len(bars) <= MAX_LATENCY_BARS
         /\ \A i \in 1 .. Len(bars) :
              bars[i] \in Bar /\ bars[i].id \in Events /\ jobs[bars[i].id].kind # "none"
<1>1. bars \in Seq(GoodBars) /\ Len(bars) <= MAX_LATENCY_BARS  BY DEF LabInv, BarsInv
<1>2. Len(bars) \in Nat /\ DOMAIN bars = 1 .. Len(bars)  BY <1>1, LenProperties
<1>3. ASSUME NEW i \in 1 .. Len(bars)
      PROVE  bars[i] \in Bar /\ bars[i].id \in Events /\ jobs[bars[i].id].kind # "none"
  <2>1. bars[i] \in GoodBars  BY <1>1, ElementOfSeq
  <2>2. QED  BY <2>1 DEF GoodBars, Bar, BarOk
<1>4. QED  BY <1>1, <1>2, <1>3

LEMMA ToldStay ==
  ASSUME LabInv, BarsTold, KindsStay, DoneStays
  PROVE  \A i \in 1 .. Len(bars) : bars[i] \in ToldBars'
<1> SUFFICES ASSUME NEW i \in 1 .. Len(bars) PROVE bars[i] \in ToldBars'  OBVIOUS
<1> DEFINE b == bars[i]
<1>1. b \in Bar /\ BarTold(b) /\ b.id \in Events /\ jobs[b.id].kind # "none"
  BY BarsAre DEF BarsTold, ToldBars
<1> HIDE DEF b
<1>2. b \in ToldBars'
  BY <1>1 DEF ToldBars, BarTold, IsFire, KindsStay, DoneStays
<1>3. QED  BY <1>2 DEF b

\* Bars that keep their events and their order, and samples that stay.
LEMMA SameEnds ==
  ASSUME LabInv, FiresTold, KindsStay, DoneStays, served' = served, Len(bars') = Len(bars),
         \A i \in 1 .. Len(bars) : bars'[i].id = bars[i].id
  PROVE  FiresTold'
<1> DEFINE n == Len(bars)
<1>1. n \in Nat /\ \A i \in 1 .. n : bars[i].id \in Events /\ jobs[bars[i].id].kind # "none"
  BY BarsAre
<1>2. \A c \in 0 .. n - 1 : /\ FromEnd(bars', c).id = FromEnd(bars, c).id
                            /\ IsFire(FromEnd(bars, c))' <=> IsFire(FromEnd(bars, c))
  <2> SUFFICES ASSUME NEW c \in 0 .. n - 1
               PROVE  /\ FromEnd(bars', c).id = FromEnd(bars, c).id
                      /\ IsFire(FromEnd(bars, c))' <=> IsFire(FromEnd(bars, c))
    OBVIOUS
  <2>1. n - c \in 1 .. n  BY <1>1
  <2>2. bars'[n - c].id = bars[n - c].id  BY <2>1
  <2>3. /\ jobs'[bars'[n - c].id].kind = jobs[bars[n - c].id].kind
    BY <1>1, <2>1, <2>2 DEF KindsStay
  <2>4. QED  BY <2>2, <2>3 DEF FromEnd, IsFire
<1>3. \A d \in 0 .. n - 1 :
        (\A c \in 0 .. d : IsFire(FromEnd(bars, c))') =>
          (\A c \in 0 .. d : IsFire(FromEnd(bars, c)))
  <2> SUFFICES ASSUME NEW d \in 0 .. n - 1, \A c \in 0 .. d : IsFire(FromEnd(bars, c))',
                      NEW c \in 0 .. d
               PROVE  IsFire(FromEnd(bars, c))
    OBVIOUS
  <2>1. c \in 0 .. n - 1  BY <1>1
  <2>2. QED  BY <1>2, <2>1
<1>4. \A d \in 0 .. n - 1 :
        (\A c \in 0 .. d : IsFire(FromEnd(bars, c))') =>
          /\ d < Len(served')
          /\ FromEnd(served', d) = ClickToScreen(Profile[FromEnd(bars', d).id])
  <2> SUFFICES ASSUME NEW d \in 0 .. n - 1, \A c \in 0 .. d : IsFire(FromEnd(bars, c))'
               PROVE  /\ d < Len(served')
                      /\ FromEnd(served', d) = ClickToScreen(Profile[FromEnd(bars', d).id])
    OBVIOUS
  <2>1. /\ d < Len(served)
        /\ FromEnd(served, d) = ClickToScreen(Profile[FromEnd(bars, d).id])
    BY <1>3 DEF FiresTold
  <2>2. FromEnd(bars', d).id = FromEnd(bars, d).id  BY <1>2
  <2>3. QED  BY <2>1, <2>2
<1>5. QED  BY <1>4 DEF FiresTold

\* A bar is added: at the end, or in the place of the event's, or not at all.
LEMMA AddedIs ==
  ASSUME LabAssumption, LabInv, NEW b \in Bar, NEW r, r = AddLatencyBar(bars, b)
  PROVE  \/ /\ Len(r) = Len(bars) /\ DOMAIN r = DOMAIN bars
            /\ \E i \in 1 .. Len(bars) : bars[i].id = b.id
            /\ \A i \in 1 .. Len(bars) :
                 r[i] = bars[i] \/ (r[i] = b /\ bars[i].id = b.id /\ b.source = "client")
         \/ /\ r = LastN(Append(bars, b), MAX_LATENCY_BARS)
            /\ bars \in Seq(Bar)
<1>1. /\ Len(bars) \in Nat /\ DOMAIN bars = 1 .. Len(bars)
      /\ \A i \in 1 .. Len(bars) : bars[i] \in Bar
  BY BarsAre
<1>2. CASE BarsOf(bars, b.id) = {}
  <2>1. r = LastN(Append(bars, b), MAX_LATENCY_BARS)  BY <1>2 DEF AddLatencyBar
  <2>2. bars \in Seq(GoodBars)  BY DEF LabInv, BarsInv
  <2>3. bars \in Seq(Bar)  BY <1>1, <2>2, Wider
  <2>4. QED  BY <2>1, <2>3
<1>3. CASE BarsOf(bars, b.id) # {}
  <2>1. r = [i \in DOMAIN bars |->
               IF bars[i].id = b.id /\ b.source = "client" /\ bars[i].source # "client"
                 THEN b ELSE bars[i]]
    BY <1>3 DEF AddLatencyBar
  <2>2. DOMAIN r = 1 .. Len(bars)  BY <1>1, <2>1
  <2>3. Len(r) = Len(bars)
    <3>1. r \in Seq(Bar \union {b})  BY <1>1, <2>1
    <3>2. QED  BY <1>1, <2>2, <3>1, LenProperties
  <2>4. \E i \in 1 .. Len(bars) : bars[i].id = b.id  BY <1>1, <1>3 DEF BarsOf
  <2>5. QED  BY <1>1, <2>1, <2>2, <2>3, <2>4
<1>4. QED  BY <1>2, <1>3

\* A bar that is added is told of, and so are those that were there.
LEMMA AddedTold ==
  ASSUME LabAssumption, LabInv, BarsTold, KindsStay, DoneStays, NEW b \in ToldBars',
         bars' = AddLatencyBar(bars, b)
  PROVE  BarsTold'
<1> DEFINE n == Len(bars)
<1>1. n \in Nat /\ DOMAIN bars = 1 .. n /\ n <= MAX_LATENCY_BARS  BY BarsAre
<1>2. \A i \in 1 .. n : bars[i] \in ToldBars'  BY ToldStay
<1>3. b \in Bar  BY DEF ToldBars
<1>4. CASE /\ DOMAIN bars' = DOMAIN bars
           /\ \A i \in 1 .. n : bars'[i] = bars[i] \/ bars'[i] = b
  BY <1>1, <1>2, <1>4 DEF BarsTold
<1>5. CASE bars' = LastN(Append(bars, b), MAX_LATENCY_BARS) /\ bars \in Seq(Bar)
  <2>1. bars \in Seq(ToldBars')  BY <1>1, <1>2, <1>5, Wider
  <2>2. MAX_LATENCY_BARS \in Nat \ {0}  BY DEF LabAssumption
  <2>3. bars' \in Seq(ToldBars')  BY <1>5, <2>1, <2>2, LastOfThem
  <2>4. QED  BY <2>3, LenProperties DEF BarsTold
<1>6. QED  BY <1>3, <1>4, <1>5, AddedIs

\* A bar that is not a fire's: no sample is added, and none is asked for at the end.
LEMMA NoFireAdded ==
  ASSUME LabAssumption, LabInv, FiresTold, KindsStay, DoneStays, served' = served,
         NEW b \in Bar, bars' = AddLatencyBar(bars, b), ~IsFire(b)'
  PROVE  FiresTold'
<1> DEFINE n == Len(bars)
<1>1. n \in Nat /\ n <= MAX_LATENCY_BARS  BY BarsAre
<1>2. CASE /\ Len(bars') = n
           /\ \A i \in 1 .. n : bars'[i] = bars[i] \/ (bars'[i] = b /\ bars[i].id = b.id)
  BY <1>2, SameEnds
<1>3. CASE bars' = LastN(Append(bars, b), MAX_LATENCY_BARS) /\ bars \in Seq(Bar)
  <2>1. MAX_LATENCY_BARS \in Nat \ {0}  BY DEF LabAssumption
  <2>2. /\ FromEnd(bars', 0) = b
        /\ Len(bars') = IF n < MAX_LATENCY_BARS THEN n + 1 ELSE MAX_LATENCY_BARS
    <3>1. EndsWith(bars', bars, b, MAX_LATENCY_BARS)  BY <1>1, <1>3, <2>1, EndOfThem
    <3>2. QED  BY <3>1 DEF EndsWith
  <2>3. Len(bars') \in Nat  BY <1>1, <2>1, <2>2
  <2>4. ~IsFire(FromEnd(bars, 0))'  BY <2>2 DEF IsFire
  <2>5. Len(bars') < MAX_LATENCY_BARS => Len(served') <= Len(bars')
    <3>1. Len(bars) < MAX_LATENCY_BARS => Len(served) <= Len(bars)  BY DEF FiresTold
    <3>2. served \in Seq(Nat)  BY DEF LabInv, CountInv
    <3>3. Len(served) \in Nat  BY <3>2, LenProperties
    <3>4. QED  BY <1>1, <2>1, <2>2, <3>1, <3>3
  <2>6. \A d \in 0 .. Len(bars') - 1 : 0 \in 0 .. d  OBVIOUS
  <2>7. \A d \in 0 .. Len(bars') - 1 : ~(\A c \in 0 .. d : IsFire(FromEnd(bars, c))')
    BY <2>4, <2>6
  <2>8. QED  BY <2>5, <2>7 DEF FiresTold
<1>4. QED  BY <1>2, <1>3, AddedIs

\* A fire that found its row: its bar and its sample are both the last.
LEMMA FireAdded ==
  ASSUME LabAssumption, SERVED_SAMPLES = MAX_LATENCY_BARS, LabInv, BarsTold, FiresTold,
         KindsStay, DoneStays,
         NEW e \in Events, jobs[e].kind = "fire", jobs[e].stage # "done",
         NEW b \in Bar, b.id = e, bars' = AddLatencyBar(bars, b),
         served' = LastN(Append(served, ClickToScreen(Profile[e])), SERVED_SAMPLES)
  PROVE  FiresTold'
<1> DEFINE n == Len(bars)
           k == Len(served)
           x == ClickToScreen(Profile[e])
<1>1. /\ n \in Nat /\ n <= MAX_LATENCY_BARS /\ DOMAIN bars = 1 .. n
      /\ \A i \in 1 .. n : bars[i].id \in Events /\ jobs[bars[i].id].kind # "none"
  BY BarsAre
<1>2. ~ \E i \in 1 .. n : bars[i].id = b.id
  BY <1>1 DEF BarsTold, ToldBars, BarTold, IsFire
<1>3. MAX_LATENCY_BARS \in Nat \ {0}  BY DEF LabAssumption
<1>4. /\ FromEnd(bars', 0) = b
      /\ Len(bars') = IF n < MAX_LATENCY_BARS THEN n + 1 ELSE MAX_LATENCY_BARS
      /\ \A d \in 1 .. Len(bars') - 1 : d <= n /\ FromEnd(bars', d) = FromEnd(bars, d - 1)
  <2>1. bars \in Seq(Bar) /\ bars' = LastN(Append(bars, b), MAX_LATENCY_BARS)
    BY <1>1, <1>2, AddedIs
  <2>2. Len(bars) <= MAX_LATENCY_BARS  BY <1>1
  <2>3. EndsWith(bars', bars, b, MAX_LATENCY_BARS)  BY <1>3, <2>1, <2>2, EndOfThem
  <2>4. QED  BY <2>3 DEF EndsWith
<1>5. served \in Seq(Nat) /\ k <= SERVED_SAMPLES /\ k \in Nat
  <2>1. served \in Seq(Nat) /\ k <= SERVED_SAMPLES  BY DEF LabInv, CountInv
  <2>2. QED  BY <2>1, LenProperties
<1>6. /\ FromEnd(served', 0) = x
      /\ Len(served') = IF k < SERVED_SAMPLES THEN k + 1 ELSE SERVED_SAMPLES
      /\ \A d \in 1 .. Len(served') - 1 : FromEnd(served', d) = FromEnd(served, d - 1)
  <2>1. x \in Nat  BY Clocks
  <2>2. SERVED_SAMPLES \in Nat \ {0}  BY <1>3
  <2>3. served \in Seq(Nat) /\ Len(served) <= SERVED_SAMPLES  BY <1>5
  <2> HIDE DEF x, k
  <2>4. served' = LastN(Append(served, x), SERVED_SAMPLES)  BY DEF x
  <2>5. EndsWith(served', served, x, SERVED_SAMPLES)
    BY <2>1, <2>2, <2>3, <2>4, EndOfThem
  <2>6. QED  BY <2>5 DEF EndsWith, k
<1>7. /\ \A d \in 0 .. n - 1 :
           (\A c \in 0 .. d : IsFire(FromEnd(bars, c))) =>
             /\ d < k
             /\ FromEnd(served, d) = ClickToScreen(Profile[FromEnd(bars, d).id])
      /\ n < MAX_LATENCY_BARS => k <= n
  BY DEF FiresTold
<1>8. \A c \in 0 .. n - 1 :
        IsFire(FromEnd(bars, c)) <=> jobs'[FromEnd(bars, c).id].kind = "fire"
  <2> SUFFICES ASSUME NEW c \in 0 .. n - 1
               PROVE  IsFire(FromEnd(bars, c)) <=> jobs'[FromEnd(bars, c).id].kind = "fire"
    OBVIOUS
  <2>1. n - c \in 1 .. n  BY <1>1
  <2>2. QED  BY <1>1, <2>1 DEF IsFire, FromEnd, KindsStay
<1> HIDE DEF n, k, x
<1>9. ASSUME NEW d \in 0 .. Len(bars') - 1, \A c \in 0 .. d : IsFire(FromEnd(bars, c))'
      PROVE  /\ d < Len(served')
             /\ FromEnd(served', d) = ClickToScreen(Profile[FromEnd(bars', d).id])
  <2>1. CASE d = 0
    <3>1. 0 < Len(served')  BY <1>3, <1>5, <1>6
    <3>2. QED  BY <1>4, <1>6, <2>1, <3>1 DEF x
  <2>2. CASE d # 0
    <3>1. /\ d \in 1 .. Len(bars') - 1 /\ d - 1 \in 0 .. n - 1 /\ d \in Nat
          /\ n \in Nat /\ Len(bars') \in Nat
      BY <1>1, <1>3, <1>4, <2>2
    <3>2. \A c \in 0 .. d - 1 : IsFire(FromEnd(bars, c))
      <4> SUFFICES ASSUME NEW c \in 0 .. d - 1 PROVE IsFire(FromEnd(bars, c))  OBVIOUS
      <4>1. /\ c + 1 \in 0 .. d /\ c + 1 \in 1 .. Len(bars') - 1 /\ (c + 1) - 1 = c
            /\ c \in 0 .. n - 1
        <5>1. c \in Nat /\ c <= d - 1  BY <3>1
        <5>2. QED  BY <3>1, <5>1
      <4>2. FromEnd(bars', c + 1) = FromEnd(bars, c)  BY <1>4, <4>1
      <4>3. jobs'[FromEnd(bars', c + 1).id].kind = "fire"  BY <1>9, <4>1 DEF IsFire
      <4>4. QED  BY <1>8, <4>1, <4>2, <4>3
    <3>3. /\ d - 1 < k
          /\ FromEnd(served, d - 1) = ClickToScreen(Profile[FromEnd(bars, d - 1).id])
      BY <1>7, <3>1, <3>2
    <3>4. d < Len(served')  BY <1>3, <1>4, <1>5, <1>6, <1>1, <3>1, <3>3
    <3>5. d \in 1 .. Len(served') - 1  BY <1>3, <1>5, <1>6, <3>1, <3>4
    <3>6. FromEnd(bars', d) = FromEnd(bars, d - 1)  BY <1>4, <3>1
    <3>7. FromEnd(served', d) = FromEnd(served, d - 1)  BY <1>6, <3>5
    <3>8. QED  BY <3>3, <3>4, <3>6, <3>7
  <2>3. QED  BY <2>1, <2>2
<1>10. Len(bars') < MAX_LATENCY_BARS => Len(served') <= Len(bars')
  BY <1>1, <1>3, <1>4, <1>5, <1>6, <1>7
<1>11. QED  BY <1>9, <1>10 DEF FiresTold

\* Bars whose fields are filled in, one of them or none, keep what they are told of.
LEMMA FilledTold ==
  ASSUME LabInv, BarsTold, FiresTold, KindsStay, DoneStays, served' = served,
         bars' = [i \in DOMAIN bars |-> bars'[i]], DOMAIN bars' = DOMAIN bars,
         \A i \in DOMAIN bars :
           bars'[i] \in Bar /\ bars'[i].id = bars[i].id /\ bars'[i].source = bars[i].source,
         \A i \in DOMAIN bars :
           /\ bars'[i].render = bars[i].render \/ bars[i].source = "client"
           /\ bars'[i].it = bars[i].it \/ jobs[bars[i].id].raw # "off"
  PROVE  BarsTold' /\ FiresTold'
<1> DEFINE n == Len(bars)
<1>1. n \in Nat /\ DOMAIN bars = 1 .. n  BY BarsAre
<1>2. Len(bars') = n
  <2>1. bars' \in Seq(Bar)  BY <1>1
  <2>2. QED  BY <1>1, <2>1, LenProperties
<1>3. FiresTold'  BY <1>1, <1>2, SameEnds
<1>4. \A i \in 1 .. n : bars'[i] \in ToldBars'
  <2> SUFFICES ASSUME NEW i \in 1 .. n PROVE bars'[i] \in ToldBars'  OBVIOUS
  <2> DEFINE b == bars[i]
             c == bars'[i]
  <2>1. b \in ToldBars' /\ b.id \in Events /\ jobs[b.id].kind # "none"  BY ToldStay, BarsAre
  <2>2. /\ c \in Bar /\ c.id = b.id /\ c.source = b.source
        /\ c.render = b.render \/ b.source = "client"
        /\ c.it = b.it \/ jobs'[b.id].raw # "off"
    BY <1>1, <2>1 DEF KindsStay
  <2> HIDE DEF b, c
  <2>3. c \in ToldBars'  BY <2>1, <2>2 DEF ToldBars, BarTold, IsFire
  <2>4. QED  BY <2>3 DEF c
<1>5. QED  BY <1>1, <1>3, <1>4 DEF BarsTold

-----------------------------------------------------------------------------
(* The steps.                                                              *)

\* Steps that leave the bars and the samples.
LEMMA BarsLeft ==
  ASSUME LabInv, BarsTold, FiresTold, KindsStay, DoneStays, UNCHANGED << bars, served >>
  PROVE  BarsTold' /\ FiresTold'
<1>1. DOMAIN bars = 1 .. Len(bars)  BY BarsAre
<1>2. BarsTold'  BY <1>1, ToldStay DEF BarsTold
<1>3. FiresTold'  BY SameEnds
<1>4. QED  BY <1>2, <1>3

LEMMA ClickTold ==
  ASSUME LabAssumption, PanelInv, KindsStay, DoneStays, NEW e \in Events, ClickAnswered(e)
  PROVE  BarsTold' /\ FiresTold'
<1>0. LabInv /\ BarsTold /\ FiresTold  BY DEF PanelInv
<1>1. served' = served  BY DEF ClickAnswered
<1>2. CASE bars' = bars  BY <1>0, <1>1, <1>2, BarsLeft
<1>3. CASE bars' = AddLatencyBar(bars, ClickBar(e, Profile[e]))
  <2> DEFINE b == ClickBar(e, Profile[e])
  <2>1. jobs'[e].kind = "click"  BY DEF ClickAnswered, KindsStay
  <2>2. b \in Bar
    <3>1. b \in GoodBars'  BY <2>1, ClickBarOk
    <3>2. QED  BY <3>1 DEF GoodBars
  <2>3. b.id = e /\ b.it = NoWord /\ b.source = "client"  BY DEF ClickBar
  <2> HIDE DEF b
  <2>4. ~IsFire(b)' /\ BarTold(b)'  BY <2>1, <2>3 DEF IsFire, BarTold
  <2>5. b \in ToldBars'  BY <2>2, <2>4 DEF ToldBars
  <2>6. bars' = AddLatencyBar(bars, b)  BY <1>3 DEF b
  <2>7. QED  BY <1>0, <1>1, <2>2, <2>4, <2>5, <2>6, AddedTold, NoFireAdded
<1>4. QED  BY <1>2, <1>3 DEF ClickAnswered

LEMMA FireTold ==
  ASSUME LabAssumption, SERVED_SAMPLES = MAX_LATENCY_BARS, PanelInv, KindsStay, DoneStays,
         NEW e \in Events, NEW found \in BOOLEAN, FireAnswered(e, found)
  PROVE  BarsTold' /\ FiresTold'
<1>0. LabInv /\ BarsTold /\ FiresTold  BY DEF PanelInv
<1>1. CASE ~found
  <2>1. UNCHANGED << bars, served >>  BY <1>1 DEF FireAnswered
  <2>2. QED  BY <1>0, <2>1, BarsLeft
<1>2. CASE found
  <2> DEFINE b == FireBar(e, Profile[e])
  <2>1. /\ jobs[e].kind = "fire" /\ jobs[e].stage # "done"
        /\ jobs' = [jobs EXCEPT ![e].stage = "done"]
        /\ bars' = AddLatencyBar(bars, b)
        /\ served' = LastN(Append(served, ClickToScreen(Profile[e])), SERVED_SAMPLES)
    BY <1>2 DEF FireAnswered
  <2>2. jobs'[e].kind = "fire" /\ jobs'[e].stage = "done"
    <3>1. jobs[e] \in Job  BY <1>0 DEF LabInv, JobsInv
    <3>2. QED  BY <1>0, <2>1, <3>1 DEF LabInv, JobsInv, Job
  <2>3. b \in Bar
    <3>1. b \in GoodBars'  BY <2>2, FireBarOk
    <3>2. QED  BY <3>1 DEF GoodBars
  <2>4. b.id = e /\ b.source = "client"  BY DEF FireBar
  <2> HIDE DEF b
  <2>5. b \in ToldBars'  BY <2>2, <2>3, <2>4 DEF ToldBars, BarTold, IsFire
  <2>6. BarsTold'  BY <1>0, <2>1, <2>5, AddedTold
  <2>7. FiresTold'  BY <1>0, <2>1, <2>3, <2>4, FireAdded
  <2>8. QED  BY <2>6, <2>7
<1>3. QED  BY <1>1, <1>2

LEMMA PaintTold ==
  ASSUME LabAssumption, PanelInv, KindsStay, DoneStays, NEW e \in Events, ClickPainted(e)
  PROVE  BarsTold' /\ FiresTold'
<1>0. LabInv /\ BarsTold /\ FiresTold  BY DEF PanelInv
<1> DEFINE ms == Profile[e].paint
           New(b) == IF b.id = e /\ b.source = "client" THEN [b EXCEPT !.render = ms] ELSE b
<1>1. served' = served  BY DEF ClickPainted
<1>2. bars' = [i \in DOMAIN bars |-> New(bars[i])]  BY DEF ClickPainted, UpdateLatencyBar
<1>3. ms \in Nat  BY DEF LabAssumption
<1> HIDE DEF ms
<1>4. ASSUME NEW b \in Bar
      PROVE  /\ New(b) \in Bar /\ New(b).id = b.id /\ New(b).source = b.source
             /\ New(b).render = b.render \/ b.source = "client"
             /\ New(b).it = b.it
  BY <1>3 DEF Bar
<1>5. \A i \in DOMAIN bars : bars[i] \in Bar  BY <1>0, BarsAre
<1>6. /\ DOMAIN bars' = DOMAIN bars /\ bars' = [i \in DOMAIN bars |-> bars'[i]]
      /\ \A i \in DOMAIN bars : bars'[i] = New(bars[i])
  BY <1>2
<1> HIDE DEF New
<1>7. \A i \in DOMAIN bars :
        /\ bars'[i] \in Bar /\ bars'[i].id = bars[i].id /\ bars'[i].source = bars[i].source
        /\ bars'[i].render = bars[i].render \/ bars[i].source = "client"
        /\ bars'[i].it = bars[i].it
  BY <1>4, <1>5, <1>6
<1>8. QED  BY <1>0, <1>1, <1>6, <1>7, FilledTold

LEMMA DeliverTold ==
  ASSUME LabAssumption, PanelInv, KindsStay, DoneStays, Deliver
  PROVE  BarsTold' /\ FiresTold'
<1>0. LabInv /\ BarsTold /\ FiresTold  BY DEF PanelInv
<1>1. PICK m : m = Head(wire)  OBVIOUS
<1>2. /\ wire # << >> /\ wire' = Tail(wire) /\ UNCHANGED << jobs, missed, cuts >>
      /\ served' = served
      /\ bars' = CASE m.type = "optimistic" -> AddLatencyBar(bars, WsBar(m.id, Profile[m.id]))
                   [] m.type = "verified" ->
                        UpdateLatencyBarByEventId(bars, m.id, VerifiedVm(Profile[m.id]))
                   [] m.type = "it_visible" ->
                        UpdateLatencyBarItPoll(bars, m.id, m.table, m.poll)
  BY <1>1 DEF Deliver
<1>3. m \in Messages /\ MessageOk(m) /\ m.id \in Events
  BY <1>0, <1>1, <1>2, HeadTaken
<1>4. DOMAIN bars = 1 .. Len(bars) /\ \A i \in DOMAIN bars : bars[i] \in Bar
  BY <1>0, BarsAre
<1>5. CASE m.type = "optimistic"
  <2> DEFINE b == WsBar(m.id, Profile[m.id])
  <2>1. b.id = m.id /\ b.it = NoWord /\ b.render = 0  BY DEF WsBar
  <2>2. b \in Bar
    <3>1. Profile[m.id].parse \in Nat  BY <1>3 DEF LabAssumption
    <3>2. NoWord \in Word /\ NoVm \in Vm  BY DEF NoWord, Word, NoVm, Vm
    <3>3. QED  BY <1>3, <3>1, <3>2 DEF WsBar, Bar
  <2>3. bars' = AddLatencyBar(bars, b)  BY <1>2, <1>5
  <2> HIDE DEF b
  <2>4. jobs'[b.id].kind # "fire"  BY <1>2, <1>3, <2>1 DEF MessageOk
  <2>5. ~IsFire(b)' /\ b \in ToldBars'  BY <2>1, <2>2, <2>4 DEF IsFire, ToldBars, BarTold
  <2>6. QED  BY <1>0, <1>2, <2>2, <2>3, <2>5, AddedTold, NoFireAdded
<1>6. CASE m.type = "verified"
  <2> DEFINE vm == VerifiedVm(Profile[m.id])
             New(b) == IF b.id = m.id THEN [b EXCEPT !.vm = vm] ELSE b
  <2>1. bars' = [i \in DOMAIN bars |-> New(bars[i])]
    BY <1>2, <1>6 DEF UpdateLatencyBarByEventId
  <2>2. vm \in Vm
    <3> DEFINE p == Profile[m.id]
    <3>1. /\ p.sdk \in Nat /\ p.rest \in Nat /\ p.tunnel \in Nat /\ p.partition \in Nat
      BY <1>3 DEF LabAssumption
    <3>2. /\ FlushOf(p) \in Nat
          /\ vm = [sdk |-> p.sdk, flush |-> FlushOf(p), over |-> p.rest,
                   transport |-> p.tunnel, partition |-> p.partition]
      BY <1>3, Clocks
    <3> HIDE DEF p, vm
    <3>3. QED  BY <3>1, <3>2 DEF Vm
  <2> HIDE DEF vm
  <2>3. ASSUME NEW b \in Bar
        PROVE  /\ New(b) \in Bar /\ New(b).id = b.id /\ New(b).source = b.source
               /\ New(b).render = b.render /\ New(b).it = b.it
    BY <2>2 DEF Bar
  <2>4. /\ DOMAIN bars' = DOMAIN bars /\ bars' = [i \in DOMAIN bars |-> bars'[i]]
        /\ \A i \in DOMAIN bars : bars'[i] = New(bars[i])
    BY <2>1
  <2> HIDE DEF New
  <2>5. \A i \in DOMAIN bars :
          /\ bars'[i] \in Bar /\ bars'[i].id = bars[i].id /\ bars'[i].source = bars[i].source
          /\ bars'[i].render = bars[i].render
          /\ bars'[i].it = bars[i].it \/ jobs[bars[i].id].raw # "off"
    BY <1>4, <2>3, <2>4
  <2>6. QED  BY <1>0, <1>2, <2>4, <2>5, FilledTold
<1>7. CASE m.type = "it_visible"
  <2> DEFINE New(b) == IF b.id = m.id THEN [b EXCEPT ![m.table] = m.poll] ELSE b
  <2>1. bars' = [i \in DOMAIN bars |-> New(bars[i])]
    BY <1>2, <1>7 DEF UpdateLatencyBarItPoll
  <2>2. m.table \in {"it", "book"} /\ m.poll \in Word /\ jobs[m.id].raw # "off"
    BY <1>3, <1>7 DEF Messages, Plain, Visible, MessageOk
  <2>3. ASSUME NEW b \in Bar
        PROVE  /\ New(b) \in Bar /\ New(b).id = b.id /\ New(b).source = b.source
               /\ New(b).render = b.render
               /\ New(b).it = b.it \/ jobs[b.id].raw # "off"
    BY <2>2 DEF Bar
  <2>4. /\ DOMAIN bars' = DOMAIN bars /\ bars' = [i \in DOMAIN bars |-> bars'[i]]
        /\ \A i \in DOMAIN bars : bars'[i] = New(bars[i])
    BY <2>1
  <2> HIDE DEF New
  <2>5. \A i \in DOMAIN bars :
          /\ bars'[i] \in Bar /\ bars'[i].id = bars[i].id /\ bars'[i].source = bars[i].source
          /\ bars'[i].render = bars[i].render
          /\ bars'[i].it = bars[i].it \/ jobs[bars[i].id].raw # "off"
    BY <1>4, <2>3, <2>4
  <2>6. QED  BY <1>0, <1>2, <2>4, <2>5, FilledTold
<1>8. QED  BY <1>3, <1>5, <1>6, <1>7 DEF Messages, Plain, Visible

\* The answer to the simulator counts its event, with its hop, or none.
LEMMA SimStepTold ==
  ASSUME LabAssumption, PanelInv, LabNext
  PROVE  SimTold'
<1>0. /\ LabInv /\ JobsTold /\ SimTold /\ JobsInv
      /\ \A e \in Events : jobs[e] \in Job /\ JobTold(jobs[e])
  BY DEF PanelInv, LabInv, JobsInv, JobsTold
<1>1. CASE \A e \in Events : ~SimAnswered(e)
  <2>1. Counted' = Counted  BY <1>1, JobsMove
  <2>2. sim' = sim
    BY <1>1 DEF LabNext, Deliver, Cut, Post, VmAnswers, Refuses, ProbeSpeaks, ClickAnswered,
                ClickPainted, FireAnswered
  <2>3. QED  BY <1>0, <2>1, <2>2 DEF SimTold
<1>2. ASSUME NEW e \in Events, SimAnswered(e) PROVE SimTold'
  <2> DEFINE j == [jobs[e] EXCEPT !.stage = "done"]
             hop == AtLeast0(PostTotal(Profile[e]) - ServerTotal(Profile[e]))
  <2>1. jobs' = [jobs EXCEPT ![e] = j] /\ jobs[e].kind = "sim"
        /\ jobs[e].stage \in {"acked", "refused"}
    BY <1>0, <1>2 DEF SimAnswered, JobsInv
  <2>2. j.kind = "sim" /\ j.stage = "done" /\ j.raw = jobs[e].raw
    BY <1>0, <2>1 DEF Job
  <2> HIDE DEF j
  <2>3. JobTold(j) /\ (IsCounted(j) <=> j.raw # "off") /\ ~IsCounted(jobs[e])
    BY <2>1, <2>2 DEF JobTold, IsCounted
  <2>4. /\ (IsCounted(j) <=> IsCounted(jobs[e])) => Counted' = Counted
        /\ IsCounted(j) => Counted' = Counted \union {e}
    BY <1>0, <2>1, <2>2, <2>3, JobMoves
  <2>5. /\ sim.count \in Nat /\ INGRESS_SAMPLES \in Nat \ {0}
        /\ sim \in [count : Nat, errors : Nat, ingress : Seq(Nat)]
    BY <1>0 DEF LabInv, CountInv, LabAssumption
  <2>6. CASE jobs[e].stage = "acked"
    <3>1. Counted' = Counted \union {e}
      <4>1. jobs[e].raw # "off"  BY <1>0, <2>1, <2>6 DEF JobTold
      <4>2. QED  BY <2>2, <2>3, <2>4, <4>1
    <3>2. sim'.count = sim.count + 1
          /\ sim'.ingress = LastN(Append(sim.ingress, hop), INGRESS_SAMPLES)
      <4>1. sim' = [sim EXCEPT !.count = sim.count + 1,
                               !.ingress = LastN(Append(sim.ingress, hop), INGRESS_SAMPLES)]
        BY <1>2, <2>5, <2>6 DEF SimAnswered
      <4> HIDE DEF hop
      <4>2. QED  BY <2>5, <4>1
    <3>3. hop = Profile[e].hop /\ hop \in Nat  BY Clocks
    <3> HIDE DEF hop
    <3>4. ASSUME sim.count = 0
          PROVE  Counted' = {e} /\ sim'.ingress = << hop >>
      <4>1. Counted' = {e} /\ sim.ingress = << >>  BY <1>0, <3>1, <3>4 DEF SimTold
      <4>2. LastN(Append(<< >>, hop), INGRESS_SAMPLES) = << hop >>
        <5>1. << hop >> \in Seq(Nat) /\ Len(<< hop >>) = 1  BY <3>3
        <5>2. Append(<< >>, hop) = << hop >>  BY <3>3, <5>1
        <5>3. SubSeq(<< hop >>, 1, 1) = << hop >>
          <6> DEFINE one == << hop >>
                     part == SubSeq(one, 1, 1)
          <6>1. one \in Seq(Nat) /\ Len(one) = 1 /\ \A i \in 1 .. 1 : one[i] \in Nat
            BY <3>3, <5>1
          <6> HIDE DEF one
          <6>2. /\ part \in Seq(Nat) /\ Len(part) = 1 - 1 + 1
                /\ \A i \in 1 .. 1 - 1 + 1 : part[i] = one[1 + i - 1]
            BY <6>1, SubSeqProperties
          <6> HIDE DEF part
          <6>3. \A i \in 1 .. Len(one) : part[i] = one[i]  BY <6>1, <6>2
          <6>4. part = one  BY <6>1, <6>2, <6>3, SeqEqual
          <6>5. QED  BY <6>4 DEF part, one
        <5>4. ~(1 > INGRESS_SAMPLES)  BY <2>5
        <5>5. QED  BY <5>1, <5>2, <5>3, <5>4 DEF LastN
      <4>3. QED  BY <3>2, <4>1, <4>2
    <3>5. sim'.count # 0 /\ (sim'.count = 1 => sim.count = 0)  BY <2>5, <3>2
    <3>6. QED  BY <3>3, <3>4, <3>5 DEF SimTold
  <2>7. CASE jobs[e].stage = "refused"
    <3>1. Counted' = Counted
      <4>1. jobs[e].raw = "off"  BY <1>0, <2>7 DEF JobTold
      <4>2. QED  BY <2>2, <2>3, <2>4, <4>1
    <3>2. sim'.count = sim.count /\ sim'.ingress = sim.ingress
      <4>1. sim' = [sim EXCEPT !.errors = sim.errors + 1]
        BY <1>2, <2>5, <2>7 DEF SimAnswered
      <4>2. QED  BY <2>5, <4>1
    <3>3. QED  BY <1>0, <3>1, <3>2 DEF SimTold
  <2>8. QED  BY <2>1, <2>6, <2>7
<1>3. QED  BY <1>1, <1>2

LEMMA PanelStep ==
  ASSUME LabAssumption, SERVED_SAMPLES = MAX_LATENCY_BARS, PanelInv, [LabNext]_labVars
  PROVE  PanelInv'
<1>0. LabInv /\ JobsTold /\ BarsTold /\ MissedTold /\ SimTold /\ FiresTold  BY DEF PanelInv
<1>1. LabInv'  BY <1>0, LabStep
<1>2. CASE UNCHANGED labVars
  <2>1. UNCHANGED << jobs, bars, missed, sim, served >>  BY <1>2 DEF labVars
  <2>2. KindsStay /\ DoneStays  BY <2>1 DEF KindsStay, DoneStays
  <2>3. BarsTold' /\ FiresTold'  BY <1>0, <2>1, <2>2, BarsLeft
  <2>4. JobsTold' /\ MissedTold' /\ SimTold'
    BY <1>0, <2>1 DEF JobsTold, JobTold, MissedTold, SimTold, Counted, IsCounted
  <2>5. QED  BY <1>1, <2>3, <2>4 DEF PanelInv
<1>3. CASE LabNext
  <2>1. KindsStay /\ DoneStays /\ JobsTold'  BY <1>3, JobsMove
  <2>2. SimTold'  BY <1>3, SimStepTold
  <2>3. MissedTold'
    <3>1. missed' = missed \/ Cut
      BY <1>3 DEF LabNext, Deliver, Post, VmAnswers, Refuses, ProbeSpeaks, SimAnswered,
                  ClickAnswered, ClickPainted, FireAnswered
    <3>2. \A e \in missed : e \in Events /\ jobs[e].kind \in {"sim", "click"}
      BY <1>0 DEF LabInv, JobsInv, MissedTold
    <3>3. \A e \in missed : jobs'[e].kind \in {"sim", "click"}
      BY <2>1, <3>2 DEF KindsStay
    <3>4. CASE missed' = missed  BY <3>3, <3>4 DEF MissedTold
    <3>5. CASE Cut
      <4>1. missed' = missed \union {wire[i].id : i \in DOMAIN wire} /\ jobs' = jobs
        BY <3>5 DEF Cut
      <4>2. \A i \in DOMAIN wire : jobs[wire[i].id].kind \in {"sim", "click"}
        BY <1>0, OnTheWire DEF LabInv, MessageOk
      <4>3. QED  BY <3>2, <4>1, <4>2 DEF MissedTold
    <3>6. QED  BY <3>1, <3>4, <3>5
  <2>4. BarsTold' /\ FiresTold'
    <3>1. CASE UNCHANGED << bars, served >>  BY <1>0, <2>1, <3>1, BarsLeft
    <3>2. CASE Deliver  BY <2>1, <3>2, DeliverTold
    <3>3. ASSUME NEW e \in Events,
                 \/ ClickAnswered(e) \/ ClickPainted(e)
                 \/ \E found \in BOOLEAN : FireAnswered(e, found)
          PROVE  BarsTold' /\ FiresTold'
      BY <2>1, <3>3, ClickTold, PaintTold, FireTold
    <3>4. \/ UNCHANGED << bars, served >> \/ Deliver
          \/ \E e \in Events :
               \/ ClickAnswered(e) \/ ClickPainted(e)
               \/ \E found \in BOOLEAN : FireAnswered(e, found)
      BY <1>3 DEF LabNext, Cut, Post, VmAnswers, Refuses, ProbeSpeaks, SimAnswered
    <3>5. QED  BY <3>1, <3>2, <3>3, <3>4
  <2>5. QED  BY <1>1, <2>1, <2>2, <2>3, <2>4 DEF PanelInv
<1>4. QED  BY <1>2, <1>3

-----------------------------------------------------------------------------
(* One bar, one panel.                                                     *)

\* What is kept of the bars are bars.
LEMMA TheKept ==
  ASSUME LabInv
  PROVE  /\ bars \in Seq(Bar)
         /\ Confirmed(bars) \in Seq({b \in Bar : IsConfirmed(b)})
<1>1. bars \in Seq(GoodBars)  BY DEF LabInv, BarsInv
<1>2. bars \in Seq(Bar)
  <2>1. GoodBars \subseteq Bar  BY DEF GoodBars
  <2>2. \A i \in 1 .. Len(bars) : bars[i] \in Bar  BY <1>1, <2>1, ElementOfSeq
  <2>3. QED  BY <1>1, <2>2, SeqDef, LenProperties
<1> DEFINE S == {x \in ToSet(bars) : IsConfirmed(x)}
           C == {b \in Bar : IsConfirmed(b)}
<1>3. Confirmed(bars) = Only(bars, S)  BY DEF Confirmed, Keep
<1>4. Only(bars, S) \in Seq(Bar \intersect S)  BY <1>2, OnlyThese
<1>5. Bar \intersect S \subseteq C  OBVIOUS
<1> HIDE DEF S, C
<1>6. Only(bars, S) \in Seq(C)
  <2> DEFINE q == Only(bars, S)
  <2>1. \A i \in 1 .. Len(q) : q[i] \in C  BY <1>4, <1>5, ElementOfSeq
  <2>2. q \in [1 .. Len(q) -> Bar \intersect S] /\ Len(q) \in Nat  BY <1>4, LenProperties
  <2> HIDE DEF q
  <2>3. q \in [1 .. Len(q) -> C]  BY <2>1, <2>2
  <2>4. q \in Seq(C)  BY <2>2, <2>3, SeqDef
  <2>5. QED  BY <2>4 DEF q
<1>7. QED  BY <1>2, <1>3, <1>6 DEF C

\* A bar of a click has its transport in its network.
LEMMA ClicksTold ==
  ASSUME LabInv, Clicked(bars) = Confirmed(bars)
  PROVE  /\ LiveLatency(bars).p50 = LatencyStatsOf(bars).p50
         /\ LiveLatency(bars).p50 = StrategyFreshness(bars).q_user
         /\ LiveLatency(bars).p99 = LatencyStatsOf(bars).p99
         /\ LiveLatency(bars).count = LatencyStatsOf(bars).count
<1> DEFINE c == Confirmed(bars)
           S == {x \in ToSet(bars) : IsClicked(x)}
<1>1. Clicked(bars) = Only(bars, S)  BY DEF Clicked, Keep
<1>2. c \in Seq(Bar \intersect S)
  <2>1. Only(bars, S) \in Seq(Bar \intersect S)  BY TheKept, OnlyThese
  <2>2. QED  BY <1>1, <2>1
<1>3. DOMAIN c = 1 .. Len(c)  BY <1>2, LenProperties
<1>4. ASSUME NEW i \in DOMAIN c PROVE E2E(c[i]) = ClickTotal(c[i])
  <2>1. c[i] \in Bar /\ c[i] \in S  BY <1>2, <1>3, ElementOfSeq
  <2>2. c[i].source = "client"  BY <2>1 DEF IsClicked
  <2> HIDE DEF c
  <2>3. TransportOf(c[i]) = 0  BY <2>2 DEF TransportOf
  <2>4. QED  BY <2>1, <2>3 DEF E2E, ClickTotal, Handler, Bar, Vm, Word
<1>5. Times(c, E2E) = Times(c, ClickTotal)  BY <1>4 DEF Times
<1>6. /\ LiveLatency(bars).p50 = Median(Times(c, E2E))
      /\ LiveLatency(bars).p99 = Pct(Times(c, E2E), 99)
      /\ LiveLatency(bars).count = Len(c)
  BY DEF LiveLatency
<1>7. /\ LatencyStatsOf(bars).p50 = Median(Times(c, ClickTotal))
      /\ LatencyStatsOf(bars).p99 = Pct(Times(c, ClickTotal), 99)
      /\ LatencyStatsOf(bars).count = Len(c)
  BY DEF LatencyStatsOf, StatsOf
<1>8. StrategyFreshness(bars).q_user = Median(Times(c, ClickTotal))
  BY DEF StrategyFreshness
<1>9. QED  BY <1>5, <1>6, <1>7, <1>8

\* A list of one, filtered and measured.
LEMMA TheOne ==
  ASSUME NEW b \in Bar, bars = << b >>, IsConfirmed(b)
  PROVE  /\ Confirmed(bars) = << b >>
         /\ LiveLatency(bars).last = E2E(b) /\ Recon(bars) = ReconTotal(b)
         /\ LiveLatency(bars).p50 = E2E(b)
         /\ LiveDocStats(bars, << 1 >>).e2e = b.network + b.vm.sdk + b.vm.flush + b.it.ms + 1
<1>1. bars # << >> /\ Len(bars) = 1 /\ bars[1] = b /\ DOMAIN bars = {1} /\ ToSet(bars) = {b}
  BY DEF ToSet
<1>2. Confirmed(bars) = << b >>
  <2>1. Confirmed(bars) = Only(<< b >>, {x \in {b} : IsConfirmed(x)})
    BY <1>1 DEF Confirmed, Keep
  <2>2. b \in {x \in {b} : IsConfirmed(x)}  OBVIOUS
  <2>3. QED  BY <2>1, <2>2, OnlyOne
<1>3. LiveLatency(bars).last = E2E(b) /\ Recon(bars) = ReconTotal(b)
  BY <1>1, <1>2 DEF LiveLatency, Recon
<1>4. /\ b.network \in Nat /\ b.vm.sdk \in Nat /\ b.vm.flush \in Nat /\ b.vm.over \in Nat
      /\ b.vm.transport \in Nat /\ b.it.ms \in Nat
  BY DEF Bar, Vm, Word
<1>5. LiveLatency(bars).p50 = E2E(b)
  <2>1. LiveLatency(bars).p50 = Median(Times(<< b >>, E2E))  BY <1>2 DEF LiveLatency
  <2>2. Times(<< b >>, E2E) = << E2E(b) >>  BY DEF Times
  <2>3. E2E(b) \in Int  BY <1>4 DEF E2E, Handler, TransportOf
  <2>4. QED  BY <2>1, <2>2, <2>3, MedianOfOne
<1>6. LiveDocStats(bars, << 1 >>).e2e = b.network + b.vm.sdk + b.vm.flush + b.it.ms + 1
  <2>1. /\ Times(<< b >>, Network) = << b.network >> /\ Times(<< b >>, Sdk) = << b.vm.sdk >>
        /\ Times(<< b >>, Flush) = << b.vm.flush >>
        /\ Times(<< b >>, Visibility) = << b.it.ms >>
    BY DEF Times, Network, Sdk, Flush, Visibility
  <2>2. /\ Median(<< b.network >>) = b.network /\ Median(<< b.vm.sdk >>) = b.vm.sdk
        /\ Median(<< b.vm.flush >>) = b.vm.flush /\ Median(<< b.it.ms >>) = b.it.ms
        /\ Median(<< 1 >>) = 1
    BY <1>4, MedianOfOne
  <2>3. bars # << >> /\ << 1 >> # << >>  BY <1>1
  <2>4. LiveDocStats(bars, << 1 >>).e2e
          = Median(Times(bars, Network)) + Median(Times(bars, Sdk)) + Median(Times(bars, Flush))
            + Median(Times(bars, Visibility)) + Median(<< 1 >>)
    BY <2>3 DEF LiveDocStats
  <2>5. QED  BY <2>1, <2>2, <2>4
<1>7. QED  BY <1>2, <1>3, <1>5, <1>6

\* A step of the latency page, of one bar: its median is its last.
LEMMA StepOfOne ==
  ASSUME NEW b \in Bar, bars = << b >>, IsConfirmed(b), NEW step \in ToSet(Pipeline)
  PROVE  LET t == StepTime(b, step)
             seen == b.source \in StepSource[step] /\ t # 0
         IN  /\ t \in Nat
             /\ LiveLast(bars, step) = IF seen THEN t ELSE Null
             /\ LiveMedian(bars, step) = LiveLast(bars, step)
             /\ AtLeast0(LiveLast(bars, step)) = IF b.source \in StepSource[step] THEN t ELSE 0
<1> DEFINE t == StepTime(b, step)
           in == b.source \in StepSource[step]
           of == StepBars(bars, step)
<1>1. /\ b.network \in Nat /\ b.vm.sdk \in Nat /\ b.vm.flush \in Nat /\ b.vm.over \in Nat
      /\ b.vm.transport \in Nat /\ b.it.ms \in Nat /\ b.render \in Nat
  BY DEF Bar, Vm, Word
<1>2. step \in {"network", "transport", "append", "flush", "it", "render"}
  BY DEF Pipeline, ToSet
<1>3. t \in Nat  BY <1>1, <1>2 DEF StepTime
<1>4. of = IF in THEN << b >> ELSE << >>
  <2>1. Confirmed(bars) = << b >>  BY TheOne
  <2>2. ToSet(<< b >>) = {b}  BY DEF ToSet
  <2>3. of = Only(<< b >>, {x \in {b} : x.source \in StepSource[step]})
    BY <2>1, <2>2 DEF StepBars, Keep
  <2>4. b \in {x \in {b} : x.source \in StepSource[step]} <=> in  OBVIOUS
  <2> HIDE DEF of, in
  <2>5. QED  BY <2>3, <2>4, OnlyOne
<1>5. LiveLast(bars, step) = IF in /\ t # 0 THEN t ELSE Null
  <2>1. CASE in
    <3>1. of = << b >>  BY <1>4, <2>1
    <3>2. of # << >> /\ of[Len(of)] = b  BY <3>1
    <3> HIDE DEF of
    <3>3. QED  BY <2>1, <3>2 DEF LiveLast, of
  <2>2. CASE ~in
    <3>1. of = << >>  BY <1>4, <2>2
    <3>2. QED  BY <2>2, <3>1 DEF LiveLast
  <2>3. QED  BY <2>1, <2>2
<1>6. LiveMedian(bars, step) = IF in /\ t # 0 THEN t ELSE Null
  <2> DEFINE xs == Times(of, LAMBDA x : StepTime(x, step))
  <2>1. LiveMedian(bars, step) = Median(Only(xs, {x \in ToSet(xs) : x > 0}))
    BY DEF LiveMedian, Keep
  <2>2. CASE in
    <3>1. of = << b >>  BY <1>4, <2>2
    <3>2. xs = << t >>
      <4>1. << b >>[1] = b /\ DOMAIN << b >> = {1}  OBVIOUS
      <4>2. xs = [i \in DOMAIN of |-> StepTime(of[i], step)]  BY DEF Times
      <4> HIDE DEF of
      <4>3. QED  BY <3>1, <4>1, <4>2
    <3>3. ToSet(<< t >>) = {t}  BY DEF ToSet
    <3>4. LiveMedian(bars, step) = Median(Only(<< t >>, {x \in {t} : x > 0}))
      BY <2>1, <3>2, <3>3
    <3> HIDE DEF t
    <3>5. t \in {x \in {t} : x > 0} <=> t # 0  BY <1>3
    <3>6. Median(<< t >>) = t /\ Median(<< >>) = Null  BY <1>3, MedianOfOne
    <3>7. QED  BY <2>2, <3>4, <3>5, <3>6, OnlyOne
  <2>3. CASE ~in
    <3>1. xs = << >>
      <4>1. of = << >>  BY <1>4, <2>3
      <4>2. xs = [i \in DOMAIN of |-> StepTime(of[i], step)]  BY DEF Times
      <4> HIDE DEF of
      <4>3. QED  BY <4>1, <4>2
    <3>2. Only(<< >>, {x \in ToSet(<< >>) : x > 0}) = << >>
      <4> DEFINE S == {x \in ToSet(<< >>) : x > 0}
      <4>1. << >> \in Seq(Nat) /\ DOMAIN << >> = {}  OBVIOUS
      <4>2. \A i \in DOMAIN << >> : << >>[i] \in S  BY <4>1
      <4> HIDE DEF S
      <4>3. Only(<< >>, S) = << >>  BY <4>1, <4>2, OnlyAll
      <4>4. QED  BY <4>3 DEF S
    <3>3. QED  BY <2>1, <2>3, <3>1, <3>2 DEF Median
  <2>4. QED  BY <2>2, <2>3
<1>7. AtLeast0(LiveLast(bars, step)) = IF in THEN t ELSE 0
  <2> HIDE DEF t, in
  <2>1. AtLeast0(Null) = 0 /\ AtLeast0(t) = t
    <3>1. Null \in Int /\ 0 >= Null  BY DEF Null
    <3>2. Max({0, Null}) = 0 /\ Max({0, t}) = IF 0 >= t THEN 0 ELSE t
      BY <1>3, <3>1, MaxOfTwo
    <3>3. QED  BY <1>3, <3>2 DEF AtLeast0
  <2>2. QED  BY <1>5, <2>1
<1>8. QED  BY <1>3, <1>5, <1>6, <1>7

\* What one bar is said to take, panel by panel.
LEMMA OneBarTold ==
  ASSUME NEW b \in Bar, bars = << b >>, IsConfirmed(b), b.source = "ws" => b.render = 0
  PROVE  /\ LiveLatency(bars).last = StackTotal(b) - b.render + TransportOf(b)
         /\ b.source = "client" => SumOfSteps = StackTotal(b)
         /\ b.source = "ws" => SumOfSteps = Recon(bars) - b.network
         /\ \A i \in DOMAIN Pipeline :
              LiveMedian(bars, Pipeline[i]) = LiveLast(bars, Pipeline[i])
         /\ LiveDocStats(bars, << 1 >>).e2e
              = LiveLatency(bars).last - TransportOf(b) - b.vm.over + 1
<1>1. /\ b.network \in Nat /\ b.vm.sdk \in Nat /\ b.vm.flush \in Nat /\ b.vm.over \in Nat
      /\ b.vm.transport \in Nat /\ b.it.ms \in Nat /\ b.render \in Nat
      /\ b.source \in {"ws", "client"}
  BY DEF Bar, Vm, Word
<1>2. /\ LiveLatency(bars).last = E2E(b) /\ Recon(bars) = ReconTotal(b)
      /\ LiveDocStats(bars, << 1 >>).e2e = b.network + b.vm.sdk + b.vm.flush + b.it.ms + 1
  BY TheOne
<1>3. TransportOf(b) \in Nat  BY <1>1 DEF TransportOf
<1>4. LiveLatency(bars).last = StackTotal(b) - b.render + TransportOf(b)
  BY <1>1, <1>2, <1>3 DEF E2E, StackTotal, Handler
<1>5. LiveDocStats(bars, << 1 >>).e2e = LiveLatency(bars).last - TransportOf(b) - b.vm.over + 1
  BY <1>1, <1>2, <1>3 DEF E2E, Handler
<1>6. /\ DOMAIN Pipeline = 1 .. 6 /\ Pipeline[1] = "network" /\ Pipeline[2] = "transport"
      /\ Pipeline[3] = "append" /\ Pipeline[4] = "flush" /\ Pipeline[5] = "it"
      /\ Pipeline[6] = "render"
      /\ \A i \in DOMAIN Pipeline : Pipeline[i] \in ToSet(Pipeline)
  BY DEF Pipeline, ToSet
<1>7. \A i \in DOMAIN Pipeline : LiveMedian(bars, Pipeline[i]) = LiveLast(bars, Pipeline[i])
  BY <1>6, StepOfOne
<1>8. SumOfSteps = IF b.source = "client" THEN b.network + Handler(b) + b.it.ms + b.render
                   ELSE b.vm.transport + Handler(b) + b.it.ms
  <2> DEFINE OfStep(step) == AtLeast0(LiveLast(bars, step))
  <2>1. \A step \in ToSet(Pipeline) :
          OfStep(step) = IF b.source \in StepSource[step] THEN StepTime(b, step) ELSE 0
    BY StepOfOne
  <2>2. /\ SumOfSteps = OfStep(Pipeline[1]) + OfStep(Pipeline[2]) + OfStep(Pipeline[3])
                        + OfStep(Pipeline[4]) + OfStep(Pipeline[5]) + OfStep(Pipeline[6])
    <3> DEFINE seen == [i \in DOMAIN Pipeline |-> OfStep(Pipeline[i])]
    <3>1. SumOfSteps = seen[1] + seen[2] + seen[3] + seen[4] + seen[5] + seen[6]
      BY DEF SumOfSteps
    <3>2. \A i \in 1 .. 6 : seen[i] = OfStep(Pipeline[i])  BY <1>6
    <3> HIDE DEF seen, OfStep
    <3>3. QED  BY <3>1, <3>2
  <2> HIDE DEF OfStep
  <2>3. /\ OfStep("network") = IF b.source = "client" THEN b.network ELSE 0
        /\ OfStep("transport") = IF b.source = "ws" THEN b.vm.transport ELSE 0
        /\ OfStep("append") = b.vm.sdk + b.vm.over /\ OfStep("flush") = b.vm.flush
        /\ OfStep("it") = b.it.ms
        /\ OfStep("render") = IF b.source = "client" THEN b.render ELSE 0
    <3>1. \A step \in {"network", "transport", "append", "flush", "it", "render"} :
            step \in ToSet(Pipeline)
      BY <1>6
    <3>2. QED  BY <1>1, <2>1, <3>1 DEF StepSource, StepTime
  <2>4. SumOfSteps = OfStep("network") + OfStep("transport") + OfStep("append") + OfStep("flush")
                     + OfStep("it") + OfStep("render")
    BY <1>6, <2>2
  <2>5. CASE b.source = "client"
    <3>1. SumOfSteps = b.network + 0 + (b.vm.sdk + b.vm.over) + b.vm.flush + b.it.ms + b.render
      BY <2>3, <2>4, <2>5
    <3>2. QED  BY <1>1, <2>5, <3>1 DEF Handler
  <2>6. CASE b.source = "ws"
    <3>1. SumOfSteps = 0 + b.vm.transport + (b.vm.sdk + b.vm.over) + b.vm.flush + b.it.ms + 0
      BY <2>3, <2>4, <2>6
    <3>2. QED  BY <1>1, <2>6, <3>1 DEF Handler
  <2>7. QED  BY <1>1, <2>5, <2>6
<1>9. b.source = "client" => SumOfSteps = StackTotal(b)
  BY <1>1, <1>8 DEF StackTotal, Handler
<1>10. b.source = "ws" => SumOfSteps = Recon(bars) - b.network
  BY <1>1, <1>2, <1>8 DEF ReconTotal, Handler
<1>11. QED  BY <1>4, <1>5, <1>7, <1>9, <1>10

\* The simulator puts the hop of its own posts in front: of its one event.
LEMMA OneSimTold ==
  ASSUME LabAssumption, PanelInv, NEW b \in Bar, bars = << b >>, IsConfirmed(b),
         jobs[b.id].kind = "sim", sim.count = 1, Done(b.id), b.id \notin missed
  PROVE  ClickToVisualized(bars, sim.ingress, << 1 >>) = WorkOf(b) + Profile[b.id].hop + 1
<1>0. LabInv /\ BarsTold /\ SimTold  BY DEF PanelInv
<1>1. Len(bars) = 1 /\ bars[1] = b /\ DOMAIN bars = {1} /\ b.id \in Events /\ BarTold(b)
  <2>1. Len(bars) = 1 /\ bars[1] = b /\ DOMAIN bars = {1} /\ b.id \in Events
    BY DEF Bar
  <2>2. QED  BY <1>0, <2>1 DEF BarsTold, ToldBars
<1>2. sim.ingress = << Profile[b.id].hop >>
  <2>1. b.it # NoWord  BY DEF IsConfirmed, IsProbed, NoWord
  <2>2. jobs[b.id].raw # "off"  BY <1>1, <2>1 DEF BarTold, IsFire
  <2>3. b.id \in Counted  BY <1>1, <2>2 DEF Counted, IsCounted, Done
  <2>4. PICK e \in Events : Counted = {e} /\ sim.ingress = << Profile[e].hop >>
    BY <1>0 DEF SimTold
  <2>5. QED  BY <2>3, <2>4
<1>3. Profile[b.id].hop \in Nat  BY <1>1, Clocks
<1>4. Median(sim.ingress) = Profile[b.id].hop /\ sim.ingress # << >>
      /\ Median(<< 1 >>) = 1 /\ << 1 >> # << >>
  BY <1>2, <1>3, MedianOfOne
<1>5. LiveLatency(bars).p50 = E2E(b) /\ E2E(b) = WorkOf(b)
  <2>1. SegmentsAddUp  BY <1>0, SumsAddUp
  <2>2. E2E(b) = WorkOf(b)  BY <1>1, <2>1 DEF SegmentsAddUp
  <2>3. QED  BY <2>2, TheOne
<1>6. E2E(b) \in Nat
  <2>1. /\ b.network \in Nat /\ b.vm.sdk \in Nat /\ b.vm.flush \in Nat /\ b.vm.over \in Nat
        /\ b.vm.transport \in Nat /\ b.it.ms \in Nat
    BY DEF Bar, Vm, Word
  <2>2. QED  BY <2>1 DEF E2E, Handler, TransportOf
<1>7. ClickToQueryable(bars, sim.ingress) = E2E(b) + Profile[b.id].hop
  <2>1. LiveLatency(bars).p50 # Null  BY <1>5, <1>6 DEF Null
  <2>2. QED  BY <1>4, <1>5, <2>1 DEF ClickToQueryable
<1>8. ClickToVisualized(bars, sim.ingress, << 1 >>) = E2E(b) + Profile[b.id].hop + 1
  <2>1. ClickToQueryable(bars, sim.ingress) # Null  BY <1>3, <1>6, <1>7 DEF Null
  <2>2. QED  BY <1>4, <1>7, <2>1 DEF ClickToVisualized
<1>9. QED  BY <1>5, <1>8

\* The widget's samples and the bars of its fires are the same runs.
LEMMA FiresAgree ==
  ASSUME LabAssumption, SERVED_SAMPLES = MAX_LATENCY_BARS, PanelInv,
         \A i \in DOMAIN bars : IsFire(bars[i]), Confirmed(bars) = bars
  PROVE  LiveLatency(bars).p50 = Median(served)
<1>0. LabInv /\ MissedTold /\ FiresTold  BY DEF PanelInv
<1> DEFINE n == Len(bars)
<1>1. /\ n \in Nat /\ DOMAIN bars = 1 .. n /\ n <= MAX_LATENCY_BARS
      /\ \A i \in 1 .. n : bars[i] \in Bar /\ bars[i].id \in Events
  BY <1>0, BarsAre
<1>2. /\ served \in Seq(Nat) /\ Len(served) <= SERVED_SAMPLES /\ Len(served) \in Nat
      /\ DOMAIN served = 1 .. Len(served)
  BY <1>0, LenProperties DEF LabInv, CountInv
<1>3. MAX_LATENCY_BARS \in Nat \ {0}  BY DEF LabAssumption
<1>4. ASSUME NEW i \in 1 .. n PROVE E2E(bars[i]) = ClickToScreen(Profile[bars[i].id])
  <2> DEFINE b == bars[i]
             p == Profile[b.id]
  <2>1. b \in Bar /\ IsConfirmed(b)
    <3>1. bars \in Seq({x \in Bar : IsConfirmed(x)})  BY <1>0, TheKept
    <3>2. QED  BY <3>1, ElementOfSeq
  <2>2. b.id \in Events /\ jobs[b.id].kind = "fire"  BY <1>1 DEF IsFire
  <2>3. b.id \notin missed  BY <1>0, <2>2 DEF MissedTold
  <2>4. E2E(b) = WorkOf(b)
    <3>1. SegmentsAddUp  BY <1>0, SumsAddUp
    <3>2. QED  BY <1>1, <2>1, <2>3, <3>1 DEF SegmentsAddUp
  <2>5. b.source = "client"
    <3>1. bars \in Seq(GoodBars)  BY <1>0 DEF LabInv, BarsInv
    <3>2. BarOk(b)  BY <3>1, ElementOfSeq DEF GoodBars
    <3>3. QED  BY <2>1, <2>2, <3>2 DEF BarOk, Bar, IsConfirmed, IsProbed
  <2>6. /\ p.parse \in Nat /\ p.tunnel \in Nat /\ p.it \in Nat /\ p.hop \in Nat
        /\ p.paint \in Nat /\ HandlerOf(p) \in Nat
    <3>1. p.sdk \in Nat /\ p.rest \in Nat /\ p.parse \in Nat /\ p.tunnel \in Nat
          /\ p.it \in Nat /\ p.hop \in Nat /\ p.paint \in Nat
      BY <2>2 DEF LabAssumption
    <3>2. FlushOf(p) \in Nat /\ HandlerOf(p) = p.sdk + FlushOf(p) + p.rest
      BY <2>2, Clocks
    <3> HIDE DEF p
    <3>3. QED  BY <3>1, <3>2
  <2>7. ClickToScreen(p) = p.hop + p.parse + p.tunnel + HandlerOf(p) + p.it + p.paint
    BY <2>2, Clocks
  <2>8. WorkOf(b) = p.parse + p.tunnel + HandlerOf(p) + p.it + p.hop + p.paint
    BY <2>2, <2>5 DEF WorkOf
  <2>9. E2E(b) = ClickToScreen(p)
    <3> HIDE DEF b, p
    <3>1. QED  BY <2>4, <2>6, <2>7, <2>8
  <2>10. QED  BY <2>9
<1>5. ASSUME NEW i \in 1 .. n
      PROVE  n - i < Len(served) /\ served[Len(served) - (n - i)] = ClickToScreen(Profile[bars[i].id])
  <2> DEFINE d == n - i
  <2>1. d \in 0 .. n - 1 /\ n - d = i /\ \A c \in 0 .. d : n - c \in 1 .. n  BY <1>1
  <2>2. \A c \in 0 .. d : IsFire(FromEnd(bars, c))  BY <1>1, <2>1 DEF FromEnd
  <2>3. d < Len(served) /\ FromEnd(served, d) = ClickToScreen(Profile[FromEnd(bars, d).id])
    BY <1>0, <2>1, <2>2 DEF FiresTold
  <2>4. FromEnd(bars, d) = bars[i]  BY <2>1 DEF FromEnd
  <2>5. QED  BY <2>3, <2>4 DEF FromEnd
<1>6. Len(served) = n
  <2>1. n < MAX_LATENCY_BARS => Len(served) <= n  BY <1>0 DEF FiresTold
  <2>2. n # 0 => n - 1 < Len(served)
    <3>1. n # 0 => 1 \in 1 .. n  BY <1>1
    <3>2. QED  BY <1>5, <3>1
  <2>3. /\ n \in Nat /\ Len(served) \in Nat /\ MAX_LATENCY_BARS \in Nat
        /\ n <= MAX_LATENCY_BARS /\ Len(served) <= MAX_LATENCY_BARS
    BY <1>1, <1>2, <1>3
  <2> DEFINE k == Len(served)
  <2> HIDE DEF n, k
  <2>4. QED  BY <2>1, <2>2, <2>3 DEF k
<1>7. Times(bars, E2E) = served
  <2>1. \A i \in 1 .. n : served[i] = E2E(bars[i])
    <3>1. \A i \in 1 .. n : Len(served) - (n - i) = i  BY <1>1, <1>6
    <3>2. QED  BY <1>4, <1>5, <3>1
  <2>2. Times(bars, E2E) = [i \in 1 .. n |-> E2E(bars[i])]  BY <1>1 DEF Times
  <2>3. served = [i \in 1 .. n |-> served[i]]  BY <1>2, <1>6, SeqDef
  <2> HIDE DEF n
  <2>4. QED  BY <2>1, <2>2, <2>3
<1>8. LiveLatency(bars).p50 = Median(Times(bars, E2E))  BY DEF LiveLatency
<1>9. QED  BY <1>7, <1>8

\* The lanes share the click pipeline: it cancels.
LEMMA LanesApart ==
  ASSUME LabAssumption, NEW bs \in Seq(Bar), NEW page \in Seq(Int)
  PROVE  LET lanes == SwimLanes(bs, page, << 1 >>, << 1 >>)
             pushed == OrZero(Median(<< 1 >>)) + OrZero(Median(<< 1 >>))
         IN  lanes.streamlit - lanes.react
               = 2 * STREAMLIT_RENDER_MS - (OrZero(MedianAvg2(Times(bs, Visibility)))
                                            + 2 * (pushed + OrZero(Median(page))))
<1> DEFINE lanes == SwimLanes(bs, page, << 1 >>, << 1 >>)
           net == OrZero(MedianAvg2(Times(bs, Network)))
           sdk == OrZero(MedianAvg2(Times(bs, Sdk)))
           flush == OrZero(MedianAvg2(Times(bs, Flush)))
           seen == OrZero(MedianAvg2(Times(bs, Visibility)))
           one == OrZero(Median(<< 1 >>))
           painted == OrZero(Median(page))
           render == STREAMLIT_RENDER_MS
<1>1. DOMAIN bs = 1 .. Len(bs) /\ Len(bs) \in Nat /\ \A i \in DOMAIN bs : bs[i] \in Bar
  BY LenProperties, ElementOfSeq
<1>2. /\ Times(bs, Network) \in Seq(Int) /\ Times(bs, Sdk) \in Seq(Int)
      /\ Times(bs, Flush) \in Seq(Int) /\ Times(bs, Visibility) \in Seq(Int)
  <2>1. \A i \in DOMAIN bs : /\ Network(bs[i]) \in Int /\ Sdk(bs[i]) \in Int
                             /\ Flush(bs[i]) \in Int /\ Visibility(bs[i]) \in Int
    <3>1. \A b \in Bar : /\ b.network \in Int /\ b.vm.sdk \in Int
                          /\ b.vm.flush \in Int /\ b.it.ms \in Int
      BY DEF Bar, Vm, Word
    <3>2. QED  BY <1>1, <3>1 DEF Network, Sdk, Flush, Visibility
  <2>2. /\ Times(bs, Network) \in [1 .. Len(bs) -> Int]
        /\ Times(bs, Sdk) \in [1 .. Len(bs) -> Int]
        /\ Times(bs, Flush) \in [1 .. Len(bs) -> Int]
        /\ Times(bs, Visibility) \in [1 .. Len(bs) -> Int]
    BY <1>1, <2>1 DEF Times
  <2>3. \A f \in [1 .. Len(bs) -> Int] : f \in Seq(Int)  BY <1>1, SeqDef
  <2>4. QED  BY <2>2, <2>3
<1>3. net \in Int /\ sdk \in Int /\ flush \in Int /\ seen \in Int  BY <1>2, MiddleIsInt
<1>4. one \in Int /\ painted \in Int
  <2>1. << 1 >> \in Seq(Int)  OBVIOUS
  <2>2. Median(<< 1 >>) \in Int /\ Median(page) \in Int  BY <2>1, MiddleIsInt
  <2>3. QED  BY <2>2 DEF OrZero
<1>5. render \in Nat  BY DEF LabAssumption
<1>6. /\ lanes.react = ((net + sdk) + flush) + seen + 2 * ((one + one) + painted)
      /\ lanes.streamlit = ((net + sdk) + flush) + 2 * render
  BY DEF SwimLanes
<1> HIDE DEF lanes, net, sdk, flush, seen, one, painted, render
<1>7. lanes.streamlit - lanes.react = 2 * render - (seen + 2 * ((one + one) + painted))
  BY <1>3, <1>4, <1>5, <1>6
<1>8. QED  BY <1>7 DEF lanes, seen, one, painted, render

\* The verdict is the same of bars without a click pipeline.
LEMMA VerdictTold ==
  ASSUME LabAssumption, LabInv, NEW page \in Seq(Int)
  PROVE  Comparison(bars, page, << 1 >>, << 1 >>) = Comparison(NoPipeline, page, << 1 >>, << 1 >>)
<1>1. /\ bars \in Seq(Bar) /\ DOMAIN bars = 1 .. Len(bars) /\ Len(bars) \in Nat
      /\ \A i \in DOMAIN bars : bars[i] \in Bar
  BY TheKept, LenProperties, ElementOfSeq
<1>2. \A i \in DOMAIN bars : NoPipeline[i] \in Bar /\ NoPipeline[i].it = bars[i].it
  BY <1>1 DEF NoPipeline, NoVm, Bar, Vm
<1>3. NoPipeline \in Seq(Bar) /\ Len(NoPipeline) = Len(bars) /\ DOMAIN NoPipeline = DOMAIN bars
  <2>1. DOMAIN NoPipeline = 1 .. Len(bars)
        /\ NoPipeline = [i \in 1 .. Len(bars) |-> NoPipeline[i]]
    BY <1>1 DEF NoPipeline
  <2>2. NoPipeline \in [1 .. Len(bars) -> Bar]  BY <1>1, <1>2, <2>1
  <2>3. NoPipeline \in Seq(Bar)  BY <1>1, <2>2, SeqDef
  <2>4. QED  BY <1>1, <2>1, <2>3, LenProperties
<1>4. Times(NoPipeline, Visibility) = Times(bars, Visibility)
  BY <1>2, <1>3 DEF Times, Visibility
<1> DEFINE Delta(bs) == SwimLanes(bs, page, << 1 >>, << 1 >>).streamlit
                        - SwimLanes(bs, page, << 1 >>, << 1 >>).react
<1>5. Delta(bars) = Delta(NoPipeline)  BY <1>1, <1>3, <1>4, LanesApart
<1>6. \A bs : Comparison(bs, page, << 1 >>, << 1 >>) =
                IF ~(Len(bs) >= MIN_CLICKS /\ page # << >> /\ << 1 >> # << >> /\ << 1 >> # << >>)
                THEN "hidden"
                ELSE IF Delta(bs) > -2 * TIED_MS /\ Delta(bs) < 2 * TIED_MS THEN "tied"
                ELSE IF Delta(bs) > 0 THEN "react" ELSE "streamlit"
  BY DEF Comparison
<1> HIDE DEF Delta
<1>7. QED  BY <1>3, <1>5, <1>6

\* The panels agree in every state that PanelInv allows.
LEMMA PanelsTell ==
  ASSUME LabAssumption, SERVED_SAMPLES = MAX_LATENCY_BARS, PanelInv
  PROVE  PanelsAgree
<1>0. LabInv /\ BarsTold  BY DEF PanelInv
<1> DEFINE live == LiveLatency(bars)
           stats == LatencyStatsOf(bars)
           fresh == StrategyFreshness(bars)
           b == bars[1]
           fires == \A i \in DOMAIN bars : jobs[bars[i].id].kind = "fire"
           OneBar == /\ live.last = StackTotal(b) - b.render + TransportOf(b)
                     /\ b.source = "client" => SumOfSteps = StackTotal(b)
                     /\ b.source = "ws" => SumOfSteps = Recon(bars) - b.network
                     /\ \A i \in DOMAIN Pipeline :
                          LiveMedian(bars, Pipeline[i]) = LiveLast(bars, Pipeline[i])
                     /\ jobs[b.id].kind = "sim" /\ sim.count = 1 /\ Done(b.id)
                        /\ b.id \notin missed =>
                          ClickToVisualized(bars, sim.ingress, << 1 >>)
                            = WorkOf(b) + Profile[b.id].hop + 1
                     /\ LiveDocStats(bars, << 1 >>).e2e
                          = live.last - TransportOf(b) - b.vm.over + 1
<1>1. Clicked(bars) = Confirmed(bars) =>
        /\ live.p50 = stats.p50 /\ live.p50 = fresh.q_user
        /\ live.p99 = stats.p99 /\ live.count = stats.count
  BY <1>0, ClicksTold
<1>2. fires /\ Confirmed(bars) = bars => live.p50 = Median(served)
  BY FiresAgree DEF IsFire
<1>3. PipelineHealth(bars).rawPct = live.confirmedPct
  BY DEF PipelineHealth, LiveLatency
<1>4. ASSUME Len(bars) = 1, IsConfirmed(b) PROVE OneBar
  <2>1. b \in Bar /\ bars = << b >> /\ (b.source = "ws" => b.render = 0)
    <3>1. bars \in Seq(Bar) /\ DOMAIN bars = 1 .. 1  BY <1>0, <1>4, TheKept, LenProperties
    <3>2. b \in Bar /\ BarTold(b)  BY <1>0, <3>1 DEF BarsTold, ToldBars
    <3>3. bars = << b >>
      <4>1. << b >> \in Seq(Bar) /\ Len(<< b >>) = 1 /\ << b >>[1] = b  BY <3>2
      <4> DEFINE one == << b >>
      <4>2. one \in Seq(Bar) /\ Len(one) = Len(bars)
            /\ \A i \in 1 .. Len(bars) : bars[i] = one[i]
        BY <1>4, <4>1
      <4> HIDE DEF one, b
      <4>3. bars = one  BY <3>1, <4>2, SeqEqual
      <4>4. QED  BY <4>3 DEF one
    <3>4. QED  BY <3>2, <3>3 DEF BarTold
  <2> HIDE DEF b
  <2>2. IsConfirmed(b)  BY <1>4 DEF b
  <2>3. QED  BY <2>1, <2>2, OneBarTold, OneSimTold
<1>5. \A page \in {<< >>, << 1 >>, << 1, STREAMLIT_RENDER_MS >>} :
        Comparison(bars, page, << 1 >>, << 1 >>) = Comparison(NoPipeline, page, << 1 >>, << 1 >>)
  <2>1. STREAMLIT_RENDER_MS \in Int  BY DEF LabAssumption
  <2>2. << >> \in Seq(Int) /\ << 1 >> \in Seq(Int) /\ << 1, STREAMLIT_RENDER_MS >> \in Seq(Int)
    BY <2>1
  <2>3. QED  BY <1>0, <2>2, VerdictTold
<1> HIDE DEF live, stats, fresh, b, fires
<1>6. QED
  BY <1>1, <1>2, <1>3, <1>4, <1>5 DEF PanelsAgree, live, stats, fresh, b, fires

\* The numbers of the panels fit together, as long as the widget keeps as many samples
\* as the store keeps bars (InteractiveLatency.tsx:85, store.ts:112).
THEOREM PanelsOfBarsAgree ==
  ASSUME LabAssumption, SERVED_SAMPLES = MAX_LATENCY_BARS
  PROVE  LabSpec => []PanelsAgree
<1>1. LabInit => PanelInv  BY InitPanels
<1>2. PanelInv /\ [LabNext]_labVars => PanelInv'  BY PanelStep
<1>3. PanelInv => PanelsAgree  BY PanelsTell
<1>4. QED  BY <1>1, <1>2, <1>3, PTL DEF LabSpec

\* The reconciliation of the latency page (latency/page.tsx:200-218) adds up for a bar of
\* the socket, and counts the transport of a bar the tab measured twice, and nothing else.
ReconIsOffByTransport ==
  LET c == Confirmed(bars)
      b == c[Len(c)]
  IN  c # << >> /\ b.id \notin missed =>
        Recon(bars) = WorkOf(b) + b.render + (IF b.source = "client" THEN b.vm.transport ELSE 0)

LEMMA ReconOfLast == ASSUME LabAssumption, LabInv PROVE ReconIsOffByTransport
<1> DEFINE c == Confirmed(bars)
           b == c[Len(c)]
<1>1. bars \in Seq(GoodBars)  BY DEF LabInv, BarsInv
<1>2. ASSUME c # << >>, b.id \notin missed
      PROVE  Recon(bars) = WorkOf(b) + b.render
                           + (IF b.source = "client" THEN b.vm.transport ELSE 0)
  <2> DEFINE S == {x \in ToSet(bars) : IsConfirmed(x)}
  <2>1. c \in Seq(GoodBars \intersect S)
    <3>1. Only(bars, S) \in Seq(GoodBars \intersect S)  BY <1>1, OnlyThese
    <3>2. c = Only(bars, S)  BY DEF Confirmed, Keep
    <3> HIDE DEF c, S
    <3>3. QED  BY <3>1, <3>2
  <2>2. Len(c) \in 1 .. Len(c)
    <3> HIDE DEF c
    <3>1. QED  BY <1>2, <2>1, EmptySeq, LenProperties
  <2>3. b \in GoodBars \intersect S
    <3>1. \A s \in Seq(GoodBars \intersect S) : \A i \in 1 .. Len(s) : s[i] \in GoodBars \intersect S
      BY ElementOfSeq
    <3> HIDE DEF c, S
    <3>2. QED  BY <2>1, <2>2, <3>1
  <2>4. Recon(bars) = ReconTotal(b)
    <3>1. c # << >>  BY <1>2
    <3>2. QED  BY <3>1 DEF Recon
  <2>5. b.id \notin missed  BY <1>2
  <2> HIDE DEF c, b
  <2>6. PICK i \in DOMAIN bars : bars[i] = b  BY <2>3 DEF ToSet
  <2>7. b \in Bar /\ IsConfirmed(b)  BY <2>3 DEF GoodBars
  <2>8. E2E(b) = WorkOf(b)  BY <2>5, <2>6, <2>7, SumsAddUp DEF SegmentsAddUp
  <2>9. /\ b.source \in {"client", "ws"} /\ b.network \in Nat /\ b.render \in Nat /\ b.it.ms \in Nat
        /\ b.vm.sdk \in Nat /\ b.vm.flush \in Nat /\ b.vm.over \in Nat /\ b.vm.transport \in Nat
    BY <2>7 DEF Bar, Vm, Word
  <2>10. ReconTotal(b) = E2E(b) + b.render + (IF b.source = "client" THEN b.vm.transport ELSE 0)
    BY <2>9 DEF ReconTotal, E2E, TransportOf, Handler
  <2> HIDE DEF ReconTotal, E2E, TransportOf, Handler
  <2>11. QED  BY <2>4, <2>8, <2>10
<1>3. QED  BY <1>2 DEF ReconIsOffByTransport, c, b

\* So the sum on the latency page is exact for whatever came over the socket, for any
\* events, times and order of messages: the tunnel of a measured bar is all it misjudges.
THEOREM ReconMissesTransportOnly ==
  ASSUME LabAssumption PROVE LabSpec => []ReconIsOffByTransport
<1>1. LabInv => ReconIsOffByTransport  BY ReconOfLast
<1>2. QED  BY <1>1, InitLab, LabStep, PTL DEF LabSpec
=============================================================================
