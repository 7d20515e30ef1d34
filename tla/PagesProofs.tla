------------------------------ MODULE PagesProofs ------------------------------
(***************************************************************************)
(* What is proved of each component alone (DeskProofs, PagePartsProofs)    *)
(* holds of it among the others: they leave its state alone.               *)
(***************************************************************************)
EXTENDS Pages, TLAPS

P == INSTANCE DeskProofs
Q == INSTANCE PagePartsProofs

\* The desk of the pages is the desk of the proofs.
LEMMA SameAssumption == PagesAssumption => P!DeskAssumption
  BY DEF PagesAssumption, D!DeskAssumption, P!DeskAssumption,
         D!IsFiniteSet, P!IsFiniteSet

LEMMA SameInit == D!Init => P!Init
  BY DEF D!Init, P!Init, D!Asked, P!Asked, D!Idle, P!Idle, D!Default, P!Default,
     D!Empty, P!Empty, D!Kinds, P!Kinds

LEMMA SameStep == [D!Next]_deskVars => [P!Next]_(P!vars)
  BY DEF D!Next, P!Next, D!Write, P!Write, D!Push, P!Push, D!Answered, P!Answered,
     D!Served, P!Served, D!QueryFails, P!QueryFails, D!RequestFails, P!RequestFails,
     D!Answer, P!Answer, D!Reads, P!Reads, D!Fault, P!Fault, D!Default, P!Default,
     D!Handled, P!Handled, D!Lands, P!Lands, D!Fails, P!Fails, D!Shows, P!Shows,
     D!Frees, P!Frees, D!Idle, P!Idle, D!Poll, P!Poll, D!Switch, P!Switch,
     D!Free, P!Free, D!Asked, P!Asked, D!LiveViews, P!LiveViews, D!Views, P!Views,
     D!Kinds, P!Kinds, deskVars, P!vars
\* A desk that is at rest has nothing under way.
LEMMA RestIsView == P!DeskAssumption /\ DeskAtRest => P!ViewInv
<1> SUFFICES ASSUME P!DeskAssumption, DeskAtRest PROVE P!ViewInv  OBVIOUS
<1>1. fetches = [f \in Fetches |-> [kind |-> "snapshot", view |-> "past", alive |-> FALSE,
                                    stage |-> "idle", v |-> P!Default]]
  BY DEF DeskAtRest, D!Idle, D!Default, P!Default
<1>2. P!ToCount = {}  BY <1>1 DEF P!ToCount, P!Uncounted
<1>3. P!Cardinality(P!ToCount) = 0  BY <1>2, P!FS_EmptySet
<1>4. 0 \in P!Versions  BY DEF P!Versions, P!DeskAssumption
<1>5. fetches \in [Fetches -> P!FetchType]
  BY <1>1 DEF P!FetchType, P!Kinds, P!Views, P!LiveViews
<1>6. tiles \in [P!Kinds -> P!Contents]
  BY <1>4 DEF DeskAtRest, D!Kinds, P!Kinds, P!Contents, P!Views
<1>7. \A f \in Fetches : fetches[f].alive => fetches[f].view = view
  BY <1>1
<1>8. QED
  BY <1>3, <1>4, <1>5, <1>6, <1>7 DEF DeskAtRest, P!ViewInv, P!Views, P!DeskAssumption

LEMMA InitIsView == PagesAssumption /\ Init => P!ViewInv
  BY SameAssumption, SameInit, RestIsView, P!InitView DEF Init

\* The desk takes a step of its own, or is left alone.
LEMMA StepOfDesk == [Next]_pagesVars => [D!Next]_deskVars
<1>1. DeskNext => D!Next
  BY DEF DeskNext, OfDesk, D!Next, D!Answered, D!Handled
<1>2. ServingNext => UNCHANGED deskVars  BY DEF ServingNext, OfServing
<1>3. ChatNext => UNCHANGED deskVars  BY DEF ChatNext, OfChat
<1>4. LabNext => UNCHANGED deskVars  BY DEF LabNext, OfLab
<1>5. QED  BY <1>1, <1>2, <1>3, <1>4 DEF Next, pagesVars

-----------------------------------------------------------------------------

\* Nothing of a view that was left is shown in the next one or counted there
\* (desk/page.tsx:154-346), whatever the other components do.
THEOREM PagesShowTheirView ==
  ASSUME PagesAssumption
  PROVE  Spec => ShowsItsView
<1>1. Init => P!ViewInv  BY InitIsView
<1>2. P!ViewInv /\ [Next]_pagesVars => P!ViewInv' /\ (P!ShowsItsViewStep \/ UNCHANGED P!vars)
  BY StepOfDesk, SameStep, SameAssumption, P!ViewStep
<1>3. P!ViewInv /\ [Next]_pagesVars =>
        [/\ \A k \in D!Kinds : tiles'[k] # tiles[k] => tiles'[k].from \in {view, "push"}
         /\ errors' <= failedHere']_(D!vars)
  BY <1>2 DEF P!ShowsItsViewStep, P!Kinds, D!Kinds, P!vars, D!vars
<1>4. QED  BY <1>1, <1>2, <1>3, PTL DEF Spec, ShowsItsView, D!ShowsItsView

-----------------------------------------------------------------------------
(* The latency bars, in the same way.                                      *)

LEMMA SameLabAssumption == PagesAssumption => Q!LabAssumption
  BY DEF PagesAssumption, L!LabAssumption, Q!LabAssumption, L!IsFiniteSet, Q!IsFiniteSet

LEMMA SameLabInit == L!LabInit => Q!LabInit
  BY DEF L!LabInit, Q!LabInit, L!Quiet, Q!Quiet

\* The functions of the store and the clocks.
LEMMA SameStore ==
  /\ \A s, b : L!AddLatencyBar(s, b) = Q!AddLatencyBar(s, b)
  /\ \A s, e, x : L!UpdateLatencyBarByEventId(s, e, x) = Q!UpdateLatencyBarByEventId(s, e, x)
  /\ \A s, e, t, x : L!UpdateLatencyBarItPoll(s, e, t, x) = Q!UpdateLatencyBarItPoll(s, e, t, x)
  /\ \A s, e, x : L!UpdateLatencyBar(s, e, x) = Q!UpdateLatencyBar(s, e, x)
  /\ \A s, n : L!LastN(s, n) = Q!LastN(s, n)
  BY DEF L!AddLatencyBar, Q!AddLatencyBar, L!BarsOf, Q!BarsOf, L!LastN, Q!LastN,
         L!UpdateLatencyBarByEventId, Q!UpdateLatencyBarByEventId,
         L!UpdateLatencyBarItPoll, Q!UpdateLatencyBarItPoll,
         L!UpdateLatencyBar, Q!UpdateLatencyBar

LEMMA SameClocks ==
  /\ \A n : L!AtLeast0(n) = Q!AtLeast0(n)
  /\ \A p : /\ L!FlushOf(p) = Q!FlushOf(p) /\ L!HandlerOf(p) = Q!HandlerOf(p)
           /\ L!ServerTotal(p) = Q!ServerTotal(p) /\ L!PostTotal(p) = Q!PostTotal(p)
           /\ L!ClickToScreen(p) = Q!ClickToScreen(p) /\ L!VerifiedVm(p) = Q!VerifiedVm(p)
  BY DEF L!AtLeast0, Q!AtLeast0, L!FlushOf, Q!FlushOf, L!HandlerOf, Q!HandlerOf,
         L!ServerTotal, Q!ServerTotal, L!PostTotal, Q!PostTotal, L!ClickToScreen,
         Q!ClickToScreen, L!VerifiedVm, Q!VerifiedVm, L!Overhead, Q!Overhead, L!Max, Q!Max

LEMMA SameBars ==
  \A e, p : /\ L!WsBar(e, p) = Q!WsBar(e, p) /\ L!ClickBar(e, p) = Q!ClickBar(e, p)
           /\ L!FireBar(e, p) = Q!FireBar(e, p)
  BY SameClocks DEF L!WsBar, Q!WsBar, L!ClickBar, Q!ClickBar, L!FireBar, Q!FireBar,
                    L!NoVm, Q!NoVm, L!NoWord, Q!NoWord

\* A step of the latency part is a step of the lab; the others leave it alone.
LEMMA StepOfLab == PagesAssumption /\ [Next]_pagesVars => [Q!LabNext]_(Q!labVars)
<1> SUFFICES ASSUME PagesAssumption, [Next]_pagesVars PROVE [Q!LabNext]_(Q!labVars)  OBVIOUS
<1>1. CASE UNCHANGED labVars  BY <1>1 DEF labVars, Q!labVars
<1>2. CASE LabNext
  <2>1. L!Deliver => Q!Deliver  BY SameStore, SameClocks, SameBars DEF L!Deliver, Q!Deliver
  <2>2. L!Cut => Q!Cut  BY DEF L!Cut, Q!Cut
  <2>3. ASSUME NEW e \in Events, NEW kind \in {"sim", "click", "fire"}, L!Post(e, kind)
        PROVE  Q!Post(e, kind)
    BY <2>3 DEF L!Post, Q!Post, L!Quiet, Q!Quiet, L!Open, Q!Open, L!Broadcast, Q!Broadcast
  <2>4. ASSUME NEW e \in Events PROVE L!VmAnswers(e) => Q!VmAnswers(e)
    BY DEF L!VmAnswers, Q!VmAnswers, L!Broadcast, Q!Broadcast
  <2>5. ASSUME NEW e \in Events PROVE L!Refuses(e) => Q!Refuses(e)
    BY DEF L!Refuses, Q!Refuses
  <2>6. ASSUME NEW e \in Events, NEW w \in ProbeWords[e], L!ProbeSpeaks(e, w[1], w[2])
        PROVE  \E table \in {"raw", "book"}, word \in {"real", "floor"} :
                 Q!ProbeSpeaks(e, table, word)
    <3>1. w[1] \in {"raw", "book"} /\ w[2] \in {"real", "floor"}  BY DEF PagesAssumption
    <3>2. Q!ProbeSpeaks(e, w[1], w[2])
      BY <2>6 DEF L!ProbeSpeaks, Q!ProbeSpeaks, L!Broadcast, Q!Broadcast
    <3>3. QED  BY <3>1, <3>2
  <2>7. ASSUME NEW e \in Events PROVE L!SimAnswered(e) => Q!SimAnswered(e)
    BY SameStore, SameClocks DEF L!SimAnswered, Q!SimAnswered
  <2>8. ASSUME NEW e \in Events PROVE L!ClickAnswered(e) => Q!ClickAnswered(e)
    BY SameStore, SameBars DEF L!ClickAnswered, Q!ClickAnswered
  <2>9. ASSUME NEW e \in Events PROVE L!ClickPainted(e) => Q!ClickPainted(e)
    BY SameStore DEF L!ClickPainted, Q!ClickPainted
  <2>10. ASSUME NEW e \in Events, NEW found \in BOOLEAN, L!FireAnswered(e, found)
         PROVE  Q!FireAnswered(e, found)
    BY <2>10, SameStore, SameClocks, SameBars DEF L!FireAnswered, Q!FireAnswered
  <2>11. QED
    BY <1>2, <2>1, <2>2, <2>3, <2>4, <2>5, <2>6, <2>7, <2>8, <2>9, <2>10
       DEF LabNext, OfLab, Q!LabNext
<1>3. DeskNext => UNCHANGED labVars  BY DEF DeskNext, OfDesk
<1>4. ServingNext => UNCHANGED labVars  BY DEF ServingNext, OfServing
<1>5. ChatNext => UNCHANGED labVars  BY DEF ChatNext, OfChat
<1>6. UNCHANGED pagesVars => UNCHANGED labVars  BY DEF pagesVars
<1>7. QED  BY <1>1, <1>2, <1>3, <1>4, <1>5, <1>6 DEF Next

LEMMA SameSums == Q!SegmentsAddUp => SegmentsAddUp
  BY SameClocks
     DEF SegmentsAddUp, L!SegmentsAddUp, Q!SegmentsAddUp, L!WorkOf, Q!WorkOf, L!E2E, Q!E2E,
         L!TransportOf, Q!TransportOf, L!Handler, Q!Handler, L!IsConfirmed, Q!IsConfirmed,
         L!IsProbed, Q!IsProbed

\* liveStats.ts:7-8, "the FULL pipeline breakdown": whatever the order of answers,
\* messages and paints, the segments of a bar whose row was seen are the work done for
\* its event, none twice and none left out, unless a message of it was lost.
THEOREM SegmentsOfPagesAddUp ==
  ASSUME PagesAssumption
  PROVE  Spec => []SegmentsAddUp
<1>1. Q!LabAssumption /\ MAX_TAPE \in Nat \ {0} /\ MAX_LATENCY_BARS \in Nat \ {0}
  BY SameLabAssumption DEF PagesAssumption, Q!LabAssumption
<1>2. Init => Q!LabInv  BY <1>1, SameLabInit, Q!InitLab DEF Init
<1>3. Q!LabInv /\ [Next]_pagesVars => Q!LabInv'  BY <1>1, StepOfLab, Q!LabStep
<1>4. Q!LabInv => SegmentsAddUp  BY <1>1, SameSums, Q!SumsAddUp
<1>5. QED  BY <1>2, <1>3, <1>4, PTL DEF Spec

-----------------------------------------------------------------------------
(* The chat, in the same way.                                              *)

LEMMA SameChatAssumption == PagesAssumption => Q!AgentAssumption
  BY DEF PagesAssumption, A!AgentAssumption, Q!AgentAssumption, A!AgentLine, Q!AgentLine,
         A!EventTypes, Q!EventTypes, A!SKIP_EVENTS, Q!SKIP_EVENTS

\* What the proofs of the parts assume.
LEMMA Assumed ==
  PagesAssumption =>
    /\ P!DeskAssumption /\ Q!LabAssumption /\ Q!AgentAssumption
    /\ MAX_TAPE \in Nat \ {0} /\ MAX_LATENCY_BARS \in Nat \ {0}
  BY SameAssumption, SameLabAssumption, SameChatAssumption
     DEF PagesAssumption, Q!LabAssumption

LEMMA SameChatInit == A!AgentInit => Q!AgentInit
  BY DEF A!AgentInit, Q!AgentInit, A!Reset, Q!Reset

\* The pieces of a stream, and the loops over what ends in them.
LEMMA SamePieces ==
  /\ \A m, n : A!Piece(m, n) = Q!Piece(m, n)
  /\ \A h : A!Ended(h) = Q!Ended(h) /\ A!Rest(h) = Q!Rest(h)
  /\ \A numbers : A!Lines(numbers) = Q!Lines(numbers)
  /\ \A numbers : A!EventsIn(numbers) = Q!EventsIn(numbers)
  BY DEF A!Piece, Q!Piece, A!Ended, Q!Ended, A!Rest, Q!Rest, A!Lines, Q!Lines,
         A!EventsIn, Q!EventsIn, A!Event, Q!Event

LEMMA SameParser ==
  \A start, xs : A!Through(A!ProxyLine, start, xs) = Q!ParseAll(start, xs)
  BY DEF A!Through, Q!Through, Q!ParseAll, A!ProxyLine, Q!ProxyLine, A!Event, Q!Event,
         A!SKIP_EVENTS, Q!SKIP_EVENTS

LEMMA SamePage ==
  \A start, xs : A!Through(A!PageEvent, start, xs) = Q!ShowAll(start, xs)
  BY DEF A!Through, Q!Through, Q!ShowAll, A!PageEvent, Q!PageEvent, A!Replaced, Q!Replaced,
         A!Failed, Q!Failed

\* A step of the chat part is a step of the chat; the others leave it alone.
LEMMA StepOfChat == PagesAssumption /\ [Next]_pagesVars => [Q!AgentNext]_(Q!agentVars)
<1> SUFFICES ASSUME PagesAssumption, [Next]_pagesVars
             PROVE  [Q!AgentNext]_(Q!agentVars)
  OBVIOUS
<1>1. CASE UNCHANGED chatVars  BY <1>1 DEF chatVars, Q!agentVars
<1>2. CASE ChatNext
  <2>1. ASSUME NEW n \in 1 .. MaxPiece, A!ProxyReads(n) PROVE Q!ProxyReads(n)
    BY <2>1, SamePieces, SameParser DEF A!ProxyReads, Q!ProxyReads, Q!ParseAll
  <2>2. ASSUME NEW n \in 1 .. MaxPiece, A!PageReads(n) PROVE Q!PageReads(n)
    BY <2>2, SamePieces, SamePage DEF A!PageReads, Q!PageReads, Q!ShowAll
  <2>3. A!ProxyEnds => Q!ProxyEnds
    BY DEF A!ProxyEnds, Q!ProxyEnds, A!Closes, Q!Closes, A!Event, Q!Event
  <2>4. A!ProxyBreaks => Q!ProxyBreaks
    BY DEF A!ProxyBreaks, Q!ProxyBreaks, A!Closes, Q!Closes, A!Event, Q!Event, A!Break, Q!Break
  <2>5. A!PageEnds => Q!PageEnds  BY DEF A!PageEnds, Q!PageEnds, A!Finally, Q!Finally
  <2>6. A!PageBreaks => Q!PageBreaks
    BY DEF A!PageBreaks, Q!PageBreaks, A!Finally, Q!Finally, A!Break, Q!Break,
           A!Replaced, Q!Replaced, A!Failed, Q!Failed
  <2>7. A!Clear => Q!Clear  BY DEF A!Clear, Q!Clear
  <2>8. ASSUME NEW s \in Scripts, A!Asks(s) PROVE Q!Asks(s)
    BY <2>8 DEF A!Asks, Q!Asks, A!Reset, Q!Reset
  <2>9. QED
    BY <1>2, <2>1, <2>2, <2>3, <2>4, <2>5, <2>6, <2>7, <2>8
       DEF ChatNext, OfChat, Q!AgentNext, Q!Flows, Q!Shows
<1>3. DeskNext => UNCHANGED chatVars  BY DEF DeskNext, OfDesk
<1>4. ServingNext => UNCHANGED chatVars  BY DEF ServingNext, OfServing
<1>5. LabNext => UNCHANGED chatVars  BY DEF LabNext, OfLab
<1>6. UNCHANGED pagesVars => UNCHANGED chatVars  BY DEF pagesVars
<1>7. QED  BY <1>1, <1>2, <1>3, <1>4, <1>5, <1>6 DEF Next

LEMMA SameAnswer == Q!AnswerIsWhole => AnswerIsWhole
<1>1. \A i : A!TypeOf(i) = Q!TypeOf(i)  BY DEF A!TypeOf, Q!TypeOf, A!Max, Q!Max
<1>2. \A i : A!Whole(i) <=> Q!Whole(i)
  BY DEF A!Whole, Q!Whole, A!DataOf, Q!DataOf, A!Marks, Q!Marks
<1>3. \A i : A!Stops(i) <=> Q!Stops(i)  BY <1>1, <1>2 DEF A!Stops, Q!Stops
<1>4. A!Told = Q!Told
  BY <1>1, <1>2, <1>3 DEF A!Told, Q!Told, A!SKIP_EVENTS, Q!SKIP_EVENTS
<1>5. A!Answer = Q!Answer
  BY <1>4 DEF A!Answer, Q!Answer, A!ToldTo, Q!ToldTo, A!Cardinality, Q!Cardinality
<1>6. QED
  BY <1>5 DEF AnswerIsWhole, A!AnswerIsWhole, Q!AnswerIsWhole, A!IsError, Q!IsError,
              A!IsPrefix, Q!IsPrefix

LEMMA ChatInit == PagesAssumption /\ Init => Q!ChatInv
  BY Assumed, SameChatInit, Q!InitChat DEF Init

LEMMA ChatNextKeeps == PagesAssumption /\ Q!ChatInv /\ [Next]_pagesVars => Q!ChatInv'
  BY Assumed, StepOfChat, Q!ChatStep

\* However the agent's stream and the route's are cut into pieces, whatever breaks and
\* whatever the other components do, the page shows a part of the answer while it
\* streams, and then all of it, or an error (agent-proxy.ts:101-176, AgentChat.tsx:79-205).
THEOREM AnswerOfPagesIsWhole ==
  ASSUME PagesAssumption
  PROVE  Spec => []AnswerIsWhole
<1>1. Init => Q!ChatInv  BY ChatInit
<1>2. Q!ChatInv /\ [Next]_pagesVars => Q!ChatInv'  BY ChatNextKeeps
<1>3. Q!ChatInv => AnswerIsWhole  BY Assumed, SameAnswer, Q!WholeAnswer
<1>4. QED  BY <1>1, <1>2, <1>3, PTL DEF Spec

-----------------------------------------------------------------------------
(* The serving comparison, and the types of all parts.                     *)

LEMMA SameServingInit == S!ServingInit => Q!ServingInit
  BY DEF S!ServingInit, Q!ServingInit, S!Panels, Q!Panels, S!Asking, Q!Asking,
         S!NoRequest, Q!NoRequest, S!Blank, Q!Blank

\* A panel at rest asks nothing.
LEMMA ServingRests == PagesAssumption /\ ServingAtRest => Q!ServingInv
<1> SUFFICES ASSUME PagesAssumption, ServingAtRest PROVE Q!ServingInv  OBVIOUS
<1>1. panel = "desk" /\ rows = [t \in {"raw", "book"} |-> 0]
      /\ requests = [r \in Requests |-> Q!NoRequest]
      /\ shown = [match |-> "yes", err |-> FALSE]
  BY DEF ServingAtRest, S!NoRequest, Q!NoRequest
<1>2. panel \in Q!Panels  BY <1>1 DEF Q!Panels
<1>3. PICK no \in BOOLEAN : no = FALSE  OBVIOUS
<1>4. shown = [match |-> "yes", err |-> no]  BY <1>1, <1>3
<1>5. shown \in [match : {"none", "yes", "no"}, err : BOOLEAN] /\ ~shown.err
  BY <1>3, <1>4
<1>6. rows \in [{"raw", "book"} -> Nat]  BY <1>1
<1>7. requests \in [Requests -> Q!RequestT] /\ \A r \in Requests : Q!Read(requests[r].totals)
  BY <1>1, Assumed, Q!NoneAsked
<1>8. QED  BY <1>1, <1>2, <1>5, <1>6, <1>7 DEF Q!ServingInv

LEMMA ServingStarts == PagesAssumption /\ Init => Q!ServingInv
  BY Assumed, SameServingInit, ServingRests, Q!InitServing DEF Init

LEMMA StepOfServing == [Next]_pagesVars => [Q!ServingNext]_(Q!servingVars)
<1> SUFFICES ASSUME [Next]_pagesVars PROVE [Q!ServingNext]_(Q!servingVars)  OBVIOUS
<1>1. CASE UNCHANGED servingVars  BY <1>1 DEF servingVars, Q!servingVars
<1>2. CASE ServingNext
  <2>1. ASSUME NEW t \in {"raw", "book"}, S!Commit(t) PROVE Q!Commit(t)
    BY <2>1 DEF S!Commit, Q!Commit
  <2>2. ASSUME NEW r \in Requests
        PROVE  /\ S!ReadOk(r) => Q!ReadOk(r)
               /\ S!ReadFails(r) => Q!ReadFails(r)
               /\ S!RequestBreaks(r) => Q!RequestBreaks(r)
    BY DEF S!ReadOk, Q!ReadOk, S!ReadFails, Q!ReadFails, S!RequestBreaks, Q!RequestBreaks,
           S!Answers, Q!Answers, S!Reading, Q!Reading, S!Turn, Q!Turn, S!Breaks, Q!Breaks,
           S!Strategies, Q!Strategies, S!TableOf, Q!TableOf, S!NoTotal, Q!NoTotal
  <2>3. ASSUME NEW r \in Requests
        PROVE  /\ S!AnswerShown(r) => Q!AnswerShown(r)
               /\ S!ErrorShown(r) => Q!ErrorShown(r)
    BY DEF S!AnswerShown, Q!AnswerShown, S!ErrorShown, Q!ErrorShown, S!Reading, Q!Reading,
           S!Strategies, Q!Strategies, S!NoRequest, Q!NoRequest, S!TotalsMatch, Q!TotalsMatch,
           S!NoTotal, Q!NoTotal, S!Cardinality, Q!Cardinality
  <2>4. ASSUME NEW r \in Requests
        PROVE  /\ S!Tick(r) => Q!Tick(r)
               /\ \A p \in S!Panels : S!Remount(p, r) => p \in Q!Panels /\ Q!Remount(p, r)
    BY DEF S!Tick, Q!Tick, S!Remount, Q!Remount, S!Free, Q!Free, S!Asking, Q!Asking,
           S!NoRequest, Q!NoRequest, S!Blank, Q!Blank, S!Panels, Q!Panels
  <2>5. QED
    BY <1>2, <2>1, <2>2, <2>3, <2>4
       DEF ServingNext, OfServing, Q!ServingNext, Q!ReadEnds, Q!Lands
<1>3. DeskNext => UNCHANGED servingVars  BY DEF DeskNext, OfDesk
<1>4. ChatNext => UNCHANGED servingVars  BY DEF ChatNext, OfChat
<1>5. LabNext => UNCHANGED servingVars  BY DEF LabNext, OfLab
<1>6. UNCHANGED pagesVars => UNCHANGED servingVars  BY DEF pagesVars
<1>7. QED  BY <1>1, <1>2, <1>3, <1>4, <1>5, <1>6 DEF Next

\* Every part keeps its types, and the part that is followed stays the same.
PartsInv ==
  /\ part \in Parts
  /\ P!ViewInv /\ Q!ServingInv /\ Q!ChatInv /\ Q!LabInv

LEMMA PartStays == [Next]_pagesVars => part' = part
  BY DEF Next, DeskNext, ServingNext, ChatNext, LabNext, OfDesk, OfServing, OfChat, OfLab,
         pagesVars

LEMMA SameTypes ==
  /\ P!TypeOK => D!TypeOK
  /\ Q!ServingTypeOK => S!ServingTypeOK
  /\ Q!AgentTypeOK => A!AgentTypeOK
  /\ Q!LabTypeOK => L!LabTypeOK
<1>1. P!TypeOK => D!TypeOK
  BY DEF P!TypeOK, D!TypeOK, P!Versions, D!Versions, P!Views, D!Views, P!LiveViews, D!LiveViews,
         P!Kinds, D!Kinds, P!Default, D!Default, P!Contents, D!Contents
<1>2. Q!ServingTypeOK => S!ServingTypeOK
  BY DEF Q!ServingTypeOK, S!ServingTypeOK, Q!Panels, S!Panels, Q!Strategies, S!Strategies,
         Q!TableOf, S!TableOf, Q!NoTotal, S!NoTotal
<1>3. Q!AgentTypeOK => A!AgentTypeOK
  BY DEF Q!AgentTypeOK, A!AgentTypeOK, Q!SKIP_EVENTS, A!SKIP_EVENTS
<1>4. Q!LabTypeOK => L!LabTypeOK
  BY DEF Q!LabTypeOK, L!LabTypeOK, Q!Open, L!Open, Q!Cardinality, L!Cardinality
<1>5. QED  BY <1>1, <1>2, <1>3, <1>4

\* The type invariant of the pages.
THEOREM PagesTypeCorrect ==
  ASSUME PagesAssumption
  PROVE  Spec => []TypeOK
<1>1. /\ P!DeskAssumption /\ Q!LabAssumption /\ Q!AgentAssumption
      /\ MAX_TAPE \in Nat \ {0} /\ MAX_LATENCY_BARS \in Nat \ {0}
  BY Assumed
<1>2. Init => PartsInv
  <2>1. Init => P!ViewInv  BY InitIsView
  <2>2. Init => Q!ServingInv  BY ServingStarts
  <2>3. Init => Q!ChatInv  BY ChatInit
  <2>4. Init => Q!LabInv  BY <1>1, SameLabInit, Q!InitLab DEF Init
  <2>5. QED  BY <2>1, <2>2, <2>3, <2>4 DEF Init, PartsInv
<1>3. PartsInv /\ [Next]_pagesVars => PartsInv'
  <2> SUFFICES ASSUME PartsInv, [Next]_pagesVars PROVE PartsInv'  OBVIOUS
  <2>1. P!ViewInv'  BY <1>1, StepOfDesk, SameStep, P!ViewStep DEF PartsInv
  <2>2. Q!ServingInv'  BY <1>1, StepOfServing, Q!ServingStep DEF PartsInv
  <2>3. Q!ChatInv'  BY ChatNextKeeps DEF PartsInv
  <2>4. Q!LabInv'  BY <1>1, StepOfLab, Q!LabStep DEF PartsInv
  <2>5. QED  BY <2>1, <2>2, <2>3, <2>4, PartStays DEF PartsInv
<1>4. PartsInv => TypeOK
  <2> SUFFICES ASSUME PartsInv PROVE TypeOK  OBVIOUS
  <2>1. P!TypeOK  BY <1>1, P!ViewInvImpliesTypeOK DEF PartsInv
  <2>2. Q!ServingTypeOK  BY <1>1, Q!ServingTyped DEF PartsInv
  <2>3. Q!AgentTypeOK  BY <1>1, Q!ChatTyped DEF PartsInv
  <2>4. Q!LabTypeOK  BY <1>1, Q!LabTyped DEF PartsInv
  <2>5. QED  BY <2>1, <2>2, <2>3, <2>4, SameTypes DEF PartsInv, TypeOK
<1>5. QED  BY <1>2, <1>3, <1>4, PTL DEF Spec
-----------------------------------------------------------------------------
(* The panels, in the same way.                                            *)

\* Lists of numbers, and what is kept of one.
LEMMA SameLists ==
  /\ \A s, these : L!Only(s, these) = Q!Only(s, these)
  /\ \A s : L!ToSet(s) = Q!ToSet(s)
  /\ \A xs : L!Ascending(xs) = Q!Ascending(xs)
  /\ \A these : /\ L!Max(these) = Q!Max(these) /\ L!Min(these) = Q!Min(these)
               /\ L!Cardinality(these) = Q!Cardinality(these)
<1>1. \A these : L!Cardinality(these) = Q!Cardinality(these)  BY DEF L!Cardinality, Q!Cardinality
<1>2. \A s, these : L!Only(s, these) = Q!Only(s, these)  BY DEF L!Only, Q!Only
<1>3. \A these : L!Max(these) = Q!Max(these) /\ L!Min(these) = Q!Min(these)
  BY DEF L!Max, Q!Max, L!Min, Q!Min
<1>4. \A xs : L!Ascending(xs) = Q!Ascending(xs)
  BY DEF L!Ascending, Q!Ascending, L!Below, Q!Below, L!UpTo, Q!UpTo, L!ToSet, Q!ToSet,
         L!Cardinality, Q!Cardinality
<1>5. \A s : L!ToSet(s) = Q!ToSet(s)  BY DEF L!ToSet, Q!ToSet
<1>6. QED  BY <1>1, <1>2, <1>3, <1>4, <1>5

LEMMA SameMiddles ==
  /\ L!Null = Q!Null
  /\ \A xs : L!Median(xs) = Q!Median(xs) /\ L!MedianAvg2(xs) = Q!MedianAvg2(xs)
  /\ \A xs, p : L!Pct(xs, p) = Q!Pct(xs, p)
  /\ \A x : L!OrZero(x) = Q!OrZero(x)
  BY SameLists DEF L!Null, Q!Null, L!Median, Q!Median, L!MedianAvg2, Q!MedianAvg2,
                   L!Pct, Q!Pct, L!OrZero, Q!OrZero

\* The numbers of one bar.
LEMMA SameNumbers ==
  /\ \A b : /\ L!Handler(b) = Q!Handler(b) /\ L!TransportOf(b) = Q!TransportOf(b)
           /\ L!E2E(b) = Q!E2E(b) /\ L!StackTotal(b) = Q!StackTotal(b)
           /\ L!ReconTotal(b) = Q!ReconTotal(b) /\ L!ClickTotal(b) = Q!ClickTotal(b)
           /\ L!IsProbed(b) = Q!IsProbed(b) /\ L!IsConfirmed(b) = Q!IsConfirmed(b)
           /\ L!IsClicked(b) = Q!IsClicked(b)
  /\ \A b, step : L!StepTime(b, step) = Q!StepTime(b, step)
  BY DEF L!Handler, Q!Handler, L!TransportOf, Q!TransportOf, L!E2E, Q!E2E, L!StackTotal,
         Q!StackTotal, L!ReconTotal, Q!ReconTotal, L!ClickTotal, Q!ClickTotal, L!IsProbed,
         Q!IsProbed, L!IsConfirmed, Q!IsConfirmed, L!IsClicked, Q!IsClicked, L!StepTime,
         Q!StepTime

LEMMA SameKept ==
  \A s : /\ L!Probed(s) = Q!Probed(s) /\ L!Confirmed(s) = Q!Confirmed(s)
         /\ L!Clicked(s) = Q!Clicked(s)
  BY SameLists, SameNumbers
     DEF L!Probed, Q!Probed, L!Confirmed, Q!Confirmed, L!Clicked, Q!Clicked, L!Keep, Q!Keep

LEMMA SameTimes ==
  \A s : /\ L!Times(s, L!E2E) = Q!Times(s, Q!E2E)
         /\ L!Times(s, L!ClickTotal) = Q!Times(s, Q!ClickTotal)
         /\ L!Times(s, L!Network) = Q!Times(s, Q!Network)
         /\ L!Times(s, L!Sdk) = Q!Times(s, Q!Sdk) /\ L!Times(s, L!Flush) = Q!Times(s, Q!Flush)
         /\ L!Times(s, L!Visibility) = Q!Times(s, Q!Visibility)
  BY SameNumbers
     DEF L!Times, Q!Times, L!Network, Q!Network, L!Sdk, Q!Sdk, L!Flush, Q!Flush,
         L!Visibility, Q!Visibility

LEMMA SameLive ==
  \A s : /\ L!LiveLatency(s).count = Q!LiveLatency(s).count
         /\ L!LiveLatency(s).p50 = Q!LiveLatency(s).p50
         /\ L!LiveLatency(s).p99 = Q!LiveLatency(s).p99
         /\ L!LiveLatency(s).last = Q!LiveLatency(s).last
         /\ L!LiveLatency(s).confirmedPct = Q!LiveLatency(s).confirmedPct
<1> SUFFICES ASSUME NEW s
             PROVE  /\ L!LiveLatency(s).count = Q!LiveLatency(s).count
                    /\ L!LiveLatency(s).p50 = Q!LiveLatency(s).p50
                    /\ L!LiveLatency(s).p99 = Q!LiveLatency(s).p99
                    /\ L!LiveLatency(s).last = Q!LiveLatency(s).last
                    /\ L!LiveLatency(s).confirmedPct = Q!LiveLatency(s).confirmedPct
  OBVIOUS
<1>1. L!Confirmed(s) = Q!Confirmed(s) /\ L!Probed(s) = Q!Probed(s)  BY SameKept
<1>2. /\ L!LiveLatency(s).count = Q!LiveLatency(s).count
      /\ L!LiveLatency(s).confirmedPct = Q!LiveLatency(s).confirmedPct
  BY <1>1, SameMiddles DEF L!LiveLatency, Q!LiveLatency
<1>3. L!LiveLatency(s).last = Q!LiveLatency(s).last
  BY <1>1, SameMiddles, SameNumbers DEF L!LiveLatency, Q!LiveLatency
<1>4. /\ L!LiveLatency(s).p50 = Q!LiveLatency(s).p50
      /\ L!LiveLatency(s).p99 = Q!LiveLatency(s).p99
  BY <1>1, SameTimes, SameMiddles DEF L!LiveLatency, Q!LiveLatency
<1>5. QED  BY <1>2, <1>3, <1>4

LEMMA SameClicks ==
  \A s : /\ L!LatencyStatsOf(s).count = Q!LatencyStatsOf(s).count
         /\ L!LatencyStatsOf(s).p50 = Q!LatencyStatsOf(s).p50
         /\ L!LatencyStatsOf(s).p99 = Q!LatencyStatsOf(s).p99
         /\ L!StrategyFreshness(s).q_user = Q!StrategyFreshness(s).q_user
         /\ L!PipelineHealth(s).rawPct = Q!PipelineHealth(s).rawPct
         /\ L!Recon(s) = Q!Recon(s)
  BY SameKept, SameTimes, SameMiddles, SameNumbers
     DEF L!LatencyStatsOf, Q!LatencyStatsOf, L!StatsOf, Q!StatsOf, L!StrategyFreshness,
         Q!StrategyFreshness, L!PipelineHealth, Q!PipelineHealth, L!Recon, Q!Recon

\* The steps of the latency page.
LEMMA SameSteps ==
  /\ L!Pipeline = Q!Pipeline
  /\ \A s, step : L!LiveLast(s, step) = Q!LiveLast(s, step)
  /\ \A s, step : L!LiveMedian(s, step) = Q!LiveMedian(s, step)
  /\ L!SumOfSteps = Q!SumOfSteps
<1>1. L!Pipeline = Q!Pipeline /\ L!StepSource = Q!StepSource
  BY DEF L!Pipeline, Q!Pipeline, L!StepSource, Q!StepSource
<1>2. \A s, step : L!StepBars(s, step) = Q!StepBars(s, step)
  BY <1>1, SameLists, SameKept DEF L!StepBars, Q!StepBars, L!Keep, Q!Keep
<1>3. \A s, step : L!LiveLast(s, step) = Q!LiveLast(s, step)
  BY <1>2, SameNumbers, SameMiddles DEF L!LiveLast, Q!LiveLast
<1>4. \A s, step : L!LiveMedian(s, step) = Q!LiveMedian(s, step)
  BY <1>2, SameNumbers, SameMiddles, SameLists
     DEF L!LiveMedian, Q!LiveMedian, L!Times, Q!Times, L!Keep, Q!Keep
<1>5. L!SumOfSteps = Q!SumOfSteps
  BY <1>1, <1>3, SameClocks DEF L!SumOfSteps, Q!SumOfSteps
<1>6. QED  BY <1>1, <1>3, <1>4, <1>5

LEMMA SameWays ==
  /\ \A s, xs : L!LiveDocStats(s, xs).e2e = Q!LiveDocStats(s, xs).e2e
  /\ \A s, xs, ys : L!ClickToVisualized(s, xs, ys) = Q!ClickToVisualized(s, xs, ys)
  /\ \A b : L!WorkOf(b) = Q!WorkOf(b)
  /\ \A e : L!Done(e) = Q!Done(e)
<1>1. \A s, xs : L!LiveDocStats(s, xs).e2e = Q!LiveDocStats(s, xs).e2e
  BY SameTimes, SameMiddles DEF L!LiveDocStats, Q!LiveDocStats
<1>2. \A s, xs, ys : L!ClickToVisualized(s, xs, ys) = Q!ClickToVisualized(s, xs, ys)
  BY SameLive, SameMiddles
     DEF L!ClickToVisualized, Q!ClickToVisualized, L!ClickToQueryable, Q!ClickToQueryable
<1>3. \A b : L!WorkOf(b) = Q!WorkOf(b)  BY SameClocks DEF L!WorkOf, Q!WorkOf
<1>4. QED  BY <1>1, <1>2, <1>3 DEF L!Done, Q!Done

LEMMA SameVerdict ==
  /\ \A s, xs, ys, zs : L!Comparison(s, xs, ys, zs) = Q!Comparison(s, xs, ys, zs)
  /\ L!NoPipeline = Q!NoPipeline
<1>1. \A s, xs, ys, zs : L!SwimLanes(s, xs, ys, zs) = Q!SwimLanes(s, xs, ys, zs)
  BY SameTimes, SameMiddles DEF L!SwimLanes, Q!SwimLanes
<1>2. \A s, xs, ys, zs : L!Comparison(s, xs, ys, zs) = Q!Comparison(s, xs, ys, zs)
  BY <1>1 DEF L!Comparison, Q!Comparison
<1>3. L!NoPipeline = Q!NoPipeline  BY DEF L!NoPipeline, Q!NoPipeline, L!NoVm, Q!NoVm
<1>4. QED  BY <1>2, <1>3

LEMMA SamePanels == Q!PanelsAgree => PanelsAgree
  BY SameLive, SameClicks, SameKept, SameMiddles, SameNumbers, SameSteps, SameWays, SameVerdict
     DEF PanelsAgree, L!PanelsAgree, Q!PanelsAgree

\* The panels of the pages, which filter, add up and rank the same bars in different
\* ways, tell the same (liveStats.ts:37-106, LatencyStats.tsx:5-34, latency/page.tsx:95-220,
\* desk/page.tsx:114-148, LatencyComparison.tsx:50-187), as long as the widget keeps as many
\* samples as the store keeps bars (InteractiveLatency.tsx:85, store.ts:112).
THEOREM PanelsOfPagesAgree ==
  ASSUME PagesAssumption, SERVED_SAMPLES = MAX_LATENCY_BARS
  PROVE  Spec => []PanelsAgree
<1>1. Q!LabAssumption /\ MAX_TAPE \in Nat \ {0} /\ MAX_LATENCY_BARS \in Nat \ {0}
  BY Assumed
<1>2. Init => Q!PanelInv  BY <1>1, SameLabInit, Q!InitPanels DEF Init
<1>3. Q!PanelInv /\ [Next]_pagesVars => Q!PanelInv'  BY <1>1, StepOfLab, Q!PanelStep
<1>4. Q!PanelInv => PanelsAgree  BY <1>1, SamePanels, Q!PanelsTell
<1>5. QED  BY <1>2, <1>3, <1>4, PTL DEF Spec
=============================================================================
