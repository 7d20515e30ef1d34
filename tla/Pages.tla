--------------------------------- MODULE Pages ---------------------------------
(***************************************************************************)
(* The components of the pages that talk to the routes on their own, side  *)
(* by side: the polls and the time travel of the desk, the comparison of   *)
(* the serving strategies, the chat with the agent, and the widgets whose  *)
(* events become latency bars.  They share no state, so a step of one does *)
(* not depend on another, and it is enough to follow one of them: `part`   *)
(* says which, and the others are at rest.                                 *)
(***************************************************************************)
EXTENDS Integers, Sequences, FiniteSets

CONSTANTS Parts

CONSTANTS Fetches, MaxVersion, MaxFaults, MaxSwitches, MaxPushes, BannerAfter
CONSTANTS Requests, MaxRows, MaxServingFaults, MaxMounts
CONSTANTS Scripts, MaxQuestions, MaxPiece, MaxBreaks
CONSTANTS Events, Profile, ProbeWords, MAX_IN_FLIGHT, INGRESS_SAMPLES, SERVED_SAMPLES,
          BUDGET_MS, MaxCuts, MIN_CLICKS, STREAMLIT_RENDER_MS, TIED_MS,
          MAX_TAPE, MAX_LATENCY_BARS

VARIABLES part
VARIABLES db, view, fetches, tiles, errors, failedHere, faults, switches, pushes
VARIABLES panel, rows, requests, shown, broken, mounts
VARIABLES script, sent, proxy, route, down, got, buffer, chat, steps, streaming,
          gone, cleared, asked, breaks
VARIABLES jobs, wire, bars, inFlight, sim, served, missed, cuts

D == INSTANCE Desk
S == INSTANCE ServingCompare
A == INSTANCE AgentChat
L == INSTANCE LatencyLab

ASSUME PagesAssumption ==
  /\ D!DeskAssumption /\ S!ServingAssumption /\ A!AgentAssumption /\ L!LabAssumption
  /\ \A e \in Events : ProbeWords[e] \subseteq {"raw", "book"} \X {"real", "floor"}
  /\ MAX_TAPE \in Nat \ {0}

deskVars == << db, view, fetches, tiles, errors, failedHere, faults, switches, pushes >>
servingVars == << panel, rows, requests, shown, broken, mounts >>
chatVars == << script, sent, proxy, route, down, got, buffer, chat, steps, streaming,
               gone, cleared, asked, breaks >>
labVars == << jobs, wire, bars, inFlight, sim, served, missed, cuts >>

pagesVars == << part, deskVars, servingVars, chatVars, labVars >>

-----------------------------------------------------------------------------

\* A part that is not followed is at rest: it shows what it should.
DeskAtRest ==
  /\ db = 0 /\ view = "past"
  /\ fetches = [f \in Fetches |-> D!Idle]
  /\ tiles = [k \in D!Kinds |-> [from |-> "past", v |-> 0]]
  /\ errors = 0 /\ failedHere = 0 /\ faults = 0 /\ switches = 0 /\ pushes = 0

ServingAtRest ==
  /\ panel = "desk" /\ rows = [t \in {"raw", "book"} |-> 0]
  /\ requests = [r \in Requests |-> S!NoRequest]
  /\ shown = [match |-> "yes", err |-> FALSE] /\ broken = 0 /\ mounts = 0

Init ==
  /\ part \in Parts
  /\ IF part = "desk" THEN D!Init ELSE DeskAtRest
  /\ IF part = "serving" THEN S!ServingInit ELSE ServingAtRest
  /\ A!AgentInit /\ L!LabInit

\* A step of one component.
OfDesk(step) == /\ part = "desk" /\ step
                /\ UNCHANGED << part, servingVars, chatVars, labVars >>
OfServing(step) == /\ part = "serving" /\ step
                   /\ UNCHANGED << part, deskVars, chatVars, labVars >>
OfChat(step) == /\ part = "chat" /\ step
                /\ UNCHANGED << part, deskVars, servingVars, labVars >>
OfLab(step) == /\ part = "latency" /\ step
               /\ UNCHANGED << part, deskVars, servingVars, chatVars >>

DeskNext ==
  \/ OfDesk(D!Write) \/ OfDesk(D!Push)
  \/ \E f \in Fetches :
       \/ OfDesk(D!Served(f)) \/ OfDesk(D!QueryFails(f)) \/ OfDesk(D!RequestFails(f))
       \/ OfDesk(D!Lands(f)) \/ OfDesk(D!Fails(f))
       \/ \E kind \in D!Kinds : OfDesk(D!Poll(f, kind))
       \/ \E w \in D!Views : OfDesk(D!Switch(w, f))

ServingNext ==
  \/ \E t \in {"raw", "book"} : OfServing(S!Commit(t))
  \/ \E r \in Requests :
       \/ OfServing(S!ReadOk(r)) \/ OfServing(S!ReadFails(r)) \/ OfServing(S!RequestBreaks(r))
       \/ OfServing(S!AnswerShown(r)) \/ OfServing(S!ErrorShown(r)) \/ OfServing(S!Tick(r))
       \/ \E p \in S!Panels : OfServing(S!Remount(p, r))

ChatNext ==
  \/ \E s \in Scripts : OfChat(A!Asks(s))
  \/ \E n \in 1 .. MaxPiece : OfChat(A!ProxyReads(n)) \/ OfChat(A!PageReads(n))
  \/ OfChat(A!ProxyEnds) \/ OfChat(A!ProxyBreaks)
  \/ OfChat(A!PageEnds) \/ OfChat(A!PageBreaks) \/ OfChat(A!Clear)

LabNext ==
  \/ OfLab(L!Deliver) \/ OfLab(L!Cut)
  \/ \E e \in Events :
       \/ \E kind \in {"sim", "click", "fire"} : OfLab(L!Post(e, kind))
       \/ OfLab(L!VmAnswers(e)) \/ OfLab(L!Refuses(e))
       \/ \E w \in ProbeWords[e] : OfLab(L!ProbeSpeaks(e, w[1], w[2]))
       \/ OfLab(L!SimAnswered(e)) \/ OfLab(L!ClickAnswered(e)) \/ OfLab(L!ClickPainted(e))
       \/ \E found \in BOOLEAN : OfLab(L!FireAnswered(e, found))

Next == DeskNext \/ ServingNext \/ ChatNext \/ LabNext

Spec == Init /\ [][Next]_pagesVars

-----------------------------------------------------------------------------
(* Fairness: what the browser and the routes do by themselves.  Timers     *)
(* fire, every request is answered or fails, a stream goes on or ends, and *)
(* what follows an await runs.  The two intervals of the desk share the    *)
(* slots of the model: strong fairness stands for each of them finding one. *)

DeskFairness ==
  /\ \A f \in Fetches :
       /\ WF_pagesVars(OfDesk(D!Answered(f)))
       /\ WF_pagesVars(OfDesk(D!Handled(f)))
  /\ \A kind \in D!Kinds : SF_pagesVars(\E f \in Fetches : OfDesk(D!Poll(f, kind)))

ServingFairness ==
  \A r \in Requests : WF_pagesVars(OfServing(S!ReadEnds(r) \/ S!Lands(r) \/ S!Tick(r)))

ChatFairness == WF_pagesVars(OfChat(A!Flows)) /\ WF_pagesVars(OfChat(A!Shows))

FairSpec == Spec /\ DeskFairness /\ ServingFairness /\ ChatFairness

-----------------------------------------------------------------------------

TypeOK ==
  /\ part \in Parts
  /\ D!TypeOK /\ S!ServingTypeOK /\ A!AgentTypeOK /\ L!LabTypeOK

\* The properties of the components, each stated in its module.
ShowsItsView == D!ShowsItsView
BannerClears == D!BannerClears
TilesConverge == D!TilesConverge
PastIsShown == D!PastIsShown
TotalsSettle == S!TotalsSettle
AnswerIsWhole == A!AnswerIsWhole
AnswerEnds == A!AnswerEnds
SegmentsAddUp == L!SegmentsAddUp
PanelsAgree == L!PanelsAgree
ReconAddsUp == L!ReconAddsUp
=============================================================================
