------------------------------- MODULE DeskProofs -------------------------------
(***************************************************************************)
(* What the polling effect of the desk guarantees for any number of polls  *)
(* under way, changes of the view, failures and pushes.                    *)
(***************************************************************************)
EXTENDS Desk, FiniteSetTheorems, TLAPS

USE DEF DeskAssumption

FetchType ==
  [kind : Kinds, view : Views, alive : BOOLEAN,
   stage : {"idle", "asked", "ok", "failed"}, v : Versions \union {Default}]

\* Failed snapshots of the chosen live view that the page has not counted yet.
Uncounted(f) ==
  /\ fetches[f].alive /\ fetches[f].stage = "failed"
  /\ fetches[f].kind = "snapshot" /\ fetches[f].view \in LiveViews
ToCount == {f \in Fetches : Uncounted(f)}

\* The closures that are alive are those of the view; what the banner counts, and
\* will count, are failures of the view, and none is carried into the past.
ViewInv ==
  /\ db \in Versions /\ view \in Views
  /\ fetches \in [Fetches -> FetchType]
  /\ \A f \in Fetches : fetches[f].alive => fetches[f].view = view
  /\ tiles \in [Kinds -> Contents]
  /\ errors \in Nat /\ failedHere \in Nat /\ faults \in 0 .. MaxFaults
  /\ failedHere <= faults
  /\ errors + Cardinality(ToCount) <= failedHere
  /\ view = "past" => errors = 0

LEMMA OneMore ==
  ASSUME NEW S, IsFiniteSet(S), NEW x
  PROVE  IsFiniteSet(S \union {x}) /\ Cardinality(S \union {x}) <= Cardinality(S) + 1
<1>1. IsFiniteSet(S \union {x})  BY FS_AddElement, Zenon
<1>2. Cardinality(S \union {x}) = IF x \in S THEN Cardinality(S) ELSE Cardinality(S) + 1
  BY FS_AddElement, Zenon
<1>3. Cardinality(S) \in Nat  BY FS_CardinalityType
<1>4. QED  BY <1>1, <1>2, <1>3

LEMMA ToCountFinite ==
  ASSUME DeskAssumption
  PROVE  IsFiniteSet(ToCount) /\ Cardinality(ToCount) \in Nat
  BY FS_Subset, FS_CardinalityType DEF ToCount

LEMMA ViewInvImpliesTypeOK == DeskAssumption /\ ViewInv => TypeOK
  BY ToCountFinite DEF ViewInv, TypeOK, FetchType

\* When fewer fetches are to be counted, the bound on the count still holds.
LEMMA FewerToCount ==
  ASSUME DeskAssumption, ToCount' \subseteq ToCount
  PROVE  Cardinality(ToCount') \in Nat /\ Cardinality(ToCount') <= Cardinality(ToCount)
  BY ToCountFinite, FS_Subset, FS_CardinalityType

LEMMA InitView == DeskAssumption /\ Init => ViewInv
<1> SUFFICES ASSUME DeskAssumption, Init PROVE ViewInv  OBVIOUS
<1>1. ToCount = {}  BY DEF Init, ToCount, Uncounted, Asked, Idle
<1>2. Cardinality(ToCount) = 0  BY <1>1, FS_EmptySet
<1>3. 0 \in Versions /\ Default \in Versions \union {Default}  BY DEF Versions
<1>4. fetches \in [Fetches -> FetchType]
  BY <1>3 DEF Init, FetchType, Asked, Idle, Kinds, Views, LiveViews
<1>5. tiles \in [Kinds -> Contents]  BY <1>3 DEF Init, Contents, Empty
<1>6. \A f \in Fetches : fetches[f].alive => fetches[f].view = view
  BY DEF Init, Asked, Idle
<1>7. QED
  BY <1>2, <1>3, <1>4, <1>5, <1>6 DEF Init, ViewInv, Views, LiveViews

ShowsItsViewStep ==
  /\ \A k \in Kinds : tiles'[k] # tiles[k] => tiles'[k].from \in {view, "push"}
  /\ errors' <= failedHere'

\* A step that leaves the view and the tiles alone and counts nothing new.
LEMMA QuietStep ==
  ASSUME DeskAssumption, ViewInv,
         UNCHANGED << view, tiles, errors >>, db' \in Versions,
         failedHere' \in Nat, faults' \in 0 .. MaxFaults, failedHere' <= faults',
         fetches' \in [Fetches -> FetchType],
         \A f \in Fetches : fetches'[f].alive => fetches'[f].view = view',
         errors + Cardinality(ToCount') <= failedHere',
         Cardinality(ToCount') \in Nat
  PROVE  ViewInv' /\ ShowsItsViewStep
  BY DEF ViewInv, ShowsItsViewStep

LEMMA AnswerStep ==
  ASSUME DeskAssumption, ViewInv, NEW f \in Fetches, Served(f) \/ QueryFails(f)
  PROVE  ViewInv' /\ ShowsItsViewStep
<1>1. PICK stage \in {"ok", "failed"}, v \in Versions \union {Default} :
        /\ Answer(f, stage, v)
        /\ fetches[f].kind = "snapshot" => stage = "ok"
  <2>1. Reads(f) \in Versions  BY DEF Reads, ViewInv, Versions
  <2>2. QED  BY <2>1 DEF Served, QueryFails
<1>2. fetches' = [fetches EXCEPT ![f] = [fetches[f] EXCEPT !.stage = stage, !.v = v]]
  BY <1>1 DEF Answer, ViewInv
<1>3. fetches' \in [Fetches -> FetchType]
  BY <1>2 DEF ViewInv, FetchType
<1>4. ToCount' \subseteq ToCount
  BY <1>1, <1>2 DEF ToCount, Uncounted, ViewInv, FetchType
<1>5. /\ UNCHANGED << db, view, tiles, errors, failedHere >>
      /\ faults' \in 0 .. MaxFaults /\ faults <= faults'
  BY <1>1 DEF Served, QueryFails, Answer, Fault, ViewInv
<1>6. \A g \in Fetches : fetches'[g].alive => fetches'[g].view = view'
  BY <1>2, <1>5 DEF ViewInv, FetchType
<1>7. QED
  BY <1>3, <1>4, <1>5, <1>6, FewerToCount, ToCountFinite, QuietStep DEF ViewInv

LEMMA RequestFailsStep ==
  ASSUME DeskAssumption, ViewInv, NEW f \in Fetches, RequestFails(f)
  PROVE  ViewInv' /\ ShowsItsViewStep
<1>1. fetches' = [fetches EXCEPT ![f] = [fetches[f] EXCEPT !.stage = "failed", !.v = Default]]
  BY DEF RequestFails, Answer, ViewInv
<1>2. fetches' \in [Fetches -> FetchType]
  BY <1>1 DEF ViewInv, FetchType
<1>3. /\ UNCHANGED << db, view, tiles, errors >>
      /\ faults' = faults + 1 /\ faults' \in 0 .. MaxFaults
  BY DEF RequestFails, Answer, Fault, ViewInv
<1>4. \A g \in Fetches : fetches'[g].alive => fetches'[g].view = view'
  BY <1>1, <1>3 DEF ViewInv, FetchType
<1>5. CASE fetches[f].alive /\ fetches[f].kind = "snapshot"
  <2>1. failedHere' = failedHere + 1  BY <1>5 DEF RequestFails
  <2>2. ToCount' \subseteq ToCount \union {f}
    BY <1>1, <1>3 DEF ToCount, Uncounted, ViewInv, FetchType
  <2>3. Cardinality(ToCount') \in Nat /\ Cardinality(ToCount') <= Cardinality(ToCount) + 1
    <3>1. /\ IsFiniteSet(ToCount \union {f})
          /\ Cardinality(ToCount \union {f}) <= Cardinality(ToCount) + 1
      BY ToCountFinite, OneMore
    <3>2. QED  BY <2>2, <3>1, FS_Subset, FS_CardinalityType, ToCountFinite
  <2>4. QED
    BY <1>2, <1>3, <1>4, <2>1, <2>3, ToCountFinite, QuietStep DEF ViewInv
<1>6. CASE ~(fetches[f].alive /\ fetches[f].kind = "snapshot")
  <2>1. failedHere' = failedHere  BY <1>6 DEF RequestFails
  <2>2. ToCount' \subseteq ToCount
    BY <1>1, <1>3, <1>6 DEF ToCount, Uncounted, ViewInv, FetchType
  <2>3. QED
    BY <1>2, <1>3, <1>4, <2>1, <2>2, FewerToCount, ToCountFinite, QuietStep DEF ViewInv
<1>7. QED  BY <1>5, <1>6

LEMMA PollStep ==
  ASSUME DeskAssumption, ViewInv, NEW f \in Fetches, NEW kind \in Kinds, Poll(f, kind)
  PROVE  ViewInv' /\ ShowsItsViewStep
<1>1. fetches' = [fetches EXCEPT ![f] = Asked(kind, view)]  BY DEF Poll
<1>2. Asked(kind, view) \in FetchType
  BY DEF FetchType, Asked, ViewInv
<1>3. fetches' \in [Fetches -> FetchType]  BY <1>1, <1>2 DEF ViewInv
<1>4. UNCHANGED << db, view, tiles, errors, failedHere, faults >>  BY DEF Poll
<1>5. ToCount' \subseteq ToCount  BY <1>1, <1>4 DEF ToCount, Uncounted, Asked, ViewInv
<1>6. \A g \in Fetches : fetches'[g].alive => fetches'[g].view = view'
  BY <1>1, <1>4 DEF ViewInv, Asked
<1>7. QED
  BY <1>3, <1>4, <1>5, <1>6, FewerToCount, ToCountFinite, QuietStep DEF ViewInv

\* An answer or a failure that is handled frees its slot.
LEMMA HandledStep ==
  ASSUME DeskAssumption, ViewInv, NEW f \in Fetches, Lands(f) \/ Fails(f)
  PROVE  ViewInv' /\ ShowsItsViewStep
<1>1. fetches' = [fetches EXCEPT ![f] = Idle]  BY DEF Lands, Fails, Frees
<1>2. UNCHANGED << db, view, failedHere, faults >>  BY DEF Lands, Fails, Frees
<1>3. Idle \in FetchType  BY DEF Idle, FetchType, Kinds, Views
<1>4. fetches' \in [Fetches -> FetchType]  BY <1>1, <1>3 DEF ViewInv
<1>5. \A g \in Fetches : fetches'[g].alive => fetches'[g].view = view'
  BY <1>1, <1>2 DEF ViewInv, Idle
<1>6. ToCount' \subseteq ToCount \ {f}
  BY <1>1, <1>2 DEF ToCount, Uncounted, Idle, ViewInv
<1>7. Cardinality(ToCount') \in Nat /\ Cardinality(ToCount') <= Cardinality(ToCount)
  BY <1>6, FewerToCount
<1>8. CASE Lands(f)
  <2>1. errors' \in {0, errors}  BY <1>8 DEF Lands
  <2>2. /\ tiles' \in [Kinds -> Contents]
        /\ \A k \in Kinds : tiles'[k] # tiles[k] => tiles'[k].from \in {view, "push"}
    <3>1. CASE fetches[f].alive
      <4>1. tiles' = [tiles EXCEPT ![fetches[f].kind] = [from |-> view, v |-> fetches[f].v]]
        BY <1>8, <3>1 DEF Lands, Shows, ViewInv
      <4>2. [from |-> view, v |-> fetches[f].v] \in Contents
        BY DEF Contents, ViewInv, FetchType
      <4>3. QED  BY <4>1, <4>2 DEF ViewInv
    <3>2. CASE ~fetches[f].alive
      BY <1>8, <3>2 DEF Lands, ViewInv
    <3>3. QED  BY <3>1, <3>2
  <2>3. QED
    BY <1>2, <1>4, <1>5, <1>7, <2>1, <2>2, ToCountFinite DEF ViewInv, ShowsItsViewStep
<1>9. CASE Fails(f)
  <2>1. tiles' = tiles  BY <1>9 DEF Fails
  <2>2. CASE Uncounted(f)
    <3>1. errors' = errors + 1 /\ view # "past"
      BY <1>9, <2>2 DEF Fails, Uncounted, ViewInv, LiveViews
    <3>2. f \in ToCount  BY <2>2 DEF ToCount
    <3>3. Cardinality(ToCount \ {f}) = Cardinality(ToCount) - 1
      BY <3>2, ToCountFinite, FS_RemoveElement
    <3>4. Cardinality(ToCount') <= Cardinality(ToCount) - 1
      BY <1>6, <3>3, ToCountFinite, FS_Subset
    <3>5. QED
      BY <1>2, <1>4, <1>5, <1>7, <2>1, <3>1, <3>4, ToCountFinite
         DEF ViewInv, ShowsItsViewStep
  <2>3. CASE ~Uncounted(f)
    <3>1. errors' = errors  BY <1>9, <2>3 DEF Fails, Uncounted
    <3>2. QED
      BY <1>2, <1>4, <1>5, <1>7, <2>1, <3>1, ToCountFinite DEF ViewInv, ShowsItsViewStep
  <2>4. QED  BY <2>2, <2>3
<1>10. QED  BY <1>8, <1>9

LEMMA SwitchStep ==
  ASSUME DeskAssumption, ViewInv, NEW f \in Fetches, NEW w \in Views, Switch(w, f)
  PROVE  ViewInv' /\ ShowsItsViewStep
<1>1. /\ view' = w /\ failedHere' = 0
      /\ UNCHANGED << db, tiles, faults >>
  BY DEF Switch
<1>2. fetches' = [g \in Fetches |-> IF g = f THEN Asked("snapshot", w)
                                   ELSE [fetches[g] EXCEPT !.alive = FALSE]]
  BY DEF Switch
<1>3. errors' = 0
  BY DEF Switch, ViewInv, Views
<1>4. fetches' \in [Fetches -> FetchType]
  <2>1. Asked("snapshot", w) \in FetchType  BY DEF Asked, FetchType, Kinds
  <2>2. \A g \in Fetches : [fetches[g] EXCEPT !.alive = FALSE] \in FetchType
    BY DEF ViewInv, FetchType
  <2>3. QED  BY <1>2, <2>1, <2>2
<1>5. \A g \in Fetches : fetches'[g].alive => fetches'[g].view = view'
  BY <1>1, <1>2 DEF Asked, ViewInv, FetchType
<1>6. ToCount' = {}
  BY <1>2 DEF ToCount, Uncounted, Asked, ViewInv, FetchType
<1>7. Cardinality(ToCount') = 0  BY <1>6, FS_EmptySet
<1>8. QED
  BY <1>1, <1>3, <1>4, <1>5, <1>7 DEF ViewInv, ShowsItsViewStep

LEMMA ViewStep ==
  ASSUME DeskAssumption, ViewInv, [Next]_vars
  PROVE  ViewInv' /\ (ShowsItsViewStep \/ UNCHANGED vars)
<1>1. CASE Write
  <2>1. /\ db' \in Versions
        /\ UNCHANGED << view, fetches, tiles, errors, failedHere, faults >>
    BY <1>1 DEF Write, ViewInv, Versions
  <2>2. ToCount' = ToCount  BY <2>1 DEF ToCount, Uncounted
  <2>3. QED  BY <2>1, <2>2, ToCountFinite, QuietStep DEF ViewInv
<1>2. CASE Push
  <2>1. /\ tiles' = [tiles EXCEPT !["snapshot"] = [from |-> "push", v |-> db]]
        /\ UNCHANGED << db, view, fetches, errors, failedHere, faults >>
    BY <1>2 DEF Push
  <2>2. ToCount' = ToCount  BY <2>1 DEF ToCount, Uncounted
  <2>3. [from |-> "push", v |-> db] \in Contents  BY DEF Contents, ViewInv
  <2>4. /\ tiles' \in [Kinds -> Contents]
        /\ \A k \in Kinds : tiles'[k] # tiles[k] => tiles'[k].from = "push"
    BY <2>1, <2>3 DEF ViewInv
  <2>5. ViewInv'  BY <2>1, <2>2, <2>4 DEF ViewInv
  <2>6. ShowsItsViewStep  BY <2>1, <2>4, ToCountFinite DEF ViewInv, ShowsItsViewStep
  <2>7. QED  BY <2>5, <2>6
<1>3. CASE UNCHANGED vars
  <2>1. ToCount' = ToCount  BY <1>3 DEF vars, ToCount, Uncounted
  <2>2. QED  BY <1>3, <2>1 DEF vars, ViewInv
<1>4. QED
  BY <1>1, <1>2, <1>3, AnswerStep, RequestFailsStep, PollStep, HandledStep, SwitchStep
     DEF Next, Answered, Handled

-----------------------------------------------------------------------------

\* The type invariant of the desk page: in particular, a closure that believes to
\* be current is one of the chosen view.
THEOREM DeskTypeCorrect ==
  ASSUME DeskAssumption
  PROVE  Spec => []TypeOK
<1>1. Init => ViewInv  BY InitView
<1>2. ViewInv /\ [Next]_vars => ViewInv'  BY ViewStep
<1>3. QED  BY <1>1, <1>2, ViewInvImpliesTypeOK, PTL DEF Spec

\* Nothing of a view that was left is shown in the next one or counted there
\* (desk/page.tsx:154-346).
THEOREM OnlyTheViewIsShown ==
  ASSUME DeskAssumption
  PROVE  Spec => ShowsItsView
<1>1. Init => ViewInv  BY InitView
<1>2. ViewInv /\ [Next]_vars => ViewInv'  BY ViewStep
<1>3. ViewInv /\ [Next]_vars =>
        [/\ \A k \in Kinds : tiles'[k] # tiles[k] => tiles'[k].from \in {view, "push"}
         /\ errors' <= failedHere']_vars
  BY ViewStep DEF ShowsItsViewStep
<1>4. QED  BY <1>1, <1>2, <1>3, PTL DEF Spec, ShowsItsView
=============================================================================
