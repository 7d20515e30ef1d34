----------------------- MODULE SnowflakeReaderProofs -----------------------
(***************************************************************************)
(* What the push path guarantees for any number of tabs, of overlapping    *)
(* polls, of versions and of failures.                                     *)
(***************************************************************************)
EXTENDS SnowflakeReader, TLAPS

USE ReaderAssumption DEF ReaderAssumption

LEMMA AnswersAreRows ==
  ASSUME TypeOK, NEW i \in Slots, NEW rows \in Answers(i)
  PROVE  rows \in Rows
<1>1. PICK seen \in [Keys -> polls[i].since .. db] :
        rows = [k \in Keys |-> Contents[k][seen[k]]]
  BY DEF Answers
<1>2. polls[i].since \in Versions /\ db \in Versions  BY DEF TypeOK
<1>3. \A k \in Keys : seen[k] \in Versions  BY <1>2 DEF Versions
<1>4. QED  BY <1>1, <1>3 DEF Rows, Values

LEMMA HeldAreRows ==
  ASSUME TypeOK, NEW i \in Slots
  PROVE  polls[i].rows \in Rows
BY DEF TypeOK

\* One turn of poll(): what it broadcasts keeps the types.
LEMMA TurnTypes ==
  ASSUME TypeOK, NEW hashed, NEW keys, NEW rows \in Rows,
         SetHashes(hashed, rows), Cache(keys, rows), Broadcast(keys, rows)
  PROVE  /\ hashes' \in Rows /\ snapshot' \in Rows
         /\ casts' \in [PlainKeys -> {0, 1}]
         /\ clients' \subseteq Clients
         /\ socket' \in [Clients -> {"none", "open", "closing"}]
         /\ view' \in [Clients -> Rows]
<1>1. hashes' \in Rows /\ snapshot' \in Rows
  BY DEF SetHashes, Cache, TypeOK, Rows
<1>2. casts' \in [PlainKeys -> {0, 1}]
  BY DEF Broadcast, TypeOK
<1>3. clients' \subseteq Clients /\ socket' = socket
  BY DEF Broadcast, TypeOK
<1>4. view' \in [Clients -> Rows]
  BY DEF Broadcast, TypeOK, Rows
<1>5. QED  BY <1>1, <1>2, <1>3, <1>4 DEF TypeOK

LEMMA NothingTypes ==
  /\ Nothing \in Rows
  /\ IdlePoll \in [stage : {"idle", "query", "kpi"}, since : Versions, rows : Rows]
<1>1. Nothing \in Rows  BY DEF Nothing, Rows
<1>2. QED  BY <1>1 DEF IdlePoll, Versions

LEMMA FaultType ==
  ASSUME TypeOK, Fault
  PROVE  faults' \in 0 .. MaxFaults
BY DEF TypeOK, Fault

LEMMA TypeStep == TypeOK /\ [Next]_vars => TypeOK'
<1> SUFFICES ASSUME TypeOK, [Next]_vars PROVE TypeOK'  OBVIOUS
<1> USE NothingTypes
<1>1. CASE Write
  BY <1>1 DEF Write, TypeOK, Versions, boot, reader, broker
<1>2. CASE Warmup \/ WarmupLost \/ IngestRouteLoaded
  <2>1. CASE Warmup  BY <2>1 DEF Warmup, TypeOK, reader, broker
  <2>2. CASE WarmupLost  BY <2>2, FaultType DEF WarmupLost, TypeOK, reader, broker
  <2>3. CASE IngestRouteLoaded  BY <2>3 DEF IngestRouteLoaded, TypeOK, reader, broker
  <2>4. QED  BY <1>2, <2>1, <2>2, <2>3
<1>3. CASE Restart
  <2>1. faults' \in 0 .. MaxFaults  BY <1>3, FaultType DEF Restart
  <2>2. polls' \in [Slots -> [stage : {"idle", "query", "kpi"}, since : Versions, rows : Rows]]
    BY <1>3 DEF Restart
  <2>3. QED  BY <1>3, <2>1, <2>2 DEF Restart, TypeOK
<1>4. ASSUME NEW i \in Slots, Poll(i) \/ PollError(i) PROVE TypeOK'
  BY <1>4 DEF Poll, PollError, Fault, TypeOK, boot, reader, broker
<1>5. ASSUME NEW i \in Slots, Answered(i) PROVE TypeOK'
  <2>1. PICK rows \in Answers(i) :
          LET keys == {k \in PlainKeys : Changed(k, rows)}
          IN SetHashes(keys, rows) /\ Cache(keys, rows) /\ Broadcast(keys, rows)
    BY <1>5 DEF Answered
  <2>2. rows \in Rows  BY AnswersAreRows
  <2>3. polls' = [polls EXCEPT ![i] = IdlePoll] /\ UNCHANGED << db, boot, faults >>
    BY <1>5 DEF Answered
  <2>4. QED  BY <2>1, <2>2, <2>3, TurnTypes DEF TypeOK, boot
<1>6. ASSUME NEW i \in Slots, AnsweredKpi(i) PROVE TypeOK'
  <2>1. PICK rows \in Answers(i) :
          LET keys == {"tape"} \intersect {k \in Keys : Changed(k, rows)}
          IN /\ SetHashes(keys \union {"kpi"}, rows)
             /\ Cache(keys, rows) /\ Broadcast(keys, rows)
             /\ polls' = [polls EXCEPT ![i].stage = "kpi", ![i].rows = rows]
    BY <1>6 DEF AnsweredKpi
  <2>2. rows \in Rows  BY AnswersAreRows
  <2>3. UNCHANGED << db, boot, faults >>
    BY <1>6 DEF AnsweredKpi
  <2>4. polls' \in [Slots -> [stage : {"idle", "query", "kpi"}, since : Versions, rows : Rows]]
    BY <2>1, <2>2 DEF TypeOK
  <2>5. QED  BY <2>1, <2>2, <2>3, <2>4, TurnTypes DEF TypeOK, boot
<1>7. ASSUME NEW i \in Slots, KpiAnswered(i) PROVE TypeOK'
  BY <1>7, HeldAreRows, TurnTypes DEF KpiAnswered, TypeOK, boot
<1>8. ASSUME NEW c \in Clients, Upgrade(c) PROVE TypeOK'
  <2>1. [k \in Keys |-> IF snapshot[k] # None THEN snapshot[k] ELSE view[c][k]] \in Rows
    BY DEF TypeOK, Rows
  <2>2. view' \in [Clients -> Rows]  BY <1>8, <2>1 DEF Upgrade, TypeOK
  <2>3. QED  BY <1>8, <2>2 DEF Upgrade, TypeOK, boot, reader
<1>9. ASSUME NEW c \in Clients, SocketLost(c) \/ SocketClosed(c) PROVE TypeOK'
  BY <1>9 DEF SocketLost, SocketClosed, Fault, TypeOK, boot, reader
<1>10. CASE UNCHANGED vars
  BY <1>10 DEF vars, TypeOK, boot, reader, broker
<1>11. QED
  BY <1>1, <1>2, <1>3, <1>4, <1>5, <1>6, <1>7, <1>8, <1>9, <1>10 DEF Next

\* Every variable keeps its type.
THEOREM TypeCorrect == Spec => []TypeOK
<1>1. Init => TypeOK
  <2> SUFFICES ASSUME Init PROVE TypeOK  OBVIOUS
  <2>1. polls \in [Slots -> [stage : {"idle", "query", "kpi"}, since : Versions, rows : Rows]]
    BY NothingTypes DEF Init
  <2>2. view \in [Clients -> Rows] /\ hashes \in Rows /\ snapshot \in Rows
    BY NothingTypes DEF Init
  <2>3. db \in Versions /\ faults \in 0 .. MaxFaults  BY DEF Init, Versions
  <2>4. QED  BY <2>1, <2>2, <2>3 DEF Init, TypeOK
<1>2. QED  BY <1>1, TypeStep, PTL DEF Spec

-----------------------------------------------------------------------------
\* For the plain tiles hash and snapshot are recorded together; that is why the
\* snapshot a new tab gets stands for the broadcasts it missed.
HashIsCached == \A k \in PlainKeys : hashes[k] = snapshot[k]

PushInv == HashIsCached /\ SnapshotIsShown /\ OpenIsRegistered

\* One turn of poll(): the tiles it broadcasts are those it caches, and among the
\* plain ones those whose hash it records.
LEMMA TurnKeepsPush ==
  ASSUME TypeOK, PushInv, NEW hashed, NEW keys, NEW rows \in Rows,
         hashed \intersect PlainKeys = keys \intersect PlainKeys,
         SetHashes(hashed, rows), Cache(keys, rows), Broadcast(keys, rows)
  PROVE  PushInv'
<1>1. HashIsCached'
  <2>1. ASSUME NEW k \in PlainKeys PROVE hashes'[k] = snapshot'[k]
    BY <2>1 DEF PushInv, HashIsCached, SetHashes, Cache, PlainKeys
  <2>2. QED  BY <2>1 DEF HashIsCached
<1>2. socket' = socket /\ \A c \in Clients : socket[c] = "open" => (c \in clients' <=> c \in clients)
  BY DEF Broadcast, PushInv, OpenIsRegistered
<1>3. SnapshotIsShown'
  <2> SUFFICES ASSUME NEW c \in clients', NEW k \in Keys, socket[c] = "open", snapshot'[k] # None
               PROVE  view'[c][k] = snapshot'[k]
    BY <1>2 DEF SnapshotIsShown
  <2>1. c \in Clients /\ c \in clients  BY DEF Broadcast, TypeOK
  <2>2. view'[c][k] = IF k \in keys THEN rows[k] ELSE view[c][k]
    BY <2>1 DEF Broadcast
  <2>3. snapshot'[k] = IF k \in keys THEN rows[k] ELSE snapshot[k]  BY DEF Cache
  <2>4. snapshot[k] # None => view[c][k] = snapshot[k]
    BY <2>1 DEF PushInv, SnapshotIsShown
  <2>5. QED  BY <2>2, <2>3, <2>4
<1>4. OpenIsRegistered'
  BY <1>2 DEF PushInv, OpenIsRegistered
<1>5. QED  BY <1>1, <1>3, <1>4 DEF PushInv

LEMMA PushStep ==
  ASSUME TypeOK, PushInv, [Next]_vars
  PROVE  PushInv'
<1>1. ASSUME UNCHANGED << hashes, snapshot, broker >> PROVE PushInv'
  BY <1>1 DEF PushInv, HashIsCached, SnapshotIsShown, OpenIsRegistered, broker
<1>2. CASE Write \/ Warmup \/ WarmupLost \/ IngestRouteLoaded \/ UNCHANGED vars
  BY <1>1, <1>2 DEF Write, Warmup, WarmupLost, IngestRouteLoaded, vars, reader
<1>3. CASE Restart
  BY <1>3 DEF Restart, PushInv, HashIsCached, SnapshotIsShown, OpenIsRegistered
<1>4. ASSUME NEW i \in Slots, Poll(i) \/ PollError(i) PROVE PushInv'
  BY <1>1, <1>4 DEF Poll, PollError, reader
<1>5. ASSUME NEW i \in Slots, Answered(i) PROVE PushInv'
  <2>1. PICK rows \in Answers(i) :
          LET keys == {k \in PlainKeys : Changed(k, rows)}
          IN SetHashes(keys, rows) /\ Cache(keys, rows) /\ Broadcast(keys, rows)
    BY <1>5 DEF Answered
  <2>2. rows \in Rows  BY AnswersAreRows
  <2>3. QED  BY <2>1, <2>2, TurnKeepsPush
<1>6. ASSUME NEW i \in Slots, AnsweredKpi(i) PROVE PushInv'
  <2>1. PICK rows \in Answers(i) :
          LET keys == {"tape"} \intersect {k \in Keys : Changed(k, rows)}
          IN /\ SetHashes(keys \union {"kpi"}, rows)
             /\ Cache(keys, rows) /\ Broadcast(keys, rows)
    BY <1>6 DEF AnsweredKpi
  <2> DEFINE keys == {"tape"} \intersect {k \in Keys : Changed(k, rows)}
  <2>2. rows \in Rows  BY AnswersAreRows
  <2>3. (keys \union {"kpi"}) \intersect PlainKeys = keys \intersect PlainKeys
    BY DEF PlainKeys
  <2> HIDE DEF keys
  <2>4. SetHashes(keys \union {"kpi"}, rows) /\ Cache(keys, rows) /\ Broadcast(keys, rows)
    BY <2>1 DEF keys
  <2>5. QED  BY <2>2, <2>3, <2>4, TurnKeepsPush
<1>7. ASSUME NEW i \in Slots, KpiAnswered(i) PROVE PushInv'
  <2> DEFINE rows == polls[i].rows
             changed == {k \in {"sector", "topmarks"} : Changed(k, rows)}
             keys == {"kpi"} \union changed
  <2>1. SetHashes(changed, rows) /\ Cache(keys, rows) /\ Broadcast(keys, rows)
    BY <1>7 DEF KpiAnswered
  <2>2. changed \intersect PlainKeys = keys \intersect PlainKeys  BY DEF PlainKeys
  <2>3. rows \in Rows  BY HeldAreRows
  <2> HIDE DEF rows, changed, keys
  <2>4. QED  BY <2>1, <2>2, <2>3, TurnKeepsPush
<1>8. ASSUME NEW c \in Clients, Upgrade(c) PROVE PushInv'
  <2>1. UNCHANGED << hashes, snapshot >>  BY <1>8 DEF Upgrade, reader
  <2>2. HashIsCached'  BY <2>1 DEF PushInv, HashIsCached
  <2>3. SnapshotIsShown'
    BY <1>8, <2>1 DEF Upgrade, PushInv, SnapshotIsShown, TypeOK
  <2>4. OpenIsRegistered'
    BY <1>8 DEF Upgrade, PushInv, OpenIsRegistered, TypeOK
  <2>5. QED  BY <2>2, <2>3, <2>4 DEF PushInv
<1>9. ASSUME NEW c \in Clients, SocketLost(c) \/ SocketClosed(c) PROVE PushInv'
  <2>1. UNCHANGED << hashes, snapshot, view >>  BY <1>9 DEF SocketLost, SocketClosed, reader
  <2>2. HashIsCached'  BY <2>1 DEF PushInv, HashIsCached
  <2>3. /\ clients' \subseteq clients
        /\ \A d \in Clients : socket'[d] = "open" => socket[d] = "open" /\ (d \in clients => d \in clients')
    BY <1>9 DEF SocketLost, SocketClosed, TypeOK
  <2>4. QED
    BY <2>1, <2>2, <2>3 DEF PushInv, SnapshotIsShown, OpenIsRegistered, TypeOK
<1>10. QED
  BY <1>2, <1>3, <1>4, <1>5, <1>6, <1>7, <1>8, <1>9 DEF Next

LEMMA PushInvariant == Spec => []PushInv
<1>1. Init => PushInv
  BY DEF Init, PushInv, HashIsCached, SnapshotIsShown, OpenIsRegistered, PlainKeys
<1>2. TypeOK /\ PushInv /\ [Next]_vars => PushInv'  BY PushStep
<1>3. QED  BY <1>1, <1>2, TypeCorrect, PTL DEF Spec

\* A tab that is connected shows what the server has cached, for every tile,
\* whenever and however often it connected.
THEOREM ConnectedTabsShowTheSnapshot == Spec => []SnapshotIsShown
<1>1. PushInv => SnapshotIsShown  BY DEF PushInv
<1>2. QED  BY <1>1, PushInvariant, PTL

\* hasChanged can never swallow a content: what it takes for already sent is what
\* every connected tab shows.
THEOREM RecordedHashesAreShown == Spec => []HashedIsShown
<1>1. PushInv => HashedIsShown
  BY DEF PushInv, HashIsCached, SnapshotIsShown, HashedIsShown, PlainKeys
<1>2. QED  BY <1>1, PushInvariant, PTL

\* No socket is open without being in the broker's map.
THEOREM OpenSocketsAreRegistered == Spec => []OpenIsRegistered
<1>1. PushInv => OpenIsRegistered  BY DEF PushInv
<1>2. QED  BY <1>1, PushInvariant, PTL
-----------------------------------------------------------------------------
\* One turn of poll() broadcasts only plain tiles whose recorded hash, that is
\* whose cached content, is another one.
LEMMA TurnBroadcastsChanges ==
  ASSUME PushInv, NEW keys, NEW rows, Cache(keys, rows), Broadcast(keys, rows),
         \A k \in keys \intersect PlainKeys : Changed(k, rows)
  PROVE  \A k \in PlainKeys : casts'[k] # casts[k] => snapshot'[k] # snapshot[k]
<1> SUFFICES ASSUME NEW k \in PlainKeys, casts'[k] # casts[k]
             PROVE  snapshot'[k] # snapshot[k]
  OBVIOUS
<1>1. k \in keys  BY DEF Broadcast
<1>2. snapshot'[k] = rows[k]  BY <1>1 DEF Cache, PlainKeys
<1>3. rows[k] # snapshot[k]  BY <1>1 DEF Changed, PushInv, HashIsCached
<1>4. QED  BY <1>2, <1>3

LEMMA CastStep ==
  ASSUME PushInv, [Next]_vars
  PROVE  \A k \in PlainKeys : casts'[k] # casts[k] => snapshot'[k] # snapshot[k]
<1>1. CASE casts' = casts
  BY <1>1
<1>2. ASSUME NEW i \in Slots, Answered(i)
      PROVE  \A k \in PlainKeys : casts'[k] # casts[k] => snapshot'[k] # snapshot[k]
  BY <1>2, TurnBroadcastsChanges DEF Answered
<1>3. ASSUME NEW i \in Slots, AnsweredKpi(i)
      PROVE  \A k \in PlainKeys : casts'[k] # casts[k] => snapshot'[k] # snapshot[k]
  BY <1>3, TurnBroadcastsChanges DEF AnsweredKpi
<1>4. ASSUME NEW i \in Slots, KpiAnswered(i)
      PROVE  \A k \in PlainKeys : casts'[k] # casts[k] => snapshot'[k] # snapshot[k]
  BY <1>4, TurnBroadcastsChanges DEF KpiAnswered, PlainKeys
<1>5. QED
  BY <1>1, <1>2, <1>3, <1>4
     DEF Next, Write, Warmup, WarmupLost, IngestRouteLoaded, Restart, Poll, PollError,
         Upgrade, SocketLost, SocketClosed, reader, vars

\* However polls overlap, a plain tile is broadcast only with a content that the
\* server has not cached: charts do not move on idle.
THEOREM OnlyChangesAreBroadcast == Spec => BroadcastOnChange
<1>1. PushInv /\ [Next]_vars =>
        [\A k \in PlainKeys : casts'[k] # casts[k] => snapshot'[k] # snapshot[k]]_vars
  BY CastStep
<1>2. QED  BY <1>1, PushInvariant, PTL DEF Spec, BroadcastOnChange
=============================================================================
