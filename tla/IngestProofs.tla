------------------------------ MODULE IngestProofs ------------------------------
(***************************************************************************)
(* What the write path of the web server guarantees for any number of      *)
(* events under way, rotations of the tunnel, failures and probe reads.    *)
(***************************************************************************)
EXTENDS Ingest, TLAPS

USE IngestAssumption DEF IngestAssumption, Hosts, NoHost

LEMMA FaultType ==
  ASSUME TypeOK, Fault \/ UNCHANGED faults
  PROVE  faults' \in 0 .. MaxFaults
BY DEF TypeOK, Fault

LEMMA HostsRead ==
  ASSUME TypeOK, NEW e \in Events
  PROVE  /\ ReadHost(e) \in Hosts \union {NoHost}
         /\ KeptHost(e) \in Hosts \union {NoHost}
BY DEF TypeOK, ReadHost, KeptHost

LEMMA PostType ==
  ASSUME TypeOK, NEW e \in Events, NEW host \in Hosts \union {NoHost}, Post(e, host)
  PROVE  /\ pc' \in [Events -> {"idle", "reading", "loaded", "posted", "done"}]
         /\ via' \in [Events -> Hosts \union {NoHost}]
<1>1. pc' \in [Events -> {"idle", "reading", "loaded", "posted", "done"}]
  BY DEF TypeOK, Post
<1>2. via' \in [Events -> Hosts \union {NoHost}]
  <2> HIDE DEF Hosts, NoHost
  <2>1. via' = [via EXCEPT ![e] = host] /\ via \in [Events -> Hosts \union {NoHost}]
    BY DEF TypeOK, Post
  <2>2. QED  BY <2>1
<1>3. QED  BY <1>1, <1>2

LEMMA TypeStep == TypeOK /\ [Next]_vars => TypeOK'
<1> SUFFICES ASSUME TypeOK, [Next]_vars PROVE TypeOK'  OBVIOUS
<1> USE DEF TypeOK, contractVars, proxyVars, tunnelVars, bounds
<1>1. ASSUME NEW e \in Events, Fire(e) PROVE TypeOK'
  <2>1. /\ pc' \in [Events -> {"idle", "reading", "loaded", "posted", "done"}]
        /\ via' \in [Events -> Hosts \union {NoHost}]
    <3>1. CASE fresh /\ tunnelHost # NoHost  
      <4>1. Post(e, tunnelHost)  BY <1>1, <3>1 DEF Fire
      <4>2. tunnelHost \in Hosts \union {NoHost}  OBVIOUS
      <4>3. QED  BY <4>1, <4>2, PostType
    <3>2. CASE ~(fresh /\ tunnelHost # NoHost)  BY <1>1, <3>2 DEF Fire
    <3>3. QED  BY <3>1, <3>2
  <2>2. phase' \in [Events -> {"new", "pending", "verified", "failed"}]
    BY <1>1 DEF Fire
  <2>3. QED  BY <1>1, <2>1, <2>2 DEF Fire
<1>2. ASSUME NEW e \in Events, ReadConfig(e) PROVE TypeOK'
  <2>1. faults' \in 0 .. MaxFaults  BY <1>2, FaultType DEF ReadConfig
  <2>2. QED  BY <1>2, <2>1 DEF ReadConfig
<1>3. ASSUME NEW e \in Events, UseConfig(e) PROVE TypeOK'
  <2>1. tunnelHost' \in Hosts \union {NoHost} /\ fresh' \in BOOLEAN
    BY <1>3, HostsRead DEF UseConfig, Stamped
  <2>2. CASE tunnelHost' = NoHost
    <3>1. /\ pc' \in [Events -> {"idle", "reading", "loaded", "posted", "done"}]
          /\ phase' \in [Events -> {"new", "pending", "verified", "failed"}]
      BY <1>3, <2>2 DEF UseConfig, Give
    <3>2. QED  BY <1>3, <2>1, <2>2, <3>1 DEF UseConfig
  <2>3. CASE tunnelHost' # NoHost
    <3>1. /\ pc' \in [Events -> {"idle", "reading", "loaded", "posted", "done"}]
          /\ via' \in [Events -> Hosts \union {NoHost}]
      <4>1. Post(e, tunnelHost')  BY <1>3, <2>3 DEF UseConfig
      <4>2. QED  BY <4>1, <2>1, PostType
    <3>2. QED  BY <1>3, <2>1, <2>3, <3>1 DEF UseConfig
  <2>4. QED  BY <2>2, <2>3
<1>4. ASSUME NEW e \in Events, Deliver(e) PROVE TypeOK'
  BY <1>4 DEF Deliver
<1>5. ASSUME NEW e \in Events, VmEnds(e) PROVE TypeOK'
  <2>1. faults' \in 0 .. MaxFaults  BY <1>5, FaultType DEF VmEnds
  <2>2. QED  BY <1>5, <2>1 DEF VmEnds
<1>6. ASSUME NEW e \in Events, Verify(e) PROVE TypeOK'
  BY <1>6 DEF Verify
<1>7. ASSUME NEW e \in Events, Fail(e) \/ TimeOut(e) PROVE TypeOK'
  BY <1>7 DEF Fail, TimeOut, Give
<1>8. ASSUME NEW e \in Events, Forget(e) PROVE TypeOK'
  BY <1>8 DEF Forget
<1>9. ASSUME NEW e \in Events, NEW t \in Tables, Probe(e, t) PROVE TypeOK'
  <2>1. faults' \in 0 .. MaxFaults  BY <1>9, FaultType DEF Probe, Found, NotFound
  <2>2. probes' \in [Events -> [Tables -> 0 .. MAX_POLLS]]
    <3>1. probes[e] \in [Tables -> 0 .. MAX_POLLS] /\ probes[e][t] \in 0 .. MAX_POLLS
      OBVIOUS
    <3>2. PICK n \in 0 .. MAX_POLLS : probes' = [probes EXCEPT ![e][t] = n]
      <4>1. CASE Found(e, t)
        <5>1. 0 \in 0 .. MAX_POLLS  BY <3>1
        <5>2. QED  BY <4>1, <5>1 DEF Found
      <4>2. CASE NotFound(e, t)
        <5>1. probes[e][t] - 1 \in 0 .. MAX_POLLS  BY <1>9, <3>1 DEF Probe
        <5>2. QED  BY <4>2, <5>1 DEF NotFound
      <4>3. QED  BY <1>9, <4>1, <4>2 DEF Probe
    <3>3. [probes[e] EXCEPT ![t] = n] \in [Tables -> 0 .. MAX_POLLS]  BY <3>1
    <3>4. QED  BY <3>2, <3>3
  <2>3. told' \in [Events -> [Tables -> {"none", "floor", "real"}]]
    <3>1. told[e] \in [Tables -> {"none", "floor", "real"}]  OBVIOUS
    <3>2. told' = told \/ \E word \in {"floor", "real"} : told' = [told EXCEPT ![e][t] = word]
      BY <1>9 DEF Probe, Found, NotFound, LastWord
    <3>3. ASSUME NEW word \in {"floor", "real"}
          PROVE  [told EXCEPT ![e][t] = word] \in [Events -> [Tables -> {"none", "floor", "real"}]]
      <4>1. [told[e] EXCEPT ![t] = word] \in [Tables -> {"none", "floor", "real"}]  BY <3>1
      <4>2. QED  BY <4>1
    <3>4. told \in [Events -> [Tables -> {"none", "floor", "real"}]]  OBVIOUS
    <3> HIDE DEF TypeOK
    <3>5. QED  BY <3>2, <3>3, <3>4
  <2>4. QED  BY <1>9, <2>1, <2>2, <2>3 DEF Probe
<1>10. ASSUME NEW e \in Events, Lands(e) PROVE TypeOK'
  BY <1>10 DEF Lands, Commit, Show
<1>11. CASE TtlExpires \/ Health
  BY <1>11 DEF TtlExpires, Health
<1>12. CASE Rotate \/ HealRead
  BY <1>12 DEF Rotate, HealRead, UpToHere
<1>13. CASE HealRegister
  <2>1. faults' \in 0 .. MaxFaults  BY <1>13, FaultType DEF HealRegister
  <2>2. QED  BY <1>13, <2>1 DEF HealRegister, UpToHere
<1>14. CASE Redeploy
  BY <1>14 DEF Redeploy, UpToHere
<1>15. CASE UNCHANGED vars
  BY <1>15 DEF vars
<1>16. QED
  BY <1>1, <1>2, <1>3, <1>4, <1>5, <1>6, <1>7, <1>8, <1>9, <1>10, <1>11, <1>12, <1>13,
     <1>14, <1>15 DEF Next, Call, Serve, Heal

\* The type invariant of the write path.
THEOREM TypeCorrect == Spec => []TypeOK
<1>1. Init => TypeOK
  <2> SUFFICES ASSUME Init PROVE TypeOK  OBVIOUS
  <2>1. 1 \in Hosts /\ NoHost \in Hosts \union {NoHost}  OBVIOUS
  <2>2. NoProbe \in [Tables -> 0 .. MAX_POLLS]  BY DEF NoProbe
  <2>3. /\ pc \in [Events -> {"idle", "reading", "loaded", "posted", "done"}]
        /\ via \in [Events -> Hosts \union {NoHost}]
        /\ vm \in [Events -> {"none", "working", "ok", "error"}]
        /\ probes \in [Events -> [Tables -> 0 .. MAX_POLLS]]
    BY <2>2 DEF Init
  <2>4. /\ phase \in [Events -> {"new", "pending", "verified", "failed"}]
        /\ committed \subseteq Events
        /\ visible \in [Events -> SUBSET Tables]
        /\ told \in [Events -> [Tables -> {"none", "floor", "real"}]]
    BY DEF Init
  <2>5. /\ tunnelHost \in Hosts \union {NoHost}
        /\ appConfig \in Hosts /\ liveHost \in Hosts
        /\ lastHost \in Hosts \union {NoHost} /\ healing \in Hosts \union {NoHost}
        /\ redeploys \in 0 .. MaxRedeploys /\ faults \in 0 .. MaxFaults
    BY <2>1 DEF Init
  <2>6. fresh \in BOOLEAN /\ health \in {"none", "ok", "unreachable"}
    BY DEF Init
  <2>7. QED  BY <2>3, <2>4, <2>5, <2>6, Zenon DEF TypeOK
<1>2. QED  BY <1>1, TypeStep, PTL DEF Spec

-----------------------------------------------------------------------------

\* A host that is known is not forgotten, whatever APP_CONFIG reads as.
THEOREM LastGoodIsKept == Spec => KeepsLastGood
<1>1. [Next]_vars => [tunnelHost # NoHost => tunnelHost' # NoHost]_vars
  <2> SUFFICES ASSUME Next, tunnelHost # NoHost PROVE tunnelHost' # NoHost
    BY DEF vars
  <2> USE DEF contractVars, proxyVars, tunnelVars, bounds
  <2>1. ASSUME NEW e \in Events, UseConfig(e) PROVE tunnelHost' # NoHost
    BY <2>1 DEF UseConfig, KeptHost
  <2>2. ASSUME NEW e \in Events, Call(e) \/ Lands(e), ~UseConfig(e) PROVE tunnelHost' # NoHost
    BY <2>2 DEF Call, Serve, Lands, Fire, ReadConfig, Deliver, VmEnds, Verify, Fail, TimeOut, Forget,
                Probe, Commit, Show
  <2>3. CASE TtlExpires \/ Rotate \/ Heal \/ Redeploy \/ Health
    BY <2>3 DEF TtlExpires, Rotate, Heal, HealRead, HealRegister, Redeploy, Health, UpToHere
  <2>4. QED  BY <2>1, <2>2, <2>3 DEF Next
<1>2. QED  BY <1>1, PTL DEF Spec, KeepsLastGood

-----------------------------------------------------------------------------
(* The write path implements IngestContract: what the program counter of a *)
(* POST, the producer and the probes of an event say of its phase.         *)

PhaseFollows(e) ==
  /\ pc[e] = "idle" => phase[e] = "new"
  /\ pc[e] \in {"reading", "loaded", "posted"} => phase[e] = "pending"
  /\ pc[e] = "done" => phase[e] \in {"verified", "failed"}
  /\ vm[e] # "none" => pc[e] \in {"posted", "done"}
  /\ vm[e] = "ok" => e \in committed
  /\ phase[e] # "verified" => \A t \in Tables : told[e][t] = "none"
  /\ \A t \in Tables : probes[e][t] > 0 => phase[e] = "verified" /\ told[e][t] = "none"

PathInv == \A e \in Events : PhaseFollows(e)

\* The steps of the contract, and those that it does not see.
LEMMA PathStep ==
  ASSUME TypeOK, PathInv, [Next]_vars
  PROVE  PathInv' /\ [Contract!Next]_(Contract!contractVars)
<1> USE DEF TypeOK, contractVars, proxyVars, tunnelVars, bounds, Contract!contractVars
<1>0. ASSUME UNCHANGED << pc, vm, probes, contractVars >>
      PROVE  PathInv' /\ UNCHANGED Contract!contractVars
  BY <1>0 DEF PathInv, PhaseFollows
<1>1. ASSUME NEW e \in Events, Fire(e) PROVE PathInv' /\ Contract!Next
  <2>1. phase[e] = "new"  BY <1>1 DEF Fire, PathInv, PhaseFollows
  <2>2. Contract!Announce(e)  BY <1>1, <2>1 DEF Fire, Contract!Announce
  <2>3. PathInv'  BY <1>1 DEF Fire, Post, PathInv, PhaseFollows
  <2>4. QED  BY <2>2, <2>3 DEF Contract!Next
<1>2. ASSUME NEW e \in Events, ReadConfig(e)
      PROVE  PathInv' /\ UNCHANGED Contract!contractVars
  BY <1>2 DEF ReadConfig, PathInv, PhaseFollows
<1>3. ASSUME NEW e \in Events, UseConfig(e)
      PROVE  PathInv' /\ (Contract!Next \/ UNCHANGED Contract!contractVars)
  <2>1. PathInv'
    <3>1. CASE Give(e)  BY <1>3, <3>1 DEF UseConfig, Give, PathInv, PhaseFollows
    <3>2. CASE Post(e, tunnelHost') /\ UNCHANGED phase
      BY <1>3, <3>2 DEF UseConfig, Post, PathInv, PhaseFollows
    <3>3. QED  BY <1>3, <3>1, <3>2 DEF UseConfig
  <2>2. phase[e] = "pending"  BY <1>3 DEF UseConfig, PathInv, PhaseFollows
  <2>3. CASE tunnelHost' = NoHost
    <3>1. Contract!GiveUp(e)  BY <1>3, <2>2, <2>3 DEF UseConfig, Give, Contract!GiveUp
    <3>2. QED  BY <2>1, <3>1 DEF Contract!Next
  <2>4. CASE tunnelHost' # NoHost
    BY <1>3, <2>1, <2>4 DEF UseConfig
  <2>5. QED  BY <2>3, <2>4
<1>4. ASSUME NEW e \in Events, Deliver(e) \/ VmEnds(e)
      PROVE  PathInv' /\ UNCHANGED Contract!contractVars
  BY <1>4 DEF Deliver, VmEnds, PathInv, PhaseFollows
<1>5. ASSUME NEW e \in Events, Verify(e) PROVE PathInv' /\ Contract!Next
  <2>1. phase[e] = "pending" /\ e \in committed
    BY <1>5 DEF Verify, Answered, PathInv, PhaseFollows
  <2>2. Contract!Verify(e)  BY <1>5, <2>1 DEF Verify, Contract!Verify
  <2>3. \A t \in Tables : told[e][t] = "none"
    BY <2>1 DEF PathInv, PhaseFollows
  <2>4. PathInv'  BY <1>5, <2>3 DEF Verify, PathInv, PhaseFollows
  <2>5. QED  BY <2>2, <2>4 DEF Contract!Next
<1>6. ASSUME NEW e \in Events, Fail(e) \/ TimeOut(e) PROVE PathInv' /\ Contract!Next
  <2>1. phase[e] = "pending"  BY <1>6 DEF Fail, TimeOut, PathInv, PhaseFollows
  <2>2. Contract!GiveUp(e)  BY <1>6, <2>1 DEF Fail, TimeOut, Give, Contract!GiveUp
  <2>3. PathInv'  BY <1>6, <2>1 DEF Fail, TimeOut, Give, PathInv, PhaseFollows
  <2>4. QED  BY <2>2, <2>3 DEF Contract!Next
<1>7. ASSUME NEW e \in Events, NEW t \in Tables, Probe(e, t)
      PROVE  PathInv' /\ (Contract!Next \/ UNCHANGED Contract!contractVars)
  <2>1. phase[e] = "verified" /\ told[e][t] = "none"
    BY <1>7 DEF Probe, PathInv, PhaseFollows
  <2>2. CASE Found(e, t)
    <3>1. Contract!Tell(e, t, "real")  BY <1>7, <2>1, <2>2 DEF Probe, Found, Contract!Tell
    <3>2. PathInv'  BY <1>7, <2>2 DEF Probe, Found, PathInv, PhaseFollows
    <3>3. QED  BY <3>1, <3>2 DEF Contract!Next
  <2>3. CASE NotFound(e, t) /\ probes[e][t] = 1
    <3>1. Contract!Tell(e, t, "floor")
      BY <1>7, <2>1, <2>3 DEF Probe, NotFound, LastWord, Contract!Tell
    <3>2. PathInv'  BY <1>7, <2>3 DEF Probe, NotFound, PathInv, PhaseFollows
    <3>3. QED  BY <3>1, <3>2 DEF Contract!Next
  <2>4. CASE NotFound(e, t) /\ probes[e][t] # 1
    BY <1>7, <2>1, <2>4 DEF Probe, NotFound, PathInv, PhaseFollows
  <2>5. QED  BY <1>7, <2>2, <2>3, <2>4 DEF Probe
<1>8. ASSUME NEW e \in Events, Forget(e) PROVE PathInv' /\ Contract!Next
  <2>1. phase[e] \in {"verified", "failed"}  BY <1>8 DEF Forget, PathInv, PhaseFollows
  <2>2. Contract!Forget(e)  BY <1>8, <2>1 DEF Forget, Contract!Forget
  <2>3. \A t \in Tables : probes[e][t] = 0  BY <1>8 DEF Forget, NoProbe
  <2>4. PathInv'  BY <1>8, <2>3 DEF Forget, PathInv, PhaseFollows
  <2>5. QED  BY <2>2, <2>4 DEF Contract!Next
<1>9. ASSUME NEW e \in Events, Commit(e) PROVE PathInv' /\ Contract!Next
  <2>1. phase[e] # "new"  BY <1>9 DEF Commit, PathInv, PhaseFollows
  <2>2. Contract!Commit(e)  BY <1>9, <2>1 DEF Commit, Contract!Commit
  <2>3. PathInv'  BY <1>9 DEF Commit, PathInv, PhaseFollows
  <2>4. QED  BY <2>2, <2>3 DEF Contract!Next
<1>10. ASSUME NEW e \in Events, NEW t \in Tables, Show(e, t) PROVE PathInv' /\ Contract!Next
  <2>1. Contract!Show(e, t)  BY <1>10 DEF Show, Contract!Show
  <2>2. PathInv'  BY <1>10 DEF Show, PathInv, PhaseFollows
  <2>3. QED  BY <2>1, <2>2 DEF Contract!Next
<1>11. CASE TtlExpires \/ Rotate \/ Heal \/ Redeploy \/ Health
  <2>1. UNCHANGED << pc, vm, probes, contractVars >>
    BY <1>11 DEF TtlExpires, Rotate, Heal, HealRead, HealRegister, Redeploy, Health, UpToHere
  <2>2. QED  BY <2>1, <1>0
<1>12. CASE UNCHANGED vars
  BY <1>0, <1>12 DEF vars
<1>13. QED
  BY <1>1, <1>2, <1>3, <1>4, <1>5, <1>6, <1>7, <1>8, <1>9, <1>10, <1>11, <1>12
     DEF Next, Call, Serve, Lands

\* The POST route, its probes and the tunnel behind them do for every event what
\* IngestContract allows, in every interleaving.
THEOREM PathImplementsContract == Spec => ImplementsContract
<1>1. Init => PathInv /\ Contract!Init
  BY DEF Init, PathInv, PhaseFollows, NoProbe, Contract!Init
<1>2. TypeOK /\ PathInv /\ [Next]_vars => PathInv' /\ [Contract!Next]_(Contract!contractVars)
  BY PathStep
<1>3. QED  BY <1>1, <1>2, TypeCorrect, PTL DEF Spec, ImplementsContract, Contract!Spec
=============================================================================
