-------------------------------- MODULE Ingest --------------------------------
(***************************************************************************)
(* The write path of the web server: POST /api/ingest                      *)
(* (web/src/app/api/ingest/route.ts) over the VM proxy with its cached     *)
(* tunnel host (web/src/server/vm-proxy.ts), and the other end of the      *)
(* tunnel, which registers the host it is reached at in APP_CONFIG         *)
(* (vm-ingest/ingest_worker.py, SP_SET_INGEST_HOST in setup.sql).          *)
(*                                                                         *)
(* Hosts are numbered in the order the tunnel gets them.  The API key is   *)
(* written with the host and never rotates here, so it is left out.  The   *)
(* producer behind the tunnel is what its own model shows of it: a row is  *)
(* committed or not, the call is answered or fails, in any order except    *)
(* that success is answered after the commit.                              *)
(***************************************************************************)
EXTENDS Integers, FiniteSets

CONSTANTS
  Events,        \* POSTs that may be under way at once (a bound); each is an event
  EnvHost,       \* process.env.INGEST_TUNNEL_HOST, NoHost as deployed
  MaxRotations,  \* times the tunnel changes its host (a bound)
  MaxRedeploys,  \* runs of deploy-app.sh with the host its .env holds (a bound)
  MaxFaults,     \* failed reads of APP_CONFIG and calls of the proc (a bound)
  MAX_POLLS,     \* reads of a visibility probe
  Tables         \* tables that are probed: RAW_EVENTS, POSITION_BOOK

NoHost == 0
Hosts == 1 .. MaxRotations + 1

ASSUME IngestAssumption ==
  /\ MaxRotations \in Nat /\ MaxRedeploys \in Nat /\ MaxFaults \in Nat
  /\ EnvHost \in Hosts \union {NoHost}
  /\ MAX_POLLS \in Nat \ {0}

VARIABLES
  pc,         \* per POST: "idle", "reading", "loaded", "posted" or "done"
  via,        \* per POST: the host that was read ("loaded") or is called ("posted")
  probes,     \* per POST and table: reads the visibility probe has left
  tunnelHost, \* tunnelHost of vm-proxy.ts
  fresh,      \* configLoadedAt is less than CONFIG_TTL_MS ago
  appConfig,  \* INGEST_TUNNEL_HOST in APP_CONFIG
  liveHost,   \* host the tunnel is reached at
  lastHost,   \* last_host of _self_heal_loop
  healing,    \* host _self_heal_loop has read and is about to register
  vm,         \* per POST: "none", "working", "ok" or "error" at the producer
  health,     \* cachedResult of /api/health: "none", "ok" or "unreachable"
  redeploys, faults,
  phase, committed, visible, told   \* as in IngestContract

contractVars == << phase, committed, visible, told >>
proxyVars == << tunnelHost, fresh >>
tunnelVars == << appConfig, liveHost, lastHost, healing >>
bounds == << redeploys, faults >>
vars == << pc, via, probes, vm, proxyVars, tunnelVars, health, bounds, contractVars >>

NoProbe == [t \in Tables |-> 0]

Init ==
  /\ pc = [e \in Events |-> "idle"]
  /\ via = [e \in Events |-> NoHost]
  /\ probes = [e \in Events |-> NoProbe]
  /\ vm = [e \in Events |-> "none"]
  /\ tunnelHost = NoHost /\ fresh = FALSE
  /\ appConfig = 1 /\ liveHost = 1 /\ lastHost = NoHost /\ healing = NoHost
  /\ health = "none"
  /\ redeploys = 0 /\ faults = 0
  /\ phase = [e \in Events |-> "new"]
  /\ committed = {}
  /\ visible = [e \in Events |-> {}]
  /\ told = [e \in Events |-> [t \in Tables |-> "none"]]

Fault ==
  /\ faults < MaxFaults
  /\ faults' = faults + 1

-----------------------------------------------------------------------------
(* The route, up to the call of the producer.                              *)

Post(e, host) ==
  /\ pc' = [pc EXCEPT ![e] = "posted"]
  /\ via' = [via EXCEPT ![e] = host]

\* POST: the optimistic message goes out, then ensureConfig() answers from the
\* cache or reads the table.
Fire(e) ==
  /\ pc[e] = "idle"
  /\ phase' = [phase EXCEPT ![e] = "pending"]
  /\ IF fresh /\ tunnelHost # NoHost
       THEN Post(e, tunnelHost)
       ELSE /\ pc' = [pc EXCEPT ![e] = "reading"]
            /\ UNCHANGED via
  /\ UNCHANGED << probes, vm, proxyVars, tunnelVars, health, bounds, committed, visible, told >>

\* loadAppConfig(): a query that fails reads as an empty table.
ReadConfig(e) ==
  /\ pc[e] = "reading"
  /\ pc' = [pc EXCEPT ![e] = "loaded"]
  /\ \/ /\ via' = [via EXCEPT ![e] = appConfig]
        /\ UNCHANGED faults
     \/ /\ via' = [via EXCEPT ![e] = NoHost]
        /\ Fault
  /\ UNCHANGED << probes, vm, proxyVars, tunnelVars, health, redeploys, contractVars >>

ReadHost(e) == IF via[e] # NoHost THEN via[e] ELSE EnvHost

Give(e) ==
  /\ pc' = [pc EXCEPT ![e] = "done"]
  /\ phase' = [phase EXCEPT ![e] = "failed"]

\* Fault: an empty read replaces the last good host.
KeptHostLoses(e) == ReadHost(e)

\* if (host) tunnelHost = host
KeptHost(e) == IF ReadHost(e) # NoHost THEN ReadHost(e) ELSE tunnelHost

\* if (host && key) configLoadedAt = Date.now()
Stamped(e) == fresh \/ ReadHost(e) # NoHost

\* The rest of ensureConfig(), and the call or the throw that follows it.
UseConfig(e) ==
  /\ pc[e] = "loaded"
  /\ tunnelHost' = KeptHost(e)
  /\ fresh' = Stamped(e)
  /\ IF tunnelHost' = NoHost
       THEN Give(e) /\ UNCHANGED via
       ELSE Post(e, tunnelHost') /\ UNCHANGED phase
  /\ UNCHANGED << probes, vm, tunnelVars, health, bounds, committed, visible, told >>

\* Fault: the configuration is kept for the lifetime of the process.
NeverExpires == FALSE

TtlExpires ==
  /\ fresh
  /\ fresh' = FALSE
  /\ UNCHANGED << pc, via, probes, vm, tunnelHost, tunnelVars, health, bounds, contractVars >>

-----------------------------------------------------------------------------
(* The producer, behind the tunnel.                                        *)

Deliver(e) ==
  /\ pc[e] = "posted" /\ vm[e] = "none"
  /\ via[e] = liveHost
  /\ vm' = [vm EXCEPT ![e] = "working"]
  /\ UNCHANGED << pc, via, probes, proxyVars, tunnelVars, health, bounds, contractVars >>

\* A row whose flush was not acknowledged in time is committed all the same.
Commit(e) ==
  /\ vm[e] \in {"working", "error"} /\ e \notin committed
  /\ committed' = committed \union {e}
  /\ UNCHANGED << pc, via, probes, vm, proxyVars, tunnelVars, health, bounds, phase, visible, told >>

VmEnds(e) ==
  /\ vm[e] = "working"
  /\ \/ /\ e \in committed
        /\ vm' = [vm EXCEPT ![e] = "ok"]
        /\ UNCHANGED faults
     \/ /\ vm' = [vm EXCEPT ![e] = "error"]
        /\ Fault
  /\ UNCHANGED << pc, via, probes, proxyVars, tunnelVars, health, redeploys, contractVars >>

\* Streamed rows become visible to queries some time after their commit.
Show(e, t) ==
  /\ e \in committed /\ t \notin visible[e]
  /\ visible' = [visible EXCEPT ![e] = @ \union {t}]
  /\ UNCHANGED << pc, via, probes, vm, proxyVars, tunnelVars, health, bounds, phase, committed, told >>

-----------------------------------------------------------------------------
(* The route, from the answer of the producer on.                          *)

Answered(e) == pc[e] = "posted" /\ via[e] = liveHost

\* The verified message, the two probes and the HTTP answer.
Verify(e) ==
  /\ Answered(e) /\ vm[e] = "ok"
  /\ pc' = [pc EXCEPT ![e] = "done"]
  /\ phase' = [phase EXCEPT ![e] = "verified"]
  /\ probes' = [probes EXCEPT ![e] = [t \in Tables |-> MAX_POLLS]]
  /\ UNCHANGED << via, vm, proxyVars, tunnelVars, health, bounds, committed, visible, told >>

\* if (!response.ok) throw, and a call of a host the tunnel has left.
Fail(e) ==
  /\ pc[e] = "posted"
  /\ vm[e] = "error" \/ (vm[e] = "none" /\ via[e] # liveHost)
  /\ Give(e)
  /\ UNCHANGED << via, probes, vm, proxyVars, tunnelVars, health, bounds, committed, visible, told >>

\* Fault: the call has no deadline.
NoDeadline(e) == FALSE

\* AbortSignal.timeout(15000): the producer goes on with the call.
TimeOut(e) ==
  /\ pc[e] = "posted"
  /\ Give(e)
  /\ UNCHANGED << via, probes, vm, proxyVars, tunnelVars, health, bounds, committed, visible, told >>

Found(e, t) ==
  /\ t \in visible[e]
  /\ probes' = [probes EXCEPT ![e][t] = 0]
  /\ told' = [told EXCEPT ![e][t] = "real"]
  /\ UNCHANGED faults

\* Fault: a probe that has used its reads up reports what it waited for.
GaveUpWord == "real"

\* found: false, after the last read.
LastWord == "floor"

NotFound(e, t) ==
  /\ probes' = [probes EXCEPT ![e][t] = @ - 1]
  /\ told' = IF probes[e][t] = 1 THEN [told EXCEPT ![e][t] = LastWord] ELSE told
  /\ IF t \in visible[e] THEN Fault ELSE UNCHANGED faults   \* the read failed

\* Fault: the loop does not count its reads.
ProbeUncounted(e, t) ==
  /\ told[e][t] = "none"
  /\ Found(e, t) \/ NotFound(e, t)
  /\ UNCHANGED << pc, via, vm, proxyVars, tunnelVars, health, redeploys, phase, committed, visible >>

\* One read of pollVisible(), and the it_visible message after the last one.
Probe(e, t) ==
  /\ probes[e][t] > 0
  /\ Found(e, t) \/ NotFound(e, t)
  /\ UNCHANGED << pc, via, vm, proxyVars, tunnelVars, health, redeploys, phase, committed, visible >>

\* The next event takes the place of one that is over.
Forget(e) ==
  /\ pc[e] = "done" /\ vm[e] # "working" /\ probes[e] = NoProbe
  /\ pc' = [pc EXCEPT ![e] = "idle"]
  /\ via' = [via EXCEPT ![e] = NoHost]
  /\ vm' = [vm EXCEPT ![e] = "none"]
  /\ phase' = [phase EXCEPT ![e] = "new"]
  /\ committed' = committed \ {e}
  /\ visible' = [visible EXCEPT ![e] = {}]
  /\ told' = [told EXCEPT ![e] = [t \in Tables |-> "none"]]
  /\ UNCHANGED << probes, proxyVars, tunnelVars, health, bounds >>

-----------------------------------------------------------------------------
(* The tunnel and the host that is published for it.                       *)

UpToHere == << pc, via, probes, vm, proxyVars, health, contractVars >>

\* cloudflared restarts; the producer may restart with it.
Rotate ==
  /\ liveHost <= MaxRotations
  /\ liveHost' = liveHost + 1
  /\ \/ lastHost' = NoHost /\ healing' = NoHost
     \/ UNCHANGED << lastHost, healing >>
  /\ UNCHANGED << UpToHere, appConfig, bounds >>

\* host and host != last_host
HealRead ==
  /\ healing = NoHost /\ liveHost # lastHost
  /\ healing' = liveHost
  /\ UNCHANGED << UpToHere, appConfig, liveHost, lastHost, bounds >>

HealRegister ==
  /\ healing # NoHost
  /\ \/ appConfig' = healing /\ lastHost' = healing /\ UNCHANGED faults
     \/ Fault /\ UNCHANGED << appConfig, lastHost >>
  /\ healing' = NoHost
  /\ UNCHANGED << UpToHere, liveHost, redeploys >>

\* deploy-app.sh, with a .env that still holds the first host.
Redeploy ==
  /\ redeploys < MaxRedeploys
  /\ redeploys' = redeploys + 1
  /\ appConfig' = 1
  /\ UNCHANGED << UpToHere, liveHost, lastHost, healing, faults >>

-----------------------------------------------------------------------------
(* GET /api/health, which every desk polls.                                *)

\* The result is older than CACHE_TTL_MS: the cached host is asked, or the one
\* in the table while there is none; this read does not fill the cache.
Health ==
  /\ health' = IF liveHost = (IF tunnelHost # NoHost THEN tunnelHost ELSE appConfig)
                 THEN "ok" ELSE "unreachable"
  /\ UNCHANGED << pc, via, probes, vm, proxyVars, tunnelVars, bounds, contractVars >>

-----------------------------------------------------------------------------

\* What follows a POST by itself, once somebody has made it.
Serve(e) ==
  \/ ReadConfig(e) \/ UseConfig(e)
  \/ Deliver(e) \/ VmEnds(e) \/ Verify(e) \/ Fail(e) \/ TimeOut(e)
  \/ \E t \in Tables : Probe(e, t)

Call(e) == Fire(e) \/ Serve(e) \/ Forget(e)

Lands(e) == Commit(e) \/ \E t \in Tables : Show(e, t)

Heal == HealRead \/ HealRegister

Next ==
  \/ \E e \in Events : Call(e) \/ Lands(e)
  \/ TtlExpires \/ Rotate \/ Heal \/ Redeploy
  \/ Health

Spec == Init /\ [][Next]_vars

\* Every await of a POST ends, the calls of the producer by their deadline; the
\* minute of the cache passes; the loop of the producer goes on; the desks poll
\* the health.  Nothing makes anybody post, a row visible or the tunnel rotate.
FairSpec ==
  /\ Spec
  /\ \A e \in Events : WF_vars(Serve(e)) /\ WF_vars(Commit(e))
  /\ WF_vars(TtlExpires)
  /\ WF_vars(Heal) /\ WF_vars(Health)

-----------------------------------------------------------------------------

TypeOK ==
  /\ pc \in [Events -> {"idle", "reading", "loaded", "posted", "done"}]
  /\ via \in [Events -> Hosts \union {NoHost}]
  /\ probes \in [Events -> [Tables -> 0 .. MAX_POLLS]]
  /\ vm \in [Events -> {"none", "working", "ok", "error"}]
  /\ tunnelHost \in Hosts \union {NoHost} /\ fresh \in BOOLEAN
  /\ appConfig \in Hosts /\ liveHost \in Hosts
  /\ lastHost \in Hosts \union {NoHost} /\ healing \in Hosts \union {NoHost}
  /\ health \in {"none", "ok", "unreachable"}
  /\ redeploys \in 0 .. MaxRedeploys /\ faults \in 0 .. MaxFaults
  /\ phase \in [Events -> {"new", "pending", "verified", "failed"}]
  /\ committed \subseteq Events
  /\ visible \in [Events -> SUBSET Tables]
  /\ told \in [Events -> [Tables -> {"none", "floor", "real"}]]

Contract == INSTANCE IngestContract

\* Whatever the tunnel, the cache and the probes do, the tabs are told what the
\* contract allows: verified only what is committed, confirmed only what a query
\* has seen, nothing more of an event that was given up (route.ts:100-190).
ImplementsContract == Contract!Spec

\* A host that answers is not forgotten: once a host is known, every later POST
\* has one to call, whatever APP_CONFIG reads as (vm-proxy.ts:27-30).
KeepsLastGood == [][tunnelHost # NoHost => tunnelHost' # NoHost]_vars

\* Users go on posting.
PostsArrive == []<><< \E e \in Events : Fire(e) >>_vars

\* While users go on posting, the proxy comes to call the live host after the
\* last rotation, and stays there, and the tile finds it too, with no operator
\* action (README.md:727, vm-proxy.ts:12-16).  Only a POST runs ensureConfig(), so
\* without posts nothing of this is so: see HealthFindsHost.  A deployment with an
\* old .env is an operator action it does not survive: the producer has published
\* the live host and does not publish it again.
SelfHeals ==
  PostsArrive /\ [](redeploys = 0) => <>[](tunnelHost = liveHost /\ health = "ok")

\* What README.md:727 says of any rotation, posts or none: the application reads
\* APP_CONFIG again every minute and recovers, so the health tile is in the end
\* that of the live producer.  GET /api/health asks the host the last POST left in
\* vm-proxy.ts and never reads the table again (health/route.ts:22-27): false here,
\* and no run lists it; README.md says how to see it fail.
HealthFindsHost == [](redeploys = 0) => <>[](health = "ok")

\* Every announced event is verified or given up: no tab waits on a POST for ever.
EveryPostEnds == \A e \in Events : phase[e] = "pending" ~> phase[e] # "pending"
=============================================================================
