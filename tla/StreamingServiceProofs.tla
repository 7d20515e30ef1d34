----------------------- MODULE StreamingServiceProofs -----------------------
(***************************************************************************)
(* What the runs of MCStreamingService show of small pools, for every      *)
(* number of threads, partitions, calls and failures.                      *)
(***************************************************************************)
EXTENDS StreamingService, FiniteSetTheorems, TLAPS

USE PoolAssumption DEF PoolAssumption

(***************************************************************************)
(* A thread that is about to retry has an attempt left, and one that got   *)
(* past its first append was served by a slot of the pool.                 *)
(***************************************************************************)
Retrying(t) == thr[t].pc = "recover" \/ Recovers(t)
RetryBudget == \A t \in Threads : Retrying(t) => thr[t].attempt < MAX_RECOVERY_ATTEMPTS - 1

Served(t) == Busy(t) /\ thr[t].pc # "append"
ServedSlot == \A t \in Threads : Served(t) => Partition(t) < opened

TypeInv == TypeOK /\ RetryBudget /\ ServedSlot

Thread == [pc : PcValues, call : 0 .. NumCalls,
           attempt : 0 .. MAX_RECOVERY_ATTEMPTS - 1, waitsOn : Nat]

LEMMA InitType == Init => TypeInv
<1> SUFFICES ASSUME Init PROVE TypeInv  OBVIOUS
<1>1. \A t \in Threads : thr[t] = Idle  BY DEF Init
<1>2. Idle \in Thread  BY DEF Idle, Thread, PcValues
<1>3. thr \in [Threads -> Thread]  BY <1>1, <1>2 DEF Init
<1>4. \A t \in Threads : ~Busy(t)  BY <1>1 DEF Busy, Idle
<1>5. << >> \in Seq(Calls)  OBVIOUS
<1>6. TypeOK
  <2>1. /\ chan \in [Partitions -> {"none", "open", "broken", "closed"}]
        /\ gen \in [Partitions -> Nat]
        /\ outcome \in [Calls -> {"none", "ok", "err"}]
    BY DEF Init
  <2>2. buf \in [Partitions -> Seq(Calls)] /\ table \in [Partitions -> Seq(Calls)]
    BY <1>5 DEF Init
  <2>3. /\ opened \in 0 .. PARTITIONS /\ next \in 1 .. NumCalls + 1
        /\ faults \in 0 .. MaxFaults
    BY DEF Init
  <2>4. QED  BY <1>3, <1>4, <2>1, <2>2, <2>3 DEF Init, TypeOK, Thread
<1>7. RetryBudget  BY <1>1 DEF RetryBudget, Retrying, Recovers, Idle
<1>8. ServedSlot  BY <1>4 DEF ServedSlot, Served
<1>9. QED  BY <1>6, <1>7, <1>8 DEF TypeInv

\* A step that leaves the threads alone and does not shrink the pool keeps
\* what TypeInv says of them.
LEMMA ThreadsUntouched ==
  ASSUME TypeInv, thr' = thr, opened' \in Nat, opened' >= opened
  PROVE  RetryBudget' /\ ServedSlot'
<1>1. RetryBudget'  BY DEF TypeInv, RetryBudget, Retrying, Recovers
<1>2. ASSUME NEW t \in Threads, Served(t)' PROVE Partition(t)' < opened'
  <2>1. Served(t) /\ Partition(t)' = Partition(t)
    BY <1>2 DEF Served, Busy, Partition
  <2>2. Partition(t) \in Partitions /\ Partition(t) < opened
    BY <2>1 DEF TypeInv, TypeOK, ServedSlot, Served, Partition
  <2>3. opened \in Nat  BY DEF TypeInv, TypeOK
  <2>4. QED  BY <2>1, <2>2, <2>3 DEF Partitions
<1>3. QED  BY <1>1, <1>2 DEF ServedSlot

LEMMA InitializeType == ASSUME TypeInv, Initialize PROVE TypeInv'
<1>1. CASE InitBegin
  <2>1. TypeOK'  BY <1>1 DEF InitBegin, TypeInv, TypeOK, Busy, sdk
  <2>2. RetryBudget' /\ ServedSlot'
    BY <1>1, ThreadsUntouched DEF InitBegin, TypeInv, TypeOK
  <2>3. QED  BY <2>1, <2>2 DEF TypeInv
<1>2. CASE InitOpen
  <2>1. opened \in Partitions /\ opened' = opened + 1 /\ opened' \in 0 .. PARTITIONS
    BY <1>2 DEF InitOpen, Partitions, TypeInv, TypeOK
  <2>2. UNCHANGED << recovering, next, thr, outcome, faults, down, table >>
    BY <1>2 DEF InitOpen, OpenSlot
  <2>3. chan' \in [Partitions -> {"none", "open", "broken", "closed"}]
        /\ gen' \in [Partitions -> Nat] /\ buf' \in [Partitions -> Seq(Calls)]
        /\ init' \in {"idle", "opening"}
    BY <1>2, <2>1 DEF InitOpen, OpenSlot, TypeInv, TypeOK
  <2>4. TypeOK'
    BY <2>1, <2>2, <2>3 DEF TypeInv, TypeOK, Busy
  <2>5. RetryBudget' /\ ServedSlot'
    BY <2>1, <2>2, ThreadsUntouched DEF Partitions
  <2>6. QED  BY <2>4, <2>5 DEF TypeInv
<1>3. CASE InitFail
  <2>1. TypeOK'  BY <1>3 DEF InitFail, Fault, TypeInv, TypeOK, Busy, sdk
  <2>2. RetryBudget' /\ ServedSlot'
    BY <1>3, ThreadsUntouched DEF InitFail, TypeInv, TypeOK
  <2>3. QED  BY <2>1, <2>2 DEF TypeInv
<1>4. QED  BY <1>1, <1>2, <1>3 DEF Initialize

\* A step of thread t alone.
ThreadStep(t, r) ==
  /\ r \in Thread
  /\ thr' = [thr EXCEPT ![t] = r]

LEMMA OneThread ==
  ASSUME TypeInv, NEW t \in Threads, NEW r, ThreadStep(t, r),
         r.pc # "idle" => r.call \in Calls,
         r.pc \in {"recover", "close", "reopen", "recovered", "failed"}
           => r.attempt < MAX_RECOVERY_ATTEMPTS - 1,
         r.pc \notin {"idle", "append"} => PartitionOf[r.call] < opened,
         opened' = opened
  PROVE  /\ thr' \in [Threads -> Thread]
         /\ \A u \in Threads : Busy(u)' => thr'[u].call \in Calls
         /\ RetryBudget' /\ ServedSlot'
<1>1. thr \in [Threads -> Thread]  BY DEF TypeInv, TypeOK, Thread
<1>2. thr'[t] = r /\ \A u \in Threads : u # t => thr'[u] = thr[u]
  BY <1>1 DEF ThreadStep
<1>3. thr' \in [Threads -> Thread]  BY <1>1 DEF ThreadStep
<1>4. ASSUME NEW u \in Threads PROVE Busy(u)' => thr'[u].call \in Calls
  BY <1>2 DEF Busy, TypeInv, TypeOK
<1>5. RetryBudget'
  BY <1>2 DEF TypeInv, RetryBudget, Retrying, Recovers
<1>6. ServedSlot'
  BY <1>2 DEF TypeInv, ServedSlot, Served, Busy, Partition
<1>7. QED  BY <1>3, <1>4, <1>5, <1>6

\* A busy thread and its call are what the types say.
LEMMA BusyThread ==
  ASSUME TypeInv, NEW t \in Threads, Busy(t)
  PROVE  /\ thr[t] \in Thread /\ thr[t].call \in Calls
         /\ Partition(t) \in Partitions
BY DEF TypeInv, TypeOK, Thread, Partition

LEMMA EndThread ==
  ASSUME TypeInv, NEW t \in Threads, Busy(t), opened' = opened,
         Return(t) \/ Raise(t)
  PROVE  /\ thr' \in [Threads -> Thread]
         /\ \A u \in Threads : Busy(u)' => thr'[u].call \in Calls
         /\ RetryBudget' /\ ServedSlot'
         /\ outcome' \in [Calls -> {"none", "ok", "err"}]
<1>1. Idle \in Thread /\ Idle.pc = "idle"  BY DEF Idle, Thread, PcValues
<1>2. ThreadStep(t, Idle)  BY <1>1 DEF ThreadStep, Return, Raise
<1>3. outcome' \in [Calls -> {"none", "ok", "err"}]
  BY BusyThread DEF Return, Raise, TypeInv, TypeOK
<1>4. QED  BY <1>1, <1>2, <1>3, OneThread

\* A thread that was served, or that found its channel in the list, moves on.
LEMMA GotoThread ==
  ASSUME TypeInv, NEW t \in Threads, Busy(t), Partition(t) < opened, opened' = opened,
         NEW pc \in PcValues, Goto(t, pc),
         pc \in {"recover", "close", "reopen", "recovered", "failed"}
           => thr[t].attempt < MAX_RECOVERY_ATTEMPTS - 1
  PROVE  /\ thr' \in [Threads -> Thread]
         /\ \A u \in Threads : Busy(u)' => thr'[u].call \in Calls
         /\ RetryBudget' /\ ServedSlot'
         /\ outcome' \in [Calls -> {"none", "ok", "err"}]
<1> DEFINE r == [thr[t] EXCEPT !.pc = pc]
<1>1. thr[t] \in Thread /\ thr[t].call \in Calls  BY BusyThread
<1>2. r \in Thread /\ r.pc = pc /\ r.call = thr[t].call /\ r.attempt = thr[t].attempt
  BY <1>1 DEF Thread
<1>3. ThreadStep(t, r)
  BY <1>2 DEF ThreadStep, Goto
<1>4. outcome' \in [Calls -> {"none", "ok", "err"}]  BY DEF Goto, TypeInv, TypeOK
<1> HIDE DEF r
<1>5. QED  BY <1>1, <1>2, <1>3, <1>4, OneThread DEF Partition

LEMMA FaultType == ASSUME TypeInv, Fault PROVE faults' \in 0 .. MaxFaults
BY DEF Fault, TypeInv, TypeOK

LEMMA HandleThread ==
  ASSUME TypeInv, NEW t \in Threads, Busy(t), Partition(t) < opened, opened' = opened,
         HandleRecoverable(t)
  PROVE  /\ thr' \in [Threads -> Thread]
         /\ \A u \in Threads : Busy(u)' => thr'[u].call \in Calls
         /\ RetryBudget' /\ ServedSlot'
         /\ outcome' \in [Calls -> {"none", "ok", "err"}]
<1>1. CASE thr[t].attempt < MAX_RECOVERY_ATTEMPTS - 1
  BY <1>1, GotoThread DEF HandleRecoverable, PcValues
<1>2. CASE ~(thr[t].attempt < MAX_RECOVERY_ATTEMPTS - 1)
  BY <1>2, EndThread DEF HandleRecoverable
<1>3. QED  BY <1>1, <1>2

LEMMA CallType == ASSUME TypeInv, NEW t \in Threads, Call(t) PROVE TypeInv'
<1> DEFINE r == [pc |-> "append", call |-> next, attempt |-> 0, waitsOn |-> 0]
<1>1. next \in Calls /\ next' = next + 1 /\ next' \in 1 .. NumCalls + 1
  BY DEF Call, TypeInv, TypeOK, Calls
<1>2. r \in Thread /\ r.pc = "append" /\ r.call = next
  <2>2. 0 \in 0 .. MAX_RECOVERY_ATTEMPTS - 1 /\ next \in 0 .. NumCalls
    BY <1>1 DEF Calls
  <2>3. QED  BY <2>2 DEF Thread, PcValues
<1>3. ThreadStep(t, r)  BY <1>2 DEF Call, ThreadStep
<1>4. opened' = opened  BY DEF Call, pool
<1> HIDE DEF r
<1>5. /\ thr' \in [Threads -> Thread]
      /\ \A u \in Threads : Busy(u)' => thr'[u].call \in Calls
      /\ RetryBudget' /\ ServedSlot'
  BY <1>1, <1>2, <1>3, <1>4, OneThread
<1>6. TypeOK'
  BY <1>1, <1>5 DEF TypeInv, TypeOK, Thread, Call, pool, sdk, Busy
<1>7. QED  BY <1>5, <1>6 DEF TypeInv

LEMMA AppendType == ASSUME TypeInv, NEW t \in Threads, AppendStep(t) PROVE TypeInv'
<1>1. ASSUME Busy(t), AppendNoChannel(t) PROVE TypeInv'
  <2>1. opened' = opened  BY <1>1 DEF AppendNoChannel, pool
  <2>2. TypeOK' /\ RetryBudget' /\ ServedSlot'
    BY <1>1, <2>1, EndThread DEF AppendNoChannel, TypeInv, TypeOK, Thread, pool, sdk
  <2>3. QED  BY <2>2 DEF TypeInv
<1>2. ASSUME Busy(t), Append_(t) PROVE TypeInv'
  <2>1. opened' = opened /\ Partition(t) < opened  BY <1>2 DEF Append_, pool
  <2>2. /\ thr' \in [Threads -> Thread]
        /\ \A u \in Threads : Busy(u)' => thr'[u].call \in Calls
        /\ RetryBudget' /\ ServedSlot'
        /\ outcome' \in [Calls -> {"none", "ok", "err"}]
    BY <1>2, <2>1, EndThread, GotoThread DEF Append_, PcValues
  <2>3. buf' \in [Partitions -> Seq(Calls)]
    <3>1. Partition(t) \in Partitions /\ thr[t].call \in Calls  BY <1>2, BusyThread
    <3>2. buf \in [Partitions -> Seq(Calls)]  BY DEF TypeInv, TypeOK
    <3>3. buf' = [buf EXCEPT ![Partition(t)] = Append(@, thr[t].call)]
      BY <1>2 DEF Append_
    <3>4. Append(buf[Partition(t)], thr[t].call) \in Seq(Calls)  BY <3>1, <3>2
    <3>5. QED  BY <3>1, <3>2, <3>3, <3>4
  <2>4. TypeOK'
    BY <1>2, <2>2, <2>3 DEF Append_, TypeInv, TypeOK, Thread, pool
  <2>5. QED  BY <2>2, <2>4 DEF TypeInv
<1>3. ASSUME Busy(t), AppendRecoverable(t) PROVE TypeInv'
  <2>1. opened' = opened  BY <1>3 DEF AppendRecoverable, pool
  <2>2. TypeOK' /\ RetryBudget' /\ ServedSlot'
    BY <1>3, <2>1, HandleThread DEF AppendRecoverable, TypeInv, TypeOK, Thread, pool, sdk
  <2>3. QED  BY <2>2 DEF TypeInv
<1>4. ASSUME Busy(t), AppendFatal(t) PROVE TypeInv'
  <2>1. opened' = opened  BY <1>4 DEF AppendFatal, pool
  <2>2. TypeOK' /\ RetryBudget' /\ ServedSlot'
    BY <1>4, <2>1, EndThread, FaultType DEF AppendFatal, TypeInv, TypeOK, Thread, pool, sdk
  <2>3. QED  BY <2>2 DEF TypeInv
<1>5. Busy(t)
  BY DEF AppendStep, AppendNoChannel, Append_, AppendRecoverable, AppendFatal, Busy
<1>6. QED  BY <1>1, <1>2, <1>3, <1>4, <1>5 DEF AppendStep

LEMMA FlushType == ASSUME TypeInv, NEW t \in Threads, FlushStep(t) PROVE TypeInv'
<1>1. Busy(t) /\ Served(t)
  BY DEF FlushStep, WaitForFlush, FlushDone, FlushTimeout, FlushRecoverable, Busy, Served
<1>2. Partition(t) < opened  BY <1>1 DEF TypeInv, ServedSlot
<1>3. CASE WaitForFlush(t)
  <2> DEFINE r == [thr[t] EXCEPT !.pc = "waiting", !.waitsOn = gen[Partition(t)]]
  <2>1. opened' = opened  BY <1>3 DEF WaitForFlush, pool
  <2>2. thr[t] \in Thread /\ thr[t].call \in Calls /\ Partition(t) \in Partitions
    BY <1>1, BusyThread
  <2>3. gen[Partition(t)] \in Nat  BY <2>2 DEF TypeInv, TypeOK
  <2>4. r \in Thread /\ r.pc = "waiting" /\ r.call = thr[t].call
    BY <2>2, <2>3 DEF Thread, PcValues
  <2>5. ThreadStep(t, r)  BY <1>3, <2>4 DEF WaitForFlush, ThreadStep
  <2> HIDE DEF r
  <2>6. /\ thr' \in [Threads -> Thread]
        /\ \A u \in Threads : Busy(u)' => thr'[u].call \in Calls
        /\ RetryBudget' /\ ServedSlot'
    BY <1>2, <2>1, <2>2, <2>4, <2>5, OneThread DEF Partition
  <2>7. TypeOK'
    BY <1>3, <2>6 DEF WaitForFlush, TypeInv, TypeOK, Thread, pool, sdk
  <2>8. QED  BY <2>6, <2>7 DEF TypeInv
<1>4. CASE FlushDone(t)
  <2>1. opened' = opened  BY <1>4 DEF FlushDone, pool
  <2>2. TypeOK' /\ RetryBudget' /\ ServedSlot'
    BY <1>1, <1>4, <2>1, EndThread DEF FlushDone, TypeInv, TypeOK, Thread, pool, sdk
  <2>3. QED  BY <2>2 DEF TypeInv
<1>5. CASE FlushTimeout(t)
  <2>1. opened' = opened  BY <1>5 DEF FlushTimeout, pool
  <2>2. TypeOK' /\ RetryBudget' /\ ServedSlot'
    BY <1>1, <1>5, <2>1, EndThread, FaultType
       DEF FlushTimeout, TypeInv, TypeOK, Thread, pool, sdk
  <2>3. QED  BY <2>2 DEF TypeInv
<1>6. CASE FlushRecoverable(t)
  <2>1. opened' = opened  BY <1>6 DEF FlushRecoverable, pool
  <2>2. TypeOK' /\ RetryBudget' /\ ServedSlot'
    BY <1>1, <1>2, <1>6, <2>1, HandleThread
       DEF FlushRecoverable, TypeInv, TypeOK, Thread, pool, sdk
  <2>3. QED  BY <2>2 DEF TypeInv
<1>7. QED  BY <1>3, <1>4, <1>5, <1>6 DEF FlushStep

LEMMA RecoverType == ASSUME TypeInv, NEW t \in Threads, RecoverStep(t) PROVE TypeInv'
<1>1. Busy(t) /\ Served(t) /\ (Retrying(t))
  BY DEF RecoverStep, RecoverRefused, RecoverBegin, RecoverClose, RecoverOpen,
         RecoverOpenFail, RecoverEnd, Busy, Served, Retrying, Recovers
<1>2. /\ Partition(t) < opened /\ Partition(t) \in Partitions
      /\ thr[t].attempt < MAX_RECOVERY_ATTEMPTS - 1
  BY <1>1, BusyThread DEF TypeInv, ServedSlot, RetryBudget
<1>3. CASE RecoverRefused(t)
  <2>1. opened' = opened  BY <1>3 DEF RecoverRefused, pool
  <2>2. TypeOK' /\ RetryBudget' /\ ServedSlot'
    BY <1>1, <1>3, <2>1, EndThread DEF RecoverRefused, TypeInv, TypeOK, Thread, pool, sdk
  <2>3. QED  BY <2>2 DEF TypeInv
<1>4. CASE RecoverBegin(t)
  <2>1. opened' = opened  BY <1>4 DEF RecoverBegin
  <2>2. recovering' \subseteq Partitions
    BY <1>2, <1>4 DEF RecoverBegin, TypeInv, TypeOK
  <2>3. Goto(t, "close") /\ "close" \in PcValues  BY <1>4 DEF RecoverBegin, PcValues
  <2>4. TypeOK' /\ RetryBudget' /\ ServedSlot'
    BY <1>1, <1>2, <1>4, <2>1, <2>2, <2>3, GotoThread
       DEF RecoverBegin, TypeInv, TypeOK, Thread, sdk
  <2>5. QED  BY <2>4 DEF TypeInv
<1>5. CASE RecoverClose(t)
  <2>1. opened' = opened  BY <1>5 DEF RecoverClose, pool
  <2>2. Goto(t, "reopen") /\ "reopen" \in PcValues  BY <1>5 DEF RecoverClose, PcValues
  <2>3. /\ chan' \in [Partitions -> {"none", "open", "broken", "closed"}]
        /\ buf' \in [Partitions -> Seq(Calls)]
    <3>1. << >> \in Seq(Calls)  OBVIOUS
    <3>2. QED  BY <3>1, <1>2, <1>5 DEF RecoverClose, TypeInv, TypeOK
  <2>4. TypeOK' /\ RetryBudget' /\ ServedSlot'
    BY <1>1, <1>2, <1>5, <2>1, <2>2, <2>3, GotoThread
       DEF RecoverClose, TypeInv, TypeOK, Thread, pool
  <2>5. QED  BY <2>4 DEF TypeInv
<1>6. CASE RecoverOpen(t)
  <2>1. opened' = opened  BY <1>6 DEF RecoverOpen, pool
  <2>2. Goto(t, "recovered") /\ "recovered" \in PcValues
    BY <1>6 DEF RecoverOpen, PcValues
  <2>3. /\ chan' \in [Partitions -> {"none", "open", "broken", "closed"}]
        /\ gen' \in [Partitions -> Nat]
        /\ buf' \in [Partitions -> Seq(Calls)] /\ table' = table
    <3>1. << >> \in Seq(Calls)  OBVIOUS
    <3>2. QED  BY <3>1, <1>2, <1>6 DEF RecoverOpen, OpenSlot, TypeInv, TypeOK
  <2>4. TypeOK' /\ RetryBudget' /\ ServedSlot'
    BY <1>1, <1>2, <1>6, <2>1, <2>2, <2>3, GotoThread
       DEF RecoverOpen, TypeInv, TypeOK, Thread, pool
  <2>5. QED  BY <2>4 DEF TypeInv
<1>7. CASE RecoverOpenFail(t)
  <2>1. opened' = opened  BY <1>7 DEF RecoverOpenFail, pool
  <2>2. Goto(t, "failed") /\ "failed" \in PcValues
    BY <1>7 DEF RecoverOpenFail, PcValues
  <2>3. faults' \in 0 .. MaxFaults
    BY <1>7, FaultType DEF RecoverOpenFail, TypeInv, TypeOK
  <2>4. TypeOK' /\ RetryBudget' /\ ServedSlot'
    BY <1>1, <1>2, <1>7, <2>1, <2>2, <2>3, GotoThread
       DEF RecoverOpenFail, TypeInv, TypeOK, Thread, pool, sdk
  <2>5. QED  BY <2>4 DEF TypeInv
<1>8. CASE RecoverEnd(t)
  <2>1. opened' = opened  BY <1>8 DEF RecoverEnd
  <2>2. recovering' \subseteq Partitions  BY <1>8 DEF RecoverEnd, TypeInv, TypeOK
  <2>3. CASE thr[t].pc = "recovered"
    <3> DEFINE r == [thr[t] EXCEPT !.pc = "append", !.attempt = @ + 1]
    <3>1. thr[t] \in Thread /\ thr[t].call \in Calls  BY <1>1, BusyThread
    <3>2. thr[t].attempt + 1 \in 0 .. MAX_RECOVERY_ATTEMPTS - 1
      BY <1>2, <3>1 DEF Thread
    <3>3. r \in Thread /\ r.pc = "append" /\ r.call = thr[t].call
      BY <3>1, <3>2 DEF Thread, PcValues
    <3>4. ThreadStep(t, r)  BY <1>8, <2>3, <3>3 DEF RecoverEnd, ThreadStep
    <3> HIDE DEF r
    <3>5. /\ thr' \in [Threads -> Thread]
          /\ \A u \in Threads : Busy(u)' => thr'[u].call \in Calls
          /\ RetryBudget' /\ ServedSlot'
      BY <2>1, <3>1, <3>3, <3>4, OneThread
    <3>6. TypeOK'
      BY <1>8, <2>2, <2>3, <3>5 DEF RecoverEnd, TypeInv, TypeOK, Thread, sdk
    <3>7. QED  BY <3>5, <3>6 DEF TypeInv
  <2>4. CASE thr[t].pc # "recovered"
    <3>1. Raise(t)  BY <1>8, <2>4 DEF RecoverEnd
    <3>2. TypeOK' /\ RetryBudget' /\ ServedSlot'
      BY <1>1, <1>8, <2>1, <2>2, <3>1, EndThread
         DEF RecoverEnd, TypeInv, TypeOK, Thread, sdk
    <3>3. QED  BY <3>2 DEF TypeInv
  <2>5. QED  BY <2>3, <2>4
<1>9. QED  BY <1>3, <1>4, <1>5, <1>6, <1>7, <1>8 DEF RecoverStep

LEMMA SdkType ==
  ASSUME TypeInv, Shutdown \/ \E p \in Partitions : Commit(p) \/ Break(p)
  PROVE  TypeInv'
<1>1. CASE Shutdown
  <2>1. TypeOK'  BY <1>1 DEF Shutdown, TypeInv, TypeOK, Busy, pool
  <2>2. RetryBudget' /\ ServedSlot'
    BY <1>1, ThreadsUntouched DEF Shutdown, TypeInv, TypeOK, pool
  <2>3. QED  BY <2>1, <2>2 DEF TypeInv
<1>2. ASSUME NEW p \in Partitions, Commit(p) PROVE TypeInv'
  <2>1. buf[p] \in Seq(Calls) /\ buf[p] # << >> /\ table[p] \in Seq(Calls)
    BY <1>2 DEF Commit, TypeInv, TypeOK
  <2>2. Head(buf[p]) \in Calls /\ Tail(buf[p]) \in Seq(Calls)  BY <2>1
  <2>3. Append(table[p], Head(buf[p])) \in Seq(Calls)  BY <2>1, <2>2
  <2>4. buf' \in [Partitions -> Seq(Calls)] /\ table' \in [Partitions -> Seq(Calls)]
    BY <1>2, <2>2, <2>3 DEF Commit, TypeInv, TypeOK
  <2>5. TypeOK'  BY <1>2, <2>4 DEF Commit, TypeInv, TypeOK, Busy, pool
  <2>6. RetryBudget' /\ ServedSlot'
    <3>1. thr' = thr /\ opened' = opened  BY <1>2 DEF Commit, pool
    <3>2. opened \in Nat  BY DEF TypeInv, TypeOK
    <3>3. QED  BY <3>1, <3>2, ThreadsUntouched
  <2>7. QED  BY <2>5, <2>6 DEF TypeInv
<1>3. ASSUME NEW p \in Partitions, Break(p) PROVE TypeInv'
  <2>1. TypeOK'
    <3>1. /\ chan' \in [Partitions -> {"none", "open", "broken", "closed"}]
          /\ gen' \in [Partitions -> Nat]
      BY <1>3 DEF Break, TypeInv, TypeOK
    <3>2. << >> \in Seq(Calls)  OBVIOUS
    <3>3. buf' \in [Partitions -> Seq(Calls)]  BY <1>3, <3>2 DEF Break, TypeInv, TypeOK
    <3>4. faults' \in 0 .. MaxFaults  BY <1>3, FaultType DEF Break
    <3>5. QED  BY <1>3, <3>1, <3>3, <3>4 DEF Break, TypeInv, TypeOK, Busy, pool
  <2>2. RetryBudget' /\ ServedSlot'
    BY <1>3, ThreadsUntouched DEF Break, TypeInv, TypeOK, pool
  <2>3. QED  BY <2>1, <2>2 DEF TypeInv
<1>4. QED  BY <1>1, <1>2, <1>3

LEMMA TypeStep == ASSUME TypeInv, [Next]_vars PROVE TypeInv'
<1>1. CASE UNCHANGED vars
  BY <1>1 DEF vars, TypeInv, TypeOK, RetryBudget, ServedSlot, Retrying, Recovers,
              Served, Busy, Partition
<1>2. CASE Next
  BY <1>2, InitializeType, CallType, AppendType, FlushType, RecoverType, SdkType DEF Next
<1>3. QED  BY <1>1, <1>2

\* Every variable keeps its type, whatever fails and however the threads of the
\* pool (vm-ingest/streaming_service.py) interleave; the attempt counter never
\* exceeds the budget of stream_row's loop.
THEOREM TypeCorrect == Spec => []TypeOK
<1>1. Spec => []TypeInv  BY InitType, TypeStep, PTL DEF Spec
<1>2. TypeInv => TypeOK  BY DEF TypeInv
<1>3. QED  BY <1>1, <1>2, PTL

-----------------------------------------------------------------------------
(***************************************************************************)
(* Mutual exclusion of the recoveries.                                     *)
(***************************************************************************)
Actor(t) == Call(t) \/ AppendStep(t) \/ FlushStep(t) \/ RecoverStep(t)

LEMMA OthersKept ==
  ASSUME TypeInv, NEW t \in Threads, Actor(t)
  PROVE  \A u \in Threads : u # t => thr'[u] = thr[u]
<1>1. thr \in [Threads -> Thread]  BY DEF TypeInv, TypeOK, Thread
<1>2. CASE Call(t)  BY <1>1, <1>2 DEF Call
<1>3. CASE AppendStep(t)
  BY <1>1, <1>3 DEF AppendStep, AppendNoChannel, Append_, AppendRecoverable, AppendFatal,
                    HandleRecoverable, Goto, Return, Raise
<1>4. CASE FlushStep(t)
  BY <1>1, <1>4 DEF FlushStep, WaitForFlush, FlushDone, FlushTimeout, FlushRecoverable,
                    HandleRecoverable, Goto, Return, Raise
<1>5. CASE RecoverStep(t)
  BY <1>1, <1>5 DEF RecoverStep, RecoverRefused, RecoverBegin, RecoverClose, RecoverOpen,
                    RecoverOpenFail, RecoverEnd, Goto, Raise
<1>6. QED  BY <1>2, <1>3, <1>4, <1>5 DEF Actor

\* Where a step of thread t leaves t.
LEMMA AfterStep ==
  ASSUME TypeInv, NEW t \in Threads
  PROVE  /\ Return(t) \/ Raise(t) => thr'[t] = Idle
         /\ \A pc : Goto(t, pc) => thr'[t].pc = pc /\ thr'[t].call = thr[t].call
                                   /\ thr'[t].waitsOn = thr[t].waitsOn
         /\ HandleRecoverable(t) =>
              \/ thr'[t] = Idle
              \/ thr'[t].pc = "recover" /\ thr'[t].call = thr[t].call
<1>1. thr \in [Threads -> Thread] /\ thr[t] \in Thread
  BY DEF TypeInv, TypeOK, Thread
<1>2. Return(t) \/ Raise(t) => thr'[t] = Idle  BY <1>1 DEF Return, Raise
<1>3. ASSUME NEW pc, Goto(t, pc)
      PROVE  thr'[t].pc = pc /\ thr'[t].call = thr[t].call /\ thr'[t].waitsOn = thr[t].waitsOn
  BY <1>1, <1>3 DEF Goto, Thread
<1>4. QED  BY <1>2, <1>3 DEF HandleRecoverable

LEMMA Outsider ==
  ASSUME RecoveryExclusive, NEW t \in Threads, ~Recovers(t), ~Recovers(t)',
         \A u \in Threads : u # t => thr'[u] = thr[u], recovering' = recovering
  PROVE  RecoveryExclusive'
<1>1. \A u \in Threads : Recovers(u)' <=> Recovers(u)  BY DEF Recovers
<1>2. \A u \in Threads : Recovers(u) => Partition(u)' = Partition(u)
  BY DEF Partition
<1>3. QED  BY <1>1, <1>2 DEF RecoveryExclusive

LEMMA Insider ==
  ASSUME RecoveryExclusive, NEW t \in Threads, Recovers(t), Recovers(t)',
         thr'[t].call = thr[t].call,
         \A u \in Threads : u # t => thr'[u] = thr[u], recovering' = recovering
  PROVE  RecoveryExclusive'
<1>1. \A u \in Threads : Recovers(u)' <=> Recovers(u)  BY DEF Recovers
<1>2. \A u \in Threads : Partition(u)' = Partition(u)  BY DEF Partition
<1>3. QED  BY <1>1, <1>2 DEF RecoveryExclusive

LEMMA RecoverBeginExclusive ==
  ASSUME TypeInv, RecoveryExclusive, NEW t \in Threads, RecoverBegin(t)
  PROVE  RecoveryExclusive'
<1>1. ~Recovers(t) /\ Goto(t, "close") /\ recovering' = recovering \union {Partition(t)}
      /\ Partition(t) \notin recovering
  BY DEF RecoverBegin, Recovers
<1>2. Recovers(t)' /\ Partition(t)' = Partition(t)
  BY <1>1, AfterStep DEF Recovers, Partition
<1>3. \A u \in Threads : u # t => (Recovers(u)' <=> Recovers(u)) /\ Partition(u)' = Partition(u)
  BY OthersKept DEF Actor, RecoverStep, Recovers, Partition
<1>4. \A u \in Threads : Recovers(u) => Partition(u) # Partition(t)
  BY <1>1 DEF RecoveryExclusive
<1>5. QED  BY <1>1, <1>2, <1>3, <1>4 DEF RecoveryExclusive

LEMMA RecoverEndExclusive ==
  ASSUME TypeInv, RecoveryExclusive, NEW t \in Threads, RecoverEnd(t)
  PROVE  RecoveryExclusive'
<1>1. Recovers(t) /\ recovering' = recovering \ {Partition(t)}
  BY DEF RecoverEnd, Recovers
<1>2. ~Recovers(t)'
  <2>1. thr \in [Threads -> Thread]  BY DEF TypeInv, TypeOK, Thread
  <2>2. CASE thr[t].pc = "recovered"
    BY <2>1, <2>2 DEF RecoverEnd, Recovers, Thread
  <2>3. CASE thr[t].pc # "recovered"
    BY <2>3, AfterStep DEF RecoverEnd, Recovers, Idle
  <2>4. QED  BY <2>2, <2>3
<1>3. \A u \in Threads : u # t => (Recovers(u)' <=> Recovers(u)) /\ Partition(u)' = Partition(u)
  BY OthersKept DEF Actor, RecoverStep, Recovers, Partition
<1>4. \A u \in Threads : u # t /\ Recovers(u) => Partition(u) # Partition(t)
  BY <1>1 DEF RecoveryExclusive
<1>5. QED  BY <1>1, <1>2, <1>3, <1>4 DEF RecoveryExclusive

LEMMA ActorExclusive ==
  ASSUME TypeInv, RecoveryExclusive, NEW t \in Threads, Actor(t)
  PROVE  RecoveryExclusive'
<1>1. \A u \in Threads : u # t => thr'[u] = thr[u]  BY OthersKept
<1>2. ASSUME RecoverBegin(t) \/ RecoverEnd(t) PROVE RecoveryExclusive'
  BY <1>2, RecoverBeginExclusive, RecoverEndExclusive
<1>3. ASSUME RecoverClose(t) \/ RecoverOpen(t) \/ RecoverOpenFail(t) PROVE RecoveryExclusive'
  <2>1. Recovers(t) /\ recovering' = recovering
    BY <1>3 DEF RecoverClose, RecoverOpen, RecoverOpenFail, Recovers, pool
  <2>2. Recovers(t)' /\ thr'[t].call = thr[t].call
    BY <1>3, AfterStep DEF RecoverClose, RecoverOpen, RecoverOpenFail, Recovers
  <2>3. QED  BY <1>1, <2>1, <2>2, Insider
<1>4. ASSUME Call(t) \/ AppendStep(t) \/ FlushStep(t) \/ RecoverRefused(t)
      PROVE  RecoveryExclusive'
  <2>1. ~Recovers(t) /\ recovering' = recovering
    BY <1>4 DEF Call, AppendStep, AppendNoChannel, Append_, AppendRecoverable, AppendFatal,
       FlushStep, WaitForFlush, FlushDone, FlushTimeout, FlushRecoverable, RecoverRefused,
       Recovers, Busy, pool
  <2>2. thr[t] \in Thread /\ thr \in [Threads -> Thread]  BY DEF TypeInv, TypeOK, Thread
  <2>3. CASE Call(t)  BY <1>1, <2>1, <2>2, <2>3, Outsider DEF Call, Recovers
  <2>4. CASE WaitForFlush(t)
    BY <1>1, <2>1, <2>2, <2>4, Outsider DEF WaitForFlush, Recovers, Thread
  <2>5. CASE ~Call(t) /\ ~WaitForFlush(t)
    <3>1. \/ Return(t) \/ Raise(t) \/ HandleRecoverable(t) \/ Goto(t, "flush")
      BY <1>4, <2>5 DEF AppendStep, AppendNoChannel, Append_, AppendRecoverable, AppendFatal,
         FlushStep, FlushDone, FlushTimeout, FlushRecoverable, RecoverRefused
    <3>2. ~Recovers(t)'  BY <3>1, AfterStep DEF Recovers, Idle
    <3>3. QED  BY <1>1, <2>1, <3>2, Outsider
  <2>6. QED  BY <2>3, <2>4, <2>5
<1>5. QED  BY <1>2, <1>3, <1>4 DEF Actor, RecoverStep

LEMMA StillExclusive ==
  ASSUME RecoveryExclusive, thr' = thr, recovering' = recovering
  PROVE  RecoveryExclusive'
BY DEF RecoveryExclusive, Recovers, Partition

\* The lock of _recover_channel does what it is for, for any number of threads:
\* no two of them repair the same partition, and _recovering names exactly the
\* partitions under repair, also after a repair that failed.
THEOREM RecoveryIsExclusive == Spec => []RecoveryExclusive
<1>1. Init => RecoveryExclusive
  BY DEF Init, RecoveryExclusive, Recovers, Idle
<1>2. TypeInv /\ RecoveryExclusive /\ [Next]_vars => RecoveryExclusive'
  <2> SUFFICES ASSUME TypeInv, RecoveryExclusive, [Next]_vars PROVE RecoveryExclusive'
    OBVIOUS
  <2>1. CASE \E t \in Threads : Actor(t)  BY <2>1, ActorExclusive
  <2>2. CASE Initialize
    BY <2>2, StillExclusive DEF Initialize, InitBegin, InitOpen, InitFail, pool
  <2>3. CASE Shutdown \/ \E p \in Partitions : Commit(p) \/ Break(p)
    BY <2>3, StillExclusive DEF Shutdown, Commit, Break, pool
  <2>4. CASE UNCHANGED vars  BY <2>4, StillExclusive DEF vars
  <2>5. QED  BY <2>1, <2>2, <2>3, <2>4 DEF Next, Actor
<1>3. Spec => []TypeInv  BY InitType, TypeStep, PTL DEF Spec
<1>4. QED  BY <1>1, <1>2, <1>3, PTL DEF Spec

-----------------------------------------------------------------------------
(***************************************************************************)
(* What a caller may rely on when no two calls of a partition overlap.     *)
(* The inductive invariant follows the row of a call from the append to    *)
(* the end of its flush: while the channel it was appended to lives, the   *)
(* row is in that channel's buffer or already in the table.                *)
(***************************************************************************)
In(x, s) == \E i \in 1 .. Len(s) : s[i] = x

OneCallPerPartition ==
  \A t, u \in Threads : t # u /\ Busy(t) /\ Busy(u) => Partition(t) # Partition(u)

Kept(t) == In(thr[t].call, table[Partition(t)]) \/ In(thr[t].call, buf[Partition(t)])

RowFollowed ==
  /\ \A t \in Threads : thr[t].pc = "flush" /\ chan[Partition(t)] = "open" => Kept(t)
  /\ \A t \in Threads : thr[t].pc = "waiting" /\ WaitsOnLiveChannel(t) => Kept(t)

AckInv == OneCallPerPartition /\ RowFollowed /\ AckedRowsCommitted

LEMMA InAppend ==
  ASSUME NEW S, NEW s \in Seq(S), NEW e \in S
  PROVE  \A x : In(x, Append(s, e)) <=> In(x, s) \/ x = e
<1>1. /\ Len(Append(s, e)) = Len(s) + 1 /\ Len(s) \in Nat
      /\ \A i \in 1 .. Len(s) : Append(s, e)[i] = s[i]
      /\ Append(s, e)[Len(s) + 1] = e
  OBVIOUS
<1>2. QED  BY <1>1 DEF In

LEMMA InHeadTail ==
  ASSUME NEW S, NEW s \in Seq(S), s # << >>
  PROVE  \A x : In(x, s) => x = Head(s) \/ In(x, Tail(s))
<1>1. /\ Len(Tail(s)) = Len(s) - 1 /\ Len(s) \in Nat
      /\ \A i \in 1 .. Len(Tail(s)) : Tail(s)[i] = s[i + 1]
      /\ Head(s) = s[1]
  OBVIOUS
<1>2. ASSUME NEW x, In(x, s), x # Head(s) PROVE In(x, Tail(s))
  <2>1. PICK i \in 1 .. Len(s) : s[i] = x  BY <1>2 DEF In
  <2>2. i # 1  BY <1>1, <1>2, <2>1
  <2>3. i - 1 \in 1 .. Len(Tail(s)) /\ Tail(s)[i - 1] = x  BY <1>1, <2>1, <2>2
  <2>4. QED  BY <2>3 DEF In
<1>3. QED  BY <1>2

LEMMA InEmpty == \A x : ~In(x, << >>)
BY DEF In

\* Rows are never taken out of the table.
LEMMA TableGrows ==
  ASSUME TypeInv, [Next]_vars
  PROVE  \A p \in Partitions, x \in Calls : In(x, table[p]) => In(x, table'[p])
<1>1. CASE table' = table  BY <1>1
<1>2. ASSUME NEW p \in Partitions, Commit(p)
      PROVE  \A q \in Partitions, x \in Calls : In(x, table[q]) => In(x, table'[q])
  <2>1. /\ buf[p] \in Seq(Calls) /\ table[p] \in Seq(Calls)
        /\ table \in [Partitions -> Seq(Calls)]
        /\ buf[p] # << >>
    BY <1>2 DEF TypeInv, TypeOK, Commit
  <2>2. Head(buf[p]) \in Calls  BY <2>1
  <2>3. table'[p] = Append(table[p], Head(buf[p]))
        /\ \A q \in Partitions : q # p => table'[q] = table[q]
    BY <1>2, <2>1 DEF Commit
  <2>4. \A x : In(x, table[p]) => In(x, table'[p])
    BY <2>1, <2>2, <2>3, InAppend
  <2>5. QED  BY <2>3, <2>4
<1>3. table' = table \/ \E p \in Partitions : Commit(p)
  BY DEF Next, Initialize, InitBegin, InitOpen, InitFail, OpenSlot, Call,
         AppendStep, AppendNoChannel, Append_, AppendRecoverable, AppendFatal,
         FlushStep, WaitForFlush, FlushDone, FlushTimeout, FlushRecoverable,
         RecoverStep, RecoverRefused, RecoverBegin, RecoverClose, RecoverOpen,
         RecoverOpenFail, RecoverEnd, Shutdown, Break, vars, sdk
<1>4. QED  BY <1>1, <1>2, <1>3

\* The SDK moves a row from the buffer to the table; it does not lose it.
LEMMA CommitKeeps ==
  ASSUME TypeInv, NEW p \in Partitions, Commit(p), NEW t \in Threads, Busy(t), Kept(t)
  PROVE  Kept(t)'
<1>1. thr' = thr /\ Partition(t)' = Partition(t) /\ Partition(t) \in Partitions
      /\ thr[t].call \in Calls
  BY BusyThread DEF Commit, Partition
<1>2. /\ buf \in [Partitions -> Seq(Calls)] /\ table \in [Partitions -> Seq(Calls)]
      /\ buf[p] # << >>
  BY DEF TypeInv, TypeOK, Commit
<1>3. /\ buf'[p] = Tail(buf[p]) /\ table'[p] = Append(table[p], Head(buf[p]))
      /\ \A q \in Partitions : q # p => buf'[q] = buf[q] /\ table'[q] = table[q]
  BY <1>2 DEF Commit
<1>4. CASE Partition(t) # p  BY <1>1, <1>3, <1>4 DEF Kept
<1>5. CASE Partition(t) = p
  <2>1. Head(buf[p]) \in Calls  BY <1>2
  <2>2. In(thr[t].call, table'[p]) \/ In(thr[t].call, buf'[p])
    BY <1>2, <1>3, <1>5, <2>1, InAppend, InHeadTail DEF Kept
  <2>3. QED  BY <1>1, <1>5, <2>2 DEF Kept
<1>6. QED  BY <1>4, <1>5

LEMMA SameCall ==
  ASSUME TypeInv, NEW t \in Threads, Actor(t), ~Call(t)
  PROVE  /\ Busy(t)
         /\ Busy(t)' => thr'[t].call = thr[t].call /\ Partition(t)' = Partition(t)
<1>1. thr \in [Threads -> Thread] /\ thr[t] \in Thread  BY DEF TypeInv, TypeOK, Thread
<1>2. Busy(t)
  BY DEF Actor, AppendStep, AppendNoChannel, Append_, AppendRecoverable, AppendFatal,
     FlushStep, WaitForFlush, FlushDone, FlushTimeout, FlushRecoverable,
     RecoverStep, RecoverRefused, RecoverBegin, RecoverClose, RecoverOpen,
     RecoverOpenFail, RecoverEnd, Busy
<1>3. CASE WaitForFlush(t)
  BY <1>1, <1>2, <1>3 DEF WaitForFlush, Partition, Thread
<1>4. CASE RecoverEnd(t) /\ thr[t].pc = "recovered"
  BY <1>1, <1>2, <1>4 DEF RecoverEnd, Partition, Thread
<1>5. CASE ~WaitForFlush(t) /\ ~(RecoverEnd(t) /\ thr[t].pc = "recovered")
  <2>1. \/ Return(t) \/ Raise(t) \/ HandleRecoverable(t) \/ \E pc : Goto(t, pc)
    <3>1. CASE AppendStep(t)
      BY <3>1 DEF AppendStep, AppendNoChannel, Append_, AppendRecoverable, AppendFatal
    <3>2. CASE FlushStep(t)
      BY <3>2, <1>5 DEF FlushStep, FlushDone, FlushTimeout, FlushRecoverable
    <3>3. CASE RecoverStep(t)
      BY <3>3, <1>5 DEF RecoverStep, RecoverRefused, RecoverBegin, RecoverClose, RecoverOpen,
         RecoverOpenFail, RecoverEnd
    <3>4. QED  BY <3>1, <3>2, <3>3 DEF Actor
  <2>2. thr'[t] = Idle \/ thr'[t].call = thr[t].call  BY <2>1, AfterStep
  <2>3. QED  BY <1>2, <2>2 DEF Busy, Idle, Partition
<1>6. QED  BY <1>3, <1>4, <1>5

\* A busy thread touches the SDK state of its own partition only, and nothing
\* but a commit writes the table.
LEMMA SdkLocal ==
  ASSUME TypeInv, NEW t \in Threads, Actor(t)
  PROVE  /\ table' = table
         /\ Call(t) => UNCHANGED sdk
         /\ \A q \in Partitions : q # Partition(t) =>
              chan'[q] = chan[q] /\ gen'[q] = gen[q] /\ buf'[q] = buf[q]
<1>1. /\ chan \in [Partitions -> {"none", "open", "broken", "closed"}]
      /\ gen \in [Partitions -> Nat] /\ buf \in [Partitions -> Seq(Calls)]
  BY DEF TypeInv, TypeOK
<1>2. CASE Call(t)  BY <1>2 DEF Call, sdk
<1>3. CASE AppendStep(t)
  BY <1>1, <1>3 DEF AppendStep, AppendNoChannel, Append_, AppendRecoverable, AppendFatal,
     sdk, Call, Busy
<1>4. CASE FlushStep(t)
  BY <1>4 DEF FlushStep, WaitForFlush, FlushDone, FlushTimeout, FlushRecoverable, sdk,
     Call, Busy
<1>5. CASE RecoverStep(t)
  BY <1>1, <1>5 DEF RecoverStep, RecoverRefused, RecoverBegin, RecoverClose, RecoverOpen,
     RecoverOpenFail, RecoverEnd, OpenSlot, sdk, Call, Busy
<1>6. QED  BY <1>2, <1>3, <1>4, <1>5 DEF Actor

LEMMA OneCallStep ==
  ASSUME TypeInv, ~CallersOverlap, OneCallPerPartition, [Next]_vars
  PROVE  OneCallPerPartition'
<1>1. CASE thr' = thr  BY <1>1 DEF OneCallPerPartition, Busy, Partition
<1>2. ASSUME NEW t \in Threads, Actor(t) PROVE OneCallPerPartition'
  <2>1. \A u \in Threads : u # t => (Busy(u)' <=> Busy(u)) /\ Partition(u)' = Partition(u)
    BY <1>2, OthersKept DEF Busy, Partition
  <2>2. CASE Call(t)
    <3>1. thr \in [Threads -> Thread]  BY DEF TypeInv, TypeOK, Thread
    <3>2. Partition(t)' = PartitionOf[next]  BY <2>2, <3>1 DEF Call, Partition
    <3>3. \A u \in Threads : Busy(u) => Partition(u) # PartitionOf[next]
      BY <2>2 DEF Call
    <3>4. QED  BY <2>1, <3>2, <3>3 DEF OneCallPerPartition
  <2>3. CASE ~Call(t)
    BY <1>2, <2>1, <2>3, SameCall DEF OneCallPerPartition
  <2>4. QED  BY <2>2, <2>3
<1>3. thr' = thr \/ \E t \in Threads : Actor(t)
  BY DEF Next, Actor, Initialize, InitBegin, InitOpen, InitFail, Shutdown, Commit, Break, vars
<1>4. QED  BY <1>1, <1>2, <1>3

\* A step that leaves u and its partition alone keeps u's row.
LEMMA RowUntouched ==
  ASSUME TypeInv, RowFollowed, NEW u \in Threads, Busy(u), thr'[u] = thr[u],
         table' = table,
         LET p == Partition(u)
         IN  chan'[p] = chan[p] /\ gen'[p] = gen[p] /\ buf'[p] = buf[p]
  PROVE  /\ thr'[u].pc = "flush" /\ chan'[Partition(u)'] = "open" => Kept(u)'
         /\ thr'[u].pc = "waiting" /\ WaitsOnLiveChannel(u)' => Kept(u)'
<1>1. Partition(u)' = Partition(u)  BY DEF Partition
<1>2. Kept(u) => Kept(u)'  BY <1>1 DEF Kept
<1>3. WaitsOnLiveChannel(u)' => WaitsOnLiveChannel(u)  BY <1>1 DEF WaitsOnLiveChannel
<1>4. QED  BY <1>1, <1>2, <1>3 DEF RowFollowed

LEMMA RowActor ==
  ASSUME TypeInv, OneCallPerPartition, RowFollowed, NEW t \in Threads, Actor(t)
  PROVE  RowFollowed'
<1>1. ASSUME NEW u \in Threads, u # t
      PROVE  /\ (thr[u].pc = "flush")' /\ (chan[Partition(u)] = "open")' => Kept(u)'
             /\ (thr[u].pc = "waiting")' /\ WaitsOnLiveChannel(u)' => Kept(u)'
  <2>1. thr'[u] = thr[u]  BY <1>1, OthersKept
  <2>2. CASE ~Busy(u)  BY <2>1, <2>2 DEF Busy
  <2>3. CASE Busy(u)
    <3>1. Partition(u) \in Partitions  BY <2>3, BusyThread
    <3>2. table' = table  BY SdkLocal
    <3>3. LET p == Partition(u)
          IN  chan'[p] = chan[p] /\ gen'[p] = gen[p] /\ buf'[p] = buf[p]
      <4>1. CASE Call(t)  BY <4>1, SdkLocal DEF sdk
      <4>2. CASE ~Call(t)
        <5>1. Busy(t)  BY <4>2, SameCall
        <5>2. Partition(t) # Partition(u)  BY <1>1, <2>3, <5>1 DEF OneCallPerPartition
        <5>3. QED  BY <3>1, <5>2, SdkLocal
      <4>3. QED  BY <4>1, <4>2
    <3>4. QED  BY <2>1, <2>3, <3>2, <3>3, RowUntouched
  <2>4. QED  BY <2>2, <2>3
<1>2. ASSUME (thr[t].pc = "flush")' PROVE Kept(t)'
  <2>1. thr \in [Threads -> Thread]  BY DEF TypeInv, TypeOK, Thread
  <2>2. ~Call(t)  BY <1>2, <2>1 DEF Call
  <2>3. ~WaitForFlush(t)  BY <1>2, <2>1 DEF WaitForFlush, Thread
  <2>4. ~(RecoverEnd(t) /\ thr[t].pc = "recovered")  BY <1>2, <2>1 DEF RecoverEnd, Thread
  <2>5. Append_(t)
    <3>1. ~Return(t) /\ ~Raise(t) /\ ~HandleRecoverable(t)
          /\ \A pc : Goto(t, pc) => pc = "flush"
      BY <1>2, AfterStep DEF Idle
    <3>2. CASE AppendStep(t)
      BY <3>1, <3>2 DEF AppendStep, AppendNoChannel, AppendRecoverable, AppendFatal
    <3>3. CASE FlushStep(t)
      BY <3>1, <3>3, <2>3 DEF FlushStep, FlushDone, FlushTimeout, FlushRecoverable
    <3>4. CASE RecoverStep(t)
      BY <3>1, <3>4, <2>4 DEF RecoverStep, RecoverRefused, RecoverBegin, RecoverClose,
         RecoverOpen, RecoverOpenFail, RecoverEnd
    <3>5. QED  BY <2>2, <3>2, <3>3, <3>4 DEF Actor
  <2>6. /\ Busy(t) /\ thr[t].call \in Calls /\ Partition(t) \in Partitions
        /\ thr'[t].call = thr[t].call /\ Partition(t)' = Partition(t)
    BY <1>2, <2>2, SameCall, BusyThread DEF Busy
  <2>7. buf[Partition(t)] \in Seq(Calls)
        /\ buf'[Partition(t)] = Append(buf[Partition(t)], thr[t].call)
    BY <2>5, <2>6 DEF Append_, TypeInv, TypeOK
  <2>8. In(thr[t].call, buf'[Partition(t)])  BY <2>6, <2>7, InAppend
  <2>9. QED  BY <2>6, <2>8 DEF Kept
<1>3. ASSUME (thr[t].pc = "waiting")', WaitsOnLiveChannel(t)' PROVE Kept(t)'
  <2>1. thr \in [Threads -> Thread]  BY DEF TypeInv, TypeOK, Thread
  <2>2. ~Call(t)  BY <1>3, <2>1 DEF Call
  <2>3. ~(RecoverEnd(t) /\ thr[t].pc = "recovered")  BY <1>3, <2>1 DEF RecoverEnd, Thread
  <2>4. WaitForFlush(t)
    <3>1. ~Return(t) /\ ~Raise(t) /\ ~HandleRecoverable(t)
          /\ \A pc : Goto(t, pc) => pc = "waiting"
      BY <1>3, AfterStep DEF Idle
    <3>2. CASE AppendStep(t)
      BY <3>1, <3>2 DEF AppendStep, AppendNoChannel, Append_, AppendRecoverable, AppendFatal
    <3>3. CASE FlushStep(t)
      BY <3>1, <3>3 DEF FlushStep, FlushDone, FlushTimeout, FlushRecoverable
    <3>4. CASE RecoverStep(t)
      BY <3>1, <3>4, <2>3 DEF RecoverStep, RecoverRefused, RecoverBegin, RecoverClose,
         RecoverOpen, RecoverOpenFail, RecoverEnd
    <3>5. QED  BY <2>2, <3>2, <3>3, <3>4 DEF Actor
  <2>5. thr'[t].call = thr[t].call /\ Partition(t)' = Partition(t)
    BY <1>3, <2>2, SameCall DEF Busy
  <2>6. thr[t].pc = "flush" /\ UNCHANGED sdk  BY <2>4 DEF WaitForFlush
  <2>7. chan[Partition(t)] = "open"  BY <1>3, <2>5, <2>6 DEF WaitsOnLiveChannel, sdk
  <2>8. Kept(t)  BY <2>6, <2>7 DEF RowFollowed
  <2>9. QED  BY <2>5, <2>6, <2>8 DEF Kept, sdk
<1>4. QED  BY <1>1, <1>2, <1>3 DEF RowFollowed

LEMMA RowOthers ==
  ASSUME TypeInv, RowFollowed,
         Initialize \/ Shutdown \/ \E p \in Partitions : Commit(p) \/ Break(p)
  PROVE  RowFollowed'
<1> SUFFICES ASSUME NEW u \in Threads, thr'[u].pc \in {"flush", "waiting"}
             PROVE  /\ (thr[u].pc = "flush")' /\ (chan[Partition(u)] = "open")' => Kept(u)'
                    /\ (thr[u].pc = "waiting")' /\ WaitsOnLiveChannel(u)' => Kept(u)'
  BY DEF RowFollowed
<1>1. thr' = thr
  BY DEF Initialize, InitBegin, InitOpen, InitFail, Shutdown, Commit, Break
<1>2. Busy(u) /\ Served(u)  BY <1>1 DEF Busy, Served
<1>3. Partition(u) \in Partitions /\ Partition(u) < opened /\ Partition(u)' = Partition(u)
  BY <1>1, <1>2, BusyThread DEF TypeInv, ServedSlot, Partition
<1>4. /\ chan \in [Partitions -> {"none", "open", "broken", "closed"}]
      /\ gen \in [Partitions -> Nat] /\ buf \in [Partitions -> Seq(Calls)]
  BY DEF TypeInv, TypeOK
<1>5. CASE Initialize
  <2>1. /\ table' = table /\ chan'[Partition(u)] = chan[Partition(u)]
        /\ gen'[Partition(u)] = gen[Partition(u)] /\ buf'[Partition(u)] = buf[Partition(u)]
    <3>1. CASE InitOpen
      <4>1. opened # Partition(u)  BY <1>3 DEF TypeInv, TypeOK, Partitions
      <4>2. OpenSlot(opened)  BY <3>1 DEF InitOpen
      <4>3. QED  BY <1>3, <1>4, <4>1, <4>2 DEF OpenSlot
    <3>2. CASE InitBegin \/ InitFail  BY <3>2 DEF InitBegin, InitFail, sdk
    <3>3. QED  BY <1>5, <3>1, <3>2 DEF Initialize
  <2>2. QED  BY <1>1, <1>2, <2>1, RowUntouched
<1>6. CASE Shutdown
  <2>1. (chan[Partition(u)] # "open")'  BY <1>3, <1>6 DEF Shutdown
  <2>2. QED  BY <2>1 DEF WaitsOnLiveChannel
<1>7. ASSUME NEW p \in Partitions, Commit(p)
      PROVE  /\ (thr[u].pc = "flush")' /\ (chan[Partition(u)] = "open")' => Kept(u)'
             /\ (thr[u].pc = "waiting")' /\ WaitsOnLiveChannel(u)' => Kept(u)'
  <2>1. chan' = chan /\ gen' = gen  BY <1>7 DEF Commit
  <2>2. Kept(u) => Kept(u)'  BY <1>2, <1>7, CommitKeeps
  <2>3. QED  BY <1>1, <1>3, <2>1, <2>2 DEF RowFollowed, WaitsOnLiveChannel
<1>8. ASSUME NEW p \in Partitions, Break(p)
      PROVE  /\ (thr[u].pc = "flush")' /\ (chan[Partition(u)] = "open")' => Kept(u)'
             /\ (thr[u].pc = "waiting")' /\ WaitsOnLiveChannel(u)' => Kept(u)'
  <2>1. CASE Partition(u) = p
    <3>1. (chan[Partition(u)] # "open")'  BY <1>3, <1>4, <1>8, <2>1 DEF Break
    <3>2. QED  BY <3>1 DEF WaitsOnLiveChannel
  <2>2. CASE Partition(u) # p
    <3>1. /\ table' = table /\ chan'[Partition(u)] = chan[Partition(u)]
          /\ gen'[Partition(u)] = gen[Partition(u)] /\ buf'[Partition(u)] = buf[Partition(u)]
      BY <1>3, <1>4, <1>8, <2>2 DEF Break
    <3>2. QED  BY <1>1, <1>2, <3>1, RowUntouched
  <2>3. QED  BY <2>1, <2>2
<1>9. QED  BY <1>5, <1>6, <1>7, <1>8

LEMMA AckStep ==
  ASSUME TypeInv, AckInv, [Next]_vars
  PROVE  AckedRowsCommitted'
<1> SUFFICES ASSUME NEW c \in RowCalls, outcome'[c] = "ok" PROVE In(c, table'[PartitionOf[c]])
  BY DEF AckedRowsCommitted, InTable, In
<1>1. c \in Calls /\ PartitionOf[c] \in Partitions  OBVIOUS
<1>2. CASE outcome[c] = "ok"
  <2>1. In(c, table[PartitionOf[c]])  BY <1>2 DEF AckInv, AckedRowsCommitted, InTable, In
  <2>2. QED  BY <1>1, <2>1, TableGrows
<1>3. CASE outcome[c] # "ok"
  <2>1. outcome \in [Calls -> {"none", "ok", "err"}]  BY DEF TypeInv, TypeOK
  <2>2. outcome' # outcome  BY <1>3
  <2>3. PICK t \in Threads : Actor(t) /\ (Return(t) \/ Raise(t))
    <3>1. ASSUME NEW t \in Threads, AppendStep(t) PROVE Return(t) \/ Raise(t)
      BY <2>2, <3>1 DEF AppendStep, AppendNoChannel, Append_, AppendRecoverable, AppendFatal,
         HandleRecoverable, Goto
    <3>2. ASSUME NEW t \in Threads, FlushStep(t) PROVE Return(t) \/ Raise(t)
      BY <2>2, <3>2 DEF FlushStep, WaitForFlush, FlushDone, FlushTimeout, FlushRecoverable,
         HandleRecoverable, Goto
    <3>3. ASSUME NEW t \in Threads, RecoverStep(t) PROVE Return(t) \/ Raise(t)
      BY <2>2, <3>3 DEF RecoverStep, RecoverRefused, RecoverBegin, RecoverClose, RecoverOpen,
         RecoverOpenFail, RecoverEnd, Goto
    <3>4. ~Initialize /\ ~Shutdown /\ ~ \E p \in Partitions : Commit(p) \/ Break(p)
      BY <2>2 DEF Initialize, InitBegin, InitOpen, InitFail, Shutdown, Commit, Break
    <3>5. \A t \in Threads : ~Call(t)  BY <2>2 DEF Call
    <3>6. Next  BY <2>2 DEF vars
    <3>7. \E t \in Threads : AppendStep(t) \/ FlushStep(t) \/ RecoverStep(t)
      BY <3>4, <3>5, <3>6 DEF Next
    <3>8. QED  BY <3>1, <3>2, <3>3, <3>7 DEF Actor
  <2>4. ~Call(t)  BY <2>2 DEF Call
  <2>5. thr[t].call \in Calls  BY <2>3, <2>4, SameCall, BusyThread
  <2>6. Return(t) /\ thr[t].call = c  BY <1>1, <1>3, <2>1, <2>3, <2>5 DEF Return, Raise
  <2>7. ~Raise(t) /\ ~HandleRecoverable(t) /\ \A pc : ~Goto(t, pc)
    BY <2>1, <2>2, <2>5, <2>6, <1>1 DEF Return, Raise, HandleRecoverable, Goto
  <2>8. ~Append_(t)
    BY <2>6, <2>7 DEF Append_
  <2>9. FlushDone(t)
    <3>1. CASE AppendStep(t)
      BY <2>7, <2>8, <3>1 DEF AppendStep, AppendNoChannel, AppendRecoverable, AppendFatal
    <3>2. CASE FlushStep(t)
      BY <2>2, <2>7, <3>2 DEF FlushStep, WaitForFlush, FlushTimeout, FlushRecoverable
    <3>3. CASE RecoverStep(t)
      BY <2>2, <2>7, <3>3 DEF RecoverStep, RecoverRefused, RecoverBegin, RecoverClose,
         RecoverOpen, RecoverOpenFail, RecoverEnd
    <3>4. QED  BY <2>3, <2>4, <3>1, <3>2, <3>3 DEF Actor
  <2>10. Kept(t) /\ buf[Partition(t)] = << >> /\ table' = table
    BY <2>9 DEF FlushDone, AckInv, RowFollowed, sdk
  <2>11. In(c, table[PartitionOf[c]])
    BY <2>6, <2>10, InEmpty DEF Kept, Partition
  <2>12. QED  BY <2>10, <2>11
<1>4. QED  BY <1>2, <1>3

\* stream_row's promise to "append a single row and wait for HPA commit": while
\* the calls of a partition do not overlap, a row whose call returned is in the
\* table, through any number of broken channels, recoveries and retries.
THEOREM AckedRowsAreCommitted ==
  ASSUME ~CallersOverlap
  PROVE  Spec => []AckedRowsCommitted
<1>1. Init => AckInv
  BY DEF Init, AckInv, OneCallPerPartition, RowFollowed, AckedRowsCommitted, Busy, Idle
<1>2. TypeInv /\ AckInv /\ [Next]_vars => AckInv'
  <2> SUFFICES ASSUME TypeInv, AckInv, [Next]_vars PROVE AckInv'  OBVIOUS
  <2>1. OneCallPerPartition'  BY OneCallStep DEF AckInv
  <2>2. RowFollowed'
    <3>1. CASE \E t \in Threads : Actor(t)  BY <3>1, RowActor DEF AckInv
    <3>2. CASE Initialize \/ Shutdown \/ \E p \in Partitions : Commit(p) \/ Break(p)
      BY <3>2, RowOthers DEF AckInv
    <3>3. CASE UNCHANGED vars
      BY <3>3 DEF AckInv, RowFollowed, Kept, WaitsOnLiveChannel, Partition, vars
    <3>4. QED  BY <3>1, <3>2, <3>3 DEF Next, Actor
  <2>3. AckedRowsCommitted'  BY AckStep
  <2>4. QED  BY <2>1, <2>2, <2>3 DEF AckInv
<1>3. AckInv => AckedRowsCommitted  BY DEF AckInv
<1>4. Spec => []TypeInv  BY InitType, TypeStep, PTL DEF Spec
<1>5. QED  BY <1>1, <1>2, <1>3, <1>4, PTL DEF Spec

-----------------------------------------------------------------------------
(***************************************************************************)
(* The order of the rows of a partition.  The table followed by the buffer *)
(* of the live channel is sorted, and bounded by the call that is running: *)
(* a retry appends the newest call of its partition once more.             *)
(***************************************************************************)
Sorted(s) == \A i, j \in 1 .. Len(s) : i <= j => s[i] <= s[j]
Below(s, n) == \A i \in 1 .. Len(s) : s[i] <= n
Before(s, b) == \A i \in 1 .. Len(s) : \A j \in 1 .. Len(b) : s[i] <= b[j]

LogOrdered(p) == Sorted(table[p]) /\ Sorted(buf[p]) /\ Before(table[p], buf[p])
LogBelow(p, n) == Below(table[p], n) /\ Below(buf[p], n)

OrderInv ==
  /\ OneCallPerPartition
  /\ \A p \in Partitions : LogOrdered(p) /\ LogBelow(p, next - 1)
  /\ \A t \in Threads : Busy(t) => thr[t].call < next /\ LogBelow(Partition(t), thr[t].call)

LEMMA AppendOrder ==
  ASSUME NEW s \in Seq(Calls), NEW b \in Seq(Calls), NEW c \in Calls,
         Sorted(b), Before(s, b), Below(s, c), Below(b, c)
  PROVE  /\ Sorted(Append(b, c)) /\ Before(s, Append(b, c))
         /\ \A n \in Int : Below(b, n) /\ c <= n => Below(Append(b, c), n)
<1>1. /\ Len(Append(b, c)) = Len(b) + 1 /\ Len(b) \in Nat
      /\ \A i \in 1 .. Len(b) : Append(b, c)[i] = b[i] /\ b[i] \in Calls
      /\ Append(b, c)[Len(b) + 1] = c
  OBVIOUS
<1>2. \A x \in Calls : x \in Int  BY DEF Calls
<1>3. Sorted(Append(b, c))
  <2> SUFFICES ASSUME NEW i \in 1 .. Len(b) + 1, NEW j \in 1 .. Len(b) + 1, i <= j
               PROVE  Append(b, c)[i] <= Append(b, c)[j]
    BY <1>1 DEF Sorted
  <2>1. CASE j = Len(b) + 1  BY <1>1, <1>2, <2>1 DEF Below
  <2>2. CASE j # Len(b) + 1  BY <1>1, <2>2 DEF Sorted
  <2>3. QED  BY <2>1, <2>2
<1>4. Before(s, Append(b, c))  BY <1>1 DEF Before, Below
<1>5. ASSUME NEW n \in Int, Below(b, n), c <= n PROVE Below(Append(b, c), n)
  BY <1>1, <1>5 DEF Below
<1>6. QED  BY <1>3, <1>4, <1>5

LEMMA CommitOrder ==
  ASSUME NEW s \in Seq(Calls), NEW b \in Seq(Calls), b # << >>,
         Sorted(s), Sorted(b), Before(s, b)
  PROVE  /\ Sorted(Append(s, Head(b))) /\ Sorted(Tail(b)) /\ Before(Append(s, Head(b)), Tail(b))
         /\ \A n \in Int : Below(s, n) /\ Below(b, n)
                            => Below(Append(s, Head(b)), n) /\ Below(Tail(b), n)
<1>1. /\ Len(Tail(b)) = Len(b) - 1 /\ Len(b) \in Nat \ {0}
      /\ \A i \in 1 .. Len(b) - 1 : Tail(b)[i] = b[i + 1]
      /\ Head(b) = b[1] /\ Head(b) \in Calls /\ Tail(b) \in Seq(Calls)
  OBVIOUS
<1>2. \A j \in 1 .. Len(b) : b[1] <= b[j]  BY <1>1 DEF Sorted
<1>3. Below(s, Head(b))  BY <1>1 DEF Before, Below
<1>4. /\ Len(Append(s, Head(b))) = Len(s) + 1 /\ Len(s) \in Nat
      /\ \A i \in 1 .. Len(s) : Append(s, Head(b))[i] = s[i]
      /\ Append(s, Head(b))[Len(s) + 1] = Head(b)
  BY <1>1
<1>5. Sorted(Append(s, Head(b)))
  <2>1. \A x \in Calls : x <= x  BY DEF Calls
  <2> SUFFICES ASSUME NEW i \in 1 .. Len(s) + 1, NEW j \in 1 .. Len(s) + 1, i <= j
               PROVE  Append(s, Head(b))[i] <= Append(s, Head(b))[j]
    BY <1>4 DEF Sorted
  <2>2. CASE j = Len(s) + 1  BY <1>1, <1>3, <1>4, <2>1, <2>2 DEF Below
  <2>3. CASE j # Len(s) + 1  BY <1>4, <2>3 DEF Sorted
  <2>4. QED  BY <2>2, <2>3
<1>6. Sorted(Tail(b))
  <2> SUFFICES ASSUME NEW i \in 1 .. Len(b) - 1, NEW j \in 1 .. Len(b) - 1, i <= j
               PROVE  Tail(b)[i] <= Tail(b)[j]
    BY <1>1 DEF Sorted
  <2>1. i + 1 \in 1 .. Len(b) /\ j + 1 \in 1 .. Len(b) /\ i + 1 <= j + 1  BY <1>1
  <2>2. b[i + 1] <= b[j + 1]  BY <2>1 DEF Sorted
  <2>3. QED  BY <1>1, <2>2
<1>7. Before(Append(s, Head(b)), Tail(b))
  <2> SUFFICES ASSUME NEW i \in 1 .. Len(s) + 1, NEW j \in 1 .. Len(b) - 1
               PROVE  Append(s, Head(b))[i] <= Tail(b)[j]
    BY <1>1, <1>4 DEF Before
  <2>1. Tail(b)[j] = b[j + 1] /\ j + 1 \in 1 .. Len(b)  BY <1>1
  <2>2. CASE i = Len(s) + 1  BY <1>1, <1>2, <1>4, <2>1, <2>2
  <2>3. CASE i # Len(s) + 1  BY <1>4, <2>1, <2>3 DEF Before
  <2>4. QED  BY <2>2, <2>3
<1>8. ASSUME NEW n \in Int, Below(s, n), Below(b, n)
      PROVE  Below(Append(s, Head(b)), n) /\ Below(Tail(b), n)
  <2>1. Below(Append(s, Head(b)), n)  BY <1>1, <1>4, <1>8 DEF Below
  <2>2. \A j \in 1 .. Len(b) - 1 : j + 1 \in 1 .. Len(b)  BY <1>1
  <2>3. Below(Tail(b), n)  BY <1>1, <1>8, <2>2 DEF Below
  <2>4. QED  BY <2>1, <2>3
<1>9. QED  BY <1>5, <1>6, <1>7, <1>8

LEMMA EmptyOrder ==
  ASSUME NEW s, NEW n
  PROVE  Sorted(<< >>) /\ Below(<< >>, n) /\ Before(s, << >>)
BY DEF Sorted, Below, Before

\* What a step can do to the rows of one partition.
LEMMA LogEffect ==
  ASSUME TypeInv, [Next]_vars, NEW p \in Partitions
  PROVE  \/ table'[p] = table[p] /\ (buf'[p] = buf[p] \/ buf'[p] = << >>)
         \/ Commit(p)
         \/ \E t \in Threads : Append_(t) /\ Partition(t) = p
<1>1. table \in [Partitions -> Seq(Calls)] /\ buf \in [Partitions -> Seq(Calls)]
  BY DEF TypeInv, TypeOK
<1>2. CASE Initialize
  BY <1>1, <1>2 DEF Initialize, InitBegin, InitOpen, InitFail, OpenSlot, sdk
<1>3. ASSUME NEW t \in Threads, Actor(t), ~Append_(t)
      PROVE  table'[p] = table[p] /\ (buf'[p] = buf[p] \/ buf'[p] = << >>)
  BY <1>1, <1>3 DEF Actor, Call, AppendStep, AppendNoChannel, AppendRecoverable, AppendFatal,
     FlushStep, WaitForFlush, FlushDone, FlushTimeout, FlushRecoverable,
     RecoverStep, RecoverRefused, RecoverBegin, RecoverClose, RecoverOpen,
     RecoverOpenFail, RecoverEnd, OpenSlot, sdk
<1>4. ASSUME NEW t \in Threads, Append_(t), Partition(t) # p
      PROVE  table'[p] = table[p] /\ buf'[p] = buf[p]
  BY <1>1, <1>4 DEF Append_
<1>5. CASE Shutdown  BY <1>5 DEF Shutdown
<1>6. ASSUME NEW q \in Partitions, Commit(q) \/ Break(q), q # p
      PROVE  table'[p] = table[p] /\ buf'[p] = buf[p]
  BY <1>1, <1>6 DEF Commit, Break
<1>7. ASSUME Break(p) PROVE table'[p] = table[p] /\ buf'[p] = << >>
  BY <1>1, <1>7 DEF Break
<1>8. CASE UNCHANGED vars  BY <1>8 DEF vars
<1>9. QED  BY <1>2, <1>3, <1>4, <1>5, <1>6, <1>7, <1>8 DEF Next, Actor

LEMMA LogStep ==
  ASSUME TypeInv, OrderInv, [Next]_vars, NEW p \in Partitions, NEW n \in Int, LogBelow(p, n),
         \A t \in Threads : Append_(t) /\ Partition(t) = p => thr[t].call <= n
  PROVE  LogOrdered(p)' /\ Below(table'[p], n) /\ Below(buf'[p], n)
<1>1. table[p] \in Seq(Calls) /\ buf[p] \in Seq(Calls) /\ LogOrdered(p)
  BY DEF TypeInv, TypeOK, OrderInv
<1>2. CASE table'[p] = table[p] /\ (buf'[p] = buf[p] \/ buf'[p] = << >>)
  BY <1>1, <1>2, EmptyOrder DEF LogOrdered, LogBelow
<1>3. CASE Commit(p)
  <2>1. /\ buf[p] # << >> /\ buf'[p] = Tail(buf[p])
        /\ table'[p] = Append(table[p], Head(buf[p]))
    BY <1>3 DEF Commit, TypeInv, TypeOK
  <2>2. QED  BY <1>1, <2>1, CommitOrder DEF LogOrdered, LogBelow
<1>4. ASSUME NEW t \in Threads, Append_(t), Partition(t) = p
      PROVE  LogOrdered(p)' /\ Below(table'[p], n) /\ Below(buf'[p], n)
  <2>1. Busy(t)  BY <1>4 DEF Append_, Busy
  <2>2. thr[t].call \in Calls /\ LogBelow(p, thr[t].call)
    BY <1>4, <2>1, BusyThread DEF OrderInv
  <2>3. table'[p] = table[p] /\ buf'[p] = Append(buf[p], thr[t].call)
    BY <1>4 DEF Append_, TypeInv, TypeOK
  <2>4. QED  BY <1>1, <1>4, <2>2, <2>3, AppendOrder DEF LogOrdered, LogBelow
<1>5. QED  BY <1>2, <1>3, <1>4, LogEffect

LEMMA NextGrows ==
  ASSUME TypeInv, [Next]_vars
  PROVE  /\ next \in Int
         /\ next' = next \/ next' = next + 1
         /\ \A t \in Threads : Call(t) => next' = next + 1
<1>1. next \in Int  BY DEF TypeInv, TypeOK
<1>2. \A t \in Threads : Call(t) => next' = next + 1  BY DEF Call
<1>3. ASSUME Initialize PROVE next' = next
  BY <1>3 DEF Initialize, InitBegin, InitOpen, InitFail
<1>4. ASSUME NEW t \in Threads, AppendStep(t) PROVE next' = next
  BY <1>4 DEF AppendStep, AppendNoChannel, Append_, AppendRecoverable, AppendFatal
<1>5. ASSUME NEW t \in Threads, FlushStep(t) PROVE next' = next
  BY <1>5 DEF FlushStep, WaitForFlush, FlushDone, FlushTimeout, FlushRecoverable
<1>6. ASSUME NEW t \in Threads, RecoverStep(t) PROVE next' = next
  BY <1>6 DEF RecoverStep, RecoverRefused, RecoverBegin, RecoverClose, RecoverOpen,
     RecoverOpenFail, RecoverEnd
<1>7. ASSUME Shutdown PROVE next' = next  BY <1>7 DEF Shutdown
<1>8. ASSUME NEW p \in Partitions, Commit(p) \/ Break(p) PROVE next' = next
  BY <1>8 DEF Commit, Break
<1>9. ASSUME UNCHANGED vars PROVE next' = next  BY <1>9 DEF vars
<1>10. next' = next \/ next' = next + 1
  BY <1>2, <1>3, <1>4, <1>5, <1>6, <1>7, <1>8, <1>9 DEF Next
<1>11. QED  BY <1>1, <1>2, <1>10

LEMMA BelowWeaker ==
  ASSUME NEW s \in Seq(Calls), NEW m \in Int, NEW n \in Int, m <= n, Below(s, m)
  PROVE  Below(s, n)
<1>1. \A i \in 1 .. Len(s) : s[i] \in Int  BY DEF Calls
<1>2. QED  BY <1>1 DEF Below

LEMMA BusyBefore ==
  ASSUME TypeInv, [Next]_vars, NEW u \in Threads, Busy(u)'
  PROVE  \/ Call(u) \/ /\ Busy(u) /\ thr'[u].call = thr[u].call
                       /\ Partition(u)' = Partition(u)
<1>1. CASE thr'[u] = thr[u]  BY <1>1 DEF Busy, Partition
<1>2. CASE Actor(u) /\ ~Call(u)  BY <1>2, SameCall
<1>3. ASSUME NEW t \in Threads, Actor(t), t # u PROVE thr'[u] = thr[u]
  BY <1>3, OthersKept
<1>4. CASE thr' = thr  BY <1>1, <1>4
<1>5. thr' = thr \/ \E t \in Threads : Actor(t)
  BY DEF Next, Actor, Initialize, InitBegin, InitOpen, InitFail, Shutdown, Commit, Break, vars
<1>6. QED  BY <1>1, <1>2, <1>3, <1>4, <1>5

LEMMA OrderStep ==
  ASSUME TypeInv, ~CallersOverlap, OrderInv, [Next]_vars
  PROVE  OrderInv'
<1>1. OneCallPerPartition'  BY OneCallStep DEF OrderInv
<1>2. next \in Int /\ next' \in Int /\ next <= next'  BY NextGrows
<1>3. /\ table' \in [Partitions -> Seq(Calls)] /\ buf' \in [Partitions -> Seq(Calls)]
      /\ thr' \in [Threads -> Thread]
  BY TypeStep DEF TypeInv, TypeOK, Thread
<1>4. ASSUME NEW p \in Partitions
      PROVE  LogOrdered(p)' /\ Below(table'[p], next - 1) /\ Below(buf'[p], next - 1)
  <2>1. LogBelow(p, next - 1)  BY DEF OrderInv
  <2>2. \A t \in Threads : Append_(t) => thr[t].call <= next - 1
    <3>1. ASSUME NEW t \in Threads, Append_(t) PROVE thr[t].call < next /\ thr[t].call \in Int
      BY <3>1, BusyThread DEF OrderInv, Append_, Busy, Calls
    <3>2. QED  BY <1>2, <3>1
  <2>3. QED  BY <1>2, <2>1, <2>2, LogStep
<1>5. ASSUME NEW p \in Partitions PROVE (LogBelow(p, next - 1))'
  <2> DEFINE m == next - 1
             n == next' - 1
  <2>1. m \in Int /\ n \in Int /\ m <= n
    <3>1. \A a, b \in Int : a <= b => a - 1 \in Int /\ b - 1 \in Int /\ a - 1 <= b - 1
      OBVIOUS
    <3>2. QED  BY <1>2, <3>1
  <2>2. Below(table'[p], m) /\ Below(buf'[p], m)  BY <1>4
  <2>3. table'[p] \in Seq(Calls) /\ buf'[p] \in Seq(Calls)  BY <1>3
  <2> HIDE DEF m, n
  <2>4. Below(table'[p], n) /\ Below(buf'[p], n)  BY <2>1, <2>2, <2>3, BelowWeaker
  <2>5. QED  BY <2>4 DEF LogBelow, n
<1>6. ASSUME NEW u \in Threads, Busy(u)'
      PROVE  thr'[u].call < next' /\ (LogBelow(Partition(u), thr[u].call))'
  <2>1. Partition(u)' \in Partitions /\ thr'[u].call \in Int
    <3>1. TypeInv'  BY TypeStep
    <3>2. thr'[u].call \in Calls  BY <1>6, <3>1 DEF TypeInv, TypeOK
    <3>3. QED  BY <3>2 DEF Partition, Calls
  <2>2. CASE Call(u)
    <3>1. thr'[u].call = next /\ next' = next + 1
      BY <2>2, NextGrows DEF Call, TypeInv, TypeOK
    <3>2. Below(table'[Partition(u)'], next) /\ Below(buf'[Partition(u)'], next)
      BY <1>2, <1>3, <1>4, <2>1, BelowWeaker
    <3>3. QED  BY <1>2, <3>1, <3>2 DEF LogBelow
  <2>3. CASE Busy(u) /\ thr'[u].call = thr[u].call /\ Partition(u)' = Partition(u)
    <3>1. LogBelow(Partition(u), thr[u].call) /\ thr[u].call < next
      BY <2>3 DEF OrderInv
    <3>2. \A t \in Threads : Append_(t) /\ Partition(t) = Partition(u) => t = u
      BY <2>3 DEF OrderInv, OneCallPerPartition, Append_, Busy
    <3>3. thr[u].call <= thr[u].call  BY <2>1, <2>3
    <3>4. Below(table'[Partition(u)], thr[u].call) /\ Below(buf'[Partition(u)], thr[u].call)
      BY <2>1, <2>3, <3>1, <3>2, <3>3, LogStep
    <3>5. QED  BY <1>2, <2>1, <2>3, <3>1, <3>4 DEF LogBelow
  <2>4. QED  BY <1>6, <2>2, <2>3, BusyBefore
<1>7. QED  BY <1>1, <1>4, <1>5, <1>6 DEF OrderInv

\* "Per-position ordering" (streaming_service.py): while the calls of a partition
\* do not overlap, its rows reach the table in the order of the calls, although
\* calls fail, time out with their rows still buffered, and are retried.
THEOREM PartitionIsOrdered ==
  ASSUME ~CallersOverlap
  PROVE  Spec => []PartitionOrder
<1>1. Init => OrderInv
  <2> SUFFICES ASSUME Init PROVE OrderInv  OBVIOUS
  <2>1. \A t \in Threads : ~Busy(t)  BY DEF Init, Busy, Idle
  <2>2. \A p \in Partitions : table[p] = << >> /\ buf[p] = << >>  BY DEF Init
  <2>3. QED  BY <2>1, <2>2, EmptyOrder DEF OrderInv, OneCallPerPartition, LogOrdered, LogBelow
<1>2. TypeInv /\ OrderInv /\ [Next]_vars => OrderInv'  BY OrderStep
<1>3. OrderInv => PartitionOrder
  BY DEF OrderInv, LogOrdered, Sorted, PartitionOrder
<1>4. Spec => []TypeInv  BY InitType, TypeStep, PTL DEF Spec
<1>5. QED  BY <1>1, <1>2, <1>3, <1>4, PTL DEF Spec

-----------------------------------------------------------------------------
(***************************************************************************)
(* How often the rows of a call are in a log.                              *)
(***************************************************************************)
Where(x, s) == { i \in 1 .. Len(s) : s[i] = x }
Count(x, s) == Cardinality(Where(x, s))

LEMMA CountAppend ==
  ASSUME NEW S, NEW s \in Seq(S), NEW e \in S, NEW x
  PROVE  /\ IsFiniteSet(Where(x, s)) /\ Count(x, s) \in Nat
         /\ Count(x, Append(s, e)) = Count(x, s) + (IF e = x THEN 1 ELSE 0)
<1>1. /\ Len(Append(s, e)) = Len(s) + 1 /\ Len(s) \in Nat
      /\ \A i \in 1 .. Len(s) : Append(s, e)[i] = s[i]
      /\ Append(s, e)[Len(s) + 1] = e
  OBVIOUS
<1>2. IsFiniteSet(Where(x, s))
  <2>1. IsFiniteSet(1 .. Len(s))  BY <1>1, FS_Interval
  <2>2. Where(x, s) \in SUBSET (1 .. Len(s))  BY DEF Where
  <2>3. QED  BY <2>1, <2>2, FS_Subset
<1>3. Count(x, s) \in Nat  BY <1>2, FS_CardinalityType DEF Count
<1>4. CASE e = x
  <2>1. Where(x, Append(s, e)) = Where(x, s) \union {Len(s) + 1}
    BY <1>1, <1>4 DEF Where
  <2>2. Len(s) + 1 \notin Where(x, s)  BY <1>1 DEF Where
  <2>3. QED  BY <1>2, <1>3, <1>4, <2>1, <2>2, FS_AddElement DEF Count
<1>5. CASE e # x
  <2>1. Where(x, Append(s, e)) = Where(x, s)  BY <1>1, <1>5 DEF Where
  <2>2. QED  BY <1>2, <1>3, <1>5, <2>1 DEF Count
<1>6. QED  BY <1>4, <1>5

LEMMA CountTail ==
  ASSUME NEW S, NEW s \in Seq(S), s # << >>, NEW x
  PROVE  /\ Count(x, s) \in Nat
         /\ Count(x, Tail(s)) \in Nat
         /\ Count(x, Tail(s)) <= Count(x, s) - (IF Head(s) = x THEN 1 ELSE 0)
<1>1. /\ Len(Tail(s)) = Len(s) - 1 /\ Len(s) \in Nat /\ Tail(s) \in Seq(S)
      /\ \A i \in 1 .. Len(Tail(s)) : Tail(s)[i] = s[i + 1]
      /\ Head(s) = s[1] /\ Head(s) \in S /\ 1 \in 1 .. Len(s)
  OBVIOUS
<1> DEFINE T == Where(x, Tail(s))
           W == Where(x, s) \ {1}
           f == [i \in T |-> i + 1]
<1>2. IsFiniteSet(Where(x, s)) /\ Count(x, s) \in Nat /\ Count(x, Tail(s)) \in Nat
  BY <1>1, CountAppend
<1>3. IsFiniteSet(W) /\ Cardinality(W) = Count(x, s) - (IF Head(s) = x THEN 1 ELSE 0)
  <2>1. 1 \in Where(x, s) <=> Head(s) = x  BY <1>1 DEF Where
  <2>2. /\ IsFiniteSet(W)
        /\ Cardinality(W) = IF 1 \in Where(x, s) THEN Count(x, s) - 1 ELSE Count(x, s)
    BY <1>2, FS_RemoveElement DEF Count
  <2> HIDE DEF W
  <2>3. QED  BY <1>2, <2>1, <2>2
<1>4. f \in Injection(T, W)
  <2>1. \A i \in T : i \in Int /\ i + 1 \in W  BY <1>1 DEF Where
  <2>2. \A i, j \in T : f[i] = f[j] => i = j  BY <2>1
  <2>3. f \in [T -> W]  BY <2>1
  <2>4. QED  BY <2>2, <2>3 DEF Injection, IsInjective
<1> HIDE DEF f, W
<1>5. Cardinality(T) <= Cardinality(W)  BY <1>3, <1>4, FS_Injection
<1>6. QED  BY <1>2, <1>3, <1>5 DEF Count

LEMMA CountNone ==
  ASSUME NEW x, NEW s
  PROVE  /\ ~In(x, s) => Count(x, s) = 0
         /\ Count(x, << >>) = 0
<1>1. ASSUME NEW b, ~In(x, b) PROVE Count(x, b) = 0
  <2>1. Where(x, b) = {}  BY <1>1 DEF In, Where
  <2>2. QED  BY <2>1, FS_EmptySet DEF Count
<1>2. ~In(x, << >>)  BY InEmpty
<1>3. Count(x, << >>) = 0  BY <1>1, <1>2
<1>4. ~In(x, s) => Count(x, s) = 0  BY <1>1
<1>5. QED  BY <1>3, <1>4

LEMMA CountHead ==
  ASSUME NEW S, NEW s \in Seq(S), s # << >>
  PROVE  Count(Head(s), s) \in Nat /\ Count(Head(s), s) >= 1
<1>1. Count(Head(s), s) \in Nat /\ Count(Head(s), Tail(s)) \in Nat
      /\ Count(Head(s), Tail(s)) <= Count(Head(s), s) - 1
  BY CountTail
<1>2. QED  BY <1>1

(***************************************************************************)
(* The pool implements StreamContract.  Beside the order of the rows, the  *)
(* invariant says that a row is in the log of its partition, that a call   *)
(* has no outcome before it ends, and that a call has at most one row for  *)
(* each append it has behind it.                                           *)
(***************************************************************************)
Routed ==
  \A p \in Partitions, c \in Calls :
    In(c, table[p]) \/ In(c, buf[p]) => PartitionOf[c] = p

OutcomeOpen ==
  /\ \A t \in Threads : Busy(t) => outcome[thr[t].call] = "none"
  /\ \A c \in Calls : c >= next => outcome[c] = "none"

Logged(c) == Count(c, table[PartitionOf[c]]) + Count(c, buf[PartitionOf[c]])

\* The appends that the call of t has behind it, if each of them succeeded.
Appends(t) == thr[t].attempt + (IF thr[t].pc = "append" THEN 0 ELSE 1)

CopiesBounded ==
  /\ \A c \in Calls : Logged(c) <= MAX_RECOVERY_ATTEMPTS
  /\ \A t \in Threads : Busy(t) => Logged(thr[t].call) <= Appends(t)

ContractInv == AckInv /\ OrderInv /\ Routed /\ OutcomeOpen /\ CopiesBounded

LEMMA RoutedStep ==
  ASSUME TypeInv, Routed, [Next]_vars
  PROVE  Routed'
<1> SUFFICES ASSUME NEW p \in Partitions, NEW c \in Calls,
                    In(c, table'[p]) \/ In(c, buf'[p])
             PROVE  PartitionOf[c] = p
  BY DEF Routed
<1>1. table[p] \in Seq(Calls) /\ buf[p] \in Seq(Calls)  BY DEF TypeInv, TypeOK
<1>2. In(c, table[p]) \/ In(c, buf[p]) => PartitionOf[c] = p  BY DEF Routed
<1>3. CASE table'[p] = table[p] /\ (buf'[p] = buf[p] \/ buf'[p] = << >>)
  BY <1>2, <1>3, InEmpty
<1>4. CASE Commit(p)
  <2>1. /\ buf[p] # << >> /\ buf'[p] = Tail(buf[p])
        /\ table'[p] = Append(table[p], Head(buf[p]))
    BY <1>4 DEF Commit, TypeInv, TypeOK
  <2>2. Head(buf[p]) \in Calls /\ In(Head(buf[p]), buf[p])
    BY <1>1, <2>1 DEF In
  <2>3. In(c, Tail(buf[p])) => In(c, buf[p])
    <3>1. \A i \in 1 .. Len(Tail(buf[p])) :
            i + 1 \in 1 .. Len(buf[p]) /\ Tail(buf[p])[i] = buf[p][i + 1]
      BY <1>1, <2>1
    <3>2. QED  BY <3>1 DEF In
  <2>4. QED  BY <1>1, <1>2, <2>1, <2>2, <2>3, InAppend
<1>5. ASSUME NEW t \in Threads, Append_(t), Partition(t) = p
      PROVE  PartitionOf[c] = p
  <2>1. Busy(t) /\ thr[t].call \in Calls  BY <1>5, BusyThread DEF Append_, Busy
  <2>2. table'[p] = table[p] /\ buf'[p] = Append(buf[p], thr[t].call)
    BY <1>5 DEF Append_, TypeInv, TypeOK
  <2>3. QED  BY <1>1, <1>2, <1>5, <2>1, <2>2, InAppend DEF Partition
<1>6. QED  BY <1>3, <1>4, <1>5, LogEffect

\* What a step does to the variables of the contract, thread by thread.
LEMMA ActorOutcome ==
  ASSUME TypeInv, NEW t \in Threads, Actor(t)
  PROVE  \/ Call(t)
         \/ outcome' = outcome /\ (Busy(t)' => thr'[t].call = thr[t].call)
         \/ thr'[t] = Idle /\ (Return(t) \/ Raise(t))
<1>1. CASE WaitForFlush(t)
  BY <1>1, SameCall DEF WaitForFlush, Actor, FlushStep, Call, Busy
<1>2. CASE RecoverEnd(t) /\ thr[t].pc = "recovered"
  BY <1>2, SameCall DEF RecoverEnd, Actor, RecoverStep, Call, Busy
<1>3. CASE ~Call(t) /\ ~WaitForFlush(t) /\ ~(RecoverEnd(t) /\ thr[t].pc = "recovered")
  <2>1. \/ Return(t) \/ Raise(t) \/ \E pc : Goto(t, pc)
    <3>1. CASE AppendStep(t)
      BY <3>1 DEF AppendStep, AppendNoChannel, Append_, AppendRecoverable, AppendFatal,
         HandleRecoverable
    <3>2. CASE FlushStep(t)
      BY <3>2, <1>3 DEF FlushStep, FlushDone, FlushTimeout, FlushRecoverable, HandleRecoverable
    <3>3. CASE RecoverStep(t)
      BY <3>3, <1>3 DEF RecoverStep, RecoverRefused, RecoverBegin, RecoverClose, RecoverOpen,
         RecoverOpenFail, RecoverEnd
    <3>4. QED  BY <1>3, <3>1, <3>2, <3>3 DEF Actor
  <2>2. CASE Return(t) \/ Raise(t)  BY <2>2, AfterStep
  <2>3. CASE \E pc : Goto(t, pc)  BY <1>3, <2>3, AfterStep DEF Goto
  <2>4. QED  BY <2>1, <2>2, <2>3
<1>4. QED  BY <1>1, <1>2, <1>3

LEMMA NoActor ==
  ASSUME [Next]_vars, \A t \in Threads : ~Actor(t)
  PROVE  UNCHANGED << thr, outcome, next >>
BY DEF Next, Actor, Initialize, InitBegin, InitOpen, InitFail, Shutdown, Commit, Break, vars

LEMMA OutcomeStep ==
  ASSUME TypeInv, OrderInv, OutcomeOpen, [Next]_vars, OneCallPerPartition'
  PROVE  OutcomeOpen'
<1>1. outcome \in [Calls -> {"none", "ok", "err"}] /\ thr \in [Threads -> Thread]
  BY DEF TypeInv, TypeOK, Thread
<1>2. next \in Int /\ next' \in Int /\ next <= next'  BY NextGrows
<1>3. CASE \A t \in Threads : ~Actor(t)
  BY <1>2, <1>3, NoActor DEF OutcomeOpen, Busy
<1>4. ASSUME NEW t \in Threads, Actor(t) PROVE OutcomeOpen'
  <2>1. \A u \in Threads : u # t => thr'[u] = thr[u]  BY <1>4, OthersKept
  <2>2. CASE Call(t)
    <3>1. /\ outcome' = outcome /\ next' = next + 1 /\ next \in Calls
          /\ thr'[t].call = next
      BY <1>1, <2>2 DEF Call, TypeInv, TypeOK, Calls
    <3>2. \A c \in Calls : c \in Int  BY DEF Calls
    <3>3. outcome'[thr'[t].call] = "none"  BY <3>1, <3>2 DEF OutcomeOpen
    <3>4. \A u \in Threads : Busy(u)' => outcome'[thr'[u].call] = "none"
      BY <2>1, <3>1, <3>3 DEF OutcomeOpen, Busy
    <3>5. \A c \in Calls : c >= next' => outcome'[c] = "none"
      BY <1>2, <3>1, <3>2 DEF OutcomeOpen
    <3>6. QED  BY <3>4, <3>5 DEF OutcomeOpen
  <2>3. CASE ~Call(t)
    <3>1. Busy(t) /\ thr[t].call \in Calls /\ thr[t].call < next
      BY <1>4, <2>3, SameCall, BusyThread DEF OrderInv
    <3>2. next' = next
      BY <1>4, <2>3, <1>2 DEF Actor, AppendStep, AppendNoChannel, Append_, AppendRecoverable,
         AppendFatal, FlushStep, WaitForFlush, FlushDone, FlushTimeout, FlushRecoverable,
         RecoverStep, RecoverRefused, RecoverBegin, RecoverClose, RecoverOpen,
         RecoverOpenFail, RecoverEnd
    <3>3. CASE outcome' = outcome /\ (Busy(t)' => thr'[t].call = thr[t].call)
      <4>1. \A u \in Threads : Busy(u)' => Busy(u) /\ thr'[u].call = thr[u].call
        BY <2>1, <3>1, <3>3 DEF Busy
      <4>2. QED  BY <3>2, <3>3, <4>1 DEF OutcomeOpen
    <3>4. CASE thr'[t] = Idle /\ (Return(t) \/ Raise(t))
      <4>1. \A c \in Calls : c # thr[t].call => outcome'[c] = outcome[c]
        BY <1>1, <3>1, <3>4 DEF Return, Raise
      <4>2. ~Busy(t)'  BY <3>4 DEF Busy, Idle
      <4>3. \A u \in Threads : Busy(u)' =>
              /\ u # t /\ Busy(u) /\ thr'[u].call = thr[u].call
              /\ thr[u].call \in Calls /\ Partition(u) # Partition(t)
        BY <2>1, <3>1, <4>2, BusyThread DEF Busy, OrderInv, OneCallPerPartition
      <4>4. \A u \in Threads : Busy(u)' => thr[u].call # thr[t].call
        BY <4>3 DEF Partition
      <4>5. \A c \in Calls : c >= next => c # thr[t].call
        BY <1>2, <3>1 DEF Calls
      <4>6. QED  BY <3>2, <4>1, <4>3, <4>4, <4>5 DEF OutcomeOpen
    <3>5. QED  BY <1>4, <2>3, <3>3, <3>4, ActorOutcome
  <2>4. QED  BY <2>2, <2>3
<1>5. QED  BY <1>3, <1>4

\* An append adds one copy of its call; no other step adds one.
LEMMA LoggedStep ==
  ASSUME TypeInv, [Next]_vars, NEW c \in Calls
  PROVE  /\ Logged(c) \in Nat /\ Logged(c)' \in Nat
         /\ \/ Logged(c)' <= Logged(c)
            \/ /\ Logged(c)' = Logged(c) + 1
               /\ \E t \in Threads : Append_(t) /\ thr[t].call = c
<1> DEFINE p == PartitionOf[c]
<1>1. /\ p \in Partitions /\ table[p] \in Seq(Calls) /\ buf[p] \in Seq(Calls)
      /\ table'[p] \in Seq(Calls) /\ buf'[p] \in Seq(Calls)
  BY TypeStep DEF TypeInv, TypeOK
<1>2. /\ Count(c, table[p]) \in Nat /\ Count(c, buf[p]) \in Nat
      /\ Count(c, table'[p]) \in Nat /\ Count(c, buf'[p]) \in Nat
  BY <1>1, CountAppend
<1> HIDE DEF p
<1>3. /\ Logged(c) = Count(c, table[p]) + Count(c, buf[p])
      /\ Logged(c)' = Count(c, table'[p]) + Count(c, buf'[p])
  BY DEF Logged, p
<1>4. Logged(c) \in Nat /\ Logged(c)' \in Nat  BY <1>2, <1>3
<1>5. CASE table'[p] = table[p] /\ (buf'[p] = buf[p] \/ buf'[p] = << >>)
  <2>1. Count(c, table'[p]) = Count(c, table[p]) /\ Count(c, buf'[p]) <= Count(c, buf[p])
    BY <1>2, <1>5, CountNone
  <2>2. QED  BY <1>2, <1>3, <1>4, <2>1
<1>6. CASE Commit(p)
  <2>1. /\ buf[p] # << >> /\ buf'[p] = Tail(buf[p])
        /\ table'[p] = Append(table[p], Head(buf[p]))
    BY <1>1, <1>6 DEF Commit, TypeInv, TypeOK
  <2>2. Head(buf[p]) \in Calls  BY <1>1, <2>1
  <2>3. Count(c, table'[p]) = Count(c, table[p]) + (IF Head(buf[p]) = c THEN 1 ELSE 0)
    BY <1>1, <2>1, <2>2, CountAppend
  <2>4. Count(c, buf'[p]) <= Count(c, buf[p]) - (IF Head(buf[p]) = c THEN 1 ELSE 0)
    BY <1>1, <2>1, CountTail
  <2>5. Logged(c)' <= Logged(c)  BY <1>2, <1>3, <2>3, <2>4
  <2>6. QED  BY <1>4, <2>5
<1>7. ASSUME NEW t \in Threads, Append_(t), Partition(t) = p
      PROVE  \/ Logged(c)' <= Logged(c)
             \/ Logged(c)' = Logged(c) + 1 /\ thr[t].call = c
  <2>1. Busy(t) /\ thr[t].call \in Calls  BY <1>7, BusyThread DEF Append_, Busy
  <2>2. table'[p] = table[p] /\ buf'[p] = Append(buf[p], thr[t].call)
    BY <1>1, <1>7 DEF Append_, TypeInv, TypeOK
  <2>3. Count(c, buf'[p]) = Count(c, buf[p]) + (IF thr[t].call = c THEN 1 ELSE 0)
    BY <1>1, <2>1, <2>2, CountAppend
  <2>4. QED  BY <1>2, <1>3, <2>2, <2>3
<1>8. QED  BY <1>1, <1>4, <1>5, <1>6, <1>7, LogEffect

\* Each append, and each retry, uses up one of the call's appends.
LEMMA AppendsStep ==
  ASSUME TypeInv, NEW t \in Threads, Actor(t), ~Call(t), Busy(t)'
  PROVE  /\ Appends(t) \in Nat /\ Appends(t)' \in Nat
         /\ Appends(t) <= Appends(t)'
         /\ Append_(t) => Appends(t)' = Appends(t) + 1
<1>1. Busy(t)  BY SameCall
<1>2. /\ thr \in [Threads -> Thread] /\ thr[t] \in Thread
      /\ thr' \in [Threads -> Thread] /\ thr'[t] \in Thread
  BY TypeStep DEF Next, Actor, TypeInv, TypeOK, Thread
<1>3. thr[t].attempt \in Nat /\ thr'[t].attempt \in Nat  BY <1>2 DEF Thread
<1>4. ASSUME NEW pc, Goto(t, pc), pc # "append"
      PROVE  thr'[t].attempt = thr[t].attempt /\ thr'[t].pc # "append"
  BY <1>2, <1>4 DEF Goto, Thread
<1>5. ~Return(t) /\ ~Raise(t)  BY AfterStep DEF Busy, Idle
<1>6. CASE WaitForFlush(t)
  <2>1. thr'[t].attempt = thr[t].attempt /\ thr[t].pc = "flush" /\ thr'[t].pc = "waiting"
    BY <1>2, <1>6 DEF WaitForFlush, Thread
  <2>2. QED  BY <1>3, <2>1 DEF Appends, Append_
<1>7. CASE RecoverEnd(t)
  <2>1. /\ thr[t].pc = "recovered" /\ thr'[t].pc = "append"
        /\ thr'[t].attempt = thr[t].attempt + 1
    BY <1>2, <1>5, <1>7 DEF RecoverEnd, Thread
  <2>2. QED  BY <1>3, <2>1 DEF Appends, Append_
<1>8. CASE ~WaitForFlush(t) /\ ~RecoverEnd(t)
  <2>1. \E pc : Goto(t, pc) /\ pc # "append"
    <3>1. CASE AppendStep(t)
      BY <1>5, <3>1 DEF AppendStep, AppendNoChannel, Append_, AppendRecoverable, AppendFatal,
         HandleRecoverable
    <3>2. CASE FlushStep(t)
      BY <1>5, <3>2, <1>8 DEF FlushStep, FlushDone, FlushTimeout, FlushRecoverable,
         HandleRecoverable
    <3>3. CASE RecoverStep(t)
      BY <1>5, <3>3, <1>8 DEF RecoverStep, RecoverRefused, RecoverBegin, RecoverClose,
         RecoverOpen, RecoverOpenFail
    <3>4. QED  BY <1>8, <3>1, <3>2, <3>3 DEF Actor
  <2>2. thr'[t].attempt = thr[t].attempt /\ thr'[t].pc # "append"  BY <1>4, <2>1
  <2>3. Append_(t) => thr[t].pc = "append"  BY DEF Append_
  <2>4. QED  BY <1>3, <2>2, <2>3 DEF Appends
<1>9. QED  BY <1>6, <1>7, <1>8

\* A call that is not submitted yet has no row anywhere.
LEMMA NewCallUnlogged ==
  ASSUME TypeInv, OrderInv, next \in Calls
  PROVE  Logged(next) = 0
<1> DEFINE p == PartitionOf[next]
<1>1. p \in Partitions /\ LogBelow(p, next - 1)  BY DEF OrderInv
<1>2. table[p] \in Seq(Calls) /\ buf[p] \in Seq(Calls)  BY <1>1 DEF TypeInv, TypeOK
<1>3. next \in Int /\ ~(next <= next - 1)  BY DEF Calls
<1>4. ~In(next, table[p]) /\ ~In(next, buf[p])
  BY <1>1, <1>3 DEF LogBelow, Below, In
<1> HIDE DEF p
<1>5. Count(next, table[p]) = 0 /\ Count(next, buf[p]) = 0  BY <1>4, CountNone
<1>6. QED  BY <1>5 DEF Logged, p

LEMMA CopiesStep ==
  ASSUME TypeInv, OrderInv, CopiesBounded, [Next]_vars
  PROVE  CopiesBounded'
<1>1. thr \in [Threads -> Thread]  BY DEF TypeInv, TypeOK, Thread
<1>2. \A t \in Threads : Append_(t) =>
        /\ Busy(t) /\ Appends(t) \in Nat
        /\ thr[t].call \in Calls /\ Appends(t) <= MAX_RECOVERY_ATTEMPTS - 1
  <2>1. ASSUME NEW t \in Threads, Append_(t)
        PROVE  /\ Busy(t) /\ thr[t].call \in Calls
               /\ thr[t].attempt \in 0 .. MAX_RECOVERY_ATTEMPTS - 1 /\ thr[t].pc = "append"
    BY <2>1, BusyThread DEF Append_, Busy, Thread
  <2>2. QED  BY <2>1 DEF Appends
<1>3. ASSUME NEW c \in Calls PROVE Logged(c)' <= MAX_RECOVERY_ATTEMPTS
  <2>1. Logged(c) \in Nat /\ Logged(c)' \in Nat /\ Logged(c) <= MAX_RECOVERY_ATTEMPTS
    BY LoggedStep DEF CopiesBounded
  <2>2. CASE Logged(c)' <= Logged(c)  BY <2>1, <2>2
  <2>3. ASSUME NEW t \in Threads, Append_(t), thr[t].call = c, Logged(c)' = Logged(c) + 1
        PROVE  Logged(c)' <= MAX_RECOVERY_ATTEMPTS
    <3>1. Logged(c) <= Appends(t)  BY <1>2, <2>3 DEF CopiesBounded
    <3>2. QED  BY <1>2, <2>1, <2>3, <3>1
  <2>4. QED  BY <2>2, <2>3, LoggedStep
<1>4. ASSUME NEW u \in Threads, Busy(u)' PROVE (Logged(thr[u].call) <= Appends(u))'
  <2>0. TypeInv'  BY TypeStep
  <2>1. thr'[u].call \in Calls /\ thr'[u].attempt \in Nat
    BY <1>4, <2>0 DEF TypeInv, TypeOK
  <2>2. PICK c \in Calls : c = thr'[u].call  BY <2>1
  <2>3. Logged(thr[u].call)' = Logged(c)'  BY <2>2 DEF Logged
  <2>4. Logged(c) \in Nat /\ Logged(c)' \in Nat  BY LoggedStep
  <2>5. CASE Call(u)
    <3>1. /\ c = next /\ UNCHANGED sdk
          /\ thr'[u].attempt = 0 /\ thr'[u].pc = "append"
      BY <1>1, <2>2, <2>5 DEF Call
    <3>2. Logged(c) = 0  BY <3>1, NewCallUnlogged
    <3>3. Logged(c)' = Logged(c)  BY <3>1 DEF Logged, sdk
    <3>4. Appends(u)' = 0  BY <3>1 DEF Appends
    <3>5. QED  BY <2>3, <3>2, <3>3, <3>4
  <2>6. CASE Busy(u) /\ thr'[u].call = thr[u].call
    <3>1. c = thr[u].call /\ Logged(c) <= Appends(u)
      BY <2>2, <2>6 DEF CopiesBounded
    <3>2. /\ Appends(u) \in Nat /\ Appends(u)' \in Nat /\ Appends(u) <= Appends(u)'
          /\ Append_(u) => Appends(u)' = Appends(u) + 1
      <4>1. CASE Actor(u) /\ ~Call(u)  BY <1>4, <4>1, AppendsStep
      <4>2. CASE ~Actor(u)
        <5>1. thr'[u] = thr[u]
          <6>1. CASE \E t \in Threads : Actor(t)  BY <4>2, <6>1, OthersKept
          <6>2. CASE \A t \in Threads : ~Actor(t)  BY <6>2, NoActor
          <6>3. QED  BY <6>1, <6>2
        <5>2. Appends(u)' = Appends(u)  BY <5>1 DEF Appends
        <5>3. ~Append_(u)  BY <4>2 DEF Actor, AppendStep
        <5>4. thr[u] \in Thread  BY <1>1
        <5>5. Appends(u) \in Nat  BY <5>4 DEF Appends, Thread
        <5>6. QED  BY <5>2, <5>3, <5>5
      <4>3. CASE Call(u)  BY <2>6, <4>3 DEF Call
      <4>4. QED  BY <4>1, <4>2, <4>3 DEF Actor
    <3>3. \A t \in Threads : Append_(t) /\ thr[t].call = c => t = u
      BY <1>2, <2>6, <3>1 DEF OrderInv, OneCallPerPartition, Partition
    <3>4. Logged(c)' <= Logged(c) \/ (Logged(c)' = Logged(c) + 1 /\ Append_(u))
      BY <3>3, LoggedStep
    <3>5. Logged(c)' <= Appends(u)'  BY <2>4, <3>1, <3>2, <3>4
    <3>6. QED  BY <2>3, <3>5
  <2>7. QED  BY <1>4, <2>5, <2>6, BusyBefore
<1>5. QED  BY <1>3, <1>4 DEF CopiesBounded

LEMMA ContractStep ==
  ASSUME TypeInv, ~CallersOverlap, ContractInv, [Next]_vars
  PROVE  ContractInv'
<1>1. OneCallPerPartition' /\ OrderInv'
  BY OrderStep DEF ContractInv, OrderInv
<1>2. RowFollowed'
  <2>1. CASE \E t \in Threads : Actor(t)  BY <2>1, RowActor DEF ContractInv, AckInv
  <2>2. CASE Initialize \/ Shutdown \/ \E p \in Partitions : Commit(p) \/ Break(p)
    BY <2>2, RowOthers DEF ContractInv, AckInv
  <2>3. CASE UNCHANGED vars
    BY <2>3 DEF ContractInv, AckInv, RowFollowed, Kept, WaitsOnLiveChannel, Partition, vars
  <2>4. QED  BY <2>1, <2>2, <2>3 DEF Next, Actor
<1>3. AckedRowsCommitted'  BY AckStep DEF ContractInv
<1>4. Routed'  BY RoutedStep DEF ContractInv
<1>5. OutcomeOpen'  BY <1>1, OutcomeStep DEF ContractInv
<1>6. CopiesBounded'  BY CopiesStep DEF ContractInv
<1>7. QED  BY <1>1, <1>2, <1>3, <1>4, <1>5, <1>6 DEF ContractInv, AckInv

\* A commit lands the oldest row of a buffer, and may.
LEMMA CommitLands ==
  ASSUME TypeInv, ContractInv, NEW p \in Partitions, Commit(p)
  PROVE  \E c \in Calls : Contract!Land(c)
<1> DEFINE c == Head(buf[p])
<1>1. /\ buf[p] \in Seq(Calls) /\ table[p] \in Seq(Calls) /\ buf[p] # << >>
      /\ table \in [Partitions -> Seq(Calls)]
  BY DEF Commit, TypeInv, TypeOK
<1>2. c \in Calls /\ c = buf[p][1] /\ 1 \in 1 .. Len(buf[p])  BY <1>1
<1>3. PartitionOf[c] = p
  <2>1. In(c, buf[p])  BY <1>2 DEF In
  <2>2. QED  BY <1>2, <2>1 DEF ContractInv, Routed
<1>4. c < next
  <2>1. c <= next - 1  BY <1>2 DEF ContractInv, OrderInv, LogBelow, Below
  <2>2. c \in Int  BY <1>2 DEF Calls
  <2>3. next \in Int  BY DEF TypeInv, TypeOK
  <2>4. QED  BY <2>1, <2>2, <2>3
<1>5. \A i \in 1 .. Len(table[p]) : table[p][i] <= c
  BY <1>2 DEF ContractInv, OrderInv, LogOrdered, Before
<1>6. Count(c, table[p]) < MAX_RECOVERY_ATTEMPTS
  <2>1. Count(c, table[p]) \in Nat  BY <1>1, <1>2, CountAppend
  <2>2. Count(c, buf[p]) \in Nat /\ Count(c, buf[p]) >= 1  BY <1>1, CountHead
  <2>3. Count(c, table[p]) + Count(c, buf[p]) <= MAX_RECOVERY_ATTEMPTS
    BY <1>2, <1>3 DEF ContractInv, CopiesBounded, Logged
  <2> HIDE DEF c
  <2>4. QED  BY <2>1, <2>2, <2>3
<1>7. Contract!Copies(c) = Where(c, table[p])  BY <1>3 DEF Contract!Copies, Where
<1>8. Contract!Cardinality(Contract!Copies(c)) < MAX_RECOVERY_ATTEMPTS
  BY <1>6, <1>7 DEF Contract!Cardinality, Cardinality, Count
<1>9. table' = [table EXCEPT ![p] = Append(@, c)] /\ UNCHANGED << next, outcome >>
  BY DEF Commit
<1> HIDE DEF c
<1>10. QED  BY <1>2, <1>3, <1>4, <1>5, <1>8, <1>9 DEF Contract!Land

\* A call that returns or raises ends, and an acknowledged row has landed.
LEMMA CallEnds ==
  ASSUME TypeInv, ContractInv, AckedRowsCommitted',
         NEW t \in Threads, Actor(t), ~Call(t), Return(t) \/ Raise(t)
  PROVE  \E c \in Calls, result \in {"ok", "err"} : Contract!End(c, result)
<1> DEFINE c == thr[t].call
<1>1. Busy(t) /\ c \in Calls  BY SameCall, BusyThread
<1>2. outcome \in [Calls -> {"none", "ok", "err"}]  BY DEF TypeInv, TypeOK
<1>3. c < next /\ outcome[c] = "none"
  BY <1>1 DEF ContractInv, OrderInv, OutcomeOpen
<1>4. table' = table /\ next' = next
  BY SdkLocal DEF Actor, AppendStep, AppendNoChannel, Append_, AppendRecoverable,
     AppendFatal, FlushStep, WaitForFlush, FlushDone, FlushTimeout, FlushRecoverable,
     RecoverStep, RecoverRefused, RecoverBegin, RecoverClose, RecoverOpen,
     RecoverOpenFail, RecoverEnd
<1>5. PICK result \in {"ok", "err"} :
        outcome' = [outcome EXCEPT ![c] = result]
  BY DEF Return, Raise
<1>6. ASSUME result = "ok", c \in RowCalls PROVE Contract!Copies(c) # {}
  <2>1. outcome'[c] = "ok"  BY <1>1, <1>2, <1>5, <1>6
  <2> HIDE DEF c
  <2>2. \E i \in 1 .. Len(table[PartitionOf[c]]) : table[PartitionOf[c]][i] = c
    BY <1>4, <1>6, <2>1 DEF AckedRowsCommitted, InTable
  <2>3. QED  BY <2>2 DEF Contract!Copies
<1> HIDE DEF c
<1>7. Contract!End(c, result)  BY <1>3, <1>4, <1>5, <1>6 DEF Contract!End
<1>8. QED  BY <1>1, <1>7

\* The steps of the contract: a call is submitted, its rows land, it ends.
LEMMA StepOfContract ==
  ASSUME TypeInv, ContractInv, AckedRowsCommitted', [Next]_vars
  PROVE  Contract!Next \/ UNCHANGED Contract!contractVars
<1>1. ASSUME NEW t \in Threads, Call(t) PROVE Contract!Submit
  BY <1>1 DEF Call, sdk, Contract!Submit, Calls, TypeInv, TypeOK
<1>2. ASSUME NEW t \in Threads, Actor(t), ~Call(t)
      PROVE  Contract!Next \/ UNCHANGED Contract!contractVars
  <2>1. CASE Return(t) \/ Raise(t)
    BY <1>2, <2>1, CallEnds DEF Contract!Next
  <2>2. CASE outcome' = outcome
    BY <1>2, <2>2, SdkLocal DEF Actor, AppendStep, AppendNoChannel, Append_,
       AppendRecoverable, AppendFatal, FlushStep, WaitForFlush, FlushDone, FlushTimeout,
       FlushRecoverable, RecoverStep, RecoverRefused, RecoverBegin, RecoverClose,
       RecoverOpen, RecoverOpenFail, RecoverEnd, Contract!contractVars
  <2>3. QED  BY <1>2, <2>1, <2>2, ActorOutcome
<1>3. ASSUME NEW p \in Partitions, Commit(p) PROVE Contract!Next
  BY <1>3, CommitLands DEF Contract!Next
<1>4. ASSUME Initialize \/ Shutdown \/ (\E p \in Partitions : Break(p)) \/ UNCHANGED vars
      PROVE  UNCHANGED Contract!contractVars
  BY <1>4 DEF Initialize, InitBegin, InitOpen, InitFail, OpenSlot, Shutdown, Break, sdk, vars,
     Contract!contractVars
<1>5. Contract!Submit => Contract!Next  BY DEF Contract!Next
<1>6. QED  BY <1>1, <1>2, <1>3, <1>4, <1>5 DEF Next, Actor

\* While the calls of a partition do not overlap, the pool with its channels,
\* buffers, retries and recoveries does nothing that StreamContract does not
\* promise: rows land in the order of the calls, at most MAX_RECOVERY_ATTEMPTS
\* times, and a stream_row that returns has landed.
THEOREM PoolImplementsContract ==
  ASSUME ~CallersOverlap
  PROVE  Spec => ImplementsContract
<1>1. Init => ContractInv
  <2> SUFFICES ASSUME Init PROVE ContractInv  OBVIOUS
  <2>1. \A t \in Threads : ~Busy(t) /\ thr[t].pc = "idle"  BY DEF Init, Busy, Idle
  <2>2. \A p \in Partitions : table[p] = << >> /\ buf[p] = << >>  BY DEF Init
  <2>3. \A c \in Calls : outcome[c] = "none"  BY DEF Init
  <2>4. AckInv
    BY <2>1, <2>3 DEF AckInv, OneCallPerPartition, RowFollowed, AckedRowsCommitted
  <2>5. OrderInv
    BY <2>1, <2>2, EmptyOrder DEF OrderInv, OneCallPerPartition, LogOrdered, LogBelow
  <2>6. Routed  BY <2>2, InEmpty DEF Routed
  <2>7. OutcomeOpen  BY <2>1, <2>3 DEF OutcomeOpen
  <2>8. ASSUME NEW c \in Calls PROVE Logged(c) <= MAX_RECOVERY_ATTEMPTS
    <3>1. Count(c, table[PartitionOf[c]]) = 0 /\ Count(c, buf[PartitionOf[c]]) = 0
      BY <2>2, CountNone
    <3>2. Logged(c) = 0  BY <3>1 DEF Logged
    <3>3. QED  BY <3>2
  <2>9. CopiesBounded  BY <2>1, <2>8 DEF CopiesBounded
  <2>10. QED  BY <2>4, <2>5, <2>6, <2>7, <2>9 DEF ContractInv
<1>2. TypeInv /\ ContractInv /\ [Next]_vars => ContractInv'  BY ContractStep
<1>3. Init => Contract!Init  BY DEF Init, Contract!Init
<1>4. TypeInv /\ ContractInv /\ ContractInv' /\ [Next]_vars
        => [Contract!Next]_(Contract!contractVars)
  BY StepOfContract DEF ContractInv, AckInv
<1>5. Spec => []TypeInv  BY InitType, TypeStep, PTL DEF Spec
<1>6. QED  BY <1>1, <1>2, <1>3, <1>4, <1>5, PTL DEF Spec, ImplementsContract, Contract!Spec
=============================================================================
