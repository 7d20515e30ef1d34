-------------------------- MODULE StreamingService --------------------------
(***************************************************************************)
(* The channel pool of the producer VM (vm-ingest/streaming_service.py):   *)
(* partition_count streaming channels to one interactive table, a call     *)
(* routed to the channel its key hashes to, retried after the channel is   *)
(* closed and reopened when the error is one a reopen can cure.            *)
(*                                                                         *)
(* A call is one stream_row (append, then wait_for_flush) or one           *)
(* stream_batch (append_rows only, no flush).  Calls are numbered in the   *)
(* order they are submitted; the number stands for the rows of the call.   *)
(* The pool of threads that run them is Threads.                           *)
(*                                                                         *)
(* The Snowpipe SDK is external.  It is modelled by what the code relies   *)
(* on: append_row puts the row at the end of the channel's buffer, the SDK *)
(* commits a channel's buffer in order, a channel that breaks or is closed *)
(* loses what it had not committed, and wait_for_flush returns normally    *)
(* only when the channel it was called on has nothing left to commit.      *)
(***************************************************************************)
EXTENDS Integers, Sequences, FiniteSets

CONSTANTS
  Threads,                 \* threads that run calls
  PARTITIONS,              \* partition_count
  NumCalls,                \* calls submitted in a behaviour (a bound)
  PartitionOf,             \* partition of the key of each call
  RowCalls,                \* the calls that are stream_row, not stream_batch
  MAX_RECOVERY_ATTEMPTS,
  CallersOverlap,          \* may a call start while its partition has another?
  MaxFaults                \* failures the SDK may produce (a bound)

Partitions == 0 .. PARTITIONS - 1
Calls      == 1 .. NumCalls

ASSUME PoolAssumption ==
  /\ PARTITIONS \in Nat \ {0}
  /\ NumCalls \in Nat
  /\ PartitionOf \in [Calls -> Partitions]
  /\ RowCalls \subseteq Calls
  /\ MAX_RECOVERY_ATTEMPTS \in Nat \ {0}
  /\ CallersOverlap \in BOOLEAN
  /\ MaxFaults \in Nat

VARIABLES
  opened,      \* len(self.channels)
  init,        \* "opening" while initialize() runs
  recovering,  \* self._recovering
  chan,        \* SDK: state of the channel object in each slot
  gen,         \* SDK: which channel object that is, counted per slot
  buf,         \* SDK: calls appended to that channel and not committed
  table,       \* rows of the interactive table, per partition, in commit order
  next,        \* number of the next call
  thr,         \* per thread: pc, call, attempt, the channel a flush waits on
  outcome,     \* "none", "ok" (returned) or "err" (raised), per call
  faults,      \* failures so far
  down         \* shutdown() ran

vars == << opened, init, recovering, chan, gen, buf, table, next, thr,
           outcome, faults, down >>
pool == << opened, init, recovering >>
sdk  == << chan, gen, buf, table >>

\* Fault: a retry is routed to the next channel, away from the broken one.
Partition_NextOnRetry(t) == (PartitionOf[thr[t].call] + thr[t].attempt) % PARTITIONS

Partition(t) == PartitionOf[thr[t].call]

Idle == [pc |-> "idle", call |-> 0, attempt |-> 0, waitsOn |-> 0]

Init ==
  /\ opened = 0
  /\ init = "idle"
  /\ recovering = {}
  /\ chan = [p \in Partitions |-> "none"]
  /\ gen = [p \in Partitions |-> 0]
  /\ buf = [p \in Partitions |-> << >>]
  /\ table = [p \in Partitions |-> << >>]
  /\ next = 1
  /\ thr = [t \in Threads |-> Idle]
  /\ outcome = [c \in Calls |-> "none"]
  /\ faults = 0
  /\ down = FALSE

Fault == faults < MaxFaults /\ faults' = faults + 1

(***************************************************************************)
(* initialize(): the list is emptied and the channels are opened one by    *)
(* one, so the pool is visible while it is only partly open.  Its callers, *)
(* the lifespan and the watchdog, run it only on an empty pool.            *)
(***************************************************************************)
InitBegin ==
  /\ opened = 0 /\ init = "idle" /\ ~down
  /\ init' = "opening"
  /\ UNCHANGED << opened, recovering, sdk, next, thr, outcome, faults, down >>

OpenSlot(p) ==
  /\ chan' = [chan EXCEPT ![p] = "open"]
  /\ gen'  = [gen EXCEPT ![p] = @ + 1]
  /\ buf'  = [buf EXCEPT ![p] = << >>]
  /\ table' = table

\* Fault: one channel too many.
InitOpen_OneMore ==
  /\ init = "opening" /\ ~down
  /\ opened' = opened + 1
  /\ init' = IF opened = PARTITIONS THEN "idle" ELSE "opening"
  /\ IF opened < PARTITIONS THEN OpenSlot(opened) ELSE UNCHANGED sdk
  /\ UNCHANGED << recovering, next, thr, outcome, faults, down >>

InitOpen ==
  /\ init = "opening" /\ opened < PARTITIONS /\ ~down
  /\ OpenSlot(opened)
  /\ opened' = opened + 1
  /\ init' = IF opened + 1 = PARTITIONS THEN "idle" ELSE "opening"
  /\ UNCHANGED << recovering, next, thr, outcome, faults, down >>

\* Fault: the attempt that failed is still marked as running.
InitFail_Marked ==
  /\ init = "opening"
  /\ Fault
  /\ init' = "failed"
  /\ UNCHANGED << opened, recovering, sdk, next, thr, outcome, down >>

\* The client or one of the channels cannot be opened: the channels already
\* opened stay in the list.
InitFail ==
  /\ init = "opening"
  /\ Fault
  /\ init' = "idle"
  /\ UNCHANGED << opened, recovering, sdk, next, thr, outcome, down >>

(***************************************************************************)
(* stream_row and stream_batch.                                            *)
(***************************************************************************)
Return(t) ==
  /\ thr' = [thr EXCEPT ![t] = Idle]
  /\ outcome' = [outcome EXCEPT ![thr[t].call] = "ok"]

Raise(t) ==
  /\ thr' = [thr EXCEPT ![t] = Idle]
  /\ outcome' = [outcome EXCEPT ![thr[t].call] = "err"]

Goto(t, pc) == thr' = [thr EXCEPT ![t].pc = pc] /\ outcome' = outcome

\* The handler of an error _is_recoverable accepts.
HandleRecoverable(t) ==
  IF thr[t].attempt < MAX_RECOVERY_ATTEMPTS - 1 THEN Goto(t, "recover")
                                                ELSE Raise(t)

Busy(t) == thr[t].pc # "idle"

\* The callers submit only to a pool whose list is not empty.
Call(t) ==
  /\ ~Busy(t) /\ next <= NumCalls /\ opened > 0 /\ ~down
  /\ \/ CallersOverlap
     \/ \A u \in Threads : Busy(u) => Partition(u) # PartitionOf[next]
  /\ thr' = [thr EXCEPT ![t] = [pc |-> "append", call |-> next,
                                attempt |-> 0, waitsOn |-> 0]]
  /\ next' = next + 1
  /\ UNCHANGED << pool, sdk, outcome, faults, down >>

\* self.channels[partition] is out of range: the pool is only partly open.
AppendNoChannel(t) ==
  /\ thr[t].pc = "append" /\ Partition(t) >= opened
  /\ Raise(t)
  /\ UNCHANGED << pool, sdk, next, faults, down >>

Append_(t) ==
  LET p == Partition(t) IN
  /\ thr[t].pc = "append" /\ p < opened /\ chan[p] = "open"
  /\ buf' = [buf EXCEPT ![p] = Append(@, thr[t].call)]
  /\ IF thr[t].call \in RowCalls THEN Goto(t, "flush") ELSE Return(t)
  /\ UNCHANGED << pool, chan, gen, table, next, faults, down >>

AppendRecoverable(t) ==
  /\ thr[t].pc = "append" /\ Partition(t) < opened
  /\ chan[Partition(t)] # "open"
  /\ HandleRecoverable(t)
  /\ UNCHANGED << pool, sdk, next, faults, down >>

AppendFatal(t) ==
  /\ thr[t].pc = "append" /\ Partition(t) < opened
  /\ Fault
  /\ Raise(t)
  /\ UNCHANGED << pool, sdk, next, down >>

\* self.channels[partition] is read again: another thread may have replaced
\* the channel the row was appended to.
WaitForFlush(t) ==
  /\ thr[t].pc = "flush"
  /\ thr' = [thr EXCEPT ![t].pc = "waiting", ![t].waitsOn = gen[Partition(t)]]
  /\ UNCHANGED << pool, sdk, next, outcome, faults, down >>

WaitsOnLiveChannel(t) ==
  thr[t].waitsOn = gen[Partition(t)] /\ chan[Partition(t)] = "open"

\* Fault: the flush looks at the slot, whatever channel is in it now.
FlushDone_AnyChannel(t) ==
  /\ thr[t].pc = "waiting" /\ buf[Partition(t)] = << >>
  /\ Return(t)
  /\ UNCHANGED << pool, sdk, next, faults, down >>

FlushDone(t) ==
  /\ thr[t].pc = "waiting" /\ WaitsOnLiveChannel(t)
  /\ buf[Partition(t)] = << >>
  /\ Return(t)
  /\ UNCHANGED << pool, sdk, next, faults, down >>

\* Fault: the timeout of wait_for_flush is ignored.
FlushTimeout_Ignored(t) ==
  /\ thr[t].pc = "waiting"
  /\ Fault
  /\ Return(t)
  /\ UNCHANGED << pool, sdk, next, down >>

\* Ten seconds pass.  The row stays in the buffer and may still be committed.
FlushTimeout(t) ==
  /\ thr[t].pc = "waiting"
  /\ Fault
  /\ Raise(t)
  /\ UNCHANGED << pool, sdk, next, down >>

FlushRecoverable(t) ==
  /\ thr[t].pc = "waiting" /\ ~WaitsOnLiveChannel(t)
  /\ HandleRecoverable(t)
  /\ UNCHANGED << pool, sdk, next, faults, down >>

(***************************************************************************)
(* _recover_channel: one thread per partition.  A thread that finds the    *)
(* partition already in recovery gets False and raises its error.          *)
(***************************************************************************)
RecoverRefused(t) ==
  /\ thr[t].pc = "recover" /\ Partition(t) \in recovering
  /\ Raise(t)
  /\ UNCHANGED << pool, sdk, next, faults, down >>

RecoverBegin(t) ==
  /\ thr[t].pc = "recover" /\ Partition(t) \notin recovering
  /\ recovering' = recovering \union {Partition(t)}
  /\ Goto(t, "close")
  /\ UNCHANGED << opened, init, sdk, next, faults, down >>

RecoverClose(t) ==
  /\ thr[t].pc = "close"
  /\ chan' = [chan EXCEPT ![Partition(t)] = "closed"]
  /\ buf'  = [buf EXCEPT ![Partition(t)] = << >>]
  /\ Goto(t, "reopen")
  /\ UNCHANGED << pool, gen, table, next, faults, down >>

RecoverOpen(t) ==
  /\ thr[t].pc = "reopen" /\ ~down
  /\ OpenSlot(Partition(t))
  /\ Goto(t, "recovered")
  /\ UNCHANGED << pool, next, faults, down >>

\* Fault: the channel is opened again and again until it works.
RecoverOpenFail_Again(t) ==
  /\ thr[t].pc = "reopen"
  /\ IF down THEN UNCHANGED faults ELSE Fault
  /\ UNCHANGED << thr, outcome, pool, sdk, next, down >>

RecoverOpenFail(t) ==
  /\ thr[t].pc = "reopen"
  /\ IF down THEN UNCHANGED faults ELSE Fault
  /\ Goto(t, "failed")
  /\ UNCHANGED << pool, sdk, next, down >>

\* Fault: the partition is released only after a successful recovery.
RecoverEnd_NoFinally(t) ==
  /\ thr[t].pc \in {"recovered", "failed"}
  /\ IF thr[t].pc = "recovered"
     THEN /\ thr' = [thr EXCEPT ![t].pc = "append", ![t].attempt = @ + 1]
          /\ recovering' = recovering \ {Partition(t)}
          /\ outcome' = outcome
     ELSE Raise(t) /\ UNCHANGED recovering
  /\ UNCHANGED << opened, init, sdk, next, faults, down >>

\* The finally block, then the next attempt or the re-raised error.
RecoverEnd(t) ==
  /\ thr[t].pc \in {"recovered", "failed"}
  /\ recovering' = recovering \ {Partition(t)}
  /\ IF thr[t].pc = "recovered"
     THEN /\ thr' = [thr EXCEPT ![t].pc = "append", ![t].attempt = @ + 1]
          /\ outcome' = outcome
     ELSE Raise(t)
  /\ UNCHANGED << opened, init, sdk, next, faults, down >>

(***************************************************************************)
(* shutdown(): every channel, then the client, is closed.  The server      *)
(* drains its requests first; a call nobody waits for may still run.       *)
(***************************************************************************)
Shutdown ==
  /\ ~down
  /\ CallersOverlap \/ \A t \in Threads : ~Busy(t)
  /\ down' = TRUE
  /\ chan' = [p \in Partitions |-> IF p < opened THEN "closed" ELSE chan[p]]
  /\ buf' = [p \in Partitions |-> << >>]
  /\ UNCHANGED << pool, gen, table, next, thr, outcome, faults >>

(***************************************************************************)
(* The SDK and the service behind it (external).                           *)
(***************************************************************************)
Commit(p) ==
  /\ buf[p] # << >>
  /\ table' = [table EXCEPT ![p] = Append(@, Head(buf[p]))]
  /\ buf' = [buf EXCEPT ![p] = Tail(@)]
  /\ UNCHANGED << pool, chan, gen, next, thr, outcome, faults, down >>

\* A token expires or the service invalidates the channel.
Break(p) ==
  /\ chan[p] = "open"
  /\ Fault
  /\ chan' = [chan EXCEPT ![p] = "broken"]
  /\ buf'  = [buf EXCEPT ![p] = << >>]
  /\ UNCHANGED << pool, gen, table, next, thr, outcome, down >>

Initialize == InitBegin \/ InitOpen \/ InitFail

AppendStep(t) ==
  AppendNoChannel(t) \/ Append_(t) \/ AppendRecoverable(t) \/ AppendFatal(t)

FlushStep(t) ==
  WaitForFlush(t) \/ FlushDone(t) \/ FlushTimeout(t) \/ FlushRecoverable(t)

RecoverStep(t) ==
  \/ RecoverRefused(t) \/ RecoverBegin(t) \/ RecoverClose(t)
  \/ RecoverOpen(t) \/ RecoverOpenFail(t) \/ RecoverEnd(t)

Next ==
  \/ Initialize
  \/ \E t \in Threads : Call(t) \/ AppendStep(t) \/ FlushStep(t) \/ RecoverStep(t)
  \/ Shutdown
  \/ \E p \in Partitions : Commit(p) \/ Break(p)

Spec == Init /\ [][Next]_vars

(***************************************************************************)
(* The watchdog keeps running and the operating system schedules every     *)
(* thread; the SDK commits what it buffered.  Nothing obliges a call to be *)
(* made, a failure to happen or the process to stop.                       *)
(***************************************************************************)
Fairness ==
  /\ WF_vars(InitBegin) /\ WF_vars(InitOpen)
  /\ \A t \in Threads : WF_vars(AppendStep(t) \/ FlushStep(t) \/ RecoverStep(t))
  /\ \A p \in Partitions : WF_vars(Commit(p))

FairSpec == Spec /\ Fairness

-----------------------------------------------------------------------------
PcValues == { "idle", "append", "flush", "waiting", "recover", "close",
              "reopen", "recovered", "failed" }

\* Every variable keeps its type.
TypeOK ==
  /\ opened \in 0 .. PARTITIONS
  /\ init \in {"idle", "opening"}
  /\ recovering \subseteq Partitions
  /\ chan \in [Partitions -> {"none", "open", "broken", "closed"}]
  /\ gen \in [Partitions -> Nat]
  /\ buf \in [Partitions -> Seq(Calls)]
  /\ table \in [Partitions -> Seq(Calls)]
  /\ next \in 1 .. NumCalls + 1
  /\ thr \in [Threads -> [pc : PcValues, call : 0 .. NumCalls,
                          attempt : 0 .. MAX_RECOVERY_ATTEMPTS - 1, waitsOn : Nat]]
  /\ \A t \in Threads : Busy(t) => thr[t].call \in Calls
  /\ outcome \in [Calls -> {"none", "ok", "err"}]
  /\ faults \in 0 .. MaxFaults
  /\ down \in BOOLEAN

InTable(c) == \E i \in 1 .. Len(table[PartitionOf[c]]) : table[PartitionOf[c]][i] = c

\* stream_row "append[s] a single row and wait[s] for HPA commit": when it
\* returns, the row is in the table, whatever channel was replaced meanwhile.
AckedRowsCommitted == \A c \in RowCalls : outcome[c] = "ok" => InTable(c)

\* Partition-based routing is there "for per-position ordering": the rows of a
\* partition reach the table in the order of their calls, retries included.
PartitionOrder ==
  \A p \in Partitions :
    \A i, j \in 1 .. Len(table[p]) : i <= j => table[p][i] <= table[p][j]

Recovers(t) == thr[t].pc \in {"close", "reopen", "recovered", "failed"}

\* _recover_channel is lock protected: at most one thread closes and reopens a
\* partition's channel, and _recovering holds exactly the partitions under
\* repair, so that no failed repair leaves a partition locked out.
RecoveryExclusive ==
  /\ \A t, u \in Threads : Recovers(t) /\ Recovers(u) /\ t # u
                             => Partition(t) # Partition(u)
  /\ recovering = { Partition(t) : t \in {u \in Threads : Recovers(u)} }

Contract == INSTANCE StreamContract WITH MaxCopies <- MAX_RECOVERY_ATTEMPTS

\* As long as no two calls of a partition overlap, the pool with its retries,
\* recoveries and failures implements StreamContract.
ImplementsContract == Contract!Spec

\* Every call comes back, with a result or an error.
EveryCallReturns == \A t \in Threads : Busy(t) ~> ~Busy(t)

\* The watchdog reopens a pool that a failed start left empty.
EmptyPoolReopens == (opened = 0 /\ ~down) ~> (opened > 0 \/ down)

\* "even if init failed above, its channel watchdog will retry initialize()"
\* (ingest_worker.py:417-418): a start that failed is made good, also when it
\* failed with some of the channels open.  The watchdog retries an empty list
\* only, so the keys of the missing partitions are refused for good, while
\* /health counts a channel and reports ok.  False here, and no run lists it;
\* README.md says how to see it fail.
FailedStartIsRetried ==
  (init = "idle" /\ opened < PARTITIONS /\ ~down) ~> (opened = PARTITIONS \/ down)
=============================================================================
