------------------------------ MODULE VirtioBlk ------------------------------
(***************************************************************************)
(* A block request from BlockDevice::Operate to its completion interrupt:  *)
(* the descriptor bitmap, the available and the used ring, the waiting     *)
(* flags, and the sleep of wait_complete, over the scheduler.  The device  *)
(* is external: it may serve requests in any order and at any time.        *)
(*                                                                         *)
(* sys_exec and sys_dlopen read the disk inside a CriticalGuard of their   *)
(* own, the other system calls with interrupts on.                         *)
(***************************************************************************)
EXTENDS Scheduler, FiniteSets

CONSTANTS
  QueueSize,  \* queue_buffer_size
  MaxOps,     \* bound on the requests that are posted
  channel_    \* Device::channel_

\* A request is a chain of three descriptors: header, data, status.
ChainLen == 3

Descs == 0..(QueueSize - 1)

\* The width of used.idx.  last_seen_used_idx_ has 32 bits: the two agree only
\* while fewer than UsedIdxMod requests have been served.
UsedIdxMod == 65536

ASSUME VirtioAssumption ==
  /\ QueueSize \in Nat \ {0}
  /\ MaxOps \in 0..(UsedIdxMod - 1)
  /\ channel_ \in DriverChannels

VARIABLES
  bit_map,             \* the descriptors that AllocDesc has handed out
  desc,                \* desc[d]: whose buffers the descriptor points to
  descs,               \* transport.descs_ of each process
  waiting_flag,        \* internal_data_[d].waiting_flag
  avail_ring,          \* queue->avail.ring
  avail_idx,           \* queue->avail.idx
  used_ring,           \* queue->used.ring
  used_idx,            \* queue->used.idx
  last_seen_used_idx,  \* last_seen_used_idx_[0]
  locked,              \* lk_[0]
  guard_intr_on,       \* is_intr_on_ of each process' guard in the transport
  status,              \* resp.status of each process
  ok,                  \* each process' last Operate has returned true
  dev_idx,             \* device: the next entry of avail.ring it looks at
  busy,                \* device: the chains it works on
  irq,                 \* device: used_buffer_notification in InterruptStatus
  in_isr               \* UsedBufferNotify runs; mie is what its mret restores

driverVars == <<bit_map, desc, descs, waiting_flag, avail_ring, avail_idx,
                last_seen_used_idx, locked, guard_intr_on, ok, in_isr>>
deviceVars == <<used_ring, used_idx, status, dev_idx, busy, irq>>

vars == <<schedVars, driverVars, deviceVars>>

BlkLabels == {"user", "AllocMultiDesc", "trigger_notify", "set_flag", "wait_complete",
              "wait_loop", "relock", "check_status", "alloc_failed"}

NoDescs == <<>>

HeadOf(p) == descs[p][1]

-----------------------------------------------------------------------------
(* BlockDevice::Operate                                                    *)

\* Those whose request is not posted yet.
Starting == {q \in Slots : pc[q] \in {"AllocMultiDesc", "trigger_notify"}}

\* A system call gets to Operate, inside sys_exec's guard or not.
CallOperate(p, in_guard) ==
  /\ Running(p)
  /\ InUser(p)
  /\ avail_idx + Cardinality(Starting) < MaxOps
  /\ pc' = [pc EXCEPT ![p] = "AllocMultiDesc"]
  /\ mie' = ~ in_guard
  /\ status' = [status EXCEPT ![p] = "uninit"]
  /\ ok' = [ok EXCEPT ![p] = FALSE]
  /\ NoSwitch
  /\ UNCHANGED <<state, channel, bit_map, desc, descs, waiting_flag, avail_ring, avail_idx,
                 last_seen_used_idx, locked, guard_intr_on, in_isr, used_ring, used_idx,
                 dev_idx, busy, irq>>

Free == Descs \ bit_map

\* AllocDesc returns the first free descriptor.
First(D) == CHOOSE d \in D : \A e \in D : d <= e

\* AllocMultiDesc, then request fills the descriptors; a failed allocation is
\* rolled back and the transport does nothing from then on.
AllocMultiDesc(p) ==
  LET a == First(Free)
      b == First(Free \ {a})
      c == First(Free \ {a, b})
  IN
  /\ Running(p)
  /\ pc[p] = "AllocMultiDesc"
  /\ \/ /\ Cardinality(Free) >= ChainLen
        /\ bit_map' = bit_map \cup {a, b, c}
        /\ descs' = [descs EXCEPT ![p] = <<a, b, c>>]
        /\ desc' = [d \in Descs |-> IF d \in {a, b, c} THEN p ELSE desc[d]]
        /\ Goto(p, "trigger_notify")
     \/ /\ Cardinality(Free) < ChainLen
        /\ Goto(p, "alloc_failed")
        /\ UNCHANGED <<bit_map, descs, desc>>
  /\ NoSwitch
  /\ UNCHANGED <<state, channel, waiting_flag, avail_ring, avail_idx,
                 last_seen_used_idx, locked, guard_intr_on, ok, in_isr, deviceVars>>

\* trigger_notify under its CriticalGuard, up to the store to avail.idx.  From
\* then on the device may serve the request: it does not wait for the guard.
TriggerNotify(p) ==
  /\ Running(p)
  /\ pc[p] = "trigger_notify"
  /\ avail_ring' = [avail_ring EXCEPT ![avail_idx % QueueSize] = HeadOf(p)]
  /\ avail_idx' = avail_idx + 1
  /\ pc' = [pc EXCEPT ![p] = "set_flag"]
  /\ guard_intr_on' = [guard_intr_on EXCEPT ![p] = mie]
  /\ mie' = FALSE
  /\ NoSwitch
  /\ UNCHANGED <<state, channel, bit_map, desc, descs, waiting_flag, last_seen_used_idx,
                 locked, ok, in_isr, deviceVars>>

\* A trigger_notify whose guard is gone before the flag is set.
SetFlagUnguarded(p) ==
  /\ Running(p)
  /\ pc[p] = "set_flag"
  /\ IF mie = guard_intr_on[p]
     THEN /\ waiting_flag' = [waiting_flag EXCEPT ![HeadOf(p)] = TRUE]
          /\ Goto(p, "wait_complete")
     ELSE mie' = guard_intr_on[p] /\ UNCHANGED <<waiting_flag, pc>>
  /\ NoSwitch
  /\ UNCHANGED <<state, channel, bit_map, desc, descs, avail_ring, avail_idx,
                 last_seen_used_idx, locked, guard_intr_on, ok, in_isr, deviceVars>>

\* The rest of trigger_notify; QueueNotify only tells the device to look.
SetFlag(p) ==
  /\ Running(p)
  /\ pc[p] = "set_flag"
  /\ waiting_flag' = [waiting_flag EXCEPT ![HeadOf(p)] = TRUE]
  /\ pc' = [pc EXCEPT ![p] = "wait_complete"]
  /\ mie' = guard_intr_on[p]
  /\ guard_intr_on' = [guard_intr_on EXCEPT ![p] = FALSE]
  /\ NoSwitch
  /\ UNCHANGED <<state, channel, bit_map, desc, descs, avail_ring, avail_idx,
                 last_seen_used_idx, locked, ok, in_isr, deviceVars>>

\* The CriticalGuard of wait_complete.
EnterWait(p) ==
  /\ Running(p)
  /\ pc[p] = "wait_complete"
  /\ pc' = [pc EXCEPT ![p] = "wait_loop"]
  /\ guard_intr_on' = [guard_intr_on EXCEPT ![p] = mie]
  /\ mie' = FALSE
  /\ NoSwitch
  /\ UNCHANGED <<state, channel, bit_map, desc, descs, waiting_flag, avail_ring,
                 avail_idx, last_seen_used_idx, locked, ok, in_isr, deviceVars>>

\* A wait_complete that frees the head and forgets the rest.
ChainHeadOnly(p) == {HeadOf(p)}

\* The descriptors that wait_complete frees.
Chain(p) == {descs[p][i] : i \in 1..ChainLen}

\* The loop of wait_complete: sleep, or free the chain.
WaitLoop(p) ==
  /\ Running(p)
  /\ pc[p] = "wait_loop"
  /\ \/ /\ waiting_flag[HeadOf(p)]
        /\ locked' = FALSE
        /\ Sleep(p, channel_, "relock")
        /\ UNCHANGED <<bit_map, desc, descs, guard_intr_on>>
     \/ /\ ~ waiting_flag[HeadOf(p)]
        /\ bit_map' = bit_map \ Chain(p)
        /\ desc' = [d \in Descs |-> IF d \in Chain(p) THEN None ELSE desc[d]]
        /\ descs' = [descs EXCEPT ![p] = NoDescs]
        /\ pc' = [pc EXCEPT ![p] = "check_status"]
        /\ mie' = guard_intr_on[p]
        /\ guard_intr_on' = [guard_intr_on EXCEPT ![p] = FALSE]
        /\ NoSwitch
        /\ UNCHANGED <<state, channel, locked>>
  /\ UNCHANGED <<waiting_flag, avail_ring, avail_idx, last_seen_used_idx, ok, in_isr,
                 deviceVars>>

\* lk->Lock() behind Sleep's Switch spins until the lock is free.
Relock(p) ==
  /\ Running(p)
  /\ pc[p] = "relock"
  /\ ~ locked
  /\ locked' = TRUE
  /\ Goto(p, "wait_loop")
  /\ NoSwitch
  /\ UNCHANGED <<state, channel, bit_map, desc, descs, waiting_flag, avail_ring,
                 avail_idx, last_seen_used_idx, guard_intr_on, ok, in_isr, deviceVars>>

\* if (resp.status != VIRTIO_BLK_S_OK) return false.  Behind a failed
\* allocation resp was never written and holds what was on the stack.
OperateResult(p) == IF status[p] = "uninit" THEN BOOLEAN ELSE {status[p] = "OK"}

\* The end of Operate; the system call goes on and returns.
CheckStatus(p) ==
  /\ Running(p)
  /\ pc[p] \in {"check_status", "alloc_failed"}
  /\ \E result \in OperateResult(p) : ok' = [ok EXCEPT ![p] = result]
  /\ TrapRet(p)
  /\ NoSwitch
  /\ UNCHANGED <<state, channel, bit_map, desc, descs, waiting_flag, avail_ring, avail_idx,
                 last_seen_used_idx, locked, guard_intr_on, in_isr, deviceVars>>

-----------------------------------------------------------------------------
(* The device                                                              *)

DeviceFetch ==
  /\ dev_idx < avail_idx
  /\ busy' = busy \cup {avail_ring[dev_idx % QueueSize]}
  /\ dev_idx' = dev_idx + 1
  /\ UNCHANGED <<schedVars, driverVars, used_ring, used_idx, status, irq>>

\* The device writes the status where the chain's last descriptor points.
DeviceComplete(h) ==
  /\ h \in busy
  /\ busy' = busy \ {h}
  /\ \E result \in {"OK", "IOERR"} :
       status' = [p \in Slots |-> IF p = desc[h] THEN result ELSE status[p]]
  /\ used_ring' = [used_ring EXCEPT ![used_idx % QueueSize] = h]
  /\ used_idx' = used_idx + 1
  /\ irq' = TRUE
  /\ UNCHANGED <<schedVars, driverVars, dev_idx>>

-----------------------------------------------------------------------------
(* The completion interrupt.  The device goes on working during it.        *)

\* DoWork and ProcessInterrupt: InterruptStatus is acknowledged before the used
\* ring is read.
ProcessInterrupt ==
  /\ InterruptsEnabled
  /\ ~ in_isr
  /\ irq
  /\ irq' = FALSE
  /\ in_isr' = TRUE
  /\ UNCHANGED <<schedVars, bit_map, desc, descs, waiting_flag, avail_ring, avail_idx,
                 last_seen_used_idx, locked, guard_intr_on, ok, used_ring, used_idx, status,
                 dev_idx, busy>>

\* The entry behind the one that is due.
UsedElementNext == used_ring[(last_seen_used_idx + 1) % QueueSize]

UsedElement == used_ring[last_seen_used_idx % QueueSize]

\* One turn of UsedBufferNotify's loop.
UsedBufferNotify ==
  /\ in_isr
  /\ last_seen_used_idx # used_idx
  /\ waiting_flag' = [waiting_flag EXCEPT ![UsedElement] = FALSE]
  /\ last_seen_used_idx' = last_seen_used_idx + 1
  /\ Wakeup(channel_)
  /\ UNCHANGED <<saved_context, is_intr_on, pc, process_task, scan, lk_intr_on, mie,
                 panicked, bit_map, desc, descs, avail_ring, avail_idx, locked,
                 guard_intr_on, ok, in_isr, deviceVars>>

\* An interrupt that leaves completions for the next one.
LeaveEarly ==
  /\ in_isr
  /\ in_isr' = FALSE
  /\ UNCHANGED <<schedVars, bit_map, desc, descs, waiting_flag, avail_ring, avail_idx,
                 last_seen_used_idx, locked, guard_intr_on, ok, deviceVars>>

\* The end of the loop, and of the interrupt.
LeaveInterrupt ==
  /\ in_isr
  /\ last_seen_used_idx = used_idx
  /\ in_isr' = FALSE
  /\ UNCHANGED <<schedVars, bit_map, desc, descs, waiting_flag, avail_ring, avail_idx,
                 last_seen_used_idx, locked, guard_intr_on, ok, deviceVars>>

-----------------------------------------------------------------------------
DispatchStep == ~ in_isr /\ Dispatch /\ UNCHANGED <<driverVars, deviceVars>>

ClockInterrupt == ~ in_isr /\ TimerInterrupt /\ UNCHANGED <<driverVars, deviceVars>>

OperateStep(p) ==
  /\ ~ in_isr
  /\ \/ AllocMultiDesc(p) \/ TriggerNotify(p) \/ SetFlag(p) \/ EnterWait(p)
     \/ WaitLoop(p) \/ Relock(p) \/ CheckStatus(p)

StartOperate(p) == ~ in_isr /\ \E in_guard \in BOOLEAN : CallOperate(p, in_guard)

Device == DeviceFetch \/ \E h \in Descs : DeviceComplete(h)

\* Every slot holds a process that may use the disk.
Init ==
  /\ state = [s \in Slots |-> "runnable"]
  /\ channel = [s \in Slots |-> None]
  /\ saved_context = [s \in Slots |-> "ExecuteRet"]
  /\ is_intr_on = [s \in Slots |-> FALSE]
  /\ pc = [s \in Slots |-> "user"]
  /\ process_task = None
  /\ scan = 1
  /\ lk_intr_on = TRUE
  /\ mie = TRUE
  /\ panicked = "no"
  /\ bit_map = {}
  /\ desc = [d \in Descs |-> None]
  /\ descs = [s \in Slots |-> NoDescs]
  /\ waiting_flag = [d \in Descs |-> FALSE]
  /\ avail_ring = [d \in Descs |-> 0]
  /\ avail_idx = 0
  /\ used_ring = [d \in Descs |-> 0]
  /\ used_idx = 0
  /\ last_seen_used_idx = 0
  /\ locked = FALSE
  /\ guard_intr_on = [s \in Slots |-> FALSE]
  /\ status = [s \in Slots |-> "uninit"]
  /\ ok = [s \in Slots |-> FALSE]
  /\ dev_idx = 0
  /\ busy = {}
  /\ irq = FALSE
  /\ in_isr = FALSE

Next ==
  \/ DispatchStep
  \/ ClockInterrupt
  \/ ProcessInterrupt
  \/ UsedBufferNotify
  \/ LeaveInterrupt
  \/ Device
  \/ \E p \in Slots : OperateStep(p) \/ StartOperate(p)

Spec == Init /\ [][Next]_vars

(* The dispatcher and the device never stop, a pending interrupt of the     *)
(* timer or the device is taken when it can be, and a process that is       *)
(* dispatched again and again makes progress.                               *)
FairSpec ==
  /\ Spec
  /\ WF_vars(DispatchStep)
  /\ SF_vars(ClockInterrupt)
  /\ WF_vars(DeviceFetch)
  /\ \A h \in Descs : WF_vars(DeviceComplete(h))
  /\ SF_vars(ProcessInterrupt)
  /\ WF_vars(UsedBufferNotify \/ LeaveInterrupt)
  /\ \A p \in Slots : SF_vars(OperateStep(p))

-----------------------------------------------------------------------------
(* Every variable has its type. *)
TypeOK ==
  /\ SchedTypeOK
  /\ pc \in [Slots -> BlkLabels]
  /\ panicked = "no"
  /\ bit_map \subseteq Descs
  /\ desc \in [Descs -> Slots \cup {None}]
  /\ \A p \in Slots : descs[p] = NoDescs \/ descs[p] \in [1..ChainLen -> Descs]
  /\ waiting_flag \in [Descs -> BOOLEAN]
  /\ avail_ring \in [Descs -> Descs]
  /\ used_ring \in [Descs -> Descs]
  /\ avail_idx \in 0..MaxOps
  /\ dev_idx \in 0..avail_idx
  /\ used_idx \in 0..dev_idx
  /\ last_seen_used_idx \in 0..used_idx
  /\ locked \in BOOLEAN
  /\ guard_intr_on \in [Slots -> BOOLEAN]
  /\ ok \in [Slots -> BOOLEAN]
  /\ status \in [Slots -> {"uninit", "OK", "IOERR"}]
  /\ busy \subseteq Descs
  /\ irq \in BOOLEAN
  /\ in_isr \in BOOLEAN

(* The descriptors in use are exactly the chains of the transports that     *)
(* hold one, no two chains share a descriptor, and a failed allocation      *)
(* leaves none behind.                                                      *)
DescriptorsOwned ==
  /\ bit_map = {d \in Descs : \E p \in Slots : descs[p] # NoDescs /\ desc[d] = p}
  /\ \A p \in Slots : descs[p] # NoDescs =>
       {descs[p][i] : i \in 1..ChainLen} = {d \in Descs : desc[d] = p}

\* The chains the device has not finished, and those whose completion the
\* driver has not seen.
Posted == {avail_ring[i % QueueSize] : i \in dev_idx..(avail_idx - 1)}
Unseen == {used_ring[i % QueueSize] : i \in last_seen_used_idx..(used_idx - 1)}

\* The heads of requests between the store to avail.idx and that to the flag.
BeingPosted == {HeadOf(p) : p \in {q \in Slots : pc[q] = "set_flag"}}

(* Once trigger_notify has set it, a waiting flag is up exactly while the   *)
(* request is posted, worked on or completed but unseen: wait_complete      *)
(* frees a chain only when the device is done with it, and a device that    *)
(* completes before the flag is set does not leave it up for ever.          *)
FlagTracksDevice ==
  \A d \in Descs : waiting_flag[d] <=> d \in (Posted \cup busy \cup Unseen) \ BeingPosted

(* A process sleeps in wait_complete only while its request is pending, and *)
(* then an interrupt that wakes it is still to come or is at work: the      *)
(* acknowledgement cannot swallow a completion it did not see.              *)
SleeperHasRequest ==
  \A p \in Slots : state[p] = "sleep" =>
    \/ HeadOf(p) \in Posted \cup busy
    \/ HeadOf(p) \in Unseen /\ (irq \/ in_isr)

(* When Operate reads resp.status, the device has written it, unless the    *)
(* allocation of descriptors had failed: then, and only then, it is read    *)
(* unwritten (virtio_blk.h:123 does not ask).  So Operate returns true for  *)
(* what the device has done, or for a request that never got descriptors,   *)
(* which the transport has noticed (transport_mmio.h:25) and nobody reports.*)
StatusWritten ==
  \A p \in Slots :
    /\ pc[p] \in {"check_status", "alloc_failed"} =>
         (status[p] = "uninit" <=> pc[p] = "alloc_failed")
    /\ ok[p] => status[p] \in {"OK", "uninit"}

\* A process that was woken spins in Sleep's lk->Lock() with interrupts off:
\* nothing on this CPU will release the lock.
Hung == \E p \in Slots : Running(p) /\ pc[p] = "relock" /\ locked /\ ~ mie

(* Every disk operation ends, or the CPU hangs on the lock of Sleep, which  *)
(* the first of two processes woken by one interrupt takes and never gives  *)
(* back (scheduler.cc:84).  Nothing else keeps an operation from ending.    *)
OperateReturns == \A p \in Slots : ~InUser(p) ~> InUser(p) \/ Hung
=============================================================================
