--------------------------- MODULE VirtioBlkProofs ---------------------------
(***************************************************************************)
(* Proofs about VirtioBlk for every number of processes, every queue size  *)
(* and every bound on the requests below the width of used.idx.            *)
(*                                                                         *)
(* The safety invariants speak of one side each: of the bitmap, of a flag, *)
(* of a sleeper.  None is inductive alone, because a descriptor travels    *)
(* from the bitmap through the available ring, the device and the used     *)
(* ring back to the bitmap, and each party trusts that no other holds it.  *)
(* IInv follows a chain along that way: whose it is (ChainsOwned), that it *)
(* is at one place at a time (RingsSound), and that what is on the way     *)
(* belongs to a process that waits for it (PendingOwned).                  *)
(***************************************************************************)
EXTENDS VirtioBlk, RingFacts

\* Where a transport holds a chain, and where its request has been posted.
Waiting == {"set_flag", "wait_complete", "wait_loop", "relock"}
Holding == {"trigger_notify"} \cup Waiting

\* Of the tables that EXCEPT updates, TypeOK leaves out the domain of descs.
Types == TypeOK /\ descs \in [Slots -> {NoDescs} \cup [1..ChainLen -> Descs]]

\* A process sleeps nowhere but in wait_complete, while its flag is up.
SleepsInWait ==
  \A p \in Slots :
    /\ state[p] \in {"runnable", "running", "sleep"}
    /\ state[p] = "sleep" =>
         pc[p] = "relock" /\ channel[p] = channel_ /\ waiting_flag[HeadOf(p)]

\* Requests that will be posted count.
OpsBounded == avail_idx + Cardinality(Starting) <= MaxOps

\* bit_map, desc and descs agree with where each process is.
ChainsOwned ==
  /\ bit_map = {d \in Descs : desc[d] # None}
  /\ \A d \in Descs : desc[d] # None => pc[desc[d]] \in Holding
  /\ \A p \in Slots :
       IF pc[p] \in Holding
       THEN descs[p] # NoDescs /\ Chain(p) = {d \in Descs : desc[d] = p}
       ELSE descs[p] = NoDescs

\* A head is at most once in the rings and in the device.
RingsSound ==
  /\ Distinct(avail_ring, dev_idx, avail_idx, QueueSize)
  /\ Distinct(used_ring, last_seen_used_idx, used_idx, QueueSize)
  /\ Posted \cap busy = {}
  /\ Posted \cap Unseen = {}
  /\ busy \cap Unseen = {}
  /\ used_idx + Cardinality(busy) = dev_idx

\* What is in the rings or in the device is the head of a chain that is waited for.
PendingOwned ==
  \A d \in Posted \cup busy \cup Unseen :
    desc[d] # None /\ pc[desc[d]] \in Waiting /\ HeadOf(desc[d]) = d

\* The device writes the status before it gives the chain back, and nobody
\* writes it before there is a chain.
StatusFollows ==
  \A p \in Slots :
    /\ pc[p] \in Waiting /\ HeadOf(p) \notin Posted \cup busy => status[p] # "uninit"
    /\ pc[p] = "AllocMultiDesc" => status[p] = "uninit"

\* The part of StatusWritten that is about the read.
StatusRead ==
  \A p \in Slots : pc[p] \in {"check_status", "alloc_failed"} =>
    (status[p] = "uninit" <=> pc[p] = "alloc_failed")

\* And the part about the result, which stands until the next operation.
ResultsTrue ==
  \A p \in Slots : ok[p] => InUser(p) /\ status[p] \in {"OK", "uninit"}

\* Between the store to avail.idx and that to the flag no interrupt comes and
\* no other process runs, so that the driver cannot see the completion yet.
PostingAlone ==
  \A p \in Slots : pc[p] = "set_flag" =>
    /\ process_task = p /\ ~ mie /\ ~ in_isr
    /\ HeadOf(p) \in Posted \cup busy \cup Unseen

\* A completion that the driver has not seen is announced.
CompletionAnnounced == last_seen_used_idx # used_idx => irq \/ in_isr

IInv ==
  /\ Types
  /\ RunningIsCurrent
  /\ SleepsInWait
  /\ OpsBounded
  /\ ChainsOwned
  /\ RingsSound
  /\ PendingOwned
  /\ FlagTracksDevice
  /\ StatusFollows
  /\ StatusRead
  /\ CompletionAnnounced
  /\ PostingAlone

-----------------------------------------------------------------------------
(* Where the constants lie, and that the two uses of a ring are windows.    *)
LEMMA BlkFacts ==
  /\ 1 \in Slots
  /\ None \notin Slots
  /\ channel_ \in Channels /\ SleepChannel \in Channels
  /\ None # channel_
  /\ \A s \in Slots : NextSlot(s) \in Slots
  /\ QueueSize \in Nat \ {0}
  /\ 0 \in Descs
  /\ MaxOps \in Nat
  /\ NoDescs \notin [1..ChainLen -> Descs]
  /\ IsFiniteSet(Slots) /\ IsFiniteSet(Descs)
<1>1. IsFiniteSet(Slots)
  BY SchedulerAssumption, FS_Interval DEF Slots
<1>2. IsFiniteSet(Descs)
  BY VirtioAssumption, FS_Interval DEF Descs
<1>3. NoDescs \notin [1..ChainLen -> Descs]
  BY DEF NoDescs, ChainLen
<1> QED
  BY <1>1, <1>2, <1>3, SchedulerAssumption, VirtioAssumption
     DEF Slots, Channels, NextSlot, Descs, UsedIdxMod

(* The driver's view of the rings as windows. *)
LEMMA Windows ==
  /\ Posted = Window(avail_ring, dev_idx, avail_idx, QueueSize)
  /\ Unseen = Window(used_ring, last_seen_used_idx, used_idx, QueueSize)
BY DEF Posted, Unseen, Window

(* What the rings and the device hold are descriptors. *)
LEMMA PendingDescs ==
  ASSUME Types
  PROVE  Posted \cup busy \cup Unseen \subseteq Descs
<1> USE BlkFacts
<1>1. \A i \in Nat : i % QueueSize \in Descs
  BY ModRange DEF Descs
<1>2. Posted \subseteq Descs
  <2> SUFFICES ASSUME NEW i \in dev_idx..(avail_idx - 1)
               PROVE  avail_ring[i % QueueSize] \in Descs
    BY DEF Posted
  <2>1. i \in Nat
    BY DEF Types, TypeOK
  <2> QED
    BY <1>1, <2>1 DEF Types, TypeOK
<1>3. Unseen \subseteq Descs
  <2> SUFFICES ASSUME NEW i \in last_seen_used_idx..(used_idx - 1)
               PROVE  used_ring[i % QueueSize] \in Descs
    BY DEF Unseen
  <2>1. i \in Nat
    BY DEF Types, TypeOK
  <2> QED
    BY <1>1, <2>1 DEF Types, TypeOK
<1> QED
  BY <1>2, <1>3 DEF Types, TypeOK

(* Init satisfies the inductive invariant. *)
LEMMA InitInductive == Init => IInv
<1> SUFFICES ASSUME Init PROVE IInv
  OBVIOUS
<1> USE BlkFacts DEF Init
<1>1. Types
  <2>1. SchedTypeOK
    BY DEF SchedTypeOK, ProcessState, SavedContext
  <2>2. avail_ring \in [Descs -> Descs] /\ used_ring \in [Descs -> Descs]
    OBVIOUS
  <2>3. /\ descs \in [Slots -> {NoDescs} \cup [1..ChainLen -> Descs]]
        /\ \A p \in Slots : descs[p] = NoDescs
    OBVIOUS
  <2>4. /\ avail_idx \in 0..MaxOps /\ dev_idx \in 0..avail_idx
        /\ used_idx \in 0..dev_idx /\ last_seen_used_idx \in 0..used_idx
    OBVIOUS
  <2> QED
    BY <2>1, <2>2, <2>3, <2>4 DEF Types, TypeOK, BlkLabels
<1>2. RunningIsCurrent /\ SleepsInWait
  BY DEF RunningIsCurrent, SleepsInWait
<1>3. Starting = {} /\ Posted = {} /\ Unseen = {} /\ busy = {} /\ BeingPosted = {}
  BY DEF Starting, Posted, Unseen, BeingPosted
<1>4. OpsBounded
  BY <1>3, FS_EmptySet DEF OpsBounded
<1>5. ChainsOwned
  BY DEF ChainsOwned, Holding, Waiting
<1>6. RingsSound
  BY <1>3, FS_EmptySet DEF RingsSound, Distinct
<1>7. PendingOwned /\ FlagTracksDevice
  BY <1>3 DEF PendingOwned, FlagTracksDevice
<1>8. StatusFollows /\ StatusRead /\ CompletionAnnounced /\ PostingAlone
  BY DEF StatusFollows, StatusRead, CompletionAnnounced, PostingAlone, Waiting
<1> QED
  BY <1>1, <1>2, <1>4, <1>5, <1>6, <1>7, <1>8 DEF IInv

(* While interrupts are on, or another process runs, or none, nobody is in  *)
(* the middle of trigger_notify.                                            *)
LEMMA NobodyPosting ==
  ASSUME IInv, \/ InterruptsEnabled
               \/ process_task = None
               \/ in_isr
               \/ \E p \in Slots : Running(p) /\ pc[p] # "set_flag"
  PROVE  BeingPosted = {} /\ \A q \in Slots : pc[q] # "set_flag"
<1>1. \A q \in Slots : pc[q] # "set_flag"
  BY BlkFacts DEF IInv, PostingAlone, InterruptsEnabled, InUser, Running
<1> QED
  BY <1>1 DEF BeingPosted

(* Nobody enters the middle of trigger_notify without being at its start.   *)
LEMMA StaysAlone ==
  ASSUME \A q \in Slots : pc'[q] # "set_flag"
  PROVE  PostingAlone' /\ BeingPosted' = {}
BY DEF PostingAlone, BeingPosted

-----------------------------------------------------------------------------
(* Steps of the scheduler: they leave the driver and the device alone.      *)
LEMMA SchedulerQuiet ==
  ASSUME IInv, UNCHANGED <<pc, driverVars, deviceVars>>
  PROVE  /\ OpsBounded' /\ ChainsOwned' /\ RingsSound' /\ PendingOwned'
         /\ FlagTracksDevice' /\ StatusFollows' /\ StatusRead' /\ CompletionAnnounced'
<1> USE DEF driverVars, deviceVars
<1>1. Posted' = Posted /\ Unseen' = Unseen /\ busy' = busy /\ BeingPosted' = BeingPosted
  BY DEF Posted, Unseen, BeingPosted, HeadOf
<1>2. Starting' = Starting
  BY DEF Starting
<1>3. OpsBounded'
  BY <1>2 DEF IInv, OpsBounded
<1>4. ChainsOwned'
  BY DEF IInv, ChainsOwned, Chain
<1>5. RingsSound'
  BY <1>1 DEF IInv, RingsSound, Distinct
<1>6. PendingOwned' /\ FlagTracksDevice'
  BY <1>1 DEF IInv, PendingOwned, FlagTracksDevice, HeadOf
<1>7. StatusFollows' /\ StatusRead' /\ CompletionAnnounced'
  BY <1>1 DEF IInv, StatusFollows, StatusRead, CompletionAnnounced, HeadOf
<1> QED
  BY <1>3, <1>4, <1>5, <1>6, <1>7

(* Dispatch runs a task that is runnable, so none that sleeps. *)
LEMMA DispatchInductive == IInv /\ DispatchStep => IInv'
<1> SUFFICES ASSUME IInv, DispatchStep PROVE IInv'
  OBVIOUS
<1> USE BlkFacts DEF DispatchStep, driverVars, deviceVars
<1>0. PostingAlone'
  BY NobodyPosting, StaysAlone DEF Dispatch, DispatchSkip, DispatchRun
<1>1. CASE DispatchSkip
  <2> USE <1>1 DEF DispatchSkip
  <2>1. Types'
    BY DEF IInv, Types, TypeOK, SchedTypeOK
  <2>2. RunningIsCurrent' /\ SleepsInWait'
    BY DEF IInv, RunningIsCurrent, SleepsInWait, Alive, HeadOf
  <2> QED
    BY <1>0, <2>1, <2>2, SchedulerQuiet DEF IInv
<1>2. CASE DispatchRun
  <2> USE <1>2 DEF DispatchRun
  <2>1. Types'
    BY DEF IInv, Types, TypeOK, SchedTypeOK, ProcessState, SavedContext, ResumedMie
  <2>2. RunningIsCurrent'
    BY DEF IInv, Types, TypeOK, SchedTypeOK, RunningIsCurrent, Alive
  <2>3. SleepsInWait'
    BY DEF IInv, Types, TypeOK, SchedTypeOK, SleepsInWait, HeadOf
  <2> QED
    BY <1>0, <2>1, <2>2, <2>3, SchedulerQuiet DEF IInv
<1> QED
  BY <1>1, <1>2 DEF Dispatch

(* The timer preempts the running process and wakes only sleepers on the    *)
(* sleep channel.                                                           *)
LEMMA TimerInductive == IInv /\ ClockInterrupt => IInv'
<1> SUFFICES ASSUME IInv, ClockInterrupt PROVE IInv'
  OBVIOUS
<1> USE BlkFacts DEF ClockInterrupt, driverVars, deviceVars
<1>0. PostingAlone'
  BY NobodyPosting, StaysAlone DEF TimerInterrupt, TimerIdle, TimerProcess
<1>1. CASE TimerIdle
  <2> USE <1>1 DEF TimerIdle, Wakeup, Sleepers
  <2>1. Types'
    BY DEF IInv, Types, TypeOK, SchedTypeOK, ProcessState
  <2>2. RunningIsCurrent' /\ SleepsInWait'
    BY DEF IInv, RunningIsCurrent, SleepsInWait, Alive, HeadOf, Types, TypeOK, SchedTypeOK
  <2> QED
    BY <1>0, <2>1, <2>2, SchedulerQuiet DEF IInv
<1>2. ASSUME NEW p \in Slots, TimerProcess(p) PROVE IInv'
  <2> USE <1>2 DEF TimerProcess, SwitchToDispatch, Sleepers
  <2>1. Types'
    BY DEF IInv, Types, TypeOK, SchedTypeOK, ProcessState, SavedContext
  <2>2. RunningIsCurrent' /\ SleepsInWait'
    BY DEF IInv, RunningIsCurrent, SleepsInWait, Alive, HeadOf, Types, TypeOK, SchedTypeOK
  <2> QED
    BY <1>0, <2>1, <2>2, SchedulerQuiet DEF IInv
<1> QED
  BY <1>1, <1>2 DEF TimerInterrupt
-----------------------------------------------------------------------------
(* The acknowledgement takes irq back, and from then on the interrupt is at *)
(* work.                                                                    *)
LEMMA ProcessInterruptInductive == IInv /\ ProcessInterrupt => IInv'
<1> SUFFICES ASSUME IInv, ProcessInterrupt PROVE IInv'
  OBVIOUS
<1> USE DEF ProcessInterrupt, schedVars
<1>1. Posted' = Posted /\ Unseen' = Unseen /\ busy' = busy /\ BeingPosted' = BeingPosted
  BY DEF Posted, Unseen, BeingPosted, HeadOf
<1>2. Types'
  BY DEF IInv, Types, TypeOK, SchedTypeOK
<1>3. RunningIsCurrent' /\ SleepsInWait' /\ OpsBounded'
  BY DEF IInv, RunningIsCurrent, SleepsInWait, OpsBounded, Starting, Alive, HeadOf
<1>4. ChainsOwned' /\ RingsSound'
  BY <1>1 DEF IInv, ChainsOwned, Chain, RingsSound, Distinct
<1>5. PendingOwned' /\ FlagTracksDevice'
  BY <1>1 DEF IInv, PendingOwned, FlagTracksDevice, HeadOf
<1>6. StatusFollows' /\ StatusRead' /\ CompletionAnnounced'
  BY <1>1 DEF IInv, StatusFollows, StatusRead, CompletionAnnounced, HeadOf
<1>7. PostingAlone'
  BY NobodyPosting, StaysAlone
<1> QED
  BY <1>2, <1>3, <1>4, <1>5, <1>6, <1>7 DEF IInv

(* The interrupt ends only when it has seen every completion. *)
LEMMA LeaveInterruptInductive == IInv /\ LeaveInterrupt => IInv'
<1> SUFFICES ASSUME IInv, LeaveInterrupt PROVE IInv'
  OBVIOUS
<1> USE DEF LeaveInterrupt, schedVars, deviceVars
<1>1. Posted' = Posted /\ Unseen' = Unseen /\ busy' = busy /\ BeingPosted' = BeingPosted
  BY DEF Posted, Unseen, BeingPosted, HeadOf
<1>2. Types'
  BY DEF IInv, Types, TypeOK, SchedTypeOK
<1>3. RunningIsCurrent' /\ SleepsInWait' /\ OpsBounded'
  BY DEF IInv, RunningIsCurrent, SleepsInWait, OpsBounded, Starting, Alive, HeadOf
<1>4. ChainsOwned' /\ RingsSound'
  BY <1>1 DEF IInv, ChainsOwned, Chain, RingsSound, Distinct
<1>5. PendingOwned' /\ FlagTracksDevice'
  BY <1>1 DEF IInv, PendingOwned, FlagTracksDevice, HeadOf
<1>6. StatusFollows' /\ StatusRead' /\ CompletionAnnounced'
  BY <1>1 DEF IInv, StatusFollows, StatusRead, CompletionAnnounced, HeadOf
<1>7. PostingAlone'
  BY NobodyPosting, StaysAlone
<1> QED
  BY <1>2, <1>3, <1>4, <1>5, <1>6, <1>7 DEF IInv

(* One turn of the loop takes the completion that is due out of the used    *)
(* ring, lowers its flag and wakes everybody who might wait for it.         *)
LEMMA UsedBufferNotifyInductive == IInv /\ UsedBufferNotify => IInv'
<1> SUFFICES ASSUME IInv, UsedBufferNotify PROVE IInv'
  OBVIOUS
<1> USE BlkFacts DEF UsedBufferNotify, Wakeup, Sleepers, deviceVars
<1> DEFINE u == UsedElement
<1>1. /\ last_seen_used_idx \in Nat /\ used_idx \in Nat
      /\ last_seen_used_idx < used_idx
      /\ last_seen_used_idx + 1 \in 0..used_idx
  BY DEF IInv, Types, TypeOK
<1>2. Distinct(used_ring, last_seen_used_idx, used_idx, QueueSize)
  BY DEF IInv, RingsSound
<1>3. /\ u \in Unseen
      /\ Unseen' = Unseen \ {u}
      /\ Distinct(used_ring, last_seen_used_idx + 1, used_idx, QueueSize)
  <2>1. Unseen' = Window(used_ring, last_seen_used_idx + 1, used_idx, QueueSize)
    BY DEF Unseen, Window
  <2> QED
    BY <1>1, <1>2, <2>1, Windows, WindowPop DEF UsedElement
<1>4. Posted' = Posted /\ busy' = busy
  BY DEF Posted
<1>5. u \in Descs
  <2>1. last_seen_used_idx % QueueSize \in Descs
    BY <1>1, ModRange DEF Descs
  <2> QED
    BY <2>1 DEF IInv, Types, TypeOK, UsedElement
<1>6. Types'
  BY <1>1, <1>5 DEF IInv, Types, TypeOK, SchedTypeOK, ProcessState
<1>7. RunningIsCurrent' /\ SleepsInWait'
  BY DEF IInv, Types, TypeOK, SchedTypeOK, RunningIsCurrent, SleepsInWait, Alive
<1>8. OpsBounded' /\ ChainsOwned'
  BY DEF IInv, OpsBounded, Starting, ChainsOwned, Chain
<1>9. RingsSound'
  BY <1>3, <1>4 DEF IInv, RingsSound, Distinct
<1>10. PendingOwned'
  BY <1>3, <1>4 DEF IInv, PendingOwned, HeadOf
<1>0. BeingPosted = {} /\ BeingPosted' = {} /\ PostingAlone'
  BY NobodyPosting, StaysAlone
<1>11. FlagTracksDevice'
  BY <1>0, <1>3, <1>4, <1>5 DEF IInv, Types, TypeOK, FlagTracksDevice, RingsSound
<1>12. StatusFollows' /\ StatusRead' /\ CompletionAnnounced'
  BY <1>4 DEF IInv, StatusFollows, StatusRead, CompletionAnnounced, HeadOf
<1> QED
  BY <1>0, <1>6, <1>7, <1>8, <1>9, <1>10, <1>11, <1>12 DEF IInv

-----------------------------------------------------------------------------
(* The device takes the head that is due out of the available ring. *)
LEMMA DeviceFetchInductive == IInv /\ DeviceFetch => IInv'
<1> SUFFICES ASSUME IInv, DeviceFetch PROVE IInv'
  OBVIOUS
<1> USE BlkFacts DEF DeviceFetch, schedVars, driverVars
<1> DEFINE h == avail_ring[dev_idx % QueueSize]
<1>1. dev_idx \in Nat /\ avail_idx \in Nat /\ dev_idx + 1 \in 0..avail_idx
  BY DEF IInv, Types, TypeOK
<1>2. Distinct(avail_ring, dev_idx, avail_idx, QueueSize)
  BY DEF IInv, RingsSound
<1>3. /\ h \in Posted
      /\ Posted' = Posted \ {h}
      /\ Distinct(avail_ring, dev_idx + 1, avail_idx, QueueSize)
  <2>1. Posted' = Window(avail_ring, dev_idx + 1, avail_idx, QueueSize)
    BY DEF Posted, Window
  <2> QED
    BY <1>1, <1>2, <2>1, Windows, WindowPop
<1>4. Unseen' = Unseen
  BY DEF Unseen
<1>5. h \in Descs
  <2>1. dev_idx % QueueSize \in Descs
    BY <1>1, ModRange DEF Descs
  <2> QED
    BY <2>1 DEF IInv, Types, TypeOK
<1>6. busy' = busy \cup {h} /\ h \notin busy
  BY <1>3 DEF IInv, RingsSound
<1> HIDE DEF h
<1>7. Types'
  BY <1>1, <1>5 , <1>6 DEF IInv, Types, TypeOK, SchedTypeOK
<1>8. RunningIsCurrent' /\ SleepsInWait' /\ OpsBounded' /\ ChainsOwned'
  BY DEF IInv, RunningIsCurrent, SleepsInWait, Alive, HeadOf, OpsBounded, Starting,
         ChainsOwned, Chain
<1>9. used_idx' + Cardinality(busy') = dev_idx'
  <2>1. IsFiniteSet(busy) /\ Cardinality(busy) \in Nat
    BY FS_Subset, FS_CardinalityType DEF IInv, Types, TypeOK
  <2>2. Cardinality(busy') = Cardinality(busy) + 1
    BY <1>6, <2>1, FS_AddElement
  <2> QED
    BY <1>1, <2>1, <2>2 DEF IInv, RingsSound, Types, TypeOK
<1>10. RingsSound'
  BY <1>3, <1>4, <1>6, <1>9 DEF IInv, RingsSound, Distinct
<1>0. BeingPosted' = BeingPosted /\ PostingAlone'
  BY <1>3, <1>4, <1>6 DEF IInv, BeingPosted, PostingAlone, HeadOf
<1>11. PendingOwned' /\ FlagTracksDevice'
  BY <1>0, <1>3, <1>4, <1>6 DEF IInv, PendingOwned, HeadOf, FlagTracksDevice
<1>12. StatusFollows' /\ StatusRead' /\ CompletionAnnounced'
  BY <1>3, <1>6 DEF IInv, StatusFollows, StatusRead, CompletionAnnounced, HeadOf
<1> QED
  BY <1>0, <1>7, <1>8, <1>10, <1>11, <1>12 DEF IInv

(* The device writes the status of the process whose chain it gives back,   *)
(* and the used ring has room for the head: it does not hold it already.    *)
LEMMA DeviceCompleteInductive ==
  ASSUME IInv, NEW h \in Descs, DeviceComplete(h)
  PROVE  IInv'
<1> USE BlkFacts DEF DeviceComplete, schedVars, driverVars
<1>1. /\ used_idx \in Nat /\ last_seen_used_idx \in Nat /\ dev_idx \in Nat
      /\ last_seen_used_idx <= used_idx
      /\ used_ring \in [0..(QueueSize - 1) -> 0..(QueueSize - 1)]
      /\ h \in 0..(QueueSize - 1)
  <2>1. /\ avail_idx \in 0..MaxOps /\ dev_idx \in 0..avail_idx /\ used_idx \in 0..dev_idx
        /\ last_seen_used_idx \in 0..used_idx /\ used_ring \in [Descs -> Descs]
    BY DEF IInv, Types, TypeOK
  <2> QED
    BY ONLY <2>1, BlkFacts, h \in Descs DEF Descs
<1>2. h \notin Unseen /\ h \notin Posted
  BY DEF IInv, RingsSound
<1>3. Distinct(used_ring, last_seen_used_idx, used_idx, QueueSize)
  BY DEF IInv, RingsSound
<1>4. HasRoom(used_ring, last_seen_used_idx, used_idx, QueueSize, h)
  BY <1>1, <1>2, <1>3, Windows, WindowHasRoom
<1>5. /\ Unseen' = Unseen \cup {h}
      /\ Distinct(used_ring', last_seen_used_idx, used_idx + 1, QueueSize)
  <2>1. Unseen' = Window(used_ring', last_seen_used_idx, used_idx + 1, QueueSize)
    BY DEF Unseen, Window
  <2>2. Written(used_ring', used_ring, used_idx, QueueSize, h)
    BY DEF Written
  <2>3. /\ Window(used_ring', last_seen_used_idx, used_idx + 1, QueueSize)
             = Window(used_ring, last_seen_used_idx, used_idx, QueueSize) \cup {h}
        /\ Distinct(used_ring', last_seen_used_idx, used_idx + 1, QueueSize)
    BY ONLY <1>4, <2>2, WindowPush
  <2> QED
    BY <2>1, <2>3, Windows
<1>6. Posted' = Posted /\ busy' = busy \ {h}
  BY DEF Posted
<1>7. used_idx + 1 + Cardinality(busy') = dev_idx /\ used_idx + 1 \in 0..dev_idx
  <2>1. IsFiniteSet(busy) /\ IsFiniteSet(busy') /\ Cardinality(busy') \in Nat
    BY FS_Subset, FS_CardinalityType DEF IInv, Types, TypeOK
  <2>2. Cardinality(busy') = Cardinality(busy) - 1 /\ Cardinality(busy) \in Nat
    BY <2>1, FS_RemoveElement, FS_CardinalityType
  <2> QED
    BY <1>1, <2>1, <2>2 DEF IInv, RingsSound
<1>8. used_ring' \in [Descs -> Descs]
  BY DEF IInv, Types, TypeOK
<1>9. status' \in [Slots -> {"uninit", "OK", "IOERR"}]
  BY DEF IInv, Types, TypeOK
<1>10. Types'
  <2>1. last_seen_used_idx \in 0..used_idx /\ last_seen_used_idx \in 0..(used_idx + 1)
    BY ONLY <1>1
  <2> QED
    BY <1>7, <1>8, <1>9, <2>1 DEF IInv, Types, TypeOK, SchedTypeOK
<1>11. RunningIsCurrent' /\ SleepsInWait' /\ OpsBounded' /\ ChainsOwned'
  BY DEF IInv, RunningIsCurrent, SleepsInWait, Alive, HeadOf, OpsBounded, Starting,
         ChainsOwned, Chain
<1>12. RingsSound'
  BY <1>2, <1>5, <1>6, <1>7 DEF IInv, RingsSound, Distinct
<1>0. BeingPosted' = BeingPosted /\ PostingAlone'
  BY <1>5, <1>6 DEF IInv, BeingPosted, PostingAlone, HeadOf
<1>13. PendingOwned' /\ FlagTracksDevice'
  BY <1>0, <1>5, <1>6 DEF IInv, PendingOwned, HeadOf, FlagTracksDevice
<1>14. desc[h] \in Slots /\ HeadOf(desc[h]) = h /\ pc[desc[h]] \in Waiting
  BY DEF IInv, PendingOwned, Types, TypeOK
<1>15. StatusRead' /\ CompletionAnnounced'
  BY <1>14 DEF IInv, StatusRead, CompletionAnnounced, Waiting
<1>16. StatusFollows'
  <2>0. \A p \in Slots : pc[p] = "AllocMultiDesc" => status'[p] = "uninit"
    BY <1>14 DEF IInv, StatusFollows, Waiting
  <2> SUFFICES ASSUME NEW p \in Slots, pc[p] \in Waiting, HeadOf(p) \notin Posted \cup busy'
               PROVE  status'[p] # "uninit"
    BY <1>6, <2>0 DEF StatusFollows, HeadOf
  <2>1. CASE HeadOf(p) = h
    <3>1. desc[h] = p
      BY <2>1 DEF IInv, ChainsOwned, Holding, Chain, HeadOf, ChainLen
    <3> QED
      BY <3>1
  <2>2. CASE HeadOf(p) # h
    BY <1>6, <2>2 DEF IInv, StatusFollows
  <2> QED
    BY <2>1, <2>2
<1> QED
  BY <1>0, <1>10, <1>11, <1>12, <1>13, <1>15, <1>16 DEF IInv
-----------------------------------------------------------------------------
(* The steps of a process.  The one that runs does not sleep. *)
LEMMA RunnerAwake ==
  ASSUME IInv, NEW p \in Slots, Running(p)
  PROVE  state[p] = "running"
BY DEF IInv, RunningIsCurrent, Running

(* Starting is a finite set of slots. *)
LEMMA StartingFinite == IsFiniteSet(Starting) /\ Cardinality(Starting) \in Nat
<1>1. Starting \in SUBSET Slots
  BY DEF Starting
<1> QED
  BY <1>1, BlkFacts, FS_Subset, FS_CardinalityType

(* CriticalGuards, Lock and TrapRet move a process from one place to another *)
(* of the same kind: where it waits, or where it holds no chain.            *)
LEMMA MoveInductive ==
  ASSUME IInv, NEW p \in Slots, Running(p),
         NEW label \in BlkLabels, pc' = [pc EXCEPT ![p] = label],
         \/ pc[p] \in Waiting \ {"set_flag"} /\ label \in Waiting \ {"set_flag"}
         \/ pc[p] \in {"check_status", "alloc_failed"} /\ label = "user",
         Types',
         UNCHANGED <<state, channel, process_task, panicked, bit_map, desc, descs,
                     waiting_flag, avail_ring, avail_idx, last_seen_used_idx, in_isr,
                     deviceVars>>
  PROVE  IInv'
<1> USE BlkFacts DEF deviceVars
<1>1. state[p] = "running"
  BY RunnerAwake
<1>2. pc \in [Slots -> BlkLabels]
  BY DEF IInv, Types, TypeOK
<1>3. Posted' = Posted /\ Unseen' = Unseen /\ busy' = busy
  BY DEF Posted, Unseen
<1>4. RunningIsCurrent' /\ SleepsInWait'
  BY <1>1, <1>2 DEF IInv, RunningIsCurrent, SleepsInWait, Alive, HeadOf
<1>5. OpsBounded'
  <2>1. Starting' = Starting
    BY <1>2 DEF Starting, Waiting
  <2> QED
    BY <2>1 DEF IInv, OpsBounded
<1>6. ChainsOwned'
  <2>1. \A q \in Slots : pc'[q] \in Holding <=> pc[q] \in Holding
    BY <1>2 DEF Holding, Waiting
  <2>2. \A q \in Slots : Chain(q)' = Chain(q)
    BY DEF Chain
  <2> QED
    BY <2>1, <2>2 DEF IInv, ChainsOwned, Types, TypeOK
<1>7. RingsSound'
  BY <1>3 DEF IInv, RingsSound, Distinct
<1>8. \A q \in Slots : pc'[q] \in Waiting <=> pc[q] \in Waiting
  BY <1>2 DEF Waiting
<1>0. BeingPosted = {} /\ BeingPosted' = {} /\ PostingAlone'
  <2>1. BeingPosted = {} /\ \A q \in Slots : pc[q] # "set_flag"
    BY NobodyPosting
  <2> QED
    BY <1>2, <2>1, StaysAlone
<1>9. PendingOwned' /\ FlagTracksDevice'
  <2>1. \A d \in Posted \cup busy \cup Unseen : desc[d] \in Slots
    BY PendingDescs DEF IInv, PendingOwned, Types, TypeOK
  <2> QED
    BY <1>0, <1>3, <1>8, <2>1 DEF IInv, PendingOwned, FlagTracksDevice, HeadOf
<1>10. StatusFollows' /\ StatusRead' /\ CompletionAnnounced'
  BY <1>2, <1>3, <1>8 DEF IInv, StatusFollows, StatusRead, CompletionAnnounced, HeadOf,
     Waiting
<1> QED
  BY <1>0, <1>4, <1>5, <1>6, <1>7, <1>9, <1>10 DEF IInv

(* wait_complete's guard is entered. *)
LEMMA EnterWaitInductive ==
  ASSUME IInv, NEW p \in Slots, EnterWait(p)
  PROVE  IInv'
<1> USE BlkFacts DEF EnterWait, NoSwitch
<1>1. Types'
  BY DEF IInv, Types, TypeOK, SchedTypeOK, BlkLabels, deviceVars
<1>2. /\ "wait_loop" \in BlkLabels /\ pc[p] \in Waiting \ {"set_flag"}
      /\ "wait_loop" \in Waiting \ {"set_flag"}
  BY DEF BlkLabels, Waiting
<1> QED
  BY <1>1, <1>2, MoveInductive

(* The lock is taken again. *)
LEMMA RelockInductive ==
  ASSUME IInv, NEW p \in Slots, Relock(p)
  PROVE  IInv'
<1> USE BlkFacts DEF Relock, NoSwitch, Goto
<1>1. Types'
  BY DEF IInv, Types, TypeOK, SchedTypeOK, BlkLabels, deviceVars
<1>2. /\ "wait_loop" \in BlkLabels /\ pc[p] \in Waiting \ {"set_flag"}
      /\ "wait_loop" \in Waiting \ {"set_flag"}
  BY DEF BlkLabels, Waiting
<1> QED
  BY <1>1, <1>2, MoveInductive

(* Operate returns. *)
LEMMA CheckStatusInductive ==
  ASSUME IInv, NEW p \in Slots, CheckStatus(p)
  PROVE  IInv'
<1> USE BlkFacts DEF CheckStatus, NoSwitch, TrapRet
<1>0. ok' \in [Slots -> BOOLEAN]
  BY DEF OperateResult, IInv, Types, TypeOK
<1>1. Types'
  BY <1>0 DEF IInv, Types, TypeOK, SchedTypeOK, BlkLabels, deviceVars
<1>2. "user" \in BlkLabels
  BY DEF BlkLabels
<1> QED
  BY <1>1, <1>2, MoveInductive

(* A request that starts counts towards the bound and holds nothing yet. *)
LEMMA CallOperateInductive ==
  ASSUME IInv, NEW p \in Slots, NEW in_guard \in BOOLEAN, CallOperate(p, in_guard)
  PROVE  IInv'
<1> USE BlkFacts DEF CallOperate, NoSwitch
<1>1. state[p] = "running" /\ pc[p] = "user"
  BY RunnerAwake DEF InUser
<1>2. pc \in [Slots -> BlkLabels]
  BY DEF IInv, Types, TypeOK
<1>3. Posted' = Posted /\ Unseen' = Unseen /\ busy' = busy
  BY DEF Posted, Unseen
<1>4. Types'
  BY DEF IInv, Types, TypeOK, SchedTypeOK, BlkLabels
<1>5. RunningIsCurrent' /\ SleepsInWait'
  BY <1>1, <1>2 DEF IInv, RunningIsCurrent, SleepsInWait, Alive, HeadOf
<1>6. OpsBounded'
  <2>1. Starting' = Starting \cup {p} /\ p \notin Starting
    BY <1>1, <1>2 DEF Starting
  <2>2. Cardinality(Starting') = Cardinality(Starting) + 1
    BY <2>1, StartingFinite, FS_AddElement
  <2>3. avail_idx + Cardinality(Starting) < MaxOps
    OBVIOUS
  <2> QED
    BY <2>2, <2>3, StartingFinite DEF IInv, OpsBounded, Types, TypeOK
<1>7. ChainsOwned'
  <2>1. \A q \in Slots : pc'[q] \in Holding <=> pc[q] \in Holding
    BY <1>1, <1>2 DEF Holding, Waiting
  <2>2. \A q \in Slots : Chain(q)' = Chain(q)
    BY DEF Chain
  <2> QED
    BY <2>1, <2>2 DEF IInv, ChainsOwned, Types, TypeOK
<1>8. RingsSound'
  BY <1>3 DEF IInv, RingsSound, Distinct
<1>9. \A q \in Slots : pc'[q] \in Waiting <=> pc[q] \in Waiting
  BY <1>1, <1>2 DEF Waiting
<1>0. BeingPosted = {} /\ BeingPosted' = {} /\ PostingAlone'
  <2>1. BeingPosted = {} /\ \A q \in Slots : pc[q] # "set_flag"
    BY <1>1, NobodyPosting
  <2> QED
    BY <1>2, <2>1, StaysAlone
<1>10. PendingOwned' /\ FlagTracksDevice'
  <2>1. \A d \in Posted \cup busy \cup Unseen : desc[d] \in Slots
    BY PendingDescs DEF IInv, PendingOwned, Types, TypeOK
  <2> QED
    BY <1>0, <1>3, <1>9, <2>1 DEF IInv, PendingOwned, FlagTracksDevice, HeadOf
<1>11. StatusFollows' /\ StatusRead' /\ CompletionAnnounced'
  <2>1. \A q \in Slots : q # p => status'[q] = status[q] /\ pc'[q] = pc[q]
    BY <1>2 DEF IInv, Types, TypeOK
  <2>2. /\ pc'[p] \notin Waiting /\ pc'[p] \notin {"check_status", "alloc_failed"}
        /\ status'[p] = "uninit"
    BY <1>2 DEF Waiting, IInv, Types, TypeOK
  <2> QED
    BY <1>3, <2>1, <2>2
       DEF IInv, StatusFollows, StatusRead, CompletionAnnounced, HeadOf
<1> QED
  BY <1>0, <1>4, <1>5, <1>6, <1>7, <1>8, <1>10, <1>11 DEF IInv

(* AllocDesc's loop finds the least of the free descriptors. *)
LEMMA FirstIn ==
  ASSUME NEW D \in SUBSET Descs, D # {}
  PROVE  First(D) \in D
<1>1. D \in SUBSET Nat
  BY BlkFacts DEF Descs
<1>2. \E d \in D : \A e \in D : d <= e
  BY <1>1, Least
<1> QED
  BY <1>2 DEF First

(* With three free descriptors AllocMultiDesc takes three different ones. *)
LEMMA AllocThree ==
  ASSUME Cardinality(Free) >= ChainLen
  PROVE  LET a == First(Free)
             b == First(Free \ {a})
             c == First(Free \ {a, b})
         IN  a \in Free /\ b \in Free \ {a} /\ c \in Free \ {a, b}
<1> DEFINE a == First(Free)
           b == First(Free \ {a})
           c == First(Free \ {a, b})
<1> USE DEF ChainLen
<1>1. Free \in SUBSET Descs /\ IsFiniteSet(Free) /\ Cardinality(Free) \in Nat
  <2>1. Free \in SUBSET Descs
    BY DEF Free
  <2> QED
    BY <2>1, BlkFacts, FS_Subset, FS_CardinalityType
<1>2. a \in Free
  BY <1>1, FS_EmptySet, FirstIn
<1>3. IsFiniteSet(Free \ {a}) /\ Cardinality(Free \ {a}) = Cardinality(Free) - 1
  BY <1>1, <1>2, FS_RemoveElement
<1>4. b \in Free \ {a}
  BY <1>1, <1>3, FS_EmptySet, FirstIn
<1>5. Free \ {a, b} = (Free \ {a}) \ {b}
  OBVIOUS
<1>6. /\ IsFiniteSet(Free \ {a, b})
      /\ Cardinality(Free \ {a, b}) = Cardinality(Free \ {a}) - 1
  BY <1>3, <1>4, <1>5, FS_RemoveElement
<1>7. c \in Free \ {a, b}
  <2>1. Cardinality(Free \ {a, b}) # 0
    BY <1>1, <1>3, <1>6
  <2>2. Free \ {a, b} # {} /\ Free \ {a, b} \in SUBSET Descs
    BY <1>1, <1>6, <2>1, FS_EmptySet
  <2> QED
    BY <2>2, FirstIn
<1> QED
  BY <1>2, <1>4, <1>7
(* A chain that AllocMultiDesc hands out was nobody's and is in no ring; a  *)
(* failed allocation leaves everything as it was.                           *)
LEMMA AllocMultiDescInductive ==
  ASSUME IInv, NEW p \in Slots, AllocMultiDesc(p)
  PROVE  IInv'
<1> USE BlkFacts DEF AllocMultiDesc, NoSwitch, Goto, deviceVars
<1>1. state[p] = "running" /\ pc[p] = "AllocMultiDesc"
  BY RunnerAwake
<1>2. pc \in [Slots -> BlkLabels]
  BY DEF IInv, Types, TypeOK
<1>3. Posted' = Posted /\ Unseen' = Unseen /\ busy' = busy
  BY DEF Posted, Unseen
<1>4. RingsSound' /\ CompletionAnnounced'
  BY <1>3 DEF IInv, RingsSound, Distinct, CompletionAnnounced
<1>5. RunningIsCurrent'
  BY DEF IInv, RunningIsCurrent, Alive
<1>6. \A d \in Posted \cup busy \cup Unseen : d \in Descs /\ desc[d] \in Slots \ {p}
  BY <1>1, PendingDescs DEF IInv, PendingOwned, Types, TypeOK, Waiting
<1>7. \A q \in Slots : pc'[q] \in Waiting <=> pc[q] \in Waiting
  BY <1>1, <1>2 DEF Waiting
<1>8. descs[p] = NoDescs /\ \A d \in Descs : desc[d] # p
  BY <1>1 DEF IInv, ChainsOwned, Holding, Waiting
<1>0. Cardinality(Free) \in Nat
  <2>1. Free \in SUBSET Descs
    BY DEF Free
  <2> QED
    BY <2>1, FS_Subset, FS_CardinalityType
<1>12. BeingPosted = {} /\ BeingPosted' = {} /\ PostingAlone'
  <2>1. BeingPosted = {} /\ \A q \in Slots : pc[q] # "set_flag"
    BY <1>1, NobodyPosting
  <2>2. \A q \in Slots : pc'[q] # "set_flag"
    BY <1>2, <2>1
  <2> QED
    BY <2>1, <2>2, StaysAlone
<1>9. CASE Cardinality(Free) < ChainLen
  <2>1. /\ pc' = [pc EXCEPT ![p] = "alloc_failed"]
        /\ UNCHANGED <<bit_map, descs, desc, mie>>
    BY <1>0, <1>9 DEF ChainLen
  <2>2. Types'
    BY <2>1 DEF IInv, Types, TypeOK, SchedTypeOK, BlkLabels
  <2>3. SleepsInWait'
    BY <1>1, <1>2, <2>1 DEF IInv, SleepsInWait, HeadOf
  <2>4. OpsBounded'
    <3>1. Starting' = Starting \ {p} /\ p \in Starting
      BY <1>1, <1>2, <2>1 DEF Starting
    <3>2. Cardinality(Starting') = Cardinality(Starting) - 1
      BY <3>1, StartingFinite, FS_RemoveElement
    <3> QED
      BY <3>2, StartingFinite DEF IInv, OpsBounded, Types, TypeOK
  <2>5. ChainsOwned'
    <3>1. \A q \in Slots : pc'[q] \in Holding <=> pc[q] \in Holding
      BY <1>1, <1>2, <2>1 DEF Holding, Waiting
    <3>2. \A q \in Slots : Chain(q)' = Chain(q)
      BY <2>1 DEF Chain
    <3> QED
      BY <2>1, <3>1, <3>2 DEF IInv, ChainsOwned, Types, TypeOK
  <2>6. PendingOwned' /\ FlagTracksDevice'
    BY <1>3, <1>6, <1>7, <1>12, <2>1 DEF IInv, PendingOwned, FlagTracksDevice, HeadOf
  <2>7. StatusFollows' /\ StatusRead'
    BY <1>1, <1>2, <1>3, <1>7, <2>1 DEF IInv, StatusFollows, StatusRead, HeadOf
  <2> QED
    BY <1>4, <1>5, <1>12, <2>2, <2>3, <2>4, <2>5, <2>6, <2>7 DEF IInv
<1>10. CASE Cardinality(Free) >= ChainLen
  <2> DEFINE a == First(Free)
             b == First(Free \ {a})
             c == First(Free \ {a, b})
  <2>1. a \in Free /\ b \in Free \ {a} /\ c \in Free \ {a, b}
    BY <1>10, AllocThree
  <2>2. /\ bit_map' = bit_map \cup {a, b, c}
        /\ descs' = [descs EXCEPT ![p] = <<a, b, c>>]
        /\ desc' = [d \in Descs |-> IF d \in {a, b, c} THEN p ELSE desc[d]]
        /\ pc' = [pc EXCEPT ![p] = "trigger_notify"]
        /\ mie' = mie
    <3>1. ~ (Cardinality(Free) < ChainLen)
      BY <1>0, <1>10 DEF ChainLen
    <3> QED
      BY <3>1, Zenon
  <2> HIDE DEF a, b, c
  <2>3. {a, b, c} \subseteq Descs /\ {a, b, c} \cap bit_map = {}
    BY <2>1 DEF Free
  <2>4. \A d \in {a, b, c} : desc[d] = None
    BY <2>3 DEF IInv, ChainsOwned
  <2>5. /\ \A q \in Slots : q # p => descs'[q] = descs[q] /\ pc'[q] = pc[q]
        /\ descs'[p] = <<a, b, c>>
        /\ pc'[p] = "trigger_notify"
    BY <1>2, <2>2 DEF IInv, Types
  <2>6. <<a, b, c>> \in [1..ChainLen -> Descs]
    BY <2>3 DEF ChainLen
  <2>7. Types'
    <3>1. SchedTypeOK' /\ pc' \in [Slots -> BlkLabels] /\ (panicked = "no")'
      BY <2>2 DEF IInv, Types, TypeOK, SchedTypeOK, BlkLabels
    <3>2. bit_map' \subseteq Descs /\ desc' \in [Descs -> Slots \cup {None}]
      BY <2>2, <2>3 DEF IInv, Types, TypeOK
    <3>3. descs' \in [Slots -> {NoDescs} \cup [1..ChainLen -> Descs]]
      BY <2>2, <2>6 DEF IInv, Types
    <3> QED
      BY <3>1, <3>2, <3>3 DEF IInv, Types, TypeOK
  <2>8. SleepsInWait'
    BY <1>1, <2>5 DEF IInv, SleepsInWait, HeadOf
  <2>9. OpsBounded'
    <3>1. Starting' = Starting
      BY <1>1, <2>5 DEF Starting
    <3> QED
      BY <3>1 DEF IInv, OpsBounded
  <2>10. ChainsOwned'
    <3>1. \A q \in Slots \ {p} : Chain(q)' = Chain(q)
      BY <2>5 DEF Chain
    <3>2. Chain(p)' = {a, b, c}
      BY <2>5 DEF Chain, ChainLen
    <3>3. \A d \in Descs : d \in {a, b, c} <=> desc'[d] = p
      BY <1>8, <2>2
    <3>4. \A q \in Slots \ {p} : \A d \in Descs : desc'[d] = q <=> desc[d] = q
      BY <2>2, <2>4
    <3>5. bit_map' = {d \in Descs : desc'[d] # None}
      BY <2>2, <2>3 DEF IInv, ChainsOwned
    <3>6. \A d \in Descs : desc'[d] # None => pc'[desc'[d]] \in Holding
      BY <1>8, <2>2, <2>5 DEF IInv, ChainsOwned, Types, TypeOK, Holding
    <3>7. descs'[p] # NoDescs
      BY <2>5, <2>6
    <3>8. ASSUME NEW q \in Slots
          PROVE  IF pc'[q] \in Holding
                 THEN descs'[q] # NoDescs /\ Chain(q)' = {d \in Descs : desc'[d] = q}
                 ELSE descs'[q] = NoDescs
      <4>1. CASE q = p
        <5>1. {a, b, c} = {d \in Descs : desc'[d] = p}
          BY <2>3, <3>3
        <5>2. pc'[p] \in Holding
          BY <2>5 DEF Holding
        <5> QED
          BY ONLY <3>2, <3>7, <4>1, <5>1, <5>2, Zenon
      <4>2. CASE q # p
        BY <2>5, <3>1, <3>4, <4>2 DEF IInv, ChainsOwned
      <4> QED
        BY <4>1, <4>2
    <3> QED
      BY <3>5, <3>6, <3>8 DEF ChainsOwned
  <2>11. PendingOwned' /\ FlagTracksDevice'
    <3>1. \A d \in Posted \cup busy \cup Unseen : desc'[d] = desc[d]
      BY <1>6, <2>2, <2>4 DEF IInv, PendingOwned
    <3> QED
      BY <1>3, <1>6, <1>7, <1>12, <2>5, <3>1 DEF IInv, PendingOwned, FlagTracksDevice, HeadOf
  <2>12. StatusFollows' /\ StatusRead'
    BY <1>3, <1>7, <2>5 DEF IInv, StatusFollows, StatusRead, HeadOf, Waiting
  <2> QED
    BY <1>4, <1>5, <1>12, <2>7, <2>8, <2>9, <2>10, <2>11, <2>12 DEF IInv
<1>11. Cardinality(Free) < ChainLen \/ Cardinality(Free) >= ChainLen
  BY <1>0 DEF ChainLen
<1> QED
  BY <1>9, <1>10, <1>11
(* The posted head is in no ring yet, so the available ring has room for it. *)
LEMMA TriggerNotifyInductive ==
  ASSUME IInv, NEW p \in Slots, TriggerNotify(p), ~ in_isr
  PROVE  IInv'
<1> USE BlkFacts DEF TriggerNotify, NoSwitch, deviceVars
<1> DEFINE h == HeadOf(p)
<1>1. state[p] = "running" /\ pc[p] = "trigger_notify"
  BY RunnerAwake
<1>2. pc \in [Slots -> BlkLabels]
  BY DEF IInv, Types, TypeOK
<1>3. h \in Descs /\ desc[h] = p
  <2>1. descs[p] \in [1..ChainLen -> Descs] /\ Chain(p) = {d \in Descs : desc[d] = p}
    BY <1>1 DEF IInv, ChainsOwned, Types, Holding
  <2> QED
    BY <2>1 DEF Chain, ChainLen, HeadOf
<1>4. h \notin Posted \cup busy \cup Unseen
  BY <1>1, <1>3 DEF IInv, PendingOwned, Waiting
<1>5. /\ avail_idx \in Nat /\ dev_idx \in Nat /\ dev_idx <= avail_idx
      /\ avail_ring \in [0..(QueueSize - 1) -> 0..(QueueSize - 1)]
      /\ h \in 0..(QueueSize - 1)
  <2>1. /\ avail_idx \in 0..MaxOps /\ dev_idx \in 0..avail_idx
        /\ avail_ring \in [Descs -> Descs]
    BY DEF IInv, Types, TypeOK
  <2> HIDE DEF h
  <2> QED
    BY ONLY <1>3, <2>1, BlkFacts DEF Descs
<1>6. HasRoom(avail_ring, dev_idx, avail_idx, QueueSize, h)
  <2>1. Distinct(avail_ring, dev_idx, avail_idx, QueueSize)
    BY DEF IInv, RingsSound
  <2>2. h \notin Window(avail_ring, dev_idx, avail_idx, QueueSize)
    BY <1>4, Windows
  <2> HIDE DEF h
  <2> QED
    BY <1>5, <2>1, <2>2, WindowHasRoom
<1>7. /\ Posted' = Posted \cup {h}
      /\ Distinct(avail_ring', dev_idx, avail_idx + 1, QueueSize)
  <2>1. Posted' = Window(avail_ring', dev_idx, avail_idx + 1, QueueSize)
    BY DEF Posted, Window
  <2>2. Written(avail_ring', avail_ring, avail_idx, QueueSize, h)
    BY DEF Written
  <2> HIDE DEF h
  <2>3. /\ Window(avail_ring', dev_idx, avail_idx + 1, QueueSize)
             = Window(avail_ring, dev_idx, avail_idx, QueueSize) \cup {h}
        /\ Distinct(avail_ring', dev_idx, avail_idx + 1, QueueSize)
    BY ONLY <1>6, <2>2, WindowPush
  <2> QED
    BY <2>1, <2>3, Windows
<1>8. Unseen' = Unseen /\ busy' = busy
  BY DEF Unseen
<1>9. /\ \A q \in Slots : HeadOf(q)' = HeadOf(q)
      /\ \A q \in Slots \ {p} : pc'[q] = pc[q]
      /\ pc'[p] = "set_flag"
  BY <1>2 DEF HeadOf
<1>10. /\ avail_ring' \in [Descs -> Descs]
       /\ guard_intr_on' \in [Slots -> BOOLEAN]
  BY <1>3 DEF IInv, Types, TypeOK, SchedTypeOK
<1> HIDE DEF h
<1>11. avail_idx + 1 + Cardinality(Starting') <= MaxOps
  <2>1. Starting' = Starting \ {p} /\ p \in Starting
    BY <1>1, <1>9 DEF Starting
  <2>2. Cardinality(Starting') = Cardinality(Starting) - 1
    BY <2>1, StartingFinite, FS_RemoveElement
  <2> QED
    BY <1>5, <2>2, StartingFinite DEF IInv, OpsBounded
<1>12. OpsBounded'
  BY <1>11 DEF OpsBounded
<1>13. Types'
  <2>1. avail_idx' \in 0..MaxOps /\ dev_idx \in 0..avail_idx'
    <3>1. IsFiniteSet(Starting')
      BY BlkFacts, FS_Subset DEF Starting
    <3>2. Cardinality(Starting') \in Nat
      BY <3>1, FS_CardinalityType
    <3> QED
      BY <1>5, <1>11, <3>2
  <2> QED
    BY <1>10, <2>1 DEF IInv, Types, TypeOK, SchedTypeOK, BlkLabels
<1>14. RunningIsCurrent' /\ CompletionAnnounced'
  BY DEF IInv, RunningIsCurrent, Alive, CompletionAnnounced
<1>15. SleepsInWait'
  BY <1>1, <1>9 DEF IInv, SleepsInWait
<1>16. ChainsOwned'
  <2>1. \A q \in Slots : pc'[q] \in Holding <=> pc[q] \in Holding
    BY <1>1, <1>9 DEF Holding, Waiting
  <2>2. \A q \in Slots : Chain(q)' = Chain(q)
    BY DEF Chain
  <2> QED
    BY <2>1, <2>2 DEF IInv, ChainsOwned, Types, TypeOK
<1>17. RingsSound'
  BY <1>4, <1>7, <1>8 DEF IInv, RingsSound, Distinct
<1>18. PendingOwned'
  <2>1. \A d \in Posted \cup busy \cup Unseen : desc[d] \in Slots \ {p}
    BY <1>1, PendingDescs DEF IInv, PendingOwned, Types, TypeOK, Waiting
  <2>2. desc[h] # None /\ pc'[desc[h]] \in Waiting /\ descs[desc[h]][1] = h
    BY <1>3, <1>9 DEF Waiting, h, HeadOf
  <2>3. ASSUME NEW d \in Posted \cup busy \cup Unseen
        PROVE  desc[d] # None /\ pc'[desc[d]] \in Waiting /\ descs[desc[d]][1] = d
    BY <1>9, <2>1 DEF IInv, PendingOwned, HeadOf
  <2>4. desc' = desc /\ descs' = descs
    OBVIOUS
  <2> SUFFICES ASSUME NEW d \in Posted' \cup busy' \cup Unseen'
               PROVE  (desc[d] # None /\ pc[desc[d]] \in Waiting /\ HeadOf(desc[d]) = d)'
    BY DEF PendingOwned
  <2>5. d = h \/ d \in Posted \cup busy \cup Unseen
    BY <1>7, <1>8
  <2> QED
    BY ONLY <2>2, <2>3, <2>4, <2>5 DEF HeadOf
<1>21. BeingPosted = {} /\ BeingPosted' = {h} /\ PostingAlone'
  <2>1. BeingPosted = {} /\ \A q \in Slots : pc[q] # "set_flag"
    BY <1>1, NobodyPosting
  <2>2. {q \in Slots : pc'[q] = "set_flag"} = {p}
    BY <1>9, <2>1
  <2>3. BeingPosted' = {HeadOf(p)}
    BY <1>9, <2>2 DEF BeingPosted, HeadOf
  <2> QED
    BY <1>7, <1>9, <2>1, <2>3 DEF PostingAlone, Running, h
<1>19. FlagTracksDevice'
  BY <1>3, <1>4, <1>7, <1>8, <1>21 DEF IInv, FlagTracksDevice
<1>20. StatusFollows' /\ StatusRead'
  <2>1. HeadOf(p)' \in Posted'
    BY <1>7, <1>9 DEF h
  <2> QED
    BY <1>7, <1>8, <1>9, <2>1 DEF IInv, StatusFollows, StatusRead
<1> QED
  BY <1>12, <1>13, <1>14, <1>15, <1>16, <1>17, <1>18, <1>19, <1>20,
     <1>21 DEF IInv

(* The flag goes up whatever the device has done since, and the interrupt   *)
(* that takes it down has to wait for the guard's end.                      *)
LEMMA SetFlagInductive ==
  ASSUME IInv, NEW p \in Slots, SetFlag(p)
  PROVE  IInv'
<1> USE BlkFacts DEF SetFlag, NoSwitch, deviceVars
<1> DEFINE h == HeadOf(p)
<1>1. state[p] = "running" /\ pc[p] = "set_flag"
  BY RunnerAwake
<1>2. pc \in [Slots -> BlkLabels]
  BY DEF IInv, Types, TypeOK
<1>3. h \in Descs /\ desc[h] = p
  <2>1. descs[p] \in [1..ChainLen -> Descs] /\ Chain(p) = {d \in Descs : desc[d] = p}
    BY <1>1 DEF IInv, ChainsOwned, Types, Holding, Waiting
  <2> QED
    BY <2>1 DEF Chain, ChainLen, HeadOf
<1>4. /\ Posted' = Posted /\ Unseen' = Unseen /\ busy' = busy
      /\ \A q \in Slots : HeadOf(q)' = HeadOf(q)
  BY DEF Posted, Unseen, HeadOf
<1>5. /\ \A q \in Slots \ {p} : pc'[q] = pc[q] /\ pc[q] # "set_flag"
      /\ pc'[p] = "wait_complete"
      /\ waiting_flag'[h] = TRUE
      /\ \A d \in Descs : d # h => waiting_flag'[d] = waiting_flag[d]
  BY <1>2, <1>3 DEF IInv, Types, TypeOK, PostingAlone, Running
<1>6. BeingPosted = {h} /\ BeingPosted' = {} /\ PostingAlone'
  <2>1. \A q \in Slots : pc'[q] # "set_flag"
    BY <1>5
  <2>2. {q \in Slots : pc[q] = "set_flag"} = {p}
    BY <1>1, <1>5
  <2> QED
    BY <2>1, <2>2, StaysAlone DEF BeingPosted
<1>7. Types'
  BY <1>3 DEF IInv, Types, TypeOK, SchedTypeOK, BlkLabels
<1> HIDE DEF h
<1>8. RunningIsCurrent' /\ CompletionAnnounced'
  BY DEF IInv, RunningIsCurrent, Alive, CompletionAnnounced
<1>9. SleepsInWait'
  <2>1. \A q \in Slots : state[q] = "sleep" => waiting_flag'[HeadOf(q)]
    <3> SUFFICES ASSUME NEW q \in Slots, state[q] = "sleep"
                 PROVE  waiting_flag'[HeadOf(q)]
      OBVIOUS
    <3>1. HeadOf(q) \in Descs
      BY DEF IInv, SleepsInWait, ChainsOwned, Holding, Waiting, Types, HeadOf, ChainLen
    <3> QED
      BY <1>5, <3>1 DEF IInv, SleepsInWait
  <2> QED
    BY <1>1, <1>4, <1>5, <2>1 DEF IInv, SleepsInWait
<1>10. OpsBounded'
  <2>1. Starting' = Starting
    BY <1>1, <1>5 DEF Starting
  <2> QED
    BY <2>1 DEF IInv, OpsBounded
<1>11. ChainsOwned'
  <2>1. \A q \in Slots : pc'[q] \in Holding <=> pc[q] \in Holding
    BY <1>1, <1>5 DEF Holding, Waiting
  <2>2. \A q \in Slots : Chain(q)' = Chain(q)
    BY DEF Chain
  <2> QED
    BY <2>1, <2>2 DEF IInv, ChainsOwned, Types, TypeOK
<1>12. RingsSound'
  BY <1>4 DEF IInv, RingsSound, Distinct
<1>13. \A q \in Slots : pc'[q] \in Waiting <=> pc[q] \in Waiting
  BY <1>1, <1>5 DEF Waiting
<1>14. PendingOwned'
  <2>1. \A d \in Posted \cup busy \cup Unseen : desc[d] \in Slots
    BY PendingDescs DEF IInv, PendingOwned, Types, TypeOK
  <2> QED
    BY <1>4, <1>13, <2>1 DEF IInv, PendingOwned
<1>15. h \in Posted \cup busy \cup Unseen
  BY <1>1 DEF IInv, PostingAlone, h
<1>16. FlagTracksDevice'
  BY <1>4, <1>5, <1>6, <1>15 DEF IInv, FlagTracksDevice
<1>17. StatusFollows' /\ StatusRead'
  BY <1>4, <1>5, <1>13 DEF IInv, StatusFollows, StatusRead
<1> QED
  BY <1>6, <1>7, <1>8, <1>9, <1>10, <1>11, <1>12, <1>14, <1>16, <1>17 DEF IInv

(* A process that finds its flag up sleeps until UsedBufferNotify wakes it; *)
(* one that finds it down frees a chain that nobody else refers to.         *)
LEMMA WaitLoopInductive ==
  ASSUME IInv, NEW p \in Slots, WaitLoop(p)
  PROVE  IInv'
<1> USE BlkFacts DEF WaitLoop, deviceVars
<1>1. state[p] = "running" /\ pc[p] = "wait_loop"
  BY RunnerAwake
<1>2. pc \in [Slots -> BlkLabels]
  BY DEF IInv, Types, TypeOK
<1>3. Posted' = Posted /\ Unseen' = Unseen /\ busy' = busy
  BY DEF Posted, Unseen
<1>4. RingsSound' /\ CompletionAnnounced'
  BY <1>3 DEF IInv, RingsSound, Distinct, CompletionAnnounced
<1>0. BeingPosted = {} /\ BeingPosted' = {} /\ PostingAlone'
  <2>1. BeingPosted = {} /\ \A q \in Slots : pc[q] # "set_flag"
    BY <1>1, NobodyPosting
  <2>2. \A q \in Slots : pc'[q] # "set_flag"
    BY <1>2, <2>1 DEF Sleep
  <2> QED
    BY <2>1, <2>2, StaysAlone
<1>5. CASE waiting_flag[HeadOf(p)]
  <2> USE <1>5 DEF Sleep, SwitchToDispatch
  <2>1. Types'
    <3>1. SchedTypeOK'
      BY DEF IInv, Types, TypeOK, SchedTypeOK, ProcessState, SavedContext
    <3>2. pc' \in [Slots -> BlkLabels]
      BY <1>2 DEF BlkLabels
    <3> QED
      BY <3>1, <3>2 DEF IInv, Types, TypeOK
  <2>2. RunningIsCurrent'
    BY DEF IInv, RunningIsCurrent, Alive, Running, Types, TypeOK, SchedTypeOK
  <2>3. SleepsInWait'
    BY <1>2 DEF IInv, SleepsInWait, HeadOf, Types, TypeOK, SchedTypeOK
  <2>4. OpsBounded'
    <3>1. Starting' = Starting
      BY <1>1, <1>2 DEF Starting
    <3> QED
      BY <3>1 DEF IInv, OpsBounded
  <2>5. ChainsOwned'
    <3>1. \A q \in Slots : pc'[q] \in Holding <=> pc[q] \in Holding
      BY <1>1, <1>2 DEF Holding, Waiting
    <3>2. \A q \in Slots : Chain(q)' = Chain(q)
      BY DEF Chain
    <3> QED
      BY <3>1, <3>2 DEF IInv, ChainsOwned, Types, TypeOK
  <2>6. \A q \in Slots : pc'[q] \in Waiting <=> pc[q] \in Waiting
    BY <1>1, <1>2 DEF Waiting
  <2>7. PendingOwned' /\ FlagTracksDevice'
    <3>1. \A d \in Posted \cup busy \cup Unseen : desc[d] \in Slots
      BY PendingDescs DEF IInv, PendingOwned, Types, TypeOK
    <3> QED
      BY <1>0, <1>3, <2>6, <3>1 DEF IInv, PendingOwned, FlagTracksDevice, HeadOf
  <2>8. StatusFollows' /\ StatusRead'
    BY <1>2, <1>3, <2>6 DEF IInv, StatusFollows, StatusRead, HeadOf
  <2> QED
    BY <1>0, <1>4, <2>1, <2>2, <2>3, <2>4, <2>5, <2>7, <2>8 DEF IInv
<1>6. CASE ~ waiting_flag[HeadOf(p)]
  <2>1. /\ bit_map' = bit_map \ Chain(p)
        /\ desc' = [d \in Descs |-> IF d \in Chain(p) THEN None ELSE desc[d]]
        /\ descs' = [descs EXCEPT ![p] = NoDescs]
        /\ pc' = [pc EXCEPT ![p] = "check_status"]
        /\ mie' = guard_intr_on[p]
        /\ guard_intr_on' = [guard_intr_on EXCEPT ![p] = FALSE]
        /\ UNCHANGED <<state, channel, locked>>
        /\ UNCHANGED <<saved_context, is_intr_on, process_task, scan, lk_intr_on, panicked>>
    BY <1>6 DEF NoSwitch
  <2>2. /\ Chain(p) = {d \in Descs : desc[d] = p}
        /\ HeadOf(p) \in Descs
    <3>1. descs[p] \in [1..ChainLen -> Descs] /\ Chain(p) = {d \in Descs : desc[d] = p}
      BY <1>1 DEF IInv, ChainsOwned, Types, Holding, Waiting
    <3> QED
      BY <3>1 DEF HeadOf, ChainLen
  <2>3. HeadOf(p) \notin Posted \cup busy \cup Unseen
    BY <1>0, <1>6, <2>2 DEF IInv, FlagTracksDevice
  <2>4. \A d \in Posted \cup busy \cup Unseen :
          d \in Descs /\ desc[d] \in Slots \ {p} /\ desc'[d] = desc[d]
    BY <2>1, <2>2, <2>3, PendingDescs DEF IInv, PendingOwned, Types, TypeOK
  <2>5. /\ \A q \in Slots : q # p => descs'[q] = descs[q] /\ pc'[q] = pc[q]
        /\ descs'[p] = NoDescs
        /\ pc'[p] = "check_status"
    BY <1>2, <2>1 DEF IInv, Types
  <2>6. Types'
    <3>1. descs' \in [Slots -> {NoDescs} \cup [1..ChainLen -> Descs]]
      BY <2>1 DEF IInv, Types
    <3>2. desc' \in [Descs -> Slots \cup {None}] /\ bit_map' \subseteq Descs
      BY <2>1 DEF IInv, Types, TypeOK
    <3>3. SchedTypeOK' /\ pc' \in [Slots -> BlkLabels]
      BY <2>1 DEF IInv, Types, TypeOK, SchedTypeOK, BlkLabels
    <3> QED
      BY <2>1, <3>1, <3>2, <3>3 DEF IInv, Types, TypeOK
  <2>7. RunningIsCurrent' /\ SleepsInWait'
    BY <1>1, <2>1, <2>5 DEF IInv, RunningIsCurrent, SleepsInWait, Alive, HeadOf
  <2>8. OpsBounded'
    <3>1. Starting' = Starting
      BY <1>1, <2>5 DEF Starting
    <3> QED
      BY <3>1 DEF IInv, OpsBounded
  <2>9. ChainsOwned'
    <3>1. bit_map' = {d \in Descs : desc'[d] # None}
      BY <2>1 DEF IInv, ChainsOwned
    <3>2. \A d \in Descs : desc'[d] # None => pc'[desc'[d]] \in Holding
      BY <2>1, <2>2, <2>5 DEF IInv, ChainsOwned, Types, TypeOK
    <3>3. ASSUME NEW q \in Slots, q # p
          PROVE  IF pc'[q] \in Holding
                 THEN descs'[q] # NoDescs /\ Chain(q)' = {d \in Descs : desc'[d] = q}
                 ELSE descs'[q] = NoDescs
      <4>1. Chain(q)' = Chain(q)
        BY <2>5, <3>3 DEF Chain
      <4>2. \A d \in Descs : desc'[d] = q <=> desc[d] = q
        BY <2>1, <2>2, <3>3
      <4> QED
        BY <2>5, <3>3, <4>1, <4>2 DEF IInv, ChainsOwned
    <3>4. pc'[p] \notin Holding /\ descs'[p] = NoDescs
      BY <2>5 DEF Holding, Waiting
    <3> QED
      BY <3>1, <3>2, <3>3, <3>4 DEF ChainsOwned
  <2>10. PendingOwned' /\ FlagTracksDevice'
    BY <1>0, <1>3, <2>4, <2>5 DEF IInv, PendingOwned, FlagTracksDevice, HeadOf
  <2>11. StatusFollows' /\ StatusRead'
    <3>1. status[p] # "uninit"
      BY <1>1, <2>3 DEF IInv, StatusFollows, Waiting
    <3> QED
      BY <1>3, <2>5, <3>1 DEF IInv, StatusFollows, StatusRead, HeadOf, Waiting
  <2> QED
    BY <1>0, <1>4, <2>6, <2>7, <2>8, <2>9, <2>10, <2>11 DEF IInv
<1> QED
  BY <1>5, <1>6

-----------------------------------------------------------------------------
(* IInv holds of every reachable state of the driver, the device and the    *)
(* processes that use the disk.                                             *)
THEOREM Inductive == Spec => []IInv
<1>1. IInv /\ [Next]_vars => IInv'
  <2> SUFFICES ASSUME IInv, [Next]_vars PROVE IInv'
    OBVIOUS
  <2>1. CASE UNCHANGED vars
    <3>1. UNCHANGED <<schedVars, pc, driverVars, deviceVars>>
      BY <2>1 DEF vars, schedVars
    <3>2. Types' /\ RunningIsCurrent' /\ SleepsInWait'
      BY <3>1 DEF IInv, Types, TypeOK, SchedTypeOK, RunningIsCurrent, SleepsInWait, Alive,
                  HeadOf, schedVars, driverVars, deviceVars
    <3>3. PostingAlone'
      BY <3>1 DEF IInv, PostingAlone, HeadOf, Posted, Unseen, schedVars, driverVars, deviceVars
    <3> QED
      BY <3>1, <3>2, <3>3, SchedulerQuiet DEF IInv
  <2>2. CASE Device
    BY <2>2, DeviceFetchInductive, DeviceCompleteInductive DEF Device
  <2>3. ASSUME NEW p \in Slots, OperateStep(p) PROVE IInv'
    BY <2>3, AllocMultiDescInductive, TriggerNotifyInductive, SetFlagInductive,
       EnterWaitInductive, WaitLoopInductive, RelockInductive, CheckStatusInductive DEF OperateStep
  <2>4. ASSUME NEW p \in Slots, StartOperate(p) PROVE IInv'
    BY <2>4, CallOperateInductive DEF StartOperate
  <2> QED
    BY <2>1, <2>2, <2>3, <2>4, DispatchInductive, TimerInductive,
       ProcessInterruptInductive, UsedBufferNotifyInductive, LeaveInterruptInductive
       DEF Next
<1> QED
  BY InitInductive, <1>1, PTL DEF Spec

(* Every variable keeps its type; in particular the four ring indices stay  *)
(* in the order last_seen_used_idx <= used.idx <= dev_idx <= avail.idx.     *)
THEOREM TypeCorrect == Spec => []TypeOK
<1>1. IInv => TypeOK
  BY DEF IInv, Types
<1> QED
  BY <1>1, Inductive, PTL

(* AllocDesc and FreeDesc keep the bitmap equal to the union of the chains  *)
(* that transports hold, whatever the number of descriptors.                *)
THEOREM Ownership == Spec => []DescriptorsOwned
<1>1. IInv => DescriptorsOwned
  <2> SUFFICES ASSUME IInv PROVE DescriptorsOwned
    OBVIOUS
  <2>1. \A p \in Slots : descs[p] # NoDescs <=> pc[p] \in Holding
    BY DEF IInv, ChainsOwned
  <2>2. \A d \in Descs : desc[d] # None <=> \E p \in Slots : descs[p] # NoDescs /\ desc[d] = p
    BY <2>1, BlkFacts DEF IInv, ChainsOwned, Types, TypeOK
  <2>3. bit_map = {d \in Descs : \E p \in Slots : descs[p] # NoDescs /\ desc[d] = p}
    BY <2>2 DEF IInv, ChainsOwned
  <2>4. \A p \in Slots : descs[p] # NoDescs => Chain(p) = {d \in Descs : desc[d] = p}
    BY <2>1 DEF IInv, ChainsOwned
  <2> QED
    BY <2>3, <2>4 DEF DescriptorsOwned, Chain
<1> QED
  BY <1>1, Inductive, PTL

(* A waiting flag says exactly whether the request is still under way.      *)
THEOREM FlagCorrect == Spec => []FlagTracksDevice
<1>1. IInv => FlagTracksDevice
  BY DEF IInv
<1> QED
  BY <1>1, Inductive, PTL

(* Nobody sleeps in wait_complete after its completion has been seen, and a *)
(* completion that has not been seen will interrupt: no wakeup is lost.     *)
THEOREM NoLostWakeup == Spec => []SleeperHasRequest
<1>1. IInv => SleeperHasRequest
  <2> SUFFICES ASSUME IInv, NEW p \in Slots, state[p] = "sleep"
               PROVE  \/ HeadOf(p) \in Posted \cup busy
                      \/ HeadOf(p) \in Unseen /\ (irq \/ in_isr)
    BY DEF SleeperHasRequest
  <2>1. HeadOf(p) \in Descs
    BY DEF IInv, SleepsInWait, ChainsOwned, Holding, Waiting, Types, HeadOf, ChainLen
  <2>2. HeadOf(p) \in Posted \cup busy \cup Unseen
    BY <2>1 DEF IInv, SleepsInWait, FlagTracksDevice
  <2>3. Unseen # {} => last_seen_used_idx # used_idx
    BY DEF Unseen, IInv, Types, TypeOK
  <2> QED
    BY <2>2, <2>3 DEF IInv, CompletionAnnounced
<1> QED
  BY <1>1, Inductive, PTL

(* The result of an operation stands while its process is in user mode,     *)
(* where no chain of it is in the device.                                   *)
LEMMA ResultsStep ==
  ASSUME IInv, ResultsTrue, [Next]_vars
  PROVE  ResultsTrue'
<1> USE DEF ResultsTrue, InUser
<1>0. ok \in [Slots -> BOOLEAN] /\ pc \in [Slots -> BlkLabels] /\ DOMAIN status = Slots
  BY DEF IInv, Types, TypeOK
<1>1. CASE UNCHANGED <<ok, status, pc>>
  BY <1>1
<1>2. ASSUME NEW h \in Descs, DeviceComplete(h) PROVE ResultsTrue'
  <2>1. desc[h] # None /\ pc[desc[h]] \in Waiting
    BY <1>2 DEF DeviceComplete, IInv, PendingOwned
  <2>2. \A p \in Slots : status'[p] = status[p] \/ p = desc[h]
    BY <1>2 DEF DeviceComplete
  <2>3. UNCHANGED <<ok, pc>>
    BY <1>2 DEF DeviceComplete, driverVars, schedVars
  <2> QED
    BY <2>1, <2>2, <2>3 DEF Waiting
<1>3. ASSUME NEW p \in Slots, CheckStatus(p) PROVE ResultsTrue'
  <2>1. PICK r \in OperateResult(p) : ok' = [ok EXCEPT ![p] = r]
    BY <1>3 DEF CheckStatus
  <2>2. UNCHANGED status /\ pc' = [pc EXCEPT ![p] = "user"]
    BY <1>3 DEF CheckStatus, TrapRet, deviceVars
  <2>3. r => status[p] \in {"OK", "uninit"}
    BY <2>1 DEF OperateResult
  <2> QED
    BY <1>0, <2>1, <2>2, <2>3
<1>4. ASSUME NEW p \in Slots, StartOperate(p) PROVE ResultsTrue'
  <2>1. /\ ok' = [ok EXCEPT ![p] = FALSE] /\ pc' = [pc EXCEPT ![p] = "AllocMultiDesc"]
        /\ status' = [status EXCEPT ![p] = "uninit"]
    BY <1>4 DEF StartOperate, CallOperate
  <2> QED
    BY <1>0, <2>1
<1>5. ASSUME NEW p \in Slots, OperateStep(p), ~CheckStatus(p) PROVE ResultsTrue'
  <2>1. /\ UNCHANGED <<ok, status>>
        /\ pc[p] # "user"
        /\ \A q \in Slots \ {p} : pc'[q] = pc[q]
    <3>1. CASE AllocMultiDesc(p)
      BY <1>0, <3>1 DEF AllocMultiDesc, Goto, deviceVars
    <3>2. CASE TriggerNotify(p)
      BY <1>0, <3>2 DEF TriggerNotify, Goto, deviceVars
    <3>3. CASE SetFlag(p)
      BY <1>0, <3>3 DEF SetFlag, Goto, deviceVars
    <3>4. CASE EnterWait(p)
      BY <1>0, <3>4 DEF EnterWait, Goto, deviceVars
    <3>5. CASE WaitLoop(p)
      BY <1>0, <3>5 DEF WaitLoop, Goto, Sleep, deviceVars
    <3>6. CASE Relock(p)
      BY <1>0, <3>6 DEF Relock, Goto, deviceVars
    <3> QED
      BY <1>5, <3>1, <3>2, <3>3, <3>4, <3>5, <3>6 DEF OperateStep
  <2> QED
    BY <1>0, <2>1
<1>6. CASE \/ DispatchStep \/ ClockInterrupt \/ ProcessInterrupt \/ UsedBufferNotify
           \/ LeaveInterrupt \/ DeviceFetch \/ UNCHANGED vars
  <2>1. UNCHANGED <<ok, status, pc>>
    BY <1>6 DEF DispatchStep, Dispatch, DispatchSkip, DispatchRun, ClockInterrupt, TimerInterrupt,
                TimerIdle, TimerProcess, SwitchToDispatch, ProcessInterrupt, UsedBufferNotify,
                LeaveInterrupt, DeviceFetch, vars, driverVars, deviceVars, schedVars
  <2> QED
    BY <1>1, <2>1
<1> QED
  BY <1>2, <1>3, <1>4, <1>5, <1>6 DEF Next, Device

(* Operate evaluates a status byte that the device has not written behind a *)
(* failed allocation of descriptors and nowhere else, and its result is     *)
(* true only there or for what the device has done.                         *)
THEOREM StatusCorrect == Spec => []StatusWritten
<1>1. Init => ResultsTrue
  BY DEF Init, ResultsTrue
<1>2. IInv /\ ResultsTrue /\ [Next]_vars => ResultsTrue'
  BY ResultsStep
<1>3. IInv /\ ResultsTrue => StatusWritten
  BY DEF IInv, StatusRead, ResultsTrue, StatusWritten
<1> QED
  BY <1>1, <1>2, <1>3, Inductive, PTL DEF Spec
=============================================================================
