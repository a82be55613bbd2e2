----------------------------- MODULE DeviceProofs -----------------------------
(***************************************************************************)
(* What VirtioGpu says of the boot of the devices and of the receive       *)
(* queues, for every queue size, fewer than 2^16 events, all programs and  *)
(* fewer than 2^14 calls; and of the GPU driver, for one program at a      *)
(* time and any queue size from 2 on.                                      *)
(*                                                                         *)
(* The invariant follows InitDevices: behind the device it is at, devices  *)
(* are finished; ahead of it, untouched; and the device it is at is as far *)
(* as its step says.  The receive queues are right because descriptor i    *)
(* stays at place i of both rings, so that an index is its own descriptor  *)
(* modulo the queue size.                                                  *)
(*                                                                         *)
(* That of the GPU says at each step of a command where the command is:    *)
(* its descriptors, its place in the rings, its waiting flag; and for each *)
(* command of each call what host resources and ids it finds and leaves.   *)
(***************************************************************************)
EXTENDS VirtioGpu, RingFacts, SequenceTheorems, TLAPS

NoQueues == [q \in Queues |-> 0]

\* The device InitDevices is at.
Current(d) == boot.dev <= 6 /\ DeviceList[boot.dev] = d

BootTypes ==
  /\ boot \in [dev : 1..7, step : {"Init", "Negotiate", "Queue", "Post", "Register"}, q : 0..2]
  /\ status \in [Devices -> SUBSET Ready]
  /\ queue \in [Devices -> [Queues -> Nat]]
  /\ blocks \in Nat

\* The devices behind InitDevices, in the order of the list, are registered.
RegisteredSoFar == registered = {DeviceList[i] : i \in 1..(boot.dev - 1)}

\* Every queue has a block of its own, and the device knows it.
QueuesOwned ==
  /\ pfn = queue
  /\ \A d \in Devices, q \in Queues : queue[d][q] <= blocks
  /\ \A d, e \in Devices, q, r \in Queues :
       queue[d][q] = queue[e][r] => queue[d][q] = 0 \/ <<d, q>> = <<e, r>>

\* DRIVER_OK is the last word of a negotiation.
ReadyHasQueues ==
  \A d \in Devices : status[d] = Ready => \A q \in 0..(QueueNum(d) - 1) : queue[d][q] # 0

Untouched(d) == queue[d] = NoQueues /\ status[d] = {}

Finished(d) == queue[d][0] # 0 /\ (d \notin ReceiveDevices => status[d] = Ready)

\* What the steps of InitDevices have left behind at a device.
Progress(d) ==
  /\ d \in registered => Finished(d) \/ d = "uart0"
  /\ d \notin registered /\ ~Current(d) => Untouched(d)
  /\ Current(d) =>
       /\ panicked = "no" /\ boot.step \in {"Init", "Negotiate"} => Untouched(d)
       /\ boot.step = "Negotiate" => d # "uart0"
       /\ boot.step = "Queue" =>
            /\ d # "uart0"
            /\ status[d] = Ready \ {"DRIVER_OK"}
            /\ boot.q <= QueueNum(d)
            /\ \A q \in 0..(boot.q - 1) : queue[d][q] # 0
       /\ boot.step = "Post" => d \in ReceiveDevices
       /\ boot.step = "Register" => Finished(d) \/ d = "uart0"

BootProgress == \A d \in Devices : Progress(d)

BootInv ==
  /\ BootTypes
  /\ RegisteredSoFar
  /\ QueuesOwned
  /\ ReadyHasQueues
  /\ BootProgress

RxRecord ==
  [avail : [Descs -> Descs], avail_idx : Nat, dev_idx : Nat, used : [Descs -> Descs],
   used_idx : Nat, last_seen_used_idx : Nat, buf : [Descs -> Nat], taken : Seq(Nat)]

RxTypes ==
  /\ rx \in [ReceiveDevices -> RxRecord]
  /\ sent \in [ReceiveDevices -> Nat]
  /\ in_isr \in [dev : Devices \cup {"none"}, q : Queues]

\* The handler runs for devices that are registered.
HandlerRegistered == in_isr.dev \in ReceiveDevices => in_isr.dev \in registered

\* All buffers of the device have been posted.
AllPosted(d) == d \in registered \/ (Current(d) /\ boot.step = "Register")

\* Buffer i is posted at place i, is used at place i, and holds the event
\* with the number of its place in the used ring until the handler takes it.
RxSound(r, n) ==
  /\ r.dev_idx = n /\ r.used_idx = n
  /\ r.last_seen_used_idx <= n
  /\ n <= r.avail_idx
  /\ r.avail_idx <= QueueSize + r.last_seen_used_idx
  /\ \A i \in Descs : i < r.avail_idx => r.avail[i] = i
  /\ \A i \in Descs : i < n => r.used[i] = i
  /\ \A k \in r.last_seen_used_idx..(n - 1) : r.buf[k % QueueSize] = k + 1
  /\ r.taken = [k \in 1..r.last_seen_used_idx |-> k]

QueuesSound == \A d \in ReceiveDevices : RxSound(rx[d], sent[d])

\* Buffers are posted to a queue that is there, and all of them before the
\* device is registered.
PostedToQueue ==
  \A d \in ReceiveDevices :
    /\ rx[d].avail_idx # 0 => queue[d][0] # 0
    /\ AllPosted(d) => rx[d].avail_idx = QueueSize + rx[d].last_seen_used_idx
    /\ ~AllPosted(d) => rx[d].last_seen_used_idx = 0

RxInv ==
  /\ RxTypes
  /\ HandlerRegistered
  /\ QueuesSound
  /\ PostedToQueue

\* The inductive invariant.
IInv == BootInv /\ RxInv

-----------------------------------------------------------------------------
(* The devices of InitDevices are six, each once in the list. *)
LEMMA TheDevices ==
  /\ Len(DeviceList) = 6
  /\ Devices = {"disk0", "disk1", "gpu0", "mouse0", "net0", "uart0"}
  /\ \A i \in 1..6 : DeviceList[i] \in Devices
  /\ \A i, j \in 1..6 : DeviceList[i] = DeviceList[j] => i = j
<1>1. Len(DeviceList) = 6
  BY DEF DeviceList
<1>2. \A i \in 1..6 : i = 1 \/ i = 2 \/ i = 3 \/ i = 4 \/ i = 5 \/ i = 6
  OBVIOUS
<1>3. /\ DeviceList[1] = "disk0" /\ DeviceList[2] = "disk1" /\ DeviceList[3] = "gpu0"
      /\ DeviceList[4] = "mouse0" /\ DeviceList[5] = "net0" /\ DeviceList[6] = "uart0"
  BY DEF DeviceList
<1>4. Devices = {"disk0", "disk1", "gpu0", "mouse0", "net0", "uart0"}
  BY <1>1, <1>2, <1>3 DEF Devices
<1>5. \A i \in 1..6 : DeviceList[i] \in Devices
  BY <1>2, <1>3, <1>4
<1>6. \A i, j \in 1..6 : DeviceList[i] = DeviceList[j] => i = j
  BY <1>2, <1>3
<1> QED
  BY <1>1, <1>4, <1>5, <1>6

(* Every device but the UART has one queue or two, and a receive device two. *)
LEMMA QueueNums ==
  \A d \in Devices :
    /\ QueueNum(d) \in 0..2
    /\ QueueNum(d) = 0 <=> d = "uart0"
    /\ d \in ReceiveDevices => QueueNum(d) = 2
BY TheDevices DEF QueueNum, ReceiveDevices

(* InitDevices is at one device at a time, which is not registered yet. *)
LEMMA OneCurrent ==
  ASSUME BootTypes, RegisteredSoFar, NEW d \in Devices, Current(d)
  PROVE  /\ d \notin registered
         /\ \A e : Current(e) => e = d
         /\ registered \subseteq Devices
         /\ boot.dev \in 1..6
<1>1. boot.dev \in 1..6
  BY DEF BootTypes, Current
<1>2. \A i \in 1..(boot.dev - 1) : i \in 1..6 /\ i # boot.dev
  BY <1>1
<1> QED
  BY <1>1, <1>2, TheDevices DEF Current, RegisteredSoFar

(* At, in terms of Current. *)
LEMMA AtCurrent ==
  ASSUME NEW d, NEW s, At(d, s)
  PROVE  Current(d) /\ boot.step = s /\ panicked = "no"
BY TheDevices DEF At, Current
-----------------------------------------------------------------------------
(* The boot *)

(* A step of InitDevices at one device leaves the others where they were. *)
LEMMA OthersKeep ==
  ASSUME NEW e, ~Current(e), Progress(e),
         boot'.dev = boot.dev, registered' = registered,
         queue'[e] = queue[e], status'[e] = status[e]
  PROVE  Progress(e)'
BY DEF Progress, Current, Untouched, Finished

(* A step that keeps the queues and the status of every device, and the      *)
(* device that InitDevices is at.                                            *)
LEMMA StepKeeps ==
  ASSUME BootInv, NEW d \in Devices, Current(d), Progress(d)', boot' \in [dev : 1..7,
            step : {"Init", "Negotiate", "Queue", "Post", "Register"}, q : 0..2],
         boot'.dev = boot.dev, UNCHANGED <<status, pfn, queue, registered, blocks>>
  PROVE  BootInv'
<1>1. BootTypes' /\ RegisteredSoFar' /\ QueuesOwned' /\ ReadyHasQueues'
  BY DEF BootInv, BootTypes, RegisteredSoFar, QueuesOwned, ReadyHasQueues
<1>2. ASSUME NEW e \in Devices PROVE Progress(e)'
  <2>1. CASE e = d
    BY <2>1
  <2>2. CASE e # d
    <3>1. ~Current(e)
      BY <2>2, OneCurrent DEF BootInv
    <3>2. Progress(e)
      BY DEF BootInv, BootProgress
    <3> QED
      BY <3>1, <3>2, OthersKeep
  <2> QED
    BY <2>1, <2>2
<1> QED
  BY <1>1, <1>2 DEF BootInv, BootProgress

(* A step of InitDevices is that of the type of boot, with one field set. *)
LEMMA StepBoot ==
  ASSUME BootTypes, NEW s \in {"Init", "Negotiate", "Queue", "Post", "Register"}, Step(s)
  PROVE  /\ boot' \in [dev : 1..7, step : {"Init", "Negotiate", "Queue", "Post", "Register"},
                       q : 0..2]
         /\ boot'.dev = boot.dev /\ boot'.step = s /\ boot'.q = boot.q
BY DEF BootTypes, Step

(* The validation of a device. *)
LEMMA ValidateKeeps ==
  ASSUME BootInv, NEW d \in Devices, Validate(d)
  PROVE  BootInv'
<1>1. Current(d) /\ boot.step = "Init" /\ panicked = "no" /\ d \notin registered
  BY AtCurrent, OneCurrent DEF Validate, BootInv
<1>2. Untouched(d) /\ UNCHANGED <<status, pfn, queue, registered, blocks>>
  BY <1>1 DEF BootInv, BootProgress, Progress, Validate
<1>3. CASE QueueNum(d) = 0 /\ Step("Register")
  <2>1. boot'.dev = boot.dev /\ boot'.step = "Register"
    BY <1>3, StepBoot DEF BootInv
  <2>2. Progress(d)'
    BY <1>1, <1>2, <1>3, <2>1, QueueNums DEF Progress, Current
  <2> QED
    BY <1>1, <1>2, <1>3, <2>2, StepKeeps, StepBoot DEF BootInv
<1>4. CASE QueueNum(d) # 0 /\ Step("Negotiate")
  <2>1. boot'.dev = boot.dev /\ boot'.step = "Negotiate"
    BY <1>4, StepBoot DEF BootInv
  <2>2. Progress(d)'
    BY <1>1, <1>2, <1>4, <2>1, QueueNums DEF Progress, Current, Untouched
  <2> QED
    BY <1>1, <1>2, <1>4, <2>2, StepKeeps, StepBoot DEF BootInv
<1>5. CASE InitFailed
  <2>1. panicked' = "Init device failed" /\ boot' = boot
    BY <1>5 DEF InitFailed
  <2>2. Progress(d)'
    BY <1>1, <1>2, <2>1 DEF Progress, Current, Untouched
  <2> QED
    BY <1>1, <1>2, <2>1, <2>2, StepKeeps DEF BootInv, BootTypes
<1> QED
  BY <1>3, <1>4, <1>5 DEF Validate
(* A step that leaves the devices other than d alone, and d's progress right. *)
LEMMA DeviceStep ==
  ASSUME BootInv, NEW d \in Devices, Current(d), Progress(d)',
         BootTypes', QueuesOwned', ReadyHasQueues',
         boot'.dev = boot.dev, registered' = registered,
         \A e \in Devices : e # d => queue'[e] = queue[e] /\ status'[e] = status[e]
  PROVE  BootInv'
<1>1. RegisteredSoFar'
  BY DEF BootInv, RegisteredSoFar
<1>2. ASSUME NEW e \in Devices PROVE Progress(e)'
  <2>1. CASE e = d
    BY <2>1
  <2>2. CASE e # d
    <3>1. ~Current(e)
      BY <2>2, OneCurrent DEF BootInv
    <3>2. Progress(e)
      BY DEF BootInv, BootProgress
    <3> QED
      BY <2>2, <3>1, <3>2, OthersKeep
  <2> QED
    BY <2>1, <2>2
<1> QED
  BY <1>1, <1>2 DEF BootInv, BootProgress

(* What a failed negotiation of d leaves: a receive device goes on to its    *)
(* buffers, for any other device InitDevices stops.                          *)
LEMMA FailedBoot ==
  ASSUME BootInv, NEW d \in Devices, NegotiationFailed(d)
  PROVE  /\ boot' \in [dev : 1..7, step : {"Init", "Negotiate", "Queue", "Post", "Register"},
                       q : 0..2]
         /\ boot'.dev = boot.dev
         /\ \/ d \in ReceiveDevices /\ boot'.step = "Post"
            \/ boot' = boot /\ panicked' # "no"
<1>1. CASE d \in ReceiveDevices
  BY <1>1, StepBoot DEF BootInv, NegotiationFailed
<1>2. CASE d \notin ReceiveDevices
  BY <1>2 DEF BootInv, BootTypes, NegotiationFailed, InitFailed
<1> QED
  BY <1>1, <1>2

(* The handshake. *)
LEMMA NegotiateKeeps ==
  ASSUME BootInv, NEW d \in Devices, Negotiate(d)
  PROVE  BootInv'
<1>1. Current(d) /\ boot.step = "Negotiate" /\ panicked = "no" /\ d \notin registered
  BY AtCurrent, OneCurrent DEF Negotiate, BootInv
<1>2. Untouched(d) /\ d # "uart0" /\ UNCHANGED <<queue, registered, blocks>>
  BY <1>1 DEF BootInv, BootProgress, Progress, Negotiate
<1>3. pfn' = queue'
  <2>1. pfn' = [pfn EXCEPT ![d] = NoQueues]
    BY DEF Negotiate, NoQueues
  <2>2. pfn = queue /\ queue \in [Devices -> [Queues -> Nat]] /\ queue[d] = NoQueues
    BY <1>2 DEF BootInv, QueuesOwned, BootTypes, Untouched
  <2> QED
    BY <1>2, <2>1, <2>2
<1>4. QueuesOwned'
  BY <1>2, <1>3 DEF BootInv, QueuesOwned
<1>5. /\ status' \in [Devices -> SUBSET Ready]
      /\ \A e \in Devices : e # d => status'[e] = status[e]
      /\ status'[d] # Ready
  <2>1. PICK S \in SUBSET Ready : S # Ready /\ status' = [status EXCEPT ![d] = S]
    <3>1. /\ {"ACKNOWLEDGE", "DRIVER", "FEATURES_OK"} \in SUBSET Ready
          /\ {"ACKNOWLEDGE", "DRIVER"} \in SUBSET Ready
          /\ "DRIVER_OK" \in Ready
          /\ "DRIVER_OK" \notin {"ACKNOWLEDGE", "DRIVER", "FEATURES_OK"}
          /\ "DRIVER_OK" \notin {"ACKNOWLEDGE", "DRIVER"}
      BY DEF Ready
    <3> QED
      BY <3>1 DEF Negotiate
  <2>2. status \in [Devices -> SUBSET Ready]
    BY DEF BootInv, BootTypes
  <2> QED
    BY <2>1, <2>2
<1>6. ReadyHasQueues'
  BY <1>2, <1>5 DEF BootInv, ReadyHasQueues
<1>7. CASE /\ status' = [status EXCEPT ![d] = {"ACKNOWLEDGE", "DRIVER", "FEATURES_OK"}]
           /\ boot' = [boot EXCEPT !.step = "Queue", !.q = 0]
  <2>1. /\ boot' \in [dev : 1..7, step : {"Init", "Negotiate", "Queue", "Post", "Register"},
                      q : 0..2]
        /\ boot'.dev = boot.dev /\ boot'.step = "Queue" /\ boot'.q = 0
    <3>1. boot' = [dev |-> boot.dev, step |-> "Queue", q |-> 0] /\ boot.dev \in 1..7
      BY <1>7 DEF BootInv, BootTypes
    <3> QED
      BY <3>1
  <2>2. BootTypes'
    BY <1>2, <1>5, <2>1 DEF BootInv, BootTypes
  <2>3. status'[d] = Ready \ {"DRIVER_OK"}
    BY <1>7 DEF BootInv, BootTypes, Ready
  <2>4. Progress(d)'
    BY <1>1, <1>2, <2>1, <2>3, QueueNums DEF Progress, Current
  <2> QED
    BY <1>1, <1>2, <1>4, <1>5, <1>6, <2>1, <2>2, <2>4, DeviceStep
<1>8. CASE NegotiationFailed(d)
  <2>1. BootTypes'
    BY <1>2, <1>5, <1>8, FailedBoot DEF BootInv, BootTypes
  <2>2. Progress(d)'
    BY <1>1, <1>2, <1>8, FailedBoot DEF Progress, Current
  <2> QED
    BY <1>1, <1>2, <1>4, <1>5, <1>6, <1>8, <2>1, <2>2, DeviceStep, FailedBoot
<1> QED
  BY <1>7, <1>8 DEF Negotiate

(* One queue gets its block, or there is none. *)
LEMMA SetQueueKeeps ==
  ASSUME BootInv, NEW d \in Devices, SetQueue(d)
  PROVE  BootInv'
<1>1. Current(d) /\ boot.step = "Queue" /\ panicked = "no" /\ d \notin registered
  BY AtCurrent, OneCurrent DEF SetQueue, BootInv
<1>2. /\ d # "uart0" /\ status[d] = Ready \ {"DRIVER_OK"}
      /\ \A q \in 0..(boot.q - 1) : queue[d][q] # 0
      /\ UNCHANGED <<status, registered>>
  BY <1>1 DEF BootInv, BootProgress, Progress, SetQueue
<1>3. status[d] # Ready
  BY <1>2 DEF Ready
<1>4. boot.q \in Queues /\ boot.q + 1 <= QueueNum(d)
  BY QueueNums DEF BootInv, BootTypes, SetQueue, Queues
<1>5. CASE NegotiationFailed(d) /\ UNCHANGED <<pfn, queue, blocks>>
  <2>1. Progress(d)'
    BY <1>1, <1>2, <1>5, FailedBoot, QueueNums DEF Progress, Current, BootInv, BootProgress
  <2> QED
    BY <1>1, <1>2, <1>5, <2>1, StepKeeps, FailedBoot
<1>6. CASE /\ blocks' = blocks + 1
           /\ pfn' = [pfn EXCEPT ![d][boot.q] = blocks']
           /\ queue' = [queue EXCEPT ![d][boot.q] = blocks']
           /\ boot' = [boot EXCEPT !.q = @ + 1]
  <2>1. /\ boot' \in [dev : 1..7, step : {"Init", "Negotiate", "Queue", "Post", "Register"},
                      q : 0..2]
        /\ boot'.dev = boot.dev /\ boot'.step = "Queue" /\ boot'.q = boot.q + 1
    BY <1>1, <1>4, <1>6 DEF BootInv, BootTypes, Queues
  <2>2. /\ queue' \in [Devices -> [Queues -> Nat]]
        /\ \A e \in Devices : e # d => queue'[e] = queue[e]
        /\ queue'[d][boot.q] = blocks + 1
        /\ \A q \in Queues : q # boot.q => queue'[d][q] = queue[d][q]
        /\ pfn' = queue'
    BY <1>4, <1>6 DEF BootInv, BootTypes, QueuesOwned
  <2>3. blocks \in Nat /\ blocks' = blocks + 1
    BY <1>6 DEF BootInv, BootTypes
  <2>4. BootTypes'
    BY <1>2, <2>1, <2>2, <2>3 DEF BootInv, BootTypes
  <2>5. \A e \in Devices, q \in Queues :
          /\ queue[e][q] \in Nat /\ queue[e][q] <= blocks
          /\ <<e, q>> # <<d, boot.q>> => queue'[e][q] = queue[e][q]
    BY <2>2 DEF BootInv, BootTypes, QueuesOwned
  <2>6. QueuesOwned'
    <3>1. \A e \in Devices, q \in Queues : queue'[e][q] <= blocks'
      BY <2>2, <2>3, <2>5
    <3>2. ASSUME NEW e \in Devices, NEW f \in Devices, NEW q \in Queues, NEW r \in Queues,
                 queue'[e][q] = queue'[f][r], <<e, q>> # <<f, r>>
          PROVE  queue'[e][q] = 0
      <4>1. CASE <<e, q>> = <<d, boot.q>>
        <5>1. queue'[f][r] = queue[f][r] /\ queue[f][r] <= blocks /\ queue[f][r] \in Nat
          BY <3>2, <4>1, <2>5
        <5> QED
          BY <3>2, <4>1, <5>1, <2>2, <2>3
      <4>2. CASE <<f, r>> = <<d, boot.q>>
        <5>1. queue'[e][q] = queue[e][q] /\ queue[e][q] <= blocks /\ queue[e][q] \in Nat
          BY <3>2, <4>2, <2>5
        <5> QED
          BY <3>2, <4>2, <5>1, <2>2, <2>3
      <4>3. CASE <<e, q>> # <<d, boot.q>> /\ <<f, r>> # <<d, boot.q>>
        BY <3>2, <4>3, <2>5 DEF BootInv, QueuesOwned
      <4> QED
        BY <4>1, <4>2, <4>3
    <3> QED
      BY <3>1, <3>2, <2>2 DEF QueuesOwned
  <2>7. ReadyHasQueues'
    BY <1>2, <1>3, <2>2 DEF BootInv, ReadyHasQueues
  <2>8. Progress(d)'
    <3>1. \A q \in 0..boot.q : queue'[d][q] # 0
      BY <1>2, <1>4, <2>2, <2>3 DEF Queues
    <3> QED
      BY <1>1, <1>2, <1>4, <2>1, <3>1 DEF Progress, Current, BootInv, BootTypes
  <2> QED
    BY <1>1, <1>2, <2>1, <2>2, <2>4, <2>6, <2>7, <2>8, DeviceStep
<1> QED
  BY <1>5, <1>6 DEF SetQueue
(* DRIVER_OK: the last queue has been set. *)
LEMMA DriverOkKeeps ==
  ASSUME BootInv, NEW d \in Devices, DriverOk(d)
  PROVE  BootInv'
<1>1. Current(d) /\ boot.step = "Queue" /\ panicked = "no" /\ d \notin registered
  BY AtCurrent, OneCurrent DEF DriverOk, BootInv
<1>2. /\ d # "uart0" /\ status[d] = Ready \ {"DRIVER_OK"}
      /\ \A q \in 0..(QueueNum(d) - 1) : queue[d][q] # 0
      /\ UNCHANGED <<pfn, queue, registered, blocks>>
  BY <1>1 DEF BootInv, BootProgress, Progress, DriverOk
<1>3. /\ status' \in [Devices -> SUBSET Ready]
      /\ \A e \in Devices : e # d => status'[e] = status[e]
      /\ status'[d] = Ready
  <2>1. status \in [Devices -> SUBSET Ready] /\ status' = [status EXCEPT ![d] = @ \cup {"DRIVER_OK"}]
    BY DEF BootInv, BootTypes, DriverOk
  <2>2. (Ready \ {"DRIVER_OK"}) \cup {"DRIVER_OK"} = Ready
    BY DEF Ready
  <2> QED
    BY <1>2, <2>1, <2>2
<1>4. queue[d][0] # 0
  <2>1. 0 \in 0..(QueueNum(d) - 1)
    BY <1>2, QueueNums
  <2> QED
    BY <1>2, <2>1
<1>5. QueuesOwned' /\ ReadyHasQueues'
  BY <1>2, <1>3 DEF BootInv, QueuesOwned, ReadyHasQueues
<1>6. Finished(d)'
  BY <1>2, <1>3, <1>4 DEF Finished
<1>7. PICK s \in {"Post", "Register"} :
        Step(s) /\ (s = "Post" => d \in ReceiveDevices)
  BY DEF DriverOk
<1>8. /\ boot' \in [dev : 1..7, step : {"Init", "Negotiate", "Queue", "Post", "Register"},
                    q : 0..2]
      /\ boot'.dev = boot.dev /\ boot'.step = s
  BY <1>7, StepBoot DEF BootInv
<1>9. Progress(d)'
  BY <1>1, <1>2, <1>6, <1>7, <1>8 DEF Progress, Current
<1>10. BootTypes'
  BY <1>2, <1>3, <1>8 DEF BootInv, BootTypes
<1> QED
  BY <1>1, <1>2, <1>3, <1>5, <1>8, <1>9, <1>10, DeviceStep

(* A step that changes nothing of the boot but, perhaps, stops the kernel. *)
LEMMA BootSame ==
  ASSUME BootInv, UNCHANGED bootVars, panicked' = "no" => panicked = "no"
  PROVE  BootInv'
<1>1. UNCHANGED <<status, pfn, queue, registered, boot, blocks>>
  BY DEF bootVars
<1>2. BootTypes' /\ RegisteredSoFar' /\ QueuesOwned' /\ ReadyHasQueues'
  BY <1>1 DEF BootInv, BootTypes, RegisteredSoFar, QueuesOwned, ReadyHasQueues
<1>3. ASSUME NEW e \in Devices PROVE Progress(e)'
  BY <1>1 DEF BootInv, BootProgress, Progress, Current, Untouched, Finished
<1> QED
  BY <1>2, <1>3 DEF BootInv, BootProgress

(* All buffers have been posted, to a queue that is there. *)
LEMMA PostedKeeps ==
  ASSUME BootInv, NEW d \in ReceiveDevices, Posted(d), queue[d][0] # 0
  PROVE  BootInv'
<1>0. d \in Devices
  BY TheDevices DEF ReceiveDevices
<1>1. Current(d) /\ boot.step = "Post" /\ d \notin registered
  BY <1>0, AtCurrent, OneCurrent DEF Posted, BootInv
<1>2. Step("Register") /\ UNCHANGED <<status, pfn, queue, registered, blocks>>
  BY DEF Posted
<1>3. boot'.dev = boot.dev /\ boot'.step = "Register"
  BY <1>2, StepBoot DEF BootInv
<1>4. Progress(d)'
  BY <1>1, <1>2, <1>3 DEF Progress, Current, Finished
<1> QED
  BY <1>0, <1>1, <1>2, <1>4, StepKeeps, StepBoot DEF BootInv

(* The device is registered, and InitDevices goes on to the next. *)
LEMMA RegisterKeeps ==
  ASSUME BootInv, NEW d \in Devices, Register(d)
  PROVE  BootInv'
<1>1. Current(d) /\ boot.step = "Register" /\ panicked = "no"
  BY AtCurrent DEF Register
<1>2. d \notin registered /\ boot.dev \in 1..6 /\ \A e : Current(e) => e = d
  BY <1>1, OneCurrent DEF BootInv
<1>3. Finished(d) \/ d = "uart0"
  BY <1>1 DEF BootInv, BootProgress, Progress
<1>4. /\ UNCHANGED <<status, pfn, queue, blocks, panicked>>
      /\ registered' = registered \cup {d}
      /\ boot' = [dev |-> boot.dev + 1, step |-> "Init", q |-> 0]
  BY DEF Register
<1>5. BootTypes'
  BY <1>2, <1>4 DEF BootInv, BootTypes
<1>6. RegisteredSoFar'
  <2>1. 1..((boot.dev + 1) - 1) = (1..(boot.dev - 1)) \cup {boot.dev}
    BY <1>2
  <2>2. DeviceList[boot.dev] = d /\ boot'.dev = boot.dev + 1
    BY <1>1, <1>4 DEF Current
  <2>3. registered = {DeviceList[i] : i \in 1..(boot.dev - 1)}
    BY DEF BootInv, RegisteredSoFar
  <2> QED
    BY <1>4, <2>1, <2>2, <2>3 DEF RegisteredSoFar
<1>7. QueuesOwned' /\ ReadyHasQueues'
  BY <1>4 DEF BootInv, QueuesOwned, ReadyHasQueues
<1>8. ASSUME NEW e \in Devices PROVE Progress(e)'
  <2>1. Progress(e)
    BY DEF BootInv, BootProgress
  <2>2. e \in registered' => Finished(e)' \/ e = "uart0"
    BY <2>1, <1>3, <1>4 DEF Progress, Finished
  <2>3. e \notin registered' => Untouched(e)'
    BY <2>1, <1>2, <1>4 DEF Progress, Untouched
  <2>4. Current(e)' => e \notin registered'
    <3>1. BootTypes' /\ RegisteredSoFar' /\ e \in Devices
      BY <1>5, <1>6
    <3>2. Current(e)' => boot'.dev \in 1..6 /\ DeviceList[boot'.dev] = e
      BY <1>5 DEF Current, BootTypes
    <3>3. \A i \in 1..(boot'.dev - 1) : boot'.dev \in 1..6 => i \in 1..6 /\ i # boot'.dev
      OBVIOUS
    <3> QED
      BY <3>1, <3>2, <3>3, TheDevices DEF RegisteredSoFar
  <2>5. boot'.step = "Init"
    BY <1>4
  <2> QED
    BY <2>2, <2>3, <2>4, <2>5 DEF Progress
<1> QED
  BY <1>5, <1>6, <1>7, <1>8 DEF BootInv, BootProgress

(* Every step of InitDevices. *)
LEMMA BootStepKeeps ==
  ASSUME BootInv, NEW d \in Devices, BootStep(d)
  PROVE  BootInv'
<1>1. CASE PostFaults(d)
  <2>1. UNCHANGED bootVars /\ panicked' # "no"
    BY <1>1 DEF PostFaults
  <2> QED
    BY <2>1, BootSame
<1> QED
  BY <1>1, ValidateKeeps, NegotiateKeeps, SetQueueKeeps, DriverOkKeeps, RegisterKeeps
     DEF BootStep
-----------------------------------------------------------------------------
(* The receive queues *)

(* What the steps of the boot mean for the receive queues: no queue goes     *)
(* away, and only Posted finishes the posting of buffers.                    *)
LEMMA BootForQueues ==
  ASSUME BootInv, NEW d \in Devices, BootStep(d), NEW e \in ReceiveDevices
  PROVE  /\ registered \subseteq registered'
         /\ queue[e][0] # 0 => queue'[e][0] # 0
         /\ AllPosted(e)' <=> AllPosted(e)
<1>0. e \in Devices /\ e # "uart0"
  BY TheDevices DEF ReceiveDevices
<1>1. CASE Validate(d)
  <2>1. Current(d) /\ boot.step = "Init"
    BY <1>1, AtCurrent DEF Validate
  <2>2. UNCHANGED <<queue, registered>> /\ boot'.dev = boot.dev
    BY <1>1, StepBoot DEF Validate, BootInv, InitFailed
  <2>3. d = e => boot'.step # "Register"
    BY <1>0, <1>1, <2>1, StepBoot, QueueNums DEF Validate, BootInv, InitFailed
  <2>4. Current(e) => e = d
    BY <2>1, OneCurrent DEF BootInv
  <2> QED
    BY <2>1, <2>2, <2>3, <2>4 DEF AllPosted, Current
<1>2. CASE Negotiate(d)
  <2>1. Current(d) /\ boot.step = "Negotiate"
    BY <1>2, AtCurrent DEF Negotiate
  <2>2. UNCHANGED <<queue, registered>> /\ boot'.dev = boot.dev /\ boot'.step # "Register"
    <3>1. CASE NegotiationFailed(d)
      BY <1>2, <2>1, <3>1, FailedBoot DEF Negotiate
    <3>2. CASE boot' = [boot EXCEPT !.step = "Queue", !.q = 0]
      BY <1>2, <3>2 DEF Negotiate, BootInv, BootTypes
    <3> QED
      BY <1>2, <3>1, <3>2 DEF Negotiate
  <2>4. Current(e) => e = d
    BY <2>1, OneCurrent DEF BootInv
  <2> QED
    BY <2>1, <2>2, <2>4 DEF AllPosted, Current
<1>3. CASE SetQueue(d)
  <2>1. Current(d) /\ boot.step = "Queue"
    BY <1>3, AtCurrent DEF SetQueue
  <2>2. registered' = registered /\ boot'.dev = boot.dev /\ boot'.step # "Register"
    <3>1. CASE NegotiationFailed(d)
      BY <1>3, <2>1, <3>1, FailedBoot DEF SetQueue
    <3>2. CASE boot' = [boot EXCEPT !.q = @ + 1]
      BY <1>3, <2>1, <3>2 DEF SetQueue, BootInv, BootTypes
    <3> QED
      BY <1>3, <3>1, <3>2 DEF SetQueue
  <2>3. queue[e][0] # 0 => queue'[e][0] # 0
    <3>1. CASE UNCHANGED queue
      BY <3>1
    <3>2. CASE blocks' = blocks + 1 /\ queue' = [queue EXCEPT ![d][boot.q] = blocks']
      <4>1. queue \in [Devices -> [Queues -> Nat]] /\ blocks \in Nat /\ 0 \in Queues
        BY DEF BootInv, BootTypes, Queues
      <4>2. queue'[e][0] = queue[e][0] \/ queue'[e][0] = blocks + 1
        BY <1>0, <3>2, <4>1
      <4> QED
        BY <4>1, <4>2
    <3> QED
      BY <1>3, <3>1, <3>2 DEF SetQueue
  <2>4. Current(e) => e = d
    BY <2>1, OneCurrent DEF BootInv
  <2> QED
    BY <2>1, <2>2, <2>3, <2>4 DEF AllPosted, Current
<1>4. CASE DriverOk(d)
  <2>1. Current(d) /\ boot.step = "Queue"
    BY <1>4, AtCurrent DEF DriverOk
  <2>2. UNCHANGED <<queue, registered>> /\ boot'.dev = boot.dev
    BY <1>4, StepBoot DEF DriverOk, BootInv
  <2>3. d = e => boot'.step # "Register"
    BY <1>4, StepBoot DEF DriverOk, BootInv
  <2>4. Current(e) => e = d
    BY <2>1, OneCurrent DEF BootInv
  <2> QED
    BY <2>1, <2>2, <2>3, <2>4 DEF AllPosted, Current
<1>5. CASE PostFaults(d)
  BY <1>5 DEF PostFaults, bootVars, AllPosted, Current
<1>6. CASE Register(d)
  <2>1. Current(d) /\ boot.step = "Register"
    BY <1>6, AtCurrent DEF Register
  <2>2. /\ queue' = queue /\ registered' = registered \cup {d}
        /\ boot' = [dev |-> boot.dev + 1, step |-> "Init", q |-> 0]
    BY <1>6 DEF Register
  <2>3. ~(boot'.step = "Register")
    BY <2>2
  <2>4. Current(e) => e = d
    BY <2>1, OneCurrent DEF BootInv
  <2> QED
    BY <2>1, <2>2, <2>3, <2>4 DEF AllPosted
<1> QED
  BY <1>1, <1>2, <1>3, <1>4, <1>5, <1>6 DEF BootStep

(* The boot goes on and the receive queues stay. *)
LEMMA RxSame ==
  ASSUME RxInv, UNCHANGED rxVars,
         in_isr' \in [dev : Devices \cup {"none"}, q : Queues], HandlerRegistered',
         \A e \in ReceiveDevices : /\ queue[e][0] # 0 => queue'[e][0] # 0
                                   /\ AllPosted(e)' <=> AllPosted(e)
  PROVE  RxInv'
<1>1. UNCHANGED <<rx, sent>>
  BY DEF rxVars
<1>2. RxTypes' /\ QueuesSound'
  BY <1>1 DEF RxInv, RxTypes, QueuesSound, RxSound
<1>3. PostedToQueue'
  BY <1>1 DEF RxInv, PostedToQueue
<1> QED
  BY <1>2, <1>3 DEF RxInv

(* One receive queue changes, beside a boot that stays. *)
LEMMA RxUpdate ==
  ASSUME RxInv, NEW d \in ReceiveDevices, NEW s \in RxRecord, NEW n \in Nat,
         rx' = [rx EXCEPT ![d] = s], sent' = [sent EXCEPT ![d] = n],
         RxSound(s, n), s.avail_idx # 0 => queue[d][0] # 0,
         AllPosted(d) => s.avail_idx = QueueSize + s.last_seen_used_idx,
         ~AllPosted(d) => s.last_seen_used_idx = 0,
         UNCHANGED bootVars, in_isr' = in_isr
  PROVE  RxInv'
<1>1. rx \in [ReceiveDevices -> RxRecord] /\ sent \in [ReceiveDevices -> Nat]
  BY DEF RxInv, RxTypes
<1>2. /\ rx' \in [ReceiveDevices -> RxRecord] /\ sent' \in [ReceiveDevices -> Nat]
      /\ rx'[d] = s /\ sent'[d] = n
      /\ \A e \in ReceiveDevices : e # d => rx'[e] = rx[e] /\ sent'[e] = sent[e]
  BY <1>1
<1>3. UNCHANGED <<queue, registered, boot>>
  BY DEF bootVars
<1>4. RxTypes' /\ HandlerRegistered'
  BY <1>2, <1>3 DEF RxInv, RxTypes, HandlerRegistered
<1>5. QueuesSound'
  <2>1. ASSUME NEW e \in ReceiveDevices PROVE RxSound(rx'[e], sent'[e])
    BY <1>2 DEF RxInv, QueuesSound
  <2> QED
    BY <2>1 DEF QueuesSound, RxSound
<1>6. PostedToQueue'
  <2>1. \A e : AllPosted(e)' <=> AllPosted(e)
    BY <1>3 DEF AllPosted, Current
  <2> QED
    BY <1>2, <1>3, <2>1 DEF RxInv, PostedToQueue
<1> QED
  BY <1>4, <1>5, <1>6 DEF RxInv

(* A buffer is posted at boot. *)
LEMMA PostBufferKeeps ==
  ASSUME BootInv, RxInv, NEW d \in ReceiveDevices, PostBuffer(d)
  PROVE  RxInv'
<1> DEFINE r == rx[d]
           i == r.avail_idx
           s == [r EXCEPT !.avail[i] = i, !.avail_idx = i + 1]
<1>0. d \in Devices
  BY TheDevices DEF ReceiveDevices
<1>1. r \in RxRecord /\ RxSound(r, sent[d]) /\ sent[d] \in Nat
  BY DEF RxInv, RxTypes, QueuesSound
<1>2. i \in Descs /\ queue[d][0] # 0
  BY <1>1, ReceiveAssumption DEF PostBuffer, RxRecord, Descs
<1>3. ~AllPosted(d)
  BY <1>0, AtCurrent, OneCurrent DEF PostBuffer, AllPosted, BootInv
<1>4. r.last_seen_used_idx = 0
  BY <1>3 DEF RxInv, PostedToQueue
<1>5. /\ s \in RxRecord
      /\ s.avail = [r.avail EXCEPT ![i] = i] /\ s.avail_idx = i + 1
      /\ s.dev_idx = r.dev_idx /\ s.used = r.used /\ s.used_idx = r.used_idx
      /\ s.last_seen_used_idx = r.last_seen_used_idx
      /\ s.buf = r.buf /\ s.taken = r.taken
  <2>1. r.avail \in [Descs -> Descs] /\ i \in Nat /\ i + 1 \in Nat
    BY <1>1 DEF RxRecord
  <2>2. [r.avail EXCEPT ![i] = i] \in [Descs -> Descs]
    BY <1>2, <2>1
  <2>3. s = [r EXCEPT !.avail = [r.avail EXCEPT ![i] = i], !.avail_idx = i + 1]
    BY <1>1 DEF RxRecord
  <2> HIDE DEF i, s, r
  <2> QED
    BY <1>1, <2>1, <2>2, <2>3 DEF RxRecord
<1>6. rx' = [rx EXCEPT ![d] = s] /\ sent' = [sent EXCEPT ![d] = sent[d]]
  BY DEF PostBuffer, RxInv, RxTypes
<1>7. RxSound(s, sent[d])
  <2>1. \A j \in Descs : j < i + 1 => s.avail[j] = j
    <3> TAKE j \in Descs
    <3> HAVE j < i + 1
    <3>1. j = i \/ j < i
      BY <1>2 DEF Descs
    <3>2. r.avail \in [Descs -> Descs] /\ (j < i => r.avail[j] = j)
      BY <1>1 DEF RxRecord, RxSound
    <3> QED
      BY <1>2, <1>5, <3>1, <3>2
  <2>2. i + 1 <= QueueSize /\ i \in Nat /\ sent[d] <= i
    BY <1>1, <1>2, ReceiveAssumption DEF Descs, RxSound
  <2>3. sent[d] <= i + 1 /\ i + 1 <= QueueSize + r.last_seen_used_idx
    BY <1>1, <1>4, <2>2, ReceiveAssumption
  <2> QED
    BY <1>1, <1>5, <2>1, <2>3 DEF RxSound
<1>8. UNCHANGED bootVars /\ in_isr' = in_isr
  BY DEF PostBuffer
<1> HIDE DEF s, i, r
<1> QED
  BY <1>1, <1>2, <1>3, <1>4, <1>5, <1>6, <1>7, <1>8, RxUpdate
(* The place of an index in the rings. *)
LEMMA Place ==
  ASSUME NEW k \in Nat
  PROVE  /\ k % QueueSize \in Descs
         /\ k % QueueSize \in Nat
         /\ k % QueueSize <= k
<1>1. k \in Int /\ QueueSize \in Nat \ {0}
  BY ReceiveAssumption
<1>2. k % QueueSize \in 0..(QueueSize - 1)
  BY <1>1, ModRange
<1>3. k % QueueSize <= k
  BY <1>1, ModLe
<1> QED
  BY <1>1, <1>2, <1>3 DEF Descs

(* The device fills the next buffer. *)
LEMMA DeviceReceiveKeeps ==
  ASSUME BootInv, RxInv, NEW d \in ReceiveDevices, DeviceReceive(d)
  PROVE  RxInv'
<1> DEFINE r == rx[d]
           n == sent[d]
           m == n % QueueSize
           s == [r EXCEPT !.dev_idx = n + 1, !.used = [r.used EXCEPT ![m] = m],
                          !.used_idx = n + 1, !.buf = [r.buf EXCEPT ![m] = n + 1]]
<1>1. r \in RxRecord /\ RxSound(r, n) /\ n \in Nat
  BY DEF RxInv, RxTypes, QueuesSound
<1>2. /\ r.dev_idx = n /\ r.used_idx = n /\ n < r.avail_idx
      /\ r.used \in [Descs -> Descs] /\ r.buf \in [Descs -> Nat] /\ r.avail \in [Descs -> Descs]
      /\ r.last_seen_used_idx \in Nat /\ r.avail_idx \in Nat
  BY <1>1 DEF RxSound, RxRecord, DeviceReceive
<1>3. m \in Descs /\ m <= n /\ r.avail[m] = m
  <2>1. m \in Descs /\ m \in Nat /\ m <= n
    BY <1>1, Place
  <2>2. m < r.avail_idx
    <3> HIDE DEF m, n, r
    <3> QED
      BY <1>1, <1>2, <2>1
  <2> QED
    BY <1>1, <2>1, <2>2 DEF RxSound
<1>4. rx' = [rx EXCEPT ![d] = s] /\ sent' = [sent EXCEPT ![d] = n + 1]
  <2>0. (n + 1) % UsedIdxMod = n + 1
    <3>1. sent["mouse0"] \in Nat /\ sent["net0"] \in Nat /\ d \in {"mouse0", "net0"}
      BY DEF RxInv, RxTypes, ReceiveDevices
    <3>2. sent["mouse0"] + sent["net0"] < MaxEvents
      BY DEF DeviceReceive
    <3>3. n + 1 < UsedIdxMod
      <4>1. n < MaxEvents
        <5>1. n = sent["mouse0"] \/ n = sent["net0"]
          BY <3>1
        <5> HIDE DEF n
        <5> QED
          BY <3>1, <3>2, <5>1, ReceiveAssumption DEF UsedIdxMod
      <4> HIDE DEF n
      <4> QED
        BY <1>1, <4>1, ReceiveAssumption DEF UsedIdxMod
    <3> HIDE DEF n
    <3> QED
      BY <1>1, <3>3, ModSmall DEF UsedIdxMod
  <2>1. rx' = [rx EXCEPT ![d].dev_idx = @ + 1, ![d].used[m] = m,
                         ![d].used_idx = n + 1, ![d].buf[m] = n + 1]
    <3>1. rx' = [rx EXCEPT ![d].dev_idx = @ + 1, ![d].used[m] = m,
                           ![d].used_idx = (@ + 1) % UsedIdxMod, ![d].buf[m] = n + 1]
      BY <1>2, <1>3 DEF DeviceReceive
    <3> HIDE DEF n, m
    <3> QED
      BY <1>2, <2>0, <3>1 DEF RxInv, RxTypes
  <2>2. rx \in [ReceiveDevices -> RxRecord] /\ sent' = [sent EXCEPT ![d] = n + 1]
    BY DEF RxInv, RxTypes, DeviceReceive
  <2> HIDE DEF n, m
  <2> QED
    BY <1>2, <2>1, <2>2 DEF RxRecord
<1> HIDE DEF r, n, m
<1>5. /\ [r.used EXCEPT ![m] = m] \in [Descs -> Descs]
      /\ [r.buf EXCEPT ![m] = n + 1] \in [Descs -> Nat]
      /\ n + 1 \in Nat
  BY <1>1, <1>2, <1>3
<1>6. /\ s \in RxRecord
      /\ s.dev_idx = n + 1 /\ s.used = [r.used EXCEPT ![m] = m] /\ s.used_idx = n + 1
      /\ s.buf = [r.buf EXCEPT ![m] = n + 1]
      /\ s.avail = r.avail /\ s.avail_idx = r.avail_idx
      /\ s.last_seen_used_idx = r.last_seen_used_idx /\ s.taken = r.taken
  BY <1>1, <1>5 DEF RxRecord
<1> HIDE DEF s
<1>7. RxSound(s, n + 1)
  <2>1. /\ s.last_seen_used_idx <= n + 1 /\ n + 1 <= s.avail_idx
        /\ s.avail_idx <= QueueSize + s.last_seen_used_idx
    BY <1>1, <1>2, <1>6 DEF RxSound
  <2>2. \A i \in Descs : i < n + 1 => s.used[i] = i
    <3> TAKE i \in Descs
    <3> HAVE i < n + 1
    <3>1. i \in 0..(QueueSize - 1)
      BY DEF Descs
    <3>2. CASE i = m
      BY <1>2, <1>3, <1>6, <3>2
    <3>3. CASE i # m
      <4>1. i < n
        <5>1. CASE i = n
          <6>1. m = n
            BY <3>1, <5>1, ModSmall, ReceiveAssumption DEF m
          <6> QED
            BY <3>3, <5>1, <6>1
        <5> QED
          BY <1>1, <3>1, <5>1, ReceiveAssumption
      <4>2. r.used[i] = i
        BY <1>1, <4>1 DEF RxSound
      <4> QED
        BY <1>2, <1>6, <3>3, <4>2
    <3> QED
      BY <3>2, <3>3
  <2>3. \A k \in s.last_seen_used_idx..((n + 1) - 1) : s.buf[k % QueueSize] = k + 1
    <3> TAKE k \in s.last_seen_used_idx..((n + 1) - 1)
    <3>0. k \in Nat /\ k <= n /\ r.last_seen_used_idx <= k
      BY <1>1, <1>2, <1>6
    <3>1. CASE k = n
      BY <1>2, <1>3, <1>6, <3>1 DEF m
    <3>2. CASE k # n
      <4>1. k \in r.last_seen_used_idx..(n - 1) /\ k < n
        BY <1>1, <1>2, <3>0, <3>2
      <4>2. n - k < QueueSize
        BY <1>1, <1>2, <4>1, ReceiveAssumption DEF RxSound
      <4>3. k % QueueSize # m
        <5>1. k \in Int /\ n \in Int /\ QueueSize \in Nat \ {0}
          BY <1>1, <3>0, ReceiveAssumption
        <5>2. k % QueueSize # n % QueueSize
          BY <4>1, <4>2, <5>1, ModDistinct
        <5> QED
          BY <5>2 DEF m
      <4>4. r.buf[k % QueueSize] = k + 1
        BY <1>1, <4>1 DEF RxSound
      <4>5. k % QueueSize \in Descs
        BY <3>0, Place
      <4> QED
        BY <1>2, <1>6, <4>3, <4>4, <4>5
    <3> QED
      BY <3>1, <3>2
  <2> QED
    BY <1>1, <1>6, <2>1, <2>2, <2>3 DEF RxSound
<1>8. UNCHANGED bootVars /\ in_isr' = in_isr
  BY DEF DeviceReceive
<1>9. /\ s.avail_idx # 0 => queue[d][0] # 0
      /\ AllPosted(d) => s.avail_idx = QueueSize + s.last_seen_used_idx
      /\ ~AllPosted(d) => s.last_seen_used_idx = 0
  BY <1>6 DEF RxInv, PostedToQueue, r
<1> QED
  BY <1>4, <1>5, <1>6, <1>7, <1>8, <1>9, RxUpdate

(* The handler takes an event and posts its buffer again. *)
LEMMA RxBufferKeeps ==
  ASSUME BootInv, RxInv, NEW d \in ReceiveDevices, RxBuffer(d)
  PROVE  RxInv'
<1> DEFINE r == rx[d]
           n == sent[d]
           l == r.last_seen_used_idx
           m == l % QueueSize
           s == [r EXCEPT !.last_seen_used_idx = l + 1, !.taken = Append(r.taken, l + 1),
                          !.avail_idx = r.avail_idx + 1]
<1>1. r \in RxRecord /\ RxSound(r, n) /\ n \in Nat
  BY DEF RxInv, RxTypes, QueuesSound
<1>2. /\ l \in Nat /\ r.avail_idx \in Nat /\ r.taken \in Seq(Nat)
      /\ r.used_idx = n /\ l <= n /\ l # n
      /\ r.used \in [Descs -> Descs] /\ r.buf \in [Descs -> Nat]
  BY <1>1 DEF RxSound, RxRecord, RxBuffer
<1>3. m \in Descs /\ r.used[m] = m /\ r.buf[m] = l + 1
  <2>1. m \in Descs /\ m \in Nat /\ m <= l
    BY <1>2, Place
  <2>2. m < n /\ l \in l..(n - 1)
    <3> HIDE DEF m, n, l, r
    <3> QED
      BY <1>1, <1>2, <2>1
  <2> QED
    BY <1>1, <2>1, <2>2 DEF RxSound
<1>4. rx' = [rx EXCEPT ![d] = s] /\ sent' = [sent EXCEPT ![d] = n]
  <2>1. rx' = [rx EXCEPT ![d].last_seen_used_idx = @ + 1, ![d].taken = Append(@, l + 1),
                         ![d].avail_idx = r.avail_idx + 1]
    BY <1>3 DEF RxBuffer, Recycled
  <2>2. /\ rx \in [ReceiveDevices -> RxRecord] /\ sent \in [ReceiveDevices -> Nat]
        /\ sent' = sent
    BY DEF RxInv, RxTypes, RxBuffer
  <2> QED
    BY <2>1, <2>2 DEF RxRecord
<1> HIDE DEF r, n, m, l
<1>5. Append(r.taken, l + 1) \in Seq(Nat) /\ l + 1 \in Nat /\ r.avail_idx + 1 \in Nat
  BY <1>2
<1>6. /\ s \in RxRecord
      /\ s.last_seen_used_idx = l + 1 /\ s.taken = Append(r.taken, l + 1)
      /\ s.avail_idx = r.avail_idx + 1
      /\ s.dev_idx = r.dev_idx /\ s.used = r.used /\ s.used_idx = r.used_idx
      /\ s.avail = r.avail /\ s.buf = r.buf
  BY <1>1, <1>5 DEF RxRecord
<1> HIDE DEF s
<1>7. d \in registered /\ d \in Devices
  BY TheDevices DEF RxInv, HandlerRegistered, RxBuffer, ReceiveDevices
<1>8. AllPosted(d) /\ r.avail_idx = QueueSize + l /\ queue[d][0] # 0
  <2>1. AllPosted(d)
    BY <1>7 DEF AllPosted
  <2>2. r.avail_idx = QueueSize + l
    BY <2>1 DEF RxInv, PostedToQueue, r, l
  <2>3. r.avail_idx # 0
    BY <1>2, <2>2, ReceiveAssumption
  <2>4. r.avail_idx # 0 => queue[d][0] # 0
    BY DEF RxInv, PostedToQueue, r
  <2> QED
    BY <2>1, <2>2, <2>3, <2>4
<1>9. RxSound(s, n)
  <2>1. /\ l + 1 <= n /\ n <= r.avail_idx + 1 /\ r.avail_idx + 1 <= QueueSize + (l + 1)
    BY <1>1, <1>2, <1>8, ReceiveAssumption DEF RxSound
  <2>2. \A i \in Descs : i < r.avail_idx + 1 => r.avail[i] = i
    <3>1. \A i \in Descs : i < r.avail_idx
      BY <1>2, <1>8, ReceiveAssumption DEF Descs
    <3> QED
      BY <1>1, <3>1 DEF RxSound
  <2>3. \A k \in (l + 1)..(n - 1) : r.buf[k % QueueSize] = k + 1
    <3>1. \A k \in (l + 1)..(n - 1) : k \in l..(n - 1)
      BY <1>1, <1>2
    <3> QED
      BY <1>1, <3>1 DEF RxSound, l
  <2>4. Append(r.taken, l + 1) = [k \in 1..(l + 1) |-> k]
    <3>1. r.taken = [k \in 1..l |-> k]
      BY <1>1 DEF RxSound, l
    <3>2. Len(r.taken) = l
      BY <1>2, <3>1
    <3> QED
      BY <1>2, <3>1, <3>2
  <2> QED
    BY <1>1, <1>6, <2>1, <2>2, <2>3, <2>4 DEF RxSound
<1>10. UNCHANGED bootVars /\ in_isr' = in_isr
  BY DEF RxBuffer
<1>11. s.avail_idx = QueueSize + s.last_seen_used_idx
  BY <1>2, <1>6, <1>8, ReceiveAssumption
<1> QED
  BY <1>1, <1>4, <1>6, <1>8, <1>9, <1>10, <1>11, RxUpdate
(* All buffers have been posted: the device goes on to be registered. *)
LEMMA PostedRx ==
  ASSUME BootInv, RxInv, NEW d \in ReceiveDevices, Posted(d)
  PROVE  BootInv' /\ RxInv'
<1>0. d \in Devices
  BY TheDevices DEF ReceiveDevices
<1>1. Current(d) /\ boot.step = "Post" /\ d \notin registered
  BY <1>0, AtCurrent, OneCurrent DEF Posted, BootInv
<1>2. rx[d].avail_idx = QueueSize /\ rx[d].avail_idx # 0
  BY ReceiveAssumption DEF Posted
<1>3. queue[d][0] # 0
  BY <1>2 DEF RxInv, PostedToQueue
<1>4. BootInv'
  BY <1>3, PostedKeeps
<1>5. rx[d].last_seen_used_idx = 0
  BY <1>1 DEF RxInv, PostedToQueue, AllPosted
<1>6. UNCHANGED <<rx, sent, queue, registered, in_isr>> /\ Step("Register")
  BY DEF Posted, rxVars
<1>7. boot'.dev = boot.dev /\ boot'.step = "Register"
  BY <1>6, StepBoot DEF BootInv
<1>8. RxTypes' /\ QueuesSound' /\ HandlerRegistered'
  BY <1>6 DEF RxInv, RxTypes, QueuesSound, RxSound, HandlerRegistered
<1>9. PostedToQueue'
  <2>1. ASSUME NEW e \in ReceiveDevices, e # d PROVE AllPosted(e)' <=> AllPosted(e)
    <3>1. ~Current(e)
      BY <1>0, <1>1, <2>1, OneCurrent DEF BootInv
    <3> QED
      BY <1>6, <1>7, <3>1 DEF AllPosted, Current
  <2>2. AllPosted(d)'
    BY <1>1, <1>7 DEF AllPosted, Current
  <2>3. rx[d].avail_idx = QueueSize + rx[d].last_seen_used_idx
    BY <1>2, <1>5, ReceiveAssumption
  <2> QED
    BY <1>6, <2>1, <2>2, <2>3 DEF RxInv, PostedToQueue
<1> QED
  BY <1>4, <1>8, <1>9 DEF RxInv

(* A step beside boot and receive queues: the driver's, the GPU's or the     *)
(* interrupt's.                                                              *)
LEMMA Beside ==
  ASSUME IInv, UNCHANGED <<bootVars, rxVars>>, panicked' = "no" => panicked = "no",
         in_isr' \in [dev : Devices \cup {"none"}, q : Queues],
         in_isr'.dev \in ReceiveDevices => in_isr'.dev \in registered
  PROVE  IInv'
<1>1. BootInv'
  BY BootSame DEF IInv
<1>2. UNCHANGED <<queue, registered, boot>>
  BY DEF bootVars
<1>3. HandlerRegistered'
  BY <1>2 DEF HandlerRegistered
<1>4. \A e \in ReceiveDevices : /\ queue[e][0] # 0 => queue'[e][0] # 0
                                /\ AllPosted(e)' <=> AllPosted(e)
  BY <1>2 DEF AllPosted, Current
<1>5. RxInv'
  BY <1>3, <1>4, RxSame DEF IInv
<1> QED
  BY <1>1, <1>5 DEF IInv

(* The same for a step that is not the interrupt's. *)
LEMMA BesideAll ==
  ASSUME IInv, UNCHANGED <<bootVars, rxVars, in_isr>>, panicked' = "no" => panicked = "no"
  PROVE  IInv'
<1>1. /\ in_isr' \in [dev : Devices \cup {"none"}, q : Queues]
      /\ in_isr'.dev \in ReceiveDevices => in_isr'.dev \in registered
  BY DEF IInv, RxInv, RxTypes, HandlerRegistered
<1> QED
  BY <1>1, Beside

(* Programs, the GPU driver and the GPU never touch boot or receive queues. *)
LEMMA GpuBeside ==
  ASSUME \/ \E p \in Users : (\E op \in Ops : SystemCall(p, op)) \/ Draw(p) \/ GpuStep(p)
         \/ \E q \in Queues : DeviceServe(q)
         \/ UsedBufferNotify
  PROVE  UNCHANGED <<bootVars, rxVars, in_isr>> /\ (panicked' = "no" => panicked = "no")
<1>1. ASSUME NEW p \in Users, NEW op \in Ops, SystemCall(p, op)
      PROVE  UNCHANGED <<bootVars, rxVars, in_isr, panicked>>
  BY <1>1 DEF SystemCall
<1>2. ASSUME NEW p \in Users, Draw(p)
      PROVE  UNCHANGED <<bootVars, rxVars, in_isr, panicked>>
  BY <1>2 DEF Draw
<1>3. ASSUME NEW p \in Users, Transport(p)
      PROVE  UNCHANGED <<bootVars, rxVars, in_isr, panicked>>
  BY <1>3, Zenon DEF Transport
<1>4. ASSUME NEW p \in Users, TriggerNotify(p)
      PROVE  UNCHANGED <<bootVars, rxVars, in_isr, panicked>>
  BY <1>4, Zenon DEF TriggerNotify
<1>5. ASSUME NEW p \in Users, WaitComplete(p)
      PROVE  UNCHANGED <<bootVars, rxVars, in_isr, panicked>>
  BY <1>5, Zenon DEF WaitComplete
<1>6. ASSUME NEW p \in Users, Check(p)
      PROVE  /\ UNCHANGED <<bootVars, rxVars, in_isr>>
             /\ panicked' = "gpu device resp error" \/ panicked' = panicked
  BY <1>6, Zenon DEF Check
<1>7. ASSUME NEW q \in Queues, DeviceServe(q)
      PROVE  UNCHANGED <<bootVars, rxVars, in_isr, panicked>>
  BY <1>7, Zenon DEF DeviceServe
<1>8. ASSUME UsedBufferNotify
      PROVE  UNCHANGED <<bootVars, rxVars, in_isr, panicked>>
  BY <1>8, Zenon DEF UsedBufferNotify
<1> QED
  BY <1>1, <1>2, <1>3, <1>4, <1>5, <1>6, <1>7, <1>8 DEF GpuStep

-----------------------------------------------------------------------------
(* The invariant *)

(* The initial states. *)
LEMMA InitIInv == Init => IInv
<1> SUFFICES ASSUME Init PROVE IInv
  OBVIOUS
<1>1. BootInit /\ RxInit
  BY DEF Init
<1>2. \A d \in Devices : status[d] = {} /\ queue[d] = NoQueues
  BY <1>1 DEF BootInit, NoQueues
<1>3. \A d \in Devices, q \in Queues : queue[d][q] = 0
  BY <1>2 DEF NoQueues
<1>4. boot = [dev |-> 1, step |-> "Init", q |-> 0] /\ registered = {} /\ blocks = 0
  BY <1>1 DEF BootInit
<1>5. BootTypes
  BY <1>1, <1>4 DEF BootInit, BootTypes
<1>6. RegisteredSoFar
  BY <1>4 DEF RegisteredSoFar
<1>7. QueuesOwned
  BY <1>1, <1>3, <1>4 DEF BootInit, QueuesOwned
<1>8. ReadyHasQueues
  BY <1>2 DEF ReadyHasQueues, Ready
<1>9. BootProgress
  BY <1>2, <1>4 DEF BootProgress, Progress, Untouched
<1> DEFINE r0 == [avail |-> [i \in Descs |-> 0], avail_idx |-> 0, dev_idx |-> 0,
                  used |-> [i \in Descs |-> 0], used_idx |-> 0, last_seen_used_idx |-> 0,
                  buf |-> [i \in Descs |-> 0], taken |-> <<>>]
<1>10. rx = [d \in ReceiveDevices |-> r0] /\ sent = [d \in ReceiveDevices |-> 0]
  BY <1>1 DEF RxInit
<1>11. r0 \in RxRecord
  <2>1. 0 \in Descs
    BY ReceiveAssumption DEF Descs
  <2> QED
    BY <2>1 DEF RxRecord
<1>12. /\ r0.avail_idx = 0 /\ r0.dev_idx = 0 /\ r0.used_idx = 0
       /\ r0.last_seen_used_idx = 0 /\ r0.taken = <<>>
  OBVIOUS
<1> HIDE DEF r0
<1>13. RxSound(r0, 0)
  <2>1. \A i \in Descs : ~(i < 0)
    BY DEF Descs
  <2>2. 0..(0 - 1) = {} /\ 1..0 = {} /\ 0 <= QueueSize + 0
    BY ReceiveAssumption
  <2>3. r0.taken = [k \in 1..0 |-> k]
    BY <1>12
  <2> QED
    BY <1>12, <2>1, <2>2, <2>3 DEF RxSound
<1>14. RxTypes
  <2>1. in_isr \in [dev : Devices \cup {"none"}, q : Queues]
    BY <1>1 DEF RxInit, NoIsr, Queues
  <2> QED
    BY <1>10, <1>11, <2>1 DEF RxTypes
<1>15. HandlerRegistered
  BY <1>1 DEF RxInit, NoIsr, HandlerRegistered, ReceiveDevices
<1>16. QueuesSound
  BY <1>10, <1>13 DEF QueuesSound
<1>17. PostedToQueue
  <2>1. \A d \in ReceiveDevices : ~AllPosted(d)
    BY <1>4 DEF AllPosted
  <2> QED
    BY <1>10, <1>12, <2>1 DEF PostedToQueue
<1> QED
  BY <1>5, <1>6, <1>7, <1>8, <1>9, <1>14, <1>15, <1>16, <1>17 DEF IInv, BootInv, RxInv

(* Every step, and every stuttering step. *)
LEMMA NextIInv == IInv /\ [Next]_vars => IInv'
<1> SUFFICES ASSUME IInv, [Next]_vars PROVE IInv'
  OBVIOUS
<1>0. BootInv /\ RxInv
  BY DEF IInv
<1>1. ASSUME NEW d \in Devices, BootDevice(d) PROVE IInv'
  <2>1. BootStep(d) /\ UNCHANGED <<rxVars, in_isr>>
    BY <1>1 DEF BootDevice
  <2>2. BootInv'
    BY <1>0, <2>1, BootStepKeeps
  <2>3. \A e \in ReceiveDevices : /\ registered \subseteq registered'
                                  /\ queue[e][0] # 0 => queue'[e][0] # 0
                                  /\ AllPosted(e)' <=> AllPosted(e)
    BY <1>0, <2>1, BootForQueues
  <2>4. HandlerRegistered' /\ in_isr' \in [dev : Devices \cup {"none"}, q : Queues]
    BY <1>0, <2>1, <2>3 DEF RxInv, RxTypes, HandlerRegistered
  <2>5. RxInv'
    BY <1>0, <2>1, <2>3, <2>4, RxSame
  <2> QED
    BY <2>2, <2>5 DEF IInv
<1>2. ASSUME NEW d \in Devices, Interrupt(d) PROVE IInv'
  <2>1. /\ UNCHANGED <<bootVars, rxVars>>
        /\ \/ d \in registered /\ in_isr' = [dev |-> d, q |-> 0] /\ panicked' = panicked
           \/ panicked' = "No device satisfied irq" /\ in_isr' = in_isr
    BY <1>2 DEF Interrupt, ProcessInterrupt
  <2>2. CASE d \in registered /\ in_isr' = [dev |-> d, q |-> 0] /\ panicked' = panicked
    <3>1. in_isr' \in [dev : Devices \cup {"none"}, q : Queues] /\ in_isr'.dev = d
      BY <2>2 DEF Queues
    <3> QED
      BY <2>1, <2>2, <3>1, Beside
  <2>3. CASE panicked' = "No device satisfied irq" /\ in_isr' = in_isr
    BY <2>1, <2>3, BesideAll
  <2> QED
    BY <2>1, <2>2, <2>3
<1>3. ASSUME NEW d \in ReceiveDevices, Receive(d) PROVE IInv'
  <2>1. CASE Posted(d)
    BY <1>0, <2>1, PostedRx DEF IInv
  <2>2. CASE PostBuffer(d)
    <3>1. UNCHANGED bootVars /\ panicked' = panicked
      BY <2>2 DEF PostBuffer
    <3> QED
      BY <1>0, <2>2, <3>1, PostBufferKeeps, BootSame DEF IInv
  <2>3. CASE DeviceReceive(d)
    <3>1. UNCHANGED bootVars /\ panicked' = panicked
      BY <2>3, Zenon DEF DeviceReceive
    <3> QED
      BY <1>0, <2>3, <3>1, DeviceReceiveKeeps, BootSame DEF IInv
  <2>4. CASE RxBuffer(d)
    <3>1. UNCHANGED bootVars /\ panicked' = panicked
      BY <2>4, Zenon DEF RxBuffer
    <3> QED
      BY <1>0, <2>4, <3>1, RxBufferKeeps, BootSame DEF IInv
  <2>5. CASE RxDone(d)
    <3>1. UNCHANGED <<bootVars, rxVars>> /\ panicked' = panicked /\ in_isr' = NoIsr
      BY <2>5 DEF RxDone
    <3>2. /\ NoIsr \in [dev : Devices \cup {"none"}, q : Queues]
          /\ NoIsr.dev \notin ReceiveDevices
      BY DEF NoIsr, Queues, ReceiveDevices
    <3> QED
      BY <3>1, <3>2, Beside
  <2> QED
    BY <1>3, <2>1, <2>2, <2>3, <2>4, <2>5 DEF Receive, RxStep
<1>4. CASE \/ \E p \in Users : (\E op \in Ops : SystemCall(p, op)) \/ Draw(p) \/ GpuStep(p)
           \/ \E q \in Queues : DeviceServe(q)
           \/ UsedBufferNotify
  BY <1>4, GpuBeside, BesideAll
<1>5. CASE QueueDone
  <2>1. UNCHANGED <<bootVars, rxVars>> /\ panicked' = panicked /\ in_isr' = NextQueue(in_isr.q)
    BY <1>5 DEF QueueDone
  <2>2. /\ in_isr' \in [dev : Devices \cup {"none"}, q : Queues]
        /\ in_isr'.dev \notin ReceiveDevices
    <3>1. in_isr.q + 1 \in Queues \/ in_isr' = NoIsr
      BY <2>1 DEF NextQueue
    <3>2. CASE in_isr' = NoIsr
      BY <3>2 DEF NoIsr, Queues, ReceiveDevices
    <3>3. CASE in_isr.q + 1 \in Queues
      <4>1. in_isr' = [dev |-> "gpu0", q |-> in_isr.q + 1] /\ "gpu0" \in Devices
        BY <2>1, <3>3, TheDevices DEF NextQueue
      <4> QED
        BY <3>3, <4>1 DEF ReceiveDevices
    <3> QED
      BY <3>1, <3>2, <3>3
  <2> QED
    BY <2>1, <2>2, Beside
<1>6. CASE UNCHANGED vars
  <2>1. UNCHANGED <<bootVars, rxVars, in_isr, panicked>>
    BY <1>6, Zenon DEF vars
  <2> QED
    BY <2>1, BesideAll
<1> QED
  BY <1>1, <1>2, <1>3, <1>4, <1>5, <1>6 DEF Next, Notify

(* The invariant holds throughout. *)
THEOREM Inductive == Spec => []IInv
BY InitIInv, NextIInv, PTL DEF Spec

(* InitDevices and mmio_negotiater::init, for every queue size and whatever  *)
(* the devices and the allocator refuse: what is registered has its queues,  *)
(* in memory of their own that driver and device agree on, and was told      *)
(* DRIVER_OK unless its driver ignores the negotiation's result.             *)
THEOREM BootCorrect == Spec => []DevicesReady
<1>1. IInv => DevicesReady
  <2> SUFFICES ASSUME IInv PROVE DevicesReady
    OBVIOUS
  <2>0. BootInv
    BY DEF IInv
  <2>1. Booted => registered = Devices
    <3> SUFFICES ASSUME Booted PROVE registered = Devices
      OBVIOUS
    <3>1. boot.dev = 7
      BY <2>0, TheDevices DEF Booted, BootInv, BootTypes
    <3>2. registered = {DeviceList[i] : i \in 1..6}
      BY <2>0, <3>1 DEF BootInv, RegisteredSoFar
    <3> QED
      BY <3>2, TheDevices DEF Devices
  <2>2. registered \subseteq Devices
    BY <2>0, TheDevices DEF BootInv, BootTypes, RegisteredSoFar
  <2>3. ASSUME NEW d \in registered \ {"uart0"}
        PROVE  /\ pfn[d] = queue[d]
               /\ queue[d][0] # 0
               /\ d \notin ReceiveDevices => status[d] = Ready
               /\ status[d] = Ready => \A q \in 0..QueueNum(d) - 1 : queue[d][q] # 0
               /\ \A e \in registered, q, r \in Queues :
                    queue[d][q] = queue[e][r] => queue[d][q] = 0 \/ <<d, q>> = <<e, r>>
    <3>1. d \in Devices /\ Finished(d)
      BY <2>0, <2>2 DEF BootInv, BootProgress, Progress
    <3> QED
      BY <2>0, <2>2, <3>1 DEF BootInv, QueuesOwned, ReadyHasQueues, Finished
  <2> QED
    BY <2>1, <2>3 DEF DevicesReady
<1> QED
  BY <1>1, Inductive, PTL

(* UsedBufferNotify of the mouse and DealRxBuffer of the network card, for   *)
(* every queue size and fewer than 2^16 events: a buffer that is posted      *)
(* again by moving avail.idx alone is the one that was just read, and every  *)
(* event is taken once, in order.                                            *)
THEOREM ReceiveCorrect == Spec => []BuffersOffered
<1>1. IInv => BuffersOffered
  <2> SUFFICES ASSUME IInv, NEW d \in ReceiveDevices \cap registered
               PROVE  LET r == rx[d] IN
                        /\ Values(Offered(r)) \cup Values(Unseen(r)) = Descs
                        /\ (r.avail_idx - r.dev_idx) + (r.used_idx - r.last_seen_used_idx)
                              = QueueSize
                        /\ r.taken = [k \in 1..r.last_seen_used_idx |-> k]
                        /\ \A k \in DOMAIN Unseen(r) : r.buf[Unseen(r)[k]] = k + 1
                        /\ sent[d] = r.used_idx
    BY DEF BuffersOffered
  <2> DEFINE r == rx[d]
             n == sent[d]
             l == r.last_seen_used_idx
  <2>1. r \in RxRecord /\ RxSound(r, n) /\ n \in Nat
    BY DEF IInv, RxInv, RxTypes, QueuesSound
  <2>2. r.avail_idx = QueueSize + l
    BY DEF IInv, RxInv, PostedToQueue, AllPosted
  <2> HIDE DEF r, n
  <2>3. /\ l \in Nat /\ l <= n /\ r.dev_idx = n /\ r.used_idx = n
        /\ r.avail_idx = QueueSize + l /\ n <= QueueSize + l
    BY <2>1, <2>2 DEF RxSound, RxRecord
  <2> HIDE DEF l
  <2>4. ASSUME NEW k \in Nat, k < QueueSize + l
        PROVE  /\ r.avail[k % QueueSize] = k % QueueSize
               /\ k < n => r.used[k % QueueSize] = k % QueueSize
    <3>1. k % QueueSize \in Descs /\ k % QueueSize \in Nat /\ k % QueueSize <= k
      BY Place
    <3>2. k % QueueSize < r.avail_idx /\ (k < n => k % QueueSize < n)
      BY <2>1, <2>3, <2>4, <3>1, ReceiveAssumption
    <3> QED
      BY <2>1, <3>1, <3>2 DEF RxSound
  <2>5. /\ Offered(r) = [k \in n..(QueueSize + l - 1) |-> k % QueueSize]
        /\ Unseen(r) = [k \in l..(n - 1) |-> k % QueueSize]
    <3>1. \A k \in n..(QueueSize + l - 1) : k \in Nat /\ k < QueueSize + l
      BY <2>1, <2>3, ReceiveAssumption
    <3>2. \A k \in l..(n - 1) : k \in Nat /\ k < QueueSize + l /\ k < n
      BY <2>1, <2>3, ReceiveAssumption
    <3>3. Offered(r) = [k \in n..(QueueSize + l - 1) |-> r.avail[k % QueueSize]]
      <4>1. r.dev_idx..(r.avail_idx - 1) = n..(QueueSize + l - 1)
        BY <2>1, <2>3, ReceiveAssumption
      <4> QED
        BY <4>1, Zenon DEF Offered
    <3>4. Unseen(r) = [k \in l..(n - 1) |-> r.used[k % QueueSize]]
      BY <2>3 DEF Unseen, l
    <3>5. \A k \in n..(QueueSize + l - 1) : r.avail[k % QueueSize] = k % QueueSize
      BY <2>4, <3>1
    <3>6. \A k \in l..(n - 1) : r.used[k % QueueSize] = k % QueueSize
      BY <2>4, <3>2
    <3> QED
      BY <3>3, <3>4, <3>5, <3>6
  <2>6. Values(Offered(r)) \cup Values(Unseen(r)) = Descs
    <3>1. \A k \in l..(QueueSize + l - 1) : k \in n..(QueueSize + l - 1) \/ k \in l..(n - 1)
      BY <2>1, <2>3, ReceiveAssumption
    <3>2. \A k \in n..(QueueSize + l - 1) : k % QueueSize \in Descs
      <4>1. \A k \in n..(QueueSize + l - 1) : k \in Nat
        BY <2>1
      <4> QED
        BY <4>1, Place
    <3>3. \A k \in l..(n - 1) : k % QueueSize \in Descs
      <4>1. \A k \in l..(n - 1) : k \in Nat
        BY <2>3
      <4> QED
        BY <4>1, Place
    <3>4. ASSUME NEW j \in Descs
          PROVE  \E k \in l..(QueueSize + l - 1) : k % QueueSize = j
      <4>1. QueueSize \in Nat \ {0} /\ j \in 0..(QueueSize - 1)
        BY ReceiveAssumption DEF Descs
      <4>2. PICK k \in l..(l + QueueSize - 1) : k % QueueSize = j
        BY <2>3, <4>1, ModCover
      <4>3. l + QueueSize - 1 = QueueSize + l - 1
        BY <2>3, <4>1
      <4> QED
        BY <4>2, <4>3
    <3> QED
      BY <2>5, <3>1, <3>2, <3>3, <3>4 DEF Values
  <2>7. (r.avail_idx - r.dev_idx) + (r.used_idx - r.last_seen_used_idx) = QueueSize
    BY <2>1, <2>3, ReceiveAssumption DEF l
  <2>8. \A k \in DOMAIN Unseen(r) : r.buf[Unseen(r)[k]] = k + 1
    BY <2>1, <2>5 DEF RxSound, l
  <2> QED
    BY <2>1, <2>3, <2>6, <2>7, <2>8 DEF RxSound, r, n
<1> QED
  BY <1>1, Inductive, PTL

-----------------------------------------------------------------------------
(* The GPU driver *)

\* u is the only program that uses the GPU; its longest chain fits the queue.
Sole(u) == Users = {u} /\ u # "none" /\ QueueSize >= 2

-----------------------------------------------------------------------------
(* The commands that a call still has to go through. *)

LastOf(a, b, c, d) == {<<a, b, c, d>>, <<b, c, d>>, <<c, d>>, <<d>>}

Detach(r) == Command("detach", r, FALSE)
Unref(r) == Command("unref", r, FALSE)

Todos(op) ==
  CASE op = "get_screen_info" -> {<<Command("display", "none", FALSE)>>}
    [] op = "framebuffer" -> LastOf(Command("display", "none", FALSE),
                                    Command("create", "frame_buffer", FALSE),
                                    Command("attach", "frame_buffer", FALSE),
                                    Command("scanout", "frame_buffer", FALSE))
    [] op = "frame_flush" -> {<<Command("transfer", "frame_buffer", FALSE),
                                Command("flush", "frame_buffer", FALSE)>>,
                              <<Command("flush", "frame_buffer", FALSE)>>}
    [] op = "setup_cursor" -> LastOf(Command("create", "cursor", TRUE),
                                     Command("attach", "cursor", TRUE),
                                     Command("transfer", "cursor", TRUE),
                                     Command("update_cursor", "cursor", FALSE))
    [] op = "move_cursor" -> {<<Command("move_cursor", "cursor", FALSE)>>}
    [] op = "detach_framebuffer" ->
         LastOf(Detach("frame_buffer"), Unref("frame_buffer"), Detach("cursor"), Unref("cursor"))
           \cup {<<Detach("frame_buffer"), Unref("frame_buffer")>>, <<Unref("frame_buffer")>>}
    [] OTHER -> {}

AllTodos == {<<>>} \cup UNION {Todos(op) : op \in Ops}

\* Every command the driver sends.
AllCommands ==
  {Command("display", "none", FALSE)}
    \cup {Command(t, "frame_buffer", FALSE) :
             t \in {"create", "attach", "scanout", "transfer", "flush", "detach", "unref"}}
    \cup {Command(t, "cursor", TRUE) : t \in {"create", "attach", "transfer"}}
    \cup {Command(t, "cursor", FALSE) : t \in {"update_cursor", "move_cursor", "detach", "unref"}}

\* The command that e of the same call follows.
Follows(op, c, e) ==
  \/ /\ op = "framebuffer" /\ c.type = "display"
     /\ e.type = "create" /\ e.res = "frame_buffer"
  \/ c.type = "create" /\ e.type = "attach" /\ e.res = c.res
  \/ c.type = "attach" /\ e.type \in {"scanout", "transfer"} /\ e.res = c.res
  \/ c.type = "transfer" /\ c.res = "frame_buffer" /\ e.type = "flush" /\ e.res = c.res
  \/ c.type = "transfer" /\ c.res = "cursor" /\ e.type = "update_cursor" /\ e.res = c.res
  \/ c.type = "detach" /\ e.type = "unref" /\ e.res = c.res
  \/ /\ op = "detach_framebuffer" /\ c.type = "unref" /\ c.res = "frame_buffer"
     /\ e.type = "detach" /\ e.res = "cursor"

\* The commands that end a call.
Ends(op, c) ==
  \/ op = "get_screen_info" /\ c.type = "display"
  \/ op = "frame_flush" /\ c.type = "flush"
  \/ op # "frame_flush" /\ c.type \in {"scanout", "update_cursor", "move_cursor", "unref"}

Cmd(u) == Head(call[u].todo)

-----------------------------------------------------------------------------
(* Driver and device on a resource. *)

Absent(r) == ~host[r].exists
Bare(r) == host[r].exists /\ host[r].backing = "none"
Backed(r) == host[r].exists /\ host[r].backing = "pages"

Settled(r) == IF r \in ids THEN Backed(r) ELSE Absent(r)

\* What a command finds, and what it leaves.
Before(c) ==
  \/ c.type = "display"
  \/ c.res \in ids /\ IF c.type = "create" THEN Absent(c.res)
                      ELSE IF c.type \in {"attach", "unref"} THEN Bare(c.res)
                      ELSE Backed(c.res) /\ (c.type = "flush" => host[c.res].picture = mem)

After(c) ==
  \/ c.type = "display"
  \/ c.res \in ids /\ IF c.type = "unref" THEN Absent(c.res)
                      ELSE IF c.type \in {"create", "detach"} THEN Bare(c.res)
                      ELSE /\ Backed(c.res)
                           /\ c.type = "flush" => screen = mem
                           /\ c.type = "transfer" /\ c.res = "frame_buffer" =>
                                host[c.res].picture = mem

-----------------------------------------------------------------------------
(* The invariant *)

CallRecord ==
  [op : Ops \cup {"none"}, todo : AllTodos, descs : Seq(Descs),
   pc : {"user", "transport", "trigger_notify", "wait_complete", "sleep", "check"}]

RespRecord == [type : {"none", "ERR", "OK_DISPLAY_INFO", "OK_NODATA"}, fence : BOOLEAN]

HostRecord == [exists : BOOLEAN, backing : {"none", "pages"}, picture : Nat]

GpuTypes(u) ==
  /\ call \in [Users -> CallRecord]
  /\ resp \in [Users -> RespRecord]
  /\ bit_map \in [Queues -> SUBSET Descs]
  /\ desc \in [Queues -> [Descs -> [owner : Users \cup {"none"}, indirect : BOOLEAN]]]
  /\ waiting_flag \in [Descs -> BOOLEAN]
  /\ posted \in [Queues -> Seq(Descs)]
  /\ used \in [Queues -> Seq(Descs)]
  /\ ids \in SUBSET Resources
  /\ host \in [Resources -> HostRecord]
  /\ mem \in Nat

\* No command is under way in queue q.
Quiet(q) == posted[q] = <<>> /\ used[q] = <<>> /\ bit_map[q] = {}

\* The command has its descriptors, the first of them 0.
Carried(u, q) ==
  /\ call[u].descs # <<>> /\ Head(call[u].descs) = 0
  /\ bit_map[q] \subseteq Range(call[u].descs)
  /\ desc[q][0].owner = u /\ (desc[q][0].indirect <=> Cmd(u).type = "attach")
  /\ Cmd(u).type = "attach" => u \in entries /\ indirect_desc = [owner |-> u, cmd |-> Cmd(u)]

\* Where the command is: with the device, done, or known to be done.
Rings(q) ==
  \/ posted[q] = <<0>> /\ used[q] = <<>> /\ waiting_flag[0]
  \/ posted[q] = <<>> /\ used[q] = <<0>> /\ waiting_flag[0]
  \/ posted[q] = <<>> /\ used[q] = <<>> /\ ~waiting_flag[0]

CommandPlace(u) ==
  /\ \A d \in Descs \ {0} : ~waiting_flag[d]
  /\ call[u].pc \in {"user", "transport", "check"} =>
       ~waiting_flag[0] /\ \A q \in Queues : Quiet(q)
  /\ call[u].pc \in {"trigger_notify", "wait_complete", "sleep"} =>
       /\ Carried(u, QueueOf(Cmd(u)))
       /\ \A q \in Queues : q # QueueOf(Cmd(u)) => Quiet(q)
  /\ call[u].pc = "trigger_notify" =>
       /\ ~waiting_flag[0]
       /\ posted[QueueOf(Cmd(u))] = <<>> /\ used[QueueOf(Cmd(u))] = <<>>
  /\ call[u].pc \in {"wait_complete", "sleep"} => Rings(QueueOf(Cmd(u)))

\* The device has served the command.
Done(u) ==
  \/ call[u].pc = "check"
  \/ call[u].pc \in {"wait_complete", "sleep"} /\ posted[QueueOf(Cmd(u))] = <<>>

CommandEffect(u) ==
  /\ call[u].pc = "user" =>
       /\ \A r \in Resources : Settled(r)
       /\ call[u].op = "frame_flush" => screen = mem
  /\ call[u].pc # "user" =>
       /\ call[u].todo \in Todos(call[u].op)
       /\ \A r \in Resources : r # Cmd(u).res => Settled(r)
       /\ IF Done(u) THEN After(Cmd(u)) /\ Accepted(Cmd(u), resp[u]) ELSE Before(Cmd(u))
       /\ call[u].op = "framebuffer" /\ Cmd(u).type = "display" => "frame_buffer" \notin ids
       /\ call[u].op = "detach_framebuffer" /\ Len(call[u].todo) > 2 => "cursor" \in ids

GpuInv(u) ==
  /\ GpuTypes(u)
  /\ CommandPlace(u)
  /\ CommandEffect(u)
  /\ panicked # "gpu device resp error"
-----------------------------------------------------------------------------
(* Head and tail of short sequences. *)
LEMMA Tuples ==
  ASSUME NEW a, NEW b, NEW c, NEW d
  PROVE  /\ <<a, b, c, d>> # <<>> /\ Head(<<a, b, c, d>>) = a
         /\ Tail(<<a, b, c, d>>) = <<b, c, d>> /\ Len(<<a, b, c, d>>) = 4
         /\ <<b, c, d>> # <<>> /\ Head(<<b, c, d>>) = b
         /\ Tail(<<b, c, d>>) = <<c, d>> /\ Len(<<b, c, d>>) = 3
         /\ <<c, d>> # <<>> /\ Head(<<c, d>>) = c
         /\ Tail(<<c, d>>) = <<d>> /\ Len(<<c, d>>) = 2
         /\ <<d>> # <<>> /\ Head(<<d>>) = d /\ Tail(<<d>>) = <<>> /\ Len(<<d>>) = 1
OBVIOUS

Joins(a, b, c, d) ==
  /\ <<a>> \o <<b, c>> \o <<d>> = <<a, b, c, d>>
  /\ <<a, b>> \o <<c, d>> = <<a, b, c, d>>
  /\ <<a, b>> \o <<>> = <<a, b>>
  /\ <<>> \o <<c, d>> = <<c, d>>
  /\ <<>> \o <<>> = <<>>

(* Short sequences, put together. *)
LEMMA Joined ==
  ASSUME NEW a, NEW b, NEW c, NEW d
  PROVE  Joins(a, b, c, d)
<1> DEFINE X == {a, b, c, d}
<1>1. /\ <<a>> \in Seq(X) /\ <<b, c>> \in Seq(X) /\ <<d>> \in Seq(X)
      /\ <<a, b>> \in Seq(X) /\ <<c, d>> \in Seq(X) /\ <<>> \in Seq(X)
      /\ <<a, b, c>> \in Seq(X) /\ <<a, b, c, d>> \in Seq(X)
  OBVIOUS
<1>2. <<a>> \o <<b, c>> = <<a, b, c>>
  <2> DEFINE s == <<a>> \o <<b, c>>
  <2>1. s \in Seq(X) /\ Len(s) = 3 /\ s[1] = a /\ s[2] = b /\ s[3] = c
    BY <1>1, ConcatProperties
  <2> HIDE DEF s, X
  <2>2. \A i \in 1..Len(s) : s[i] = <<a, b, c>>[i]
    BY <2>1
  <2> QED
    BY <1>1, <2>1, <2>2, SeqEqual DEF s
<1>3. <<a, b, c>> \o <<d>> = <<a, b, c, d>>
  <2> DEFINE s == <<a, b, c>> \o <<d>>
  <2>1. s \in Seq(X) /\ Len(s) = 4 /\ s[1] = a /\ s[2] = b /\ s[3] = c /\ s[4] = d
    BY <1>1, ConcatProperties
  <2> HIDE DEF s, X
  <2>2. \A i \in 1..Len(s) : s[i] = <<a, b, c, d>>[i]
    BY <2>1
  <2> QED
    BY <1>1, <2>1, <2>2, SeqEqual DEF s
<1>4. <<a, b>> \o <<c, d>> = <<a, b, c, d>>
  <2> DEFINE s == <<a, b>> \o <<c, d>>
  <2>1. s \in Seq(X) /\ Len(s) = 4 /\ s[1] = a /\ s[2] = b /\ s[3] = c /\ s[4] = d
    BY <1>1, ConcatProperties
  <2> HIDE DEF s, X
  <2>2. \A i \in 1..Len(s) : s[i] = <<a, b, c, d>>[i]
    BY <2>1
  <2> QED
    BY <1>1, <2>1, <2>2, SeqEqual DEF s
<1> HIDE DEF X
<1>5. /\ <<a, b>> \o <<>> = <<a, b>> /\ <<>> \o <<c, d>> = <<c, d>> /\ <<>> \o <<>> = <<>>
  BY <1>1, ConcatEmptySeq
<1> QED
  BY <1>2, <1>3, <1>4, <1>5 DEF Joins
(* Along a call, each command follows the one before, up to the one that ends the call. *)
LEMMA TodoStep ==
  ASSUME NEW op \in Ops, NEW T \in Todos(op)
  PROVE  /\ T # <<>> /\ Head(T) \in AllCommands
         /\ Tail(T) = <<>> => Ends(op, Head(T))
         /\ Tail(T) # <<>> => /\ Tail(T) \in Todos(op)
                              /\ Follows(op, Head(T), Head(Tail(T)))
                              /\ Len(Tail(T)) + 1 = Len(T)
                              /\ Head(T).type = "unref" => Len(T) > 2
         /\ Head(T).type = "display" => op \in {"get_screen_info", "framebuffer"}
         /\ Head(T).type \in {"transfer", "flush"} /\ Head(T).res = "frame_buffer" => op = "frame_flush"
<1>1. CASE op = "get_screen_info"
  <2> DEFINE a == Command("display", "none", FALSE)
  <2>1. Todos(op) = {<<a>>}
    BY <1>1 DEF Todos, LastOf, Detach, Unref
  <2>2. a \in AllCommands
    BY DEF AllCommands, Command
  <2>3. Ends(op, a)
    BY <1>1 DEF Follows, Ends, Command
  <2>4. /\ a.type = "display" /\ a.res = "none"
    BY DEF Command
  <2> HIDE DEF a
  <2>5. CASE T = <<a>>
    BY <1>1, <2>1, <2>2, <2>3, <2>4, <2>5, Tuples
  <2> QED
    BY <2>1, <2>5
<1>2. CASE op = "framebuffer"
  <2> DEFINE a == Command("display", "none", FALSE)
             b == Command("create", "frame_buffer", FALSE)
             c == Command("attach", "frame_buffer", FALSE)
             d == Command("scanout", "frame_buffer", FALSE)
  <2>1. Todos(op) = {<<a, b, c, d>>, <<b, c, d>>, <<c, d>>, <<d>>}
    BY <1>2 DEF Todos, LastOf, Detach, Unref
  <2>2. a \in AllCommands /\ b \in AllCommands /\ c \in AllCommands /\ d \in AllCommands
    BY DEF AllCommands, Command
  <2>3. Ends(op, d) /\ Follows(op, a, b) /\ Follows(op, b, c) /\ Follows(op, c, d)
    BY <1>2 DEF Follows, Ends, Command
  <2>4. /\ a.type = "display" /\ a.res = "none"
        /\ b.type = "create" /\ b.res = "frame_buffer"
        /\ c.type = "attach" /\ c.res = "frame_buffer"
        /\ d.type = "scanout" /\ d.res = "frame_buffer"
    BY DEF Command
  <2> HIDE DEF a, b, c, d
  <2>5. CASE T = <<a, b, c, d>>
    BY <1>2, <2>1, <2>2, <2>3, <2>4, <2>5, Tuples
  <2>6. CASE T = <<b, c, d>>
    BY <1>2, <2>1, <2>2, <2>3, <2>4, <2>6, Tuples
  <2>7. CASE T = <<c, d>>
    BY <1>2, <2>1, <2>2, <2>3, <2>4, <2>7, Tuples
  <2>8. CASE T = <<d>>
    BY <1>2, <2>1, <2>2, <2>3, <2>4, <2>8, Tuples
  <2> QED
    BY <2>1, <2>5, <2>6, <2>7, <2>8
<1>3. CASE op = "frame_flush"
  <2> DEFINE a == Command("transfer", "frame_buffer", FALSE)
             b == Command("flush", "frame_buffer", FALSE)
  <2>1. Todos(op) = {<<a, b>>, <<b>>}
    BY <1>3 DEF Todos, LastOf, Detach, Unref
  <2>2. a \in AllCommands /\ b \in AllCommands
    BY DEF AllCommands, Command
  <2>3. Ends(op, b) /\ Follows(op, a, b)
    BY <1>3 DEF Follows, Ends, Command
  <2>4. /\ a.type = "transfer" /\ a.res = "frame_buffer"
        /\ b.type = "flush" /\ b.res = "frame_buffer"
    BY DEF Command
  <2> HIDE DEF a, b
  <2>5. CASE T = <<a, b>>
    BY <1>3, <2>1, <2>2, <2>3, <2>4, <2>5, Tuples
  <2>6. CASE T = <<b>>
    BY <1>3, <2>1, <2>2, <2>3, <2>4, <2>6, Tuples
  <2> QED
    BY <2>1, <2>5, <2>6
<1>4. CASE op = "setup_cursor"
  <2> DEFINE a == Command("create", "cursor", TRUE)
             b == Command("attach", "cursor", TRUE)
             c == Command("transfer", "cursor", TRUE)
             d == Command("update_cursor", "cursor", FALSE)
  <2>1. Todos(op) = {<<a, b, c, d>>, <<b, c, d>>, <<c, d>>, <<d>>}
    BY <1>4 DEF Todos, LastOf, Detach, Unref
  <2>2. a \in AllCommands /\ b \in AllCommands /\ c \in AllCommands /\ d \in AllCommands
    BY DEF AllCommands, Command
  <2>3. Ends(op, d) /\ Follows(op, a, b) /\ Follows(op, b, c) /\ Follows(op, c, d)
    BY <1>4 DEF Follows, Ends, Command
  <2>4. /\ a.type = "create" /\ a.res = "cursor"
        /\ b.type = "attach" /\ b.res = "cursor"
        /\ c.type = "transfer" /\ c.res = "cursor"
        /\ d.type = "update_cursor" /\ d.res = "cursor"
    BY DEF Command
  <2> HIDE DEF a, b, c, d
  <2>5. CASE T = <<a, b, c, d>>
    BY <1>4, <2>1, <2>2, <2>3, <2>4, <2>5, Tuples
  <2>6. CASE T = <<b, c, d>>
    BY <1>4, <2>1, <2>2, <2>3, <2>4, <2>6, Tuples
  <2>7. CASE T = <<c, d>>
    BY <1>4, <2>1, <2>2, <2>3, <2>4, <2>7, Tuples
  <2>8. CASE T = <<d>>
    BY <1>4, <2>1, <2>2, <2>3, <2>4, <2>8, Tuples
  <2> QED
    BY <2>1, <2>5, <2>6, <2>7, <2>8
<1>5. CASE op = "move_cursor"
  <2> DEFINE a == Command("move_cursor", "cursor", FALSE)
  <2>1. Todos(op) = {<<a>>}
    BY <1>5 DEF Todos, LastOf, Detach, Unref
  <2>2. a \in AllCommands
    BY DEF AllCommands, Command
  <2>3. Ends(op, a)
    BY <1>5 DEF Follows, Ends, Command
  <2>4. /\ a.type = "move_cursor" /\ a.res = "cursor"
    BY DEF Command
  <2> HIDE DEF a
  <2>5. CASE T = <<a>>
    BY <1>5, <2>1, <2>2, <2>3, <2>4, <2>5, Tuples
  <2> QED
    BY <2>1, <2>5
<1>6. CASE op = "detach_framebuffer"
  <2> DEFINE a == Command("detach", "frame_buffer", FALSE)
             b == Command("unref", "frame_buffer", FALSE)
             c == Command("detach", "cursor", FALSE)
             d == Command("unref", "cursor", FALSE)
  <2>1. Todos(op) = {<<a, b, c, d>>, <<b, c, d>>, <<c, d>>, <<d>>, <<a, b>>, <<b>>}
    BY <1>6 DEF Todos, LastOf, Detach, Unref
  <2>2. a \in AllCommands /\ b \in AllCommands /\ c \in AllCommands /\ d \in AllCommands
    BY DEF AllCommands, Command
  <2>3. Ends(op, b) /\ Ends(op, d) /\ Follows(op, a, b) /\ Follows(op, b, c) /\ Follows(op, c, d)
    BY <1>6 DEF Follows, Ends, Command
  <2>4. /\ a.type = "detach" /\ a.res = "frame_buffer"
        /\ b.type = "unref" /\ b.res = "frame_buffer"
        /\ c.type = "detach" /\ c.res = "cursor"
        /\ d.type = "unref" /\ d.res = "cursor"
    BY DEF Command
  <2> HIDE DEF a, b, c, d
  <2>5. CASE T = <<a, b, c, d>>
    BY <1>6, <2>1, <2>2, <2>3, <2>4, <2>5, Tuples
  <2>6. CASE T = <<b, c, d>>
    BY <1>6, <2>1, <2>2, <2>3, <2>4, <2>6, Tuples
  <2>7. CASE T = <<c, d>>
    BY <1>6, <2>1, <2>2, <2>3, <2>4, <2>7, Tuples
  <2>8. CASE T = <<d>>
    BY <1>6, <2>1, <2>2, <2>3, <2>4, <2>8, Tuples
  <2>9. CASE T = <<a, b>>
    BY <1>6, <2>1, <2>2, <2>3, <2>4, <2>9, Tuples
  <2>10. CASE T = <<b>>
    BY <1>6, <2>1, <2>2, <2>3, <2>4, <2>10, Tuples
  <2> QED
    BY <2>1, <2>5, <2>6, <2>7, <2>8, <2>9, <2>10
<1> QED
  BY <1>1, <1>2, <1>3, <1>4, <1>5, <1>6 DEF Ops

(* The commands of a call that starts: none, or the first of its Todos. *)
LEMMA CommandsStart ==
  ASSUME NEW op \in Ops, ids \in SUBSET Resources
  PROVE  \/ Commands(op) = <<>> /\ op = "detach_framebuffer"
         \/ /\ Commands(op) \in Todos(op)
            /\ op = "get_screen_info" => Head(Commands(op)).type = "display"
            /\ op = "framebuffer" => Head(Commands(op)).type = "display"
            /\ op = "frame_flush" => /\ Head(Commands(op)).type = "transfer"
                                     /\ Head(Commands(op)).res = "frame_buffer"
            /\ op = "setup_cursor" => /\ Head(Commands(op)).type = "create"
                                      /\ Head(Commands(op)).res = "cursor"
            /\ op = "move_cursor" => /\ Head(Commands(op)).type = "move_cursor"
                                     /\ Head(Commands(op)).res = "cursor"
            /\ op = "detach_framebuffer" => /\ Head(Commands(op)).type = "detach"
                                            /\ Head(Commands(op)).res \in ids
                                            /\ Len(Commands(op)) > 2 => "cursor" \in ids
<1>1. CASE op = "get_screen_info"
  BY <1>1, Tuples DEF Todos, Commands, GetDisplayInfo, Command
<1>2. CASE op = "framebuffer"
  <2> DEFINE a == Command("display", "none", FALSE)
             b == Command("create", "frame_buffer", FALSE)
             c == Command("attach", "frame_buffer", FALSE)
             d == Command("scanout", "frame_buffer", FALSE)
  <2>1. Commands(op) = <<a>> \o <<b, c>> \o <<d>>
    BY <1>2 DEF Commands, GetDisplayInfo, Setup
  <2>2. Commands(op) = <<a, b, c, d>>
    <3> HIDE DEF a, b, c, d
    <3>1. Joins(a, b, c, d)
      BY Joined
    <3> QED
      BY <2>1, <3>1 DEF Joins
  <2>3. <<a, b, c, d>> \in Todos(op)
    BY <1>2 DEF Todos, LastOf
  <2>4. Head(<<a, b, c, d>>).type = "display"
    BY Tuples DEF Command
  <2> QED
    BY <1>2, <2>2, <2>3, <2>4
<1>3. CASE op = "frame_flush"
  BY <1>3, Tuples DEF Todos, Commands, Command
<1>4. CASE op = "setup_cursor"
  <2> DEFINE a == Command("create", "cursor", TRUE)
             b == Command("attach", "cursor", TRUE)
             c == Command("transfer", "cursor", TRUE)
             d == Command("update_cursor", "cursor", FALSE)
  <2>1. Commands(op) = <<a, b>> \o <<c, d>>
    BY <1>4 DEF Commands, Setup
  <2>2. Commands(op) = <<a, b, c, d>>
    <3> HIDE DEF a, b, c, d
    <3>1. Joins(a, b, c, d)
      BY Joined
    <3> QED
      BY <2>1, <3>1 DEF Joins
  <2>3. <<a, b, c, d>> \in Todos(op)
    BY <1>4 DEF Todos, LastOf
  <2>4. Head(<<a, b, c, d>>).type = "create" /\ Head(<<a, b, c, d>>).res = "cursor"
    BY Tuples DEF Command
  <2> QED
    BY <1>4, <2>2, <2>3, <2>4
<1>5. CASE op = "move_cursor"
  BY <1>5, Tuples DEF Todos, Commands, Command
<1>6. CASE op = "detach_framebuffer"
  <2> DEFINE a == Command("detach", "frame_buffer", FALSE)
             b == Command("unref", "frame_buffer", FALSE)
             c == Command("detach", "cursor", FALSE)
             d == Command("unref", "cursor", FALSE)
  <2>1. Commands(op) = Teardown("frame_buffer") \o Teardown("cursor")
    BY <1>6 DEF Commands
  <2>2. /\ Teardown("frame_buffer") = IF "frame_buffer" \in ids THEN <<a, b>> ELSE <<>>
        /\ Teardown("cursor") = IF "cursor" \in ids THEN <<c, d>> ELSE <<>>
    BY DEF Teardown
  <2>3. Commands(op) = IF "frame_buffer" \in ids
                       THEN IF "cursor" \in ids THEN <<a, b, c, d>> ELSE <<a, b>>
                       ELSE IF "cursor" \in ids THEN <<c, d>> ELSE <<>>
    <3> HIDE DEF a, b, c, d
    <3>1. /\ <<a, b>> \o <<c, d>> = <<a, b, c, d>> /\ <<a, b>> \o <<>> = <<a, b>>
          /\ <<>> \o <<c, d>> = <<c, d>> /\ <<>> \o <<>> = <<>>
      <4>1. Joins(a, b, c, d)
        BY Joined
      <4> QED
        BY <4>1 DEF Joins
    <3>2. CASE "frame_buffer" \in ids /\ "cursor" \in ids
      BY <2>1, <2>2, <3>1, <3>2, Zenon
    <3>3. CASE "frame_buffer" \in ids /\ "cursor" \notin ids
      BY <2>1, <2>2, <3>1, <3>3, Zenon
    <3>4. CASE "frame_buffer" \notin ids /\ "cursor" \in ids
      BY <2>1, <2>2, <3>1, <3>4, Zenon
    <3>5. CASE "frame_buffer" \notin ids /\ "cursor" \notin ids
      BY <2>1, <2>2, <3>1, <3>5, Zenon
    <3> QED
      BY <3>2, <3>3, <3>4, <3>5
  <2>4. {<<a, b, c, d>>, <<a, b>>, <<c, d>>} \subseteq Todos(op)
    BY <1>6 DEF Todos, LastOf, Detach, Unref
  <2>5. a.type = "detach" /\ a.res = "frame_buffer" /\ c.type = "detach" /\ c.res = "cursor"
    BY DEF Command
  <2> HIDE DEF a, b, c, d
  <2>6. /\ Commands(op) = <<>> \/ Commands(op) \in Todos(op)
        /\ Commands(op) # <<>> => /\ Head(Commands(op)).type = "detach"
                                  /\ Head(Commands(op)).res \in ids
                                  /\ Len(Commands(op)) > 2 => "cursor" \in ids
    BY <2>3, <2>4, <2>5, Tuples
  <2>7. /\ op # "get_screen_info" /\ op # "framebuffer" /\ op # "frame_flush"
        /\ op # "setup_cursor" /\ op # "move_cursor"
    BY <1>6
  <2>8. CASE Commands(op) = <<>>
    BY <1>6, <2>8
  <2>9. CASE Commands(op) # <<>>
    <3>1. /\ Commands(op) \in Todos(op)
          /\ Head(Commands(op)).type = "detach" /\ Head(Commands(op)).res \in ids
          /\ Len(Commands(op)) > 2 => "cursor" \in ids
      BY <2>6, <2>9
    <3> QED
      BY <3>1, <2>7
  <2> QED
    BY <2>8, <2>9
<1> QED
  BY <1>1, <1>2, <1>3, <1>4, <1>5, <1>6 DEF Ops
(* The call that SystemCall sets up. *)
LEMMA NewCall ==
  ASSUME NEW o, NEW t, NEW p
  PROVE  [NoCall EXCEPT !.op = o, !.todo = t, !.pc = p]
           = [op |-> o, todo |-> t, pc |-> p, descs |-> <<>>]
<1>1. [NoCall EXCEPT !.op = o] = [op |-> o, pc |-> "user", todo |-> <<>>, descs |-> <<>>]
  BY DEF NoCall
<1>2. [[op |-> o, pc |-> "user", todo |-> <<>>, descs |-> <<>>] EXCEPT !.todo = t]
        = [op |-> o, pc |-> "user", todo |-> t, descs |-> <<>>]
  OBVIOUS
<1>3. [[op |-> o, pc |-> "user", todo |-> t, descs |-> <<>>] EXCEPT !.pc = p]
        = [op |-> o, todo |-> t, pc |-> p, descs |-> <<>>]
  OBVIOUS
<1> QED
  BY <1>1, <1>2, <1>3

(* What every command of the driver looks like. *)
LEMMA CommandShape ==
  ASSUME NEW c \in AllCommands
  PROVE  /\ QueueOf(c) \in Queues
         /\ ChainLen(c) \in 1..2
         /\ c.type # "none" /\ c.fence \in BOOLEAN
         /\ c.type = "display" <=> c.res = "none"
         /\ c.type # "display" => c.res \in Resources
         /\ IsCursor(c) <=> QueueOf(c) = 1
<1>1. \/ c = Command("display", "none", FALSE)
      \/ \E t \in {"create", "attach", "scanout", "transfer", "flush", "detach", "unref"} :
           c = Command(t, "frame_buffer", FALSE)
      \/ \E t \in {"create", "attach", "transfer"} : c = Command(t, "cursor", TRUE)
      \/ \E t \in {"update_cursor", "move_cursor", "detach", "unref"} :
           c = Command(t, "cursor", FALSE)
  BY DEF AllCommands
<1>2. /\ c.type \in {"display", "create", "attach", "scanout", "transfer", "flush", "detach",
                    "unref", "update_cursor", "move_cursor"}
      /\ c.fence \in BOOLEAN
      /\ c.type = "display" <=> c.res = "none"
      /\ c.type # "display" => c.res = "frame_buffer" \/ c.res = "cursor"
  <2>1. CASE c = Command("display", "none", FALSE)
    BY <2>1 DEF Command
  <2>2. ASSUME NEW t \in {"create", "attach", "scanout", "transfer", "flush", "detach", "unref"},
               c = Command(t, "frame_buffer", FALSE)
        PROVE  c.type = t /\ c.res = "frame_buffer" /\ c.fence = FALSE
    BY <2>2 DEF Command
  <2>3. ASSUME NEW t \in {"create", "attach", "transfer"}, c = Command(t, "cursor", TRUE)
        PROVE  c.type = t /\ c.res = "cursor" /\ c.fence = TRUE
    BY <2>3 DEF Command
  <2>4. ASSUME NEW t \in {"update_cursor", "move_cursor", "detach", "unref"},
               c = Command(t, "cursor", FALSE)
        PROVE  c.type = t /\ c.res = "cursor" /\ c.fence = FALSE
    BY <2>4 DEF Command
  <2> QED
    BY <1>1, <2>1, <2>2, <2>3, <2>4
<1> QED
  BY <1>2 DEF QueueOf, IsCursor, ChainLen, Queues, Resources

(* The command of a call that is under way. *)
LEMMA CallShape ==
  ASSUME NEW u, Sole(u), GpuInv(u), call[u].pc # "user"
  PROVE  /\ call[u].op \in Ops
         /\ call[u].todo \in Todos(call[u].op)
         /\ Cmd(u) \in AllCommands
<1>1. call[u].op \in Ops \cup {"none"} /\ call[u].todo \in Todos(call[u].op)
  BY DEF GpuInv, GpuTypes, CommandEffect, Sole, CallRecord
<1>2. Todos("none") = {}
  BY DEF Todos
<1>3. call[u].op \in Ops
  BY <1>1, <1>2
<1> QED
  BY <1>1, <1>3, TodoStep DEF Cmd

(* A step of another part of the system. *)
LEMMA GpuSame ==
  ASSUME NEW u, GpuInv(u), UNCHANGED gpuVars, panicked' # "gpu device resp error"
  PROVE  GpuInv(u)'
<1>1. UNCHANGED <<bit_map, desc, indirect_desc, waiting_flag, posted, used, call, resp,
                  entries, ids, mem, host, screen, calls>>
  BY DEF gpuVars
<1>2. GpuTypes(u)'
  BY <1>1 DEF GpuInv, GpuTypes
<1>3. CommandPlace(u)'
  BY <1>1 DEF GpuInv, CommandPlace, Carried, Quiet, Rings, Cmd
<1>4. CommandEffect(u)'
  BY <1>1 DEF GpuInv, CommandEffect, Settled, Backed, Absent, Bare, Before, After, Done, Cmd,
              Accepted
<1> QED
  BY <1>2, <1>3, <1>4 DEF GpuInv

(* The fields of a call that is replaced. *)
LEMMA CallSet ==
  ASSUME NEW u, Sole(u), GpuInv(u), NEW x, call' = [call EXCEPT ![u] = x],
         x \in CallRecord
  PROVE  /\ call' \in [Users -> CallRecord]
         /\ call'[u] = x
<1>1. u \in Users
  BY DEF Sole
<1> QED
  BY <1>1 DEF GpuInv, GpuTypes

(* A system call starts. *)
LEMMA SystemCallKeeps ==
  ASSUME NEW u, Sole(u), GpuInv(u), NEW op \in Ops, SystemCall(u, op)
  PROVE  GpuInv(u)'
<1>0. PICK C : C = Commands(op)
  OBVIOUS
<1> DEFINE x == [op |-> op, todo |-> C, pc |-> IF C = <<>> THEN "user" ELSE "transport",
                 descs |-> <<>>]
<1>1. /\ call[u].pc = "user" /\ ProgramOrder(op)
      /\ call' = [call EXCEPT ![u] = x]
      /\ ids' = IF op = "setup_cursor" THEN ids \cup {"cursor"} ELSE ids
      /\ UNCHANGED <<bit_map, desc, indirect_desc, waiting_flag, posted, used, resp, entries,
                     mem, host, screen, panicked>>
  <2>1. [NoCall EXCEPT !.op = op, !.todo = C, !.pc = IF C = <<>> THEN "user" ELSE "transport"] = x
    BY NewCall, Zenon
  <2> HIDE DEF x
  <2> QED
    BY <1>0, <2>1, Zenon DEF SystemCall, Runs
<1>2. ids \in SUBSET Resources
  BY DEF GpuInv, GpuTypes
<1>3. C = <<>> \/ C \in Todos(op)
  BY <1>0, <1>2, CommandsStart
<1>4. /\ call' \in [Users -> CallRecord]
      /\ call'[u] = x
  <2>1. C \in AllTodos
    BY <1>3 DEF AllTodos
  <2>2. x \in CallRecord
    BY <2>1 DEF CallRecord
  <2> HIDE DEF x
  <2> QED
    BY <1>1, <2>2, CallSet
<1>5. /\ call'[u].op = op /\ call'[u].todo = C
      /\ call'[u].pc = IF C = <<>> THEN "user" ELSE "transport"
      /\ call'[u].pc \in {"user", "transport"}
  BY <1>4
<1> HIDE DEF x
<1>6. ids' \in SUBSET Resources
  BY <1>1, <1>2 DEF Resources
<1>7. GpuTypes(u)'
  BY <1>1, <1>4, <1>6 DEF GpuInv, GpuTypes
<1>8. CommandPlace(u)'
  BY <1>1, <1>5 DEF GpuInv, CommandPlace, Quiet
<1>9. \A r \in Resources : Settled(r)
  BY <1>1 DEF GpuInv, CommandEffect
<1>10. CommandEffect(u)'
  <2>1. CASE C = <<>>
    <3>1. op = "detach_framebuffer"
      <4>1. \A T \in Todos(op) : T # <<>>
        BY TodoStep
      <4> QED
        BY <2>1, <4>1, <1>0, <1>2, CommandsStart
    <3>2. \A r \in Resources : Settled(r)'
      BY <1>1, <1>9, <3>1 DEF Settled, Backed, Absent
    <3> QED
      BY <1>5, <2>1, <3>1, <3>2 DEF CommandEffect
  <2>2. CASE C # <<>>
    <3>0. C \in Todos(op) /\ call'[u].pc = "transport" /\ Cmd(u)' = Head(C)
      BY <1>3, <1>5, <2>2 DEF Cmd
    <3>1. ~Done(u)'
      BY <3>0 DEF Done
    <3>2. /\ op = "get_screen_info" => Head(C).type = "display"
          /\ op = "framebuffer" => Head(C).type = "display"
          /\ op = "frame_flush" => Head(C).type = "transfer" /\ Head(C).res = "frame_buffer"
          /\ op = "setup_cursor" => Head(C).type = "create" /\ Head(C).res = "cursor"
          /\ op = "move_cursor" => Head(C).type = "move_cursor" /\ Head(C).res = "cursor"
          /\ op = "detach_framebuffer" => /\ Head(C).type = "detach"
                                          /\ Head(C).res \in ids
                                          /\ Len(C) > 2 => "cursor" \in ids
      BY <1>0, <1>2, <2>2, CommandsStart
    <3>3. \A r \in Resources : r # Head(C).res => Settled(r)'
      BY <1>1, <1>9, <3>2 DEF Settled, Backed, Absent
    <3>4. Before(Head(C))'
      <4>1. CASE op \in {"get_screen_info", "framebuffer"}
        BY <3>2, <4>1 DEF Before
      <4>2. CASE op = "setup_cursor"
        <5>1. "cursor" \notin ids /\ "cursor" \in ids' /\ host' = host /\ "cursor" \in Resources
          BY <1>1, <4>2 DEF ProgramOrder, Resources
        <5>2. Absent("cursor")'
          BY <1>9, <5>1 DEF Settled, Absent
        <5> QED
          BY <3>2, <4>2, <5>1, <5>2 DEF Before, Absent
      <4>3. CASE op \in {"frame_flush", "move_cursor", "detach_framebuffer"}
        <5>1. /\ Head(C).res \in ids /\ ids' = ids /\ host' = host
              /\ Head(C).type \in {"transfer", "move_cursor", "detach"}
          BY <1>1, <3>2, <4>3 DEF ProgramOrder
        <5>2. Backed(Head(C).res)
          BY <1>2, <1>9, <5>1 DEF Settled
        <5> QED
          BY <5>1, <5>2 DEF Before, Backed
      <4> QED
        BY <4>1, <4>2, <4>3 DEF Ops
    <3>5. op = "framebuffer" => "frame_buffer" \notin ids'
      BY <1>1 DEF ProgramOrder
    <3>6. op = "detach_framebuffer" /\ Len(C) > 2 => "cursor" \in ids'
      BY <1>1, <3>2
    <3>7. Before(Cmd(u))'
      BY <3>0, <3>4 DEF Before, Absent, Bare, Backed
    <3> QED
      BY <1>5, <3>0, <3>1, <3>3, <3>5, <3>6, <3>7 DEF CommandEffect
  <2> QED
    BY <2>1, <2>2
<1> QED
  BY <1>1, <1>7, <1>8, <1>10 DEF GpuInv
(* The program counter of a call moves, its descriptors may change. *)
LEMMA CallMoves ==
  ASSUME NEW u, Sole(u), GpuInv(u), NEW s \in Seq(Descs),
         NEW pc \in {"user", "transport", "trigger_notify", "wait_complete", "sleep", "check"},
         \/ call' = [call EXCEPT ![u].pc = pc, ![u].descs = s]
         \/ call' = [call EXCEPT ![u].pc = pc] /\ s = call[u].descs
  PROVE  /\ call' \in [Users -> CallRecord]
         /\ call'[u].pc = pc /\ call'[u].descs = s
         /\ call'[u].op = call[u].op /\ call'[u].todo = call[u].todo
         /\ Cmd(u)' = Cmd(u)
<1>1. u \in Users /\ call \in [Users -> CallRecord]
  BY DEF Sole, GpuInv, GpuTypes
<1>2. PICK x \in CallRecord : /\ x.pc = pc /\ x.descs = s
                              /\ x.op = call[u].op /\ x.todo = call[u].todo
                              /\ call' = [call EXCEPT ![u] = x]
  <2>1. CASE call' = [call EXCEPT ![u].pc = pc, ![u].descs = s]
    <3> DEFINE x == [call[u] EXCEPT !.pc = pc, !.descs = s]
    <3>1. call' = [call EXCEPT ![u] = x]
      BY <1>1, <2>1
    <3>2. x \in CallRecord /\ x.pc = pc /\ x.descs = s /\ x.op = call[u].op /\ x.todo = call[u].todo
      BY <1>1 DEF CallRecord
    <3> HIDE DEF x
    <3> QED
      BY <3>1, <3>2
  <2>2. CASE call' = [call EXCEPT ![u].pc = pc] /\ s = call[u].descs
    <3> DEFINE x == [call[u] EXCEPT !.pc = pc]
    <3>1. call' = [call EXCEPT ![u] = x]
      BY <1>1, <2>2
    <3>2. x \in CallRecord /\ x.pc = pc /\ x.descs = s /\ x.op = call[u].op /\ x.todo = call[u].todo
      BY <1>1, <2>2 DEF CallRecord
    <3> HIDE DEF x
    <3> QED
      BY <3>1, <3>2
  <2> QED
    BY <2>1, <2>2
<1>3. call' \in [Users -> CallRecord] /\ call'[u] = x
  BY <1>1, <1>2
<1> QED
  BY <1>2, <1>3 DEF Cmd

(* The program draws. *)
LEMMA DrawKeeps ==
  ASSUME NEW u, Sole(u), GpuInv(u), Draw(u)
  PROVE  GpuInv(u)'
<1> DEFINE x == [call[u] EXCEPT !.op = "none"]
<1>1. /\ call[u].pc = "user" /\ mem' = 1
      /\ call' = [call EXCEPT ![u].op = "none"]
      /\ UNCHANGED <<bit_map, desc, indirect_desc, waiting_flag, posted, used, resp, entries,
                     ids, host, screen, panicked>>
  BY DEF Draw, Runs
<1>2. u \in Users /\ call \in [Users -> CallRecord]
  BY DEF Sole, GpuInv, GpuTypes
<1>3. call' = [call EXCEPT ![u] = x]
  BY <1>1, <1>2
<1>4. x \in CallRecord /\ x.pc = "user" /\ x.op = "none"
  BY <1>1, <1>2 DEF CallRecord
<1> HIDE DEF x
<1>5. call' \in [Users -> CallRecord] /\ call'[u].pc = "user" /\ call'[u].op = "none"
  BY <1>2, <1>3, <1>4
<1>6. GpuTypes(u)'
  BY <1>1, <1>5 DEF GpuInv, GpuTypes
<1>7. CommandPlace(u)'
  BY <1>1, <1>5 DEF GpuInv, CommandPlace, Quiet
<1>8. CommandEffect(u)'
  BY <1>1, <1>5 DEF GpuInv, CommandEffect, Settled, Backed, Absent
<1> QED
  BY <1>1, <1>6, <1>7, <1>8 DEF GpuInv

(* The descriptors of a command when all are free: the first is 0. *)
LEMMA FirstDescs ==
  ASSUME NEW u, Sole(u), NEW q \in Queues, bit_map[q] = {}, NEW n \in 1..2
  PROVE  /\ FirstFree(q, n) \in [1..n -> Descs]
         /\ FirstFree(q, n) \in Seq(Descs) /\ FirstFree(q, n) # <<>>
         /\ Head(FirstFree(q, n)) = 0
         /\ 0 \in Range(FirstFree(q, n)) /\ Range(FirstFree(q, n)) \subseteq Descs
<1> DEFINE P(s) == \A i \in 1..n : /\ \A j \in 1..(i - 1) : s[j] < s[i]
                                   /\ \A d \in FreeDescs(q) \ Range(s) : s[i] < d
           t == [i \in 1..n |-> i - 1]
<1>1. FreeDescs(q) = Descs /\ Descs = 0..(QueueSize - 1) /\ QueueSize \in Nat /\ QueueSize >= 2
  BY ReceiveAssumption DEF FreeDescs, Descs, Sole
<1>2. t \in [1..n -> FreeDescs(q)]
  BY <1>1
<1>3. P(t)
  <2> SUFFICES ASSUME NEW i \in 1..n
               PROVE  /\ \A j \in 1..(i - 1) : t[j] < t[i]
                      /\ \A d \in FreeDescs(q) \ Range(t) : t[i] < d
    OBVIOUS
  <2>1. \A j \in 1..(i - 1) : t[j] < t[i]
    OBVIOUS
  <2>2. ASSUME NEW d \in FreeDescs(q) \ Range(t) PROVE t[i] < d
    <3>1. d \in 0..(QueueSize - 1) /\ \A j \in 1..n : d # j - 1
      BY <1>1 DEF Range
    <3>2. ~(d < n)
      <4>1. d < n => d + 1 \in 1..n /\ d = (d + 1) - 1
        BY <1>1, <3>1
      <4> QED
        BY <3>1, <4>1
    <3> QED
      BY <1>1, <3>1, <3>2
  <2> QED
    BY <2>1, <2>2
<1>4. FirstFree(q, n) = CHOOSE s \in [1..n -> FreeDescs(q)] : P(s)
  BY DEF FirstFree
<1> HIDE DEF P, t
<1>5. PICK s : s = FirstFree(q, n)
  OBVIOUS
<1>6. s \in [1..n -> FreeDescs(q)] /\ P(s)
  BY <1>2, <1>3, <1>4, <1>5
<1>7. s \in [1..n -> Descs] /\ s \in Seq(Descs) /\ Len(s) = n /\ 1 \in 1..n
  BY <1>1, <1>6
<1>8. s # <<>> /\ Head(s) = s[1] /\ Range(s) \subseteq Descs
  BY <1>7 DEF Range
<1>9. s[1] = 0
  <2>0. s[1] \in 0..(QueueSize - 1) /\ 0 \in Descs
    BY <1>1, <1>7
  <2>1. CASE 0 \notin Range(s)
    <3>1. s[1] < 0
      BY <1>1, <1>6, <1>7, <2>0, <2>1 DEF P
    <3> QED
      BY <2>0, <3>1
  <2>2. CASE 0 \in Range(s)
    <3>1. PICK i \in 1..n : s[i] = 0
      BY <1>7, <2>2 DEF Range
    <3>2. i # 1 => 1 \in 1..(i - 1)
      OBVIOUS
    <3>3. i # 1 => s[1] < s[i]
      BY <1>6, <3>2 DEF P
    <3> QED
      BY <2>0, <3>1, <3>3
  <2> QED
    BY <2>1, <2>2
<1>10. 0 \in Range(s)
  BY <1>7, <1>9 DEF Range
<1> QED
  BY <1>5, <1>7, <1>8, <1>9, <1>10
(* A command gets its descriptors.  No other command has any, so it is never *)
(* refused, and descriptor 0, which set_indirect_flag(0) marks, is its own.  *)
LEMMA TransportKeeps ==
  ASSUME NEW u, Sole(u), GpuInv(u), Transport(u)
  PROVE  GpuInv(u)'
<1>0. call[u].pc = "transport" /\ u \in Users
  BY DEF Transport, Runs, Sole
<1>1. Cmd(u) \in AllCommands
  BY <1>0, CallShape
<1>2. PICK c : c = Cmd(u)
  OBVIOUS
<1>3. PICK q \in Queues : q = QueueOf(c)
  BY <1>1, <1>2, CommandShape
<1>4. ChainLen(c) \in 1..2
  BY <1>1, <1>2, CommandShape
<1>5. PICK s : s = FirstFree(q, ChainLen(c))
  OBVIOUS
<1>6. /\ \A r \in Queues : Quiet(r)
      /\ \A d \in Descs : ~waiting_flag[d]
  BY <1>0 DEF GpuInv, CommandPlace
<1>7. bit_map[q] = {} /\ FreeDescs(q) = Descs
  BY <1>6 DEF Quiet, FreeDescs
<1>8. /\ s \in Seq(Descs) /\ s # <<>> /\ Head(s) = 0
      /\ 0 \in Range(s) /\ Range(s) \subseteq Descs
  BY <1>4, <1>5, <1>7, FirstDescs
<1>9. ~(Cardinality(FreeDescs(q)) < ChainLen(c))
  <2>1. IsFiniteSet(0..(QueueSize - 1)) /\ Cardinality(0..(QueueSize - 1)) = QueueSize
    <3>1. 0 \in Int /\ QueueSize - 1 \in Int /\ QueueSize \in Nat
      BY ReceiveAssumption
    <3>2. /\ IsFiniteSet(0..(QueueSize - 1))
          /\ Cardinality(0..(QueueSize - 1)) =
               IF 0 > QueueSize - 1 THEN 0 ELSE (QueueSize - 1) - 0 + 1
      BY <3>1, FS_Interval
    <3> QED
      BY <3>2, ReceiveAssumption
  <2> QED
    BY <1>4, <1>7, <2>1, ReceiveAssumption DEF Descs, Sole
<1> DEFINE D == Range(s)
           filled == [d \in Descs |-> IF d \in D THEN [owner |-> u, indirect |-> FALSE] ELSE desc[q][d]]
           new == IF c.type = "attach" THEN [filled EXCEPT ![0].indirect = TRUE] ELSE filled
<1>10. /\ resp' = [resp EXCEPT ![u] = NoResp]
       /\ entries' = IF c.type = "attach" THEN entries \cup {u} ELSE entries
       /\ indirect_desc' = IF c.type = "attach" THEN [owner |-> u, cmd |-> c] ELSE indirect_desc
       /\ UNCHANGED <<panicked, waiting_flag, posted, used, ids, mem, host, screen>>
  BY <1>2, Zenon DEF Transport, Cmd
<1>11. /\ bit_map' = [bit_map EXCEPT ![q] = @ \cup D]
       /\ desc' = [desc EXCEPT ![q] = new]
       /\ call' = [call EXCEPT ![u].pc = "trigger_notify", ![u].descs = s]
  BY <1>2, <1>3, <1>5, <1>9, Zenon DEF Transport, Cmd
<1>12. /\ call' \in [Users -> CallRecord]
       /\ call'[u].pc = "trigger_notify" /\ call'[u].descs = s
       /\ call'[u].op = call[u].op /\ call'[u].todo = call[u].todo
       /\ Cmd(u)' = c
  BY <1>2, <1>8, <1>11, CallMoves
<1>13. /\ new \in [Descs -> [owner : Users \cup {"none"}, indirect : BOOLEAN]]
       /\ new[0].owner = u /\ (new[0].indirect <=> c.type = "attach")
  <2>1. 0 \in Descs /\ desc[q] \in [Descs -> [owner : Users \cup {"none"}, indirect : BOOLEAN]]
    BY <1>8 DEF GpuInv, GpuTypes
  <2>2. filled \in [Descs -> [owner : Users \cup {"none"}, indirect : BOOLEAN]]
    BY <1>0, <2>1
  <2>3. filled[0] = [owner |-> u, indirect |-> FALSE]
    BY <1>8, <2>1
  <2> HIDE DEF filled
  <2>4. CASE c.type = "attach"
    <3>1. new = [filled EXCEPT ![0].indirect = TRUE]
      BY <2>4
    <3>2. new \in [Descs -> [owner : Users \cup {"none"}, indirect : BOOLEAN]]
      BY <2>1, <2>2, <3>1
    <3>3. new[0] = [filled[0] EXCEPT !.indirect = TRUE]
      BY <2>1, <2>2, <3>1
    <3>4. new[0].owner = u /\ new[0].indirect = TRUE
      BY <2>3, <3>3
    <3> QED
      BY <2>4, <3>2, <3>4
  <2>5. CASE c.type # "attach"
    <3>1. new = filled
      BY <2>5
    <3>2. new[0].owner = u /\ new[0].indirect = FALSE
      BY <2>3, <3>1
    <3> QED
      BY <2>2, <2>5, <3>1, <3>2
  <2> QED
    BY <2>4, <2>5
<1> HIDE DEF new, filled
<1>14. /\ desc' \in [Queues -> [Descs -> [owner : Users \cup {"none"}, indirect : BOOLEAN]]]
       /\ desc'[q][0].owner = u /\ (desc'[q][0].indirect <=> c.type = "attach")
  BY <1>11, <1>13 DEF GpuInv, GpuTypes
<1>15. /\ bit_map' \in [Queues -> SUBSET Descs]
       /\ bit_map'[q] = Range(s)
       /\ \A r \in Queues : r # q => bit_map'[r] = {}
  BY <1>6, <1>7, <1>8, <1>11 DEF GpuInv, GpuTypes, Quiet
<1>16. resp' \in [Users -> RespRecord]
  <2>1. NoResp \in RespRecord
    BY DEF NoResp, RespRecord
  <2> QED
    BY <1>0, <1>10, <2>1 DEF GpuInv, GpuTypes
<1>17. GpuTypes(u)'
  BY <1>10, <1>12, <1>14, <1>15, <1>16 DEF GpuInv, GpuTypes
<1>18. CommandPlace(u)'
  <2>1. Carried(u, q)'
    BY <1>8, <1>10, <1>12, <1>14, <1>15 DEF Carried
  <2>2. \A r \in Queues : posted'[r] = <<>> /\ used'[r] = <<>> /\ (r # q => Quiet(r)')
    BY <1>6, <1>10, <1>15 DEF Quiet
  <2>3. QueueOf(Cmd(u))' = q
    BY <1>3, <1>12 DEF QueueOf, IsCursor
  <2>4. \A d \in Descs : ~waiting_flag'[d]
    BY <1>6, <1>10
  <2>5. Carried(u, QueueOf(Cmd(u)))'
    BY <2>1, <2>3 DEF Carried
  <2> QED
    BY <1>8, <1>12, <2>2, <2>3, <2>4, <2>5 DEF CommandPlace
<1>19. CommandEffect(u)'
  <2>1. ~Done(u) /\ ~Done(u)'
    BY <1>0, <1>12 DEF Done
  <2>2. Before(Cmd(u)) /\ \A r \in Resources : r # c.res => Settled(r)
    BY <1>0, <1>2, <2>1 DEF GpuInv, CommandEffect
  <2>3. Before(Cmd(u))' /\ \A r \in Resources : r # Cmd(u)'.res => Settled(r)'
    BY <1>2, <1>10, <1>12, <2>2 DEF Before, Settled, Absent, Bare, Backed
  <2> QED
    BY <1>0, <1>2, <1>10, <1>12, <2>1, <2>3 DEF GpuInv, CommandEffect
<1> QED
  BY <1>10, <1>17, <1>18, <1>19 DEF GpuInv

(* The command is posted and its flag set. *)
LEMMA TriggerNotifyKeeps ==
  ASSUME NEW u, Sole(u), GpuInv(u), TriggerNotify(u)
  PROVE  GpuInv(u)'
<1>0. call[u].pc = "trigger_notify" /\ u \in Users
  BY DEF TriggerNotify, Runs, Sole
<1>1. Cmd(u) \in AllCommands
  BY <1>0, CallShape
<1>2. PICK c : c = Cmd(u)
  OBVIOUS
<1>3. PICK q \in Queues : q = QueueOf(c)
  BY <1>1, <1>2, CommandShape
<1>4. /\ Carried(u, q) /\ posted[q] = <<>> /\ used[q] = <<>>
      /\ \A r \in Queues : r # q => Quiet(r)
      /\ \A d \in Descs : ~waiting_flag[d]
  BY <1>0, <1>2, <1>3 DEF GpuInv, CommandPlace
<1>5. Head(call[u].descs) = 0 /\ 0 \in Descs
  BY <1>4, ReceiveAssumption DEF Carried, Descs
<1>6. /\ posted' = [posted EXCEPT ![q] = Append(@, 0)]
      /\ waiting_flag' = [waiting_flag EXCEPT ![0] = TRUE]
      /\ call' = [call EXCEPT ![u].pc = "wait_complete"]
      /\ UNCHANGED <<bit_map, desc, indirect_desc, used, resp, entries, ids, mem, host, screen,
                     panicked>>
  BY <1>2, <1>3, <1>5 DEF TriggerNotify, Cmd
<1>7. /\ call' \in [Users -> CallRecord]
      /\ call'[u].pc = "wait_complete" /\ call'[u].descs = call[u].descs
      /\ call'[u].op = call[u].op /\ call'[u].todo = call[u].todo
      /\ Cmd(u)' = c
  <2>1. call[u].descs \in Seq(Descs)
    BY <1>0 DEF GpuInv, GpuTypes, CallRecord
  <2> QED
    BY <1>2, <1>6, <2>1, CallMoves
<1>8. /\ posted' \in [Queues -> Seq(Descs)] /\ posted'[q] = <<0>>
      /\ \A r \in Queues : r # q => posted'[r] = posted[r]
  <2>0. Append(<<>>, 0) = <<0>>
    OBVIOUS
  <2>1. posted \in [Queues -> Seq(Descs)]
    BY DEF GpuInv, GpuTypes
  <2>2. <<0>> \in Seq(Descs)
    BY <1>5
  <2> QED
    BY <1>4, <1>6, <2>0, <2>1, <2>2
<1>9. /\ waiting_flag' \in [Descs -> BOOLEAN] /\ waiting_flag'[0]
      /\ \A d \in Descs \ {0} : ~waiting_flag'[d]
  BY <1>4, <1>5, <1>6 DEF GpuInv, GpuTypes
<1>10. GpuTypes(u)'
  BY <1>6, <1>7, <1>8, <1>9 DEF GpuInv, GpuTypes
<1>11. CommandPlace(u)'
  <2>1. QueueOf(Cmd(u))' = q
    BY <1>3, <1>7 DEF QueueOf, IsCursor
  <2>2. Carried(u, QueueOf(Cmd(u)))'
    BY <1>2, <1>4, <1>6, <1>7, <2>1 DEF Carried
  <2>3. \A r \in Queues : r # q => Quiet(r)'
    BY <1>4, <1>6, <1>8 DEF Quiet
  <2>4. Rings(QueueOf(Cmd(u)))'
    BY <1>4, <1>6, <1>8, <1>9, <2>1 DEF Rings
  <2> QED
    BY <1>7, <1>9, <2>1, <2>2, <2>3, <2>4 DEF CommandPlace
<1>12. CommandEffect(u)'
  <2>1. ~Done(u)
    BY <1>0 DEF Done
  <2>2. ~Done(u)'
    <3>1. QueueOf(Cmd(u))' = q
      BY <1>3, <1>7 DEF QueueOf, IsCursor
    <3>2. posted'[q] # <<>>
      BY <1>8, Tuples
    <3> QED
      BY <1>7, <3>1, <3>2 DEF Done
  <2>3. Before(Cmd(u)) /\ \A r \in Resources : r # c.res => Settled(r)
    BY <1>0, <1>2, <2>1 DEF GpuInv, CommandEffect
  <2>4. Before(Cmd(u))' /\ \A r \in Resources : r # Cmd(u)'.res => Settled(r)'
    BY <1>2, <1>6, <1>7, <2>3 DEF Before, Settled, Absent, Bare, Backed
  <2> QED
    BY <1>0, <1>2, <1>6, <1>7, <2>2, <2>4 DEF GpuInv, CommandEffect
<1> QED
  BY <1>6, <1>10, <1>11, <1>12 DEF GpuInv

(* The process goes to sleep, or finds its flag cleared and gives the        *)
(* descriptors back.                                                         *)
LEMMA WaitCompleteKeeps ==
  ASSUME NEW u, Sole(u), GpuInv(u), WaitComplete(u)
  PROVE  GpuInv(u)'
<1>0. call[u].pc = "wait_complete" /\ u \in Users
  BY DEF WaitComplete, Runs, Sole
<1>1. Cmd(u) \in AllCommands
  BY <1>0, CallShape
<1>2. PICK c : c = Cmd(u)
  OBVIOUS
<1>3. PICK q \in Queues : q = QueueOf(c)
  BY <1>1, <1>2, CommandShape
<1>4. /\ Carried(u, q) /\ Rings(q)
      /\ \A r \in Queues : r # q => Quiet(r)
      /\ \A d \in Descs \ {0} : ~waiting_flag[d]
  BY <1>0, <1>2, <1>3 DEF GpuInv, CommandPlace
<1>5. /\ UNCHANGED <<indirect_desc, waiting_flag, posted, used, resp, entries, ids, mem, host,
                     screen, panicked>>
      /\ call[u].descs \in Seq(Descs)
  BY <1>0 DEF WaitComplete, GpuInv, GpuTypes, CallRecord
<1>6. CASE Waits(u) /\ call' = [call EXCEPT ![u].pc = "sleep"] /\ UNCHANGED <<bit_map, desc>>
  <2>1. /\ call' \in [Users -> CallRecord]
        /\ call'[u].pc = "sleep" /\ call'[u].descs = call[u].descs
        /\ call'[u].op = call[u].op /\ call'[u].todo = call[u].todo
        /\ Cmd(u)' = c
    BY <1>2, <1>5, <1>6, CallMoves
  <2>2. GpuTypes(u)'
    BY <1>5, <1>6, <2>1 DEF GpuInv, GpuTypes
  <2>3. QueueOf(Cmd(u))' = q
    BY <1>3, <2>1 DEF QueueOf, IsCursor
  <2>4. CommandPlace(u)'
    <3>1. Carried(u, QueueOf(Cmd(u)))'
      BY <1>2, <1>4, <1>5, <1>6, <2>1, <2>3 DEF Carried
    <3>2. Rings(QueueOf(Cmd(u)))' /\ \A r \in Queues : r # q => Quiet(r)'
      BY <1>4, <1>5, <1>6, <2>3 DEF Rings, Quiet
    <3> QED
      BY <1>4, <1>5, <2>1, <2>3, <3>1, <3>2 DEF CommandPlace
  <2>5. Done(u)' <=> Done(u)
    BY <1>0, <1>2, <1>3, <1>5, <2>1, <2>3 DEF Done
  <2>6. CommandEffect(u)'
    <3>1. /\ Before(Cmd(u))' <=> Before(c)
          /\ After(Cmd(u))' <=> After(c)
          /\ Accepted(Cmd(u), resp[u])' <=> Accepted(c, resp[u])
          /\ \A r : Settled(r)' <=> Settled(r)
      BY <1>5, <2>1 DEF Before, After, Accepted, IsCursor, Settled, Absent, Bare, Backed
    <3> QED
      BY <1>0, <1>2, <1>5, <2>1, <2>5, <3>1 DEF GpuInv, CommandEffect
  <2> QED
    BY <1>5, <2>2, <2>4, <2>6 DEF GpuInv
<1>7. CASE /\ ~Waits(u)
           /\ bit_map' = [bit_map EXCEPT ![q] = @ \ Range(call[u].descs)]
           /\ desc' = [desc EXCEPT ![q] = [d \in Descs |-> IF d \in Range(call[u].descs)
                                                           THEN NoDesc ELSE @[d]]]
           /\ call' = [call EXCEPT ![u].pc = "check", ![u].descs = <<>>]
  <2>1. /\ call' \in [Users -> CallRecord]
        /\ call'[u].pc = "check"
        /\ call'[u].op = call[u].op /\ call'[u].todo = call[u].todo
        /\ Cmd(u)' = c
    <3>1. <<>> \in Seq(Descs)
      OBVIOUS
    <3> QED
      BY <1>2, <1>7, <3>1, CallMoves
  <2>2. bit_map' \in [Queues -> SUBSET Descs] /\ \A r \in Queues : bit_map'[r] = {}
    BY <1>3, <1>4, <1>7 DEF GpuInv, GpuTypes, Carried, Quiet
  <2>3. desc' \in [Queues -> [Descs -> [owner : Users \cup {"none"}, indirect : BOOLEAN]]]
    <3>1. NoDesc \in [owner : Users \cup {"none"}, indirect : BOOLEAN]
      BY DEF NoDesc
    <3>2. desc \in [Queues -> [Descs -> [owner : Users \cup {"none"}, indirect : BOOLEAN]]]
      BY DEF GpuInv, GpuTypes
    <3> DEFINE y == [d \in Descs |-> IF d \in Range(call[u].descs) THEN NoDesc ELSE desc[q][d]]
    <3>3. y \in [Descs -> [owner : Users \cup {"none"}, indirect : BOOLEAN]]
      BY <3>1, <3>2
    <3>4. desc' = [desc EXCEPT ![q] = y]
      BY <1>7, <3>2
    <3> HIDE DEF y
    <3> QED
      BY <3>2, <3>3, <3>4
  <2>4. GpuTypes(u)'
    BY <1>5, <2>1, <2>2, <2>3 DEF GpuInv, GpuTypes
  <2>5. ~waiting_flag[0] /\ posted[q] = <<>> /\ used[q] = <<>>
    BY <1>4, <1>7 DEF Waits, Carried, Rings
  <2>6. CommandPlace(u)'
    BY <1>4, <1>5, <2>1, <2>2, <2>5 DEF CommandPlace, Quiet
  <2>7. Done(u) /\ Done(u)'
    BY <1>0, <1>2, <1>3, <2>1, <2>5 DEF Done
  <2>8. CommandEffect(u)'
    <3>1. /\ After(Cmd(u))' <=> After(c)
          /\ Accepted(Cmd(u), resp[u])' <=> Accepted(c, resp[u])
          /\ \A r : Settled(r)' <=> Settled(r)
      BY <1>5, <2>1 DEF After, Accepted, IsCursor, Settled, Absent, Bare, Backed
    <3> QED
      BY <1>0, <1>2, <1>5, <2>1, <2>7, <3>1 DEF GpuInv, CommandEffect
  <2> QED
    BY <1>5, <2>4, <2>6, <2>8 DEF GpuInv
<1> QED
  BY <1>2, <1>3, <1>6, <1>7, Zenon DEF WaitComplete, Cmd

(* The resource behind a command. *)
LEMMA ServedShape ==
  ASSUME NEW u, NEW c, host[c.res] \in HostRecord, mem \in Nat, c.type = "attach" => u \in entries
  PROVE  /\ Served(c, u) \in HostRecord
         /\ c.type = "create" => Served(c, u).exists /\ Served(c, u).backing = "none"
         /\ c.type = "attach" => /\ Served(c, u).backing = "pages"
                                 /\ Served(c, u).exists <=> host[c.res].exists
         /\ c.type = "detach" => /\ Served(c, u).backing = "none"
                                 /\ Served(c, u).exists <=> host[c.res].exists
         /\ c.type = "unref" => ~Served(c, u).exists
         /\ c.type = "transfer" /\ c.res = "frame_buffer" => Served(c, u).picture = mem
         /\ c.type \notin {"create", "attach", "detach", "unref"} =>
              /\ Served(c, u).backing = host[c.res].backing
              /\ Served(c, u).exists <=> host[c.res].exists
         /\ c.type \notin {"create", "attach", "detach", "unref", "transfer"} =>
              Served(c, u) = host[c.res]
<1>1. CASE c.type = "create"
  <2>1. Served(c, u) = [exists |-> TRUE, backing |-> "none", picture |-> 0]
    BY <1>1 DEF Served
  <2> QED
    BY <1>1, <2>1 DEF HostRecord
<1>2. CASE c.type = "attach"
  <2>1. Served(c, u) = [host[c.res] EXCEPT !.backing = "pages"]
    BY <1>2 DEF Served
  <2> QED
    BY <1>2, <2>1 DEF HostRecord
<1>3. CASE c.type = "detach"
  <2>1. Served(c, u) = [host[c.res] EXCEPT !.backing = "none"]
    BY <1>3 DEF Served
  <2> QED
    BY <1>3, <2>1 DEF HostRecord
<1>4. CASE c.type = "transfer" /\ c.res = "frame_buffer"
  <2>1. Served(c, u) = [host[c.res] EXCEPT !.picture = mem]
    BY <1>4 DEF Served
  <2> QED
    BY <1>4, <2>1 DEF HostRecord
<1>5. CASE c.type = "unref"
  <2>1. Served(c, u) = NoResource
    BY <1>5 DEF Served
  <2> QED
    BY <1>5, <2>1 DEF HostRecord, NoResource
<1>6. CASE /\ c.type \notin {"create", "attach", "detach", "unref"}
           /\ ~(c.type = "transfer" /\ c.res = "frame_buffer")
  <2>1. Served(c, u) = host[c.res]
    BY <1>6 DEF Served
  <2> QED
    BY <1>6, <2>1
<1> QED
  BY <1>1, <1>2, <1>3, <1>4, <1>5, <1>6

(* The device serves a command, which is the one under way, and never        *)
(* refuses it.                                                               *)
LEMMA DeviceServeKeeps ==
  ASSUME NEW u, Sole(u), GpuInv(u), NEW q \in Queues, DeviceServe(q)
  PROVE  GpuInv(u)'
<1>0. u \in Users /\ u # "none" /\ posted[q] # <<>>
  BY DEF Sole, DeviceServe
<1>1. call[u].pc \in {"wait_complete", "sleep"}
  <2>1. call[u].pc \in {"user", "transport", "trigger_notify", "wait_complete", "sleep", "check"}
    BY <1>0 DEF GpuInv, GpuTypes, CallRecord
  <2>2. call[u].pc \notin {"user", "transport", "check"}
    BY <1>0 DEF GpuInv, CommandPlace, Quiet
  <2>3. call[u].pc # "trigger_notify"
    BY <1>0 DEF GpuInv, CommandPlace, Quiet
  <2> QED
    BY <2>1, <2>2, <2>3
<1>2. PICK c : c = Cmd(u)
  OBVIOUS
<1>3. c \in AllCommands
  BY <1>1, <1>2, CallShape
<1>4. q = QueueOf(c) /\ Rings(q) /\ Carried(u, q)
      /\ \A r \in Queues : r # q => Quiet(r)
  BY <1>0, <1>1, <1>2 DEF GpuInv, CommandPlace, Quiet
<1>5. posted[q] = <<0>> /\ used[q] = <<>> /\ waiting_flag[0] /\ Head(posted[q]) = 0
  BY <1>0, <1>4, Tuples DEF Rings
<1>6. ~Done(u) /\ Before(c) /\ \A r \in Resources : r # c.res => Settled(r)
  <2>1. ~Done(u)
    BY <1>0, <1>1, <1>2, <1>4 DEF Done
  <2> QED
    BY <1>1, <1>2, <2>1 DEF GpuInv, CommandEffect
<1>7. CommandAt(q, 0) = c /\ desc[q][0].owner = u
  <2>1. /\ desc[q][0].owner = u /\ (desc[q][0].indirect <=> c.type = "attach")
        /\ c.type = "attach" => indirect_desc = [owner |-> u, cmd |-> c]
    BY <1>2, <1>4 DEF Carried
  <2>2. CASE c.type = "attach"
    <3>1. desc[q][0].indirect /\ indirect_desc.owner = u /\ indirect_desc.cmd = c
      BY <2>1, <2>2
    <3> QED
      BY <1>0, <2>1, <3>1 DEF CommandAt
  <2>3. CASE c.type # "attach"
    <3>1. ~desc[q][0].indirect
      BY <2>1, <2>3
    <3> QED
      BY <1>0, <1>2, <2>1, <3>1 DEF CommandAt, Cmd
  <2> QED
    BY <2>1, <2>2, <2>3
<1>8. /\ c.type # "none" /\ c.fence \in BOOLEAN
      /\ c.type = "display" <=> c.res = "none"
      /\ c.type # "display" => c.res \in Resources
      /\ IsCursor(c) <=> QueueOf(c) = 1
  BY <1>3, CommandShape
<1>9. ~Refused(c)
  BY <1>6, <1>8 DEF Refused, Before, Absent, Bare, Backed
<1> DEFINE type == IF c.type = "display" THEN "OK_DISPLAY_INFO" ELSE "OK_NODATA"
<1>10. /\ posted' = [posted EXCEPT ![q] = Tail(@)]
       /\ used' = [used EXCEPT ![q] = Append(@, 0)]
       /\ resp' = IF q = 0 THEN [resp EXCEPT ![u] = [type |-> type, fence |-> c.fence]] ELSE resp
       /\ host' = IF c.res \in Resources THEN [host EXCEPT ![c.res] = Served(c, u)] ELSE host
       /\ screen' = IF c.type = "flush" THEN host[c.res].picture ELSE screen
       /\ UNCHANGED <<panicked, bit_map, desc, indirect_desc, waiting_flag, call, entries, ids,
                      mem>>
  <2>1. PICK h : h = Head(posted[q])
    OBVIOUS
  <2>2. h = 0
    BY <1>5, <2>1
  <2> QED
    BY <1>0, <1>7, <1>9, <2>1, <2>2, Zenon DEF DeviceServe
<1> HIDE DEF type
<1>11. /\ posted' \in [Queues -> Seq(Descs)] /\ posted'[q] = <<>>
       /\ used' \in [Queues -> Seq(Descs)] /\ used'[q] = <<0>>
       /\ \A r \in Queues : r # q => posted'[r] = posted[r] /\ used'[r] = used[r]
  <2>0. 0 \in Descs
    BY ReceiveAssumption DEF Descs
  <2>1. posted \in [Queues -> Seq(Descs)] /\ used \in [Queues -> Seq(Descs)]
    BY DEF GpuInv, GpuTypes
  <2>2. Append(<<>>, 0) = <<0>> /\ Tail(<<0>>) = <<>>
    OBVIOUS
  <2>3. <<0>> \in Seq(Descs) /\ <<>> \in Seq(Descs)
    BY <2>0
  <2> QED
    BY <1>5, <1>10, <2>1, <2>2, <2>3
<1>12. resp' \in [Users -> RespRecord] /\ Accepted(c, resp'[u])
  <2>0. resp \in [Users -> RespRecord]
    BY DEF GpuInv, GpuTypes
  <2>1. CASE q = 0
    <3>1. ~IsCursor(c)
      BY <1>4, <1>8, <2>1
    <3> DEFINE y == [type |-> type, fence |-> c.fence]
    <3>2. y \in RespRecord /\ y.type = type /\ (c.fence => y.fence)
      BY <1>8 DEF RespRecord, type
    <3> HIDE DEF y
    <3>3. resp' = [resp EXCEPT ![u] = y]
      BY <1>10, <2>1 DEF y
    <3>4. resp' \in [Users -> RespRecord] /\ resp'[u] = y
      BY <1>0, <2>0, <3>2, <3>3
    <3> QED
      BY <3>2, <3>4 DEF Accepted, type
  <2>2. CASE q # 0
    <3>1. q = 1
      BY <2>2 DEF Queues
    <3>2. IsCursor(c) /\ resp' = resp
      BY <1>4, <1>8, <1>10, <2>2, <3>1
    <3> QED
      BY <2>0, <3>2 DEF Accepted
  <2> QED
    BY <2>1, <2>2
<1>13. /\ host' \in [Resources -> HostRecord]
       /\ \A r \in Resources : r # c.res => host'[r] = host[r]
       /\ c.res \in Resources => host'[c.res] = Served(c, u)
       /\ c.res \in Resources => host[c.res] \in HostRecord
  <2>1. host \in [Resources -> HostRecord] /\ mem \in Nat
    BY DEF GpuInv, GpuTypes
  <2>2. c.type = "attach" => u \in entries
    BY <1>2, <1>4 DEF Carried
  <2>3. CASE c.res \in Resources
    <3>1. Served(c, u) \in HostRecord
      BY <2>1, <2>2, <2>3, ServedShape
    <3> QED
      BY <1>10, <2>1, <2>3, <3>1
  <2>4. CASE c.res \notin Resources
    BY <1>10, <2>1, <2>4
  <2> QED
    BY <2>3, <2>4
<1>14. After(c)'
  <2>1. CASE c.type = "display"
    BY <2>1 DEF After
  <2>2. CASE c.type # "display"
    <3>1. c.res \in Resources /\ host'[c.res] = Served(c, u) /\ c.res \in ids'
      BY <1>6, <1>8, <1>10, <1>13, <2>2 DEF Before
    <3>2. c.type = "attach" => u \in entries
      BY <1>2, <1>4 DEF Carried
    <3>3. mem \in Nat /\ mem' = mem
      BY <1>10 DEF GpuInv, GpuTypes
    <3>4. /\ c.type = "create" => host'[c.res].exists /\ host'[c.res].backing = "none"
          /\ c.type = "attach" => /\ host'[c.res].backing = "pages"
                                  /\ host'[c.res].exists <=> host[c.res].exists
          /\ c.type = "detach" => /\ host'[c.res].backing = "none"
                                  /\ host'[c.res].exists <=> host[c.res].exists
          /\ c.type = "unref" => ~host'[c.res].exists
          /\ c.type = "transfer" /\ c.res = "frame_buffer" => host'[c.res].picture = mem
          /\ c.type \notin {"create", "attach", "detach", "unref"} =>
               /\ host'[c.res].backing = host[c.res].backing
               /\ host'[c.res].exists <=> host[c.res].exists
      BY <1>13, <3>1, <3>2, <3>3, ServedShape
    <3>5. c.type = "flush" => screen' = mem'
      BY <1>6, <1>10, <3>3 DEF Before
    <3> QED
      BY <1>6, <2>2, <3>1, <3>3, <3>4, <3>5 DEF Before, After, Absent, Bare, Backed
  <2> QED
    BY <2>1, <2>2
<1>15. GpuTypes(u)'
  BY <1>10, <1>11, <1>12, <1>13 DEF GpuInv, GpuTypes
<1>16. Cmd(u)' = c /\ QueueOf(Cmd(u))' = q /\ call'[u] = call[u]
  <2>1. Cmd(u)' = c
    BY <1>2, <1>10 DEF Cmd
  <2> QED
    BY <1>4, <1>10, <2>1 DEF QueueOf, IsCursor
<1>17. CommandPlace(u)'
  <2>1. Carried(u, QueueOf(Cmd(u)))'
    BY <1>2, <1>4, <1>10, <1>16 DEF Carried
  <2>2. \A r \in Queues : r # q => Quiet(r)'
    BY <1>4, <1>10, <1>11 DEF Quiet
  <2>3. Rings(QueueOf(Cmd(u)))'
    BY <1>5, <1>10, <1>11, <1>16 DEF Rings
  <2>4. \A d \in Descs \ {0} : ~waiting_flag'[d]
    BY <1>10 DEF GpuInv, CommandPlace
  <2> QED
    BY <1>1, <1>16, <2>1, <2>2, <2>3, <2>4 DEF CommandPlace
<1>18. CommandEffect(u)'
  <2>1. Done(u)'
    BY <1>1, <1>11, <1>16 DEF Done
  <2>2. \A r \in Resources : r # c.res => Settled(r)'
    BY <1>6, <1>10, <1>13 DEF Settled, Absent, Backed
  <2>3. After(Cmd(u))' /\ Accepted(Cmd(u), resp[u])'
    BY <1>12, <1>14, <1>16 DEF After, Accepted, IsCursor, Absent, Bare, Backed
  <2> QED
    BY <1>1, <1>2, <1>10, <1>16, <2>1, <2>2, <2>3 DEF GpuInv, CommandEffect
<1> QED
  BY <1>10, <1>15, <1>17, <1>18 DEF GpuInv
(* The interrupt handler takes a command from the used ring: it is the one   *)
(* under way, and whoever sleeps for it is woken.                            *)
LEMMA UsedBufferNotifyKeeps ==
  ASSUME NEW u, Sole(u), IInv, GpuInv(u), UsedBufferNotify
  PROVE  GpuInv(u)'
<1>0. PICK q \in Queues : q = in_isr.q
  BY DEF IInv, RxInv, RxTypes
<1>1. /\ u \in Users /\ used[q] # <<>>
      /\ waiting_flag' = [waiting_flag EXCEPT ![Head(used[q])] = FALSE]
      /\ used' = [used EXCEPT ![q] = Tail(@)]
      /\ call' = [p \in Users |-> IF call[p].pc = "sleep"
                                  THEN [call[p] EXCEPT !.pc = "wait_complete"] ELSE call[p]]
      /\ UNCHANGED <<bit_map, desc, indirect_desc, posted, resp, entries, ids, mem, host, screen,
                     panicked>>
  BY <1>0, Zenon DEF UsedBufferNotify, Sole
<1>2. call[u].pc \in {"wait_complete", "sleep"}
  <2>1. call[u].pc \in {"user", "transport", "trigger_notify", "wait_complete", "sleep", "check"}
    BY <1>1 DEF GpuInv, GpuTypes, CallRecord
  <2>2. call[u].pc \notin {"user", "transport", "check"}
    BY <1>1 DEF GpuInv, CommandPlace, Quiet
  <2>3. call[u].pc # "trigger_notify"
    BY <1>1 DEF GpuInv, CommandPlace, Quiet
  <2> QED
    BY <2>1, <2>2, <2>3
<1>3. PICK c : c = Cmd(u)
  OBVIOUS
<1>4. /\ q = QueueOf(c) /\ Rings(q) /\ Carried(u, q)
      /\ \A r \in Queues : r # q => Quiet(r)
      /\ \A d \in Descs \ {0} : ~waiting_flag[d]
  BY <1>1, <1>2, <1>3 DEF GpuInv, CommandPlace, Quiet
<1>5. posted[q] = <<>> /\ used[q] = <<0>> /\ Head(used[q]) = 0
  BY <1>1, <1>4, Tuples DEF Rings
<1>6. /\ call' \in [Users -> CallRecord]
      /\ call'[u].pc = "wait_complete" /\ call'[u].descs = call[u].descs
      /\ call'[u].op = call[u].op /\ call'[u].todo = call[u].todo
  <2>1. call \in [Users -> CallRecord] /\ Users = {u}
    BY DEF GpuInv, GpuTypes, Sole
  <2> DEFINE x == [call[u] EXCEPT !.pc = "wait_complete"]
  <2>2. /\ x \in CallRecord /\ x.pc = "wait_complete" /\ x.descs = call[u].descs
        /\ x.op = call[u].op /\ x.todo = call[u].todo
    BY <2>1 DEF CallRecord
  <2>3. call' = [p \in Users |-> IF call[u].pc = "sleep" THEN x ELSE call[u]]
    BY <1>1, <2>1
  <2> HIDE DEF x
  <2> QED
    BY <1>2, <2>1, <2>2, <2>3
<1>7. Cmd(u)' = c /\ QueueOf(Cmd(u))' = q
  <2>1. Cmd(u)' = c
    BY <1>3, <1>6 DEF Cmd
  <2> QED
    BY <1>4, <2>1 DEF QueueOf, IsCursor
<1>8. used' \in [Queues -> Seq(Descs)] /\ used'[q] = <<>> /\ \A r \in Queues : r # q => used'[r] = used[r]
  <2>1. used \in [Queues -> Seq(Descs)]
    BY DEF GpuInv, GpuTypes
  <2>2. Tail(<<0>>) = <<>> /\ <<>> \in Seq(Descs)
    OBVIOUS
  <2> QED
    BY <1>1, <1>5, <2>1, <2>2
<1>9. waiting_flag' \in [Descs -> BOOLEAN] /\ ~waiting_flag'[0] /\ \A d \in Descs \ {0} : ~waiting_flag'[d]
  <2>1. 0 \in Descs
    BY ReceiveAssumption DEF Descs
  <2>2. waiting_flag \in [Descs -> BOOLEAN]
    BY DEF GpuInv, GpuTypes
  <2> QED
    BY <1>1, <1>4, <1>5, <2>1, <2>2
<1>10. GpuTypes(u)'
  BY <1>1, <1>6, <1>8, <1>9 DEF GpuInv, GpuTypes
<1>11. CommandPlace(u)'
  <2>1. Carried(u, QueueOf(Cmd(u)))'
    BY <1>1, <1>3, <1>4, <1>6, <1>7 DEF Carried
  <2>2. \A r \in Queues : r # q => Quiet(r)'
    BY <1>1, <1>4, <1>8 DEF Quiet
  <2>3. Rings(QueueOf(Cmd(u)))'
    BY <1>1, <1>5, <1>7, <1>8, <1>9 DEF Rings
  <2> QED
    BY <1>6, <1>7, <1>9, <2>1, <2>2, <2>3 DEF CommandPlace
<1>12. CommandEffect(u)'
  <2>1. Done(u) /\ Done(u)'
    BY <1>1, <1>2, <1>3, <1>4, <1>5, <1>6, <1>7 DEF Done
  <2>2. /\ After(Cmd(u))' <=> After(c)
        /\ Accepted(Cmd(u), resp[u])' <=> Accepted(c, resp[u])
        /\ \A r : Settled(r)' <=> Settled(r)
    BY <1>1, <1>7 DEF After, Accepted, IsCursor, Settled, Absent, Bare, Backed
  <2> QED
    BY <1>1, <1>2, <1>3, <1>6, <1>7, <2>1, <2>2 DEF GpuInv, CommandEffect
<1> QED
  BY <1>1, <1>10, <1>11, <1>12 DEF GpuInv

(* The response is looked at: the device has accepted the command, and the   *)
(* next one of the call finds what it needs; behind the last one driver and  *)
(* device agree.                                                             *)
LEMMA CheckKeeps ==
  ASSUME NEW u, Sole(u), GpuInv(u), Check(u)
  PROVE  GpuInv(u)'
<1>0. call[u].pc = "check" /\ u \in Users
  BY DEF Check, Runs, Sole
<1>1. PICK T : T = call[u].todo
  OBVIOUS
<1>2. PICK op \in Ops : op = call[u].op
  BY <1>0, CallShape
<1>3. PICK c : c = Head(T)
  OBVIOUS
<1>4. T \in Todos(op) /\ Cmd(u) = c /\ c \in AllCommands
  BY <1>0, <1>1, <1>2, <1>3, CallShape DEF Cmd
<1>5. PICK rest : rest = Tail(T)
  OBVIOUS
<1>6. /\ rest = <<>> => Ends(op, c)
      /\ rest # <<>> => /\ rest \in Todos(op) /\ Follows(op, c, Head(rest))
                        /\ Len(rest) + 1 = Len(T)
                        /\ c.type = "unref" => Len(T) > 2
      /\ c.type = "display" => op \in {"get_screen_info", "framebuffer"}
  BY <1>3, <1>4, <1>5, TodoStep
<1>7. /\ c.type = "display" <=> c.res = "none"
      /\ c.type # "display" => c.res \in Resources
  BY <1>4, CommandShape
<1>8. /\ After(c) /\ Accepted(c, resp[u])
      /\ \A r \in Resources : r # c.res => Settled(r)
      /\ op = "framebuffer" /\ c.type = "display" => "frame_buffer" \notin ids
      /\ op = "detach_framebuffer" /\ Len(T) > 2 => "cursor" \in ids
  <2>1. Done(u)
    BY <1>0 DEF Done
  <2> QED
    BY <1>0, <1>1, <1>2, <1>4, <2>1 DEF GpuInv, CommandEffect
<1> DEFINE pc == IF rest = <<>> THEN "user" ELSE "transport"
<1>9. /\ call' = [call EXCEPT ![u].todo = rest, ![u].pc = pc]
      /\ ids' = IdsAfter(c, op)
      /\ mem' = IF c.type = "display" /\ op = "framebuffer" THEN 0 ELSE mem
      /\ UNCHANGED <<bit_map, desc, indirect_desc, waiting_flag, posted, used, resp, host, screen,
                     panicked>>
  BY <1>1, <1>2, <1>3, <1>5, <1>8, Zenon DEF Check
<1>10. pc \in {"user", "transport"}
  OBVIOUS
<1>11. /\ call' \in [Users -> CallRecord]
       /\ call'[u].pc = pc /\ call'[u].todo = rest /\ call'[u].op = op
  <2>1. call \in [Users -> CallRecord]
    BY DEF GpuInv, GpuTypes
  <2>2. rest \in AllTodos
    BY <1>6 DEF AllTodos
  <2> DEFINE x == [call[u] EXCEPT !.todo = rest, !.pc = pc]
  <2> HIDE DEF pc
  <2>3. call' = [call EXCEPT ![u] = x]
    BY <1>0, <1>9, <2>1
  <2>4. x \in CallRecord /\ x.pc = pc /\ x.todo = rest /\ x.op = op
    BY <1>0, <1>2, <1>10, <2>1, <2>2 DEF CallRecord
  <2> HIDE DEF x
  <2> QED
    BY <1>0, <2>1, <2>3, <2>4
<1>12. ids \in SUBSET Resources /\ ids' \in SUBSET Resources /\ mem' \in Nat
  BY <1>9 DEF GpuInv, GpuTypes, IdsAfter, Resources
<1>13. GpuTypes(u)'
  BY <1>9, <1>11, <1>12 DEF GpuInv, GpuTypes
<1>14. CommandPlace(u)'
  BY <1>0, <1>9, <1>10, <1>11 DEF GpuInv, CommandPlace, Quiet
<1>15. CommandEffect(u)'
  <2>1. CASE rest = <<>>
    <3>1. ~(c.type = "display" /\ op = "framebuffer") /\ Ends(op, c)
      BY <1>6, <2>1 DEF Ends
    <3>2. ids' = (IF c.type = "unref" THEN ids \ {c.res} ELSE ids) /\ mem' = mem
      BY <1>9, <3>1 DEF IdsAfter
    <3>3. ASSUME NEW r \in Resources
          PROVE  Settled(r)'
      <4>1. CASE r # c.res
        BY <1>8, <1>9, <3>2, <4>1 DEF Settled, Absent, Backed
      <4>2. CASE r = c.res
        BY <1>7, <1>8, <1>9, <3>1, <3>2, <4>2 DEF Settled, After, Ends, Absent, Backed, Bare, Resources
      <4> QED
        BY <4>1, <4>2
    <3>4. op = "frame_flush" => screen' = mem'
      BY <1>8, <1>9, <3>1, <3>2 DEF Ends, After
    <3> QED
      BY <1>11, <2>1, <3>3, <3>4 DEF CommandEffect
  <2>2. CASE rest # <<>>
    <3>0. PICK e : e = Head(rest)
      OBVIOUS
    <3>1. /\ call'[u].pc = "transport" /\ Cmd(u)' = e /\ ~Done(u)'
          /\ rest \in Todos(op) /\ Follows(op, c, e) /\ Len(rest) + 1 = Len(T)
          /\ c.type = "unref" => Len(T) > 2
      BY <1>6, <1>11, <2>2, <3>0 DEF Cmd, Done
    <3>2. Before(e)' /\ \A r \in Resources : r # e.res => Settled(r)'
      <4>1. CASE op = "framebuffer" /\ c.type = "display" /\ e.type = "create" /\ e.res = "frame_buffer"
        <5>1. ids' = ids \cup {"frame_buffer"} /\ "frame_buffer" \notin ids
          BY <1>8, <1>9, <4>1 DEF IdsAfter
        <5>2. \A r \in Resources : Settled(r)
          BY <1>7, <1>8, <4>1 DEF Resources
        <5>3. Absent("frame_buffer")
          BY <5>1, <5>2 DEF Settled, Resources
        <5>4. Before(e)'
          BY <1>9, <4>1, <5>1, <5>3 DEF Before, Absent
        <5> QED
          BY <1>9, <4>1, <5>1, <5>2, <5>4 DEF Settled, Absent, Backed
      <4>2. CASE c.type \in {"create", "attach", "transfer", "detach"}
        <5>1. ids' = ids /\ mem' = mem /\ host' = host
          BY <1>9, <4>2 DEF IdsAfter
        <5>2. e.res = c.res
          BY <3>1, <4>2 DEF Follows
        <5>3. Before(e)'
          BY <1>8, <3>1, <4>2, <5>1, <5>2 DEF Follows, After, Before, Absent, Bare, Backed
        <5> QED
          BY <1>8, <5>1, <5>2, <5>3 DEF Settled, Absent, Backed
      <4>3. CASE /\ op = "detach_framebuffer" /\ c.type = "unref" /\ c.res = "frame_buffer"
                 /\ e.type = "detach" /\ e.res = "cursor"
        <5>1. ids' = ids \ {"frame_buffer"} /\ mem' = mem /\ host' = host
          BY <1>9, <4>3 DEF IdsAfter
        <5>2. "cursor" \in ids /\ Settled("cursor") /\ Absent("frame_buffer")
          BY <1>8, <3>1, <4>3 DEF Resources, After
        <5>3. Before(e)'
          BY <4>3, <5>1, <5>2 DEF Before, Settled, Backed
        <5>4. Settled("frame_buffer")'
          BY <5>1, <5>2 DEF Settled, Absent
        <5> QED
          BY <4>3, <5>3, <5>4 DEF Resources
      <4> QED
        BY <3>1, <4>1, <4>2, <4>3 DEF Follows
    <3>3. Before(Cmd(u))'
      BY <3>1, <3>2 DEF Before, Absent, Bare, Backed
    <3>4. e.type # "display"
      BY <3>1 DEF Follows
    <3>5. op = "detach_framebuffer" /\ Len(rest) > 2 => "cursor" \in ids'
      <4>1. SUFFICES ASSUME op = "detach_framebuffer", Len(rest) > 2
                     PROVE  "cursor" \in ids'
        OBVIOUS
      <4>2. Len(rest) \in Nat
        <5>1. PICK x, y, z, w : rest \in {<<x, y, z, w>>, <<y, z, w>>, <<z, w>>, <<w>>, <<x, y>>, <<y>>}
          BY <3>1, <4>1 DEF Todos, LastOf
        <5> QED
          BY <5>1, Tuples
      <4>3. Len(T) > 2
        BY <3>1, <4>1, <4>2
      <4>4. "cursor" \in ids
        BY <1>8, <4>1, <4>3
      <4>5. c.type = "unref" => c.res = "frame_buffer"
        BY <3>1 DEF Follows
      <4> QED
        BY <1>9, <4>4, <4>5 DEF IdsAfter
    <3> QED
      BY <1>11, <3>1, <3>2, <3>3, <3>4, <3>5 DEF CommandEffect
  <2> QED
    BY <2>1, <2>2
<1> QED
  BY <1>9, <1>13, <1>14, <1>15 DEF GpuInv
-----------------------------------------------------------------------------
(* The theorem *)

(* The initial states. *)
LEMMA InitGpuInv ==
  ASSUME NEW u, Sole(u), Init
  PROVE  GpuInv(u)
<1>1. GpuInit /\ panicked = "no" /\ u \in Users
  BY DEF Init, BootInit, Sole
<1>2. NoCall \in CallRecord /\ NoCall.pc = "user" /\ NoCall.op = "none"
  <2>1. <<>> \in Seq(Descs) /\ <<>> \in AllTodos
    BY DEF AllTodos
  <2> QED
    BY <2>1 DEF NoCall, CallRecord
<1>3. NoResp \in RespRecord
  BY DEF NoResp, RespRecord
<1>4. NoResource \in HostRecord /\ ~NoResource.exists
  BY DEF NoResource, HostRecord
<1>5. NoDesc \in [owner : Users \cup {"none"}, indirect : BOOLEAN]
  BY DEF NoDesc
<1>6. /\ call = [p \in Users |-> NoCall] /\ resp = [p \in Users |-> NoResp]
      /\ host = [r \in Resources |-> NoResource]
      /\ desc = [q \in Queues |-> [d \in Descs |-> NoDesc]]
      /\ bit_map = [q \in Queues |-> {}] /\ waiting_flag = [d \in Descs |-> FALSE]
      /\ posted = [q \in Queues |-> <<>>] /\ used = [q \in Queues |-> <<>>]
      /\ ids = {} /\ mem = 0
  BY <1>1 DEF GpuInit
<1>7. <<>> \in Seq(Descs) /\ 0 \in Descs
  BY ReceiveAssumption DEF Descs
<1>8. GpuTypes(u)
  <2>1. desc \in [Queues -> [Descs -> [owner : Users \cup {"none"}, indirect : BOOLEAN]]]
    BY <1>5, <1>6
  <2>2. waiting_flag \in [Descs -> BOOLEAN]
    BY <1>6
  <2>3. /\ call \in [Users -> CallRecord] /\ resp \in [Users -> RespRecord]
        /\ host \in [Resources -> HostRecord]
    BY <1>2, <1>3, <1>4, <1>6
  <2>4. /\ bit_map \in [Queues -> SUBSET Descs]
        /\ posted \in [Queues -> Seq(Descs)] /\ used \in [Queues -> Seq(Descs)]
    BY <1>6, <1>7
  <2> QED
    BY <1>6, <2>1, <2>2, <2>3, <2>4 DEF GpuTypes
<1>9. CommandPlace(u)
  BY <1>1, <1>2, <1>6, <1>7 DEF CommandPlace, Quiet
<1>10. CommandEffect(u)
  BY <1>1, <1>2, <1>4, <1>6 DEF CommandEffect, Settled, Absent
<1> QED
  BY <1>1, <1>8, <1>9, <1>10 DEF GpuInv

\* The steps of boot, receive queues and the taking of interrupts.
OtherStep ==
  \/ \E d \in Devices : BootDevice(d) \/ Interrupt(d)
  \/ \E d \in ReceiveDevices : Receive(d)
  \/ QueueDone

(* Boot, receive queues and the taking of interrupts leave the GPU alone,    *)
(* and stop the kernel for reasons of their own.                             *)
LEMMA OtherStepKeeps ==
  ASSUME NEW u, GpuInv(u), OtherStep
  PROVE  GpuInv(u)'
<1>0. panicked # "gpu device resp error"
  BY DEF GpuInv
<1>1. ASSUME NEW d \in Devices, BootDevice(d) PROVE GpuInv(u)'
  <2>1. BootStep(d) /\ UNCHANGED gpuVars
    BY <1>1 DEF BootDevice
  <2>2. panicked' \in {panicked, "Init device failed", "kernel exception"}
    BY <2>1 DEF BootStep, Validate, Negotiate, SetQueue, DriverOk, PostFaults, Register, InitFailed,
                NegotiationFailed
  <2> QED
    BY <1>0, <2>1, <2>2, GpuSame
<1>2. ASSUME NEW d \in Devices, Interrupt(d) PROVE GpuInv(u)'
  <2>1. UNCHANGED gpuVars /\ (panicked' = panicked \/ panicked' = "No device satisfied irq")
    BY <1>2 DEF Interrupt, ProcessInterrupt
  <2> QED
    BY <1>0, <2>1, GpuSame
<1>3. ASSUME NEW d \in ReceiveDevices, Receive(d) PROVE GpuInv(u)'
  <2>1. UNCHANGED gpuVars /\ RxStep(d)
    BY <1>3 DEF Receive
  <2>2. panicked' = panicked
    BY <2>1, Zenon DEF RxStep, PostBuffer, Posted, DeviceReceive, RxBuffer, RxDone
  <2> QED
    BY <1>0, <2>1, <2>2, GpuSame
<1>4. CASE QueueDone
  <2>1. UNCHANGED gpuVars /\ panicked' = panicked
    BY <1>4 DEF QueueDone
  <2> QED
    BY <1>0, <2>1, GpuSame
<1> QED
  BY <1>1, <1>2, <1>3, <1>4 DEF OtherStep

(* Every step, and every stuttering step. *)
LEMMA NextGpuInv ==
  ASSUME NEW u, Sole(u), IInv, GpuInv(u), [Next]_vars
  PROVE  GpuInv(u)'
<1>0. Users = {u}
  BY DEF Sole
<1>1. ASSUME NEW op \in Ops, SystemCall(u, op) PROVE GpuInv(u)'
  BY <1>1, SystemCallKeeps
<1>2. CASE Draw(u)
  BY <1>2, DrawKeeps
<1>3. CASE GpuStep(u)
  BY <1>3, TransportKeeps, TriggerNotifyKeeps, WaitCompleteKeeps, CheckKeeps DEF GpuStep
<1>4. ASSUME NEW q \in Queues, DeviceServe(q) PROVE GpuInv(u)'
  BY <1>4, DeviceServeKeeps
<1>5. CASE UsedBufferNotify
  BY <1>5, UsedBufferNotifyKeeps
<1>6. CASE OtherStep
  BY <1>6, OtherStepKeeps
<1>7. CASE UNCHANGED vars
  <2>1. UNCHANGED gpuVars /\ panicked' = panicked
    BY <1>7, Zenon DEF vars
  <2> QED
    BY <2>1, GpuSame DEF GpuInv
<1> QED
  BY <1>0, <1>1, <1>2, <1>3, <1>4, <1>5, <1>6, <1>7 DEF Next, Notify, OtherStep

(* virtio_gpu.cc and transport_mmio.h, for every queue that holds a chain    *)
(* and fewer than 2^14 calls (2^16 commands) of one program: the device is   *)
(* handed the command that the driver waits for and never refuses it,        *)
(* wait_complete does not return before the response is written, the memory  *)
(* entries are there when the device reads them, and behind every call the   *)
(* driver's ids are the device's resources and a flushed screen shows what   *)
(* was drawn.                                                                *)
THEOREM GpuCorrect ==
  ASSUME NEW CONSTANT u, Sole(u)
  PROVE  Spec => []GpuAgrees
<1>1. Init => GpuInv(u)
  BY InitGpuInv
<1>2. IInv /\ GpuInv(u) /\ [Next]_vars => GpuInv(u)'
  BY NextGpuInv
<1>3. GpuInv(u) => GpuAgrees
  <2> SUFFICES ASSUME GpuInv(u) PROVE GpuAgrees
    OBVIOUS
  <2>1. Users = {u} /\ ids \in SUBSET Resources /\ host \in [Resources -> HostRecord]
    BY DEF Sole, GpuInv, GpuTypes
  <2>2. \A r \in Resources : host[r].backing # "freed" /\ host[r].exists \in BOOLEAN
    BY <2>1 DEF HostRecord
  <2>3. ASSUME call[u].pc = "user"
        PROVE  /\ \A r \in Resources : host[r].exists <=> r \in ids
               /\ \A r \in ids : host[r].backing = "pages"
               /\ call[u].op = "frame_flush" => screen = mem
    BY <2>1, <2>3 DEF GpuInv, CommandEffect, Settled, Absent, Backed
  <2>4. call[u].pc = "user" => \A r \in Resources : host[r].exists = (r \in ids)
    BY <2>2, <2>3
  <2> QED
    BY <2>1, <2>2, <2>3, <2>4 DEF GpuAgrees, GpuInv
<1> QED
  BY <1>1, <1>2, <1>3, Inductive, PTL DEF Spec
=============================================================================
