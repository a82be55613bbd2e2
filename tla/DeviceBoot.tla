------------------------------ MODULE DeviceBoot ------------------------------
(***************************************************************************)
(* DeviceFactory::InitDevices: every device is validated, negotiated and   *)
(* registered with the interrupt controller, one after the other, while    *)
(* interrupts are off (driver/device_factory.cc, negotiater_mmio.h).  A    *)
(* device, and the allocator behind AllocContinuousPage, may refuse        *)
(* wherever the code asks.                                                 *)
(*                                                                         *)
(* A block of two pages is a number from 1 on; 0 is the null pointer and   *)
(* the page frame number of a queue that is not set.                       *)
(***************************************************************************)
EXTENDS Integers, Sequences, FiniteSets

DeviceList == <<"disk0", "disk1", "gpu0", "mouse0", "net0", "uart0">>
Devices == {DeviceList[i] : i \in 1..Len(DeviceList)}
ReceiveDevices == {"mouse0", "net0"}
Queues == 0..1

\* The argument of negotiater.init; the UART is no virtio device.
QueueNum(d) == CASE d \in {"disk0", "disk1"} -> 1 [] d = "uart0" -> 0 [] OTHER -> 2

VARIABLES
  status,      \* device: its Status register
  pfn,         \* device: QueuePFN of each queue
  queue,       \* Device::queue
  registered,  \* ExternController::device_list_
  boot,        \* which device InitDevices is at, at which step, for which queue
  blocks,      \* blocks AllocContinuousPage has handed out
  panicked     \* why the kernel has stopped

bootVars == <<status, pfn, queue, registered, boot, blocks>>

Ready == {"ACKNOWLEDGE", "DRIVER", "FEATURES_OK", "DRIVER_OK"}

BootInit ==
  /\ status = [d \in Devices |-> {}]
  /\ pfn = [d \in Devices |-> [q \in Queues |-> 0]]
  /\ queue = [d \in Devices |-> [q \in Queues |-> 0]]
  /\ registered = {}
  /\ boot = [dev |-> 1, step |-> "Init", q |-> 0]
  /\ blocks = 0
  /\ panicked = "no"

Booted == boot.dev > Len(DeviceList) /\ panicked = "no"

\* InitDevices is at step s of device d.
At(d, s) ==
  /\ panicked = "no"
  /\ boot.dev <= Len(DeviceList)
  /\ DeviceList[boot.dev] = d
  /\ boot.step = s

Step(s) == boot' = [boot EXCEPT !.step = s]

\* Init has returned false.
InitFailed == panicked' = "Init device failed" /\ UNCHANGED boot

\* A driver that ignores what negotiater.init returns.
NegotiationIgnored(d) ==
  Step(IF d \in ReceiveDevices THEN "Post" ELSE "Register") /\ UNCHANGED panicked

\* negotiater.init has returned false: InputDevice and NetDevice go on.
NegotiationFailed(d) ==
  IF d \in ReceiveDevices THEN Step("Post") /\ UNCHANGED panicked ELSE InitFailed

\* Uart::Init cannot fail, the others ask for magic number, version and id.
Validate(d) ==
  /\ At(d, "Init")
  /\ \/ Step(IF QueueNum(d) = 0 THEN "Register" ELSE "Negotiate") /\ UNCHANGED panicked
     \/ QueueNum(d) > 0 /\ InitFailed
  /\ UNCHANGED <<status, pfn, queue, registered, blocks>>

\* The handshake up to FEATURES_OK, which the device may take back.  The
\* reset clears the queues.
Negotiate(d) ==
  /\ At(d, "Negotiate")
  /\ pfn' = [pfn EXCEPT ![d] = [q \in Queues |-> 0]]
  /\ \/ /\ status' = [status EXCEPT ![d] = {"ACKNOWLEDGE", "DRIVER", "FEATURES_OK"}]
        /\ boot' = [boot EXCEPT !.step = "Queue", !.q = 0]
        /\ UNCHANGED panicked
     \/ /\ status' = [status EXCEPT ![d] = {"ACKNOWLEDGE", "DRIVER"}]
        /\ NegotiationFailed(d)
  /\ UNCHANGED <<queue, registered, blocks>>

\* One turn of the loop over the queues.
SetQueue(d) ==
  /\ At(d, "Queue")
  /\ boot.q < QueueNum(d)
  /\ \/ /\ blocks' = blocks + 1
        /\ pfn' = [pfn EXCEPT ![d][boot.q] = blocks']
        /\ queue' = [queue EXCEPT ![d][boot.q] = blocks']
        /\ boot' = [boot EXCEPT !.q = @ + 1]
        /\ UNCHANGED panicked
     \/ NegotiationFailed(d) /\ UNCHANGED <<pfn, queue, blocks>>
  /\ UNCHANGED <<status, registered>>

DriverOk(d) ==
  /\ At(d, "Queue")
  /\ boot.q = QueueNum(d)
  /\ status' = [status EXCEPT ![d] = @ \cup {"DRIVER_OK"}]
  /\ Step(IF d \in ReceiveDevices THEN "Post" ELSE "Register")
  /\ UNCHANGED <<pfn, queue, registered, blocks, panicked>>

\* A transport whose queue_ is null stores its descriptors at address 0.
PostFaults(d) ==
  /\ At(d, "Post")
  /\ queue[d][0] = 0
  /\ panicked' = "kernel exception"
  /\ UNCHANGED bootVars

Register(d) ==
  /\ At(d, "Register")
  /\ registered' = registered \cup {d}
  /\ boot' = [dev |-> boot.dev + 1, step |-> "Init", q |-> 0]
  /\ UNCHANGED <<status, pfn, queue, blocks, panicked>>

BootStep(d) ==
  Validate(d) \/ Negotiate(d) \/ SetQueue(d) \/ DriverOk(d) \/ PostFaults(d) \/ Register(d)

-----------------------------------------------------------------------------
(* Properties *)

\* mmio_negotiater::init and InitDevices, whatever devices refuse: a device
\* behind the interrupt controller has been told DRIVER_OK with all its
\* queues set, in memory of their own that driver and device agree on; only
\* an input or network device, whose Init ignores the result
\* (virtio_input.cc:22, virtio_net.cc:22), may be registered without
\* DRIVER_OK, and then it has the queue that its buffers were posted to.
DevicesReady ==
  /\ Booted => registered = Devices
  /\ \A d \in registered \ {"uart0"} :
       /\ pfn[d] = queue[d]
       /\ queue[d][0] # 0
       /\ d \notin ReceiveDevices => status[d] = Ready
       /\ status[d] = Ready => \A q \in 0..QueueNum(d) - 1 : queue[d][q] # 0
       /\ \A e \in registered, q, r \in Queues :
            queue[d][q] = queue[e][r] => queue[d][q] = 0 \/ <<d, q>> = <<e, r>>
=============================================================================
