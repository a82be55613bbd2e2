---------------------------- MODULE ReceiveQueues ----------------------------
(***************************************************************************)
(* The receive queues of mouse and network card: all buffers are posted at *)
(* boot, and the interrupt handler posts a buffer again by moving          *)
(* avail.idx over the entry that is still in the ring.  That is right for  *)
(* a device that uses buffers in the order it got them, as this one does.  *)
(* The k-th event of a device carries the number k.                        *)
(***************************************************************************)
EXTENDS DeviceBoot, FiniteSetsExt, SequencesExt

CONSTANTS
  QueueSize,   \* queue_buffer_size
  MaxEvents    \* bound on the events of all devices

\* The width of used.idx.  last_seen_used_idx_ has 32 bits: from the event that
\* wraps used.idx on the two differ for ever and the handlers' loops do not end.
UsedIdxMod == 65536

ASSUME ReceiveAssumption ==
  /\ QueueSize \in Nat \ {0}
  /\ MaxEvents \in 0..(UsedIdxMod - 1)

Descs == 0..QueueSize - 1

VARIABLES
  rx,       \* queue 0 of each receive device, and the events its handler has taken
  sent,     \* events each device has delivered
  irq,      \* devices with used_buffer_notification in InterruptStatus
  in_isr    \* the device and the queue UsedBufferNotify is at

rxVars == <<rx, sent>>

NoIsr == [dev |-> "none", q |-> 0]

RxInit ==
  /\ rx = [d \in ReceiveDevices |->
             [avail |-> [i \in Descs |-> 0], avail_idx |-> 0, dev_idx |-> 0,
              used |-> [i \in Descs |-> 0], used_idx |-> 0, last_seen_used_idx |-> 0,
              buf |-> [i \in Descs |-> 0], taken |-> <<>>]]
  /\ sent = [d \in ReceiveDevices |-> 0]
  /\ irq = {}
  /\ in_isr = NoIsr

\* Init posts buffer i with descriptor i, which stays its own.
PostBuffer(d) ==
  LET i == rx[d].avail_idx IN
  /\ At(d, "Post")
  /\ queue[d][0] # 0
  /\ i < QueueSize
  /\ rx' = [rx EXCEPT ![d].avail[i] = i, ![d].avail_idx = i + 1]
  /\ UNCHANGED <<bootVars, panicked, sent, irq, in_isr>>

Posted(d) ==
  /\ At(d, "Post")
  /\ rx[d].avail_idx = QueueSize
  /\ Step("Register")
  /\ UNCHANGED <<status, pfn, queue, registered, blocks, panicked, rxVars, irq, in_isr>>

\* The device fills the next buffer.
DeviceReceive(d) ==
  LET h == rx[d].avail[rx[d].dev_idx % QueueSize] IN
  /\ panicked = "no"
  /\ status[d] = Ready
  /\ rx[d].dev_idx < rx[d].avail_idx
  /\ sent["mouse0"] + sent["net0"] < MaxEvents
  /\ sent' = [sent EXCEPT ![d] = @ + 1]
  /\ rx' = [rx EXCEPT ![d].dev_idx = @ + 1, ![d].used[rx[d].used_idx % QueueSize] = h,
                      ![d].used_idx = (@ + 1) % UsedIdxMod, ![d].buf[h] = sent[d] + 1]
  /\ irq' = irq \cup {d}
  /\ UNCHANGED <<bootVars, panicked, in_isr>>

\* DoWork and ProcessInterrupt: the device is found by its number, and the
\* interrupt acknowledged before the used rings are read.
ProcessInterrupt(d) ==
  /\ Booted
  /\ in_isr = NoIsr
  /\ d \in irq
  /\ irq' = irq \ {d}
  /\ \/ d \in registered /\ in_isr' = [dev |-> d, q |-> 0] /\ UNCHANGED panicked
     \/ d \notin registered /\ panicked' = "No device satisfied irq" /\ UNCHANGED in_isr
  /\ UNCHANGED <<bootVars, rxVars>>

\* A handler that keeps the last buffer of the ring.
RecycledButLast(r) == IF r.avail_idx - r.dev_idx = QueueSize - 1 THEN r.avail_idx
                      ELSE r.avail_idx + 1

\* RecycleRxBuffer: the ring entry is not written again.
Recycled(r) == r.avail_idx + 1

\* One turn of the handler's loop: the event is taken, into position_ or by
\* the callback, and the buffer is posted again.
RxBuffer(d) ==
  LET r == rx[d]
      id == r.used[r.last_seen_used_idx % QueueSize]
  IN  /\ in_isr.dev = d
      /\ r.last_seen_used_idx # r.used_idx
      /\ rx' = [rx EXCEPT ![d].last_seen_used_idx = @ + 1, ![d].taken = Append(@, r.buf[id]),
                          ![d].avail_idx = Recycled(r)]
      /\ UNCHANGED <<bootVars, panicked, sent, irq, in_isr>>

RxDone(d) ==
  /\ in_isr.dev = d
  /\ rx[d].last_seen_used_idx = rx[d].used_idx
  /\ in_isr' = NoIsr
  /\ UNCHANGED <<bootVars, panicked, rxVars, irq>>

RxStep(d) ==
  PostBuffer(d) \/ Posted(d) \/ DeviceReceive(d) \/ RxBuffer(d) \/ RxDone(d)

-----------------------------------------------------------------------------
(* Properties *)

Offered(r) == [i \in r.dev_idx..r.avail_idx - 1 |-> r.avail[i % QueueSize]]
Unseen(r) == [i \in r.last_seen_used_idx..r.used_idx - 1 |-> r.used[i % QueueSize]]
Values(f) == {f[i] : i \in DOMAIN f}

\* UsedBufferNotify of the mouse and DealRxBuffer of the network card
\* (virtio_input.cc:41-58, virtio_net.cc:43-57): once posted, every buffer is
\* either offered to the device or holds an event the handler has not seen,
\* and never both or twice; and the events are taken in the order they came,
\* none lost, overwritten or taken twice, with the rest still in their buffers.
BuffersOffered ==
  \A d \in ReceiveDevices \cap registered :
    LET r == rx[d] IN
    /\ Values(Offered(r)) \cup Values(Unseen(r)) = Descs
    /\ (r.avail_idx - r.dev_idx) + (r.used_idx - r.last_seen_used_idx) = QueueSize
    /\ r.taken = [k \in 1..r.last_seen_used_idx |-> k]
    /\ \A k \in DOMAIN Unseen(r) : r.buf[Unseen(r)[k]] = k + 1
    /\ sent[d] = r.used_idx
=============================================================================
