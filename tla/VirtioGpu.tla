------------------------------ MODULE VirtioGpu ------------------------------
(***************************************************************************)
(* The GPU driver and its system calls (driver/virtio_gpu.cc,              *)
(* kernel/syscalls/impl.cc) beside the receive queues of ReceiveQueues,    *)
(* from boot on.  A call is a sequence of commands, each a transport on    *)
(* the control queue 0 or the cursor queue 1 that is waited for.  Both     *)
(* queues share the waiting flags, and all calls share indirect_desc_.     *)
(*                                                                         *)
(* The wrap-around of rings and the scheduler are the matter of VirtioBlk: *)
(* here rings are queues, and a process runs or sleeps on channel_.  A     *)
(* picture is a number.                                                    *)
(***************************************************************************)
EXTENDS ReceiveQueues

CONSTANTS
  Users,      \* the processes that use the GPU
  MaxCalls    \* bound on their calls

Resources == {"frame_buffer", "cursor"}

\* A call is four commands at most: fewer than UsedIdxMod on each queue, so that
\* used.idx and last_seen_used_idx_ still agree.
ASSUME GpuAssumption == MaxCalls \in Nat /\ 4 * MaxCalls < UsedIdxMod

VARIABLES
  bit_map,       \* descriptors in use, of each queue
  desc,          \* desc[q][d]: whose command the descriptor carries
  indirect_desc, \* the command that indirect_desc_ carries, and whose it is
  waiting_flag,  \* internal_data_
  posted, used,  \* each queue's heads the device has not seen, and has served
  call,          \* the call each process is in
  resp,          \* the response header of each process' command
  entries,       \* processes whose memory entries are allocated
  ids,           \* resources whose id is not 0 in the driver
  mem,           \* what the program has drawn into the frame buffer
  host,          \* device: its resources
  screen,        \* device: what the screen shows
  calls

gpuVars == <<bit_map, desc, indirect_desc, waiting_flag, posted, used, call, resp,
             entries, ids, mem, host, screen, calls>>

vars == <<bootVars, panicked, rxVars, irq, in_isr, gpuVars>>

NoDesc == [owner |-> "none", indirect |-> FALSE]
Command(t, r, f) == [type |-> t, res |-> r, fence |-> f]
NoCommand == Command("none", "none", FALSE)
NoResp == [type |-> "none", fence |-> FALSE]
NoCall == [op |-> "none", pc |-> "user", todo |-> <<>>, descs |-> <<>>]
NoResource == [exists |-> FALSE, backing |-> "none", picture |-> 0]

GpuInit ==
  /\ bit_map = [q \in Queues |-> {}]
  /\ desc = [q \in Queues |-> [d \in Descs |-> NoDesc]]
  /\ indirect_desc = [owner |-> "none", cmd |-> NoCommand]
  /\ waiting_flag = [d \in Descs |-> FALSE]
  /\ posted = [q \in Queues |-> <<>>]
  /\ used = [q \in Queues |-> <<>>]
  /\ call = [p \in Users |-> NoCall]
  /\ resp = [p \in Users |-> NoResp]
  /\ entries = {}
  /\ ids = {}
  /\ mem = 0
  /\ host = [r \in Resources |-> NoResource]
  /\ screen = 0
  /\ calls = 0

-----------------------------------------------------------------------------
(* The commands of a call *)

Setup(r, f) == <<Command("create", r, f), Command("attach", r, f)>>
Teardown(r) == IF r \in ids THEN <<Command("detach", r, FALSE), Command("unref", r, FALSE)>>
               ELSE <<>>

GetDisplayInfo == <<Command("display", "none", FALSE)>>

Commands(op) ==
  CASE op = "get_screen_info" -> GetDisplayInfo
    [] op = "framebuffer" -> GetDisplayInfo \o Setup("frame_buffer", FALSE)
                               \o <<Command("scanout", "frame_buffer", FALSE)>>
    [] op = "frame_flush" -> <<Command("transfer", "frame_buffer", FALSE),
                               Command("flush", "frame_buffer", FALSE)>>
    [] op = "setup_cursor" -> Setup("cursor", TRUE)
                                \o <<Command("transfer", "cursor", TRUE),
                                     Command("update_cursor", "cursor", FALSE)>>
    [] op = "move_cursor" -> <<Command("move_cursor", "cursor", FALSE)>>
    [] op = "detach_framebuffer" -> Teardown("frame_buffer") \o Teardown("cursor")

\* Programs set up what they use, once (lcd.cc, view.cc, mandelbrot.cc).  The
\* driver does not test it: the device would refuse, and check_type panic.
ProgramOrder(op) ==
  /\ op = "framebuffer" => "frame_buffer" \notin ids
  /\ op = "frame_flush" => "frame_buffer" \in ids
  /\ op = "setup_cursor" => "cursor" \notin ids
  /\ op = "move_cursor" => "cursor" \in ids

Runs(p, pc) ==
  /\ Booted
  /\ in_isr = NoIsr
  /\ call[p].pc = pc

\* A system call starts; Drop without anything to drop returns at once.
SystemCall(p, op) ==
  /\ Runs(p, "user")
  /\ calls < MaxCalls
  /\ ProgramOrder(op)
  /\ calls' = calls + 1
  /\ call' = [call EXCEPT ![p] =
                [NoCall EXCEPT !.op = op, !.todo = Commands(op),
                               !.pc = IF Commands(op) = <<>> THEN "user" ELSE "transport"]]
  /\ ids' = IF op = "setup_cursor" THEN ids \cup {"cursor"} ELSE ids
  /\ UNCHANGED <<bootVars, panicked, rxVars, irq, in_isr, bit_map, desc, indirect_desc,
                 waiting_flag, posted, used, resp, entries, mem, host, screen>>

\* The program draws into its frame buffer.
Draw(p) ==
  /\ Runs(p, "user")
  /\ "frame_buffer" \in ids
  /\ mem = 0
  /\ mem' = 1
  /\ call' = [call EXCEPT ![p].op = "none"]
  /\ UNCHANGED <<bootVars, panicked, rxVars, irq, in_isr, bit_map, desc, indirect_desc,
                 waiting_flag, posted, used, resp, entries, ids, host, screen, calls>>

-----------------------------------------------------------------------------
(* A command *)

IsCursor(c) == c.type \in {"update_cursor", "move_cursor"}
QueueOf(c) == IF IsCursor(c) THEN 1 ELSE 0

\* Request and response; one descriptor for indirect_desc_ or for a cursor.
ChainLen(c) == IF IsCursor(c) \/ c.type = "attach" THEN 1 ELSE 2

FreeDescs(q) == Descs \ bit_map[q]
FirstFree(q, n) == CHOOSE s \in [1..n -> FreeDescs(q)] :
                     \A i \in 1..n : /\ \A j \in 1..(i - 1) : s[j] < s[i]
                                     /\ \A d \in FreeDescs(q) \ Range(s) : s[i] < d

\* ResourceAttachBacking fills indirect_desc_ and the memory entries, the
\* transport takes descriptors and fills them; set_indirect_flag(0) marks
\* descriptor 0, whichever the transport has.
Transport(p) ==
  LET c == Head(call[p].todo)
      q == QueueOf(c)
      s == FirstFree(q, ChainLen(c))
      D == Range(s)
      filled == [d \in Descs |-> IF d \in D THEN [owner |-> p, indirect |-> FALSE] ELSE desc[q][d]]
  IN  /\ Runs(p, "transport")
      /\ resp' = [resp EXCEPT ![p] = NoResp]
      /\ entries' = IF c.type = "attach" THEN entries \cup {p} ELSE entries
      /\ indirect_desc' = IF c.type = "attach" THEN [owner |-> p, cmd |-> c] ELSE indirect_desc
      /\ \/ /\ Cardinality(FreeDescs(q)) >= ChainLen(c)
            /\ bit_map' = [bit_map EXCEPT ![q] = @ \cup D]
            /\ desc' = [desc EXCEPT ![q] = IF c.type = "attach"
                                           THEN [filled EXCEPT ![0].indirect = TRUE]
                                           ELSE filled]
            /\ call' = [call EXCEPT ![p].pc = "trigger_notify",
                                    ![p].descs = s]
         \/ /\ Cardinality(FreeDescs(q)) < ChainLen(c)
            /\ call' = [call EXCEPT ![p].pc = "check"]
            /\ UNCHANGED <<bit_map, desc>>
      /\ UNCHANGED <<bootVars, panicked, rxVars, irq, in_isr, waiting_flag, posted, used,
                     ids, mem, host, screen, calls>>

TriggerNotify(p) ==
  LET q == QueueOf(Head(call[p].todo))
      h == Head(call[p].descs)
  IN  /\ Runs(p, "trigger_notify")
      /\ posted' = [posted EXCEPT ![q] = Append(@, h)]
      /\ waiting_flag' = [waiting_flag EXCEPT ![h] = TRUE]
      /\ call' = [call EXCEPT ![p].pc = "wait_complete"]
      /\ UNCHANGED <<bootVars, panicked, rxVars, irq, in_isr, bit_map, desc, indirect_desc,
                     used, resp, entries, ids, mem, host, screen, calls>>

\* The test of wait_complete's loop.
Waits(p) == waiting_flag[Head(call[p].descs)]

\* wait_complete sleeps, or frees and clears the descriptors.
WaitComplete(p) ==
  LET q == QueueOf(Head(call[p].todo))
      D == Range(call[p].descs)
  IN  /\ Runs(p, "wait_complete")
      /\ \/ /\ Waits(p)
            /\ call' = [call EXCEPT ![p].pc = "sleep"]
            /\ UNCHANGED <<bit_map, desc>>
         \/ /\ ~Waits(p)
            /\ bit_map' = [bit_map EXCEPT ![q] = @ \ D]
            /\ desc' = [desc EXCEPT ![q] = [d \in Descs |-> IF d \in D THEN NoDesc ELSE @[d]]]
            /\ call' = [call EXCEPT ![p].pc = "check", ![p].descs = <<>>]
      /\ UNCHANGED <<bootVars, panicked, rxVars, irq, in_isr, indirect_desc, waiting_flag,
                     posted, used, resp, entries, ids, mem, host, screen, calls>>

\* check_type and check_fence_id; a cursor command has no response.
Accepted(c, r) ==
  \/ IsCursor(c)
  \/ /\ r.type = IF c.type = "display" THEN "OK_DISPLAY_INFO" ELSE "OK_NODATA"
     /\ c.fence => r.fence

\* A Drop that does not clear the ids.
IdsKept(c, op) ==
  IF c.type = "display" /\ op = "framebuffer" THEN ids \cup {"frame_buffer"} ELSE ids

\* What the driver remembers once the command is done: sys_framebuffer gets
\* its memory and SetupFramebuffer its id behind GetDisplayInfo, Drop forgets
\* an id behind ResourceDestroy.
IdsAfter(c, op) ==
  IF c.type = "display" /\ op = "framebuffer" THEN ids \cup {"frame_buffer"}
  ELSE IF c.type = "unref" THEN ids \ {c.res} ELSE ids

Check(p) ==
  LET c == Head(call[p].todo)
      rest == Tail(call[p].todo)
      op == call[p].op
  IN  /\ Runs(p, "check")
      /\ \/ /\ ~Accepted(c, resp[p])
            /\ panicked' = "gpu device resp error"
            /\ UNCHANGED <<call, entries, ids, mem>>
         \/ /\ Accepted(c, resp[p])
            /\ call' = [call EXCEPT ![p].todo = rest,
                                    ![p].pc = IF rest = <<>> THEN "user" ELSE "transport"]
            /\ entries' = entries \ {p}
            /\ ids' = IdsAfter(c, op)
            /\ mem' = IF c.type = "display" /\ op = "framebuffer" THEN 0 ELSE mem
            /\ UNCHANGED panicked
      /\ UNCHANGED <<bootVars, rxVars, irq, in_isr, bit_map, desc, indirect_desc,
                     waiting_flag, posted, used, resp, host, screen, calls>>

-----------------------------------------------------------------------------
(* The device: what it makes of a command, and its interrupt.              *)

\* The command that starts at descriptor h of queue q; NoCommand if the
\* descriptor is none or does not say what it carries.
CommandAt(q, h) ==
  LET e == desc[q][h] IN
  IF e.owner = "none" THEN NoCommand
  ELSE IF e.indirect THEN IF indirect_desc.owner = e.owner THEN indirect_desc.cmd ELSE NoCommand
  ELSE Head(call[e.owner].todo)

Refused(c) ==
  \/ c.type = "none"
  \/ c.type = "create" /\ host[c.res].exists
  \/ c.type = "attach" /\ (~host[c.res].exists \/ host[c.res].backing # "none")
  \/ c.type \in {"detach", "transfer"} /\ host[c.res].backing = "none"
  \/ c.type \in {"scanout", "flush", "unref"} /\ ~host[c.res].exists

\* The resource behind the command.
Served(c, p) ==
  LET r == host[c.res] IN
  CASE c.type = "create" -> [exists |-> TRUE, backing |-> "none", picture |-> 0]
    [] c.type = "attach" -> [r EXCEPT !.backing = IF p \in entries THEN "pages" ELSE "freed"]
    [] c.type = "detach" -> [r EXCEPT !.backing = "none"]
    [] c.type = "transfer" /\ c.res = "frame_buffer" -> [r EXCEPT !.picture = mem]
    [] c.type = "unref" -> NoResource
    [] OTHER -> r

DeviceServe(q) ==
  LET h == Head(posted[q])
      c == CommandAt(q, h)
      p == desc[q][h].owner
      ok == ~Refused(c)
      type == IF ~ok THEN "ERR" ELSE IF c.type = "display" THEN "OK_DISPLAY_INFO"
              ELSE "OK_NODATA"
  IN  /\ panicked = "no"
      /\ posted[q] # <<>>
      /\ posted' = [posted EXCEPT ![q] = Tail(@)]
      /\ used' = [used EXCEPT ![q] = Append(@, h)]
      /\ resp' = IF q = 0 /\ p # "none"
                 THEN [resp EXCEPT ![p] = [type |-> type, fence |-> c.fence]] ELSE resp
      /\ host' = IF ok /\ c.res \in Resources THEN [host EXCEPT ![c.res] = Served(c, p)]
                 ELSE host
      /\ screen' = IF ok /\ c.type = "flush" THEN host[c.res].picture ELSE screen
      /\ irq' = irq \cup {"gpu0"}
      /\ UNCHANGED <<bootVars, panicked, rxVars, in_isr, bit_map, desc, indirect_desc,
                     waiting_flag, call, entries, ids, mem, calls>>

\* One turn of UsedBufferNotify's inner loop, for the queue it is at.
UsedBufferNotify ==
  LET q == in_isr.q IN
  /\ in_isr.dev = "gpu0"
  /\ used[q] # <<>>
  /\ waiting_flag' = [waiting_flag EXCEPT ![Head(used[q])] = FALSE]
  /\ used' = [used EXCEPT ![q] = Tail(@)]
  /\ call' = [p \in Users |-> IF call[p].pc = "sleep"
                              THEN [call[p] EXCEPT !.pc = "wait_complete"] ELSE call[p]]
  /\ UNCHANGED <<bootVars, panicked, rxVars, irq, in_isr, bit_map, desc, indirect_desc,
                 posted, resp, entries, ids, mem, host, screen, calls>>

\* A handler that looks at the control queue only.
ControlQueueOnly(q) == NoIsr

\* The queue behind q in UsedBufferNotify's outer loop.
NextQueue(q) == IF q + 1 \in Queues THEN [dev |-> "gpu0", q |-> q + 1] ELSE NoIsr

QueueDone ==
  /\ in_isr.dev = "gpu0"
  /\ used[in_isr.q] = <<>>
  /\ in_isr' = NextQueue(in_isr.q)
  /\ UNCHANGED <<bootVars, panicked, rxVars, irq, gpuVars>>

-----------------------------------------------------------------------------
Ops == {"get_screen_info", "framebuffer", "frame_flush", "setup_cursor", "move_cursor",
        "detach_framebuffer"}

Init == BootInit /\ RxInit /\ GpuInit

GpuStep(p) == Transport(p) \/ TriggerNotify(p) \/ WaitComplete(p) \/ Check(p)

BootDevice(d) == BootStep(d) /\ UNCHANGED <<rxVars, irq, in_isr, gpuVars>>
Receive(d) == RxStep(d) /\ UNCHANGED gpuVars
Interrupt(d) == ProcessInterrupt(d) /\ UNCHANGED gpuVars
Notify == UsedBufferNotify \/ QueueDone
Handler == Notify \/ \E d \in ReceiveDevices : (RxBuffer(d) \/ RxDone(d)) /\ UNCHANGED gpuVars

Next ==
  \/ \E d \in Devices : BootDevice(d) \/ Interrupt(d)
  \/ \E d \in ReceiveDevices : Receive(d)
  \/ \E p \in Users : (\E op \in Ops : SystemCall(p, op)) \/ Draw(p) \/ GpuStep(p)
  \/ \E q \in Queues : DeviceServe(q)
  \/ Notify

Spec == Init /\ [][Next]_vars

\* The device serves what is posted and interrupts are taken and left; a
\* process goes on however often it is interrupted.
FairSpec ==
  /\ Spec
  /\ \A q \in Queues : WF_vars(DeviceServe(q))
  /\ SF_vars(Interrupt("gpu0"))
  /\ WF_vars(Handler)
  /\ \A p \in Users : SF_vars(GpuStep(p))

-----------------------------------------------------------------------------
(* Properties *)

\* virtio_gpu.cc:82-317, with programs that keep to their order: no response
\* is read before the device has written it and none is an error; the device
\* reads memory entries only while they are allocated; between calls driver
\* and device agree on which resources exist, each with its memory; and when
\* sys_frame_flush has returned the screen shows what was drawn.
GpuAgrees ==
  /\ panicked # "gpu device resp error"
  /\ \A r \in Resources : host[r].backing # "freed"
  /\ (\A p \in Users : call[p].pc = "user") =>
       /\ \A r \in Resources : host[r].exists = (r \in ids)
       /\ \A r \in ids : host[r].backing = "pages"
       /\ (\E p \in Users : call[p].op = "frame_flush") => screen = mem

\* wait_complete (transport_mmio.h:52-63): every GPU call returns, although
\* the completions of both queues, of the mouse and of the network card come
\* through one interrupt handler each at any moment.
GpuReturns == \A p \in Users : call[p].pc # "user" ~> call[p].pc = "user"
=============================================================================
