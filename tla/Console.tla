------------------------------- MODULE Console -------------------------------
(***************************************************************************)
(* kernel/console.cc: the ring buffer between the UART interrupt and the   *)
(* processes that read the console, with the sleep and wakeup around it.   *)
(*                                                                         *)
(* Console::read holds a CriticalGuard throughout: its loop is one step    *)
(* until it sleeps.  Sleep unlocks context.lock before the Switch and      *)
(* locks it afterwards; the guard itself never touches that lock when      *)
(* CPU_NUM is 1, so nobody else unlocks it.                                *)
(***************************************************************************)
EXTENDS Scheduler, Sequences

CONSTANTS
  BufLen,          \* Console::buf_len
  IndexMod,        \* 2^8: read_index and write_index are uint8_t
  Printable,       \* characters other than carriage return and backspace
  MaxLen,          \* bound on the length a reader asks for
  Throttled,       \* TRUE: nobody types BufLen characters ahead of the readers
  console_channel  \* GlobalChannel::console_channel()

Chars == Printable \cup {"cr"}

ASSUME ConsoleAssumption ==
  /\ BufLen \in Nat \ {0}
  /\ IndexMod \in Nat \ {0}
  /\ IndexMod % BufLen = 0
  /\ MaxLen \in Nat \ {0}
  /\ Throttled \in BOOLEAN
  /\ console_channel \in DriverChannels
  /\ "cr" \notin Printable

VARIABLES
  buf,          \* context.buf
  read_index,   \* context.read_index
  write_index,  \* context.write_index
  locked,       \* context.lock
  len,          \* how much each reader asks for
  line          \* what each reader's buffer has got: p[0..read_cnt-1]

consVars == <<buf, read_index, write_index, locked, len, line>>

vars == <<schedVars, consVars>>

ConsoleLabels == {"user", "read", "read_loop", "relock"}

\* Characters between the two indices, modulo the width of the indices.
Unread == (write_index + IndexMod - read_index) % IndexMod

Contents == [i \in 1..Unread |-> buf[(read_index + i - 1) % BufLen]]

\* is_buffer_full, of given indices
BufferFull(r, w) == r % BufLen = w % BufLen /\ r # w

-----------------------------------------------------------------------------
(* Console::read                                                           *)

CallRead(p, n) ==
  /\ Running(p)
  /\ InUser(p)
  /\ pc' = [pc EXCEPT ![p] = "read"]
  /\ mie' = TRUE
  /\ len' = [len EXCEPT ![p] = n]
  /\ line' = [line EXCEPT ![p] = <<>>]
  /\ NoSwitch
  /\ UNCHANGED <<state, channel, buf, read_index, write_index, locked>>

\* CriticalGuard guard(&context.lock)
EnterRead(p) ==
  /\ Running(p)
  /\ pc[p] = "read"
  /\ pc' = [pc EXCEPT ![p] = "read_loop"]
  /\ mie' = FALSE
  /\ NoSwitch
  /\ UNCHANGED <<state, channel, consVars>>

\* The loop ends at the first carriage return, when p's buffer is full, or
\* when the ring is empty.
Taken(p) ==
  LET room == len[p] - Len(line[p])
      most == IF room < Unread THEN room ELSE Unread
  IN CHOOSE n \in 0..most :
       /\ \A i \in 1..(n - 1) : Contents[i] # "cr"
       /\ n = most \/ (n > 0 /\ Contents[n] = "cr")

\* The char c = ...; c = c == '\r' ? '\n' : c of one turn.
Converted(c) == IF c = "cr" THEN "nl" ELSE c

\* Turns of the outer loop up to the end of the read or up to the Sleep.
ReadLoop(p) ==
  LET n == Taken(p)
      got == line[p] \o [i \in 1..n |-> Converted(Contents[i])]
      done == Len(got) = len[p] \/ \E i \in 1..Len(got) : got[i] = "nl"
  IN
  /\ Running(p)
  /\ pc[p] = "read_loop"
  /\ line' = [line EXCEPT ![p] = got]
  /\ read_index' = (read_index + n) % IndexMod
  /\ \/ /\ done
        /\ TrapRet(p)
        /\ NoSwitch
        /\ UNCHANGED <<state, channel, locked>>
     \/ /\ ~ done
        /\ locked' = FALSE
        /\ Sleep(p, console_channel, "relock")
  /\ UNCHANGED <<buf, write_index, len>>

\* lk->Lock() behind Sleep's Switch spins until the lock is free.
Relock(p) ==
  /\ Running(p)
  /\ pc[p] = "relock"
  /\ ~ locked
  /\ locked' = TRUE
  /\ Goto(p, "read_loop")
  /\ NoSwitch
  /\ UNCHANGED <<state, channel, buf, read_index, write_index, len, line>>

-----------------------------------------------------------------------------
(* The UART interrupt: ExternController::DoWork, Uart::ProcessInterrupt and *)
(* Console::InterruptHandler for one character.                            *)

InterruptContext ==
  /\ InterruptsEnabled
  /\ UNCHANGED <<saved_context, is_intr_on, pc, process_task, scan, lk_intr_on,
                 mie, panicked, read_index, locked, len, line>>

\* A handler that wakes readers only when the ring is full.
WakesReadersWhenFull(c, w) == BufferFull(read_index, w)

WakesReaders(c, w) == c = "cr" \/ BufferFull(read_index, w)

TypeChar(c) ==
  LET w == (write_index + 1) % IndexMod IN
  /\ InterruptContext
  /\ Throttled => Unread < BufLen - 1
  /\ ~ BufferFull(read_index, write_index)
  /\ buf' = [buf EXCEPT ![write_index % BufLen] = c]
  /\ write_index' = w
  /\ IF WakesReaders(c, w)
       THEN Wakeup(console_channel)
       ELSE UNCHANGED <<state, channel>>

\* Backspaces that do not wrap the index, or that erase what is not there.
BackspaceNoWrap ==
  /\ InterruptContext
  /\ ~ BufferFull(read_index, write_index)
  /\ read_index # write_index
  /\ write_index' = write_index - 1
  /\ UNCHANGED <<buf, state, channel>>

BackspaceOnEmpty ==
  /\ InterruptContext
  /\ ~ BufferFull(read_index, write_index)
  /\ write_index' = (write_index + IndexMod - 1) % IndexMod
  /\ UNCHANGED <<buf, state, channel>>

TypeBackspace ==
  /\ InterruptContext
  /\ ~ BufferFull(read_index, write_index)
  /\ read_index # write_index
  /\ write_index' = (write_index + IndexMod - 1) % IndexMod
  /\ UNCHANGED <<buf, state, channel>>

-----------------------------------------------------------------------------
DispatchStep == Dispatch /\ UNCHANGED consVars

ClockInterrupt == TimerInterrupt /\ UNCHANGED consVars

ReadStep(p) == EnterRead(p) \/ ReadLoop(p) \/ Relock(p)

\* Every slot holds a process that may read the console.
Init ==
  /\ state = [s \in Slots |-> "runnable"]
  /\ channel = [s \in Slots |-> None]
  /\ saved_context = [s \in Slots |-> "ExecuteRet"]
  /\ is_intr_on = [s \in Slots |-> FALSE]
  /\ pc = [s \in Slots |-> "user"]
  /\ process_task = None
  /\ scan = 1
  /\ lk_intr_on = TRUE
  /\ mie = TRUE
  /\ panicked = "no"
  /\ buf = [i \in 0..(BufLen - 1) |-> "nul"]
  /\ read_index = 0
  /\ write_index = 0
  /\ locked = FALSE
  /\ len = [s \in Slots |-> 1]
  /\ line = [s \in Slots |-> <<>>]

Next ==
  \/ DispatchStep
  \/ ClockInterrupt
  \/ \E c \in Chars : TypeChar(c)
  \/ TypeBackspace
  \/ \E p \in Slots : ReadStep(p) \/ \E n \in 1..MaxLen : CallRead(p, n)

Spec == Init /\ [][Next]_vars

(* The dispatcher never stops, the timer's interrupt stays pending until it *)
(* is taken, and a reader gets to run its steps.  Nobody has to type.       *)
FairSpec ==
  /\ Spec
  /\ WF_vars(DispatchStep)
  /\ SF_vars(ClockInterrupt)
  /\ \A p \in Slots : SF_vars(ReadStep(p))

-----------------------------------------------------------------------------
(* Every variable has its type. *)
TypeOK ==
  /\ SchedTypeOK
  /\ pc \in [Slots -> ConsoleLabels]
  /\ panicked = "no"
  /\ buf \in [0..(BufLen - 1) -> Chars \cup {"nul"}]
  /\ read_index \in 0..(IndexMod - 1)
  /\ write_index \in 0..(IndexMod - 1)
  /\ locked \in BOOLEAN
  /\ len \in [Slots -> 1..MaxLen]
  /\ line \in [Slots -> Seq(Chars \cup {"nl", "nul"})]

(* No reader sleeps on a complete line: the test for an empty ring and the  *)
(* Sleep are one critical section, and a carriage return wakes every        *)
(* sleeper.                                                                 *)
NoSleeperOnLine ==
  \A p \in Slots : state[p] = "sleep" => \A i \in 1..Unread : Contents[i] # "cr"

\* A reader that was woken spins in Sleep's lk->Lock() with interrupts off:
\* nothing on this CPU will release the lock.
Hung == \E p \in Slots : Running(p) /\ pc[p] = "relock" /\ locked /\ ~ mie

(* A reader for whom a complete line is waiting returns, unless another     *)
(* reader gets the line, its carriage return is taken back, or the CPU      *)
(* hangs on the lock of Sleep, which the first of two readers woken by one  *)
(* carriage return takes and never gives back (scheduler.cc:84).            *)
LineDelivered ==
  \A p \in Slots :
    (pc[p] \in {"read_loop", "relock"} /\ \E i \in 1..Unread : Contents[i] = "cr")
    ~> (InUser(p) \/ (\A i \in 1..Unread : Contents[i] # "cr") \/ Hung)

Fifo == INSTANCE LineFifo WITH
  Readers <- Slots, Capacity <- BufLen, queue <- Contents

(* The ring buffer with its wrapping indices is a bounded FIFO.             *)
ImplementsFifo == Fifo!Spec
=============================================================================
