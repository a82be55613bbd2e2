------------------------------ MODULE Scheduler ------------------------------
(***************************************************************************)
(* The process table and the round-robin dispatcher of kernel/scheduler.cc *)
(* with the interrupt-enable bit that protects them.  The build has        *)
(* CPU_NUM = 1, so a CriticalGuard takes no lock: it turns mstatus.MIE off *)
(* and its destructor turns it on again if it was on.  Code that runs with *)
(* MIE off is therefore one step, and a step ends                          *)
(* where MIE is on again, in user mode, or at a Switch.                    *)
(*                                                                         *)
(* What a process does between two Switches is left to the modules that    *)
(* extend this one; pc is the place where it goes on.                      *)
(***************************************************************************)
EXTENDS Integers

CONSTANTS
  MaxProcessNum,   \* system_param::MAX_PROCESS_NUM
  None,            \* the null pointer
  SleepChannel,    \* GlobalChannel::sleep_channel()
  DriverChannels   \* the channels that device drivers and the console own

\* The entries of process_tasks_.
Slots == 1..MaxProcessNum

\* Channel::operator== compares the wrapped address, and the owned_channel of
\* a task wraps the task's own address: a slot stands for its owned channel.
Channels == Slots \cup {SleepChannel} \cup DriverChannels

ASSUME SchedulerAssumption ==
  /\ MaxProcessNum \in Nat \ {0}
  /\ SleepChannel \notin Slots
  /\ None \notin Channels

ProcessState == {"unused", "used", "sleep", "runnable", "running", "zombie"}

\* Where Switch(_, &task.saved_context) lands: in ExecuteRet for a task that
\* never ran, behind the Switch of a Yield that a user or a kernel trap called,
\* of a Sleep or of an Exit; "none" is a context that nothing will resume.
SavedContext == {"none", "ExecuteRet", "user_trap", "kernel_trap", "Sleep", "Exit"}

VARIABLES
  state,         \* task.state
  channel,       \* task.channel
  saved_context, \* task.saved_context
  is_intr_on,    \* is_intr_on_ of the guard in the frame that called Switch
  pc,            \* where the process is, or goes on when it is resumed
  process_task,  \* cpu_task_[0].process_task
  scan,          \* the slot Dispatch's loop is at
  lk_intr_on,    \* is_intr_on_ of Dispatch's guard lk
  mie,           \* mstatus.MIE
  panicked       \* why the CPU spins in panic, or "no"

schedVars == <<state, channel, saved_context, is_intr_on, pc, process_task,
               scan, lk_intr_on, mie, panicked>>

Alive == panicked = "no"

Running(p) == Alive /\ process_task = p

InUser(p) == pc[p] = "user"

\* RISC-V takes a machine interrupt in user mode whatever MIE says.
InterruptsEnabled ==
  /\ Alive
  /\ mie \/ (process_task # None /\ InUser(process_task))

\* The loop of Dispatch without its end.
NextSlotNoWrap(s) == s + 1

NextSlot(s) == IF s = MaxProcessNum THEN 1 ELSE s + 1

-----------------------------------------------------------------------------
(* The scheduler's operations, as parts of the actions that call them.     *)

\* A Wakeup that stops at the first task it finds.
SleepersFirst(ch) ==
  {s \in Slots : /\ state[s] = "sleep" /\ channel[s] = ch
                 /\ \A t \in 1..(s - 1) : state[t] # "sleep" \/ channel[t] # ch}

\* The tasks that Wakeup(ch) makes runnable.
Sleepers(ch) == {s \in Slots : state[s] = "sleep" /\ channel[s] = ch}

\* A Wakeup that leaves task.channel set.
WakeupKeepsChannel(ch) ==
  /\ state' = [s \in Slots |-> IF s \in Sleepers(ch) THEN "runnable" ELSE state[s]]
  /\ UNCHANGED channel

Wakeup(ch) ==
  /\ state' = [s \in Slots |-> IF s \in Sleepers(ch) THEN "runnable" ELSE state[s]]
  /\ channel' = [s \in Slots |-> IF s \in Sleepers(ch) THEN None ELSE channel[s]]

\* Switches back to a Dispatch with one statement missing: it forgets to clear
\* process_task, or it starts over at slot 1.
SwitchKeepsTask(p, context, intr_on) ==
  /\ saved_context' = [saved_context EXCEPT ![p] = context]
  /\ is_intr_on' = [is_intr_on EXCEPT ![p] = intr_on]
  /\ scan' = NextSlot(scan)
  /\ mie' = (lk_intr_on \/ scan = MaxProcessNum)
  /\ UNCHANGED <<process_task, lk_intr_on>>

SwitchStartsOver(p, context, intr_on) ==
  /\ saved_context' = [saved_context EXCEPT ![p] = context]
  /\ is_intr_on' = [is_intr_on EXCEPT ![p] = intr_on]
  /\ process_task' = None
  /\ scan' = 1
  /\ mie' = TRUE
  /\ UNCHANGED lk_intr_on

\* Switch(&p->saved_context, &cpu->saved_context) by code whose guard saved
\* intr_on: Dispatch clears process_task, its guard restores MIE, the loop goes
\* on with the next slot, and a new round turns MIE on.
SwitchToDispatch(p, context, intr_on) ==
  /\ saved_context' = [saved_context EXCEPT ![p] = context]
  /\ is_intr_on' = [is_intr_on EXCEPT ![p] = intr_on]
  /\ process_task' = None
  /\ scan' = NextSlot(scan)
  /\ mie' = (lk_intr_on \/ scan = MaxProcessNum)
  /\ UNCHANGED lk_intr_on

\* Sleep(ch): p goes on at label once it is woken and dispatched.  Its panic,
\* on a process_task that is null or not running, is excluded by
\* RunningIsCurrent: every caller is Running(p).
Sleep(p, ch, label) ==
  /\ state' = [state EXCEPT ![p] = "sleep"]
  /\ channel' = [channel EXCEPT ![p] = ch]
  /\ pc' = [pc EXCEPT ![p] = label]
  /\ SwitchToDispatch(p, "Sleep", mie)
  /\ UNCHANGED panicked

\* TrapRet at the end of a system call or an interrupt: back to user mode.
TrapRet(p) ==
  /\ pc' = [pc EXCEPT ![p] = "user"]
  /\ mie' = FALSE

\* p stays in the kernel, MIE as it is.
Goto(p, label) ==
  /\ pc' = [pc EXCEPT ![p] = label]
  /\ UNCHANGED mie

\* What a system call without a Switch leaves alone.
NoSwitch == UNCHANGED <<saved_context, is_intr_on, process_task, scan, lk_intr_on, panicked>>

-----------------------------------------------------------------------------
(* Dispatch                                                                *)

\* The guard of one turn of the loop: the slot is not runnable.
DispatchSkip ==
  /\ Alive
  /\ process_task = None
  /\ state[scan] # "runnable"
  /\ scan' = NextSlot(scan)
  /\ mie' = (mie \/ scan = MaxProcessNum)
  /\ UNCHANGED <<state, channel, saved_context, is_intr_on, pc, process_task,
                 lk_intr_on, panicked>>

\* A Sleep whose guard does not restore MIE.
ResumedMieOff(p) == saved_context[p] = "kernel_trap"

\* MIE when the resumed code has run up to the end of its critical section.
ResumedMie(p) ==
  CASE saved_context[p] = "kernel_trap" -> TRUE           \* mret with mpie set
    [] saved_context[p] = "Sleep"       -> is_intr_on[p]  \* ~CriticalGuard
    [] OTHER                            -> FALSE          \* TrapRet

\* What a running task's saved_context still holds is dead: Switch overwrites
\* it before anything reads it.
DispatchRun ==
  /\ Alive
  /\ process_task = None
  /\ state[scan] = "runnable"
  /\ process_task' = scan
  /\ state' = [state EXCEPT ![scan] = "running"]
  /\ saved_context' = [saved_context EXCEPT ![scan] = "none"]
  /\ is_intr_on' = [is_intr_on EXCEPT ![scan] = FALSE]
  /\ lk_intr_on' = mie
  /\ mie' = ResumedMie(scan)
  /\ UNCHANGED <<channel, pc, scan, panicked>>

Dispatch == DispatchSkip \/ DispatchRun

-----------------------------------------------------------------------------
(* The timer interrupt                                                     *)

\* In the idle loop: ClockInterrupt, then ProcessKernelTrap returns at once.
TimerIdle ==
  /\ InterruptsEnabled
  /\ process_task = None
  /\ Wakeup(SleepChannel)
  /\ UNCHANGED <<saved_context, is_intr_on, pc, process_task, scan, lk_intr_on,
                 mie, panicked>>

\* In a process: ClockInterrupt, then Yield.  The trap has turned MIE off, so
\* that is what Yield's guard saves.
TimerProcess(p) ==
  /\ InterruptsEnabled
  /\ process_task = p
  /\ state' = [s \in Slots |->
                 IF s = p \/ s \in Sleepers(SleepChannel) THEN "runnable" ELSE state[s]]
  /\ channel' = [s \in Slots |-> IF s \in Sleepers(SleepChannel) THEN None ELSE channel[s]]
  /\ SwitchToDispatch(p, IF InUser(p) THEN "user_trap" ELSE "kernel_trap", FALSE)
  /\ UNCHANGED <<pc, panicked>>

TimerInterrupt == TimerIdle \/ \E p \in Slots : TimerProcess(p)

\* panic: MIE off and `for (;;);'.
Panic(why) ==
  /\ panicked' = why
  /\ mie' = FALSE

Spin == ~Alive /\ UNCHANGED schedVars

-----------------------------------------------------------------------------
SchedTypeOK ==
  /\ state \in [Slots -> ProcessState]
  /\ channel \in [Slots -> Channels \cup {None}]
  /\ saved_context \in [Slots -> SavedContext]
  /\ is_intr_on \in [Slots -> BOOLEAN]
  /\ process_task \in Slots \cup {None}
  /\ scan \in Slots
  /\ lk_intr_on \in BOOLEAN
  /\ mie \in BOOLEAN

(* A task is running exactly while it is the CPU's process_task: Dispatch,  *)
(* Yield, Sleep and Exit hand the CPU over through two pieces of state.     *)
RunningIsCurrent ==
  Alive => \A s \in Slots : state[s] = "running" <=> process_task = s

(* A sleeping task waits on a channel and no other task holds one: Wakeup   *)
(* dereferences the channel of every sleeping task.                         *)
SleepHasChannel ==
  \A s \in Slots : state[s] = "sleep" <=> channel[s] # None
=============================================================================
