-------------------------- MODULE ProcessLifecycle --------------------------
(***************************************************************************)
(* Processes from fork to wait: sys_fork, sys_exit, sys_wait and sys_sleep *)
(* of kernel/syscalls/impl.cc on top of the scheduler, with the traps that *)
(* start them.  System calls run with interrupts on, so every statement    *)
(* that reads or writes the process table is a step of its own unless a    *)
(* CriticalGuard covers it; the timer may fire between any two.            *)
(*                                                                         *)
(* Slot 1 runs user/init.cc.  Page allocation is taken to succeed here.    *)
(***************************************************************************)
EXTENDS Scheduler, FiniteSets

CONSTANTS
  MaxPid,    \* bound on the pids that are handed out
  MaxSleep,  \* bound on the argument of sys_sleep, in ticks
  Calls      \* Calls[n]: what the program with pid n may do in user mode

\* What user code can do that the process table sees: a system call, a page
\* fault, or an exception ProcessException has no case for.
UserEvents == {"fork", "wait", "sleep", "exit", "page_fault", "illegal"}

InitSlot == 1
InitPid == 1

ASSUME LifecycleAssumption ==
  /\ MaxPid \in Nat \ {0}
  /\ MaxSleep \in Nat
  /\ Calls \in [2..MaxPid -> SUBSET UserEvents]
  /\ DriverChannels = {}

VARIABLES
  parent,     \* task.parent_process
  pid,        \* task.pid
  cur_pid,    \* cur_pid, the last pid handed out
  target,     \* sys_fork's dst_pro, or sys_wait's child
  idx,        \* the slot that AllocProc or FindFirslZombieChild looks at next
  has_child,  \* FindFirslZombieChild's has_child
  ticks_left, \* sys_sleep: sleep_time - (SystemTick() - current_tick)
  sh_pid      \* init.cc's sh_pid; 0 when init is about to fork

procVars == <<parent, pid, cur_pid, target, idx, has_child, ticks_left, sh_pid>>

vars == <<schedVars, procVars>>

Labels ==
  {"user", "AllocProc", "CopyFrom", "set_parent", "fork_return",
   "FindFirslZombieChild", "reap", "wait_sleep", "sleep_check", "sleep_sleep",
   "exit"}

-----------------------------------------------------------------------------
(* User mode and the traps out of it                                       *)

\* ProcessException on an ecall: interrupts on, then the system call.
Ecall(p, label) ==
  /\ Running(p)
  /\ InUser(p)
  /\ pc' = [pc EXCEPT ![p] = label]
  /\ mie' = TRUE
  /\ UNCHANGED <<state, channel, parent, pid, cur_pid, target, idx, has_child, sh_pid>>
  /\ NoSwitch

\* The system call returns: its locals are gone.
Return(p) ==
  /\ TrapRet(p)
  /\ target' = [target EXCEPT ![p] = None]
  /\ idx' = [idx EXCEPT ![p] = 1]
  /\ has_child' = [has_child EXCEPT ![p] = FALSE]

\* The bound MaxPid: a fork starts only if a pid is left for it.
PidLeft == cur_pid + Cardinality({p \in Slots : pc[p] = "AllocProc"}) < MaxPid

\* user/init.cc: fork the shell, then wait until the shell's pid comes back.
InitProgram ==
  \/ /\ sh_pid = 0
     /\ PidLeft
     /\ Ecall(InitSlot, "AllocProc")
     /\ UNCHANGED ticks_left
  \/ /\ sh_pid # 0
     /\ Ecall(InitSlot, "FindFirslZombieChild")
     /\ UNCHANGED ticks_left

May(p, event) ==
  Running(p) /\ InUser(p) /\ p # InitSlot /\ event \in Calls[pid[p]]

CallFork(p) ==
  /\ May(p, "fork")
  /\ PidLeft
  /\ Ecall(p, "AllocProc")
  /\ UNCHANGED ticks_left

CallWait(p) ==
  /\ May(p, "wait")
  /\ Ecall(p, "FindFirslZombieChild")
  /\ UNCHANGED ticks_left

CallSleep(p, sleep_time) ==
  /\ May(p, "sleep")
  /\ Ecall(p, "sleep_check")
  /\ ticks_left' = [ticks_left EXCEPT ![p] = sleep_time]

CallExit(p) ==
  /\ May(p, "exit")
  /\ Ecall(p, "exit")
  /\ UNCHANGED ticks_left

\* ProcessException's default case.
IllegalInstruction(p) ==
  /\ May(p, "illegal")
  /\ Panic("exception")
  /\ UNCHANGED <<state, channel, saved_context, is_intr_on, pc, process_task, scan,
                 lk_intr_on, procVars>>

-----------------------------------------------------------------------------
(* sys_fork                                                                *)

\* Initialisations of a task that do not claim it before the guard ends, or that
\* hand out the last pid again.
InitTaskUnclaimed(s) ==
  /\ saved_context' = [saved_context EXCEPT ![s] = "ExecuteRet"]
  /\ cur_pid' = cur_pid + 1
  /\ pid' = [pid EXCEPT ![s] = cur_pid + 1]
  /\ UNCHANGED state

InitTaskOldPid(s) ==
  /\ state' = [state EXCEPT ![s] = "used"]
  /\ saved_context' = [saved_context EXCEPT ![s] = "ExecuteRet"]
  /\ cur_pid' = cur_pid + 1
  /\ pid' = [pid EXCEPT ![s] = cur_pid]

\* ProcessTask::Init, AllocPid included, and task.state = used.
InitTask(s) ==
  /\ state' = [state EXCEPT ![s] = "used"]
  /\ saved_context' = [saved_context EXCEPT ![s] = "ExecuteRet"]
  /\ cur_pid' = cur_pid + 1
  /\ pid' = [pid EXCEPT ![s] = cur_pid + 1]

\* One turn of AllocProc's loop, in its guard.
AllocProc(p) ==
  /\ Running(p)
  /\ pc[p] = "AllocProc"
  /\ \/ /\ state[idx[p]] = "unused"
        /\ InitTask(idx[p])
        /\ pc' = [pc EXCEPT ![p] = "CopyFrom", ![idx[p]] = "user"]
        /\ target' = [target EXCEPT ![p] = idx[p]]
        /\ UNCHANGED <<mie, idx, has_child, sh_pid>>
     \/ /\ state[idx[p]] # "unused"
        /\ idx[p] < MaxProcessNum
        /\ idx' = [idx EXCEPT ![p] = @ + 1]
        /\ UNCHANGED <<state, saved_context, pc, mie, cur_pid, pid, target,
                       has_child, sh_pid>>
     \/ /\ state[idx[p]] # "unused"
        /\ idx[p] = MaxProcessNum
        /\ Return(p)
        /\ sh_pid' = IF p = InitSlot THEN -1 ELSE sh_pid
        /\ UNCHANGED <<state, saved_context, cur_pid, pid>>
  /\ UNCHANGED <<channel, is_intr_on, process_task, scan, lk_intr_on, panicked,
                 parent, ticks_left>>

\* CopyFrom fills pages only the new task has; then the task becomes runnable.
CopyFrom(p) ==
  /\ Running(p)
  /\ pc[p] = "CopyFrom"
  /\ state' = [state EXCEPT ![target[p]] = "runnable"]
  /\ Goto(p, "set_parent")
  /\ NoSwitch
  /\ UNCHANGED <<channel, procVars>>

SetParent(p) ==
  /\ Running(p)
  /\ pc[p] = "set_parent"
  /\ parent' = [parent EXCEPT ![target[p]] = p]
  /\ Goto(p, "fork_return")
  /\ NoSwitch
  /\ UNCHANGED <<state, channel, pid, cur_pid, target, idx, has_child, ticks_left, sh_pid>>

\* return dst_pro->pid
ForkReturn(p) ==
  /\ Running(p)
  /\ pc[p] = "fork_return"
  /\ Return(p)
  /\ sh_pid' = IF p = InitSlot THEN pid[target[p]] ELSE sh_pid
  /\ NoSwitch
  /\ UNCHANGED <<state, channel, parent, pid, cur_pid, ticks_left>>

-----------------------------------------------------------------------------
(* sys_wait                                                                *)

\* Loops that take any child, take any zombie, or end one slot early.
ChildInAnyState(p, s) == parent[s] = p
ZombieOfAnyone(p, s) == state[s] = "zombie"
ZombieChildButLast(p, s) == parent[s] = p /\ state[s] = "zombie" /\ s # MaxProcessNum

ZombieChild(p, s) == parent[s] = p /\ state[s] = "zombie"

\* A loop that claims a child for everyone.
HasChildAlways(p, s) == TRUE

HasChild(p, s) == has_child[p] \/ parent[s] = p

\* One turn of FindFirslZombieChild's loop, interrupts on; with the last slot
\* sys_wait's two tests of what it returns.
FindFirslZombieChild(p) ==
  LET s == idx[p]
      zombie_child == ZombieChild(p, s)
      any_child == HasChild(p, s)
      last == s = MaxProcessNum
  IN
  /\ Running(p)
  /\ pc[p] = "FindFirslZombieChild"
  /\ \/ /\ zombie_child
        /\ target' = [target EXCEPT ![p] = s]
        /\ Goto(p, "reap")
        /\ UNCHANGED <<idx, has_child, sh_pid>>
     \/ /\ ~ zombie_child /\ ~ last
        /\ idx' = [idx EXCEPT ![p] = s + 1]
        /\ has_child' = [has_child EXCEPT ![p] = any_child]
        /\ UNCHANGED <<pc, mie, target, sh_pid>>
     \/ /\ ~ zombie_child /\ last /\ any_child
        /\ Goto(p, "wait_sleep")
        /\ UNCHANGED <<target, idx, has_child, sh_pid>>
     \/ /\ ~ zombie_child /\ last /\ ~ any_child
        /\ Return(p)
        /\ sh_pid' = IF p = InitSlot /\ sh_pid = -1 THEN 0 ELSE sh_pid
  /\ NoSwitch
  /\ UNCHANGED <<state, channel, parent, pid, cur_pid, ticks_left>>

\* The guarded block of sys_wait: ResetProcess(child), return pid.
Reap(p) ==
  LET child == target[p] IN
  /\ Running(p)
  /\ pc[p] = "reap"
  /\ state' = [state EXCEPT ![child] = "unused"]
  /\ saved_context' = [saved_context EXCEPT ![child] = "none"]
  /\ parent' = [parent EXCEPT ![child] = None]
  /\ channel' = [channel EXCEPT ![child] = None]
  /\ pid' = [pid EXCEPT ![child] = 0]
  /\ sh_pid' = IF p = InitSlot /\ pid[child] = sh_pid THEN 0 ELSE sh_pid
  /\ Return(p)
  /\ UNCHANGED <<is_intr_on, process_task, scan, lk_intr_on, panicked,
                 cur_pid, ticks_left>>

\* Sleep(&process->owned_channel), then the next turn of sys_wait's loop.
WaitSleep(p) ==
  /\ Running(p)
  /\ pc[p] = "wait_sleep"
  /\ Sleep(p, p, "FindFirslZombieChild")
  /\ idx' = [idx EXCEPT ![p] = 1]
  /\ has_child' = [has_child EXCEPT ![p] = FALSE]
  /\ UNCHANGED <<parent, pid, cur_pid, target, ticks_left, sh_pid>>

-----------------------------------------------------------------------------
(* sys_sleep                                                               *)

SleepCheck(p) ==
  /\ Running(p)
  /\ pc[p] = "sleep_check"
  /\ \/ ticks_left[p] > 0 /\ Goto(p, "sleep_sleep")
     \/ ticks_left[p] = 0 /\ TrapRet(p)
  /\ NoSwitch
  /\ UNCHANGED <<state, channel, procVars>>

SleepSleep(p) ==
  /\ Running(p)
  /\ pc[p] = "sleep_sleep"
  /\ Sleep(p, SleepChannel, "sleep_check")
  /\ UNCHANGED procVars

-----------------------------------------------------------------------------
(* Exit                                                                    *)

\* Exits that forget the children, or those among them that are zombies.
KeepsChildren(p) == parent
AdoptsTheLiving(p) ==
  [s \in Slots |-> IF parent[s] = p /\ state[s] # "zombie" THEN InitSlot ELSE parent[s]]

\* Exit's loop: init adopts the children of p.
Adopted(p) == [s \in Slots |-> IF parent[s] = p THEN InitSlot ELSE parent[s]]

\* Wakeup dereferences the channel argument once for every sleeping task; for
\* a null parent that is a load from an unmapped address.
Exit(p) ==
  LET woken == Sleepers(parent[p])
      fault == parent[p] = None /\ \E s \in Slots : state[s] = "sleep"
  IN
  /\ parent' = Adopted(p)
  /\ state' = [s \in Slots |->
                 IF s = p THEN "zombie"
                 ELSE IF s \in woken THEN "runnable" ELSE state[s]]
  /\ channel' = [s \in Slots |-> IF s \in woken THEN None ELSE channel[s]]
  /\ \/ /\ ~ fault
        /\ SwitchToDispatch(p, "Exit", mie)
        /\ UNCHANGED panicked
     \/ /\ fault
        /\ Panic("kernel_exception")
        /\ UNCHANGED <<saved_context, is_intr_on, process_task, scan, lk_intr_on>>
  /\ UNCHANGED <<pc, pid, cur_pid, target, idx, has_child, ticks_left, sh_pid>>

SysExit(p) == Running(p) /\ pc[p] = "exit" /\ Exit(p)

\* A load or store page fault: Exit(-1), without turning interrupts on first.
PageFault(p) == May(p, "page_fault") /\ Exit(p)

-----------------------------------------------------------------------------
DispatchStep == Dispatch /\ UNCHANGED procVars

\* ClockInterrupt adds a tick: every sys_sleep in progress has one less to go.
ClockInterrupt ==
  /\ TimerInterrupt
  /\ ticks_left' = [s \in Slots |-> IF ticks_left[s] > 0 THEN ticks_left[s] - 1 ELSE 0]
  /\ UNCHANGED <<parent, pid, cur_pid, target, idx, has_child, sh_pid>>

SysFork(p) == AllocProc(p) \/ CopyFrom(p) \/ SetParent(p) \/ ForkReturn(p)

SysWait(p) == FindFirslZombieChild(p) \/ Reap(p) \/ WaitSleep(p)

SysSleep(p) == SleepCheck(p) \/ SleepSleep(p)

KernelStep(p) == SysFork(p) \/ SysWait(p) \/ SysSleep(p) \/ SysExit(p)

UserStep(p) ==
  \/ CallFork(p) \/ CallWait(p) \/ CallExit(p)
  \/ \E sleep_time \in 0..MaxSleep : CallSleep(p, sleep_time)
  \/ PageFault(p) \/ IllegalInstruction(p)

\* start.cc: ExcuteInitProcess has made slot 1 runnable, Dispatch starts.
Init ==
  /\ state = [s \in Slots |-> IF s = InitSlot THEN "runnable" ELSE "unused"]
  /\ channel = [s \in Slots |-> None]
  /\ saved_context = [s \in Slots |-> IF s = InitSlot THEN "ExecuteRet" ELSE "none"]
  /\ is_intr_on = [s \in Slots |-> FALSE]
  /\ pc = [s \in Slots |-> "user"]
  /\ process_task = None
  /\ scan = 1
  /\ lk_intr_on = TRUE
  /\ mie = TRUE
  /\ panicked = "no"
  /\ parent = [s \in Slots |-> None]
  /\ pid = [s \in Slots |-> IF s = InitSlot THEN InitPid ELSE 0]
  /\ cur_pid = InitPid
  /\ target = [s \in Slots |-> None]
  /\ idx = [s \in Slots |-> 1]
  /\ has_child = [s \in Slots |-> FALSE]
  /\ ticks_left = [s \in Slots |-> 0]
  /\ sh_pid = 0

Next ==
  \/ DispatchStep
  \/ ClockInterrupt
  \/ InitProgram
  \/ \E p \in Slots : UserStep(p) \/ KernelStep(p)
  \/ Spin /\ UNCHANGED procVars

Spec == Init /\ [][Next]_vars

(* The dispatcher's loop and the timer, which re-arms itself, never stop.   *)
(* A quantum of TIMER_INTERVAL is far longer than a step of a system call,  *)
(* so a process that is dispatched again and again makes progress, and      *)
(* init.cc never stays in user mode.  Other user programs may loop forever. *)
Fairness ==
  /\ WF_vars(DispatchStep)
  /\ WF_vars(ClockInterrupt)
  /\ \A p \in Slots : SF_vars(KernelStep(p))
  /\ SF_vars(InitProgram)

FairSpec == Spec /\ Fairness

-----------------------------------------------------------------------------
(* Every variable has its type. *)
TypeOK ==
  /\ SchedTypeOK
  /\ pc \in [Slots -> Labels]
  /\ panicked \in {"no", "exception", "kernel_exception"}
  /\ parent \in [Slots -> Slots \cup {None}]
  /\ pid \in [Slots -> Nat]
  /\ cur_pid \in Nat
  /\ target \in [Slots -> Slots \cup {None}]
  /\ idx \in [Slots -> Slots]
  /\ has_child \in [Slots -> BOOLEAN]
  /\ ticks_left \in [Slots -> Nat]
  /\ sh_pid \in Nat \cup {-1}

(* Guards that are open across a Switch never leave the CPU deaf: whenever  *)
(* the kernel can be interrupted MIE is on, and in user mode it is off, as  *)
(* ProcessUserTrap checks.                                                  *)
InterruptDiscipline ==
  Alive => (mie <=> ~ (process_task # None /\ InUser(process_task)))

\* A process that runs, or will run again without anyone's fork.
Live(s) == state[s] \in {"runnable", "running", "sleep"}

(* The parent that sys_wait and Exit rely on is always a live process:      *)
(* Exit hands every child over to init before the slot can be reaped and    *)
(* given to another process.                                                *)
ParentIsLive ==
  \A s \in Slots : parent[s] # None => Live(parent[s]) /\ (Live(s) \/ state[s] = "zombie")

(* Only init and a child between sys_fork's `state = runnable' and          *)
(* `parent_process = src_pro' have no parent.                               *)
NoParentOnlyInForkWindow ==
  \A s \in Slots \ {InitSlot} :
    (Live(s) \/ state[s] = "zombie") /\ parent[s] = None =>
      \E p \in Slots : pc[p] = "set_parent" /\ target[p] = s

(* The zombie that FindFirslZombieChild found with interrupts on is still   *)
(* that zombie child when sys_wait resets it.                               *)
ReapTarget ==
  \A p \in Slots : pc[p] = "reap" =>
    /\ target[p] \in Slots \ {InitSlot}
    /\ state[target[p]] = "zombie"
    /\ parent[target[p]] = p

(* While sys_fork works on the slot it allocated, with interrupts on, no    *)
(* other fork has that slot, nobody frees it, and the pid it returns is the *)
(* child's.                                                                 *)
ForkTarget ==
  \A p \in Slots :
    /\ pc[p] = "CopyFrom" => state[target[p]] = "used"
    /\ pc[p] \in {"CopyFrom", "set_parent", "fork_return"} =>
         /\ pid[target[p]] # 0
         /\ parent[target[p]] = IF pc[p] = "fork_return" THEN p ELSE None
         /\ \A q \in Slots \ {p} :
              pc[q] \in {"CopyFrom", "set_parent", "fork_return"} => target[q] # target[p]

(* No two processes have the same pid. *)
PidUnique ==
  \A s, t \in Slots : s # t /\ pid[s] # 0 => pid[s] # pid[t]

(* A process sleeps in sys_wait only while it has a child, living or        *)
(* zombie: without one sys_wait returns -1 (impl.cc:269), and nobody takes  *)
(* the last child of a sleeper away.                                        *)
WaiterHasChild ==
  \A p \in Slots : state[p] = "sleep" /\ channel[p] = p => \E c \in Slots : parent[c] = p

\* The life of a slot, from AllocProc to ResetProcess.
Transitions ==
  {<<"unused", "used">>, <<"used", "runnable">>, <<"runnable", "running">>,
   <<"running", "runnable">>, <<"running", "sleep">>, <<"running", "zombie">>,
   <<"sleep", "runnable">>, <<"zombie", "unused">>}

LifeCycleStep ==
  \A s \in Slots : state'[s] # state[s] => <<state[s], state'[s]>> \in Transitions

(* A slot goes from state to state only along its life cycle: nothing that  *)
(* a call decided on an old state is applied to a slot that has moved on.   *)
LifeCycle == [][LifeCycleStep]_vars

(* Round robin: no runnable process waits for the CPU forever. *)
RunnableRuns ==
  \A s \in Slots : state[s] = "runnable" ~> (state[s] = "running" \/ ~Alive)

(* sys_sleep returns, although it tests the clock with interrupts on and    *)
(* may go to sleep after the tick it waits for: the next tick wakes it.     *)
SleepReturns ==
  \A p \in Slots : pc[p] \in {"sleep_check", "sleep_sleep"} ~> (InUser(p) \/ ~Alive)

(* A sys_wait that starts its scan when a zombie child is there returns.    *)
WaitFindsZombie ==
  \A p \in Slots :
    (/\ pc[p] = "FindFirslZombieChild" /\ idx[p] = 1 /\ state[p] # "sleep"
     /\ \E c \in Slots : parent[c] = p /\ state[c] = "zombie")
    ~> (InUser(p) \/ ~Alive)

(* When the shell exits, the wait of init.cc returns its pid, and init      *)
(* starts a new one.                                                        *)
ShellReaped ==
  \A s \in Slots :
    (state[s] = "zombie" /\ parent[s] = InitSlot /\ sh_pid > 0 /\ pid[s] = sh_pid)
    ~> (state[s] # "zombie" \/ ~Alive)

(* Nothing makes the kernel itself fault. *)
NoKernelException == panicked # "kernel_exception"

(* The wait of init.cc returns every parentless process that exits.         *)
OrphanReaped ==
  \A s \in Slots :
    (state[s] = "zombie" /\ parent[s] = InitSlot /\ sh_pid > 0 /\ pid[s] # sh_pid)
    ~> (state[s] # "zombie" \/ ~Alive)

-----------------------------------------------------------------------------
(* The process tree that the table stands for.  A child is its forker's     *)
(* from the moment it is runnable: in the window before sys_fork stores     *)
(* parent_process the forker is known from its local dst_pro.               *)
ForkerOf(s) == {p \in Slots : pc[p] = "set_parent" /\ target[p] = s}

TreeParent(s) == IF ForkerOf(s) # {} THEN CHOOSE p \in ForkerOf(s) : TRUE ELSE parent[s]

Tree == INSTANCE ProcessTree WITH
  Procs <- Slots, Root <- InitSlot, NoProc <- None,
  live <- {s \in Slots : Live(s)},
  zombie <- {s \in Slots : state[s] = "zombie"},
  parentOf <- [s \in Slots |-> TreeParent(s)]

(* With all their interleavings fork, exit and wait change the process tree *)
(* as if each were one step.                                                *)
ImplementsTree == Tree!Spec

(* The tree invariant, seen through the table.                              *)
TreeWellFormed == Tree!WellFormed
=============================================================================
