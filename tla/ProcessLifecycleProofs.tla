----------------------- MODULE ProcessLifecycleProofs -----------------------
(***************************************************************************)
(* Proofs about ProcessLifecycle for every size of the process table, any  *)
(* number of pids and any user programs.                                   *)
(*                                                                         *)
(* None of the safety invariants is inductive alone: what one call may do  *)
(* to a slot depends on what every other call, stopped between two of its  *)
(* statements, has already decided about that slot.  IInv adds those       *)
(* decisions, the locals of the calls in progress, to the table.           *)
(***************************************************************************)
EXTENDS ProcessLifecycle, TLAPS

ForkLabels == {"CopyFrom", "set_parent", "fork_return"}
WaitLabels == {"FindFirslZombieChild", "reap", "wait_sleep"}

\* init.cc never exits, nobody exits for it, and it has no parent.
InitIsLive == Live(InitSlot) /\ pc[InitSlot] # "exit" /\ parent[InitSlot] = None

\* Only a live process is inside a system call other than exit.
KernelIsLive == \A p \in Slots : pc[p] \notin {"user", "exit"} => Live(p)

\* sys_fork's dst_pro is another slot than p's or init's, claimed, and runnable once it is copied.
ForkLocals ==
  \A p \in Slots : pc[p] \in ForkLabels =>
    /\ target[p] \in Slots \ {p, InitSlot}
    /\ state[target[p]] # "unused"
    /\ pc[p] = "CopyFrom" <=> state[target[p]] = "used"

\* Where a slot that Dispatch may run goes on is what MIE must be there.
ContextMatches ==
  \A s \in Slots :
    /\ state[s] = "used" => saved_context[s] = "ExecuteRet" /\ pc[s] = "user"
    /\ state[s] = "sleep" => saved_context[s] = "Sleep" /\ is_intr_on[s] /\ pc[s] # "user"
    /\ state[s] = "runnable" =>
         \/ saved_context[s] \in {"ExecuteRet", "user_trap"} /\ pc[s] = "user"
         \/ saved_context[s] = "kernel_trap" /\ pc[s] # "user"
         \/ saved_context[s] = "Sleep" /\ is_intr_on[s] /\ pc[s] # "user"

\* What FindFirslZombieChild has counted is still there.
WaitLocals ==
  \A p \in Slots : has_child[p] \/ pc[p] = "wait_sleep" =>
    /\ pc[p] \in WaitLabels
    /\ \E c \in Slots : parent[c] = p

\* Pids are handed out in increasing order.
PidBound == \A s \in Slots : pid[s] <= cur_pid

IInv ==
  /\ TypeOK
  /\ RunningIsCurrent
  /\ SleepHasChannel
  /\ InterruptDiscipline /\ lk_intr_on = TRUE
  /\ ContextMatches
  /\ InitIsLive
  /\ KernelIsLive
  /\ ForkLocals
  /\ ForkTarget
  /\ ReapTarget
  /\ ParentIsLive
  /\ NoParentOnlyInForkWindow
  /\ WaitLocals
  /\ WaiterHasChild
  /\ PidBound /\ PidUnique

-----------------------------------------------------------------------------
(* Where the constants lie: the table has a first slot, init's; None and the *)
(* sleep channel are no slots; Dispatch's loop stays inside the table.      *)
LEMMA SlotFacts ==
  /\ 1 \in Slots
  /\ InitSlot \in Slots
  /\ None \notin Slots
  /\ Slots \subseteq Channels
  /\ SleepChannel \in Channels
  /\ SleepChannel \notin Slots
  /\ None # SleepChannel
  /\ \A s \in Slots : NextSlot(s) \in Slots
  /\ Slots \subseteq Nat
BY SchedulerAssumption DEF Slots, Channels, InitSlot, NextSlot

(* The initial state of start.cc satisfies the inductive invariant. *)
LEMMA InitInductive == Init => IInv
<1> SUFFICES ASSUME Init PROVE IInv
  OBVIOUS
<1> USE SlotFacts DEF Init
<1>1. TypeOK
  BY DEF TypeOK, SchedTypeOK, ProcessState, SavedContext, Labels, InitPid, InitSlot
<1>2. RunningIsCurrent /\ SleepHasChannel /\ InterruptDiscipline
  BY DEF RunningIsCurrent, SleepHasChannel, InterruptDiscipline
<1>3. ContextMatches /\ InitIsLive /\ KernelIsLive
  BY DEF ContextMatches, InitIsLive, KernelIsLive, Live
<1>4. ForkLocals /\ ForkTarget /\ ReapTarget
  BY DEF ForkLocals, ForkTarget, ReapTarget, ForkLabels
<1>5. ParentIsLive /\ NoParentOnlyInForkWindow
  BY DEF ParentIsLive, NoParentOnlyInForkWindow, Live
<1>6. WaitLocals /\ WaiterHasChild
  BY DEF WaitLocals, WaiterHasChild
<1>7. PidBound /\ PidUnique
  BY DEF PidBound, PidUnique, InitPid
<1> QED
  BY <1>1, <1>2, <1>3, <1>4, <1>5, <1>6, <1>7 DEF IInv

(* A trap into the kernel moves the running process and nothing else.       *)
LEMMA EcallInductive ==
  ASSUME IInv, NEW p \in Slots,
         NEW label \in {"AllocProc", "FindFirslZombieChild", "sleep_check", "exit"},
         Ecall(p, label), label = "exit" => p # InitSlot,
         ticks_left' \in [Slots -> Nat]
  PROVE  IInv'
<1> USE SlotFacts DEF Ecall, Running, Alive, NoSwitch
<1>1. TypeOK'
  BY DEF IInv, TypeOK, SchedTypeOK, Labels
<1>2. state[p] = "running" /\ pc[p] = "user" /\ process_task = p
  BY DEF IInv, RunningIsCurrent, InUser
<1>3. RunningIsCurrent' /\ SleepHasChannel'
  BY DEF IInv, RunningIsCurrent, SleepHasChannel
<1>4. InterruptDiscipline' /\ (lk_intr_on = TRUE)'
  BY <1>2 DEF IInv, TypeOK, InterruptDiscipline, InUser
<1>5. ContextMatches'
  BY <1>2 DEF IInv, TypeOK, ContextMatches
<1>6. InitIsLive' /\ KernelIsLive'
  BY <1>2 DEF IInv, TypeOK, InitIsLive, KernelIsLive, Live
<1>7. ForkLocals' /\ ForkTarget'
  BY <1>2 DEF IInv, TypeOK, ForkLocals, ForkTarget, ForkLabels
<1>8. ReapTarget'
  BY <1>2 DEF IInv, TypeOK, ReapTarget
<1>9. ParentIsLive' /\ NoParentOnlyInForkWindow'
  BY <1>2 DEF IInv, TypeOK, ParentIsLive, NoParentOnlyInForkWindow, Live
<1>10. WaitLocals' /\ WaiterHasChild'
  BY <1>2 DEF IInv, TypeOK, WaitLocals, WaiterHasChild, WaitLabels
<1>11. PidBound' /\ PidUnique'
  BY DEF IInv, PidBound, PidUnique
<1> QED
  BY <1>1, <1>3, <1>4, <1>5, <1>6, <1>7, <1>8, <1>9, <1>10, <1>11 DEF IInv

(* A system call that returns drops its locals and changes no other slot.   *)
LEMMA ReturnInductive ==
  ASSUME IInv, NEW p \in Slots, Running(p), ~ InUser(p), pc[p] # "set_parent",
         TrapRet(p), TypeOK',
         has_child' = [has_child EXCEPT ![p] = FALSE],
         \A q \in Slots \ {p} : target'[q] = target[q],
         UNCHANGED <<state, channel, saved_context, is_intr_on, process_task, scan,
                     lk_intr_on, panicked, parent, pid, cur_pid>>
  PROVE  IInv'
<1> USE SlotFacts DEF TrapRet, Running, Alive, InUser
<1>2. state[p] = "running" /\ process_task = p /\ pc[p] # "user"
  BY DEF IInv, RunningIsCurrent
<1>3. RunningIsCurrent' /\ SleepHasChannel'
  BY DEF IInv, RunningIsCurrent, SleepHasChannel
<1>4. InterruptDiscipline' /\ (lk_intr_on = TRUE)'
  BY <1>2 DEF IInv, TypeOK, InterruptDiscipline
<1>5. ContextMatches'
  BY <1>2 DEF IInv, TypeOK, ContextMatches
<1>6. InitIsLive' /\ KernelIsLive'
  BY <1>2 DEF IInv, TypeOK, InitIsLive, KernelIsLive, Live
<1>7. ForkLocals' /\ ForkTarget'
  BY <1>2 DEF IInv, TypeOK, ForkLocals, ForkTarget, ForkLabels
<1>8. ReapTarget'
  BY <1>2 DEF IInv, TypeOK, ReapTarget
<1>9. ParentIsLive'
  BY <1>2 DEF IInv, ParentIsLive, Live
<1>12. \A q \in Slots : pc[q] = "set_parent" => pc'[q] = "set_parent" /\ target'[q] = target[q]
  BY <1>2 DEF IInv, TypeOK
<1>13. NoParentOnlyInForkWindow'
  BY <1>12 DEF IInv, NoParentOnlyInForkWindow, Live
<1>10. WaitLocals' /\ WaiterHasChild'
  BY <1>2 DEF IInv, TypeOK, WaitLocals, WaiterHasChild, WaitLabels
<1>11. PidBound' /\ PidUnique'
  BY DEF IInv, PidBound, PidUnique
<1> QED
  BY <1>13, <1>3, <1>4, <1>5, <1>6, <1>7, <1>8, <1>9, <1>10, <1>11 DEF IInv

(* One turn of AllocProc's loop. *)
LEMMA AllocProcInductive ==
  ASSUME IInv, NEW p \in Slots, AllocProc(p)
  PROVE  IInv'
<1> USE SlotFacts DEF AllocProc, Running, Alive
<1>0. state[p] = "running" /\ process_task = p /\ pc[p] = "AllocProc" /\ idx[p] \in Slots
  BY DEF IInv, RunningIsCurrent, TypeOK
<1>1. CASE state[idx[p]] = "unused"
  <2> DEFINE c == idx[p]
  <2> USE <1>1 DEF InitTask
  <2>1. TypeOK'
    BY <1>0 DEF IInv, TypeOK, SchedTypeOK, Labels, ProcessState, SavedContext
  <2>2. c \in Slots \ {p} /\ parent[c] = None /\ pc[c] \in {"user", "exit"} /\ c # InitSlot
    BY <1>0 DEF IInv, TypeOK, SchedTypeOK, ParentIsLive, KernelIsLive, InitIsLive, Live, Labels
  <2>3. /\ state' = [state EXCEPT ![c] = "used"]
        /\ pc' = [pc EXCEPT ![p] = "CopyFrom", ![c] = "user"]
        /\ saved_context' = [saved_context EXCEPT ![c] = "ExecuteRet"]
        /\ cur_pid' = cur_pid + 1
        /\ pid' = [pid EXCEPT ![c] = cur_pid + 1]
        /\ target' = [target EXCEPT ![p] = c]
        /\ UNCHANGED <<channel, is_intr_on, process_task, scan, lk_intr_on, panicked,
                       parent, ticks_left, mie, idx, has_child, sh_pid>>
    BY <1>0
  <2> HIDE DEF c, AllocProc, InitTask
  <2>4. RunningIsCurrent' /\ SleepHasChannel'
    BY <1>0, <1>1, <2>2, <2>3 DEF IInv, TypeOK, SchedTypeOK, RunningIsCurrent, SleepHasChannel, c
  <2>5. InterruptDiscipline' /\ (lk_intr_on = TRUE)'
    BY <1>0, <2>2, <2>3 DEF IInv, TypeOK, InterruptDiscipline, InUser
  <2>6. ContextMatches'
    BY <1>0, <2>2, <2>3 DEF IInv, TypeOK, SchedTypeOK, ContextMatches
  <2>7. InitIsLive' /\ KernelIsLive'
    BY <1>0, <2>2, <2>3 DEF IInv, TypeOK, SchedTypeOK, InitIsLive, KernelIsLive, Live
  <2>8. ForkLocals'
    BY <1>0, <1>1, <2>2, <2>3 DEF IInv, TypeOK, SchedTypeOK, ForkLocals, ForkLabels, c
  <2>9. ForkTarget'
    BY <1>0, <1>1, <2>2, <2>3 DEF IInv, TypeOK, SchedTypeOK, ForkLocals, ForkTarget, ForkLabels, c
  <2>10. ReapTarget'
    BY <1>0, <1>1, <2>2, <2>3 DEF IInv, TypeOK, SchedTypeOK, ReapTarget, c
  <2>11. ParentIsLive' /\ NoParentOnlyInForkWindow'
    BY <1>0, <1>1, <2>2, <2>3
    DEF IInv, TypeOK, SchedTypeOK, ParentIsLive, NoParentOnlyInForkWindow, Live, c
  <2>12. WaitLocals' /\ WaiterHasChild'
    BY <1>0, <1>1, <2>2, <2>3
    DEF IInv, TypeOK, SchedTypeOK, WaitLocals, WaiterHasChild, WaitLabels, c
  <2>13. PidBound' /\ PidUnique'
    BY <2>2, <2>3 DEF IInv, TypeOK, PidBound, PidUnique
  <2> QED
    BY <2>1, <2>4, <2>5, <2>6, <2>7, <2>8, <2>9, <2>10, <2>11, <2>12, <2>13 DEF IInv
<1>2. CASE state[idx[p]] # "unused" /\ idx[p] < MaxProcessNum
  <2>0. idx[p] + 1 \in Slots
    BY <1>0, <1>2, SchedulerAssumption DEF Slots
  <2>1. /\ idx' = [idx EXCEPT ![p] = idx[p] + 1]
        /\ UNCHANGED <<state, channel, saved_context, is_intr_on, pc, process_task, scan,
                       lk_intr_on, mie, panicked, parent, pid, cur_pid, target,
                       has_child, ticks_left, sh_pid>>
    BY <1>0, <1>2, SchedulerAssumption DEF Slots
  <2>2. TypeOK'
    BY <2>0, <2>1 DEF IInv, TypeOK, SchedTypeOK
  <2> QED
    BY <2>1, <2>2 DEF IInv, RunningIsCurrent, SleepHasChannel, InterruptDiscipline, InUser,
       ContextMatches, InitIsLive, KernelIsLive, Live, ForkLocals, ForkTarget, ReapTarget,
       ParentIsLive, NoParentOnlyInForkWindow, WaitLocals, WaiterHasChild, PidBound, PidUnique
<1>3. CASE state[idx[p]] # "unused" /\ idx[p] = MaxProcessNum
  <2>1. /\ Return(p)
        /\ UNCHANGED <<state, channel, saved_context, is_intr_on, process_task, scan,
                       lk_intr_on, panicked, parent, pid, cur_pid, ticks_left>>
        /\ sh_pid' \in {-1, sh_pid}
    BY <1>0, <1>3, SchedulerAssumption DEF Slots
  <2>2. TypeOK'
    BY <2>1, <1>0 DEF IInv, TypeOK, SchedTypeOK, Return, TrapRet, Labels
  <2> QED
    BY <1>0, <2>1, <2>2, ReturnInductive DEF Return, InUser, IInv, TypeOK
<1> QED
  BY <1>0, <1>1, <1>2, <1>3, SchedulerAssumption DEF Slots

(* CopyFrom: the claimed slot becomes runnable. *)
LEMMA CopyFromInductive ==
  ASSUME IInv, NEW p \in Slots, CopyFrom(p)
  PROVE  IInv'
<1> DEFINE c == target[p]
<1> USE SlotFacts DEF CopyFrom, Running, Alive, Goto, NoSwitch, procVars
<1>1. /\ state[p] = "running" /\ process_task = p /\ pc[p] = "CopyFrom"
      /\ c \in Slots \ {p} /\ state[c] = "used" /\ pc[c] = "user" /\ c # InitSlot
      /\ parent[c] = None
  BY DEF IInv, RunningIsCurrent, ForkLocals, ForkLabels, ContextMatches, InitIsLive, Live,
         ForkTarget
<1>2. TypeOK'
  BY DEF IInv, TypeOK, SchedTypeOK, Labels, ProcessState
<1>3. RunningIsCurrent' /\ SleepHasChannel'
  BY <1>1 DEF IInv, TypeOK, SchedTypeOK, RunningIsCurrent, SleepHasChannel
<1>4. InterruptDiscipline' /\ (lk_intr_on = TRUE)'
  BY <1>1 DEF IInv, TypeOK, InterruptDiscipline, InUser
<1>5. ContextMatches'
  BY <1>1 DEF IInv, TypeOK, SchedTypeOK, ContextMatches
<1>6. InitIsLive' /\ KernelIsLive'
  BY <1>1 DEF IInv, TypeOK, SchedTypeOK, InitIsLive, KernelIsLive, Live
<1>7. ForkLocals' /\ ForkTarget'
  BY <1>1 DEF IInv, TypeOK, SchedTypeOK, ForkLocals, ForkTarget, ForkLabels
<1>8. ReapTarget'
  BY <1>1 DEF IInv, TypeOK, SchedTypeOK, ReapTarget
<1>9. ParentIsLive' /\ NoParentOnlyInForkWindow'
  BY <1>1 DEF IInv, TypeOK, SchedTypeOK, ParentIsLive, NoParentOnlyInForkWindow, Live
<1>10. WaitLocals' /\ WaiterHasChild'
  BY <1>1 DEF IInv, TypeOK, SchedTypeOK, WaitLocals, WaiterHasChild, WaitLabels
<1>11. PidBound' /\ PidUnique'
  BY DEF IInv, PidBound, PidUnique
<1> QED
  BY <1>2, <1>3, <1>4, <1>5, <1>6, <1>7, <1>8, <1>9, <1>10, <1>11 DEF IInv

(* dst_pro->parent_process = src_pro: nobody else can have adopted the child.*)
LEMMA SetParentInductive ==
  ASSUME IInv, NEW p \in Slots, SetParent(p)
  PROVE  IInv'
<1> DEFINE c == target[p]
<1> USE SlotFacts DEF SetParent, Running, Alive, Goto, NoSwitch
<1>1. /\ state[p] = "running" /\ process_task = p /\ pc[p] = "set_parent"
      /\ c \in Slots \ {p, InitSlot} /\ state[c] \notin {"used", "unused"}
      /\ parent[c] = None
  BY DEF IInv, RunningIsCurrent, ForkLocals, ForkLabels, ForkTarget
<1>2. TypeOK'
  BY DEF IInv, TypeOK, SchedTypeOK, Labels
<1>3. RunningIsCurrent' /\ SleepHasChannel'
  BY <1>1 DEF IInv, RunningIsCurrent, SleepHasChannel
<1>4. InterruptDiscipline' /\ (lk_intr_on = TRUE)'
  BY <1>1 DEF IInv, TypeOK, InterruptDiscipline, InUser
<1>5. ContextMatches'
  BY <1>1 DEF IInv, TypeOK, SchedTypeOK, ContextMatches
<1>6. InitIsLive' /\ KernelIsLive'
  BY <1>1 DEF IInv, TypeOK, InitIsLive, KernelIsLive, Live
<1>7. ForkLocals' /\ ForkTarget'
  BY <1>1 DEF IInv, TypeOK, ForkLocals, ForkTarget, ForkLabels
<1>8. ReapTarget'
  BY <1>1 DEF IInv, TypeOK, ReapTarget
<1>9. ParentIsLive' /\ NoParentOnlyInForkWindow'
  BY <1>1 DEF IInv, TypeOK, SchedTypeOK, ProcessState, ParentIsLive,
              NoParentOnlyInForkWindow, Live
<1>10. WaitLocals' /\ WaiterHasChild'
  BY <1>1 DEF IInv, TypeOK, WaitLocals, WaiterHasChild, WaitLabels
<1>11. PidBound' /\ PidUnique'
  BY DEF IInv, PidBound, PidUnique
<1> QED
  BY <1>2, <1>3, <1>4, <1>5, <1>6, <1>7, <1>8, <1>9, <1>10, <1>11 DEF IInv

(* return dst_pro->pid *)
LEMMA ForkReturnInductive ==
  ASSUME IInv, NEW p \in Slots, ForkReturn(p)
  PROVE  IInv'
<1>1. target[p] \in Slots
  BY DEF IInv, ForkReturn, ForkLocals, ForkLabels
<1>2. TypeOK'
  BY <1>1, SlotFacts
  DEF IInv, TypeOK, SchedTypeOK, ForkReturn, Return, TrapRet, NoSwitch, Labels
<1> QED
  BY <1>2, ReturnInductive DEF ForkReturn, Return, NoSwitch, InUser, IInv, TypeOK

(* One turn of FindFirslZombieChild's loop, or its end. *)
LEMMA FindInductive ==
  ASSUME IInv, NEW p \in Slots, FindFirslZombieChild(p)
  PROVE  IInv'
<1> DEFINE s == idx[p]
<1> USE SlotFacts DEF Running, Alive, NoSwitch
<1>0. /\ state[p] = "running" /\ process_task = p /\ pc[p] = "FindFirslZombieChild"
      /\ s \in Slots
      /\ UNCHANGED <<state, channel, saved_context, is_intr_on, process_task, scan,
                     lk_intr_on, panicked, parent, pid, cur_pid, ticks_left>>
  BY DEF IInv, RunningIsCurrent, TypeOK, FindFirslZombieChild
\* p moves inside the kernel, to a label of sys_wait.
<1>1. ASSUME TypeOK', ReapTarget', (has_child[p] \/ pc[p] = "wait_sleep")' => \E c \in Slots : parent[c] = p,
             pc'[p] \in WaitLabels, pc' = [pc EXCEPT ![p] = pc'[p]], UNCHANGED mie,
             \A q \in Slots \ {p} : has_child'[q] = has_child[q] /\ target'[q] = target[q]
      PROVE  IInv'
  <2>1. RunningIsCurrent' /\ SleepHasChannel'
    BY <1>0, <1>1 DEF IInv, RunningIsCurrent, SleepHasChannel
  <2>2. InterruptDiscipline' /\ (lk_intr_on = TRUE)'
    BY <1>0, <1>1 DEF IInv, TypeOK, InterruptDiscipline, InUser, WaitLabels
  <2>3. ContextMatches'
    BY <1>0, <1>1 DEF IInv, TypeOK, ContextMatches
  <2>4. InitIsLive' /\ KernelIsLive'
    BY <1>0, <1>1 DEF IInv, TypeOK, InitIsLive, KernelIsLive, Live, WaitLabels
  <2>5. \A q \in Slots : pc'[q] \in ForkLabels \/ pc[q] \in ForkLabels =>
          pc'[q] = pc[q] /\ target'[q] = target[q]
    BY <1>0, <1>1 DEF IInv, TypeOK, ForkLabels, WaitLabels
  <2>6. ForkLocals' /\ ForkTarget'
    BY <1>0, <2>5 DEF IInv, ForkLocals, ForkTarget, ForkLabels
  <2>7. ParentIsLive' /\ NoParentOnlyInForkWindow'
    BY <1>0, <2>5 DEF IInv, ParentIsLive, NoParentOnlyInForkWindow, Live, ForkLabels
  <2>8. WaitLocals' /\ WaiterHasChild'
    BY <1>0, <1>1 DEF IInv, TypeOK, WaitLocals, WaiterHasChild
  <2>9. PidBound' /\ PidUnique'
    BY <1>0 DEF IInv, PidBound, PidUnique
  <2> QED
    BY <1>1, <2>1, <2>2, <2>3, <2>4, <2>6, <2>7, <2>8, <2>9 DEF IInv
<1>2. CASE ZombieChild(p, s)
  <2>1. /\ target' = [target EXCEPT ![p] = s]
        /\ pc' = [pc EXCEPT ![p] = "reap"]
        /\ UNCHANGED <<mie, idx, has_child, sh_pid>>
    BY <1>2 DEF FindFirslZombieChild, Goto
  <2>2. TypeOK'
    BY <1>0, <2>1 DEF IInv, TypeOK, SchedTypeOK, Labels
  <2>3. ReapTarget'
    BY <1>0, <1>2, <2>1 DEF IInv, TypeOK, ReapTarget, ZombieChild, InitIsLive, Live
  <2> QED
    BY <1>0, <1>1, <1>2, <2>1, <2>2, <2>3 DEF IInv, TypeOK, WaitLabels, ZombieChild
<1>3. CASE ~ ZombieChild(p, s) /\ s # MaxProcessNum
  <2>1. /\ idx' = [idx EXCEPT ![p] = s + 1]
        /\ has_child' = [has_child EXCEPT ![p] = HasChild(p, s)]
        /\ UNCHANGED <<pc, mie, target, sh_pid>>
    BY <1>3 DEF FindFirslZombieChild
  <2>2. s + 1 \in Slots
    BY <1>0, <1>3, SchedulerAssumption DEF Slots
  <2>3. TypeOK'
    BY <1>0, <2>1, <2>2 DEF IInv, TypeOK, SchedTypeOK, HasChild
  <2>4. ReapTarget'
    BY <1>0, <2>1 DEF IInv, ReapTarget
  <2>5. HasChild(p, s) => \E c \in Slots : parent[c] = p
    BY <1>0 DEF IInv, WaitLocals, HasChild
  <2> QED
    BY <1>0, <1>1, <2>1, <2>3, <2>4, <2>5 DEF IInv, TypeOK, WaitLabels
<1>4. CASE ~ ZombieChild(p, s) /\ s = MaxProcessNum /\ HasChild(p, s)
  <2>1. /\ pc' = [pc EXCEPT ![p] = "wait_sleep"]
        /\ UNCHANGED <<mie, idx, has_child, target, sh_pid>>
    BY <1>4 DEF FindFirslZombieChild, Goto
  <2>2. TypeOK'
    BY <1>0, <2>1 DEF IInv, TypeOK, SchedTypeOK, Labels
  <2>3. ReapTarget'
    BY <1>0, <2>1 DEF IInv, TypeOK, ReapTarget
  <2>4. \E c \in Slots : parent[c] = p
    BY <1>0, <1>4 DEF IInv, WaitLocals, HasChild
  <2> QED
    BY <1>0, <1>1, <2>1, <2>2, <2>3, <2>4 DEF IInv, TypeOK, WaitLabels
<1>5. CASE ~ ZombieChild(p, s) /\ s = MaxProcessNum /\ ~ HasChild(p, s)
  <2>1. Return(p) /\ sh_pid' \in Nat \cup {-1}
    BY <1>5 DEF FindFirslZombieChild, IInv, TypeOK
  <2>2. TypeOK'
    BY <1>0, <2>1 DEF IInv, TypeOK, SchedTypeOK, Return, TrapRet, Labels
  <2> QED
    BY <1>0, <2>1, <2>2, ReturnInductive DEF Return, InUser, IInv, TypeOK, FindFirslZombieChild
<1> QED
  BY <1>2, <1>3, <1>4, <1>5

(* ResetProcess(child): the zombie is p's own, so nobody else is looking at it.*)
LEMMA ReapInductive ==
  ASSUME IInv, NEW p \in Slots, Reap(p)
  PROVE  IInv'
<1> DEFINE c == target[p]
<1> USE SlotFacts DEF Running, Alive
<1>0. /\ state[p] = "running" /\ process_task = p /\ pc[p] = "reap"
      /\ c \in Slots \ {InitSlot} /\ state[c] = "zombie" /\ parent[c] = p
  BY DEF IInv, Reap, RunningIsCurrent, ReapTarget
<1>1. /\ state[p] = "running" /\ process_task = p /\ pc[p] = "reap"
      /\ c \in Slots \ {InitSlot, p} /\ state[c] = "zombie" /\ parent[c] = p
      /\ pc[c] \in {"user", "exit"} /\ channel[c] = None
      /\ \A s \in Slots : parent[s] # c
  <2>1. c # p /\ channel[c] = None
    BY <1>0 DEF IInv, SleepHasChannel
  <2>2. pc[c] \in {"user", "exit"}
    BY <1>0 DEF IInv, KernelIsLive, Live
  <2>3. \A s \in Slots : parent[s] # c
    BY <1>0 DEF IInv, ParentIsLive, Live
  <2> QED
    BY <1>0, <2>1, <2>2, <2>3
<1>2. /\ state' = [state EXCEPT ![c] = "unused"]
      /\ saved_context' = [saved_context EXCEPT ![c] = "none"]
      /\ parent' = [parent EXCEPT ![c] = None]
      /\ channel' = [channel EXCEPT ![c] = None]
      /\ pid' = [pid EXCEPT ![c] = 0]
      /\ pc' = [pc EXCEPT ![p] = "user"]
      /\ mie' = FALSE
      /\ target' = [target EXCEPT ![p] = None]
      /\ idx' = [idx EXCEPT ![p] = 1]
      /\ has_child' = [has_child EXCEPT ![p] = FALSE]
      /\ sh_pid' \in Nat \cup {-1}
      /\ UNCHANGED <<is_intr_on, process_task, scan, lk_intr_on, panicked, cur_pid,
                     ticks_left>>
  BY DEF IInv, TypeOK, Reap, Return, TrapRet
<1> HIDE DEF c
<1>3. TypeOK'
  BY <1>1, <1>2 DEF IInv, TypeOK, SchedTypeOK, Labels, ProcessState, SavedContext
<1>4. RunningIsCurrent' /\ SleepHasChannel'
  BY <1>1, <1>2 DEF IInv, TypeOK, SchedTypeOK, RunningIsCurrent, SleepHasChannel
<1>5. InterruptDiscipline' /\ (lk_intr_on = TRUE)'
  BY <1>1, <1>2 DEF IInv, TypeOK, InterruptDiscipline, InUser
<1>6. ContextMatches'
  BY <1>1, <1>2 DEF IInv, TypeOK, SchedTypeOK, ContextMatches
<1>7. InitIsLive' /\ KernelIsLive'
  BY <1>1, <1>2 DEF IInv, TypeOK, SchedTypeOK, InitIsLive, KernelIsLive, Live
<1>8. \A q \in Slots : pc'[q] \in ForkLabels \cup {"reap"} =>
        /\ q # p /\ pc[q] = pc'[q] /\ target'[q] = target[q]
        /\ target[q] \in Slots \ {c}
  BY <1>1, <1>2 DEF IInv, TypeOK, ForkLocals, ForkTarget, ReapTarget, ForkLabels
<1>9. ForkLocals'
  BY <1>2, <1>8 DEF IInv, TypeOK, SchedTypeOK, ForkLocals, ForkLabels
<1>10. ForkTarget'
  BY <1>2, <1>8 DEF IInv, TypeOK, SchedTypeOK, ForkTarget, ForkLabels
<1>11. ReapTarget'
  BY <1>2, <1>8 DEF IInv, TypeOK, SchedTypeOK, ReapTarget
<1>12. ParentIsLive'
  BY <1>1, <1>2 DEF IInv, TypeOK, SchedTypeOK, ParentIsLive, Live
<1>13. NoParentOnlyInForkWindow'
  BY <1>1, <1>2 DEF IInv, TypeOK, SchedTypeOK, NoParentOnlyInForkWindow, Live
<1>14. WaitLocals' /\ WaiterHasChild'
  BY <1>1, <1>2 DEF IInv, TypeOK, SchedTypeOK, WaitLocals, WaiterHasChild
<1>15. PidBound' /\ PidUnique'
  BY <1>1, <1>2 DEF IInv, TypeOK, PidBound, PidUnique
<1> QED
  BY <1>3, <1>4, <1>5, <1>6, <1>7, <1>9, <1>10, <1>11, <1>12, <1>13, <1>14, <1>15 DEF IInv

(* Sleep, from sys_wait or sys_sleep: the guard it leaves open across the     *)
(* Switch has saved that interrupts were on.                                  *)
LEMMA SleepInductive ==
  ASSUME IInv, NEW p \in Slots, Running(p), pc[p] \in {"wait_sleep", "sleep_sleep"},
         NEW ch \in {p, SleepChannel}, ch = p => pc[p] = "wait_sleep",
         NEW label \in {"FindFirslZombieChild", "sleep_check"},
         Sleep(p, ch, label), TypeOK',
         has_child' = [has_child EXCEPT ![p] = FALSE],
         UNCHANGED <<parent, pid, cur_pid, target>>
  PROVE  IInv'
<1> USE SlotFacts DEF Running, Alive
<1>1. state[p] = "running" /\ process_task = p /\ mie = TRUE /\ lk_intr_on = TRUE
  BY DEF IInv, TypeOK, SchedTypeOK, RunningIsCurrent, InterruptDiscipline, InUser
<1>2. /\ state' = [state EXCEPT ![p] = "sleep"]
      /\ channel' = [channel EXCEPT ![p] = ch]
      /\ pc' = [pc EXCEPT ![p] = label]
      /\ saved_context' = [saved_context EXCEPT ![p] = "Sleep"]
      /\ is_intr_on' = [is_intr_on EXCEPT ![p] = TRUE]
      /\ process_task' = None
      /\ mie' = TRUE
      /\ UNCHANGED <<lk_intr_on, panicked>>
  BY <1>1 DEF Sleep, SwitchToDispatch
<1>3. RunningIsCurrent' /\ SleepHasChannel'
  BY <1>1, <1>2 DEF IInv, TypeOK, SchedTypeOK, RunningIsCurrent, SleepHasChannel
<1>4. InterruptDiscipline' /\ (lk_intr_on = TRUE)'
  BY <1>1, <1>2 DEF InterruptDiscipline
<1>5. ContextMatches'
  BY <1>2 DEF IInv, TypeOK, SchedTypeOK, ContextMatches
<1>6. InitIsLive' /\ KernelIsLive'
  BY <1>2 DEF IInv, TypeOK, SchedTypeOK, InitIsLive, KernelIsLive, Live
<1>7. ForkLocals' /\ ForkTarget'
  BY <1>1, <1>2 DEF IInv, TypeOK, SchedTypeOK, ForkLocals, ForkTarget, ForkLabels
<1>8. ReapTarget'
  BY <1>1, <1>2 DEF IInv, TypeOK, SchedTypeOK, ReapTarget
<1>9. ParentIsLive' /\ NoParentOnlyInForkWindow'
  BY <1>1, <1>2 DEF IInv, TypeOK, SchedTypeOK, ParentIsLive, NoParentOnlyInForkWindow, Live
<1>10. WaitLocals' /\ WaiterHasChild'
  BY <1>1, <1>2 DEF IInv, TypeOK, SchedTypeOK, WaitLocals, WaiterHasChild, WaitLabels
<1>11. PidBound' /\ PidUnique'
  BY DEF IInv, PidBound, PidUnique
<1> QED
  BY <1>3, <1>4, <1>5, <1>6, <1>7, <1>8, <1>9, <1>10, <1>11 DEF IInv

(* Exit: init adopts the children, the parent is woken, the CPU is given up; *)
(* or, for a child whose parent is not stored yet, the kernel faults.        *)
LEMMA ExitInductive ==
  ASSUME IInv, NEW p \in Slots \ {InitSlot}, Running(p), pc[p] \in {"user", "exit"}, Exit(p)
  PROVE  IInv'
<1> DEFINE woken == Sleepers(parent[p])
<1> USE SlotFacts DEF Running, Alive
<1>1. /\ state[p] = "running" /\ process_task = p /\ lk_intr_on = TRUE
      /\ channel[p] = None /\ has_child[p] = FALSE
  BY DEF IInv, TypeOK, SchedTypeOK, RunningIsCurrent, SleepHasChannel, WaitLocals, WaitLabels
<1>2. /\ parent' = [s \in Slots |-> IF parent[s] = p THEN InitSlot ELSE parent[s]]
      /\ state' = [s \in Slots |->
                     IF s = p THEN "zombie"
                     ELSE IF s \in woken THEN "runnable" ELSE state[s]]
      /\ channel' = [s \in Slots |-> IF s \in woken THEN None ELSE channel[s]]
      /\ UNCHANGED <<pc, pid, cur_pid, target, idx, has_child, ticks_left, sh_pid, lk_intr_on>>
      /\ \A s \in Slots \ {p} : /\ saved_context'[s] = saved_context[s]
                                /\ is_intr_on'[s] = is_intr_on[s]
      /\ \/ process_task' = None /\ mie' = TRUE /\ panicked' = "no"
         \/ panicked' = "kernel_exception"
  BY <1>1 DEF Exit, Adopted, SwitchToDispatch, Panic, IInv, TypeOK, SchedTypeOK
<1>3. \A s \in Slots : s \in woken <=> state[s] = "sleep" /\ channel[s] = parent[p]
  BY DEF Sleepers
<1>4. TypeOK'
  <2>1. saved_context' \in [Slots -> SavedContext]
    BY DEF Exit, SwitchToDispatch, IInv, TypeOK, SchedTypeOK, SavedContext
  <2>5. process_task' \in {None, p} /\ scan' \in {scan, NextSlot(scan)}
    BY <1>1 DEF Exit, SwitchToDispatch
  <2>7. process_task' \in Slots \cup {None} /\ scan' \in Slots
    BY <2>5 DEF IInv, TypeOK, SchedTypeOK
  <2>6. panicked' \in {"no", "exception", "kernel_exception"}
    BY <1>2
  <2>3. is_intr_on' \in [Slots -> BOOLEAN]
    BY DEF Exit, SwitchToDispatch, IInv, TypeOK, SchedTypeOK
  <2>4. mie' \in BOOLEAN
    BY DEF Exit, SwitchToDispatch, Panic
  <2>2. /\ state' \in [Slots -> ProcessState]
        /\ channel' \in [Slots -> Channels \cup {None}]
        /\ parent' \in [Slots -> Slots \cup {None}]
    BY <1>2 DEF IInv, TypeOK, SchedTypeOK, ProcessState
  <2> QED
    BY <1>2, <2>1, <2>2, <2>3, <2>4, <2>6, <2>7 DEF IInv, TypeOK, SchedTypeOK
<1> HIDE DEF woken
<1>5. RunningIsCurrent' /\ SleepHasChannel'
  BY <1>1, <1>2, <1>3 DEF IInv, TypeOK, SchedTypeOK, RunningIsCurrent, SleepHasChannel
<1>6. InterruptDiscipline' /\ (lk_intr_on = TRUE)'
  BY <1>1, <1>2 DEF InterruptDiscipline
<1>7. ContextMatches'
  BY <1>1, <1>2, <1>3 DEF IInv, TypeOK, SchedTypeOK, ContextMatches
<1>8. InitIsLive' /\ KernelIsLive'
  BY <1>1, <1>2, <1>3 DEF IInv, TypeOK, SchedTypeOK, InitIsLive, KernelIsLive, Live
<1>9. ForkLocals'
  BY <1>1, <1>2, <1>3 DEF IInv, TypeOK, SchedTypeOK, ForkLocals, ForkLabels
<1>10. ForkTarget'
  <2>1. ASSUME NEW q \in Slots, pc[q] \in ForkLabels
        PROVE  /\ target[q] \in Slots
               /\ parent'[target[q]] = parent[target[q]]
               /\ state[target[q]] = "used" => state'[target[q]] = "used"
    <3>1. q # p /\ target[q] \in Slots
      BY <2>1 DEF IInv, ForkLocals, ForkLabels
    <3>2. parent[target[q]] # p
      BY <2>1, <3>1 DEF IInv, ForkTarget, ForkLabels
    <3> QED
      BY <1>1, <1>2, <1>3, <3>1, <3>2
  <2> QED
    BY <1>2, <2>1 DEF IInv, ForkTarget, ForkLabels
<1>11. ReapTarget'
  BY <1>1, <1>2, <1>3 DEF IInv, TypeOK, SchedTypeOK, ReapTarget
<1>12. ParentIsLive'
  BY <1>1, <1>2, <1>3 DEF IInv, TypeOK, SchedTypeOK, ParentIsLive, InitIsLive, Live
<1>13. NoParentOnlyInForkWindow'
  BY <1>1, <1>2, <1>3 DEF IInv, TypeOK, SchedTypeOK, NoParentOnlyInForkWindow, Live
<1>14. WaitLocals' /\ WaiterHasChild'
  BY <1>1, <1>2, <1>3 DEF IInv, TypeOK, SchedTypeOK, WaitLocals, WaiterHasChild, WaitLabels
<1>15. PidBound' /\ PidUnique'
  BY <1>2 DEF IInv, PidBound, PidUnique
<1> QED
  BY <1>4, <1>5, <1>6, <1>7, <1>8, <1>9, <1>10, <1>11, <1>12, <1>13, <1>14, <1>15 DEF IInv

(* The dispatcher resumes a runnable slot where its context says. *)
LEMMA DispatchInductive ==
  ASSUME IInv, DispatchStep
  PROVE  IInv'
<1> USE SlotFacts DEF DispatchStep, Dispatch, procVars, Alive
<1>0. scan \in Slots /\ process_task = None /\ mie = TRUE /\ panicked = "no"
  BY DEF IInv, TypeOK, SchedTypeOK, InterruptDiscipline, DispatchSkip, DispatchRun
<1>1. CASE DispatchSkip
  <2>1. /\ mie' = TRUE
        /\ UNCHANGED <<state, channel, saved_context, is_intr_on, pc, process_task,
                       lk_intr_on, panicked, procVars>>
    BY <1>0, <1>1 DEF DispatchSkip
  <2>2. TypeOK'
    BY <1>0, <1>1, <2>1 DEF DispatchSkip, IInv, TypeOK, SchedTypeOK
  <2> QED
    BY <1>0, <2>1, <2>2 DEF IInv, RunningIsCurrent, SleepHasChannel, InterruptDiscipline,
       ContextMatches, InitIsLive, KernelIsLive, Live, ForkLocals, ForkTarget, ReapTarget,
       ParentIsLive, NoParentOnlyInForkWindow, WaitLocals, WaiterHasChild, PidBound, PidUnique
<1>2. CASE DispatchRun
  <2>0. /\ state[scan] = "runnable"
        /\ state' = [state EXCEPT ![scan] = "running"]
        /\ saved_context' = [saved_context EXCEPT ![scan] = "none"]
        /\ is_intr_on' = [is_intr_on EXCEPT ![scan] = FALSE]
        /\ process_task' = scan
        /\ lk_intr_on' = TRUE
        /\ UNCHANGED <<channel, pc, scan, panicked, procVars>>
    BY <1>0, <1>2 DEF DispatchRun
  <2>1. mie' \in BOOLEAN /\ (mie' <=> pc[scan] # "user")
    BY <1>0, <1>2 DEF DispatchRun, ResumedMie, IInv, ContextMatches
  <2>2. TypeOK'
    BY <1>0, <2>0, <2>1 DEF IInv, TypeOK, SchedTypeOK, ProcessState, SavedContext
  <2>3. RunningIsCurrent' /\ SleepHasChannel'
    BY <1>0, <2>0 DEF IInv, TypeOK, SchedTypeOK, RunningIsCurrent, SleepHasChannel
  <2>4. InterruptDiscipline' /\ (lk_intr_on = TRUE)'
    BY <1>0, <2>0, <2>1 DEF InterruptDiscipline, InUser
  <2>5. ContextMatches'
    BY <1>0, <2>0 DEF IInv, TypeOK, SchedTypeOK, ContextMatches
  <2>6. InitIsLive' /\ KernelIsLive'
    BY <1>0, <2>0 DEF IInv, TypeOK, SchedTypeOK, InitIsLive, KernelIsLive, Live
  <2>7. ForkLocals' /\ ForkTarget'
    BY <1>0, <2>0 DEF IInv, TypeOK, SchedTypeOK, ForkLocals, ForkTarget, ForkLabels
  <2>8. ReapTarget'
    BY <1>0, <2>0 DEF IInv, TypeOK, SchedTypeOK, ReapTarget
  <2>9. ParentIsLive' /\ NoParentOnlyInForkWindow'
    BY <1>0, <2>0 DEF IInv, TypeOK, SchedTypeOK, ParentIsLive, NoParentOnlyInForkWindow, Live
  <2>10. WaitLocals' /\ WaiterHasChild'
    BY <1>0, <2>0 DEF IInv, TypeOK, SchedTypeOK, WaitLocals, WaiterHasChild
  <2>11. PidBound' /\ PidUnique'
    BY <2>0 DEF IInv, PidBound, PidUnique
  <2> QED
    BY <2>2, <2>3, <2>4, <2>5, <2>6, <2>7, <2>8, <2>9, <2>10, <2>11 DEF IInv
<1> QED
  BY <1>1, <1>2

(* The timer wakes the sleepers and, in a process, takes the CPU from it.    *)
LEMMA ClockInductive ==
  ASSUME IInv, ClockInterrupt
  PROVE  IInv'
<1> DEFINE woken == Sleepers(SleepChannel)
<1> USE SlotFacts
<1>0. /\ Alive /\ lk_intr_on = TRUE
      /\ UNCHANGED <<pc, panicked, lk_intr_on, parent, pid, cur_pid, target, idx,
                     has_child, sh_pid>>
      /\ ticks_left' \in [Slots -> Nat]
  <2>1. ticks_left' \in [Slots -> Nat]
    BY DEF ClockInterrupt, IInv, TypeOK
  <2>2. /\ Alive
        /\ UNCHANGED <<pc, panicked, lk_intr_on, parent, pid, cur_pid, target, idx,
                       has_child, sh_pid>>
    BY DEF ClockInterrupt, TimerInterrupt, TimerIdle, TimerProcess, InterruptsEnabled,
           SwitchToDispatch
  <2> QED
    BY <2>1, <2>2 DEF IInv
<1>1. \A s \in Slots : s \in woken <=> state[s] = "sleep" /\ channel[s] = SleepChannel
  BY DEF Sleepers
\* What the two cases have in common: some sleepers, and possibly the running
\* process q, become runnable.
<1>2. ASSUME NEW R \in SUBSET Slots, TypeOK',
             \A s \in R : \/ state[s] = "sleep"
                          \/ state[s] = "running" /\ saved_context'[s] =
                               (IF pc[s] = "user" THEN "user_trap" ELSE "kernel_trap"),
             state' = [s \in Slots |-> IF s \in R THEN "runnable" ELSE state[s]],
             \A s \in Slots : channel'[s] = IF s \in R THEN None ELSE channel[s],
             \A s \in Slots : state[s] # "running" =>
               saved_context'[s] = saved_context[s] /\ is_intr_on'[s] = is_intr_on[s]
      PROVE  /\ SleepHasChannel' /\ ContextMatches' /\ InitIsLive' /\ KernelIsLive'
             /\ ForkLocals' /\ ForkTarget' /\ ReapTarget' /\ ParentIsLive'
             /\ NoParentOnlyInForkWindow' /\ WaitLocals' /\ WaiterHasChild'
             /\ PidBound' /\ PidUnique'
  <2> USE <1>0, <1>2
  <2>1. SleepHasChannel'
    BY DEF IInv, TypeOK, SchedTypeOK, SleepHasChannel
  <2>2. ContextMatches'
    BY DEF IInv, TypeOK, SchedTypeOK, ContextMatches
  <2>3. InitIsLive' /\ KernelIsLive'
    BY DEF IInv, TypeOK, SchedTypeOK, InitIsLive, KernelIsLive, Live
  <2>4. \A s \in Slots :
          state[s] \in {"unused", "used", "zombie"} \/ state'[s] \in {"unused", "used", "zombie"}
            => state'[s] = state[s]
    OBVIOUS
  <2>5. \A s \in Slots : Live(s)' <=> Live(s)
    BY DEF Live, IInv, TypeOK, SchedTypeOK
  <2>6. ForkLocals' /\ ForkTarget'
    <3>1. ForkLocals'
      BY <2>4 DEF IInv, ForkLocals, ForkLabels
    <3>2. \A q \in Slots : pc[q] \in ForkLabels =>
            target[q] \in Slots /\ (pc[q] = "CopyFrom" => state'[target[q]] = "used")
      BY <2>4 DEF IInv, ForkLocals, ForkLabels
    <3>3. ForkTarget'
      BY <3>2 DEF IInv, ForkTarget, ForkLabels
    <3> QED
      BY <3>1, <3>3
  <2>7. ReapTarget'
    BY <2>4 DEF IInv, ReapTarget
  <2>8. ParentIsLive'
    BY <2>4, <2>5 DEF IInv, TypeOK, ParentIsLive
  <2>9. NoParentOnlyInForkWindow'
    BY <2>4, <2>5 DEF IInv, NoParentOnlyInForkWindow
  <2>10. WaitLocals' /\ WaiterHasChild'
    BY DEF IInv, TypeOK, SchedTypeOK, WaitLocals, WaiterHasChild
  <2>11. PidBound' /\ PidUnique'
    BY DEF IInv, PidBound, PidUnique
  <2> QED
    BY <2>1, <2>2, <2>3, <2>6, <2>7, <2>8, <2>9, <2>10, <2>11
<1>3. CASE TimerIdle
  <2>1. /\ process_task = None /\ mie = TRUE
        /\ state' = [s \in Slots |-> IF s \in woken THEN "runnable" ELSE state[s]]
        /\ channel' = [s \in Slots |-> IF s \in woken THEN None ELSE channel[s]]
        /\ UNCHANGED <<saved_context, is_intr_on, process_task, scan, mie>>
    BY <1>3 DEF TimerIdle, Wakeup, InterruptsEnabled
  <2>2. TypeOK'
    BY <1>0, <2>1 DEF IInv, TypeOK, SchedTypeOK, ProcessState
  <2>3. RunningIsCurrent' /\ InterruptDiscipline'
    BY <1>0, <1>1, <2>1 DEF IInv, RunningIsCurrent, InterruptDiscipline, Alive
  <2>4. woken \in SUBSET Slots
    BY DEF Sleepers
  <2> HIDE DEF woken
  <2> QED
    BY <1>0, <1>1, <1>2, <2>1, <2>2, <2>3, <2>4 DEF IInv
<1>4. ASSUME NEW p \in Slots, TimerProcess(p)
      PROVE  IInv'
  <2>1. process_task = p /\ state[p] = "running" /\ channel[p] = None
    BY <1>0, <1>4 DEF TimerProcess, IInv, RunningIsCurrent, SleepHasChannel
  <2>2. /\ state' = [s \in Slots |-> IF s \in woken \cup {p} THEN "runnable" ELSE state[s]]
        /\ channel' = [s \in Slots |-> IF s \in woken THEN None ELSE channel[s]]
        /\ saved_context' = [saved_context EXCEPT ![p] =
                               IF pc[p] = "user" THEN "user_trap" ELSE "kernel_trap"]
        /\ is_intr_on' = [is_intr_on EXCEPT ![p] = FALSE]
        /\ process_task' = None
        /\ scan' = NextSlot(scan)
        /\ mie' = TRUE
    BY <1>0, <1>4 DEF TimerProcess, SwitchToDispatch, InUser
  <2>3. TypeOK'
    BY <1>0, <2>2 DEF IInv, TypeOK, SchedTypeOK, ProcessState, SavedContext
  <2>4. RunningIsCurrent' /\ InterruptDiscipline'
    BY <1>0, <1>1, <2>1, <2>2 DEF IInv, RunningIsCurrent, InterruptDiscipline, Alive
  <2>5. woken \in SUBSET Slots
    BY DEF Sleepers
  <2> HIDE DEF woken
  <2>6. \A s \in Slots : channel'[s] = IF s \in woken \cup {p} THEN None ELSE channel[s]
    BY <2>1, <2>2
  <2>7. \A s \in Slots : state[s] # "running" =>
          saved_context'[s] = saved_context[s] /\ is_intr_on'[s] = is_intr_on[s]
    BY <2>1, <2>2 DEF IInv, TypeOK, SchedTypeOK
  <2>8. saved_context'[p] = IF pc[p] = "user" THEN "user_trap" ELSE "kernel_trap"
    BY <2>2 DEF IInv, TypeOK, SchedTypeOK
  <2> DEFINE R == woken \cup {p}
  <2>9. /\ R \in SUBSET Slots
        /\ \A s \in R : \/ state[s] = "sleep"
                        \/ state[s] = "running" /\ saved_context'[s] =
                             (IF pc[s] = "user" THEN "user_trap" ELSE "kernel_trap")
    BY <1>1, <2>1, <2>5, <2>8
  <2> QED
    BY <1>0, <1>2, <2>2, <2>3, <2>4, <2>6, <2>7, <2>9 DEF IInv
<1> QED
  BY <1>3, <1>4 DEF ClockInterrupt, TimerInterrupt

(* The slots and the calls in progress are all that IInv speaks of, except   *)
(* for the CPU: a step that stops the machine, or that does nothing, keeps it.*)
LEMMA HaltInductive ==
  ASSUME IInv, TypeOK', Alive' => Alive /\ UNCHANGED <<process_task, mie>>,
         UNCHANGED <<state, channel, saved_context, is_intr_on, pc, process_task, scan,
                     lk_intr_on, procVars>>
  PROVE  IInv'
<1> USE DEF procVars
<1>1. RunningIsCurrent' /\ SleepHasChannel' /\ InterruptDiscipline' /\ (lk_intr_on = TRUE)'
  BY DEF IInv, RunningIsCurrent, SleepHasChannel, InterruptDiscipline, InUser
<1>2. ContextMatches' /\ InitIsLive' /\ KernelIsLive'
  BY DEF IInv, ContextMatches, InitIsLive, KernelIsLive, Live
<1>3. ForkLocals' /\ ForkTarget' /\ ReapTarget'
  BY DEF IInv, ForkLocals, ForkTarget, ReapTarget
<1>4. ParentIsLive' /\ NoParentOnlyInForkWindow'
  BY DEF IInv, ParentIsLive, NoParentOnlyInForkWindow, Live
<1>5. WaitLocals' /\ WaiterHasChild' /\ PidBound' /\ PidUnique'
  BY DEF IInv, WaitLocals, WaiterHasChild, PidBound, PidUnique
<1> QED
  BY <1>1, <1>2, <1>3, <1>4, <1>5 DEF IInv

(* A system call of user code, of init.cc or of any other program. *)
LEMMA UserInductive ==
  ASSUME IInv,
         InitProgram \/ \E p \in Slots : UserStep(p)
  PROVE  IInv'
<1> USE SlotFacts
<1>1. CASE InitProgram
  BY <1>1, EcallInductive DEF InitProgram, IInv, TypeOK
<1>2. ASSUME NEW p \in Slots, UserStep(p)
      PROVE  IInv'
  <2>1. CASE CallFork(p) \/ CallWait(p) \/ CallExit(p)
    BY <2>1, EcallInductive DEF CallFork, CallWait, CallExit, May, IInv, TypeOK
  <2>2. ASSUME NEW sleep_time \in 0..MaxSleep, CallSleep(p, sleep_time)
        PROVE  IInv'
    <3>1. ticks_left' \in [Slots -> Nat]
      BY <2>2, LifecycleAssumption DEF CallSleep, IInv, TypeOK
    <3> QED
      BY <2>2, <3>1, EcallInductive DEF CallSleep
  <2>3. CASE PageFault(p)
    BY <2>3, ExitInductive DEF PageFault, May, InUser
  <2>4. CASE IllegalInstruction(p)
    <3>1. TypeOK'
      BY <2>4 DEF IllegalInstruction, Panic, procVars, IInv, TypeOK, SchedTypeOK
    <3> QED
      BY <2>4, <3>1, HaltInductive DEF IllegalInstruction, Panic, Alive
  <2> QED
    BY <1>2, <2>1, <2>2, <2>3, <2>4 DEF UserStep
<1> QED
  BY <1>1, <1>2

(* sys_wait gives up the CPU on its own channel. *)
LEMMA WaitSleepInductive ==
  ASSUME IInv, NEW p \in Slots, WaitSleep(p)
  PROVE  IInv'
<1>1. TypeOK'
  BY SlotFacts DEF WaitSleep, Sleep, SwitchToDispatch, IInv, TypeOK, SchedTypeOK, Labels,
     ProcessState, SavedContext
<1> QED
  BY <1>1, SleepInductive DEF WaitSleep

(* sys_sleep tests the clock and gives up the CPU on the sleep channel. *)
LEMMA SysSleepInductive ==
  ASSUME IInv, NEW p \in Slots, SysSleep(p)
  PROVE  IInv'
<1> USE SlotFacts DEF procVars
<1>0. ASSUME pc[p] \in {"sleep_check", "sleep_sleep"}
      PROVE  has_child = [has_child EXCEPT ![p] = FALSE]
  BY <1>0 DEF IInv, TypeOK, WaitLocals, WaitLabels
<1>1. CASE SleepSleep(p)
  <2>1. TypeOK'
    BY <1>1 DEF SleepSleep, Sleep, SwitchToDispatch, IInv, TypeOK, SchedTypeOK, Labels,
       ProcessState, SavedContext
  <2> QED
    BY <1>0, <1>1, <2>1, SleepInductive DEF SleepSleep
<1>2. CASE SleepCheck(p) /\ TrapRet(p)
  <2>1. TypeOK'
    BY <1>2 DEF SleepCheck, TrapRet, NoSwitch, IInv, TypeOK, SchedTypeOK, Labels
  <2> QED
    BY <1>0, <1>2, <2>1, ReturnInductive DEF SleepCheck, NoSwitch, InUser
<1>3. CASE SleepCheck(p) /\ Goto(p, "sleep_sleep")
  <2> USE <1>3 DEF SleepCheck, Goto, NoSwitch, Running, Alive
  <2>1. TypeOK'
    BY DEF IInv, TypeOK, SchedTypeOK, Labels
  <2>2. state[p] = "running" /\ process_task = p /\ pc[p] = "sleep_check"
    BY DEF IInv, RunningIsCurrent
  <2>3. RunningIsCurrent' /\ SleepHasChannel'
    BY DEF IInv, RunningIsCurrent, SleepHasChannel
  <2>4. InterruptDiscipline' /\ (lk_intr_on = TRUE)'
    BY <2>2 DEF IInv, TypeOK, InterruptDiscipline, InUser
  <2>5. ContextMatches'
    BY <2>2 DEF IInv, TypeOK, ContextMatches
  <2>6. InitIsLive' /\ KernelIsLive'
    BY <2>2 DEF IInv, TypeOK, InitIsLive, KernelIsLive, Live
  <2>7. ForkLocals' /\ ForkTarget'
    BY <2>2 DEF IInv, TypeOK, ForkLocals, ForkTarget, ForkLabels
  <2>8. ReapTarget'
    BY <2>2 DEF IInv, TypeOK, ReapTarget
  <2>9. ParentIsLive' /\ NoParentOnlyInForkWindow'
    BY <2>2 DEF IInv, TypeOK, ParentIsLive, NoParentOnlyInForkWindow, Live
  <2>10. WaitLocals' /\ WaiterHasChild'
    BY <2>2 DEF IInv, TypeOK, WaitLocals, WaiterHasChild, WaitLabels
  <2>11. PidBound' /\ PidUnique'
    BY DEF IInv, PidBound, PidUnique
  <2> QED
    BY <2>1, <2>3, <2>4, <2>5, <2>6, <2>7, <2>8, <2>9, <2>10, <2>11 DEF IInv
<1> QED
  BY <1>1, <1>2, <1>3 DEF SysSleep, SleepCheck

(* Every step preserves the inductive invariant. *)
LEMMA NextInductive == IInv /\ [Next]_vars => IInv'
<1> SUFFICES ASSUME IInv, [Next]_vars PROVE IInv'
  OBVIOUS
<1>1. CASE DispatchStep
  BY <1>1, DispatchInductive
<1>2. CASE ClockInterrupt
  BY <1>2, ClockInductive
<1>3. CASE InitProgram \/ \E p \in Slots : UserStep(p)
  BY <1>3, UserInductive
<1>4. ASSUME NEW p \in Slots, KernelStep(p)
      PROVE  IInv'
  <2>1. CASE SysFork(p)
    BY <2>1, AllocProcInductive, CopyFromInductive, SetParentInductive, ForkReturnInductive
    DEF SysFork
  <2>2. CASE SysWait(p)
    BY <2>2, FindInductive, ReapInductive, WaitSleepInductive DEF SysWait
  <2>3. CASE SysSleep(p)
    BY <2>3, SysSleepInductive
  <2>4. CASE SysExit(p)
    <3>1. p # InitSlot
      BY <2>4 DEF SysExit, IInv, InitIsLive
    <3> QED
      BY <2>4, <3>1, ExitInductive DEF SysExit
  <2> QED
    BY <1>4, <2>1, <2>2, <2>3, <2>4 DEF KernelStep
<1>5. CASE (Spin /\ UNCHANGED procVars) \/ UNCHANGED vars
  <2>1. UNCHANGED <<schedVars, procVars>>
    BY <1>5 DEF Spin, vars
  <2>2. TypeOK'
    BY <2>1 DEF schedVars, procVars, IInv, TypeOK, SchedTypeOK
  <2> QED
    BY <2>1, <2>2, HaltInductive DEF schedVars, procVars, Alive
<1> QED
  BY <1>1, <1>2, <1>3, <1>4, <1>5 DEF Next

-----------------------------------------------------------------------------
(* IInv holds in every state, for every size of the process table. *)
THEOREM Inductive == Spec => []IInv
BY InitInductive, NextInductive, PTL DEF Spec

(* Every variable keeps its type: no call indexes the process table outside  *)
(* its slots or follows a null dst_pro or child.                             *)
THEOREM TypeCorrect == Spec => []TypeOK
<1>1. IInv => TypeOK
  BY DEF IInv
<1> QED
  BY <1>1, Inductive, PTL

(* The hand-over of the CPU by Dispatch, Yield, Sleep and Exit: the task that *)
(* is marked running is process_task.                                         *)
THEOREM OneRunning == Spec => []RunningIsCurrent
<1>1. IInv => RunningIsCurrent
  BY DEF IInv
<1> QED
  BY <1>1, Inductive, PTL

(* Wakeup never follows a null channel of a sleeping task. *)
THEOREM SleepersHaveChannels == Spec => []SleepHasChannel
<1>1. IInv => SleepHasChannel
  BY DEF IInv
<1> QED
  BY <1>1, Inductive, PTL

(* CriticalGuards that stay open across a Switch leave MIE as the resumed    *)
(* code and the idle loop expect it.                                         *)
THEOREM InterruptsDisciplined == Spec => []InterruptDiscipline
<1>1. IInv => InterruptDiscipline
  BY DEF IInv
<1> QED
  BY <1>1, Inductive, PTL

(* sys_wait resets the zombie child it found, whatever ran in between. *)
THEOREM ReapIsSafe == Spec => []ReapTarget
<1>1. IInv => ReapTarget
  BY DEF IInv
<1> QED
  BY <1>1, Inductive, PTL

(* sys_fork keeps the slot it allocated to itself until it returns. *)
THEOREM ForkIsSafe == Spec => []ForkTarget
<1>1. IInv => ForkTarget
  BY DEF IInv
<1> QED
  BY <1>1, Inductive, PTL

(* Pids are unique among the processes of the table. *)
THEOREM PidsAreUnique == Spec => []PidUnique
<1>1. IInv => PidUnique
  BY DEF IInv
<1> QED
  BY <1>1, Inductive, PTL

(* Nobody sleeps in sys_wait without a child, living or zombie.             *)
THEOREM WaitersHaveChildren == Spec => []WaiterHasChild
<1>1. IInv => WaiterHasChild
  BY DEF IInv
<1> QED
  BY <1>1, Inductive, PTL

(* The process table is a tree under init in every state, the fork window    *)
(* included: every other process and zombie has one live parent.             *)
THEOREM TreeIsWellFormed == Spec => []TreeWellFormed
<1>1. IInv => TreeWellFormed
  <2> SUFFICES ASSUME IInv PROVE TreeWellFormed
    OBVIOUS
  <2> DEFINE L == {s \in Slots : Live(s)}
  <2> DEFINE Z == {s \in Slots : state[s] = "zombie"}
  <2>1. InitSlot \in L /\ L \cap Z = {}
    BY SlotFacts DEF IInv, InitIsLive, Live
  <2>2. ASSUME NEW s \in Slots
        PROVE  TreeParent(s) \in L <=> s \in (L \cup Z) \ {InitSlot}
    <3>1. CASE ForkerOf(s) # {}
      <4>1. TreeParent(s) \in ForkerOf(s)
        BY <3>1 DEF TreeParent
      <4>2. TreeParent(s) \in L
        BY <4>1 DEF ForkerOf, IInv, KernelIsLive
      <4>3. s # InitSlot /\ state[s] \notin {"unused", "used"}
        BY <4>1 DEF ForkerOf, IInv, ForkLocals, ForkLabels
      <4>4. s \in L \cup Z
        BY <4>3 DEF Live, IInv, TypeOK, SchedTypeOK, ProcessState
      <4> QED
        BY <4>2, <4>3, <4>4
    <3>2. CASE ForkerOf(s) = {}
      <4>1. TreeParent(s) = parent[s]
        BY <3>2 DEF TreeParent
      <4>2. parent[s] \in L => s \in (L \cup Z) \ {InitSlot}
        BY SlotFacts DEF IInv, TypeOK, ParentIsLive, InitIsLive
      <4>3. s \in (L \cup Z) \ {InitSlot} => parent[s] # None
        BY <3>2 DEF ForkerOf, IInv, NoParentOnlyInForkWindow
      <4>4. parent[s] # None => parent[s] \in L
        BY DEF IInv, TypeOK, ParentIsLive
      <4> QED
        BY <4>1, <4>2, <4>3, <4>4
    <3> QED
      BY <3>1, <3>2
  <2> QED
    BY <2>1, <2>2 DEF TreeWellFormed, Tree!WellFormed
<1> QED
  BY <1>1, Inductive, PTL

(* What a step does to the state of a slot, given the inductive invariant.   *)
LEMMA StepsFollowLifeCycle == IInv /\ [Next]_vars => [LifeCycleStep]_vars
<1> SUFFICES ASSUME IInv, Next PROVE LifeCycleStep
  OBVIOUS
<1> USE SlotFacts DEF LifeCycleStep, Transitions
<1>1. CASE DispatchStep
  BY <1>1 DEF DispatchStep, Dispatch, DispatchSkip, DispatchRun, IInv, TypeOK, SchedTypeOK
<1>2. CASE ClockInterrupt
  <2>1. CASE TimerIdle
    BY <2>1 DEF TimerIdle, Wakeup, Sleepers
  <2>2. ASSUME NEW p \in Slots, TimerProcess(p)
        PROVE  LifeCycleStep
    <3>1. state[p] = "running"
      BY <2>2 DEF TimerProcess, InterruptsEnabled, IInv, RunningIsCurrent
    <3> QED
      BY <2>2, <3>1 DEF TimerProcess, Sleepers
  <2> QED
    BY <1>2, <2>1, <2>2 DEF ClockInterrupt, TimerInterrupt
<1>3. CASE InitProgram
  BY <1>3 DEF InitProgram, Ecall
<1>4. ASSUME NEW p \in Slots, Running(p), Exit(p)
      PROVE  LifeCycleStep
  BY <1>4 DEF Exit, Sleepers, Running, IInv, TypeOK, SchedTypeOK, RunningIsCurrent
<1>5. ASSUME NEW p \in Slots, UserStep(p)
      PROVE  LifeCycleStep
  BY <1>4, <1>5 DEF UserStep, CallFork, CallWait, CallExit, CallSleep, Ecall, PageFault, May,
     IllegalInstruction
<1>6. ASSUME NEW p \in Slots, SysFork(p)
      PROVE  LifeCycleStep
  <2>1. CASE AllocProc(p)
    BY <2>1 DEF AllocProc, InitTask, IInv, TypeOK, SchedTypeOK
  <2>2. CASE CopyFrom(p)
    <3>1. target[p] \in Slots /\ state[target[p]] = "used"
      BY <2>2 DEF CopyFrom, IInv, ForkLocals, ForkLabels
    <3> QED
      BY <2>2, <3>1 DEF CopyFrom, IInv, TypeOK, SchedTypeOK
  <2> QED
    BY <1>6, <2>1, <2>2 DEF SysFork, SetParent, ForkReturn
<1>7. ASSUME NEW p \in Slots, SysWait(p)
      PROVE  LifeCycleStep
  <2>1. CASE Reap(p)
    <3>1. target[p] \in Slots /\ state[target[p]] = "zombie"
      BY <2>1 DEF Reap, IInv, ReapTarget
    <3> QED
      BY <2>1, <3>1 DEF Reap, IInv, TypeOK, SchedTypeOK
  <2>2. CASE WaitSleep(p)
    BY <2>2 DEF WaitSleep, Sleep, Running, IInv, TypeOK, SchedTypeOK, RunningIsCurrent
  <2> QED
    BY <1>7, <2>1, <2>2 DEF SysWait, FindFirslZombieChild
<1>8. ASSUME NEW p \in Slots, SysSleep(p)
      PROVE  LifeCycleStep
  BY <1>8 DEF SysSleep, SleepCheck, SleepSleep, Sleep, Running, IInv, TypeOK, SchedTypeOK,
     RunningIsCurrent
<1>9. CASE Spin /\ UNCHANGED procVars
  BY <1>9 DEF Spin, schedVars
<1> QED
  BY <1>1, <1>2, <1>3, <1>4, <1>5, <1>6, <1>7, <1>8, <1>9 DEF Next, KernelStep, SysExit

(* No call applies a decision taken on an old state to a slot that has moved *)
(* on: slots only move along their life cycle.                               *)
THEOREM LifeCycleHolds == Spec => LifeCycle
BY Inductive, StepsFollowLifeCycle, PTL DEF Spec, LifeCycle
-----------------------------------------------------------------------------
(* The refinement of the process tree.  A step that keeps who lives, who is *)
(* a zombie, the parents and the open fork windows keeps the tree.          *)
LEMMA SameTree ==
  ASSUME \A s \in Slots : Live(s)' <=> Live(s),
         \A s \in Slots : state'[s] = "zombie" <=> state[s] = "zombie",
         \A s \in Slots : TreeParent(s)' = TreeParent(s)
  PROVE  UNCHANGED Tree!treeVars
<1>1. {s \in Slots : Live(s)}' = {s \in Slots : Live(s)}
  OBVIOUS
<1>2. {s \in Slots : state[s] = "zombie"}' = {s \in Slots : state[s] = "zombie"}
  OBVIOUS
<1>3. [s \in Slots |-> TreeParent(s)]' = [s \in Slots |-> TreeParent(s)]
  OBVIOUS
<1> QED
  BY <1>1, <1>2, <1>3 DEF Tree!treeVars

(* Who opened a fork window. *)
LEMMA SameForkers ==
  ASSUME \A q, s \in Slots :
           (pc'[q] = "set_parent" /\ target'[q] = s) <=> (pc[q] = "set_parent" /\ target[q] = s)
  PROVE  \A s \in Slots : ForkerOf(s)' = ForkerOf(s)
BY DEF ForkerOf

\* The value of TreeParent's CHOOSE, as a function of the set it chooses from.
AnyOf(S) == CHOOSE p \in S : TRUE

(* TreeParent in terms of what it depends on, before and after a step.      *)
LEMMA TreeParentIs ==
  ASSUME NEW s \in Slots
  PROVE  /\ TreeParent(s) = IF ForkerOf(s) # {} THEN AnyOf(ForkerOf(s)) ELSE parent[s]
         /\ TreeParent(s)' = IF ForkerOf(s)' # {} THEN AnyOf(ForkerOf(s)') ELSE parent'[s]
BY DEF TreeParent, AnyOf

(* With the fork windows and the parents the parent in the tree is kept. *)
LEMMA SameParents ==
  ASSUME \A q, s \in Slots :
           (pc'[q] = "set_parent" /\ target'[q] = s) <=> (pc[q] = "set_parent" /\ target[q] = s),
         UNCHANGED parent
  PROVE  \A s \in Slots : TreeParent(s)' = TreeParent(s)
BY SameForkers, TreeParentIs

(* The window of a fork has one forker, and the slot in it no other parent. *)
LEMMA WindowOf ==
  ASSUME IInv, NEW s \in Slots, NEW p \in ForkerOf(s)
  PROVE  ForkerOf(s) = {p} /\ TreeParent(s) = p /\ parent[s] = None
<1>1. \A q \in ForkerOf(s) : q = p
  BY DEF ForkerOf, IInv, ForkTarget
<1>2. parent[s] = None
  BY DEF ForkerOf, IInv, ForkTarget
<1> QED
  BY <1>1, <1>2 DEF TreeParent

(* Making the copied task runnable is the fork of the tree. *)
LEMMA CopyFromRefines ==
  ASSUME IInv, NEW p \in Slots, CopyFrom(p)
  PROVE  Tree!Fork(p, target[p])
<1> DEFINE c == target[p]
<1> USE SlotFacts DEF CopyFrom, Goto, NoSwitch, procVars
<1>1. /\ c \in Slots \ {p, InitSlot} /\ state[c] = "used" /\ Live(p)
      /\ pc \in [Slots -> Labels] /\ state \in [Slots -> ProcessState]
  BY DEF IInv, ForkLocals, ForkLabels, KernelIsLive, TypeOK, SchedTypeOK
<1>2. \A q \in Slots : pc[q] = "set_parent" => target[q] # c
  BY DEF IInv, ForkTarget
<1>3. ForkerOf(c)' = {p} /\ \A s \in Slots \ {c} : ForkerOf(s)' = ForkerOf(s)
  BY <1>1, <1>2 DEF ForkerOf
<1>4. TreeParent(c)' = p
  <2>1. TreeParent(c)' = CHOOSE q \in {p} : TRUE
    BY <1>3 DEF TreeParent
  <2> QED
    BY <2>1
<1>5. \A s \in Slots \ {c} : TreeParent(s)' = TreeParent(s)
  BY <1>3, TreeParentIs
<1>6. {s \in Slots : Live(s)}' = {s \in Slots : Live(s)} \cup {c}
  BY <1>1 DEF Live
<1>7. {s \in Slots : state[s] = "zombie"}' = {s \in Slots : state[s] = "zombie"}
  BY <1>1
<1>8. [s \in Slots |-> TreeParent(s)]' = [[s \in Slots |-> TreeParent(s)] EXCEPT ![c] = p]
  BY <1>1, <1>4, <1>5
<1>9. p \in {s \in Slots : Live(s)}
  BY <1>1
<1>10. c \notin {s \in Slots : Live(s)} \cup {s \in Slots : state[s] = "zombie"}
  BY <1>1 DEF Live
<1> QED
  BY <1>6, <1>7, <1>8, <1>9, <1>10 DEF Tree!Fork

(* Storing parent_process closes the window and leaves the tree as it was. *)
LEMMA SetParentRefines ==
  ASSUME IInv, NEW p \in Slots, SetParent(p)
  PROVE  UNCHANGED Tree!treeVars
<1> DEFINE c == target[p]
<1> USE SlotFacts DEF SetParent, Goto, NoSwitch
<1>1. c \in Slots /\ p \in ForkerOf(c) /\ pc \in [Slots -> Labels]
      /\ parent \in [Slots -> Slots \cup {None}]
  BY DEF IInv, ForkLocals, ForkLabels, ForkerOf, TypeOK
<1>2. ForkerOf(c) = {p} /\ TreeParent(c) = p
  BY <1>1, WindowOf
<1>3. ForkerOf(c)' = {} /\ \A s \in Slots \ {c} : ForkerOf(s)' = ForkerOf(s)
  BY <1>1, <1>2 DEF ForkerOf
<1>4. \A s \in Slots : TreeParent(s)' = TreeParent(s)
  <2> TAKE s \in Slots
  <2>1. CASE s = c
    BY <1>1, <1>2, <1>3, <2>1 DEF TreeParent
  <2>2. CASE s # c
    BY <1>1, <1>3, <2>2, TreeParentIs
  <2> QED
    BY <2>1, <2>2
<1> QED
  BY <1>4, SameTree DEF Live

(* Resetting the zombie child is the wait of the tree. *)
LEMMA ReapRefines ==
  ASSUME IInv, NEW p \in Slots, Reap(p), NEW c \in Slots, c = target[p]
  PROVE  Tree!Wait(p, c)
<1> USE SlotFacts DEF Reap, Return, TrapRet
<1>1. /\ c \in Slots /\ state[c] = "zombie" /\ parent[c] = p /\ Live(p)
      /\ pc \in [Slots -> Labels] /\ state \in [Slots -> ProcessState]
      /\ parent \in [Slots -> Slots \cup {None}]
      /\ target \in [Slots -> Slots \cup {None}]
  BY DEF IInv, ReapTarget, KernelIsLive, TypeOK, SchedTypeOK
<1>2. ForkerOf(c) = {}
  BY <1>1, WindowOf
<1>3. \A s \in Slots : ForkerOf(s)' = ForkerOf(s)
  BY <1>1 DEF ForkerOf
<1>4. TreeParent(c) = p /\ TreeParent(c)' = None
  BY <1>1, <1>2, <1>3, TreeParentIs
<1>5. \A s \in Slots \ {c} : TreeParent(s)' = TreeParent(s)
  BY <1>1, <1>3, TreeParentIs
<1>6. {s \in Slots : Live(s)}' = {s \in Slots : Live(s)}
  BY <1>1 DEF Live
<1>7. {s \in Slots : state[s] = "zombie"}' = {s \in Slots : state[s] = "zombie"} \ {c}
  BY <1>1
<1>8. [s \in Slots |-> TreeParent(s)]' = [[s \in Slots |-> TreeParent(s)] EXCEPT ![c] = None]
  BY <1>1, <1>4, <1>5
<1>9. p \in {s \in Slots : Live(s)} /\ c \in {s \in Slots : state[s] = "zombie"}
  BY <1>1
<1>10. [s \in Slots |-> TreeParent(s)][c] = p
  BY <1>1, <1>4
<1> QED
  BY <1>6, <1>7, <1>8, <1>9, <1>10 DEF Tree!Wait

(* Exit, also the one that dies in Wakeup, is the exit of the tree: init    *)
(* adopts the children, those in a fork window are somebody else's.         *)
LEMMA ExitRefines ==
  ASSUME IInv, NEW p \in Slots \ {InitSlot}, Running(p), pc[p] \in {"user", "exit"}, Exit(p)
  PROVE  Tree!Exit(p)
<1> USE SlotFacts DEF Exit, Adopted, Sleepers
<1>1. /\ state[p] = "running"
      /\ state \in [Slots -> ProcessState] /\ parent \in [Slots -> Slots \cup {None}]
  BY DEF IInv, RunningIsCurrent, Running, TypeOK, SchedTypeOK
<1>2. \A s \in Slots : ForkerOf(s)' = ForkerOf(s) /\ p \notin ForkerOf(s)
  BY DEF ForkerOf
<1>3. ASSUME NEW s \in Slots
      PROVE  TreeParent(s)' = IF TreeParent(s) = p THEN InitSlot ELSE TreeParent(s)
  <2>1. CASE ForkerOf(s) = {}
    BY <1>1, <1>2, <2>1 DEF TreeParent
  <2>2. CASE ForkerOf(s) # {}
    <3>1. TreeParent(s) \in ForkerOf(s)
      BY <2>2 DEF TreeParent
    <3> QED
      BY <1>2, <2>2, <3>1, TreeParentIs
  <2> QED
    BY <2>1, <2>2
<1>4. {s \in Slots : Live(s)}' = {s \in Slots : Live(s)} \ {p}
  BY <1>1 DEF Live
<1>5. {s \in Slots : state[s] = "zombie"}' = {s \in Slots : state[s] = "zombie"} \cup {p}
  BY <1>1
<1>6. [s \in Slots |-> TreeParent(s)]'
        = [s \in Slots |-> IF [t \in Slots |-> TreeParent(t)][s] = p THEN InitSlot
                           ELSE [t \in Slots |-> TreeParent(t)][s]]
  BY <1>3
<1>7. p \in {s \in Slots : Live(s)} \ {InitSlot}
  BY <1>1 DEF Live
<1> QED
  BY <1>4, <1>5, <1>6, <1>7 DEF Tree!Exit
(* Every other step leaves the tree alone: no slot is born or dies, and no  *)
(* fork window opens or closes.                                             *)
LEMMA OtherRefines ==
  ASSUME IInv,
         \A s \in Slots : Live(s)' <=> Live(s),
         \A s \in Slots : state'[s] = "zombie" <=> state[s] = "zombie",
         \A q \in Slots :
           \/ pc'[q] = pc[q] /\ target'[q] = target[q]
           \/ pc[q] # "set_parent" /\ pc'[q] # "set_parent",
         UNCHANGED parent
  PROVE  UNCHANGED Tree!treeVars
BY SameParents, SameTree

(* fork, exit and wait change the process tree as if each were one step,    *)
(* for any number of processes that are anywhere in these calls.            *)
THEOREM TreeRefined == Spec => ImplementsTree
<1>1. Init => Tree!Init
  <2> SUFFICES ASSUME Init PROVE Tree!Init
    OBVIOUS
  <2>1. {s \in Slots : Live(s)} = {InitSlot} /\ {s \in Slots : state[s] = "zombie"} = {}
    BY SlotFacts DEF Init, Live
  <2>2. [s \in Slots |-> TreeParent(s)] = [s \in Slots |-> None]
    BY DEF Init, TreeParent, ForkerOf
  <2> QED
    BY <2>1, <2>2 DEF Tree!Init
<1>2. IInv /\ [Next]_vars => [Tree!Next]_Tree!treeVars
  <2> SUFFICES ASSUME IInv, [Next]_vars
               PROVE  Tree!Next \/ UNCHANGED Tree!treeVars
    OBVIOUS
  <2> USE SlotFacts
  <2>0. /\ state \in [Slots -> ProcessState] /\ pc \in [Slots -> Labels]
        /\ target \in [Slots -> Slots \cup {None}] /\ idx \in [Slots -> Slots]
    BY DEF IInv, TypeOK, SchedTypeOK
  <2>1. CASE UNCHANGED vars
    BY <2>1, OtherRefines DEF vars, schedVars, procVars, Live
  <2>2. CASE DispatchStep
    <3>1. /\ \A s \in Slots : Live(s)' <=> Live(s)
          /\ \A s \in Slots : state'[s] = "zombie" <=> state[s] = "zombie"
      BY <2>0, <2>2 DEF DispatchStep, Dispatch, DispatchSkip, DispatchRun, Live
    <3>2. UNCHANGED <<pc, target, parent>>
      BY <2>2 DEF DispatchStep, Dispatch, DispatchSkip, DispatchRun, procVars
    <3> QED
      BY <3>1, <3>2, OtherRefines
  <2>3. CASE ClockInterrupt
    <3>1. /\ \A s \in Slots : Live(s)' <=> Live(s)
          /\ \A s \in Slots : state'[s] = "zombie" <=> state[s] = "zombie"
      <4>1. CASE TimerIdle
        BY <2>0, <4>1 DEF TimerIdle, Wakeup, Sleepers, Live
      <4>2. ASSUME NEW p \in Slots, TimerProcess(p)
            PROVE  /\ \A s \in Slots : Live(s)' <=> Live(s)
                   /\ \A s \in Slots : state'[s] = "zombie" <=> state[s] = "zombie"
        <5>1. state[p] = "running"
          BY <4>2 DEF TimerProcess, InterruptsEnabled, IInv, RunningIsCurrent
        <5> QED
          BY <2>0, <4>2, <5>1 DEF TimerProcess, Sleepers, Live
      <4> QED
        BY <2>3, <4>1, <4>2 DEF ClockInterrupt, TimerInterrupt
    <3>2. UNCHANGED <<pc, target, parent>>
      BY <2>3 DEF ClockInterrupt, TimerInterrupt, TimerIdle, TimerProcess
    <3> QED
      BY <3>1, <3>2, OtherRefines
  <2>4. ASSUME NEW p \in Slots, NEW label \in Labels \ {"set_parent"}, Ecall(p, label)
        PROVE  UNCHANGED Tree!treeVars
    <3>1. \A q \in Slots : \/ pc'[q] = pc[q] /\ target'[q] = target[q]
                           \/ pc[q] # "set_parent" /\ pc'[q] # "set_parent"
      BY <2>0, <2>4 DEF Ecall, InUser
    <3> QED
      BY <2>4, <3>1, OtherRefines DEF Ecall, Live
  <2>5. CASE InitProgram
    BY <2>4, <2>5 DEF InitProgram, Labels
  <2>6. ASSUME NEW p \in Slots, UserStep(p) PROVE Tree!Next \/ UNCHANGED Tree!treeVars
    <3>1. CASE CallFork(p) \/ CallWait(p) \/ CallExit(p)
      BY <2>4, <3>1 DEF CallFork, CallWait, CallExit, Labels
    <3>2. CASE \E sleep_time \in 0..MaxSleep : CallSleep(p, sleep_time)
      BY <2>4, <3>2 DEF CallSleep, Labels
    <3>3. CASE PageFault(p)
      <4>1. Tree!Exit(p)
        BY <3>3, ExitRefines DEF PageFault, May, InUser
      <4> QED
        BY <4>1 DEF Tree!Next
    <3>4. CASE IllegalInstruction(p)
      BY <3>4, OtherRefines DEF IllegalInstruction, procVars, Live
    <3> QED
      BY <2>6, <3>1, <3>2, <3>3, <3>4 DEF UserStep
  <2>7. ASSUME NEW p \in Slots, SysFork(p) PROVE Tree!Next \/ UNCHANGED Tree!treeVars
    <3>1. CASE AllocProc(p)
      <4>1. idx[p] \in Slots /\ (state[idx[p]] = "unused" => pc[idx[p]] \in {"user", "exit"})
        BY <2>0 DEF IInv, KernelIsLive, Live
      <4>2. \A q \in Slots : \/ pc'[q] = pc[q] /\ target'[q] = target[q]
                             \/ pc[q] # "set_parent" /\ pc'[q] # "set_parent"
        BY <2>0, <3>1, <4>1 DEF AllocProc, Return, TrapRet
      <4>3. /\ \A s \in Slots : Live(s)' <=> Live(s)
            /\ \A s \in Slots : state'[s] = "zombie" <=> state[s] = "zombie"
        BY <2>0, <3>1, <4>1 DEF AllocProc, InitTask, Live
      <4> QED
        BY <3>1, <4>2, <4>3, OtherRefines DEF AllocProc
    <3>2. CASE CopyFrom(p)
      <4>1. target[p] \in Slots
        BY <3>2 DEF CopyFrom, IInv, ForkLocals, ForkLabels
      <4>2. Tree!Fork(p, target[p])
        BY <3>2, CopyFromRefines
      <4> QED
        BY <4>1, <4>2 DEF Tree!Next
    <3>3. CASE SetParent(p)
      BY <3>3, SetParentRefines
    <3>4. CASE ForkReturn(p)
      <4>1. \A q \in Slots : \/ pc'[q] = pc[q] /\ target'[q] = target[q]
                             \/ pc[q] # "set_parent" /\ pc'[q] # "set_parent"
        BY <2>0, <3>4 DEF ForkReturn, Return, TrapRet
      <4> QED
        BY <3>4, <4>1, OtherRefines DEF ForkReturn, Live
    <3> QED
      BY <2>7, <3>1, <3>2, <3>3, <3>4 DEF SysFork
  <2>8. ASSUME NEW p \in Slots, SysWait(p) PROVE Tree!Next \/ UNCHANGED Tree!treeVars
    <3>1. CASE FindFirslZombieChild(p)
      <4>1. \A q \in Slots : \/ pc'[q] = pc[q] /\ target'[q] = target[q]
                             \/ pc[q] # "set_parent" /\ pc'[q] # "set_parent"
        BY <2>0, <3>1 DEF FindFirslZombieChild, Goto, Return, TrapRet
      <4> QED
        BY <3>1, <4>1, OtherRefines DEF FindFirslZombieChild, Live
    <3>2. CASE Reap(p)
      <4>1. PICK c \in Slots : c = target[p]
        BY <3>2 DEF Reap, IInv, ReapTarget
      <4>2. Tree!Wait(p, c)
        BY <3>2, <4>1, ReapRefines
      <4> QED
        BY <4>2 DEF Tree!Next
    <3>3. CASE WaitSleep(p)
      <4>1. state[p] = "running"
        BY <3>3 DEF WaitSleep, Running, IInv, RunningIsCurrent
      <4>2. \A q \in Slots : \/ pc'[q] = pc[q] /\ target'[q] = target[q]
                             \/ pc[q] # "set_parent" /\ pc'[q] # "set_parent"
        BY <2>0, <3>3 DEF WaitSleep, Sleep
      <4>3. /\ \A s \in Slots : Live(s)' <=> Live(s)
            /\ \A s \in Slots : state'[s] = "zombie" <=> state[s] = "zombie"
        BY <2>0, <3>3, <4>1 DEF WaitSleep, Sleep, Live
      <4> QED
        BY <3>3, <4>2, <4>3, OtherRefines DEF WaitSleep
    <3> QED
      BY <2>8, <3>1, <3>2, <3>3 DEF SysWait
  <2>9. ASSUME NEW p \in Slots, SysSleep(p) PROVE UNCHANGED Tree!treeVars
    <3>1. state[p] = "running"
      BY <2>9 DEF SysSleep, SleepCheck, SleepSleep, Running, IInv, RunningIsCurrent
    <3>2. \A q \in Slots : \/ pc'[q] = pc[q] /\ target'[q] = target[q]
                           \/ pc[q] # "set_parent" /\ pc'[q] # "set_parent"
      BY <2>0, <2>9 DEF SysSleep, SleepCheck, SleepSleep, Sleep, Goto, TrapRet, procVars
    <3>3. /\ \A s \in Slots : Live(s)' <=> Live(s)
          /\ \A s \in Slots : state'[s] = "zombie" <=> state[s] = "zombie"
      BY <2>0, <2>9, <3>1 DEF SysSleep, SleepCheck, SleepSleep, Sleep, Live
    <3> QED
      BY <2>9, <3>2, <3>3, OtherRefines DEF SysSleep, SleepCheck, SleepSleep, procVars
  <2>10. ASSUME NEW p \in Slots, SysExit(p) PROVE Tree!Next
    <3>1. p # InitSlot
      BY <2>10 DEF SysExit, IInv, InitIsLive
    <3>2. Tree!Exit(p)
      BY <2>10, <3>1, ExitRefines DEF SysExit
    <3> QED
      BY <3>2 DEF Tree!Next
  <2>11. CASE Spin /\ UNCHANGED procVars
    BY <2>11, OtherRefines DEF Spin, schedVars, procVars, Live
  <2> QED
    BY <2>1, <2>2, <2>3, <2>5, <2>6, <2>7, <2>8, <2>9, <2>10, <2>11 DEF Next, KernelStep
<1> QED
  BY <1>1, <1>2, Inductive, PTL DEF Spec, ImplementsTree, Tree!Spec
=============================================================================
