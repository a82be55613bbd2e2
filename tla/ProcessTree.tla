----------------------------- MODULE ProcessTree -----------------------------
(***************************************************************************)
(* What the process calls of the kernel promise, without the scheduler,    *)
(* the interrupts and the loops over the process table: a tree of live     *)
(* processes and zombies under init that fork, exit and wait change in one *)
(* step each.                                                              *)
(***************************************************************************)
CONSTANTS
  Procs,   \* the process slots
  Root,    \* the slot of init
  NoProc   \* the parent of the root and of a free slot

VARIABLES
  live,      \* the slots of processes that run
  zombie,    \* the slots of processes that exited and were not waited for
  parentOf   \* the parent of each slot

treeVars == <<live, zombie, parentOf>>

Init ==
  /\ live = {Root}
  /\ zombie = {}
  /\ parentOf = [s \in Procs |-> NoProc]

\* p forks: a free slot becomes a child of p.
Fork(p, c) ==
  /\ p \in live
  /\ c \notin live \cup zombie
  /\ live' = live \cup {c}
  /\ parentOf' = [parentOf EXCEPT ![c] = p]
  /\ UNCHANGED zombie

\* p exits: init adopts its children, zombies included.
Exit(p) ==
  /\ p \in live \ {Root}
  /\ live' = live \ {p}
  /\ zombie' = zombie \cup {p}
  /\ parentOf' = [s \in Procs |-> IF parentOf[s] = p THEN Root ELSE parentOf[s]]

\* p's wait returns its zombie child c and frees the slot.
Wait(p, c) ==
  /\ p \in live
  /\ c \in zombie
  /\ parentOf[c] = p
  /\ zombie' = zombie \ {c}
  /\ parentOf' = [parentOf EXCEPT ![c] = NoProc]
  /\ UNCHANGED live

Next ==
  \/ \E p, c \in Procs : Fork(p, c) \/ Wait(p, c)
  \/ \E p \in Procs : Exit(p)

Spec == Init /\ [][Next]_treeVars

TreeTypeOK ==
  /\ live \subseteq Procs
  /\ zombie \subseteq Procs
  /\ parentOf \in [Procs -> Procs \cup {NoProc}]

(* init lives forever, no slot is both live and zombie, and everyone but    *)
(* init, zombies included, has a live parent who can wait for it.           *)
WellFormed ==
  /\ Root \in live
  /\ live \cap zombie = {}
  /\ \A s \in Procs : parentOf[s] \in live <=> s \in (live \cup zombie) \ {Root}
=============================================================================
