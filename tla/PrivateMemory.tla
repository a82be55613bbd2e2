---------------------------- MODULE PrivateMemory ----------------------------
(***************************************************************************)
(* What address spaces promise, without pages and page tables: each        *)
(* process has a memory of its own, a function from its addresses to what  *)
(* they hold.  fork gives the child the parent's memory, exec replaces it, *)
(* everything else a process does changes its own memory, which does not   *)
(* shrink, and nobody else's.                                              *)
(***************************************************************************)
CONSTANTS
  Procs,   \* the processes
  NoMem,   \* the memory of a process that does not run
  Fresh    \* the memories exec may start a program with

VARIABLE mem

Init == mem \in [Procs -> Fresh \cup {NoMem}]

Fork(p, c) ==
  /\ mem[p] # NoMem
  /\ mem[c] = NoMem
  /\ mem' = [mem EXCEPT ![c] = mem[p]]

Exit(p) ==
  /\ mem[p] # NoMem
  /\ mem' = [mem EXCEPT ![p] = NoMem]

Exec(p) ==
  /\ mem[p] # NoMem
  /\ mem'[p] \in Fresh
  /\ mem' = [mem EXCEPT ![p] = mem'[p]]

\* A store, or an extension whose new cells may hold anything.
Change(p) ==
  /\ mem[p] # NoMem
  /\ DOMAIN mem[p] \subseteq DOMAIN mem'[p]
  /\ mem' = [mem EXCEPT ![p] = mem'[p]]

Next ==
  \E p \in Procs :
    \/ \E c \in Procs : Fork(p, c)
    \/ Exit(p)
    \/ Exec(p)
    \/ Change(p)

Spec == Init /\ [][Next]_mem
=============================================================================
