------------------------- MODULE MCProcessLifecycle -------------------------
(***************************************************************************)
(* Instances of ProcessLifecycle for TLC.                                  *)
(***************************************************************************)
EXTENDS ProcessLifecycle

\* Every program but init.cc may do anything at any time.
AnyCalls == [n \in 2..MaxPid |-> UserEvents]

\* Programs that stop the machine left out, for liveness.
TameCalls == [n \in 2..MaxPid |-> UserEvents \ {"illegal"}]

\* pid 2 runs sh.cc, which forks and waits forever; pid 3 a command that forks
\* and exits without waiting for its child; the others
\* run to their end.
ShellCalls ==
  [n \in 2..MaxPid |->
     CASE n = 2 -> {"fork", "wait"}
       [] n = 3 -> {"fork", "exit"}
       [] OTHER -> {"exit"}]
=============================================================================
