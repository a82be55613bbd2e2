------------------------------ MODULE PagePool ------------------------------
(***************************************************************************)
(* What the page allocator promises: a set of free pages.  An allocation   *)
(* takes one page, or a run of consecutive pages, out of it, and a page    *)
(* that is given back is free again.                                       *)
(***************************************************************************)
EXTENDS Integers

CONSTANTS
  PoolPages,  \* the pages that may be handed out, numbers in address order
  Runs        \* the lengths of the runs that are asked for

VARIABLES
  free,    \* the pages that nobody holds
  handed   \* the pages that the last call handed out

vars == <<free, handed>>

Init == free = PoolPages /\ handed = {}

Hand(pages) ==
  /\ pages \subseteq free
  /\ free' = free \ pages
  /\ handed' = pages

Take == \E m \in free : Hand({m})

TakeRun == \E m \in free, n \in Runs : Hand(m..(m + n - 1))

Give ==
  \E m \in PoolPages \ free :
    /\ free' = free \cup {m}
    /\ handed' = {}

Next == Take \/ TakeRun \/ Give

Spec == Init /\ [][Next]_vars
=============================================================================
