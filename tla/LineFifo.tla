------------------------------ MODULE LineFifo ------------------------------
(***************************************************************************)
(* What the console promises its readers: a bounded queue of typed         *)
(* characters.  A backspace takes back the last character nobody has read, *)
(* a character that finds the queue full is dropped, and a read takes a    *)
(* prefix of the queue that ends at the first carriage return at the       *)
(* latest, delivered as a newline.                                         *)
(***************************************************************************)
EXTENDS Naturals, Sequences

CONSTANTS
  Readers,    \* the processes that read
  Printable,  \* the characters other than carriage return and backspace
  Capacity    \* the most characters that may wait

VARIABLES
  queue,  \* the characters typed and not yet read
  line    \* line[r]: what r's current read has got so far

fifoVars == <<queue, line>>

Init ==
  /\ queue = <<>>
  /\ line = [r \in Readers |-> <<>>]

Type(c) ==
  /\ Len(queue) < Capacity
  /\ queue' = Append(queue, c)
  /\ UNCHANGED line

Backspace ==
  /\ queue # <<>>
  /\ queue' = SubSeq(queue, 1, Len(queue) - 1)
  /\ UNCHANGED line

\* What a reader sees of a typed character.
Delivered(c) == IF c = "cr" THEN "nl" ELSE c

Take(r, n) ==
  /\ \A i \in 1..(n - 1) : queue[i] # "cr"
  /\ line' = [line EXCEPT ![r] = @ \o [i \in 1..n |-> Delivered(queue[i])]]
  /\ queue' = SubSeq(queue, n + 1, Len(queue))

\* r starts its next read.
NewRead(r) ==
  /\ line' = [line EXCEPT ![r] = <<>>]
  /\ UNCHANGED queue

Next ==
  \/ \E c \in Printable \cup {"cr"} : Type(c)
  \/ Backspace
  \/ \E r \in Readers : NewRead(r) \/ \E n \in 1..Len(queue) : Take(r, n)

Spec == Init /\ [][Next]_fifoVars
=============================================================================
