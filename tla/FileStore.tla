------------------------------ MODULE FileStore ------------------------------
(***************************************************************************)
(* What the file system promises, without blocks, bitmaps, inode tables    *)
(* and crashes: numbered files, each with a type and a content.  A file is *)
(* created empty and keeps its type; a step changes one file only, inside  *)
(* its length or at its end, and nothing is ever lost.                     *)
(***************************************************************************)
EXTENDS Naturals, Sequences

CONSTANTS
  Inums,    \* the numbers of the files
  Cells,    \* what one place of a file may hold
  MaxStep   \* how many places one step may write: a block

VARIABLES
  typeOf,   \* the type of each file, "none" while it does not exist
  body      \* the content of each file

storeVars == <<typeOf, body>>

Init ==
  /\ typeOf \in [Inums -> {"none", "directory", "regular_file", "device"}]
  /\ body \in [Inums -> Seq(Cells)]

\* A file comes into existence, empty.
Create(i, t) ==
  /\ typeOf[i] = "none"
  /\ t # "none"
  /\ typeOf' = [typeOf EXCEPT ![i] = t]
  /\ body' = [body EXCEPT ![i] = <<>>]

\* Places inside the file change, at most MaxStep of them in a row.  A
\* directory keeps its entries.
Overwrite(i) ==
  /\ typeOf[i] = "regular_file"
  /\ Len(body'[i]) = Len(body[i])
  /\ \A j, k \in 1..Len(body[i]) :
       body'[i][j] # body[i][j] /\ body'[i][k] # body[i][k] => j - k < MaxStep
  /\ body' = [body EXCEPT ![i] = body'[i]]
  /\ UNCHANGED typeOf

\* The file grows at its end by at most MaxStep places.
Extend(i) ==
  /\ typeOf[i] # "none"
  /\ Len(body'[i]) \in Len(body[i]) + 1 .. Len(body[i]) + MaxStep
  /\ SubSeq(body'[i], 1, Len(body[i])) = body[i]
  /\ body' = [body EXCEPT ![i] = body'[i]]
  /\ UNCHANGED typeOf

Next ==
  \E i \in Inums :
    \/ \E t \in {"directory", "regular_file", "device"} : Create(i, t)
    \/ Overwrite(i)
    \/ Extend(i)

Spec == Init /\ [][Next]_storeVars
=============================================================================
