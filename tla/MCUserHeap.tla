------------------------------ MODULE MCUserHeap ------------------------------
(***************************************************************************)
(* An instance of UserHeap for TLC: pages of two cells and tables of two   *)
(* entries, so that regions, stack and heap share page tables; programs    *)
(* that load, and one of each kind that does not.                          *)
(***************************************************************************)
EXTENDS UserHeap

Seg(b, m, f) == [beg |-> b, memsz |-> m, filesz |-> f]
Image(type, segs, val, got, sym) ==
  [type |-> type, segs |-> segs, val |-> val, got |-> got, sym |-> sym]

\* A program with a segment across two pages and a slot for a library.
Shell == Image("exec", <<Seg(1, 2, 1)>>, 1, 2, 0)

Programs == {
  Image("exec", <<Seg(0, 2, 2), Seg(5, 1, 0)>>, 2, 0, 0),
  Image("text", <<>>, 0, 0, 0),
  Image("exec", <<Seg(0, 2, 1), Seg(4, 1, 2)>>, 2, 0, 0),
  Image("exec", <<Seg(0, 1, 1), Seg(2, 1, 1), Seg(4, 1, 1), Seg(8, 1, 1)>>, 2, 0, 0)}

Libs == {Image("dyn", <<Seg(0, 2, 1)>>, 4, 1, 0), Image("exec", <<>>, 0, 0, 0)}
=============================================================================
