---------------------------- MODULE MCFileSystem ----------------------------
(***************************************************************************)
(* An instance of FileSystem for TLC: a writer who creates, grows and      *)
(* reads back files beside a reader who walks the same directories.  The   *)
(* image holds one file, FileF, that already needs its indirect block.     *)
(***************************************************************************)
EXTENDS FileSystem

CONSTANTS Writer, Reader, DirD, FileA, FileF

Abs(names) == [absolute |-> TRUE, names |-> names]
Rel(names) == [absolute |-> FALSE, names |-> names]

Image == <<[name |-> FileF, body |-> [k \in 1..BlockSize + 1 |-> Byte(2)]]>>

PathsOf(p, op) ==
  CASE p = Writer /\ op = "open" -> {Abs(<<FileF>>)}
    [] p = Writer /\ op = "create" -> {Abs(<<DirD, FileA>>), Abs(<<FileA>>)}
    [] p = Writer /\ op = "mkdir" -> {Abs(<<DirD>>), Abs(<<>>)}
    [] p = Writer /\ op = "mknod" -> {Abs(<<DirD>>)}
    [] p = Reader /\ op = "open" -> {Rel(<<FileA>>), Abs(<<FileF>>)}
    [] p = Reader /\ op = "chdir" -> {Abs(<<DirD>>)}
    [] OTHER -> {}

WritesOf(p, type) ==
  IF p = Writer /\ type = "regular_file"
  THEN {<<[k \in 1..BlockSize + 1 |-> Byte(1)]>>, <<<<Byte(1), Byte(1)>>, <<Byte(3)>>>>}
  ELSE {}
CallsOf(p) == IF p = Writer THEN 3 ELSE 2
ReadsOf(p) == IF p = Reader THEN {<<1, BlockSize>>} ELSE {<<BlockSize + 1>>}

ASSUME WriterAssumption == OneWriter(Writer)
ASSUME NamesAssumption == DistinctNames
=============================================================================
