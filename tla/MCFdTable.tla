----------------------------- MODULE MCFdTable -----------------------------
(* Small instances of FdTable for TLC.                                     *)
EXTENDS FdTable

CONSTANTS Child,     \* the processes that can be forked
          Fresh      \* the Files that can be opened beyond stdio

ProcSet == {Root} \cup Child
FileSet == {Stdin, Stdout, Stderr} \cup Fresh
=============================================================================
