----------------------------- MODULE MCPipeline -----------------------------
(* Small instances of Pipeline for TLC.                                    *)
EXTENDS Pipeline

ProcSet == {Root, Writer, Reader}
FileSet == {Stdin, Stdout, Stderr, PipeR, PipeW}
=============================================================================
