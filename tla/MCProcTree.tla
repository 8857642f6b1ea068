----------------------------- MODULE MCProcTree -----------------------------
(* Small instances of ProcTree for TLC.                                    *)
EXTENDS ProcTree

CONSTANT Child       \* the processes that can be forked

ProcSet == {Root} \cup Child

(* Any child, or the process that was forked first.                        *)
AnyOrFirst == {-1, PidBase + 1}
=============================================================================
