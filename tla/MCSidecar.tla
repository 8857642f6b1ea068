----------------------------- MODULE MCSidecar -----------------------------
(* Small instances of Sidecar for TLC.                                     *)
EXTENDS Sidecar, TLC

(* The goroutines are alike, and so are the host files.                    *)
Sym == Permutations(Proc) \cup Permutations(Inode)
=============================================================================
