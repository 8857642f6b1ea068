---------------------------- MODULE MCPollSelect ----------------------------
(* Small instances of PollSelect for TLC.                                  *)
EXTENDS PollSelect

(* For ever or a negative time, which ppoll and pselect6 make none, and one *)
(* that time can run up to.                                                *)
Times == {-1, 1}
(* A loop serves two descriptors.                                          *)
Pairs == {u \in SUBSET Host : Cardinality(u) = 2}
(* Nothing, or one of each kind.                                           *)
OneExtra == {{}} \cup {{x} : x \in Other}
=============================================================================
