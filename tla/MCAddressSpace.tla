--------------------------- MODULE MCAddressSpace ---------------------------
(* A small instance of AddressSpace for TLC: a program of two segments, one*)
(* with a third that shares a page with the first, and one whose segment   *)
(* lies where the stack is mapped.                                         *)
EXTENDS AddressSpace

Seg(at, size, prot, main) == [at |-> at, size |-> size, prot |-> prot, main |-> main]
Code == Seg(2, 2, {"r", "x"}, TRUE)
Data == Seg(5, 1, {"r", "w"}, TRUE)
Programs ==
    {<<Code, Data, Seg(15, 1, {"r", "x"}, FALSE)>>,
     <<Code, Seg(3, 1, {"r"}, TRUE), Data>>,
     <<Code, Seg(3, 3, {"r", "w"}, TRUE)>>,
     <<Code, Seg(16, 1, {"r"}, FALSE)>>}
Prots == {{}}
=============================================================================
