------------------------------ MODULE PlainCpu ------------------------------
(***************************************************************************)
(* The machine the guest is promised: every instruction is fetched from    *)
(* memory, as it is at that moment, when it is executed.  No caches.       *)
(* CodeCache.tla implements this specification.                            *)
(***************************************************************************)
EXTENDS GuestMemory

VARIABLES rip,     \* the instruction pointer
          end,     \* curInstrEnd, while a hook runs
          status   \* "idle", "run", "hook", "halt"

plainVars == <<memory, rip, end, status>>

PlainInit ==
    /\ MemoryInit
    /\ rip = 0 /\ end = 0
    /\ status = "idle"

(* Up to two units from a on, those of pages in need, hold something new.  *)
Overwrites(a, n, need) ==
    /\ mem' \in [Addr -> Unit]
    /\ \A x \in Addr \ Copied(a, a + n, need) : mem'[x] = mem[x]
    /\ UNCHANGED <<mapped, execable, writable>>

(* The host's own access to guest memory, before EmuStart and in hooks.    *)
PlainHost ==
    /\ status \in {"idle", "hook"}
    /\ UNCHANGED <<rip, end, status>>
    /\ \/ \E r \in Ranges, perm \in Perms : MemMap(r, perm) \/ MemProtect(r, perm)
       \/ \E r \in Ranges : MemUnmap(r)
       \/ \E a \in Addr, n \in 0..1 : Overwrites(a, n, mapped)

PlainStart ==
    /\ status = "idle"
    /\ rip' \in Addr
    /\ status' = "run"
    /\ UNCHANGED <<memory, end>>

PlainReturn ==
    /\ status = "hook"
    /\ rip' = end
    /\ status' = "run"
    /\ UNCHANGED <<memory, end>>

(* The hook stops the machine for good.                                    *)
PlainStop ==
    /\ status = "hook"
    /\ status' = "halt"
    /\ UNCHANGED <<memory, rip, end>>

(* An instruction stores nothing or up to two units somewhere.             *)
PlainExec ==
    /\ status = "run"
    /\ Fetchable(rip)
    /\ Decode(rip).op \notin Hook
    /\ UNCHANGED <<end, status>>
    /\ \/ rip' = rip + Length(Decode(rip).op)
       \/ Decode(rip).op \in Branch /\ rip' \in Addr
    /\ \/ UNCHANGED memory
       \/ \E a \in Addr, n \in 0..1 :
             ~Faults(a, a + n, writable) /\ Overwrites(a, n, writable)

PlainTrap ==
    /\ status = "run"
    /\ Fetchable(rip)
    /\ Decode(rip).op \in Hook
    /\ status' = "hook"
    /\ end' = rip + Length(Decode(rip).op)
    /\ UNCHANGED <<memory, rip>>

(* The fetch faults, a load does, or a store does after part of it.        *)
PlainFault ==
    /\ status = "run"
    /\ status' = "halt"
    /\ UNCHANGED <<rip, end>>
    /\ \/ ~Fetchable(rip) /\ UNCHANGED memory
       \/ /\ Fetchable(rip)
          /\ Decode(rip).op \notin Hook
          /\ \/ UNCHANGED memory
             \/ \E a \in Addr, n \in 0..1 :
                   Faults(a, a + n, writable) /\ Overwrites(a, n, writable)

PlainNext == PlainHost \/ PlainStart \/ PlainReturn \/ PlainStop
             \/ PlainExec \/ PlainTrap \/ PlainFault

PlainSpec == PlainInit /\ [][PlainNext]_plainVars
=============================================================================
