---------------------------- MODULE GuestMemory ----------------------------
(***************************************************************************)
(* internal/cpu/memory.go: the pages of a guest address space, their       *)
(* protection bits, and the page-by-page copy that every access goes       *)
(* through.  An address holds one unit of code or data; an instruction is  *)
(* one or two units long, so that it may straddle two pages.               *)
(***************************************************************************)
EXTENDS Integers

CONSTANTS NumPages,  \* bound: the pages of the address space
          PageSize,  \* units per page
          Perms,     \* bound: the protections tried, of ProtWrite and ProtExec
          Unit,      \* what an address may hold
          Zero,      \* what a fresh page holds
          Long,      \* the units that begin a two-unit instruction
          Branch,    \* the units that begin a branch
          Hook       \* the units that begin SYSCALL or CPUID

ASSUME SizeAssumption == NumPages \in Nat \ {0} /\ PageSize \in Nat \ {0}
ASSUME PermsAssumption == Perms \subseteq SUBSET {"w", "x"}
ASSUME UnitAssumption ==
    /\ Zero \in Unit
    /\ Long \subseteq Unit /\ Branch \subseteq Unit /\ Hook \subseteq Unit
    /\ Branch \cap Hook = {}

VARIABLES mem,       \* mem[a]: page.data
          mapped,    \* the pages in Memory.pages
          execable,  \* the pages whose perm has ProtExec
          writable   \* the pages whose perm has ProtWrite

memory == <<mem, mapped, execable, writable>>

Page == 0..(NumPages - 1)
Addr == 0..(NumPages * PageSize - 1)
PageOf(a) == a \div PageSize

MemoryInit ==
    /\ mem = [a \in Addr |-> Zero]
    /\ mapped = {} /\ execable = {} /\ writable = {}

(***************************************************************************)
(* copy: the units of from..to are written one page after the other; the   *)
(* first page that is not mapped, or lacks the permission needed, ends it  *)
(* with a fault, and what was copied before stays.                         *)
(***************************************************************************)
Accessible(a, need) == a \in Addr /\ PageOf(a) \in need
Copied(from, to, need) == {x \in from..to : \A y \in from..x : Accessible(y, need)}
Faults(from, to, need) == Copied(from, to, need) # from..to

CopyIn(from, to, w, need) ==
    mem' = [x \in Addr |-> IF x \in Copied(from, to, need) THEN w[x] ELSE mem[x]]

(* writeChecked, and MemWrite, which needs no permission but a mapping.    *)
Store(from, to, w) ==
    /\ CopyIn(from, to, w, writable)
    /\ UNCHANGED <<mapped, execable, writable>>
MemWrite(from, to, w) ==
    /\ CopyIn(from, to, w, mapped)
    /\ UNCHANGED <<mapped, execable, writable>>

(* copy compares what it writes to an executable page with what is there.  *)
TouchesCode(from, to, w, need) ==
    \E x \in Copied(from, to, need) : PageOf(x) \in execable /\ mem[x] # w[x]

(***************************************************************************)
(* MemMap, MemUnmap and MemProtect on a range of pages.  MemMap fails,     *)
(* changing nothing, if one of them is mapped; the other two skip the      *)
(* pages that are not.  A new page reads as zeros.                         *)
(***************************************************************************)
Ranges == {r \in SUBSET Page : r # {} /\ \A x, y \in r : x..y \subseteq r}

MemMap(r, perm) ==
    /\ r \cap mapped = {}
    /\ mapped' = mapped \cup r
    /\ execable' = IF "x" \in perm THEN execable \cup r ELSE execable
    /\ writable' = IF "w" \in perm THEN writable \cup r ELSE writable
    /\ mem' = [a \in Addr |-> IF PageOf(a) \in r THEN Zero ELSE mem[a]]

MemUnmap(r) ==
    /\ mapped' = mapped \ r
    /\ execable' = execable \ r
    /\ writable' = writable \ r
    /\ UNCHANGED mem

MemProtect(r, perm) ==
    /\ execable' = IF "x" \in perm THEN execable \cup (r \cap mapped) ELSE execable \ r
    /\ writable' = IF "w" \in perm THEN writable \cup (r \cap mapped) ELSE writable \ r
    /\ UNCHANGED <<mem, mapped>>

(***************************************************************************)
(* decodeOne: an instruction is fetched unit by unit from executable       *)
(* pages; what is decoded does not depend on registers.  (at is where it   *)
(* was decoded, which the engine does not keep.)                           *)
(***************************************************************************)
Length(u) == IF u \in Long THEN 2 ELSE 1
Fetchable(a) ==
    /\ Accessible(a, execable)
    /\ mem[a] \in Long => Accessible(a + 1, execable)
Decode(a) == [at |-> a, op |-> mem[a], imm |-> IF mem[a] \in Long THEN mem[a + 1] ELSE Zero]
=============================================================================
