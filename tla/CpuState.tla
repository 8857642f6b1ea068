------------------------------ MODULE CpuState ------------------------------
(***************************************************************************)
(* internal/cpu registers.go, operand.go, modrm.go and the access path of  *)
(* memory.go: the state of one engine and the operands of an instruction.  *)
(*                                                                         *)
(* A machine m is a record: gpr, rip, end (curInstrEnd), flags (the set of *)
(* the EFLAGS bits that are on), fs and gs (the segment bases), xmm and    *)
(* yhi (ymmHi), mxcsr, mem (the bytes of the area that may be mapped),     *)
(* perm (the protection of each page, {} where none is mapped) and err,    *)
(* what exec returned, or "stop" when a hook has stopped the engine.       *)
(* An instruction i is a record of what its bytes say: pfx, the set of its *)
(* prefixes and REX bits, byte, whether its opcode is the 8-bit one, mr,   *)
(* its ModRM, SIB and displacement, imm, its immediate, and insnID, the    *)
(* tag that the decoder has given it.                                      *)
(***************************************************************************)
EXTENDS Words

CONSTANTS PageBytes,  \* bytes of a page
          NumPages    \* bound: the pages of the address space
ASSUME PagesAssumption == PageBytes \in Nat \ {0} /\ NumPages \in Nat \ {0}

RAX == 0
RCX == 1
RDX == 2
RBX == 3
RSP == 4
RBP == 5
RSI == 6
RDI == 7
Reg == 0..15
NoReg == -1              \* haveBase, haveIndex = false
Flag == {"CF", "PF", "AF", "ZF", "SF", "DF", "OF"}
MemBytes == NumPages * PageBytes
(* The tags of a decoded instruction: insnID is the hook that runs in its  *)
(* place, or noInsnHook.                                                   *)
InsSyscall == 0
InsCpuid == 1
noInsnHook == -1
Vector == [1..16 -> 0..(Modulus(1) - 1)]

Machine ==
    [gpr : [Reg -> 0..(Modulus(8) - 1)], rip : 0..(Modulus(8) - 1),
     end : 0..(Modulus(8) - 1), flags : SUBSET Flag,
     fs : 0..(Modulus(8) - 1), gs : 0..(Modulus(8) - 1),
     xmm : [Reg -> Vector], yhi : [Reg -> Vector], mxcsr : 0..(Modulus(4) - 1),
     mem : [0..(MemBytes - 1) -> 0..(Modulus(1) - 1)],
     perm : [0..(NumPages - 1) -> SUBSET {"r", "w"}],
     err : {"ok", "fault", "error", "panic", "stop"}]

-----------------------------------------------------------------------------
(* The registers: AH, CH, DH and BH are the 8-bit registers 4 to 7 when no *)
(* REX prefix is present; a 32-bit write clears the upper half.            *)
read8(m, idx, rex) ==
    IF ~rex /\ idx \in 4..7 THEN (m.gpr[idx - 4] \div Modulus(1)) % Modulus(1)
                            ELSE Trunc(m.gpr[idx], 1)
readWidth(m, idx, w, rex) == IF w = 1 THEN read8(m, idx, rex) ELSE Trunc(m.gpr[idx], w)

(* g with its bytes from..from+w-1 replaced by those of v.                 *)
Insert(g, from, w, v) ==
    g - ((g \div Modulus(from)) % Modulus(w)) * Modulus(from)
      + Trunc(v, w) * Modulus(from)
write8(m, idx, rex, v) ==
    IF ~rex /\ idx \in 4..7 THEN [m EXCEPT !.gpr[idx - 4] = Insert(@, 1, 1, v)]
                            ELSE [m EXCEPT !.gpr[idx] = Insert(@, 0, 1, v)]
writeWidth(m, idx, w, rex, v) ==
    CASE w = 1 -> write8(m, idx, rex, v)
      [] w = 2 -> [m EXCEPT !.gpr[idx] = Insert(@, 0, 2, v)]
      [] OTHER -> [m EXCEPT !.gpr[idx] = Trunc(v, w)]

(* writeXMM, the SSE rule; writeXMMVex, the VEX.128 rule; writeYMM.        *)
(* Mutation: the SSE rule is the VEX rule.                                 *)
writeXMMClears(m, x, v) == [m EXCEPT !.xmm[x] = v, !.yhi[x] = Zeros(16)]
writeXMM(m, x, v) == [m EXCEPT !.xmm[x] = v]
writeXMMVex(m, x, v) == [m EXCEPT !.xmm[x] = v, !.yhi[x] = Zeros(16)]
writeYMM(m, x, lo, hi) == [m EXCEPT !.xmm[x] = lo, !.yhi[x] = hi]

-----------------------------------------------------------------------------
(* Memory.copy with a required permission: page after page, so that a      *)
(* write that faults has written the bytes before the faulting page.       *)
At(a, k) == (a + k) % Modulus(8)
Allowed(m, a, p) == a < MemBytes /\ p \in m.perm[a \div PageBytes]
CanAccess(m, a, n, p) == \A k \in 0..(n - 1) : Allowed(m, At(a, k), p)

Fault(m) == [m EXCEPT !.err = "fault"]
Fail(m, why) == [m EXCEPT !.err = why]

readChecked(m, a, n) == [k \in 1..n |-> m.mem[At(a, k - 1)]]
writeChecked(m, a, b) ==
    LET done == {k \in 1..Len(b) : CanAccess(m, a, k, "w")}
    IN [m EXCEPT !.mem = [x \in DOMAIN @ |->
                            IF \E k \in done : At(a, k - 1) = x
                            THEN b[CHOOSE k \in done : At(a, k - 1) = x] ELSE @[x]],
                 !.err = IF done = 1..Len(b) THEN @ ELSE "fault"]

-----------------------------------------------------------------------------
(* The operands, and the address of a memory operand at execution time (0  *)
(* for a register, whose address fields are the zero values).              *)
regOperand(r, rex) == [kind |-> "reg", reg |-> r, rex |-> rex]
immOperand(v) == [kind |-> "imm", imm |-> v % Modulus(8)]
memOperand(rip, base, index, scale, disp) ==
    [kind |-> "mem", rip |-> rip, baseIndex |-> ~rip, base |-> base, index |-> index,
     scale |-> scale, disp |-> disp, addr |-> 0, seg |-> "none"]

effAddr(m, o) ==
    LET Content(r) == IF r = NoReg THEN 0 ELSE m.gpr[r]
        addr == CASE o.rip -> m.end + o.disp
                  [] o.baseIndex -> Content(o.base) + Content(o.index) * o.scale + o.disp
                  [] OTHER -> o.addr
        segBase == CASE o.seg = "fs" -> m.fs
                     [] o.seg = "gs" -> m.gs
                     [] OTHER -> 0
    IN IF o.kind # "mem" THEN 0 ELSE (addr + segBase) % Modulus(8)

CanRead(m, o, w) == o.kind = "mem" => CanAccess(m, effAddr(m, o), w, "r")
readOperand(m, o, w) ==
    CASE o.kind = "reg" -> readWidth(m, o.reg, w, o.rex)
      [] o.kind = "imm" -> o.imm
      [] o.kind = "mem" -> leToU64(readChecked(m, effAddr(m, o), w))
writeOperand(m, o, w, v) ==
    IF o.kind = "reg" THEN writeWidth(m, o.reg, w, o.rex, v)
                      ELSE writeChecked(m, effAddr(m, o), u64ToLE(v, w))

(* "v, err := readOperand(o, w); if err != nil { return err }" and what    *)
(* the handler does with v.                                                *)
Reading(m, o, w, Then(_)) ==
    IF CanRead(m, o, w) THEN Then(readOperand(m, o, w)) ELSE Fault(m)

-----------------------------------------------------------------------------
(* Prefixes: the operand width, the REX extensions, the segment override,  *)
(* which a RIP-relative operand does not take.                             *)
Rex(i) == i.pfx \cap {"rex", "rexW", "rexR", "rexX", "rexB"} # {}
Width(i) == CASE i.byte -> 1
              [] ~i.byte /\ "rexW" \in i.pfx -> 8
              [] ~i.byte /\ "rexW" \notin i.pfx /\ "66" \in i.pfx -> 2
              [] OTHER -> 4
applySeg(i, o) ==
    IF o.kind # "mem" \/ o.rip THEN o
    ELSE [o EXCEPT !.seg = CASE "fs" \in i.pfx -> "fs"
                             [] "fs" \notin i.pfx /\ "gs" \in i.pfx -> "gs"
                             [] OTHER -> "none"]

(* decodeModRM: mr has the fields mod, reg and rm of the ModRM byte, of    *)
(* the SIB byte the scale (as a factor), index and base, and disp.         *)
Extended(i, bit, r) == r + (IF bit \in i.pfx THEN 8 ELSE 0)
(* Mutation: R12 is taken for "no index", as RSP is.                       *)
decodeModRMNoR12(i) ==
    LET mr == i.mr
    IN CASE mr.mod = 3 -> regOperand(Extended(i, "rexB", mr.rm), Rex(i))
         [] mr.mod # 3 /\ mr.rm = 4 ->
               memOperand(FALSE,
                          IF mr.base = 5 /\ mr.mod = 0 THEN NoReg
                                                      ELSE Extended(i, "rexB", mr.base),
                          IF mr.index = 4 THEN NoReg ELSE Extended(i, "rexX", mr.index), mr.scale,
                          IF mr.mod = 0 /\ mr.base # 5 THEN 0 ELSE mr.disp)
         [] mr.mod = 0 /\ mr.rm = 5 -> memOperand(TRUE, NoReg, NoReg, 1, mr.disp)
         [] OTHER -> memOperand(FALSE, Extended(i, "rexB", mr.rm), NoReg, 1,
                                IF mr.mod = 0 THEN 0 ELSE mr.disp)
decodeModRM(i) ==
    LET mr == i.mr
        index == Extended(i, "rexX", mr.index)
    IN CASE mr.mod = 3 -> regOperand(Extended(i, "rexB", mr.rm), Rex(i))
         [] mr.mod # 3 /\ mr.rm = 4 ->
               memOperand(FALSE,
                          IF mr.base = 5 /\ mr.mod = 0 THEN NoReg
                                                      ELSE Extended(i, "rexB", mr.base),
                          IF index = 4 THEN NoReg ELSE index, mr.scale,
                          IF mr.mod = 0 /\ mr.base # 5 THEN 0 ELSE mr.disp)
         [] mr.mod = 0 /\ mr.rm = 5 -> memOperand(TRUE, NoReg, NoReg, 1, mr.disp)
         [] OTHER -> memOperand(FALSE, Extended(i, "rexB", mr.rm), NoReg, 1,
                                IF mr.mod = 0 THEN 0 ELSE mr.disp)
RmOf(i) == applySeg(i, decodeModRM(i))
RegOf(i) == regOperand(Extended(i, "rexR", i.mr.reg), Rex(i))
=============================================================================
