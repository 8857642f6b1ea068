----------------------------- MODULE GuestCode -----------------------------
(***************************************************************************)
(* Guest programs for the engine, and what must hold when one has run.     *)
(* A program is short, but it always has the instructions whose agreement  *)
(* compiled code relies on: a comparison and the branches that read its    *)
(* flags, the two halves of a wide sum, a product and the division that    *)
(* undoes it, a copy loop that runs into an unmapped page, and the VEX     *)
(* form of an operation after its SSE form.  A property names its programs *)
(* by run.law and compares the machine at their end with the one they      *)
(* started from; run.p has the operands.                                   *)
(***************************************************************************)
EXTENDS Cpu, FiniteSets, TLC

(* The fields of an instruction that uses none of them.                    *)
NoModRM == [mod |-> 3, reg |-> 0, rm |-> 0, scale |-> 1, index |-> 0, base |-> 0, disp |-> 0]
Plain == [group |-> "Mov", pfx |-> {}, byte |-> FALSE, mr |-> NoModRM, imm |-> 0, op |-> "",
          idx |-> 0, toReg |-> TRUE, form |-> "rm", reg |-> 0, cc |-> 0, srcW |-> 1,
          signed |-> FALSE, left |-> TRUE, lane |-> 4, high |-> FALSE, vvvv |-> 0, L |-> FALSE,
          insnID |-> noInsnHook]
I(group, fields) == fields @@ [Plain EXCEPT !.group = group]
SYSCALL == I("Syscall", [insnID |-> InsSyscall])
CPUID == I("Cpuid", [insnID |-> InsCpuid])
WidthPfx(w) == CASE w = 8 -> {"rexW"} [] w = 2 -> {"66"} [] w = 1 -> {"rex"} [] OTHER -> {}
Sized(w) == [pfx |-> WidthPfx(w), byte |-> w = 1]
(* ModRM bytes: two registers; a register and memory at base + disp.       *)
RegReg(reg, rm) == [mr |-> [NoModRM EXCEPT !.reg = reg, !.rm = rm]]
RegMem(reg, base, disp) ==
    [mr |-> [NoModRM EXCEPT !.mod = 2, !.reg = reg, !.rm = base, !.disp = disp]]
Pfx(p) == [pfx |-> p]

(* A machine: a page that is not mapped, two of data and stack, one that   *)
(* is read-only.  Every register starts with a pattern that shows which    *)
(* bytes of it a step has changed.                                         *)
Fresh ==
    [gpr |-> [r \in Reg |-> IF r = RSP THEN 3 * PageBytes ELSE (r * 4369 + 27030) % Modulus(8)],
     rip |-> 1, end |-> 1, flags |-> {}, fs |-> 4, gs |-> 8,
     xmm |-> [x \in Reg |-> [j \in 1..16 |-> (x + 3 * j + j \div 4) % Modulus(1)]],
     yhi |-> [x \in Reg |-> [j \in 1..16 |-> (2 * x + j + 1) % Modulus(1)]],
     mxcsr |-> 33, mem |-> [a \in 0..(MemBytes - 1) |-> (a + a \div 5) % Modulus(1)],
     perm |-> [p \in 0..(NumPages - 1) |-> CASE p = 0 -> {}
                                             [] p = NumPages - 1 -> {"r"}
                                             [] OTHER -> {"r", "w"}],
     err |-> "ok"]
Put(s, r, w, v) == [s EXCEPT !.gpr[r] = Insert(@, 0, w, v)]
Set(s, r, v) == [s EXCEPT !.gpr[r] = v]
P(w, a, b, c) == [w |-> w, a |-> a, b |-> b, c |-> c]
Program(law, code, s, p) ==
    [law |-> law, code |-> code, m |-> s, p |-> p, hooks |-> {InsSyscall, InsCpuid}]
Unhooked(r) == [r EXCEPT !.hooks = {}]

Halted == m.rip \notin DOMAIN run.code /\ m.err = "ok"
Done(law) == run.law = law /\ Halted
(* The operands at the edges of their width.                               *)
Edges(w) == IF w = 1 THEN 0..(Modulus(1) - 1)
            ELSE {0, 1, signBit(w) - 1, signBit(w), Modulus(w) - 1}
Low4(w) == {0, 1, signBit(w), Modulus(w) - 1}
R(r, w) == Trunc(m.gpr[r], w)
=============================================================================
