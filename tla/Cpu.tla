-------------------------------- MODULE Cpu --------------------------------
(***************************************************************************)
(* The execution of guest code by internal/cpu: one engine, the code it    *)
(* runs and the cache of its decoded instructions.                         *)
(*                                                                         *)
(* run is the guest program: code, an instruction for each address (an     *)
(* instruction is one address long), the machine it starts with, the hooks *)
(* that are installed and the name of what it is about.  bt holds, for the *)
(* addresses where a register form of BT, BTS, BTR or BTC was decoded, the *)
(* variables its closure has captured; the closure of any other            *)
(* instruction holds nothing that changes.                                 *)
(*                                                                         *)
(* EmuStart looks at the tag of a decoded instruction first: an            *)
(* instruction with insnID = noInsnHook is executed by its closure, one    *)
(* with another tag by the hook of that name, its closure is not called.   *)
(* SYSCALL and CPUID are tagged so by decodeTwoByte, and every VEX         *)
(* instruction is, as a SYSCALL, by vexFinish.                             *)
(***************************************************************************)
EXTENDS AvxCpu

CONSTANTS Runs,         \* the programs, each with a machine to start from
          CallResults,  \* bound: the values that a hook puts into a register
          CallPages     \* bound: the pages that a system call writes or maps

(* What the decoder makes of an opcode: the forms of an instruction that   *)
(* its handler tells apart.                                                *)
Decoded(i) ==
    /\ i.group = "Test" => i.form \in {"rm", "acc", "imm"}
    /\ i.group = "Mov" => i.form \in {"rm", "imm", "short"}
    /\ i.group = "Push" => i.form \in {"reg", "imm", "rm"}
    /\ i.group = "Group3" => i.idx \in 2..7
    /\ i.group \in {"Bt", "BtImm"} => i.op \in {"bt", "bts", "btr", "btc"}
    /\ i.group = "BitScan" => i.op \in {"tzcnt", "lzcnt", "bsf", "bsr", "popcnt"}
    /\ i.group = "String" => i.op \in {"movs", "stos", "lods", "cmps", "scas", "cld", "std"}
    /\ i.group = "MovdQ" => \/ i.op \in {"movdLoad", "movdStore", "movqStore"}
                            \/ i.op = "movq" /\ Kind(i) = "ss"
    /\ i.group = "VexMovdQ" => \/ i.op \in {"movdLoad", "movdStore"}
                               \/ i.op = "movq" /\ Kind(i) = "ss"
    /\ i.insnID = CASE i.group \in VexGroups \cup {"Syscall"} -> InsSyscall
                    [] i.group = "Cpuid" -> InsCpuid
                    [] OTHER -> noInsnHook
ASSUME RunsAssumption ==
    \A r \in Runs : r.m \in Machine /\ \A a \in DOMAIN r.code : Decoded(r.code[a])
ASSUME CallsAssumption ==
    CallResults \subseteq 0..(Modulus(8) - 1) /\ CallPages \subseteq 0..(NumPages - 1)

VARIABLES run, m, bt
vars == <<run, m, bt>>

Init == /\ run \in Runs
        /\ m = run.m
        /\ bt = <<>>

Insn == run.code[m.rip]
Running == m.err = "ok" /\ m.rip \in DOMAIN run.code
(* EmuStart, for an instruction without a hook: curInstrEnd is set, the    *)
(* closure called, and rip moved to curInstrEnd unless it branched or      *)
(* failed.                                                                 *)
Begun == LET end == (m.rip + 1) % Modulus(8) IN [m EXCEPT !.end = end, !.rip = end]
Finish(r) == IF r.err = "ok" THEN r ELSE [r EXCEPT !.rip = m.rip]
Step(group, Exec(_, _)) ==
    /\ Running
    /\ Insn.insnID = noInsnHook
    /\ Insn.group = group
    /\ m' = Finish(Exec(Begun, Insn))
    /\ UNCHANGED <<run, bt>>

DoAluRm == Step("AluRm", AluRm)
DoAluAcc == Step("AluAcc", AluAcc)
DoGroup1 == Step("Group1", Group1)
DoTest == Step("Test", Test)
DoMov == Step("Mov", Mov)
DoLea == Step("Lea", Lea)
DoXchg == Step("Xchg", Xchg)
DoMovsxd == Step("Movsxd", Movsxd)
DoSetcc == Step("Setcc", Setcc)
DoCmov == Step("Cmov", Cmov)
DoMovExtend == Step("MovExtend", MovExtend)
DoConvertAcc == Step("ConvertAcc", ConvertAcc)
DoConvertDx == Step("ConvertDx", ConvertDx)
DoGroup3 == Step("Group3", Group3)
DoImul == Step("Imul", Imul)
DoIncDec == Step("IncDec", IncDec)
DoShift == Step("Shift", Shift)
DoDoubleShift == Step("DoubleShift", DoubleShift)
DoBtImm == Step("BtImm", BtImm)
DoBitScan == Step("BitScan", BitScan)
DoBswap == Step("Bswap", Bswap)
DoCmpxchg == Step("Cmpxchg", Cmpxchg)
DoXadd == Step("Xadd", Xadd)
DoPush == Step("Push", Push)
DoPop == Step("Pop", Pop)
DoLeave == Step("Leave", Leave)
DoCall == Step("Call", Call)
DoJmp == Step("Jmp", Jmp)
DoJcc == Step("Jcc", Jcc)
DoRet == Step("Ret", Ret)
DoString == Step("String", String)
DoMoveLoad == Step("MoveLoad", MoveLoad)
DoMoveStore == Step("MoveStore", MoveStore)
DoFullMove == Step("FullMove", FullMove)
DoHalfMove == Step("HalfMove", HalfMove)
DoUnpackFloat == Step("UnpackFloat", UnpackFloat)
DoMovdQ == Step("MovdQ", MovdQ)
DoMovntdq == Step("Movntdq", Movntdq)
DoConvertInt == Step("ConvertInt", ConvertInt)
DoConvertToInt == Step("ConvertToInt", ConvertToInt)
DoConvertFloat == Step("ConvertFloat", ConvertFloat)
DoConvertDq == Step("ConvertDq", ConvertDq)
DoConvertPd == Step("ConvertPd", ConvertPd)
DoComis == Step("Comis", Comis)
DoMovmsk == Step("Movmsk", Movmsk)
DoSseArith == Step("SseArith", SseArith)
DoSseUnary == Step("SseUnary", SseUnary)
DoSseLogic == Step("SseLogic", SseLogic)
DoSseHadd == Step("SseHadd", SseHadd)
DoSseCmp == Step("SseCmp", SseCmp)
DoSseShuf == Step("SseShuf", SseShuf)
DoPshuf == Step("Pshuf", Pshuf)
DoShiftImm == Step("ShiftImm", ShiftImm)
DoShiftReg == Step("ShiftReg", ShiftReg)
DoInsertLane == Step("InsertLane", InsertLane)
DoExtractWord == Step("ExtractWord", ExtractWord)
DoExtractLane == Step("ExtractLane", ExtractLane)
DoPmovmskb == Step("Pmovmskb", Pmovmskb)
DoMxcsr == Step("Mxcsr", Mxcsr)
DoPtest == Step("Ptest", Ptest)
DoByteShuffle == Step("ByteShuffle", ByteShuffle)
DoRound == Step("Round", Round)
DoAlignRight == Step("AlignRight", AlignRight)
DoInsertSingle == Step("InsertSingle", InsertSingle)
DoDot == Step("Dot", Dot)
DoPacked60 == Step("Packed60", LAMBDA s, i : SsePacked(s, i, Packed60))
DoPacked68 == Step("Packed68", LAMBDA s, i : SsePacked(s, i, Packed68))
DoPacked74 == Step("Packed74", LAMBDA s, i : SsePacked(s, i, Packed74))
DoPackedD4 == Step("PackedD4", LAMBDA s, i : SsePacked(s, i, PackedD4))
DoPackedD8 == Step("PackedD8", LAMBDA s, i : SsePacked(s, i, PackedD8))
DoPackedE3 == Step("PackedE3", LAMBDA s, i : SsePacked(s, i, PackedE3))
DoPackedE8 == Step("PackedE8", LAMBDA s, i : SsePacked(s, i, PackedE8))
DoPackedF4 == Step("PackedF4", LAMBDA s, i : SsePacked(s, i, PackedF4))
DoPacked38 == Step("Packed38", LAMBDA s, i : SsePacked(s, i, Packed38))

(* BT and its companions with a register: the operands are decoded once    *)
(* and then taken from what the last execution left in the closure.        *)
DoBt ==
    /\ Running
    /\ Insn.insnID = noInsnHook
    /\ Insn.group = "Bt"
    /\ LET pc == m.rip
           d == IF pc \in DOMAIN bt THEN bt[pc] ELSE BtDecode(Insn)
       IN /\ m' = Finish(BtExec(Begun, Insn, d))
          /\ bt' = [a \in DOMAIN bt \cup {pc} |->
                       IF a = pc THEN BtResolve(Begun, Insn, d) ELSE bt[a]]
    /\ UNCHANGED run

-----------------------------------------------------------------------------
(* EmuStart, for an instruction with a hook.  rip is still at it when the  *)
(* hook runs; after the hook of SYSCALL rip moves to curInstrEnd, unless   *)
(* the hook has stopped the engine.                                        *)
Fetched == [m EXCEPT !.end = (m.rip + 1) % Modulus(8)]
Hooked(id) == Running /\ Insn.insnID = id /\ id \in run.hooks

(* Process.onSyscall.  Which call it is and what it computes are left out: *)
(* it puts a result into RAX, may set the FS base, and writes into mapped  *)
(* pages, whatever their protection (here, a page of zeros) ...            *)
SyscallReturns ==
    /\ Hooked(InsSyscall)
    /\ \E v \in CallResults, f \in {m.fs} \cup CallResults,
          P \in SUBSET {p \in CallPages : m.perm[p] # {}} :
          m' = [Fetched EXCEPT !.rip = Fetched.end, !.gpr[RAX] = v, !.fs = f,
                   !.mem = [a \in DOMAIN @ |-> IF a \div PageBytes \in P THEN 0 ELSE @[a]]]
    /\ UNCHANGED <<run, bt>>
(* ... or maps, unmaps or protects pages, for which the caches of decoded  *)
(* instructions are dropped; new pages are zero ...                        *)
SyscallMaps ==
    /\ Hooked(InsSyscall)
    /\ \E v \in CallResults, p \in CallPages, q \in SUBSET {"r", "w"}, fresh \in BOOLEAN :
          m' = [Fetched EXCEPT !.rip = Fetched.end, !.gpr[RAX] = v, !.perm[p] = q,
                   !.mem = [a \in DOMAIN @ |-> IF fresh /\ a \div PageBytes = p THEN 0 ELSE @[a]]]
    /\ bt' = <<>>
    /\ UNCHANGED run
(* ... or, an exit or an execve, stops the engine.                         *)
SyscallStops ==
    /\ Hooked(InsSyscall)
    /\ m' = [Fetched EXCEPT !.err = "stop"]
    /\ UNCHANGED <<run, bt>>
(* Process.onCpuid sets four registers and rip and stops the engine, and   *)
(* Run enters it again at that rip.                                        *)
CpuidReturns ==
    /\ Hooked(InsCpuid)
    /\ \E a, b, c, d \in CallResults :
          m' = [Fetched EXCEPT !.rip = Fetched.end, !.gpr[RAX] = a, !.gpr[RBX] = b,
                               !.gpr[RCX] = c, !.gpr[RDX] = d]
    /\ UNCHANGED <<run, bt>>
NoHookInstalled ==
    /\ Running
    /\ Insn.insnID # noInsnHook
    /\ Insn.insnID \notin run.hooks
    /\ m' = Fail(Fetched, "error")
    /\ UNCHANGED <<run, bt>>

IntegerStep ==
    \/ DoAluRm \/ DoAluAcc \/ DoGroup1 \/ DoTest \/ DoMov
    \/ DoLea \/ DoXchg \/ DoMovsxd \/ DoSetcc \/ DoCmov
    \/ DoMovExtend \/ DoConvertAcc \/ DoConvertDx \/ DoGroup3 \/ DoImul
    \/ DoIncDec \/ DoShift \/ DoDoubleShift \/ DoBtImm \/ DoBitScan
    \/ DoBswap \/ DoCmpxchg \/ DoXadd \/ DoPush \/ DoPop
    \/ DoLeave \/ DoCall \/ DoJmp \/ DoJcc \/ DoRet
    \/ DoString \/ DoBt
SseStep ==
    \/ DoMoveLoad \/ DoMoveStore \/ DoFullMove \/ DoHalfMove \/ DoUnpackFloat
    \/ DoMovdQ \/ DoMovntdq \/ DoConvertInt \/ DoConvertToInt \/ DoConvertFloat
    \/ DoConvertDq \/ DoConvertPd \/ DoComis \/ DoMovmsk \/ DoSseArith
    \/ DoSseUnary \/ DoSseLogic \/ DoSseHadd \/ DoSseCmp \/ DoSseShuf
    \/ DoPshuf \/ DoShiftImm \/ DoShiftReg \/ DoInsertLane \/ DoExtractWord
    \/ DoExtractLane \/ DoPmovmskb \/ DoMxcsr \/ DoPtest \/ DoByteShuffle
    \/ DoRound \/ DoAlignRight \/ DoInsertSingle \/ DoDot \/ DoPacked60
    \/ DoPacked68 \/ DoPacked74 \/ DoPackedD4 \/ DoPackedD8 \/ DoPackedE3
    \/ DoPackedE8 \/ DoPackedF4 \/ DoPacked38
HookStep == SyscallReturns \/ SyscallMaps \/ SyscallStops \/ CpuidReturns \/ NoHookInstalled
Next == IntegerStep \/ SseStep \/ HookStep
Spec == Init /\ [][Next]_vars

SseGroups == {"MoveLoad", "MoveStore", "FullMove", "HalfMove", "UnpackFloat", "MovdQ",
    "Movntdq", "ConvertInt", "ConvertToInt", "ConvertFloat", "ConvertDq", "ConvertPd",
    "Comis", "Movmsk", "SseArith", "SseUnary", "SseLogic", "SseHadd", "SseCmp", "SseShuf",
    "Pshuf", "ShiftImm", "ShiftReg", "InsertLane", "ExtractWord", "ExtractLane", "Pmovmskb",
    "Mxcsr", "Ptest", "ByteShuffle", "Round", "AlignRight", "InsertSingle", "Dot",
    "Packed60", "Packed68", "Packed74", "PackedD4", "PackedD8", "PackedE3", "PackedE8",
    "PackedF4", "Packed38"}

-----------------------------------------------------------------------------
(* What condition cc says of a and b after they have been compared.        *)
Ordered(cc, a, b, w) ==
    LET sa == Signed(a, w)  sb == Signed(b, w)  d == Trunc(a - b, w)
        c == cc \div 2
        holds == CASE c = 0 -> sa - sb # Signed(d, w)
                   [] c = 1 -> a < b
                   [] c = 2 -> a = b
                   [] c = 3 -> a <= b
                   [] c = 4 -> Negative(d, w)
                   [] c = 5 -> parity8(d)
                   [] c = 6 -> sa < sb
                   [] c = 7 -> sa <= sb
    IN holds = (cc % 2 = 0)

(* Action property.  An SSE instruction never touches the upper half of a  *)
(* YMM register.                                                           *)
UpperHalves == [][Insn.group \in SseGroups => m'.yhi = m.yhi]_vars

(* Action property.  An SSE instruction that faults, is not supported or   *)
(* panics leaves every register and flag as it was.                        *)
VectorFaultIsClean ==
    [][Insn.group \in SseGroups /\ m'.err # "ok" =>
          m' = [m EXCEPT !.err = m'.err, !.mem = m'.mem, !.end = m'.end]]_vars

(* Action property.  A VEX instruction is executed, that is, its closure   *)
(* is what changes the machine: the comment of the type decoded says that  *)
(* only SYSCALL and CPUID have the tag of a hook.  The code does not keep  *)
(* it.                                                                     *)
VexExecuted == [][Insn.group \in VexGroups => m' = Finish(VexExec(Begun, Insn))]_vars

(* What the closure of a VEX instruction i leaves of s: it changes upper   *)
(* halves of the registers i names only, a 128-bit one leaves a register   *)
(* it changes with an upper half of zeros (VPERM2F128 and VINSERTF128,     *)
(* which have no 128-bit form, write all of the register whatever L says), *)
(* and one that fails changes no register.                                 *)
Named(i) == {RegOf(i).reg} \cup (IF RmOf(i).kind = "reg" THEN {RmOf(i).reg} ELSE {})
Always256 == {"VexPerm128", "VexInsert128"}
VexLeaves(s, i) ==
    LET n == VexExec(s, i)
    IN /\ \A x \in Reg : /\ n.yhi[x] # s.yhi[x] => x \in Named(i)
                         /\ n.xmm[x] # s.xmm[x] /\ ~i.L /\ i.group \notin Always256 =>
                               n.yhi[x] = Zeros(16)
       /\ n.err # "ok" => n = [s EXCEPT !.err = n.err, !.mem = n.mem]
=============================================================================
