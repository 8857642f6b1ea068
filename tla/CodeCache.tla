----------------------------- MODULE CodeCache -----------------------------
(***************************************************************************)
(* internal/cpu: the fetch loop of EmuStart with its caches.  Decoded      *)
(* instructions are kept by address, basic blocks in a direct-mapped       *)
(* table, and both are dropped at once when Memory.codeDirty says that     *)
(* code or the mapping may have changed.  One goroutine runs an engine;    *)
(* what makes it hard is the order of stores, polls and lookups.           *)
(***************************************************************************)
EXTENDS GuestMemory, Sequences

CONSTANTS Slots,       \* blockCacheSize
          MaxBlock,    \* maxBlockInstructions
          MaxGen,      \* bound: how often the caches are dropped
          None

ASSUME CacheAssumption ==
    /\ Slots \in Nat \ {0} /\ MaxBlock \in Nat \ {0} /\ MaxGen \in Nat
    /\ None \notin Unit

VARIABLES
    rip, end,      \* Registers.rip; curInstrEnd while a hook runs
    codeDirty,     \* Memory.codeDirty
    decodeCache,   \* decodeCache[a]: the decoded instruction at a, or None
    blockCache,    \* blockCache[slot]: a basic block, or None
    cachedBlock,   \* the block used last, or None
    gen,           \* blockCacheGeneration
    jit,           \* Engine.blockJIT
    mode,          \* where the fetch loop is
    block,         \* the block being compiled or executed
    pc             \* compileBlock's or executeBlock's pc

caches == <<decodeCache, blockCache, cachedBlock, gen>>
loop == <<block, pc>>
vars == <<memory, rip, end, codeDirty, caches, jit, mode, loop>>

NoInstr == [at |-> -1, op |-> None, imm |-> None]
NoBlock == [start |-> 0, gen |-> -1, code |-> <<>>]
Slot == 0..(Slots - 1)
SlotOf(a) == (a \div 2) % Slots

(* NewEngine.                                                              *)
Init ==
    /\ MemoryInit
    /\ rip = 0 /\ end = 0 /\ pc = 0
    /\ codeDirty = FALSE
    /\ jit \in BOOLEAN
    /\ decodeCache = [a \in Addr |-> NoInstr]
    /\ blockCache = [s \in Slot |-> NoBlock]
    /\ cachedBlock = NoBlock /\ block = NoBlock
    /\ gen = 0
    /\ mode = "idle"

-----------------------------------------------------------------------------
(***************************************************************************)
(* The host's calls into Memory: the loader's before EmuStart, a system    *)
(* call's from inside the hook.  Each change of the mapping sets codeDirty *)
(* whatever it changes; a write sets it if it changes executable bytes.    *)
(***************************************************************************)
CanDirty == gen < MaxGen

HostMap(r, perm) ==
    /\ mode \in {"idle", "hook"}
    /\ CanDirty
    /\ MemMap(r, perm)
    /\ codeDirty' = TRUE
    /\ UNCHANGED <<rip, end, caches, jit, mode, loop>>

HostUnmap(r) ==
    /\ mode \in {"idle", "hook"}
    /\ CanDirty
    /\ MemUnmap(r)
    /\ codeDirty' = TRUE
    /\ UNCHANGED <<rip, end, caches, jit, mode, loop>>

(* Mutant: mprotect leaves codeDirty alone.                                *)
HostProtectClean(r, perm) ==
    /\ mode \in {"idle", "hook"}
    /\ CanDirty
    /\ MemProtect(r, perm)
    /\ UNCHANGED <<rip, end, codeDirty, caches, jit, mode, loop>>

HostProtect(r, perm) ==
    /\ mode \in {"idle", "hook"}
    /\ CanDirty
    /\ MemProtect(r, perm)
    /\ codeDirty' = TRUE
    /\ UNCHANGED <<rip, end, caches, jit, mode, loop>>

(* A fault leaves the flag as the pages copied before it have set it.      *)
HostWrite(from, to, w) ==
    /\ mode \in {"idle", "hook"}
    /\ CanDirty
    /\ MemWrite(from, to, w)
    /\ codeDirty' = (codeDirty \/ TouchesCode(from, to, w, mapped))
    /\ UNCHANGED <<rip, end, caches, jit, mode, loop>>

EmuStart(begin) ==
    /\ mode = "idle"
    /\ rip' = begin
    /\ mode' = "poll"
    /\ UNCHANGED <<memory, end, codeDirty, caches, jit, loop>>

(* SYSCALL goes on after the hook; CPUID's hook stops the engine and Run   *)
(* starts it again behind the instruction, with the caches it had.         *)
HookReturns ==
    /\ mode = "hook"
    /\ rip' = end
    /\ mode' = "poll"
    /\ UNCHANGED <<memory, end, codeDirty, caches, jit, loop>>

(* exit and execve call EmuStop and the engine is not started again.       *)
EmuStop ==
    /\ mode = "hook"
    /\ mode' = "halt"
    /\ UNCHANGED <<memory, rip, end, codeDirty, caches, jit, loop>>

(* Engine.Clone, in fork's hook; the model goes on with the child, started *)
(* behind the SYSCALL: a copy of the memory, whose codeDirty is clear, and *)
(* caches of its own.  (Its generation starts at 0; with nothing cached    *)
(* the number says nothing: the model counts on, so that MaxGen bounds it.)*)
Clone ==
    /\ mode = "hook"
    /\ decodeCache' = [a \in Addr |-> NoInstr]
    /\ blockCache' = [s \in Slot |-> NoBlock]
    /\ cachedBlock' = NoBlock /\ block' = NoBlock
    /\ pc' = 0
    /\ codeDirty' = FALSE
    /\ rip' = end
    /\ mode' = "poll"
    /\ UNCHANGED <<memory, end, gen, jit>>

-----------------------------------------------------------------------------
(***************************************************************************)
(* The top of the loop: poll codeDirty, then look the instruction up.      *)
(***************************************************************************)
(* Mutant: the generation is not advanced, old blocks stay valid.          *)
InvalidateSameGeneration ==
    /\ decodeCache' = [a \in Addr |-> NoInstr]
    /\ cachedBlock' = NoBlock
    /\ UNCHANGED <<blockCache, gen>>

InvalidateCodeCaches ==
    /\ decodeCache' = [a \in Addr |-> NoInstr]
    /\ cachedBlock' = NoBlock
    /\ gen' = gen + 1
    /\ UNCHANGED blockCache

Poll ==
    /\ mode = "poll"
    /\ codeDirty' = FALSE
    /\ IF codeDirty THEN InvalidateCodeCaches ELSE UNCHANGED caches
    /\ mode' = IF jit THEN "fetch" ELSE "step"
    /\ UNCHANGED <<memory, rip, end, jit, loop>>

Valid(b, a) == b # NoBlock /\ b.start = a /\ b.gen = gen

(* cachedBlockAt: the block used last, else the one in its slot.           *)
CachedBlockAt(a) ==
    IF Valid(cachedBlock, a) THEN cachedBlock
    ELSE IF Valid(blockCache[SlotOf(a)], a) THEN blockCache[SlotOf(a)] ELSE NoBlock

BlockHit ==
    /\ mode = "fetch"
    /\ CachedBlockAt(rip) # NoBlock
    /\ block' = CachedBlockAt(rip)
    /\ cachedBlock' = CachedBlockAt(rip)
    /\ pc' = 1
    /\ mode' = "block"
    /\ UNCHANGED <<memory, rip, end, codeDirty, decodeCache, blockCache, gen, jit>>

BlockMiss ==
    /\ mode = "fetch"
    /\ CachedBlockAt(rip) = NoBlock
    /\ block' = [start |-> rip, gen |-> gen, code |-> <<>>]
    /\ pc' = rip
    /\ mode' = "compile"
    /\ UNCHANGED <<memory, rip, end, codeDirty, caches, jit>>

-----------------------------------------------------------------------------
(***************************************************************************)
(* cachedDecode and decodeOne; compileBlock appends instructions while     *)
(* they stay in the page of the first and do not end the block.            *)
(***************************************************************************)
Hit(a) == a \in Addr /\ decodeCache[a] # NoInstr
Decodable(a) == Hit(a) \/ Fetchable(a)
CachedDecode(a) == IF Hit(a) THEN decodeCache[a] ELSE Decode(a)

EndsBlock ==
    \/ Len(block.code) = MaxBlock
    \/ PageOf(pc) # PageOf(block.start)
    \/ Len(block.code) > 0 /\ block.code[Len(block.code)].op \in Branch

AtHook(a) == Decodable(a) /\ CachedDecode(a).op \in Hook
AtPlain(a) == Decodable(a) /\ CachedDecode(a).op \notin Hook
Fill(a) == decodeCache' = [decodeCache EXCEPT ![a] = CachedDecode(a)]

CompileMore ==
    /\ mode = "compile"
    /\ ~EndsBlock
    /\ AtPlain(pc)
    /\ Fill(pc)
    /\ block' = [block EXCEPT !.code = Append(@, CachedDecode(pc))]
    /\ pc' = pc + Length(CachedDecode(pc).op)
    /\ UNCHANGED <<memory, rip, end, codeDirty, blockCache, cachedBlock, gen, jit, mode>>

(* The block ends: full, at the page's end, after a branch, before a hook  *)
(* or before what cannot be decoded.                                       *)
CompileDone ==
    /\ mode = "compile"
    /\ Len(block.code) > 0
    /\ \/ EndsBlock /\ UNCHANGED decodeCache
       \/ ~EndsBlock /\ AtHook(pc) /\ Fill(pc)
       \/ ~EndsBlock /\ ~Decodable(pc) /\ UNCHANGED decodeCache
    /\ blockCache' = [blockCache EXCEPT ![SlotOf(block.start)] = block]
    /\ cachedBlock' = block
    /\ pc' = 1
    /\ mode' = "block"
    /\ UNCHANGED <<memory, rip, end, codeDirty, gen, jit, block>>

(* compileBlock returns nil: the first instruction is a hook's.            *)
CompileNone ==
    /\ mode = "compile"
    /\ Len(block.code) = 0
    /\ AtHook(pc)
    /\ Fill(pc)
    /\ mode' = "step"
    /\ UNCHANGED <<memory, rip, end, codeDirty, blockCache, cachedBlock, gen, jit, loop>>

FetchFault ==
    /\ \/ mode = "compile" /\ Len(block.code) = 0 /\ ~Decodable(pc)
       \/ mode = "step" /\ ~Decodable(rip)
    /\ mode' = "halt"
    /\ UNCHANGED <<memory, rip, end, codeDirty, caches, jit, loop>>

-----------------------------------------------------------------------------
(***************************************************************************)
(* decoded.exec of instruction d: an optional store of up to two units, a  *)
(* branch if it is one.  A fault ends the emulation.                       *)
(***************************************************************************)
NoStore == UNCHANGED <<memory, codeDirty>>

Stores(from, to, w) ==
    /\ CanDirty
    /\ Store(from, to, w)
    /\ codeDirty' = (codeDirty \/ TouchesCode(from, to, w, writable))

Moves(d) ==
    \/ rip' = rip + Length(d.op)
    \/ d.op \in Branch /\ rip' \in Addr

ExecFault ==
    /\ \/ NoStore
       \/ \E a \in Addr, n \in 0..1 : \E w \in [a..(a + n) -> Unit] :
             Faults(a, a + n, writable) /\ Stores(a, a + n, w)
    /\ mode' = "halt"
    /\ UNCHANGED <<rip, end, caches, jit, loop>>

Executes(d) ==
    /\ \/ NoStore
       \/ \E a \in Addr, n \in 0..1 : \E w \in [a..(a + n) -> Unit] :
             ~Faults(a, a + n, writable) /\ Stores(a, a + n, w)
    /\ Moves(d)

(* The interpreter's path through the loop, one instruction at a time.     *)
Interpret ==
    /\ mode = "step"
    /\ AtPlain(rip)
    /\ Executes(CachedDecode(rip))
    /\ Fill(rip)
    /\ mode' = "poll"
    /\ UNCHANGED <<end, blockCache, cachedBlock, gen, jit, loop>>

InterpretFault ==
    /\ mode = "step"
    /\ AtPlain(rip)
    /\ ExecFault

CallHook ==
    /\ mode = "step"
    /\ AtHook(rip)
    /\ Fill(rip)
    /\ end' = rip + Length(CachedDecode(rip).op)
    /\ mode' = "hook"
    /\ UNCHANGED <<memory, rip, codeDirty, blockCache, cachedBlock, gen, jit, loop>>

-----------------------------------------------------------------------------
(***************************************************************************)
(* executeBlock: instruction pc of the block; codeDirty is consumed after  *)
(* each one, and at the block's end the next block is chained to if it is  *)
(* cached.                                                                 *)
(***************************************************************************)
(* Mutant: executeBlock does not look at codeDirty between instructions.   *)
BlockExecUnpolled ==
    /\ mode = "block"
    /\ Executes(block.code[pc])
    /\ pc < Len(block.code)
    /\ pc' = pc + 1
    /\ UNCHANGED <<end, caches, jit, mode, block>>

BlockExec ==
    /\ mode = "block"
    /\ Executes(block.code[pc])
    /\ ~codeDirty'
    /\ pc < Len(block.code)
    /\ pc' = pc + 1
    /\ UNCHANGED <<end, caches, jit, mode, block>>

BlockExecDirty ==
    /\ mode = "block"
    /\ \E a \in Addr, n \in 0..1 : \E w \in [a..(a + n) -> Unit] :
          /\ ~Faults(a, a + n, writable)
          /\ CanDirty
          /\ Store(a, a + n, w)
          /\ TouchesCode(a, a + n, w, writable)
    /\ Moves(block.code[pc])
    /\ codeDirty' = FALSE
    /\ InvalidateCodeCaches
    /\ mode' = "poll"
    /\ block' = NoBlock
    /\ pc' = 0
    /\ UNCHANGED <<end, jit>>

BlockExecLast ==
    /\ mode = "block"
    /\ pc = Len(block.code)
    /\ Executes(block.code[pc])
    /\ ~codeDirty'
    /\ block' = CachedBlockAt(rip')
    /\ IF CachedBlockAt(rip') = NoBlock
       THEN mode' = "poll" /\ pc' = 0 /\ UNCHANGED cachedBlock
       ELSE mode' = "block" /\ pc' = 1 /\ cachedBlock' = CachedBlockAt(rip')
    /\ UNCHANGED <<end, decodeCache, blockCache, gen, jit>>

BlockFault ==
    /\ mode = "block"
    /\ ExecFault

-----------------------------------------------------------------------------
Host ==
    \/ \E r \in Ranges, perm \in Perms : HostMap(r, perm)
    \/ \E r \in Ranges : HostUnmap(r)
    \/ \E r \in Ranges, perm \in Perms : HostProtect(r, perm)
    \/ \E a \in Addr, n \in 0..1 : \E w \in [a..(a + n) -> Unit] : HostWrite(a, a + n, w)
    \/ \E begin \in Addr : EmuStart(begin)
    \/ HookReturns \/ EmuStop \/ Clone

Engine ==
    \/ Poll \/ BlockHit \/ BlockMiss
    \/ CompileMore \/ CompileDone \/ CompileNone \/ FetchFault
    \/ Interpret \/ InterpretFault \/ CallHook
    \/ BlockExec \/ BlockExecDirty \/ BlockExecLast \/ BlockFault

Next == Host \/ Engine

Spec == Init /\ [][Next]_vars

-----------------------------------------------------------------------------
(* What is cached is what memory holds, and the pages still allow it.      *)
Current(d) == Fetchable(d.at) /\ Decode(d.at) = d
CurrentBlock(b) ==
    b.gen = gen =>
        /\ \A i \in 1..Len(b.code) : Current(b.code[i])
        /\ Len(b.code) > 0 => b.code[1].at = b.start
        /\ \A i \in 1..(Len(b.code) - 1) :
              /\ b.code[i + 1].at = b.code[i].at + Length(b.code[i].op)
              /\ b.code[i].op \notin Branch

(* Safety.  Unless codeDirty is set, every decoded instruction and every   *)
(* block of the current generation is what the pages hold now and may      *)
(* execute, whatever was stored, mapped, unmapped or protected since.      *)
CachesCurrent ==
    ~codeDirty =>
        /\ \A a \in Addr : decodeCache[a] # NoInstr => Current(decodeCache[a])
        /\ CurrentBlock(cachedBlock)
        /\ \A s \in Slot : CurrentBlock(blockCache[s])

(* Safety.  executeBlock runs the instruction rip points at, and no block  *)
(* is looked up, compiled or run while codeDirty is set.                   *)
BlockFollowsRip ==
    /\ mode \in {"fetch", "compile", "step", "block"} => ~codeDirty
    /\ mode = "block" => pc \in 1..Len(block.code) /\ block.code[pc].at = rip

Plain == INSTANCE PlainCpu WITH
    status <- IF mode \in {"idle", "hook", "halt"} THEN mode ELSE "run"

(* Refinement.  With or without blocks, the engine executes what a machine *)
(* without caches would: self-modifying code, code loaded over old code    *)
(* and code whose page lost its permission included.                       *)
ImplementsPlain == Plain!PlainSpec
=============================================================================
