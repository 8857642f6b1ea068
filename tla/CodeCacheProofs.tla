-------------------------- MODULE CodeCacheProofs --------------------------
(***************************************************************************)
(* Proofs about CodeCache, for every size of the address space and of the  *)
(* caches, every instruction set and every sequence of stores, mappings    *)
(* and protections.                                                        *)
(*                                                                         *)
(* What a cache holds is current only until codeDirty is set, and what     *)
(* makes it current again is that a block of an older generation is not    *)
(* used: the invariant keeps what never depends on memory (the shape of a  *)
(* block, whose generation is at most gen) apart from what does (that its  *)
(* instructions are those memory holds).                                   *)
(***************************************************************************)
EXTENDS CodeCache, TLAPS

Instr == [at : Addr, op : Unit, imm : Unit]
Block == [start : Nat, gen : Int, code : Seq(Instr)]
Modes == {"idle", "poll", "fetch", "step", "compile", "block", "hook", "halt"}

MemoryOK ==
    /\ mem \in [Addr -> Unit]
    /\ mapped \subseteq Page /\ execable \subseteq mapped /\ writable \subseteq mapped
TypeOK ==
    /\ MemoryOK
    /\ rip \in Nat /\ end \in Nat /\ pc \in Nat /\ gen \in Nat
    /\ codeDirty \in BOOLEAN /\ jit \in BOOLEAN
    /\ decodeCache \in [Addr -> Instr \cup {NoInstr}]
    /\ blockCache \in [Slot -> Block]
    /\ cachedBlock \in Block /\ block \in Block
    /\ mode \in Modes

(* The instructions that memory holds now and that may be executed.        *)
Code == {d \in Instr : Current(d)}
(* The blocks all of whose instructions are such.                          *)
FreshBlocks == {b \in Block : \A i \in 1..Len(b.code) : b.code[i] \in Code}
(* The blocks as compileBlock makes them: instructions that follow one     *)
(* another from start on, the last one only a branch, none a hook's.       *)
Shaped ==
    {b \in Block :
        /\ Len(b.code) > 0 => b.code[1].at = b.start
        /\ \A i \in 1..(Len(b.code) - 1) :
              /\ b.code[i + 1].at = b.code[i].at + Length(b.code[i].op)
              /\ b.code[i].op \notin Branch
        /\ \A i \in 1..Len(b.code) : b.code[i].op \notin Hook}

Blocks == {cachedBlock} \cup {blockCache[s] : s \in Slot}
CacheShape ==
    /\ \A a \in Addr : decodeCache[a] # NoInstr => decodeCache[a].at = a
    /\ \A b \in Blocks : b \in Shaped /\ b.gen <= gen /\ (b # NoBlock => Len(b.code) > 0)
CacheFresh ==
    ~codeDirty =>
        /\ \A a \in Addr : decodeCache[a] # NoInstr => decodeCache[a] \in Code
        /\ \A b \in Blocks : b.gen = gen => b \in FreshBlocks

(* Where compileBlock has come to.                                         *)
CompiledTo ==
    IF Len(block.code) = 0 THEN rip
    ELSE block.code[Len(block.code)].at + Length(block.code[Len(block.code)].op)
LoopOK ==
    /\ mode \in {"fetch", "compile", "step", "block"} => ~codeDirty
    /\ mode \in {"compile", "block"} => block \in Shaped \cap FreshBlocks /\ block.gen = gen
    /\ mode = "compile" => block.start = rip /\ pc = CompiledTo
    /\ mode = "block" => pc \in 1..Len(block.code) /\ block.code[pc].at = rip

IInv == TypeOK /\ CacheShape /\ CacheFresh /\ LoopOK

-----------------------------------------------------------------------------
(* Facts about addresses, slots and the empty entries.                     *)
LEMMA AddrNat == Addr \subseteq Nat
  BY DEF Addr

LEMMA SlotType == \A a \in Nat : SlotOf(a) \in Slot
<1> SUFFICES ASSUME NEW a \in Nat PROVE SlotOf(a) \in Slot
  OBVIOUS
<1>1. a \div 2 \in Nat
  OBVIOUS
<1> QED
  BY <1>1, CacheAssumption DEF SlotOf, Slot

LEMMA EmptyEntries ==
    /\ NoInstr \notin Instr
    /\ NoBlock \in Shaped /\ NoBlock \in Block /\ NoBlock.gen = -1 /\ Len(NoBlock.code) = 0
<1>1. -1 \notin Addr
  BY DEF Addr
<1>2. NoBlock \in Block /\ NoBlock.gen = -1 /\ Len(NoBlock.code) = 0
  BY DEF NoBlock, Block
<1> QED
  BY <1>1, <1>2 DEF NoInstr, Instr, Shaped

(* What decodeOne returns where it can fetch.                              *)
LEMMA DecodeType ==
    ASSUME MemoryOK, NEW a, Fetchable(a)
    PROVE  a \in Addr /\ Decode(a) \in Instr /\ Decode(a).at = a /\ Decode(a) \in Code
<1>1. a \in Addr /\ Decode(a) \in Instr /\ Decode(a).at = a
  BY UnitAssumption DEF Fetchable, Accessible, Decode, Instr, MemoryOK
<1> QED
  BY <1>1 DEF Code, Current

(* What is in Code is what Decode finds at its place.                      *)
LEMMA CodeIs == \A d \in Code : d \in Instr /\ Fetchable(d.at) /\ Decode(d.at) = d
  BY DEF Code, Current

(* cachedDecode returns what memory holds, from the cache or not.          *)
LEMMA CachedDecodeOK ==
    ASSUME IInv, ~codeDirty, NEW a, Decodable(a)
    PROVE  /\ a \in Addr
           /\ CachedDecode(a) \in Code
           /\ CachedDecode(a).at = a
<1>1. CASE Hit(a)
  BY <1>1 DEF Hit, CachedDecode, IInv, CacheShape, CacheFresh
<1>2. CASE ~Hit(a)
  BY <1>2, DecodeType DEF Decodable, CachedDecode, IInv, TypeOK
<1> QED
  BY <1>1, <1>2

-----------------------------------------------------------------------------
(***************************************************************************)
(* Memory.  A copy that touches no code leaves Code as it is: this is what *)
(* the comparison in Memory.copy is for.                                   *)
(***************************************************************************)
LEMMA CopyType ==
    ASSUME MemoryOK, NEW from, NEW to, NEW w \in [from..to -> Unit], NEW need,
           CopyIn(from, to, w, need)
    PROVE  mem' \in [Addr -> Unit]
  BY DEF CopyIn, Copied, MemoryOK

LEMMA CopyKeepsCode ==
    ASSUME MemoryOK, NEW from, NEW to, NEW w, NEW need,
           CopyIn(from, to, w, need), ~TouchesCode(from, to, w, need), execable' = execable
    PROVE  Code \subseteq Code'
<1>1. \A x \in Addr : PageOf(x) \in execable => mem'[x] = mem[x]
  BY DEF CopyIn, TouchesCode
<1>2. ASSUME NEW a, Fetchable(a) PROVE Fetchable(a)' /\ Decode(a)' = Decode(a)
  BY <1>1, <1>2 DEF Fetchable, Accessible, Decode
<1>3. ASSUME NEW d \in Code PROVE d \in Code'
  <2>1. d \in Instr /\ Fetchable(d.at) /\ Decode(d.at) = d
    BY CodeIs
  <2>2. Fetchable(d.at)' /\ Decode(d.at)' = d
    BY <1>2, <2>1
  <2> QED
    BY <2>1, <2>2 DEF Code, Current
<1> QED
  BY <1>3

(* The caches stay good if they and Code stay, or codeDirty is set.        *)
LEMMA CachesKept ==
    ASSUME IInv, UNCHANGED caches, codeDirty' \/ (~codeDirty /\ Code \subseteq Code')
    PROVE  CacheShape' /\ CacheFresh'
<1>1. Blocks' = Blocks
  BY DEF Blocks, caches
<1>2. CacheShape'
  BY <1>1 DEF IInv, CacheShape, caches
<1>3. ASSUME ~codeDirty' PROVE FreshBlocks \subseteq FreshBlocks'
  BY <1>3 DEF FreshBlocks
<1>4. CacheFresh'
  BY <1>1, <1>3 DEF IInv, CacheFresh, caches
<1> QED
  BY <1>2, <1>4

(* A step outside of the loop that changes neither the caches nor Code.    *)
LEMMA HostKeeps ==
    ASSUME IInv, UNCHANGED <<caches, jit, loop>>, MemoryOK', codeDirty' \in BOOLEAN,
           rip' \in Nat, end' \in Nat, mode' \in {"idle", "hook", "halt", "poll"},
           codeDirty' \/ (~codeDirty /\ Code \subseteq Code')
    PROVE  IInv'
<1>1. CacheShape' /\ CacheFresh'
  BY CachesKept
<1>2. TypeOK'
  BY DEF IInv, TypeOK, caches, loop, Modes
<1>3. LoopOK'
  BY DEF LoopOK
<1> QED
  BY <1>1, <1>2, <1>3 DEF IInv

(* MemMap, MemUnmap and MemProtect leave an address space.                 *)
LEMMA MappingType ==
    ASSUME MemoryOK, NEW r \in Ranges, NEW perm \in Perms,
           MemMap(r, perm) \/ MemUnmap(r) \/ MemProtect(r, perm)
    PROVE  MemoryOK'
<1>0. r \subseteq Page
  BY DEF Ranges
<1>1. CASE MemMap(r, perm)
  BY <1>0, <1>1, UnitAssumption DEF MemMap, MemoryOK
<1>2. CASE MemUnmap(r)
  BY <1>0, <1>2 DEF MemUnmap, MemoryOK
<1>3. CASE MemProtect(r, perm)
  BY <1>0, <1>3 DEF MemProtect, MemoryOK
<1> QED
  BY <1>1, <1>2, <1>3

(* The same memory holds the same code.                                    *)
LEMMA SameCode == UNCHANGED memory => Code' = Code
<1> SUFFICES ASSUME UNCHANGED memory PROVE Code' = Code
  OBVIOUS
<1> QED
  BY DEF memory, Code, Current, Fetchable, Accessible, Decode

-----------------------------------------------------------------------------
(* The host's calls.                                                       *)
LEMMA HostMapIInv ==
    ASSUME IInv, NEW r \in Ranges, NEW perm \in Perms,
           HostMap(r, perm) \/ HostProtect(r, perm)
    PROVE  IInv'
<1>1. MemoryOK' /\ codeDirty' = TRUE
  BY MappingType DEF HostMap, HostProtect, IInv, TypeOK
<1> QED
  BY <1>1, HostKeeps DEF HostMap, HostProtect, IInv, TypeOK

LEMMA HostUnmapIInv == ASSUME IInv, NEW r \in Ranges, HostUnmap(r) PROVE IInv'
<1>1. MemoryOK' /\ codeDirty' = TRUE
  BY DEF HostUnmap, MemUnmap, IInv, TypeOK, MemoryOK
<1> QED
  BY <1>1, HostKeeps DEF HostUnmap, IInv, TypeOK

LEMMA HostWriteIInv ==
    ASSUME IInv, NEW from, NEW to, NEW w \in [from..to -> Unit], HostWrite(from, to, w)
    PROVE  IInv'
<1>1. CopyIn(from, to, w, mapped) /\ UNCHANGED <<mapped, execable, writable>>
  BY DEF HostWrite, MemWrite
<1>2. MemoryOK'
  BY <1>1, CopyType DEF IInv, TypeOK, MemoryOK
<1>3. codeDirty' \/ (~codeDirty /\ Code \subseteq Code')
  BY <1>1, CopyKeepsCode DEF HostWrite, IInv, TypeOK
<1>4. codeDirty' \in BOOLEAN
  BY DEF HostWrite, TouchesCode, IInv, TypeOK
<1> QED
  BY <1>2, <1>3, <1>4, HostKeeps DEF HostWrite, IInv, TypeOK

LEMMA StartIInv ==
    ASSUME IInv, (\E begin \in Addr : EmuStart(begin)) \/ HookReturns \/ EmuStop
    PROVE  IInv'
<1>1. UNCHANGED <<memory, end, codeDirty, caches, jit, loop>>
  BY DEF EmuStart, HookReturns, EmuStop
<1>2. MemoryOK' /\ Code' = Code
  BY <1>1, SameCode DEF memory, IInv, TypeOK, MemoryOK
<1>3. mode' \in {"idle", "hook", "halt", "poll"} /\ rip' \in Nat
  BY AddrNat DEF EmuStart, HookReturns, EmuStop, IInv, TypeOK
<1> QED
  BY <1>1, <1>2, <1>3, HostKeeps DEF IInv, TypeOK

LEMMA CloneIInv == ASSUME IInv, Clone PROVE IInv'
<1>1. MemoryOK'
  BY DEF Clone, memory, IInv, TypeOK, MemoryOK
<1>2. TypeOK'
  BY <1>1, EmptyEntries DEF Clone, IInv, TypeOK, Modes
<1>3. Blocks' \subseteq {NoBlock}
  BY DEF Clone, Blocks
<1>4. CacheShape' /\ CacheFresh'
  BY <1>2, <1>3, EmptyEntries DEF Clone, CacheShape, CacheFresh, TypeOK
<1>5. LoopOK'
  BY DEF LoopOK, Clone
<1> QED
  BY <1>2, <1>4, <1>5 DEF IInv

-----------------------------------------------------------------------------
(* The top of the loop.  No block of an older generation can be used once  *)
(* the generation has moved on.                                            *)
LEMMA Invalidated == ASSUME IInv, InvalidateCodeCaches PROVE CacheShape' /\ CacheFresh'
<1>1. Blocks' \subseteq Blocks \cup {NoBlock}
  BY DEF Blocks, InvalidateCodeCaches
<1>2. \A b \in Blocks' :
         b \in Shaped /\ b.gen < gen' /\ (b # NoBlock => Len(b.code) > 0) /\ b \in Block
  <2>1. \A b \in Blocks : b \in Shaped /\ b.gen <= gen /\ (b # NoBlock => Len(b.code) > 0)
    BY DEF IInv, CacheShape
  <2>2. \A b \in Shaped : b \in Block /\ b.gen \in Int
    BY DEF Shaped, Block
  <2>3. gen' = gen + 1 /\ gen \in Nat
    BY DEF InvalidateCodeCaches, IInv, TypeOK
  <2> QED
    BY <1>1, <2>1, <2>2, <2>3, EmptyEntries
<1>3. gen' \in Nat /\ \A b \in Blocks' : b.gen \in Int
  BY <1>2 DEF InvalidateCodeCaches, IInv, TypeOK, Block
<1>4. CacheShape'
  BY <1>2, <1>3 DEF CacheShape, InvalidateCodeCaches
<1>5. CacheFresh'
  BY <1>2, <1>3 DEF CacheFresh, InvalidateCodeCaches
<1> QED
  BY <1>4, <1>5

LEMMA InvalidatedType ==
    ASSUME IInv, InvalidateCodeCaches
    PROVE  /\ gen' \in Nat /\ cachedBlock' \in Block
           /\ decodeCache' \in [Addr -> Instr \cup {NoInstr}] /\ blockCache' \in [Slot -> Block]
  BY EmptyEntries DEF InvalidateCodeCaches, IInv, TypeOK

LEMMA PollIInv == ASSUME IInv, Poll PROVE IInv'
<1>1. /\ codeDirty' = FALSE /\ mode' \in {"fetch", "step"}
      /\ UNCHANGED <<memory, rip, end, jit, loop>>
  BY DEF Poll
<1>2. MemoryOK' /\ Code' = Code
  BY <1>1, SameCode DEF memory, IInv, TypeOK, MemoryOK
<1>3. CASE codeDirty
  <2>1. InvalidateCodeCaches
    BY <1>3 DEF Poll
  <2>2. TypeOK'
    BY <1>1, <1>2, <2>1, InvalidatedType DEF IInv, TypeOK, Modes, loop
  <2> QED
    BY <1>1, <2>1, <2>2, Invalidated DEF IInv, LoopOK
<1>4. CASE ~codeDirty
  <2>1. UNCHANGED caches
    BY <1>4 DEF Poll
  <2>2. TypeOK'
    BY <1>1, <1>2, <2>1 DEF IInv, TypeOK, Modes, loop, caches
  <2> QED
    BY <1>1, <1>2, <1>4, <2>1, <2>2, CachesKept DEF IInv, LoopOK
<1> QED
  BY <1>3, <1>4

(* A block that cachedBlockAt finds begins where it was looked for and is  *)
(* current.                                                                *)
LEMMA CachedBlockOK ==
    ASSUME IInv, ~codeDirty, NEW a \in Nat, CachedBlockAt(a) # NoBlock
    PROVE  /\ CachedBlockAt(a) \in Blocks /\ CachedBlockAt(a) \in Block
           /\ CachedBlockAt(a) \in Shaped \cap FreshBlocks
           /\ CachedBlockAt(a).gen = gen
           /\ 1 \in 1..Len(CachedBlockAt(a).code) /\ CachedBlockAt(a).code[1].at = a
<1> DEFINE b == CachedBlockAt(a)
<1>1. b \in Blocks /\ b.start = a /\ b.gen = gen
  BY SlotType DEF CachedBlockAt, Valid, Blocks
<1>2. b \in Shaped /\ b # NoBlock /\ Len(b.code) > 0
  BY <1>1 DEF IInv, CacheShape
<1>3. b \in FreshBlocks
  BY <1>1 DEF IInv, CacheFresh
<1>4. b \in Block /\ Len(b.code) \in Nat
  BY <1>2 DEF Shaped, Block
<1>5. b.code[1].at = a
  BY <1>1, <1>2 DEF Shaped
<1> QED
  BY <1>1, <1>2, <1>3, <1>4, <1>5

LEMMA BlockHitIInv == ASSUME IInv, BlockHit PROVE IInv'
<1>1. rip \in Nat /\ ~codeDirty
  BY DEF BlockHit, IInv, TypeOK, LoopOK
<1> DEFINE b == CachedBlockAt(rip)
<1>2. /\ b \in Blocks /\ b \in Block /\ b \in Shaped \cap FreshBlocks /\ b.gen = gen
      /\ 1 \in 1..Len(b.code) /\ b.code[1].at = rip
  BY <1>1, CachedBlockOK DEF BlockHit
<1>3. /\ block' = b /\ cachedBlock' = b /\ pc' = 1 /\ mode' = "block"
      /\ UNCHANGED <<memory, rip, end, codeDirty, decodeCache, blockCache, gen, jit>>
  BY DEF BlockHit
<1> HIDE DEF b
<1>4. MemoryOK' /\ Code' = Code /\ FreshBlocks' = FreshBlocks
  BY <1>3, SameCode DEF memory, IInv, TypeOK, MemoryOK, FreshBlocks
<1>5. TypeOK'
  BY <1>2, <1>3, <1>4 DEF IInv, TypeOK, Modes
<1>6. Blocks' \subseteq Blocks
  BY <1>2, <1>3 DEF Blocks
<1>7. CacheShape' /\ CacheFresh'
  BY <1>3, <1>4, <1>6 DEF IInv, CacheShape, CacheFresh
<1>8. LoopOK'
  BY <1>1, <1>2, <1>3, <1>4 DEF LoopOK
<1> QED
  BY <1>5, <1>7, <1>8 DEF IInv

LEMMA BlockMissIInv == ASSUME IInv, BlockMiss PROVE IInv'
<1>1. /\ block' = [start |-> rip, gen |-> gen, code |-> <<>>] /\ pc' = rip /\ mode' = "compile"
      /\ UNCHANGED <<memory, rip, end, codeDirty, caches, jit>>
  BY DEF BlockMiss
<1>2. ~codeDirty /\ rip \in Nat /\ gen \in Nat
  BY DEF BlockMiss, IInv, TypeOK, LoopOK
<1>3. block' \in Block /\ Len(block'.code) = 0 /\ block'.start = rip /\ block'.gen = gen
  BY <1>1, <1>2 DEF Block
<1>4. block' \in Shaped /\ block' \in FreshBlocks'
  BY <1>3 DEF Shaped, FreshBlocks
<1>5. MemoryOK' /\ Code' = Code
  BY <1>1, SameCode DEF memory, IInv, TypeOK, MemoryOK
<1>6. TypeOK'
  BY <1>1, <1>2, <1>3, <1>5 DEF IInv, TypeOK, Modes, caches
<1>7. CacheShape' /\ CacheFresh'
  BY <1>1, <1>2, <1>5, CachesKept
<1>8. LoopOK'
  BY <1>1, <1>2, <1>3, <1>4 DEF LoopOK, CompiledTo, caches
<1> QED
  BY <1>6, <1>7, <1>8 DEF IInv

-----------------------------------------------------------------------------
(* Decoding and compiling.  What cachedDecode adds to its cache is current,*)
(* and stays so if the instruction just decoded goes on to store.          *)
LEMMA Filled ==
    ASSUME IInv, ~codeDirty, NEW a, Decodable(a), Fill(a),
           UNCHANGED <<blockCache, cachedBlock, gen>>, codeDirty' \/ Code \subseteq Code'
    PROVE  decodeCache' \in [Addr -> Instr \cup {NoInstr}] /\ CacheShape' /\ CacheFresh'
<1> DEFINE d == CachedDecode(a)
<1>1. a \in Addr /\ d \in Code /\ d.at = a
  BY CachedDecodeOK
<1>2. d \in Instr
  BY <1>1, CodeIs
<1>3. decodeCache' = [decodeCache EXCEPT ![a] = d] /\ decodeCache \in [Addr -> Instr \cup {NoInstr}]
  BY DEF Fill, IInv, TypeOK
<1> HIDE DEF d
<1>4. Blocks' = Blocks
  BY DEF Blocks
<1>5. CacheShape'
  BY <1>1, <1>3, <1>4 DEF IInv, CacheShape
<1>6. CacheFresh'
  <2>1. ASSUME ~codeDirty' PROVE FreshBlocks \subseteq FreshBlocks'
    BY <2>1 DEF FreshBlocks
  <2> QED
    BY <1>1, <1>3, <1>4, <2>1 DEF IInv, CacheFresh
<1> QED
  BY <1>2, <1>3, <1>5, <1>6

LEMMA LengthType == \A u : Length(u) \in {1, 2}
  BY DEF Length

LEMMA CompileMoreIInv == ASSUME IInv, CompileMore PROVE IInv'
<1> DEFINE d == CachedDecode(pc)
           n == Len(block.code)
<1>1. ~codeDirty /\ Decodable(pc) /\ d.op \notin Hook
  BY DEF CompileMore, IInv, LoopOK, AtPlain
<1>2. pc \in Addr /\ d \in Code /\ d.at = pc /\ d \in Instr
  BY <1>1, CachedDecodeOK, CodeIs
<1>3. /\ Fill(pc) /\ mode = "compile"
      /\ block' = [block EXCEPT !.code = Append(@, d)] /\ pc' = pc + Length(d.op)
      /\ UNCHANGED <<memory, rip, end, codeDirty, blockCache, cachedBlock, gen, jit, mode>>
  BY DEF CompileMore
<1>4. n > 0 => block.code[n].op \notin Branch
  BY DEF CompileMore, EndsBlock
<1>5. /\ block \in Shaped /\ block \in FreshBlocks /\ block \in Block /\ block.gen = gen
      /\ block.start = rip /\ pc = CompiledTo
  BY <1>3 DEF IInv, LoopOK, Shaped
<1> HIDE DEF d
<1>6. MemoryOK' /\ Code' = Code /\ FreshBlocks' = FreshBlocks
  BY <1>3, SameCode DEF memory, IInv, TypeOK, MemoryOK, FreshBlocks
<1>7. block.code \in Seq(Instr) /\ n \in Nat
  BY <1>5 DEF Block
<1>8. /\ block' \in Block /\ block'.start = rip /\ block'.gen = gen
      /\ block'.code = Append(block.code, d)
  <2>1. block = [start |-> block.start, gen |-> block.gen, code |-> block.code]
    BY <1>5 DEF Block
  <2>2. block' = [start |-> rip, gen |-> gen, code |-> Append(block.code, d)]
    BY <1>3, <1>5, <2>1
  <2>3. Append(block.code, d) \in Seq(Instr)
    BY <1>2, <1>7
  <2>4. rip \in Nat /\ gen \in Int
    BY DEF IInv, TypeOK
  <2> QED
    BY <2>2, <2>3, <2>4 DEF Block
<1>9. /\ Len(block'.code) = n + 1 /\ block'.code[n + 1] = d
      /\ \A i \in 1..n : block'.code[i] = block.code[i]
  BY <1>2, <1>7, <1>8
<1>10. block' \in FreshBlocks'
  <2>1. \A i \in 1..n : block.code[i] \in Code
    BY <1>5 DEF FreshBlocks
  <2>2. \A i \in 1..(n + 1) : i \in 1..n \/ i = n + 1
    BY <1>7
  <2>3. \A i \in 1..(n + 1) : block'.code[i] \in Code
    BY <1>2, <1>9, <2>1, <2>2
  <2>4. 1..Len(block'.code) = 1..(n + 1)
    BY <1>9
  <2> QED
    BY <1>6, <1>8, <2>3, <2>4 DEF FreshBlocks
<1>11. block' \in Shaped
  <2>1. /\ n > 0 => block.code[1].at = rip
        /\ \A i \in 1..(n - 1) : /\ block.code[i + 1].at = block.code[i].at + Length(block.code[i].op)
                                 /\ block.code[i].op \notin Branch
        /\ \A i \in 1..n : block.code[i].op \notin Hook
    BY <1>5 DEF Shaped
  <2>2. IF n = 0 THEN pc = rip ELSE pc = block.code[n].at + Length(block.code[n].op)
    BY <1>5 DEF CompiledTo
  <2>3. block'.code[1].at = block'.start
    BY <1>2, <1>7, <1>8, <1>9, <2>1, <2>2
  <2>4. ASSUME NEW i \in 1..n
        PROVE  /\ block'.code[i + 1].at = block'.code[i].at + Length(block'.code[i].op)
               /\ block'.code[i].op \notin Branch
    <3>1. CASE i = n
      BY <3>1, <1>2, <1>4, <1>7, <1>9, <2>2
    <3>2. CASE i # n
      <4>1. i \in 1..(n - 1) /\ i + 1 \in 1..n
        BY <3>2, <1>7
      <4> QED
        BY <4>1, <1>9, <2>1
    <3> QED
      BY <3>1, <3>2
  <2>5. ASSUME NEW i \in 1..(n + 1) PROVE block'.code[i].op \notin Hook
    <3>1. CASE i = n + 1
      BY <3>1, <1>1, <1>9 DEF d
    <3>2. CASE i \in 1..n
      BY <3>2, <1>9, <2>1
    <3> QED
      BY <3>1, <3>2, <1>7
  <2>6. 1..(Len(block'.code) - 1) = 1..n /\ 1..Len(block'.code) = 1..(n + 1)
    BY <1>7, <1>9
  <2> QED
    BY <2>3, <2>4, <2>5, <2>6, <1>8 DEF Shaped
<1>12. /\ decodeCache' \in [Addr -> Instr \cup {NoInstr}] /\ CacheShape' /\ CacheFresh'
  BY <1>1, <1>3, <1>6, Filled
<1>13. TypeOK'
  BY <1>2, <1>3, <1>6, <1>8, <1>12, LengthType, AddrNat DEF IInv, TypeOK
<1>14. LoopOK'
  BY <1>1, <1>2, <1>3, <1>7, <1>8, <1>9, <1>10, <1>11 DEF LoopOK, CompiledTo
<1> QED
  BY <1>12, <1>13, <1>14 DEF IInv

LEMMA CompileDoneIInv == ASSUME IInv, CompileDone PROVE IInv'
<1>1. /\ mode = "compile" /\ Len(block.code) > 0 /\ pc' = 1 /\ mode' = "block"
      /\ blockCache' = [blockCache EXCEPT ![SlotOf(block.start)] = block]
      /\ cachedBlock' = block
      /\ UNCHANGED <<memory, rip, end, codeDirty, gen, jit, block>>
  BY DEF CompileDone
<1>2. /\ ~codeDirty /\ block \in Shaped /\ block \in FreshBlocks /\ block \in Block
      /\ block.gen = gen /\ block.start = rip /\ block.code[1].at = rip /\ rip \in Nat
  BY <1>1 DEF IInv, LoopOK, TypeOK, Shaped
<1>3. MemoryOK' /\ Code' = Code /\ FreshBlocks' = FreshBlocks
  BY <1>1, SameCode DEF memory, IInv, TypeOK, MemoryOK, FreshBlocks
<1>4. /\ decodeCache' \in [Addr -> Instr \cup {NoInstr}]
      /\ \A a \in Addr : decodeCache'[a] # NoInstr =>
            decodeCache'[a].at = a /\ decodeCache'[a] \in Code
  <2>1. CASE UNCHANGED decodeCache
    BY <2>1, <1>2 DEF IInv, TypeOK, CacheShape, CacheFresh
  <2>2. CASE AtHook(pc) /\ Fill(pc)
    <3> DEFINE d == CachedDecode(pc)
    <3>1. pc \in Addr /\ d \in Code /\ d.at = pc /\ d \in Instr
      BY <1>2, <2>2, CachedDecodeOK, CodeIs DEF AtHook
    <3> QED
      BY <3>1, <2>2, <1>2 DEF Fill, IInv, TypeOK, CacheShape, CacheFresh
  <2> QED
    BY <2>1, <2>2 DEF CompileDone
<1>5. SlotOf(block.start) \in Slot
  BY <1>2, SlotType
<1>6. TypeOK'
  BY <1>1, <1>2, <1>3, <1>4, <1>5 DEF IInv, TypeOK, Modes
<1>7. Blocks' \subseteq Blocks \cup {block}
  BY <1>1, <1>5 DEF Blocks, IInv, TypeOK
<1>8. CacheShape'
  <2>1. \A b \in Blocks' : b \in Shaped /\ b.gen <= gen /\ (b # NoBlock => Len(b.code) > 0)
    BY <1>1, <1>2, <1>7 DEF IInv, CacheShape, TypeOK
  <2> QED
    BY <1>1, <1>4, <2>1 DEF CacheShape
<1>9. CacheFresh'
  BY <1>1, <1>2, <1>3, <1>4, <1>7 DEF IInv, CacheFresh
<1>10. LoopOK'
  <2>1. Len(block.code) \in Nat
    BY <1>2 DEF Block
  <2> QED
    BY <2>1, <1>1, <1>2, <1>3 DEF LoopOK
<1> QED
  BY <1>6, <1>8, <1>9, <1>10 DEF IInv

LEMMA CompileNoneIInv == ASSUME IInv, CompileNone PROVE IInv'
<1>1. /\ mode = "compile" /\ AtHook(pc) /\ Fill(pc) /\ mode' = "step" /\ ~codeDirty
      /\ UNCHANGED <<memory, rip, end, codeDirty, blockCache, cachedBlock, gen, jit, loop>>
  BY DEF CompileNone, IInv, LoopOK
<1>2. MemoryOK' /\ Code' = Code
  BY <1>1, SameCode DEF memory, IInv, TypeOK, MemoryOK
<1>3. decodeCache' \in [Addr -> Instr \cup {NoInstr}] /\ CacheShape' /\ CacheFresh'
  BY <1>1, <1>2, Filled DEF AtHook
<1>4. TypeOK' /\ LoopOK'
  BY <1>1, <1>2, <1>3 DEF IInv, TypeOK, Modes, loop, LoopOK
<1> QED
  BY <1>3, <1>4 DEF IInv

LEMMA FetchFaultIInv == ASSUME IInv, FetchFault PROVE IInv'
<1>1. mode' = "halt" /\ ~codeDirty /\ UNCHANGED <<memory, rip, end, codeDirty, caches, jit, loop>>
  BY DEF FetchFault, IInv, LoopOK
<1>2. MemoryOK' /\ Code' = Code
  BY <1>1, SameCode DEF memory, IInv, TypeOK, MemoryOK
<1> QED
  BY <1>1, <1>2, HostKeeps DEF IInv, TypeOK

-----------------------------------------------------------------------------
(* Executing.  An instruction leaves Code as it was or sets codeDirty.     *)
LEMMA StoresOK ==
    ASSUME IInv, ~codeDirty, NEW from, NEW to, NEW w \in [from..to -> Unit], Stores(from, to, w)
    PROVE  MemoryOK' /\ codeDirty' \in BOOLEAN /\ (codeDirty' \/ Code \subseteq Code')
<1>1. CopyIn(from, to, w, writable) /\ UNCHANGED <<mapped, execable, writable>>
  BY DEF Stores, Store
<1>2. MemoryOK'
  BY <1>1, CopyType DEF IInv, TypeOK, MemoryOK
<1>3. codeDirty' \/ Code \subseteq Code'
  BY <1>1, CopyKeepsCode DEF Stores, IInv, TypeOK
<1>4. codeDirty' \in BOOLEAN
  BY DEF Stores, TouchesCode, IInv, TypeOK
<1> QED
  BY <1>2, <1>3, <1>4

LEMMA NoStoreOK ==
    ASSUME IInv, NoStore
    PROVE  MemoryOK' /\ codeDirty' \in BOOLEAN /\ Code \subseteq Code'
  BY SameCode DEF NoStore, memory, IInv, TypeOK, MemoryOK

LEMMA MovesType == ASSUME IInv, NEW d, Moves(d) PROVE rip' \in Nat
<1>1. rip \in Nat /\ Length(d.op) \in {1, 2}
  BY LengthType DEF IInv, TypeOK
<1>2. CASE rip' = rip + Length(d.op)
  BY <1>1, <1>2
<1>3. CASE rip' \in Addr
  BY <1>3, AddrNat
<1> QED
  BY <1>2, <1>3 DEF Moves

LEMMA ExecutesOK ==
    ASSUME IInv, ~codeDirty, NEW d, Executes(d)
    PROVE  MemoryOK' /\ codeDirty' \in BOOLEAN /\ (codeDirty' \/ Code \subseteq Code') /\ rip' \in Nat
<1>1. rip' \in Nat
  BY MovesType DEF Executes
<1>2. CASE NoStore
  BY <1>1, <1>2, NoStoreOK
<1>3. CASE \E a \in Addr, n \in 0..1 : \E w \in [a..(a + n) -> Unit] :
             ~Faults(a, a + n, writable) /\ Stores(a, a + n, w)
  BY <1>1, <1>3, StoresOK
<1> QED
  BY <1>2, <1>3 DEF Executes

(* A fault ends the emulation, whatever was stored before it.              *)
LEMMA ExecFaultIInv == ASSUME IInv, ~codeDirty, ExecFault PROVE IInv'
<1>1. MemoryOK' /\ codeDirty' \in BOOLEAN /\ (codeDirty' \/ Code \subseteq Code')
  <2>1. CASE NoStore
    BY <2>1, NoStoreOK
  <2>2. CASE \E a \in Addr, n \in 0..1 : \E w \in [a..(a + n) -> Unit] :
               Faults(a, a + n, writable) /\ Stores(a, a + n, w)
    BY <2>2, StoresOK
  <2> QED
    BY <2>1, <2>2 DEF ExecFault
<1> QED
  BY <1>1, HostKeeps DEF ExecFault, IInv, TypeOK

LEMMA InterpretIInv == ASSUME IInv, Interpret PROVE IInv'
<1>1. /\ ~codeDirty /\ Decodable(rip) /\ Executes(CachedDecode(rip)) /\ Fill(rip) /\ mode' = "poll"
      /\ UNCHANGED <<end, blockCache, cachedBlock, gen, jit, loop>>
  BY DEF Interpret, AtPlain, IInv, LoopOK
<1>2. MemoryOK' /\ codeDirty' \in BOOLEAN /\ (codeDirty' \/ Code \subseteq Code') /\ rip' \in Nat
  BY <1>1, ExecutesOK
<1>3. decodeCache' \in [Addr -> Instr \cup {NoInstr}] /\ CacheShape' /\ CacheFresh'
  BY <1>1, <1>2, Filled
<1>4. TypeOK' /\ LoopOK'
  BY <1>1, <1>2, <1>3 DEF IInv, TypeOK, Modes, loop, LoopOK
<1> QED
  BY <1>3, <1>4 DEF IInv

LEMMA CallHookIInv == ASSUME IInv, CallHook PROVE IInv'
<1>1. /\ ~codeDirty /\ Decodable(rip) /\ Fill(rip) /\ mode' = "hook"
      /\ end' = rip + Length(CachedDecode(rip).op)
      /\ UNCHANGED <<memory, rip, codeDirty, blockCache, cachedBlock, gen, jit, loop>>
  BY DEF CallHook, AtHook, IInv, LoopOK
<1>2. MemoryOK' /\ Code' = Code
  BY <1>1, SameCode DEF memory, IInv, TypeOK, MemoryOK
<1>3. decodeCache' \in [Addr -> Instr \cup {NoInstr}] /\ CacheShape' /\ CacheFresh'
  BY <1>1, <1>2, Filled
<1>4. TypeOK' /\ LoopOK'
  BY <1>1, <1>2, <1>3, LengthType DEF IInv, TypeOK, Modes, loop, LoopOK
<1> QED
  BY <1>3, <1>4 DEF IInv

(* What the loop knows of the instruction executeBlock is at.              *)
LEMMA BlockInstr ==
    ASSUME IInv, mode = "block"
    PROVE  /\ ~codeDirty /\ pc \in 1..Len(block.code) /\ Len(block.code) \in Nat
           /\ block.code[pc] \in Code /\ block.code[pc].at = rip
           /\ block.code[pc].op \notin Hook
           /\ pc < Len(block.code) =>
                 /\ pc + 1 \in 1..Len(block.code)
                 /\ block.code[pc + 1].at = rip + Length(block.code[pc].op)
                 /\ block.code[pc].op \notin Branch
<1>1. /\ ~codeDirty /\ block \in Shaped /\ block \in FreshBlocks
      /\ pc \in 1..Len(block.code) /\ block.code[pc].at = rip
  BY DEF IInv, LoopOK
<1>2. Len(block.code) \in Nat
  BY DEF IInv, TypeOK, Block
<1>3. pc < Len(block.code) => pc \in 1..(Len(block.code) - 1) /\ pc + 1 \in 1..Len(block.code)
  BY <1>1, <1>2
<1>4. block.code[pc] \in Code /\ block.code[pc].op \notin Hook
  BY <1>1 DEF Shaped, FreshBlocks
<1> QED
  BY <1>1, <1>2, <1>3, <1>4 DEF Shaped

LEMMA BlockExecIInv == ASSUME IInv, BlockExec PROVE IInv'
<1>1. /\ mode = "block" /\ Executes(block.code[pc]) /\ ~codeDirty' /\ pc < Len(block.code)
      /\ pc' = pc + 1 /\ UNCHANGED <<end, caches, jit, mode, block>>
  BY DEF BlockExec
<1>2. /\ ~codeDirty /\ pc + 1 \in 1..Len(block.code) /\ pc \in 1..Len(block.code)
      /\ block.code[pc + 1].at = rip + Length(block.code[pc].op)
      /\ block.code[pc].op \notin Branch
  BY <1>1, BlockInstr
<1>3. MemoryOK' /\ codeDirty' \in BOOLEAN /\ Code \subseteq Code' /\ rip' \in Nat
  BY <1>1, <1>2, ExecutesOK
<1>4. rip' = rip + Length(block.code[pc].op)
  BY <1>1, <1>2 DEF Executes, Moves
<1>5. CacheShape' /\ CacheFresh'
  BY <1>1, <1>2, <1>3, CachesKept
<1>6. TypeOK'
  BY <1>1, <1>3 DEF IInv, TypeOK, Modes, caches
<1>7. LoopOK'
  <2>1. FreshBlocks \subseteq FreshBlocks'
    BY <1>3 DEF FreshBlocks
  <2> QED
    BY <2>1, <1>1, <1>2, <1>4 DEF IInv, LoopOK, caches
<1> QED
  BY <1>5, <1>6, <1>7 DEF IInv

LEMMA BlockExecDirtyIInv == ASSUME IInv, BlockExecDirty PROVE IInv'
<1>1. /\ mode = "block" /\ Moves(block.code[pc]) /\ codeDirty' = FALSE /\ InvalidateCodeCaches
      /\ mode' = "poll" /\ block' = NoBlock /\ pc' = 0 /\ UNCHANGED <<end, jit>>
  BY DEF BlockExecDirty
<1>2. PICK a \in Addr, n \in 0..1 : \E w \in [a..(a + n) -> Unit] : Store(a, a + n, w)
  BY DEF BlockExecDirty
<1>3. MemoryOK'
  BY <1>2, CopyType DEF Store, IInv, TypeOK, MemoryOK
<1>4. rip' \in Nat
  BY <1>1, MovesType
<1>5. CacheShape' /\ CacheFresh'
  BY <1>1, Invalidated
<1>6. TypeOK' /\ LoopOK'
  BY <1>1, <1>3, <1>4, InvalidatedType, EmptyEntries DEF IInv, TypeOK, Modes, LoopOK
<1> QED
  BY <1>5, <1>6 DEF IInv

LEMMA BlockExecLastIInv == ASSUME IInv, BlockExecLast PROVE IInv'
<1> DEFINE b == CachedBlockAt(rip')
<1>1. /\ mode = "block" /\ Executes(block.code[pc]) /\ ~codeDirty' /\ block' = b
      /\ IF b = NoBlock THEN mode' = "poll" /\ pc' = 0 /\ UNCHANGED cachedBlock
                        ELSE mode' = "block" /\ pc' = 1 /\ cachedBlock' = b
      /\ UNCHANGED <<end, decodeCache, blockCache, gen, jit>>
  BY DEF BlockExecLast
<1>2. ~codeDirty
  BY <1>1, BlockInstr
<1>3. MemoryOK' /\ codeDirty' \in BOOLEAN /\ Code \subseteq Code' /\ rip' \in Nat
  BY <1>1, <1>2, ExecutesOK
<1>4. FreshBlocks \subseteq FreshBlocks'
  BY <1>3 DEF FreshBlocks
<1>5. CASE b = NoBlock
  <2>1. UNCHANGED caches
    BY <1>1, <1>5 DEF caches
  <2>2. CacheShape' /\ CacheFresh'
    BY <1>2, <1>3, <2>1, CachesKept
  <2>3. TypeOK' /\ LoopOK'
    BY <1>1, <1>3, <1>5, EmptyEntries DEF IInv, TypeOK, Modes, LoopOK
  <2> QED
    BY <2>2, <2>3 DEF IInv
<1>6. CASE b # NoBlock
  <2>1. /\ b \in Blocks /\ b \in Block /\ b \in Shaped \cap FreshBlocks
        /\ b.gen = gen /\ 1 \in 1..Len(b.code) /\ b.code[1].at = rip'
    BY <1>2, <1>3, <1>6, CachedBlockOK
  <2> HIDE DEF b
  <2>2. Blocks' \subseteq Blocks
    BY <1>1, <1>6, <2>1 DEF Blocks
  <2>3. CacheShape' /\ CacheFresh'
    BY <1>1, <1>2, <1>3, <1>4, <2>2 DEF IInv, CacheShape, CacheFresh
  <2>4. TypeOK' /\ LoopOK'
    BY <1>1, <1>3, <1>4, <1>6, <2>1 DEF IInv, TypeOK, Modes, LoopOK
  <2> QED
    BY <2>3, <2>4 DEF IInv
<1> QED
  BY <1>5, <1>6

-----------------------------------------------------------------------------
(* NewEngine's state satisfies the invariant, and every step keeps it.     *)
LEMMA InitIInv == Init => IInv
<1> SUFFICES ASSUME Init PROVE IInv
  OBVIOUS
<1>1. TypeOK
  BY EmptyEntries, UnitAssumption DEF Init, MemoryInit, TypeOK, MemoryOK, Modes
<1>2. Blocks \subseteq {NoBlock}
  BY DEF Init, Blocks
<1>3. CacheShape /\ CacheFresh /\ LoopOK
  BY <1>2, EmptyEntries DEF Init, CacheShape, CacheFresh, LoopOK
<1> QED
  BY <1>1, <1>3 DEF IInv

LEMMA StepIInv == IInv /\ [Next]_vars => IInv'
<1> SUFFICES ASSUME IInv, [Next]_vars PROVE IInv'
  OBVIOUS
<1>1. CASE Host
  <2>1. ASSUME NEW r \in Ranges, NEW perm \in Perms, HostMap(r, perm) \/ HostProtect(r, perm)
        PROVE  IInv'
    BY <2>1, HostMapIInv
  <2>2. ASSUME NEW r \in Ranges, HostUnmap(r) PROVE IInv'
    BY <2>2, HostUnmapIInv
  <2>3. ASSUME NEW a \in Addr, NEW n \in 0..1, NEW w \in [a..(a + n) -> Unit], HostWrite(a, a + n, w)
        PROVE  IInv'
    BY <2>3, HostWriteIInv
  <2>4. CASE (\E begin \in Addr : EmuStart(begin)) \/ HookReturns \/ EmuStop
    BY <2>4, StartIInv
  <2>5. CASE Clone
    BY <2>5, CloneIInv
  <2> QED
    BY <1>1, <2>1, <2>2, <2>3, <2>4, <2>5 DEF Host
<1>2. CASE Engine
  <2>1. CASE Poll
    BY <2>1, PollIInv
  <2>2. CASE BlockHit \/ BlockMiss
    BY <2>2, BlockHitIInv, BlockMissIInv
  <2>3. CASE CompileMore \/ CompileDone \/ CompileNone \/ FetchFault
    BY <2>3, CompileMoreIInv, CompileDoneIInv, CompileNoneIInv, FetchFaultIInv
  <2>4. CASE Interpret \/ CallHook
    BY <2>4, InterpretIInv, CallHookIInv
  <2>5. CASE InterpretFault \/ BlockFault
    BY <2>5, ExecFaultIInv DEF InterpretFault, BlockFault, IInv, LoopOK
  <2>6. CASE BlockExec \/ BlockExecDirty \/ BlockExecLast
    BY <2>6, BlockExecIInv, BlockExecDirtyIInv, BlockExecLastIInv
  <2> QED
    BY <1>2, <2>1, <2>2, <2>3, <2>4, <2>5, <2>6 DEF Engine
<1>3. CASE UNCHANGED vars
  <2>1. Code' = Code
    BY <1>3, SameCode DEF vars
  <2>2. FreshBlocks' = FreshBlocks /\ Blocks' = Blocks
    BY <1>3, <2>1 DEF vars, caches, FreshBlocks, Blocks
  <2> QED
    BY <1>3, <2>1, <2>2
    DEF vars, caches, loop, memory, IInv, TypeOK, MemoryOK, CacheShape, CacheFresh, LoopOK, CompiledTo
<1> QED
  BY <1>1, <1>2, <1>3 DEF Next

(* The inductive invariant holds in every reachable state of the engine.   *)
THEOREM Inductive == Spec => []IInv
  BY InitIInv, StepIInv, PTL DEF Spec

(* Type correctness of the fetch loop's state: registers, pages, caches    *)
(* and the block in hand.                                                  *)
THEOREM TypeCorrect == Spec => []TypeOK
<1>1. IInv => TypeOK
  BY DEF IInv
<1> QED
  BY <1>1, Inductive, PTL

(* Unless codeDirty is set, decodeCache, blockCache and cachedBlock hold   *)
(* what the pages hold now and may execute.                                *)
THEOREM CachesAreCurrent == Spec => []CachesCurrent
<1>1. IInv => CachesCurrent
  <2> SUFFICES ASSUME IInv, ~codeDirty
               PROVE  /\ \A a \in Addr : decodeCache[a] # NoInstr => Current(decodeCache[a])
                      /\ \A b \in Blocks : CurrentBlock(b)
    BY DEF CachesCurrent, Blocks
  <2>1. \A a \in Addr : decodeCache[a] # NoInstr => Current(decodeCache[a])
    BY DEF IInv, CacheFresh, Code
  <2>2. ASSUME NEW b \in Blocks, b.gen = gen PROVE CurrentBlock(b)
    <3>1. b \in FreshBlocks /\ b \in Shaped
      BY <2>2 DEF IInv, CacheFresh, CacheShape
    <3>2. \A i \in 1..Len(b.code) : Current(b.code[i])
      BY <3>1 DEF FreshBlocks, Code
    <3> QED
      BY <3>1, <3>2 DEF Shaped, CurrentBlock
  <2>3. \A b \in Blocks : b.gen # gen => CurrentBlock(b)
    BY DEF CurrentBlock
  <2> QED
    BY <2>1, <2>2, <2>3
<1> QED
  BY <1>1, Inductive, PTL

(* executeBlock runs the instruction that rip points at, and the loop      *)
(* never looks up, compiles or runs a block while codeDirty is set.        *)
THEOREM BlockAtRip == Spec => []BlockFollowsRip
<1>1. IInv => BlockFollowsRip
  BY DEF IInv, LoopOK, BlockFollowsRip
<1> QED
  BY <1>1, Inductive, PTL

-----------------------------------------------------------------------------
(***************************************************************************)
(* The refinement.  Memory, rip and end are PlainCpu's own; the fetch loop *)
(* is one status, "run", of it.                                            *)
(***************************************************************************)
Status == IF mode \in {"idle", "hook", "halt"} THEN mode ELSE "run"

(* The operators of GuestMemory, of either module.                         *)
LEMMA PlainSame ==
    /\ Plain!Addr = Addr /\ Plain!Ranges = Ranges
    /\ \A a : Plain!Fetchable(a) = Fetchable(a) /\ Plain!Decode(a) = Decode(a)
    /\ \A u : Plain!Length(u) = Length(u)
    /\ \A from, to, need : /\ Plain!Copied(from, to, need) = Copied(from, to, need)
                           /\ Plain!Faults(from, to, need) = Faults(from, to, need)
<1>1. Plain!Addr = Addr /\ Plain!Ranges = Ranges
  BY DEF Plain!Addr, Addr, Plain!Ranges, Ranges, Plain!Page, Page
<1>2. \A a, need : Plain!Accessible(a, need) = Accessible(a, need)
  BY <1>1 DEF Plain!Accessible, Accessible, Plain!PageOf, PageOf
<1>3. \A a : Plain!Fetchable(a) = Fetchable(a) /\ Plain!Decode(a) = Decode(a)
  BY <1>2 DEF Plain!Fetchable, Fetchable, Plain!Decode, Decode
<1>4. \A u : Plain!Length(u) = Length(u)
  BY DEF Plain!Length, Length
<1>5. \A from, to, need : Plain!Copied(from, to, need) = Copied(from, to, need)
  BY <1>2 DEF Plain!Copied, Copied
<1>6. \A from, to, need : Plain!Faults(from, to, need) = Faults(from, to, need)
  BY <1>5 DEF Plain!Faults, Faults
<1> QED
  BY <1>1, <1>3, <1>4, <1>5, <1>6

(* What a copy writes is what PlainCpu lets it overwrite.                  *)
LEMMA CopyMaps ==
    ASSUME MemoryOK, NEW a \in Addr, NEW n \in 0..1, NEW w \in [a..(a + n) -> Unit], NEW need,
           CopyIn(a, a + n, w, need), UNCHANGED <<mapped, execable, writable>>
    PROVE  Plain!Overwrites(a, n, need)
<1>1. mem' \in [Addr -> Unit]
  BY CopyType
<1>2. \A x \in Addr \ Copied(a, a + n, need) : mem'[x] = mem[x]
  BY DEF CopyIn
<1> QED
  BY <1>1, <1>2, PlainSame DEF Plain!Overwrites

LEMMA HostMaps ==
    ASSUME IInv, Host
    PROVE  Plain!PlainNext
<1>1. ASSUME NEW r \in Ranges, NEW perm \in Perms, HostMap(r, perm) \/ HostProtect(r, perm)
      PROVE  Plain!PlainHost
  <2>1. Plain!MemMap(r, perm) \/ Plain!MemProtect(r, perm)
    BY <1>1 DEF HostMap, HostProtect, MemMap, MemProtect, Plain!MemMap, Plain!MemProtect,
                Addr, Plain!Addr, PageOf, Plain!PageOf
  <2>2. mode \in {"idle", "hook"} /\ UNCHANGED <<rip, end, mode>>
    BY <1>1 DEF HostMap, HostProtect
  <2> QED
    BY <2>1, <2>2, PlainSame DEF Plain!PlainHost
<1>2. ASSUME NEW r \in Ranges, HostUnmap(r) PROVE Plain!PlainHost
  BY <1>2, PlainSame DEF HostUnmap, MemUnmap, Plain!MemUnmap, Plain!PlainHost
<1>3. ASSUME NEW a \in Addr, NEW n \in 0..1, NEW w \in [a..(a + n) -> Unit], HostWrite(a, a + n, w)
      PROVE  Plain!PlainHost
  <2>1. Plain!Overwrites(a, n, mapped)
    BY <1>3, CopyMaps DEF HostWrite, MemWrite, IInv, TypeOK
  <2>2. mode \in {"idle", "hook"} /\ UNCHANGED <<rip, end, mode>>
    BY <1>3 DEF HostWrite
  <2> QED
    BY <2>1, <2>2, PlainSame DEF Plain!PlainHost
<1>4. ASSUME NEW begin \in Addr, EmuStart(begin) PROVE Plain!PlainStart
  BY <1>4, PlainSame DEF EmuStart, Plain!PlainStart, memory, Plain!memory
<1>5. HookReturns \/ Clone => Plain!PlainReturn
  BY DEF HookReturns, Clone, Plain!PlainReturn, memory, Plain!memory
<1>6. EmuStop => Plain!PlainStop
  BY DEF EmuStop, Plain!PlainStop, memory, Plain!memory
<1> QED
  BY <1>1, <1>2, <1>3, <1>4, <1>5, <1>6 DEF Host, Plain!PlainNext

(* Looking up and compiling cannot be seen.                                *)
LEMMA Invisible ==
    ASSUME Poll \/ BlockHit \/ BlockMiss \/ CompileMore \/ CompileDone \/ CompileNone
    PROVE  UNCHANGED Plain!plainVars
  BY DEF Poll, BlockHit, BlockMiss, CompileMore, CompileDone, CompileNone,
         Plain!plainVars, memory, Plain!memory

(* Executing what is in Code at rip is executing what a plain machine      *)
(* fetches there.                                                          *)
LEMMA ExecutesMaps ==
    ASSUME IInv, ~codeDirty, NEW d \in Code, d.at = rip, d.op \notin Hook, Executes(d),
           Status = "run", Status' = "run", end' = end
    PROVE  Plain!PlainExec
<1>1. Fetchable(rip) /\ Decode(rip) = d
  BY CodeIs
<1>2. rip' = rip + Length(d.op) \/ (d.op \in Branch /\ rip' \in Addr)
  BY DEF Executes, Moves
<1>3. \/ UNCHANGED memory
      \/ \E a \in Addr, n \in 0..1 : ~Faults(a, a + n, writable) /\ Plain!Overwrites(a, n, writable)
  BY CopyMaps DEF Executes, NoStore, Stores, Store, IInv, TypeOK
<1> QED
  BY <1>1, <1>2, <1>3, PlainSame DEF Plain!PlainExec, Status, memory, Plain!memory

LEMMA FaultMaps ==
    ASSUME IInv, ~codeDirty, NEW d \in Code, d.at = rip, d.op \notin Hook, ExecFault, Status = "run"
    PROVE  Plain!PlainFault
<1>1. Fetchable(rip) /\ Decode(rip) = d
  BY CodeIs
<1>2. \/ UNCHANGED memory
      \/ \E a \in Addr, n \in 0..1 : Faults(a, a + n, writable) /\ Plain!Overwrites(a, n, writable)
  BY CopyMaps DEF ExecFault, NoStore, Stores, Store, IInv, TypeOK
<1>3. mode' = "halt" /\ UNCHANGED <<rip, end>>
  BY DEF ExecFault
<1> QED
  BY <1>1, <1>2, <1>3, PlainSame DEF Plain!PlainFault, Status, memory, Plain!memory

LEMMA InterpretMaps ==
    ASSUME IInv, Interpret \/ InterpretFault \/ CallHook
    PROVE  Plain!PlainNext
<1> DEFINE d == CachedDecode(rip)
<1>1. ~codeDirty /\ mode = "step" /\ Status = "run" /\ Decodable(rip)
  BY DEF Interpret, InterpretFault, CallHook, AtPlain, AtHook, IInv, LoopOK, Status
<1>2. d \in Code /\ d.at = rip
  BY <1>1, CachedDecodeOK
<1>3. CASE Interpret
  <2>1. Executes(d) /\ d.op \notin Hook /\ Status' = "run" /\ end' = end
    BY <1>3 DEF Interpret, AtPlain, Status
  <2> QED
    BY <1>1, <1>2, <2>1, ExecutesMaps DEF Plain!PlainNext
<1>4. CASE InterpretFault
  <2>1. ExecFault /\ d.op \notin Hook
    BY <1>4 DEF InterpretFault, AtPlain
  <2> QED
    BY <1>1, <1>2, <2>1, FaultMaps DEF Plain!PlainNext
<1>5. CASE CallHook
  <2>1. Fetchable(rip) /\ Decode(rip) = d
    BY <1>2, CodeIs
  <2>2. /\ d.op \in Hook /\ end' = rip + Length(d.op) /\ mode' = "hook"
        /\ UNCHANGED <<memory, rip>>
    BY <1>5 DEF CallHook, AtHook
  <2>3. Plain!PlainTrap
    BY <1>1, <2>1, <2>2, PlainSame DEF Plain!PlainTrap, Status, memory, Plain!memory
  <2> QED
    BY <2>3 DEF Plain!PlainNext
<1> QED
  BY <1>3, <1>4, <1>5

LEMMA BlockMaps ==
    ASSUME IInv, BlockExec \/ BlockExecDirty \/ BlockExecLast \/ BlockFault
    PROVE  Plain!PlainNext
<1> DEFINE d == block.code[pc]
<1>1. mode = "block" /\ Status = "run"
  BY DEF BlockExec, BlockExecDirty, BlockExecLast, BlockFault, Status
<1>2. ~codeDirty /\ d \in Code /\ d.at = rip /\ d.op \notin Hook
  BY <1>1, BlockInstr
<1>3. CASE BlockExec \/ BlockExecLast
  <2>1. Executes(d) /\ Status' = "run" /\ end' = end
    BY <1>1, <1>3 DEF BlockExec, BlockExecLast, Status
  <2> QED
    BY <1>1, <1>2, <2>1, ExecutesMaps DEF Plain!PlainNext
<1>4. CASE BlockExecDirty
  <2>1. Fetchable(rip) /\ Decode(rip) = d
    BY <1>2, CodeIs
  <2>2. rip' = rip + Length(d.op) \/ (d.op \in Branch /\ rip' \in Addr)
    BY <1>4 DEF BlockExecDirty, Moves
  <2>3. \E a \in Addr, n \in 0..1 : ~Faults(a, a + n, writable) /\ Plain!Overwrites(a, n, writable)
    BY <1>4, CopyMaps DEF BlockExecDirty, Store, IInv, TypeOK
  <2>4. Status' = "run" /\ end' = end
    BY <1>4 DEF BlockExecDirty, Status
  <2>5. Plain!PlainExec
    BY <1>1, <1>2, <2>1, <2>2, <2>3, <2>4, PlainSame DEF Plain!PlainExec, Status
  <2> QED
    BY <2>5 DEF Plain!PlainNext
<1>5. CASE BlockFault
  BY <1>1, <1>2, <1>5, FaultMaps DEF BlockFault, Plain!PlainNext
<1> QED
  BY <1>3, <1>4, <1>5

LEMMA FetchFaultMaps == ASSUME IInv, FetchFault PROVE Plain!PlainNext
<1>1. ~Decodable(rip) /\ Status = "run"
  BY DEF FetchFault, IInv, LoopOK, CompiledTo, Status
<1>2. ~Fetchable(rip)
  BY <1>1 DEF Decodable
<1>3. Plain!PlainFault
  BY <1>1, <1>2, PlainSame DEF FetchFault, Plain!PlainFault, Status, memory, Plain!memory
<1> QED
  BY <1>3 DEF Plain!PlainNext

LEMMA RefinementStep == IInv /\ [Next]_vars => [Plain!PlainNext]_Plain!plainVars
<1> SUFFICES ASSUME IInv, [Next]_vars PROVE Plain!PlainNext \/ UNCHANGED Plain!plainVars
  OBVIOUS
<1>1. CASE Host
  BY <1>1, HostMaps
<1>2. CASE Engine
  <2>1. CASE Poll \/ BlockHit \/ BlockMiss \/ CompileMore \/ CompileDone \/ CompileNone
    BY <2>1, Invisible
  <2>2. CASE FetchFault
    BY <2>2, FetchFaultMaps
  <2>3. CASE Interpret \/ InterpretFault \/ CallHook
    BY <2>3, InterpretMaps
  <2>4. CASE BlockExec \/ BlockExecDirty \/ BlockExecLast \/ BlockFault
    BY <2>4, BlockMaps
  <2> QED
    BY <1>2, <2>1, <2>2, <2>3, <2>4 DEF Engine
<1>3. CASE UNCHANGED vars
  BY <1>3 DEF vars, memory, Plain!plainVars, Plain!memory
<1> QED
  BY <1>1, <1>2, <1>3 DEF Next

LEMMA RefinementInit == Init => Plain!PlainInit
  BY DEF Init, MemoryInit, Addr, Plain!PlainInit, Plain!MemoryInit, Plain!Addr

(* The engine, with its decode cache and its blocks, executes what a       *)
(* machine without caches would, for every program and every self-         *)
(* modification of it.                                                     *)
THEOREM Refinement == Spec => ImplementsPlain
  BY RefinementInit, RefinementStep, Inductive, PTL DEF Spec, ImplementsPlain, Plain!PlainSpec
=============================================================================
