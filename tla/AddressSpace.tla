---------------------------- MODULE AddressSpace ----------------------------
(***************************************************************************)
(* internal/emulator: the address space of a guest process.  Load maps the *)
(* segments of an image and of its interpreter and the stack; brk, mmap,   *)
(* munmap and mprotect change the mapping; execve starts again with        *)
(* another image.  A forked child starts with a copy of all of it.         *)
(*                                                                         *)
(* The code tells the first byte of a page from its other bytes and no     *)
(* more, so a page is two addresses: address 2n is the first byte of page  *)
(* n and 2n + 1 stands for the rest.  Pages are written by their number,   *)
(* and the sums of the code wrap at the top of the address space.          *)
(***************************************************************************)
EXTENDS Integers, Sequences

CONSTANTS NumPages,              \* the pages of the address space (2^52)
          MmapBase, MmapMax,     \* mmapBase and mmapMax
          StackBase, StackPages, \* the stack, page aligned
          Images,                \* the programs: their segments where Load places them,
                                 \* pieBase or interpBase added, the interpreter's last
          BrkArg, AddrArg, LenArg, ProtArg    \* bound: the arguments tried

Page == 0..(NumPages - 1)
Address == 0..(2 * NumPages - 1)
Prot == SUBSET {"r", "w", "x"}
None == {"none"}         \* not in m.pages
Segment == [at : Address, size : Address, prot : Prot, main : BOOLEAN]

ASSUME SpaceAssumption == NumPages \in Nat \ {0}
ASSUME LayoutAssumption ==
    /\ {MmapBase, MmapMax, StackBase} \subseteq Page
    /\ MmapBase <= MmapMax
    /\ StackPages \in Nat /\ StackBase + StackPages < NumPages
ASSUME ImagesAssumption ==
    /\ Images # {} /\ Images \subseteq Seq(Segment)
    /\ \A img \in Images : \A k \in DOMAIN img : img[k].at + img[k].size + 1 < 2 * NumPages
ASSUME ArgAssumption ==
    BrkArg \subseteq Address /\ AddrArg \subseteq Address /\ LenArg \subseteq Address
    /\ ProtArg \subseteq Prot

VARIABLES
    perm,          \* perm[a]: the protection of page a, or None
    mmapNext, brkStart, brkCur, brkMappedEnd,   \* those of Process; brkCur in bytes
    phase,         \* "load", "run" or "dead"
    todo,          \* the segments Load has still to map
    top,           \* mapSegments: the end of the image so far
    given,         \* history: the pages of image, stack and mmap calls, unless unmapped
    holes,         \* history: the pages the guest has unmapped
    wrapped        \* history: a call was granted a range that wraps

brk == <<brkStart, brkCur, brkMappedEnd>>
vars == <<perm, mmapNext, brk, phase, todo, top, given, holes, wrapped>>

(* pageAlignDown and pageAlignUp, as page numbers; sums of uint64.         *)
Wrap(n) == IF n >= NumPages THEN n - NumPages ELSE n
PageAlignDown(x) == x \div 2
PageAlignUp(x) == Wrap((x + 1) \div 2)

(* The pages a loop "for a := base; a < base+n" visits: none if it wraps.  *)
Loop(base, n) == {a \in Page : base <= a /\ a < Wrap(base + n)}
(* The pages a caller that is granted n pages at base takes for its own.   *)
Promise(base, n) == {a \in Page : base <= a /\ a < base + n}
Wraps(base, n) == base + n >= NumPages

Mapped == {a \in Page : perm[a] # None}

(* Mutation: the pages that are mapped already are replaced.               *)
CanMapOver(base, n) == n # 0
(* MemMap fails, changing nothing, if a page is mapped or there is none.   *)
CanMap(base, n) == n # 0 /\ Loop(base, n) \cap Mapped = {}
MemMap(base, n, prot) ==
    perm' = [a \in Page |-> IF a \in Loop(base, n) THEN prot ELSE perm[a]]
MemUnmap(base, n) ==
    perm' = [a \in Page |-> IF a \in Loop(base, n) THEN None ELSE perm[a]]
MemProtect(base, n, prot) ==
    perm' = [a \in Page |-> IF a \in Loop(base, n) \cap Mapped THEN prot ELSE perm[a]]

-----------------------------------------------------------------------------
(***************************************************************************)
(* Load: mapSegments, segment by segment, first the image's and then its   *)
(* interpreter's; the stack; Run.                                          *)
(***************************************************************************)
(* NewProcess: a new engine, with nothing mapped.                          *)
Init ==
    /\ perm = [a \in Page |-> None]
    /\ mmapNext = MmapBase
    /\ brkStart = 0 /\ brkCur = 0 /\ brkMappedEnd = 0
    /\ phase = "load"
    /\ todo \in Images
    /\ top = 0
    /\ given = {} /\ holes = {} /\ wrapped = FALSE

(* That a page is mapped already is not an error: the segments of an image *)
(* may share one.  It keeps the protection it has, and the other pages of  *)
(* the segment stay unmapped, so that the copy of its data fails there.    *)
Sharing(seg) == ~CanMap(PageAlignDown(seg.at), PageAlignUp(seg.at + seg.size) - PageAlignDown(seg.at))
Protection(seg) == IF seg.prot = {} THEN {"r", "w", "x"} ELSE seg.prot
Touched(seg) == {a \in Page : PageAlignDown(seg.at) <= a /\ 2 * a < seg.at + seg.size}

MapSegment ==
    /\ phase = "load"
    /\ todo # <<>>
    /\ LET seg == Head(todo)
           base == PageAlignDown(seg.at)
           end == PageAlignUp(seg.at + seg.size)
       IN /\ IF Sharing(seg) THEN UNCHANGED perm ELSE MemMap(base, end - base, Protection(seg))
          /\ IF seg.size = 0 \/ \A a \in Touched(seg) : perm'[a] # None
             THEN /\ phase' = phase
                  /\ given' = given \cup (IF seg.size = 0 THEN {} ELSE Touched(seg))
             ELSE phase' = "dead" /\ UNCHANGED given
          /\ top' = IF seg.main /\ end > top THEN end ELSE top
          /\ todo' = Tail(todo)
    /\ UNCHANGED <<mmapNext, brk, holes, wrapped>>

(* The stack is mapped, the break starts at the end of the image and Run   *)
(* calls EmuStart.                                                         *)
LoadDone ==
    /\ phase = "load"
    /\ todo = <<>>
    /\ IF CanMap(StackBase, StackPages)
       THEN /\ MemMap(StackBase, StackPages, {"r", "w"})
            /\ brkStart' = top /\ brkCur' = 2 * top /\ brkMappedEnd' = top
            /\ given' = given \cup Promise(StackBase, StackPages)
            /\ phase' = "run"
       ELSE /\ phase' = "dead"
            /\ UNCHANGED <<perm, brk, given>>
    /\ UNCHANGED <<mmapNext, todo, top, holes, wrapped>>

(* The image or its interpreter cannot be read, a relocation lies outside  *)
(* of it, the arguments do not fit on the stack.                           *)
LoadFails ==
    /\ phase = "load"
    /\ phase' = "dead"
    /\ UNCHANGED <<perm, mmapNext, brk, todo, top, given, holes, wrapped>>

-----------------------------------------------------------------------------
(***************************************************************************)
(* The system calls of the running process.                                *)
(***************************************************************************)
(* Mutation: a failure to map the pages is only logged.                    *)
BrkMapsIgnoresError(end) ==
    IF CanMap(brkMappedEnd, end - brkMappedEnd)
    THEN MemMap(brkMappedEnd, end - brkMappedEnd, {"r", "w"}) ELSE UNCHANGED perm
(* The pages from brkMappedEnd to end can be mapped, and are.              *)
BrkMaps(end) ==
    /\ CanMap(brkMappedEnd, end - brkMappedEnd)
    /\ MemMap(brkMappedEnd, end - brkMappedEnd, {"r", "w"})

(* DoBrk.  A break that comes down leaves its pages mapped.                *)
DoBrk(addr) ==
    /\ phase = "run"
    /\ addr # 0 /\ addr >= 2 * brkStart
    /\ LET needEnd == PageAlignUp(addr)
       IN \/ /\ needEnd > brkMappedEnd
             /\ BrkMaps(needEnd)
             /\ brkMappedEnd' = needEnd
          \/ /\ needEnd <= brkMappedEnd
             /\ UNCHANGED <<perm, brkMappedEnd>>
    /\ brkCur' = addr
    /\ wrapped' = (wrapped \/ PageAlignUp(addr) * 2 < addr)
    /\ holes' = holes \ {a \in Page : perm[a] = None /\ perm'[a] # None}
    /\ UNCHANGED <<mmapNext, brkStart, phase, todo, top, given>>

(* DoMmap with MAP_FIXED and an address: what is there is removed first.   *)
(* (MemMap then fails for an empty range only.)                            *)
DoMmapFixed(addr, len, prot) ==
    LET base == PageAlignDown(addr)
        n == PageAlignUp(len)
    IN /\ phase = "run"
       /\ addr # 0
       /\ n # 0
       /\ MemMap(base, n, prot)
       /\ given' = given \cup Promise(base, n)
       /\ holes' = holes \ Loop(base, n)
       /\ wrapped' = (wrapped \/ Wraps(base, n))
       /\ UNCHANGED <<mmapNext, brk, phase, todo, top>>

(* DoMmap without: the next pages of the arena.                            *)
DoMmap(len, prot) ==
    LET n == PageAlignUp(len)
        newNext == Wrap(mmapNext + n)
    IN /\ phase = "run"
       /\ newNext <= MmapMax
       /\ CanMap(mmapNext, n)
       /\ MemMap(mmapNext, n, prot)
       /\ mmapNext' = newNext
       /\ given' = given \cup Promise(mmapNext, n)
       /\ holes' = holes \ Loop(mmapNext, n)
       /\ wrapped' = (wrapped \/ Wraps(mmapNext, n))
       /\ UNCHANGED <<brk, phase, todo, top>>

DoMunmap(addr, len) ==
    LET range == Loop(PageAlignDown(addr), PageAlignUp(len))
    IN /\ phase = "run"
       /\ MemUnmap(PageAlignDown(addr), PageAlignUp(len))
       /\ given' = given \ range
       /\ holes' = holes \cup range
       /\ UNCHANGED <<mmapNext, brk, phase, todo, top, wrapped>>

DoMprotect(addr, len, prot) ==
    /\ phase = "run"
    /\ MemProtect(PageAlignDown(addr), PageAlignUp(len), prot)
    /\ UNCHANGED <<mmapNext, brk, phase, todo, top, given, holes, wrapped>>

(* execImage: a new engine again.  (A file that cannot be loaded ends the  *)
(* process.)                                                               *)
ExecImage(img) ==
    /\ phase = "run"
    /\ perm' = [a \in Page |-> None]
    /\ mmapNext' = MmapBase
    /\ brkStart' = 0 /\ brkCur' = 0 /\ brkMappedEnd' = 0
    /\ phase' = "load"
    /\ todo' = img
    /\ top' = 0
    /\ given' = {} /\ holes' = {} /\ wrapped' = FALSE

Next ==
    \/ MapSegment \/ LoadDone \/ LoadFails
    \/ \E addr \in BrkArg : DoBrk(addr)
    \/ \E addr \in AddrArg, len \in LenArg, prot \in ProtArg : DoMmapFixed(addr, len, prot)
    \/ \E len \in LenArg, prot \in ProtArg : DoMmap(len, prot)
    \/ \E addr \in AddrArg, len \in LenArg : DoMunmap(addr, len)
    \/ \E addr \in AddrArg, len \in LenArg, prot \in ProtArg : DoMprotect(addr, len, prot)
    \/ \E img \in Images : ExecImage(img)

Spec == Init /\ [][Next]_vars

-----------------------------------------------------------------------------
TypeOK ==
    /\ perm \in [Page -> Prot \cup {None}]
    /\ {mmapNext, brkStart, brkMappedEnd, top} \subseteq Page
    /\ brkCur \in Address
    /\ phase \in {"load", "run", "dead"}
    /\ todo \in Seq(Segment)
    /\ given \subseteq Page /\ holes \subseteq Page
    /\ wrapped \in BOOLEAN

(* The pages below the break.                                              *)
Heap == {a \in Page : brkStart <= a /\ 2 * a < brkCur}

(* Safety.  Every page the process was told it has, of its image, its      *)
(* stack, its heap or a mapping, is mapped unless the guest unmapped it:   *)
(* whatever brk did when it failed, came down and went up again, and       *)
(* whatever was mapped over the heap or in its way.  (Not once a call was  *)
(* granted a range that wraps: MemMap then maps nothing and reports        *)
(* success.)                                                               *)
PromisedIsMapped == ~wrapped => given \cup Heap \subseteq Mapped \cup holes

(* Action property.  Neither brk nor mmap without MAP_FIXED touches a page *)
(* that is mapped, wherever earlier calls left the break and the arena;    *)
(* what mmap hands out lies in the arena, unless a range wrapped.          *)
NewPagesAreFresh ==
    [][\/ /\ \A a \in Mapped : perm'[a] = perm[a]
          /\ ~wrapped' => given' \ given \subseteq MmapBase..(MmapMax - 1)
       \/ /\ ~ \E addr \in BrkArg : DoBrk(addr)
          /\ ~ \E len \in LenArg, prot \in ProtArg : DoMmap(len, prot)]_vars
=============================================================================
