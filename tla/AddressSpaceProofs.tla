------------------------- MODULE AddressSpaceProofs -------------------------
(***************************************************************************)
(* Proofs about AddressSpace, for every size of the address space, every   *)
(* layout, every set of programs and of arguments.                         *)
(*                                                                         *)
(* PromisedIsMapped is not inductive: brk goes up again inside the pages   *)
(* it mapped before and looks at brkMappedEnd only, so the invariant must  *)
(* speak of all pages up to there, and of the arena's next page for the    *)
(* action property.                                                        *)
(***************************************************************************)
EXTENDS AddressSpace, TLAPS

(* The heap's pages, those above the break included.                       *)
Reserved == {a \in Page : brkStart <= a /\ a < brkMappedEnd}
HeapOK ==
    /\ brkStart <= brkMappedEnd
    /\ brkCur <= 2 * brkMappedEnd
    /\ Reserved \subseteq Mapped \cup holes
ArenaOK == MmapBase <= mmapNext
PlacedOK == \A k \in 1..Len(todo) : todo[k].at + todo[k].size + 1 < 2 * NumPages
IInv ==
    /\ TypeOK
    /\ PlacedOK
    /\ ~wrapped => given \subseteq Mapped \cup holes /\ HeapOK /\ ArenaOK

(* A protection is never the mark of an unmapped page.                     *)
LEMMA NoneIsNoProt == None \notin Prot
  BY DEF None, Prot

(* What the alignments and the loops of the code range over.               *)
LEMMA AlignType ==
    \A x \in Address : PageAlignDown(x) \in Page /\ PageAlignUp(x) \in Page
  BY SpaceAssumption DEF Address, Page, PageAlignDown, PageAlignUp, Wrap

LEMMA WrapType == \A x, y \in Page : Wrap(x + y) \in Page
  BY SpaceAssumption DEF Page, Wrap

(* The initial state satisfies the invariant.                              *)
LEMMA InitIInv == Init => IInv
<1> SUFFICES ASSUME Init PROVE IInv
  OBVIOUS
<1>1. TypeOK
  <2>1. 0 \in Page /\ 0 \in Address /\ MmapBase \in Page
    BY SpaceAssumption, LayoutAssumption DEF Page, Address
  <2>2. todo \in Seq(Segment)
    BY ImagesAssumption DEF Init
  <2>3. perm \in [Page -> Prot \cup {None}]
    BY DEF Init
  <2> QED
    BY <2>1, <2>2, <2>3 DEF Init, TypeOK
<1>2. PlacedOK
  BY ImagesAssumption DEF Init, PlacedOK
<1>3. given \subseteq Mapped \cup holes /\ HeapOK /\ ArenaOK
  BY LayoutAssumption DEF Init, HeapOK, ArenaOK, Reserved, Page
<1> QED
  BY <1>1, <1>2, <1>3 DEF IInv

(* Load maps a segment.                                                    *)
LEMMA MapSegmentIInv == IInv /\ MapSegment => IInv'
<1> SUFFICES ASSUME IInv, MapSegment PROVE IInv'
  OBVIOUS
<1> DEFINE seg == Head(todo)
           base == PageAlignDown(seg.at)
           end == PageAlignUp(seg.at + seg.size)
<1>1. seg \in Segment /\ seg.at + seg.size + 1 < 2 * NumPages
  BY DEF IInv, TypeOK, PlacedOK, MapSegment
<1>2. base \in Page /\ end \in Page /\ Protection(seg) \in Prot /\ Touched(seg) \subseteq Page
  <2>1. seg.at \in Address /\ seg.at + seg.size \in Address /\ seg.prot \in Prot
    BY <1>1, SpaceAssumption DEF Segment, Address
  <2> QED
    BY <2>1, AlignType DEF Protection, Prot, Touched
<1>3. perm' \in [Page -> Prot \cup {None}]
  BY <1>2 DEF MapSegment, MemMap, IInv, TypeOK
<1>4. \A a \in Page : perm[a] # None => perm'[a] # None
  BY <1>2, NoneIsNoProt DEF MapSegment, MemMap, IInv, TypeOK
<1>5. given' \subseteq given \cup Mapped' /\ given' \subseteq Page
  BY <1>2 DEF MapSegment, Mapped, IInv, TypeOK
<1>6. todo' \in Seq(Segment) /\ PlacedOK'
  <2>1. todo # <<>> /\ todo' = Tail(todo) /\ todo \in Seq(Segment)
    BY DEF MapSegment, IInv, TypeOK
  <2>2. Len(todo') = Len(todo) - 1 /\ \A k \in 1..Len(todo') : todo'[k] = todo[k + 1]
    BY <2>1
  <2> QED
    BY <2>1, <2>2 DEF IInv, PlacedOK
<1>7. TypeOK'
  BY <1>2, <1>3, <1>5, <1>6 DEF MapSegment, IInv, TypeOK, brk
<1>8. ASSUME ~wrapped'
      PROVE  given' \subseteq Mapped' \cup holes' /\ HeapOK' /\ ArenaOK'
  BY <1>4, <1>5, <1>8 DEF MapSegment, IInv, HeapOK, ArenaOK, Reserved, Mapped, brk
<1> QED
  BY <1>6, <1>7, <1>8 DEF IInv

(* Load maps the stack and starts the program.                             *)
LEMMA LoadDoneIInv == IInv /\ LoadDone => IInv'
<1> SUFFICES ASSUME IInv, LoadDone PROVE IInv'
  OBVIOUS
<1>1. PlacedOK' /\ todo' \in Seq(Segment)
  BY DEF LoadDone, IInv, PlacedOK, TypeOK
<1>2. {"r", "w"} \in Prot
  BY DEF Prot
<1>3. CASE CanMap(StackBase, StackPages)
  <2>1. /\ MemMap(StackBase, StackPages, {"r", "w"})
        /\ brkStart' = top /\ brkCur' = 2 * top /\ brkMappedEnd' = top
        /\ given' = given \cup Promise(StackBase, StackPages)
        /\ phase' = "run"
        /\ UNCHANGED <<mmapNext, todo, top, holes, wrapped>>
    BY <1>3 DEF LoadDone
  <2>2. Promise(StackBase, StackPages) = Loop(StackBase, StackPages)
    BY LayoutAssumption, SpaceAssumption DEF Promise, Loop, Wrap, Page
  <2>3. perm' \in [Page -> Prot \cup {None}]
    BY <2>1, <1>2 DEF MemMap, IInv, TypeOK
  <2>4. \A a \in Page : perm[a] # None \/ a \in Loop(StackBase, StackPages) => perm'[a] # None
    BY <2>1, <1>2, NoneIsNoProt DEF MemMap
  <2>5. given' \subseteq Page
    BY <2>1 DEF IInv, TypeOK, Promise
  <2>6. TypeOK'
    BY <2>1, <2>3, <2>5, <1>1, SpaceAssumption DEF IInv, TypeOK, Page, Address
  <2>7. ASSUME ~wrapped'
        PROVE  given' \subseteq Mapped' \cup holes' /\ HeapOK' /\ ArenaOK'
    <3>1. given' \subseteq Mapped' \cup holes'
      BY <2>1, <2>2, <2>4, <2>7 DEF IInv, TypeOK, Mapped, Loop
    <3>2. HeapOK'
      BY <2>1, SpaceAssumption DEF HeapOK, Reserved, Page, IInv, TypeOK
    <3> QED
      BY <3>1, <3>2, <2>1, <2>7 DEF IInv, ArenaOK
  <2> QED
    BY <1>1, <2>6, <2>7 DEF IInv
<1>4. CASE ~CanMap(StackBase, StackPages)
  <2>1. /\ phase' = "dead"
        /\ UNCHANGED <<perm, brk, given, mmapNext, todo, top, holes, wrapped>>
    BY <1>4 DEF LoadDone
  <2> QED
    BY <2>1, <1>1 DEF IInv, TypeOK, PlacedOK, HeapOK, ArenaOK, Reserved, Mapped, brk
<1> QED
  BY <1>3, <1>4

(* Loading fails.                                                          *)
LEMMA LoadFailsIInv == IInv /\ LoadFails => IInv'
  BY DEF IInv, TypeOK, PlacedOK, LoadFails, HeapOK, ArenaOK, Reserved, Mapped, brk

-----------------------------------------------------------------------------
(* brk.  The pages it reserves are mapped or were unmapped by the guest.   *)
LEMMA DoBrkIInv == ASSUME NEW addr \in BrkArg PROVE IInv /\ DoBrk(addr) => IInv'
<1> SUFFICES ASSUME IInv, DoBrk(addr) PROVE IInv'
  OBVIOUS
<1> DEFINE needEnd == PageAlignUp(addr)
<1>1. addr \in Address /\ needEnd \in Page
  BY ArgAssumption, AlignType
<1>2. /\ 2 * brkStart <= addr /\ brkCur' = addr
      /\ wrapped' = (wrapped \/ needEnd * 2 < addr)
      /\ holes' = holes \ {a \in Page : perm[a] = None /\ perm'[a] # None}
      /\ UNCHANGED <<mmapNext, brkStart, phase, todo, top, given>>
  BY DEF DoBrk
<1>3. PlacedOK'
  BY <1>2 DEF IInv, PlacedOK
<1>4. CASE needEnd > brkMappedEnd
  <2>1. brkMappedEnd' = needEnd /\ CanMap(brkMappedEnd, needEnd - brkMappedEnd)
        /\ MemMap(brkMappedEnd, needEnd - brkMappedEnd, {"r", "w"})
    BY <1>4, <1>1 DEF DoBrk, BrkMaps, IInv, TypeOK, Page
  <2>2. {"r", "w"} \in Prot
    BY DEF Prot
  <2>3. perm' \in [Page -> Prot \cup {None}]
    BY <2>1, <2>2 DEF MemMap, IInv, TypeOK
  <2>4. \A a \in Page : perm[a] # None => perm'[a] # None
    BY <2>1, <2>2, NoneIsNoProt DEF MemMap
  <2>5. \A a \in Page : brkMappedEnd <= a /\ a < needEnd => perm'[a] # None
    <3>1. \A a \in Page : brkMappedEnd <= a /\ a < needEnd
                          => a \in Loop(brkMappedEnd, needEnd - brkMappedEnd)
      BY <1>1, <1>4, SpaceAssumption DEF Loop, Wrap, Page, IInv, TypeOK
    <3> QED
      BY <3>1, <2>1, <2>2, NoneIsNoProt DEF MemMap
  <2>6. TypeOK'
    BY <1>1, <1>2, <2>1, <2>3 DEF IInv, TypeOK
  <2>7. Mapped \cup holes \subseteq Mapped' \cup holes'
    BY <1>2, <2>4 DEF Mapped, IInv, TypeOK
  <2>8. ASSUME ~wrapped'
        PROVE  given' \subseteq Mapped' \cup holes' /\ HeapOK' /\ ArenaOK'
    <3>0. ~wrapped /\ ~(needEnd * 2 < addr)
      BY <1>2, <2>8, Zenon
    <3>1. ~wrapped /\ addr <= 2 * needEnd
      BY <3>0, <1>1 DEF Address, Page
    <3>2. Reserved' \subseteq Mapped' \cup holes'
      BY <3>1, <1>1, <1>2, <2>1, <2>5, <2>7 DEF IInv, TypeOK, HeapOK, Reserved, Mapped, Page
    <3>3. brkStart' <= brkMappedEnd' /\ brkCur' <= 2 * brkMappedEnd'
      BY <3>1, <1>1, <1>2, <1>4, <2>1 DEF IInv, TypeOK, HeapOK, Page
    <3> QED
      BY <3>1, <3>2, <3>3, <1>2, <2>7 DEF IInv, HeapOK, ArenaOK
  <2> QED
    BY <1>3, <2>6, <2>8 DEF IInv
<1>5. CASE ~(needEnd > brkMappedEnd)
  <2>1. needEnd <= brkMappedEnd /\ UNCHANGED <<perm, brkMappedEnd>>
    BY <1>1, <1>5 DEF DoBrk, IInv, TypeOK, Page
  <2>2. holes' = holes
    BY <1>2, <2>1
  <2>3. TypeOK'
    BY <1>1, <1>2, <2>1, <2>2 DEF IInv, TypeOK
  <2>4. ASSUME ~wrapped'
        PROVE  given' \subseteq Mapped' \cup holes' /\ HeapOK' /\ ArenaOK'
    <3>0. ~wrapped /\ ~(needEnd * 2 < addr)
      BY <1>2, <2>4, Zenon
    <3>1. ~wrapped /\ addr <= 2 * needEnd
      BY <3>0, <1>1 DEF Address, Page
    <3>2. brkCur' <= 2 * brkMappedEnd'
      BY <3>1, <1>1, <1>2, <2>1 DEF IInv, TypeOK, Page, Address
    <3> QED
      BY <3>1, <3>2, <1>2, <2>1, <2>2 DEF IInv, HeapOK, ArenaOK, Reserved, Mapped
  <2> QED
    BY <1>3, <2>3, <2>4 DEF IInv
<1> QED
  BY <1>4, <1>5

(* A range that does not wrap is visited from its first page to its last.  *)
LEMMA LoopIsPromise ==
    \A base, n \in Page : ~Wraps(base, n) => Loop(base, n) = Promise(base, n)
  BY SpaceAssumption DEF Wraps, Loop, Promise, Wrap, Page

(* What a mapping of n pages at base does to the invariant's parts, for    *)
(* mmap of both kinds.                                                     *)
LEMMA GrantKeeps ==
    ASSUME IInv, NEW base \in Page, NEW n \in Page, NEW prot \in ProtArg,
           MemMap(base, n, prot),
           given' = given \cup Promise(base, n),
           holes' = holes \ Loop(base, n),
           wrapped' = (wrapped \/ Wraps(base, n)),
           UNCHANGED <<brk, phase, todo, top>>
    PROVE  /\ perm' \in [Page -> Prot \cup {None}]
           /\ given' \subseteq Page /\ holes' \subseteq Page /\ wrapped' \in BOOLEAN
           /\ PlacedOK'
           /\ ~wrapped' => ~wrapped /\ given' \subseteq Mapped' \cup holes' /\ HeapOK'
<1>1. prot \in Prot
  BY ArgAssumption
<1>2. perm' \in [Page -> Prot \cup {None}]
  BY <1>1 DEF MemMap, IInv, TypeOK
<1>3. given' \subseteq Page /\ holes' \subseteq Page /\ wrapped' \in BOOLEAN
  BY DEF IInv, TypeOK, Promise, Wraps
<1>4. PlacedOK'
  BY DEF IInv, PlacedOK
<1>5. \A a \in Page : perm[a] # None \/ a \in Loop(base, n) => perm'[a] # None
  BY <1>1, NoneIsNoProt DEF MemMap
<1>6. Mapped \cup holes \subseteq Mapped' \cup holes'
  BY <1>5 DEF Mapped, IInv, TypeOK
<1>7. ASSUME ~wrapped'
      PROVE  ~wrapped /\ given' \subseteq Mapped' \cup holes' /\ HeapOK'
  <2>1. ~wrapped /\ ~Wraps(base, n)
    BY <1>7
  <2>2. Promise(base, n) \subseteq Mapped'
    BY <2>1, <1>5, LoopIsPromise DEF Mapped, Loop
  <2> QED
    BY <2>1, <2>2, <1>6 DEF IInv, HeapOK, Reserved, brk
<1> QED
  BY <1>2, <1>3, <1>4, <1>7

(* mmap with MAP_FIXED.                                                    *)
LEMMA DoMmapFixedIInv ==
    ASSUME NEW addr \in AddrArg, NEW len \in LenArg, NEW prot \in ProtArg
    PROVE  IInv /\ DoMmapFixed(addr, len, prot) => IInv'
<1> SUFFICES ASSUME IInv, DoMmapFixed(addr, len, prot) PROVE IInv'
  OBVIOUS
<1> DEFINE base == PageAlignDown(addr)
           n == PageAlignUp(len)
<1>1. base \in Page /\ n \in Page
  BY ArgAssumption, AlignType
<1>2. /\ MemMap(base, n, prot)
      /\ given' = given \cup Promise(base, n)
      /\ holes' = holes \ Loop(base, n)
      /\ wrapped' = (wrapped \/ Wraps(base, n))
      /\ UNCHANGED <<mmapNext, brk, phase, todo, top>>
  BY DEF DoMmapFixed
<1> HIDE DEF base, n
<1>3. /\ perm' \in [Page -> Prot \cup {None}]
      /\ given' \subseteq Page /\ holes' \subseteq Page /\ wrapped' \in BOOLEAN
      /\ PlacedOK'
      /\ ~wrapped' => ~wrapped /\ given' \subseteq Mapped' \cup holes' /\ HeapOK'
  BY <1>1, <1>2, GrantKeeps
<1> QED
  BY <1>2, <1>3 DEF IInv, TypeOK, ArenaOK, brk

(* mmap without.                                                           *)
LEMMA DoMmapIInv ==
    ASSUME NEW len \in LenArg, NEW prot \in ProtArg
    PROVE  IInv /\ DoMmap(len, prot) => IInv'
<1> SUFFICES ASSUME IInv, DoMmap(len, prot) PROVE IInv'
  OBVIOUS
<1> DEFINE n == PageAlignUp(len)
<1>1. mmapNext \in Page /\ n \in Page
  BY ArgAssumption, AlignType DEF IInv, TypeOK
<1>2. /\ MemMap(mmapNext, n, prot)
      /\ mmapNext' = Wrap(mmapNext + n)
      /\ given' = given \cup Promise(mmapNext, n)
      /\ holes' = holes \ Loop(mmapNext, n)
      /\ wrapped' = (wrapped \/ Wraps(mmapNext, n))
      /\ UNCHANGED <<brk, phase, todo, top>>
  BY DEF DoMmap
<1> HIDE DEF n
<1>3. /\ perm' \in [Page -> Prot \cup {None}]
      /\ given' \subseteq Page /\ holes' \subseteq Page /\ wrapped' \in BOOLEAN
      /\ PlacedOK'
      /\ ~wrapped' => ~wrapped /\ given' \subseteq Mapped' \cup holes' /\ HeapOK'
  BY <1>1, <1>2, GrantKeeps
<1>4. mmapNext' \in Page
  BY <1>1, <1>2, WrapType
<1>5. ASSUME ~wrapped' PROVE ArenaOK'
  <2>1. ~wrapped /\ ~Wraps(mmapNext, n)
    BY <1>2, <1>5, Zenon
  <2> QED
    BY <2>1, <1>1, <1>2, LayoutAssumption, SpaceAssumption
       DEF IInv, ArenaOK, Wraps, Wrap, Page
<1> QED
  BY <1>2, <1>3, <1>4, <1>5 DEF IInv, TypeOK, brk

(* munmap.                                                                 *)
LEMMA DoMunmapIInv ==
    ASSUME NEW addr \in AddrArg, NEW len \in LenArg
    PROVE  IInv /\ DoMunmap(addr, len) => IInv'
<1> SUFFICES ASSUME IInv, DoMunmap(addr, len) PROVE IInv'
  OBVIOUS
<1> DEFINE range == Loop(PageAlignDown(addr), PageAlignUp(len))
<1>1. /\ perm' = [a \in Page |-> IF a \in range THEN None ELSE perm[a]]
      /\ given' = given \ range /\ holes' = holes \cup range
      /\ UNCHANGED <<mmapNext, brk, phase, todo, top, wrapped>>
  BY DEF DoMunmap, MemUnmap
<1>2. range \subseteq Page
  BY DEF Loop
<1> HIDE DEF range
<1>3. TypeOK'
  BY <1>1, <1>2 DEF IInv, TypeOK, brk
<1>4. PlacedOK'
  BY <1>1 DEF IInv, PlacedOK
<1>5. Mapped \cup holes \subseteq Mapped' \cup holes'
  BY <1>1, <1>2 DEF Mapped, IInv, TypeOK
<1>6. ~wrapped' => given' \subseteq Mapped' \cup holes' /\ HeapOK' /\ ArenaOK'
  BY <1>1, <1>5 DEF IInv, HeapOK, ArenaOK, Reserved, brk
<1> QED
  BY <1>3, <1>4, <1>6 DEF IInv

(* mprotect.                                                               *)
LEMMA DoMprotectIInv ==
    ASSUME NEW addr \in AddrArg, NEW len \in LenArg, NEW prot \in ProtArg
    PROVE  IInv /\ DoMprotect(addr, len, prot) => IInv'
<1> SUFFICES ASSUME IInv, DoMprotect(addr, len, prot) PROVE IInv'
  OBVIOUS
<1>1. prot \in Prot
  BY ArgAssumption
<1>2. perm' \in [Page -> Prot \cup {None}] /\ Mapped' = Mapped
  BY <1>1, NoneIsNoProt DEF DoMprotect, MemProtect, Mapped, IInv, TypeOK
<1> QED
  BY <1>2 DEF DoMprotect, IInv, TypeOK, PlacedOK, HeapOK, ArenaOK, Reserved, brk

(* execve.                                                                 *)
LEMMA ExecImageIInv == ASSUME NEW img \in Images PROVE IInv /\ ExecImage(img) => IInv'
<1> SUFFICES ASSUME ExecImage(img) PROVE IInv'
  OBVIOUS
<1>1. 0 \in Page /\ 0 \in Address /\ MmapBase \in Page
  BY SpaceAssumption, LayoutAssumption DEF Page, Address
<1>2. todo' \in Seq(Segment) /\ PlacedOK'
  BY ImagesAssumption DEF ExecImage, PlacedOK
<1>3. perm' \in [Page -> Prot \cup {None}]
  BY DEF ExecImage
<1>4. TypeOK'
  BY <1>1, <1>2, <1>3 DEF ExecImage, TypeOK
<1>5. given' \subseteq Mapped' \cup holes' /\ HeapOK' /\ ArenaOK'
  BY LayoutAssumption DEF ExecImage, HeapOK, ArenaOK, Reserved, Page
<1> QED
  BY <1>2, <1>4, <1>5 DEF IInv

-----------------------------------------------------------------------------
(* Every step preserves the invariant.                                     *)
LEMMA NextIInv == IInv /\ [Next]_vars => IInv'
<1> SUFFICES ASSUME IInv, [Next]_vars PROVE IInv'
  OBVIOUS
<1>1. CASE UNCHANGED vars
  BY <1>1 DEF vars, brk, IInv, TypeOK, PlacedOK, HeapOK, ArenaOK, Reserved, Mapped
<1>2. CASE Next
  BY <1>2, MapSegmentIInv, LoadDoneIInv, LoadFailsIInv, DoBrkIInv, DoMmapFixedIInv,
     DoMmapIInv, DoMunmapIInv, DoMprotectIInv, ExecImageIInv DEF Next
<1> QED
  BY <1>1, <1>2

(* The invariant holds in every behaviour of Load and the memory calls.    *)
THEOREM Inductive == Spec => []IInv
  BY InitIInv, NextIInv, PTL DEF Spec

(* The state of Process and Memory has its type, whatever wraps.           *)
THEOREM TypeCorrect == Spec => []TypeOK
  BY Inductive, PTL DEF IInv

(* Every page the process was told it has is mapped unless it was unmapped.*)
THEOREM PromisesKept == Spec => []PromisedIsMapped
<1>1. IInv => PromisedIsMapped
  <2> SUFFICES ASSUME IInv, ~wrapped PROVE given \cup Heap \subseteq Mapped \cup holes
    BY DEF PromisedIsMapped
  <2>1. Heap \subseteq Reserved
    BY DEF IInv, TypeOK, HeapOK, Heap, Reserved, Page, Address
  <2> QED
    BY <2>1 DEF IInv, HeapOK
<1> QED
  BY <1>1, Inductive, PTL

(* brk and mmap without MAP_FIXED only add pages.                          *)
THEOREM FreshPages == Spec => NewPagesAreFresh
<1> DEFINE Fresh == /\ \A a \in Mapped : perm'[a] = perm[a]
                    /\ ~wrapped' => given' \ given \subseteq MmapBase..(MmapMax - 1)
<1>1. ASSUME IInv, NEW addr \in BrkArg, DoBrk(addr) PROVE Fresh
  <2>1. given' = given
    BY <1>1 DEF DoBrk
  <2>2. \A a \in Mapped : perm'[a] = perm[a]
    BY <1>1 DEF DoBrk, BrkMaps, CanMap, MemMap, Mapped
  <2> QED
    BY <2>1, <2>2
<1>2. ASSUME IInv, NEW len \in LenArg, NEW prot \in ProtArg, DoMmap(len, prot) PROVE Fresh
  <2> DEFINE n == PageAlignUp(len)
  <2>1. mmapNext \in Page /\ n \in Page
    BY <1>2, ArgAssumption, AlignType DEF IInv, TypeOK
  <2>2. /\ CanMap(mmapNext, n) /\ MemMap(mmapNext, n, prot)
        /\ Wrap(mmapNext + n) <= MmapMax
        /\ given' = given \cup Promise(mmapNext, n)
        /\ wrapped' = (wrapped \/ Wraps(mmapNext, n))
    BY <1>2 DEF DoMmap
  <2> HIDE DEF n
  <2>3. \A a \in Mapped : perm'[a] = perm[a]
    BY <2>2 DEF CanMap, MemMap, Mapped
  <2>4. ASSUME ~wrapped' PROVE Promise(mmapNext, n) \subseteq MmapBase..(MmapMax - 1)
    <3>1. ~wrapped /\ ~Wraps(mmapNext, n)
      BY <2>2, <2>4, Zenon
    <3>2. MmapBase <= mmapNext /\ mmapNext + n <= MmapMax
      BY <3>1, <1>2, <2>1, <2>2, SpaceAssumption DEF IInv, ArenaOK, Wraps, Wrap, Page
    <3> QED
      BY <3>2, <2>1, LayoutAssumption DEF Promise, Page
  <2> QED
    BY <2>2, <2>3, <2>4
<1>3. IInv /\ [Next]_vars =>
        [\/ Fresh
         \/ /\ ~ \E addr \in BrkArg : DoBrk(addr)
            /\ ~ \E len \in LenArg, prot \in ProtArg : DoMmap(len, prot)]_vars
  BY <1>1, <1>2
<1> QED
  BY <1>3, Inductive, PTL DEF Spec, NewPagesAreFresh
=============================================================================
