------------------------- MODULE DescriptorProofs -------------------------
(***************************************************************************)
(* Proofs about FdTable, for any number of processes, Files and            *)
(* descriptors, and from them about Pipeline, for any numbers of bytes and *)
(* any capacity of the pipe.                                               *)
(***************************************************************************)
EXTENDS Pipeline, FiniteSetTheorems, TLAPS

(***************************************************************************)
(* The inductive invariant, part by part.                                  *)
(***************************************************************************)

Cloning(p) == pc[p] = "clone" \/ (pc[p] = "incr" /\ ret[p] = "clone")
Dropping(p) == pc[p] \in {"decr", "shut"}
Installing(p) == pc[p] = "install" \/ (Dropping(p) /\ ret[p] = "install")
Looping(p) == pc[p] \in {"cloexec", "closeall"}
              \/ (Dropping(p) /\ ret[p] \in {"cloexec", "closeall"})

(* Where a call returns to.                                                *)
ReturnAt(p) ==
    /\ pc[p] = "incr" => ret[p] \in {"user", "clone"}
    /\ Dropping(p) => ret[p] \in {"user", "install", "cloexec", "closeall"}
    /\ pc[p] \notin {"incr", "decr", "shut"} => ret[p] = "user"

(* Whose table it writes: the goroutine's own, except in Clone; the table  *)
(* Clone builds belongs to nobody else.                                    *)
OwnerAt(p) ==
    /\ Cloning(p) => tab[p] # p /\ pc[tab[p]] = "nascent"
    /\ ~Cloning(p) => tab[p] = p
    /\ \A q \in Proc : p # q /\ Cloning(p) /\ Cloning(q) => tab[p] # tab[q]

ControlInv == \A p \in Proc : ReturnAt(p) /\ OwnerAt(p)

(* Alloc's number is above every number in use.                            *)
NextAt(p) == \A fd \in Fd : entries[p][fd] # NoFile => fd < next[p]

(* What is in the tables at each point of a call.                          *)
EntryAt(p) ==
    /\ pc[p] \in {"unborn", "nascent"} => cloexec[p] = {}
    /\ pc[p] = "unborn" => \A fd \in Fd : entries[p][fd] = NoFile
    /\ pc[p] = "incr" => entries[tab[p]][slot[p]] # NoFile
    /\ Dropping(p) => file[p] # NoFile /\ entries[p][slot[p]] = NoFile
    /\ Installing(p) => /\ entries[p][slot[p]] = NoFile
                        /\ inst[p] # NoFile
                        /\ \E fd \in Fd : entries[p][fd] = inst[p]
    /\ Looping(p) => \A fd \in todo[p] : entries[p][fd] # NoFile

(* How far Clone has come.                                                 *)
CloneAt(p) ==
    Cloning(p) =>
        /\ next[tab[p]] = next[p]
        /\ \A fd \in todo[p] : entries[p][fd] # NoFile /\ entries[tab[p]][fd] = NoFile
        /\ \A fd \in Fd \ todo[p] : entries[tab[p]][fd] = entries[p][fd]

TableInv == \A p \in Proc : NextAt(p) /\ EntryAt(p) /\ CloneAt(p)

(* No goroutine is giving up a descriptor of f.                            *)
Undropped(f) == \A q \in Proc : Dropping(q) => file[q] # f

(* The File a goroutine is about to count is held by another descriptor of *)
(* its own table, or nobody else has seen it yet.                          *)
NewFile(p, f) ==
    /\ \A q \in Proc, fd \in Fd : entries[q][fd] = f => q = tab[p] /\ fd = slot[p]
    /\ Undropped(f)
    /\ closes[f] = 0

SourceAt(p) ==
    pc[p] = "incr" =>
        \/ \E fd \in Fd : /\ tab[p] = p => fd # slot[p]
                          /\ entries[p][fd] = entries[tab[p]][slot[p]]
        \/ NewFile(p, entries[tab[p]][slot[p]])

SourceInv == \A p \in Proc : SourceAt(p)

(* A File is closed once, with no descriptor left and nobody dropping one. *)
Unreferenced(f) == \A q \in Proc, fd \in Fd : entries[q][fd] # f

FileAt(f) ==
    /\ closes[f] \in {0, 1}
    /\ f \notin opened => closes[f] = 0
    /\ f \notin opened \/ closes[f] = 1 => Unreferenced(f) /\ Undropped(f)

ShutAt(p) ==
    pc[p] = "shut" => /\ Unreferenced(file[p])
                      /\ \A q \in Proc : q # p /\ Dropping(q) => file[q] # file[p]

FileInv == (\A f \in File : FileAt(f)) /\ (\A p \in Proc : ShutAt(p))

IInv == /\ TypeOK
        /\ ControlInv
        /\ TableInv
        /\ SourceInv
        /\ FileInv
        /\ CloexecIsOpen
        /\ CountsAreReferences

-----------------------------------------------------------------------------
(* TypeOK is preserved.                                                    *)
LEMMA TypeStep ==
    ASSUME TypeOK, ControlInv, TableInv, [Next]_vars
    PROVE  TypeOK'
  <1> USE DEF vars, tables, refs, regs
  <1>1. ASSUME NEW p \in Proc, NEW c \in Proc, Clone(p, c) PROVE TypeOK'
    BY <1>1 DEF Clone, TypeOK, PC, Loops, OpenFds
  <1> USE MaxFdAssumption DEF TypeOK, ControlInv, ReturnAt, TableInv, EntryAt, Fd, PC, Loops, Dropping, Installing, OpenFds
  <1>2. ASSUME NEW p \in Proc, Incr(p) PROVE TypeOK'
    BY <1>2 DEF Incr, Return
  <1>3. ASSUME NEW p \in Proc, Decr(p) PROVE TypeOK'
    BY <1>3 DEF Decr, Return
  <1>4. ASSUME NEW p \in Proc, DecrLast(p) PROVE TypeOK'
    BY <1>4 DEF DecrLast
  <1>5. ASSUME NEW p \in Proc, Shut(p) PROVE TypeOK'
    BY <1>5 DEF Shut, Return
  <1>6. ASSUME NEW p \in Proc, Install(p) PROVE TypeOK'
    BY <1>6 DEF Install
  <1>7. ASSUME NEW p \in Proc, NEW fd \in Fd, CloneEntry(p, fd) PROVE TypeOK'
    BY <1>7 DEF CloneEntry
  <1>8. ASSUME NEW p \in Proc, CloneDone(p) PROVE TypeOK'
    BY <1>8 DEF CloneDone
  <1>9. ASSUME NEW p \in Proc, NEW fd \in Fd, CloseNext(p, fd) PROVE TypeOK'
    BY <1>9 DEF CloseNext, BeginClose
  <1>10. ASSUME NEW p \in Proc, CloseOnExecDone(p) PROVE TypeOK'
    BY <1>10 DEF CloseOnExecDone
  <1>11. ASSUME NEW p \in Proc, CloseAllDone(p) PROVE TypeOK'
    BY <1>11 DEF CloseAllDone
  <1>12. ASSUME NEW p \in Proc, NEW f \in File, AllocNew(p, f) PROVE TypeOK'
    BY <1>12 DEF AllocNew, Alloc
  <1>13. ASSUME NEW p \in Proc, NEW fd \in Fd, Dup(p, fd) PROVE TypeOK'
    BY <1>13 DEF Dup, Alloc
  <1>14. ASSUME NEW p \in Proc, NEW fd \in Fd, Close(p, fd) PROVE TypeOK'
    BY <1>14 DEF Close, BeginClose
  <1>15. ASSUME NEW p \in Proc, NEW o \in Fd, NEW n \in Fd, Dup2Over(p, o, n) PROVE TypeOK'
    BY <1>15 DEF Dup2Over, BeginClose
  <1>16. ASSUME NEW p \in Proc, NEW o \in Fd, NEW n \in Fd, Dup2Free(p, o, n) PROVE TypeOK'
    BY <1>16 DEF Dup2Free
  <1>17. ASSUME NEW p \in Proc, NEW fd \in Fd, NEW val \in BOOLEAN, SetCloexec(p, fd, val) PROVE TypeOK'
    BY <1>17 DEF SetCloexec
  <1>18. ASSUME NEW p \in Proc, CloseOnExec(p) PROVE TypeOK'
    BY <1>18 DEF CloseOnExec
  <1>19. ASSUME NEW p \in Proc, CloseAll(p) PROVE TypeOK'
    BY <1>19 DEF CloseAll
  <1>20. CASE UNCHANGED vars
    BY <1>20
  <1> HIDE DEF TypeOK, ControlInv, ReturnAt, TableInv, EntryAt, Fd, PC, Loops, Dropping, Installing, OpenFds
  <1>21. QED
    BY <1>1, <1>2, <1>3, <1>4, <1>5, <1>6, <1>7, <1>8, <1>9, <1>10, <1>11,
       <1>12, <1>13, <1>14, <1>15, <1>16, <1>17, <1>18, <1>19, <1>20,
       ArgFdAssumption DEF Next, Call, Step, Fd

(* ReturnAt is preserved.                                                  *)
LEMMA ReturnStep ==
    ASSUME TypeOK, ControlInv, [Next]_vars, NEW q \in Proc
    PROVE  ReturnAt(q)'
  <1> USE DEF vars, tables, refs, regs
  <1> USE DEF ControlInv, ReturnAt, OwnerAt, Cloning, TypeOK, Dropping
  <1>1. ASSUME NEW p \in Proc, Incr(p) PROVE ReturnAt(q)'
    BY <1>1 DEF Incr, Return
  <1>2. ASSUME NEW p \in Proc, Decr(p) PROVE ReturnAt(q)'
    BY <1>2 DEF Decr, Return
  <1>3. ASSUME NEW p \in Proc, DecrLast(p) PROVE ReturnAt(q)'
    BY <1>3 DEF DecrLast
  <1>4. ASSUME NEW p \in Proc, Shut(p) PROVE ReturnAt(q)'
    BY <1>4 DEF Shut, Return
  <1>5. ASSUME NEW p \in Proc, Install(p) PROVE ReturnAt(q)'
    BY <1>5 DEF Install
  <1>6. ASSUME NEW p \in Proc, NEW fd \in Fd, CloneEntry(p, fd) PROVE ReturnAt(q)'
    BY <1>6 DEF CloneEntry
  <1>7. ASSUME NEW p \in Proc, CloneDone(p) PROVE ReturnAt(q)'
    BY <1>7 DEF CloneDone
  <1>8. ASSUME NEW p \in Proc, NEW fd \in Fd, CloseNext(p, fd) PROVE ReturnAt(q)'
    BY <1>8 DEF CloseNext, BeginClose
  <1>9. ASSUME NEW p \in Proc, CloseOnExecDone(p) PROVE ReturnAt(q)'
    BY <1>9 DEF CloseOnExecDone
  <1>10. ASSUME NEW p \in Proc, CloseAllDone(p) PROVE ReturnAt(q)'
    BY <1>10 DEF CloseAllDone
  <1>11. ASSUME NEW p \in Proc, NEW f \in File, AllocNew(p, f) PROVE ReturnAt(q)'
    BY <1>11 DEF AllocNew, Alloc
  <1>12. ASSUME NEW p \in Proc, NEW fd \in Fd, Dup(p, fd) PROVE ReturnAt(q)'
    BY <1>12 DEF Dup, Alloc
  <1>13. ASSUME NEW p \in Proc, NEW fd \in Fd, Close(p, fd) PROVE ReturnAt(q)'
    BY <1>13 DEF Close, BeginClose
  <1>14. ASSUME NEW p \in Proc, NEW o \in Fd, NEW n \in Fd, Dup2Over(p, o, n) PROVE ReturnAt(q)'
    BY <1>14 DEF Dup2Over, BeginClose
  <1>15. ASSUME NEW p \in Proc, NEW o \in Fd, NEW n \in Fd, Dup2Free(p, o, n) PROVE ReturnAt(q)'
    BY <1>15 DEF Dup2Free
  <1>16. ASSUME NEW p \in Proc, NEW fd \in Fd, NEW val \in BOOLEAN, SetCloexec(p, fd, val) PROVE ReturnAt(q)'
    BY <1>16 DEF SetCloexec
  <1>17. ASSUME NEW p \in Proc, NEW c \in Proc, Clone(p, c) PROVE ReturnAt(q)'
    BY <1>17 DEF Clone
  <1>18. ASSUME NEW p \in Proc, CloseOnExec(p) PROVE ReturnAt(q)'
    BY <1>18 DEF CloseOnExec
  <1>19. ASSUME NEW p \in Proc, CloseAll(p) PROVE ReturnAt(q)'
    BY <1>19 DEF CloseAll
  <1>20. CASE UNCHANGED vars
    BY <1>20
  <1> HIDE DEF ControlInv, ReturnAt, OwnerAt, Cloning, TypeOK, Dropping
  <1>21. QED
    BY <1>1, <1>2, <1>3, <1>4, <1>5, <1>6, <1>7, <1>8, <1>9, <1>10, <1>11,
       <1>12, <1>13, <1>14, <1>15, <1>16, <1>17, <1>18, <1>19, <1>20,
       ArgFdAssumption DEF Next, Call, Step, Fd

(* OwnerAt is preserved: Clone writes a table no other goroutine writes.   *)
LEMMA OwnerStep ==
    ASSUME TypeOK, ControlInv, [Next]_vars, NEW q \in Proc
    PROVE  OwnerAt(q)'
  <1> USE DEF vars, tables, refs, regs
  <1> USE DEF ControlInv, ReturnAt, OwnerAt, TypeOK, Cloning, Dropping
  <1>1. ASSUME NEW p \in Proc, Incr(p) PROVE OwnerAt(q)'
    BY <1>1 DEF Incr, Return
  <1>2. ASSUME NEW p \in Proc, Decr(p) PROVE OwnerAt(q)'
    BY <1>2 DEF Decr, Return
  <1>3. ASSUME NEW p \in Proc, DecrLast(p) PROVE OwnerAt(q)'
    BY <1>3 DEF DecrLast
  <1>4. ASSUME NEW p \in Proc, Shut(p) PROVE OwnerAt(q)'
    BY <1>4 DEF Shut, Return
  <1>5. ASSUME NEW p \in Proc, Install(p) PROVE OwnerAt(q)'
    BY <1>5 DEF Install
  <1>6. ASSUME NEW p \in Proc, NEW fd \in Fd, CloneEntry(p, fd) PROVE OwnerAt(q)'
    BY <1>6 DEF CloneEntry
  <1>7. ASSUME NEW p \in Proc, CloneDone(p) PROVE OwnerAt(q)'
    BY <1>7 DEF CloneDone
  <1>8. ASSUME NEW p \in Proc, NEW fd \in Fd, CloseNext(p, fd) PROVE OwnerAt(q)'
    BY <1>8 DEF CloseNext, BeginClose
  <1>9. ASSUME NEW p \in Proc, CloseOnExecDone(p) PROVE OwnerAt(q)'
    BY <1>9 DEF CloseOnExecDone
  <1>10. ASSUME NEW p \in Proc, CloseAllDone(p) PROVE OwnerAt(q)'
    BY <1>10 DEF CloseAllDone
  <1>11. ASSUME NEW p \in Proc, NEW f \in File, AllocNew(p, f) PROVE OwnerAt(q)'
    BY <1>11 DEF AllocNew, Alloc
  <1>12. ASSUME NEW p \in Proc, NEW fd \in Fd, Dup(p, fd) PROVE OwnerAt(q)'
    BY <1>12 DEF Dup, Alloc
  <1>13. ASSUME NEW p \in Proc, NEW fd \in Fd, Close(p, fd) PROVE OwnerAt(q)'
    BY <1>13 DEF Close, BeginClose
  <1>14. ASSUME NEW p \in Proc, NEW o \in Fd, NEW n \in Fd, Dup2Over(p, o, n) PROVE OwnerAt(q)'
    BY <1>14 DEF Dup2Over, BeginClose
  <1>15. ASSUME NEW p \in Proc, NEW o \in Fd, NEW n \in Fd, Dup2Free(p, o, n) PROVE OwnerAt(q)'
    BY <1>15 DEF Dup2Free
  <1>16. ASSUME NEW p \in Proc, NEW fd \in Fd, NEW val \in BOOLEAN, SetCloexec(p, fd, val) PROVE OwnerAt(q)'
    BY <1>16 DEF SetCloexec
  <1>17. ASSUME NEW p \in Proc, NEW c \in Proc, Clone(p, c) PROVE OwnerAt(q)'
    BY <1>17 DEF Clone
  <1>18. ASSUME NEW p \in Proc, CloseOnExec(p) PROVE OwnerAt(q)'
    BY <1>18 DEF CloseOnExec
  <1>19. ASSUME NEW p \in Proc, CloseAll(p) PROVE OwnerAt(q)'
    BY <1>19 DEF CloseAll
  <1>20. CASE UNCHANGED vars
    BY <1>20
  <1> HIDE DEF ControlInv, ReturnAt, OwnerAt, TypeOK, Cloning, Dropping
  <1>21. QED
    BY <1>1, <1>2, <1>3, <1>4, <1>5, <1>6, <1>7, <1>8, <1>9, <1>10, <1>11,
       <1>12, <1>13, <1>14, <1>15, <1>16, <1>17, <1>18, <1>19, <1>20,
       ArgFdAssumption DEF Next, Call, Step, Fd

(* NextAt is preserved: Alloc and Dup2 keep next above the entries.        *)
LEMMA NextStep ==
    ASSUME TypeOK, ControlInv, TableInv, [Next]_vars, NEW q \in Proc
    PROVE  NextAt(q)'
  <1> USE DEF vars, tables, refs, regs
  <1> USE MaxFdAssumption DEF ControlInv, OwnerAt, TypeOK, TableInv, NextAt, EntryAt, CloneAt, Cloning, Fd
  <1>1. ASSUME NEW p \in Proc, Incr(p) PROVE NextAt(q)'
    BY <1>1 DEF Incr, Return
  <1>2. ASSUME NEW p \in Proc, Decr(p) PROVE NextAt(q)'
    BY <1>2 DEF Decr, Return
  <1>3. ASSUME NEW p \in Proc, DecrLast(p) PROVE NextAt(q)'
    BY <1>3 DEF DecrLast
  <1>4. ASSUME NEW p \in Proc, Shut(p) PROVE NextAt(q)'
    BY <1>4 DEF Shut, Return
  <1>5. ASSUME NEW p \in Proc, Install(p) PROVE NextAt(q)'
    BY <1>5 DEF Install
  <1>6. ASSUME NEW p \in Proc, NEW fd \in Fd, CloneEntry(p, fd) PROVE NextAt(q)'
    BY <1>6 DEF CloneEntry
  <1>7. ASSUME NEW p \in Proc, CloneDone(p) PROVE NextAt(q)'
    BY <1>7 DEF CloneDone
  <1>8. ASSUME NEW p \in Proc, NEW fd \in Fd, CloseNext(p, fd) PROVE NextAt(q)'
    BY <1>8 DEF CloseNext, BeginClose
  <1>9. ASSUME NEW p \in Proc, CloseOnExecDone(p) PROVE NextAt(q)'
    BY <1>9 DEF CloseOnExecDone
  <1>10. ASSUME NEW p \in Proc, CloseAllDone(p) PROVE NextAt(q)'
    BY <1>10 DEF CloseAllDone
  <1>11. ASSUME NEW p \in Proc, NEW f \in File, AllocNew(p, f) PROVE NextAt(q)'
    BY <1>11 DEF AllocNew, Alloc
  <1>12. ASSUME NEW p \in Proc, NEW fd \in Fd, Dup(p, fd) PROVE NextAt(q)'
    BY <1>12 DEF Dup, Alloc
  <1>13. ASSUME NEW p \in Proc, NEW fd \in Fd, Close(p, fd) PROVE NextAt(q)'
    BY <1>13 DEF Close, BeginClose
  <1>14. ASSUME NEW p \in Proc, NEW o \in Fd, NEW n \in Fd, Dup2Over(p, o, n) PROVE NextAt(q)'
    BY <1>14 DEF Dup2Over, BeginClose
  <1>15. ASSUME NEW p \in Proc, NEW o \in Fd, NEW n \in Fd, Dup2Free(p, o, n) PROVE NextAt(q)'
    BY <1>15 DEF Dup2Free
  <1>16. ASSUME NEW p \in Proc, NEW fd \in Fd, NEW val \in BOOLEAN, SetCloexec(p, fd, val) PROVE NextAt(q)'
    BY <1>16 DEF SetCloexec
  <1>17. ASSUME NEW p \in Proc, NEW c \in Proc, Clone(p, c) PROVE NextAt(q)'
    BY <1>17 DEF Clone
  <1>18. ASSUME NEW p \in Proc, CloseOnExec(p) PROVE NextAt(q)'
    BY <1>18 DEF CloseOnExec
  <1>19. ASSUME NEW p \in Proc, CloseAll(p) PROVE NextAt(q)'
    BY <1>19 DEF CloseAll
  <1>20. CASE UNCHANGED vars
    BY <1>20
  <1> HIDE DEF ControlInv, OwnerAt, TypeOK, TableInv, NextAt, EntryAt, CloneAt, Cloning, Fd
  <1>21. QED
    BY <1>1, <1>2, <1>3, <1>4, <1>5, <1>6, <1>7, <1>8, <1>9, <1>10, <1>11,
       <1>12, <1>13, <1>14, <1>15, <1>16, <1>17, <1>18, <1>19, <1>20,
       ArgFdAssumption DEF Next, Call, Step, Fd

(* EntryAt is preserved.                                                   *)
LEMMA EntryStep ==
    ASSUME TypeOK, ControlInv, TableInv, CloexecIsOpen, [Next]_vars, NEW q \in Proc
    PROVE  EntryAt(q)'
  <1> USE DEF vars, tables, refs, regs
  <1>1. ASSUME NEW p \in Proc, Incr(p) PROVE EntryAt(q)'
    BY <1>1 DEF Incr, Return, TableInv, EntryAt, ControlInv, ReturnAt,
       OwnerAt, TypeOK, Cloning, Dropping, Installing, Looping
  <1>2. ASSUME NEW p \in Proc, NEW f \in File, AllocNew(p, f) PROVE EntryAt(q)'
    <2>1. q # p => tab[q] # p \/ pc[q] # "incr"
      BY <1>2 DEF AllocNew, Alloc, ControlInv, OwnerAt, TypeOK, Cloning
    <2>2. CASE q = p
      <3>1. /\ pc'[p] = "incr" /\ tab'[p] = p /\ slot'[p] = next[p]
            /\ entries'[p][next[p]] = f
        BY <1>2 DEF AllocNew, Alloc, TypeOK, ControlInv, OwnerAt, Cloning
      <3>2. QED
        BY <2>2, <3>1, NoFileAssumption DEF EntryAt, Installing, Dropping,
           Looping
    <2>3. CASE q # p
      BY <1>2, <2>1, <2>3 DEF AllocNew, Alloc, TypeOK, TableInv, EntryAt,
         Installing, Dropping, Looping
    <2>4. QED
      BY <2>2, <2>3
  <1>3. ASSUME NEW p \in Proc, NEW fd \in Fd, Close(p, fd) PROVE EntryAt(q)'
    BY <1>3 DEF Close, BeginClose, TableInv, EntryAt, ControlInv, ReturnAt,
       OwnerAt, TypeOK, Cloning, Dropping, Installing, Looping
  <1> USE DEF CloexecIsOpen, TableInv, NextAt, EntryAt, CloneAt, OpenFds, ControlInv, ReturnAt, OwnerAt, TypeOK, Cloning, Dropping, Installing, Looping
  <1>4. ASSUME NEW p \in Proc, Decr(p) PROVE EntryAt(q)'
    BY <1>4 DEF Decr, Return
  <1>5. ASSUME NEW p \in Proc, DecrLast(p) PROVE EntryAt(q)'
    BY <1>5 DEF DecrLast
  <1>6. ASSUME NEW p \in Proc, Shut(p) PROVE EntryAt(q)'
    BY <1>6 DEF Shut, Return
  <1>7. ASSUME NEW p \in Proc, Install(p) PROVE EntryAt(q)'
    BY <1>7 DEF Install
  <1>8. ASSUME NEW p \in Proc, NEW fd \in Fd, CloneEntry(p, fd) PROVE EntryAt(q)'
    BY <1>8 DEF CloneEntry
  <1>9. ASSUME NEW p \in Proc, CloneDone(p) PROVE EntryAt(q)'
    BY <1>9 DEF CloneDone
  <1>10. ASSUME NEW p \in Proc, NEW fd \in Fd, CloseNext(p, fd) PROVE EntryAt(q)'
    BY <1>10 DEF CloseNext, BeginClose
  <1>11. ASSUME NEW p \in Proc, CloseOnExecDone(p) PROVE EntryAt(q)'
    BY <1>11 DEF CloseOnExecDone
  <1>12. ASSUME NEW p \in Proc, CloseAllDone(p) PROVE EntryAt(q)'
    BY <1>12 DEF CloseAllDone
  <1>13. ASSUME NEW p \in Proc, NEW fd \in Fd, Dup(p, fd) PROVE EntryAt(q)'
    BY <1>13 DEF Dup, Alloc
  <1>14. ASSUME NEW p \in Proc, NEW o \in Fd, NEW n \in Fd, Dup2Over(p, o, n) PROVE EntryAt(q)'
    BY <1>14 DEF Dup2Over, BeginClose
  <1>15. ASSUME NEW p \in Proc, NEW o \in Fd, NEW n \in Fd, Dup2Free(p, o, n) PROVE EntryAt(q)'
    BY <1>15 DEF Dup2Free
  <1>16. ASSUME NEW p \in Proc, NEW fd \in Fd, NEW val \in BOOLEAN, SetCloexec(p, fd, val) PROVE EntryAt(q)'
    BY <1>16 DEF SetCloexec
  <1>17. ASSUME NEW p \in Proc, NEW c \in Proc, Clone(p, c) PROVE EntryAt(q)'
    BY <1>17 DEF Clone
  <1>18. ASSUME NEW p \in Proc, CloseOnExec(p) PROVE EntryAt(q)'
    BY <1>18 DEF CloseOnExec
  <1>19. ASSUME NEW p \in Proc, CloseAll(p) PROVE EntryAt(q)'
    BY <1>19 DEF CloseAll
  <1>20. CASE UNCHANGED vars
    BY <1>20
  <1> HIDE DEF CloexecIsOpen, TableInv, NextAt, EntryAt, CloneAt, OpenFds, ControlInv, ReturnAt, OwnerAt, TypeOK, Cloning, Dropping, Installing, Looping
  <1>21. QED
    BY <1>1, <1>2, <1>3, <1>4, <1>5, <1>6, <1>7, <1>8, <1>9, <1>10, <1>11,
       <1>12, <1>13, <1>14, <1>15, <1>16, <1>17, <1>18, <1>19, <1>20,
       ArgFdAssumption DEF Next, Call, Step, Fd

(* CloneAt is preserved: fork's copy stays in step with the table.         *)
LEMMA CloneStep ==
    ASSUME TypeOK, ControlInv, TableInv, [Next]_vars, NEW q \in Proc
    PROVE  CloneAt(q)'
  <1> USE DEF vars, tables, refs, regs
  <1>1. ASSUME NEW p \in Proc, Decr(p) PROVE CloneAt(q)'
    <2>1. Cloning(q)' => Cloning(q) /\ q # p /\ tab[q] # p
      BY <1>1 DEF Decr, Return, ControlInv, ReturnAt, OwnerAt, TypeOK,
         Cloning, Dropping
    <2>2. ASSUME Cloning(q)' PROVE UNCHANGED <<tab[q], next[q], next[tab[q]], todo[q], entries[q], entries[tab[q]]>>
      BY <1>1, <2>1, <2>2 DEF Decr, Return, TypeOK
    <2>3. QED
      BY <2>1, <2>2 DEF TableInv, CloneAt
  <1>2. ASSUME NEW p \in Proc, Shut(p) PROVE CloneAt(q)'
    <2>1. Cloning(q)' => Cloning(q) /\ q # p /\ tab[q] # p
      BY <1>2 DEF Shut, Return, ControlInv, ReturnAt, OwnerAt, TypeOK,
         Cloning, Dropping
    <2>2. ASSUME Cloning(q)' PROVE UNCHANGED <<tab[q], next[q], next[tab[q]], todo[q], entries[q], entries[tab[q]]>>
      BY <1>2, <2>1, <2>2 DEF Shut, Return, TypeOK
    <2>3. QED
      BY <2>1, <2>2 DEF TableInv, CloneAt
  <1>3. ASSUME NEW p \in Proc, Install(p) PROVE CloneAt(q)'
    <2>1. Cloning(q)' => Cloning(q) /\ q # p /\ tab[q] # p
      BY <1>3 DEF Install, ControlInv, ReturnAt, OwnerAt, TypeOK, Cloning,
         Dropping
    <2>2. ASSUME Cloning(q)' PROVE UNCHANGED <<tab[q], next[q], next[tab[q]], todo[q], entries[q], entries[tab[q]]>>
      BY <1>3, <2>1, <2>2 DEF Install, TypeOK
    <2>3. QED
      BY <2>1, <2>2 DEF TableInv, CloneAt
  <1>4. ASSUME NEW p \in Proc, NEW f \in File, AllocNew(p, f) PROVE CloneAt(q)'
    <2>1. Cloning(q)' => Cloning(q) /\ q # p /\ tab[q] # p
      BY <1>4 DEF AllocNew, Alloc, ControlInv, ReturnAt, OwnerAt, TypeOK,
         Cloning, Dropping
    <2>2. ASSUME Cloning(q)' PROVE UNCHANGED <<tab[q], next[q], next[tab[q]], todo[q], entries[q], entries[tab[q]]>>
      BY <1>4, <2>1, <2>2 DEF AllocNew, Alloc, TypeOK
    <2>3. QED
      BY <2>1, <2>2 DEF TableInv, CloneAt
  <1>5. ASSUME NEW p \in Proc, NEW fd \in Fd, Dup(p, fd) PROVE CloneAt(q)'
    <2>1. Cloning(q)' => Cloning(q) /\ q # p /\ tab[q] # p
      BY <1>5 DEF Dup, Alloc, ControlInv, ReturnAt, OwnerAt, TypeOK, Cloning,
         Dropping
    <2>2. ASSUME Cloning(q)' PROVE UNCHANGED <<tab[q], next[q], next[tab[q]], todo[q], entries[q], entries[tab[q]]>>
      BY <1>5, <2>1, <2>2 DEF Dup, Alloc, TypeOK
    <2>3. QED
      BY <2>1, <2>2 DEF TableInv, CloneAt
  <1> USE DEF TableInv, NextAt, EntryAt, CloneAt, OpenFds, ControlInv, ReturnAt, OwnerAt, TypeOK, Cloning, Dropping, Installing, Looping
  <1>6. ASSUME NEW p \in Proc, Incr(p) PROVE CloneAt(q)'
    BY <1>6 DEF Incr, Return
  <1>7. ASSUME NEW p \in Proc, DecrLast(p) PROVE CloneAt(q)'
    BY <1>7 DEF DecrLast
  <1>8. ASSUME NEW p \in Proc, NEW fd \in Fd, CloneEntry(p, fd) PROVE CloneAt(q)'
    BY <1>8 DEF CloneEntry
  <1>9. ASSUME NEW p \in Proc, CloneDone(p) PROVE CloneAt(q)'
    BY <1>9 DEF CloneDone
  <1>10. ASSUME NEW p \in Proc, NEW fd \in Fd, CloseNext(p, fd) PROVE CloneAt(q)'
    BY <1>10 DEF CloseNext, BeginClose
  <1>11. ASSUME NEW p \in Proc, CloseOnExecDone(p) PROVE CloneAt(q)'
    BY <1>11 DEF CloseOnExecDone
  <1>12. ASSUME NEW p \in Proc, CloseAllDone(p) PROVE CloneAt(q)'
    BY <1>12 DEF CloseAllDone
  <1>13. ASSUME NEW p \in Proc, NEW fd \in Fd, Close(p, fd) PROVE CloneAt(q)'
    BY <1>13 DEF Close, BeginClose
  <1>14. ASSUME NEW p \in Proc, NEW o \in Fd, NEW n \in Fd, Dup2Over(p, o, n) PROVE CloneAt(q)'
    BY <1>14 DEF Dup2Over, BeginClose
  <1>15. ASSUME NEW p \in Proc, NEW o \in Fd, NEW n \in Fd, Dup2Free(p, o, n) PROVE CloneAt(q)'
    BY <1>15 DEF Dup2Free
  <1>16. ASSUME NEW p \in Proc, NEW fd \in Fd, NEW val \in BOOLEAN, SetCloexec(p, fd, val) PROVE CloneAt(q)'
    BY <1>16 DEF SetCloexec
  <1>17. ASSUME NEW p \in Proc, NEW c \in Proc, Clone(p, c) PROVE CloneAt(q)'
    BY <1>17 DEF Clone
  <1>18. ASSUME NEW p \in Proc, CloseOnExec(p) PROVE CloneAt(q)'
    BY <1>18 DEF CloseOnExec
  <1>19. ASSUME NEW p \in Proc, CloseAll(p) PROVE CloneAt(q)'
    BY <1>19 DEF CloseAll
  <1>20. CASE UNCHANGED vars
    BY <1>20
  <1> HIDE DEF TableInv, NextAt, EntryAt, CloneAt, OpenFds, ControlInv, ReturnAt, OwnerAt, TypeOK, Cloning, Dropping, Installing, Looping
  <1>21. QED
    BY <1>1, <1>2, <1>3, <1>4, <1>5, <1>6, <1>7, <1>8, <1>9, <1>10, <1>11,
       <1>12, <1>13, <1>14, <1>15, <1>16, <1>17, <1>18, <1>19, <1>20,
       ArgFdAssumption DEF Next, Call, Step, Fd

(* CloexecIsOpen is preserved.                                             *)
LEMMA CloexecStep ==
    ASSUME TypeOK, ControlInv, TableInv, CloexecIsOpen, [Next]_vars
    PROVE  CloexecIsOpen'
  <1> USE DEF vars, tables, refs, regs
  <1> USE DEF CloexecIsOpen, TableInv, NextAt, EntryAt, CloneAt, OpenFds, ControlInv, ReturnAt, OwnerAt, TypeOK, Cloning, Dropping, Installing, Looping
  <1>1. ASSUME NEW p \in Proc, Incr(p) PROVE CloexecIsOpen'
    BY <1>1 DEF Incr, Return
  <1>2. ASSUME NEW p \in Proc, Decr(p) PROVE CloexecIsOpen'
    BY <1>2 DEF Decr, Return
  <1>3. ASSUME NEW p \in Proc, DecrLast(p) PROVE CloexecIsOpen'
    BY <1>3 DEF DecrLast
  <1>4. ASSUME NEW p \in Proc, Shut(p) PROVE CloexecIsOpen'
    BY <1>4 DEF Shut, Return
  <1>5. ASSUME NEW p \in Proc, Install(p) PROVE CloexecIsOpen'
    BY <1>5 DEF Install
  <1>6. ASSUME NEW p \in Proc, NEW fd \in Fd, CloneEntry(p, fd) PROVE CloexecIsOpen'
    BY <1>6 DEF CloneEntry
  <1>7. ASSUME NEW p \in Proc, CloneDone(p) PROVE CloexecIsOpen'
    BY <1>7 DEF CloneDone
  <1>8. ASSUME NEW p \in Proc, NEW fd \in Fd, CloseNext(p, fd) PROVE CloexecIsOpen'
    BY <1>8 DEF CloseNext, BeginClose
  <1>9. ASSUME NEW p \in Proc, CloseOnExecDone(p) PROVE CloexecIsOpen'
    BY <1>9 DEF CloseOnExecDone
  <1>10. ASSUME NEW p \in Proc, CloseAllDone(p) PROVE CloexecIsOpen'
    BY <1>10 DEF CloseAllDone
  <1>11. ASSUME NEW p \in Proc, NEW f \in File, AllocNew(p, f) PROVE CloexecIsOpen'
    BY <1>11 DEF AllocNew, Alloc
  <1>12. ASSUME NEW p \in Proc, NEW fd \in Fd, Dup(p, fd) PROVE CloexecIsOpen'
    BY <1>12 DEF Dup, Alloc
  <1>13. ASSUME NEW p \in Proc, NEW fd \in Fd, Close(p, fd) PROVE CloexecIsOpen'
    BY <1>13 DEF Close, BeginClose
  <1>14. ASSUME NEW p \in Proc, NEW o \in Fd, NEW n \in Fd, Dup2Over(p, o, n) PROVE CloexecIsOpen'
    BY <1>14 DEF Dup2Over, BeginClose
  <1>15. ASSUME NEW p \in Proc, NEW o \in Fd, NEW n \in Fd, Dup2Free(p, o, n) PROVE CloexecIsOpen'
    BY <1>15 DEF Dup2Free
  <1>16. ASSUME NEW p \in Proc, NEW fd \in Fd, NEW val \in BOOLEAN, SetCloexec(p, fd, val) PROVE CloexecIsOpen'
    BY <1>16 DEF SetCloexec
  <1>17. ASSUME NEW p \in Proc, NEW c \in Proc, Clone(p, c) PROVE CloexecIsOpen'
    BY <1>17 DEF Clone
  <1>18. ASSUME NEW p \in Proc, CloseOnExec(p) PROVE CloexecIsOpen'
    BY <1>18 DEF CloseOnExec
  <1>19. ASSUME NEW p \in Proc, CloseAll(p) PROVE CloexecIsOpen'
    BY <1>19 DEF CloseAll
  <1>20. CASE UNCHANGED vars
    BY <1>20
  <1> HIDE DEF CloexecIsOpen, TableInv, NextAt, EntryAt, CloneAt, OpenFds, ControlInv, ReturnAt, OwnerAt, TypeOK, Cloning, Dropping, Installing, Looping
  <1>21. QED
    BY <1>1, <1>2, <1>3, <1>4, <1>5, <1>6, <1>7, <1>8, <1>9, <1>10, <1>11,
       <1>12, <1>13, <1>14, <1>15, <1>16, <1>17, <1>18, <1>19, <1>20,
       ArgFdAssumption DEF Next, Call, Step, Fd

(* SourceAt is preserved: what is being counted cannot be closed.          *)
LEMMA SourceStep ==
    ASSUME TypeOK, ControlInv, TableInv, SourceInv, FileInv, [Next]_vars, NEW q \in Proc
    PROVE  SourceAt(q)'
  <1> USE DEF vars, tables, refs, regs
  <1>1. ASSUME NEW p \in Proc, Decr(p) PROVE SourceAt(q)'
    <2>1. pc[q]' = "incr" => pc[q] = "incr" /\ q # p
      BY <1>1 DEF Decr, Return, ControlInv, ReturnAt, TypeOK, Dropping
    <2>2. \A r \in Proc : Dropping(r)' => Dropping(r) /\ file'[r] = file[r]
      BY <1>1 DEF Decr, Return, ControlInv, ReturnAt, TypeOK, Dropping
    <2>3. /\ UNCHANGED <<entries, closes, tab>>
          /\ q # p => slot'[q] = slot[q]
      BY <1>1 DEF Decr, Return, TypeOK
    <2>4. \A g : q # p /\ NewFile(q, g) => NewFile(q, g)'
      BY <2>2, <2>3 DEF NewFile, Undropped
    <2>5. QED
      BY <2>1, <2>3, <2>4 DEF SourceInv, SourceAt
  <1>2. ASSUME NEW p \in Proc, Shut(p) PROVE SourceAt(q)'
    <2>1. pc[q]' = "incr" => pc[q] = "incr" /\ q # p
      BY <1>2 DEF Shut, Return, ControlInv, ReturnAt, TypeOK, Dropping
    <2>2. \A r \in Proc : Dropping(r)' => Dropping(r) /\ file'[r] = file[r]
      BY <1>2 DEF Shut, Return, ControlInv, ReturnAt, TypeOK, Dropping
    <2>3. ASSUME pc[q] = "incr" PROVE closes'[entries[tab[q]][slot[q]]] = closes[entries[tab[q]][slot[q]]]
      BY <1>2, <2>3 DEF Shut, FileInv, ShutAt, Unreferenced, TypeOK
    <2>4. /\ UNCHANGED <<entries, tab>>
          /\ q # p => slot'[q] = slot[q]
      BY <1>2 DEF Shut, Return, TypeOK
    <2>5. \A g : q # p /\ NewFile(q, g) /\ closes'[g] = closes[g] => NewFile(q, g)'
      BY <2>2, <2>4 DEF NewFile, Undropped
    <2>6. QED
      BY <2>1, <2>3, <2>4, <2>5 DEF SourceInv, SourceAt
  <1>3. ASSUME NEW p \in Proc, NEW fd \in Fd, CloseNext(p, fd) PROVE SourceAt(q)'
    BY <1>3 DEF CloseNext, BeginClose, SourceInv, SourceAt, NewFile,
       Undropped, TableInv, EntryAt, ControlInv, ReturnAt, OwnerAt, TypeOK,
       Cloning, Dropping
  <1>4. ASSUME NEW p \in Proc, NEW f \in File, AllocNew(p, f) PROVE SourceAt(q)'
    <2>1. f \notin opened /\ Unreferenced(f) /\ Undropped(f) /\ closes[f] = 0
      BY <1>4 DEF AllocNew, FileInv, FileAt
    <2>2. CASE q = p
      BY <1>4, <2>1, <2>2 DEF AllocNew, Alloc, SourceAt, NewFile,
         Unreferenced, Undropped, Dropping, TypeOK, ControlInv, OwnerAt,
         Cloning
    <2>3. CASE q # p
      <3>1. /\ pc'[q] = pc[q] /\ slot'[q] = slot[q] /\ tab' = tab /\ closes' = closes
            /\ \A r \in Proc, x \in Fd : entries'[r][x] \in {entries[r][x], f}
            /\ \A r \in Proc, x \in Fd : r # p => entries'[r][x] = entries[r][x]
            /\ \A r \in Proc : Dropping(r)' => Dropping(r) /\ file'[r] = file[r]
        BY <1>4, <2>3 DEF AllocNew, Alloc, TypeOK, Dropping
      <3>2. pc[q] = "incr" => tab[q] # p
        BY <1>4, <2>3 DEF AllocNew, Alloc, TypeOK, ControlInv, OwnerAt, Cloning
      <3>3. \A g : g # f /\ NewFile(q, g) => NewFile(q, g)'
        BY <3>1 DEF NewFile, Undropped
      <3>4. pc[q] = "incr" => entries[tab[q]][slot[q]] # f
        BY <2>1 DEF Unreferenced, TypeOK
      <3>5. ASSUME pc[q] = "incr"
            PROVE  entries'[tab'[q]][slot'[q]] = entries[tab[q]][slot[q]]
        BY <3>1, <3>2, <3>5 DEF TypeOK
      <3>6. QED
        BY <2>3, <3>1, <3>3, <3>4, <3>5 DEF SourceInv, SourceAt
    <2>4. QED
      BY <2>2, <2>3
  <1>5. ASSUME NEW p \in Proc, NEW fd \in Fd, Close(p, fd) PROVE SourceAt(q)'
    <2>1. pc'[q] = "incr" => q # p /\ pc[q] = "incr" /\ tab[q] # p
      BY <1>5 DEF Close, BeginClose, TypeOK, ControlInv, OwnerAt, Cloning
    <2>2. /\ tab' = tab /\ closes' = closes /\ file'[p] = entries[p][fd]
          /\ q # p => slot'[q] = slot[q]
          /\ \A r \in Proc, x \in Fd : entries'[r][x] \in {entries[r][x], NoFile}
          /\ \A r \in Proc, x \in Fd : r # p => entries'[r][x] = entries[r][x]
          /\ \A r \in Proc : r # p => file'[r] = file[r] /\ (Dropping(r)' <=> Dropping(r))
      BY <1>5 DEF Close, BeginClose, TypeOK, Dropping
    <2>3. \A g : q # p /\ tab[q] # p /\ g # NoFile /\ NewFile(q, g) => NewFile(q, g)'
      BY <2>2 DEF NewFile, Undropped
    <2>4. pc[q] = "incr" => entries[tab[q]][slot[q]] # NoFile
      BY DEF TableInv, EntryAt
    <2>5. ASSUME pc'[q] = "incr"
          PROVE  entries'[tab'[q]][slot'[q]] = entries[tab[q]][slot[q]]
      BY <2>1, <2>2, <2>5 DEF TypeOK
    <2>6. QED
      BY <2>1, <2>2, <2>3, <2>4, <2>5 DEF SourceInv, SourceAt
  <1>6. ASSUME NEW p \in Proc, NEW o \in Fd, NEW n \in Fd, Dup2Over(p, o, n) PROVE SourceAt(q)'
    BY <1>6 DEF Dup2Over, BeginClose, SourceInv, SourceAt, NewFile, Undropped,
       TableInv, EntryAt, ControlInv, ReturnAt, OwnerAt, TypeOK, Cloning,
       Dropping
  <1> USE DEF SourceInv, SourceAt, FileInv, NewFile, Unreferenced, Undropped, TableInv, NextAt, EntryAt, CloneAt, OpenFds, ControlInv, ReturnAt, OwnerAt, TypeOK, Cloning, Dropping, Installing, Looping
  <1>7. ASSUME NEW p \in Proc, Incr(p) PROVE SourceAt(q)'
    BY <1>7 DEF Incr, Return
  <1>8. ASSUME NEW p \in Proc, DecrLast(p) PROVE SourceAt(q)'
    BY <1>8 DEF DecrLast
  <1>9. ASSUME NEW p \in Proc, Install(p) PROVE SourceAt(q)'
    BY <1>9 DEF Install
  <1>10. ASSUME NEW p \in Proc, NEW fd \in Fd, CloneEntry(p, fd) PROVE SourceAt(q)'
    BY <1>10 DEF CloneEntry
  <1>11. ASSUME NEW p \in Proc, CloneDone(p) PROVE SourceAt(q)'
    BY <1>11 DEF CloneDone
  <1>12. ASSUME NEW p \in Proc, CloseOnExecDone(p) PROVE SourceAt(q)'
    BY <1>12 DEF CloseOnExecDone
  <1>13. ASSUME NEW p \in Proc, CloseAllDone(p) PROVE SourceAt(q)'
    BY <1>13 DEF CloseAllDone
  <1>14. ASSUME NEW p \in Proc, NEW fd \in Fd, Dup(p, fd) PROVE SourceAt(q)'
    BY <1>14 DEF Dup, Alloc
  <1>15. ASSUME NEW p \in Proc, NEW o \in Fd, NEW n \in Fd, Dup2Free(p, o, n) PROVE SourceAt(q)'
    BY <1>15 DEF Dup2Free
  <1>16. ASSUME NEW p \in Proc, NEW fd \in Fd, NEW val \in BOOLEAN, SetCloexec(p, fd, val) PROVE SourceAt(q)'
    BY <1>16 DEF SetCloexec
  <1>17. ASSUME NEW p \in Proc, NEW c \in Proc, Clone(p, c) PROVE SourceAt(q)'
    BY <1>17 DEF Clone
  <1>18. ASSUME NEW p \in Proc, CloseOnExec(p) PROVE SourceAt(q)'
    BY <1>18 DEF CloseOnExec
  <1>19. ASSUME NEW p \in Proc, CloseAll(p) PROVE SourceAt(q)'
    BY <1>19 DEF CloseAll
  <1>20. CASE UNCHANGED vars
    BY <1>20
  <1> HIDE DEF SourceInv, SourceAt, FileInv, NewFile, Unreferenced, Undropped, TableInv, NextAt, EntryAt, CloneAt, OpenFds, ControlInv, ReturnAt, OwnerAt, TypeOK, Cloning, Dropping, Installing, Looping
  <1>21. QED
    BY <1>1, <1>2, <1>3, <1>4, <1>5, <1>6, <1>7, <1>8, <1>9, <1>10, <1>11,
       <1>12, <1>13, <1>14, <1>15, <1>16, <1>17, <1>18, <1>19, <1>20,
       ArgFdAssumption DEF Next, Call, Step, Fd

(* What the end of a call into fileRefs changes.                           *)
LEMMA ReturnEffect ==
    ASSUME TypeOK, ControlInv, NEW p \in Proc, pc[p] \in {"incr", "decr", "shut"}, Return(p)
    PROVE  /\ pc'[p] \notin {"incr", "decr", "shut"}
           /\ \A q \in Proc : q # p =>
                 pc'[q] = pc[q] /\ ret'[q] = ret[q] /\ file'[q] = file[q] /\ slot'[q] = slot[q]
           /\ \A q \in Proc : Dropping(q)' => Dropping(q) /\ q # p /\ file'[q] = file[q]
  BY DEF Return, TypeOK, ControlInv, ReturnAt, Dropping

(* The descriptors are finitely many, so references can be counted.        *)
LEMMA DescFinite == IsFiniteSet(Desc) /\ \A f \in File : IsFiniteSet(Counted(f)) /\ IsFiniteSet(Counted(f)')
  <1>1. IsFiniteSet(Fd)
    BY MaxFdAssumption, FS_Interval DEF Fd
  <1>2. IsFiniteSet(Desc)
    BY <1>1, FiniteAssumption, FS_Product DEF Desc
  <1>3. QED
    BY <1>2, FS_Subset DEF Counted

(* A step that leaves the counted descriptors of f alone keeps its count.  *)
LEMMA SameCounted ==
    ASSUME NEW f \in File, CountsAreReferences, counts'[f] = counts[f],
           \A q \in Proc, fd \in Fd : IsCounted(q, fd, f)' <=> IsCounted(q, fd, f)
    PROVE  counts'[f] = Cardinality(Counted(f)')
  <1>1. Counted(f)' = Counted(f)
    BY DEF Counted, Desc
  <1>2. QED
    BY <1>1 DEF CountsAreReferences

(* Two goroutines never have a reference to count in the same table.       *)
LEMMA OneWriter ==
    ASSUME TypeOK, ControlInv, NEW p \in Proc, NEW q \in Proc, p # q,
           pc[p] = "incr", pc[q] \in {"incr", "clone"}
    PROVE  tab[p] # tab[q]
  BY DEF TypeOK, ControlInv, ReturnAt, OwnerAt, Cloning

(* When decrAndMaybeClose finds the last reference, no table holds the     *)
(* File any more and no other goroutine is dropping it.                    *)
LEMMA LastReference ==
    ASSUME TypeOK, ControlInv, TableInv, SourceInv, FileInv, CountsAreReferences,
           NEW p \in Proc, pc[p] = "decr", counts[file[p]] - 1 <= 0
    PROVE  /\ Counted(file[p]) = {<<p, slot[p]>>}
           /\ Unreferenced(file[p])
           /\ \A q \in Proc : q # p /\ Dropping(q) => file[q] # file[p]
  <1> DEFINE f == file[p]
             d == <<p, slot[p]>>
  <1>1. f \in File /\ d \in Desc /\ entries[p][slot[p]] = NoFile
    BY DEF TypeOK, TableInv, EntryAt, Dropping, Desc
  <1>2. d \in Counted(f)
    BY <1>1 DEF Counted, IsCounted, Owed
  <1>3. Counted(f) = {d}
    <2>1. IsFiniteSet(Counted(f) \ {d}) /\ Cardinality(Counted(f) \ {d}) = Cardinality(Counted(f)) - 1
      BY <1>1, <1>2, DescFinite, FS_RemoveElement
    <2>2. Cardinality(Counted(f) \ {d}) \in Nat
      BY <2>1, FS_CardinalityType
    <2>3. Cardinality(Counted(f)) - 1 <= 0
      BY <1>1 DEF CountsAreReferences
    <2>4. Cardinality(Counted(f) \ {d}) = 0
      <3>1. Cardinality(Counted(f)) \in Nat
        BY <1>1, DescFinite, FS_CardinalityType
      <3>2. QED
        BY <2>1, <2>2, <2>3, <3>1
    <2>5. Counted(f) \ {d} = {}
      BY <2>1, <2>4, FS_EmptySet
    <2>6. QED
      BY <1>2, <2>5
  <1>4. \A q \in Proc, fd \in Fd : IsCounted(q, fd, f) => q = p /\ fd = slot[p]
    <2> SUFFICES ASSUME NEW q \in Proc, NEW fd \in Fd, IsCounted(q, fd, f)
                 PROVE  q = p /\ fd = slot[p]
      OBVIOUS
    <2>1. <<q, fd>> \in Counted(f)
      BY DEF Counted, Desc
    <2>2. QED
      BY <1>3, <2>1
  <1>5. Unreferenced(f)
    <2> SUFFICES ASSUME NEW q \in Proc, NEW fd \in Fd, entries[q][fd] = f PROVE FALSE
      BY DEF Unreferenced
    <2>1. CASE ~Uncounted(q, fd)
      BY <1>1, <1>4, <2>1, NoFileAssumption DEF IsCounted
    <2>2. CASE Uncounted(q, fd)
      <3>1. PICK r \in Proc : pc[r] = "incr" /\ tab[r] = q /\ slot[r] = fd
        BY <2>2 DEF Uncounted
      <3>2. r # p /\ ~NewFile(r, f)
        BY <3>1 DEF NewFile, Undropped, Dropping
      <3>3. PICK x \in Fd : /\ tab[r] = r => x # slot[r]
                            /\ entries[r][x] = f
        BY <3>1, <3>2 DEF SourceInv, SourceAt
      <3>4. ~Uncounted(r, x)
        BY <3>1, <3>3 DEF Uncounted, ControlInv, OwnerAt, Cloning, TypeOK
      <3>5. QED
        BY <1>4, <3>2, <3>3, <3>4 DEF IsCounted
    <2>3. QED
      BY <2>1, <2>2
  <1>6. ASSUME NEW q \in Proc, q # p, Dropping(q), file[q] = f PROVE FALSE
    <2>1. CASE pc[q] = "decr"
      BY <1>4, <1>6, <2>1 DEF IsCounted, Owed, TypeOK
    <2>2. CASE pc[q] = "shut"
      BY <1>6, <2>2 DEF FileInv, ShutAt, Dropping
    <2>3. QED
      BY <1>6, <2>1, <2>2 DEF Dropping
  <1>7. QED
    BY <1>3, <1>5, <1>6

(* FileAt is preserved: no new reference to a File that was closed.        *)
LEMMA FileStep ==
    ASSUME TypeOK, ControlInv, TableInv, FileInv, [Next]_vars, NEW g \in File
    PROVE  FileAt(g)'
  <1> USE DEF vars, tables, refs, regs
  <1>1. ASSUME NEW p \in Proc, Incr(p) PROVE FileAt(g)'
    <2>1. UNCHANGED <<entries, closes, opened>>
      BY <1>1 DEF Incr
    <2>2. \A r \in Proc : Dropping(r)' => Dropping(r) /\ file'[r] = file[r]
      BY <1>1, ReturnEffect DEF Incr
    <2>3. QED
      BY <2>1, <2>2 DEF FileInv, FileAt, Unreferenced, Undropped
  <1>2. ASSUME NEW p \in Proc, Shut(p) PROVE FileAt(g)'
    <2>1. UNCHANGED <<entries, opened>>
      BY <1>2 DEF Shut
    <2>2. \A r \in Proc : Dropping(r)' => Dropping(r) /\ r # p /\ file'[r] = file[r]
      BY <1>2, ReturnEffect DEF Shut
    <2>3. CASE g # file[p]
      BY <1>2, <2>1, <2>2, <2>3 DEF Shut, TypeOK, FileInv, FileAt,
         Unreferenced, Undropped
    <2>4. CASE g = file[p]
      <3>1. closes[g] = 0 /\ g \in opened
        BY <1>2, <2>4 DEF Shut, FileInv, FileAt, Undropped, Dropping
      <3>2. closes'[g] = 1
        BY <1>2, <2>4, <3>1 DEF Shut, TypeOK
      <3>3. Unreferenced(g)'
        BY <1>2, <2>1, <2>4 DEF Shut, FileInv, ShutAt, Unreferenced
      <3>4. Undropped(g)'
        BY <1>2, <2>2, <2>4 DEF Shut, FileInv, ShutAt, Undropped
      <3>5. QED
        BY <2>1, <3>1, <3>2, <3>3, <3>4 DEF FileAt
    <2>5. QED
      BY <2>3, <2>4
  <1>3. ASSUME NEW p \in Proc, NEW fd \in Fd, CloseNext(p, fd) PROVE FileAt(g)'
    <2>1. /\ UNCHANGED <<closes, opened>>
          /\ entries[p][fd] # NoFile /\ file'[p] = entries[p][fd]
          /\ \A r \in Proc, x \in Fd : entries'[r][x] \in {entries[r][x], NoFile}
          /\ \A r \in Proc : r # p => pc'[r] = pc[r] /\ file'[r] = file[r]
      BY <1>3 DEF CloseNext, BeginClose, TypeOK
    <2>2. Unreferenced(g) => Unreferenced(g)' /\ file'[p] # g
      BY <2>1, NoFileAssumption DEF Unreferenced
    <2>3. Undropped(g) /\ file'[p] # g => Undropped(g)'
      BY <2>1 DEF Undropped, Dropping
    <2>4. QED
      BY <2>1, <2>2, <2>3 DEF FileInv, FileAt
  <1>4. ASSUME NEW p \in Proc, NEW fd \in Fd, Close(p, fd) PROVE FileAt(g)'
    <2>1. /\ UNCHANGED <<closes, opened>>
          /\ entries[p][fd] # NoFile /\ file'[p] = entries[p][fd]
          /\ \A r \in Proc, x \in Fd : entries'[r][x] \in {entries[r][x], NoFile}
          /\ \A r \in Proc : r # p => pc'[r] = pc[r] /\ file'[r] = file[r]
      BY <1>4 DEF Close, BeginClose, TypeOK
    <2>2. Unreferenced(g) => Unreferenced(g)' /\ file'[p] # g
      BY <2>1, NoFileAssumption DEF Unreferenced
    <2>3. Undropped(g) /\ file'[p] # g => Undropped(g)'
      BY <2>1 DEF Undropped, Dropping
    <2>4. QED
      BY <2>1, <2>2, <2>3 DEF FileInv, FileAt
  <1>5. ASSUME NEW p \in Proc, NEW o \in Fd, NEW n \in Fd, Dup2Over(p, o, n) PROVE FileAt(g)'
    <2>1. /\ UNCHANGED <<closes, opened>>
          /\ entries[p][n] # NoFile /\ file'[p] = entries[p][n]
          /\ \A r \in Proc, x \in Fd : entries'[r][x] \in {entries[r][x], NoFile}
          /\ \A r \in Proc : r # p => pc'[r] = pc[r] /\ file'[r] = file[r]
      BY <1>5 DEF Dup2Over, BeginClose, TypeOK
    <2>2. Unreferenced(g) => Unreferenced(g)' /\ file'[p] # g
      BY <2>1, NoFileAssumption DEF Unreferenced
    <2>3. Undropped(g) /\ file'[p] # g => Undropped(g)'
      BY <2>1 DEF Undropped, Dropping
    <2>4. QED
      BY <2>1, <2>2, <2>3 DEF FileInv, FileAt
  <1> USE DEF FileInv, FileAt, Unreferenced, Undropped, TableInv, EntryAt, TypeOK, ControlInv, ReturnAt, OwnerAt, Cloning, Dropping, Installing
  <1>6. ASSUME NEW p \in Proc, Decr(p) PROVE FileAt(g)'
    BY <1>6 DEF Decr, Return
  <1>7. ASSUME NEW p \in Proc, DecrLast(p) PROVE FileAt(g)'
    BY <1>7 DEF DecrLast
  <1>8. ASSUME NEW p \in Proc, Install(p) PROVE FileAt(g)'
    BY <1>8 DEF Install
  <1>9. ASSUME NEW p \in Proc, NEW fd \in Fd, CloneEntry(p, fd) PROVE FileAt(g)'
    BY <1>9 DEF CloneEntry
  <1>10. ASSUME NEW p \in Proc, CloneDone(p) PROVE FileAt(g)'
    BY <1>10 DEF CloneDone
  <1>11. ASSUME NEW p \in Proc, CloseOnExecDone(p) PROVE FileAt(g)'
    BY <1>11 DEF CloseOnExecDone
  <1>12. ASSUME NEW p \in Proc, CloseAllDone(p) PROVE FileAt(g)'
    BY <1>12 DEF CloseAllDone
  <1>13. ASSUME NEW p \in Proc, NEW f \in File, AllocNew(p, f) PROVE FileAt(g)'
    BY <1>13 DEF AllocNew, Alloc
  <1>14. ASSUME NEW p \in Proc, NEW fd \in Fd, Dup(p, fd) PROVE FileAt(g)'
    BY <1>14 DEF Dup, Alloc
  <1>15. ASSUME NEW p \in Proc, NEW o \in Fd, NEW n \in Fd, Dup2Free(p, o, n) PROVE FileAt(g)'
    BY <1>15 DEF Dup2Free
  <1>16. ASSUME NEW p \in Proc, NEW fd \in Fd, NEW val \in BOOLEAN, SetCloexec(p, fd, val) PROVE FileAt(g)'
    BY <1>16 DEF SetCloexec
  <1>17. ASSUME NEW p \in Proc, NEW c \in Proc, Clone(p, c) PROVE FileAt(g)'
    BY <1>17 DEF Clone
  <1>18. ASSUME NEW p \in Proc, CloseOnExec(p) PROVE FileAt(g)'
    BY <1>18 DEF CloseOnExec
  <1>19. ASSUME NEW p \in Proc, CloseAll(p) PROVE FileAt(g)'
    BY <1>19 DEF CloseAll
  <1>20. CASE UNCHANGED vars
    BY <1>20
  <1> HIDE DEF FileInv, FileAt, Unreferenced, Undropped, TableInv, EntryAt, TypeOK, ControlInv, ReturnAt, OwnerAt, Cloning, Dropping, Installing
  <1>21. QED
    BY <1>1, <1>2, <1>3, <1>4, <1>5, <1>6, <1>7, <1>8, <1>9, <1>10, <1>11,
       <1>12, <1>13, <1>14, <1>15, <1>16, <1>17, <1>18, <1>19, <1>20,
       ArgFdAssumption DEF Next, Call, Step, Fd

(* ShutAt is preserved: Close runs only once nobody is left.               *)
LEMMA ShutStep ==
    ASSUME TypeOK, ControlInv, TableInv, SourceInv, FileInv, CountsAreReferences, [Next]_vars, NEW q \in Proc
    PROVE  ShutAt(q)'
  <1> USE DEF vars, tables, refs, regs
  <1>1. ASSUME NEW p \in Proc, Incr(p) PROVE ShutAt(q)'
    <2>1. UNCHANGED entries
      BY <1>1 DEF Incr
    <2>2. \A r \in Proc : Dropping(r)' => Dropping(r) /\ r # p /\ pc'[r] = pc[r] /\ file'[r] = file[r]
      BY <1>1, ReturnEffect DEF Incr
    <2>3. QED
      BY <2>1, <2>2 DEF FileInv, ShutAt, Unreferenced, Dropping
  <1>2. ASSUME NEW p \in Proc, Decr(p) PROVE ShutAt(q)'
    <2>1. UNCHANGED entries
      BY <1>2 DEF Decr
    <2>2. \A r \in Proc : Dropping(r)' => Dropping(r) /\ r # p /\ pc'[r] = pc[r] /\ file'[r] = file[r]
      BY <1>2, ReturnEffect DEF Decr
    <2>3. QED
      BY <2>1, <2>2 DEF FileInv, ShutAt, Unreferenced, Dropping
  <1>3. ASSUME NEW p \in Proc, DecrLast(p) PROVE ShutAt(q)'
    <2>1. /\ Unreferenced(file[p])
          /\ \A r \in Proc : r # p /\ Dropping(r) => file[r] # file[p]
      BY <1>3, LastReference DEF DecrLast
    <2>2. QED
      BY <1>3, <2>1 DEF DecrLast, FileInv, ShutAt, Unreferenced, TypeOK,
         Dropping
  <1>4. ASSUME NEW p \in Proc, Shut(p) PROVE ShutAt(q)'
    <2>1. UNCHANGED entries
      BY <1>4 DEF Shut
    <2>2. \A r \in Proc : Dropping(r)' => Dropping(r) /\ r # p /\ pc'[r] = pc[r] /\ file'[r] = file[r]
      BY <1>4, ReturnEffect DEF Shut
    <2>3. QED
      BY <2>1, <2>2 DEF FileInv, ShutAt, Unreferenced, Dropping
  <1>5. ASSUME NEW p \in Proc, NEW c \in Proc, Clone(p, c) PROVE ShutAt(q)'
    BY <1>5 DEF Clone, FileInv, ShutAt, Unreferenced, Dropping, TypeOK
  <1> USE DEF FileInv, ShutAt, Unreferenced, Undropped, FileAt, TableInv, EntryAt, TypeOK, ControlInv, ReturnAt, OwnerAt, Cloning, Dropping, Installing
  <1>6. ASSUME NEW p \in Proc, Install(p) PROVE ShutAt(q)'
    BY <1>6 DEF Install
  <1>7. ASSUME NEW p \in Proc, NEW fd \in Fd, CloneEntry(p, fd) PROVE ShutAt(q)'
    BY <1>7 DEF CloneEntry
  <1>8. ASSUME NEW p \in Proc, CloneDone(p) PROVE ShutAt(q)'
    BY <1>8 DEF CloneDone
  <1>9. ASSUME NEW p \in Proc, NEW fd \in Fd, CloseNext(p, fd) PROVE ShutAt(q)'
    BY <1>9 DEF CloseNext, BeginClose
  <1>10. ASSUME NEW p \in Proc, CloseOnExecDone(p) PROVE ShutAt(q)'
    BY <1>10 DEF CloseOnExecDone
  <1>11. ASSUME NEW p \in Proc, CloseAllDone(p) PROVE ShutAt(q)'
    BY <1>11 DEF CloseAllDone
  <1>12. ASSUME NEW p \in Proc, NEW f \in File, AllocNew(p, f) PROVE ShutAt(q)'
    BY <1>12 DEF AllocNew, Alloc
  <1>13. ASSUME NEW p \in Proc, NEW fd \in Fd, Dup(p, fd) PROVE ShutAt(q)'
    BY <1>13 DEF Dup, Alloc
  <1>14. ASSUME NEW p \in Proc, NEW fd \in Fd, Close(p, fd) PROVE ShutAt(q)'
    BY <1>14 DEF Close, BeginClose
  <1>15. ASSUME NEW p \in Proc, NEW o \in Fd, NEW n \in Fd, Dup2Over(p, o, n) PROVE ShutAt(q)'
    BY <1>15 DEF Dup2Over, BeginClose
  <1>16. ASSUME NEW p \in Proc, NEW o \in Fd, NEW n \in Fd, Dup2Free(p, o, n) PROVE ShutAt(q)'
    BY <1>16 DEF Dup2Free
  <1>17. ASSUME NEW p \in Proc, NEW fd \in Fd, NEW val \in BOOLEAN, SetCloexec(p, fd, val) PROVE ShutAt(q)'
    BY <1>17 DEF SetCloexec
  <1>18. ASSUME NEW p \in Proc, CloseOnExec(p) PROVE ShutAt(q)'
    BY <1>18 DEF CloseOnExec
  <1>19. ASSUME NEW p \in Proc, CloseAll(p) PROVE ShutAt(q)'
    BY <1>19 DEF CloseAll
  <1>20. CASE UNCHANGED vars
    BY <1>20
  <1> HIDE DEF FileInv, ShutAt, Unreferenced, Undropped, FileAt, TableInv, EntryAt, TypeOK, ControlInv, ReturnAt, OwnerAt, Cloning, Dropping, Installing
  <1>21. QED
    BY <1>1, <1>2, <1>3, <1>4, <1>5, <1>6, <1>7, <1>8, <1>9, <1>10, <1>11,
       <1>12, <1>13, <1>14, <1>15, <1>16, <1>17, <1>18, <1>19, <1>20,
       ArgFdAssumption DEF Next, Call, Step, Fd

(* CountsAreReferences is preserved.                                       *)
LEMMA CountStep ==
    ASSUME TypeOK, ControlInv, TableInv, SourceInv, FileInv, CountsAreReferences, [Next]_vars, NEW g \in File
    PROVE  counts'[g] = Cardinality(Counted(g)')
  <1> USE DEF vars, tables, refs, regs
  <1>1. ASSUME NEW p \in Proc, Incr(p) PROVE counts'[g] = Cardinality(Counted(g)')
    <2> DEFINE f == entries[tab[p]][slot[p]]
               d == <<tab[p], slot[p]>>
    <2>1. f \in File /\ d \in Desc /\ ~IsCounted(tab[p], slot[p], f)
      BY <1>1, NoFileAssumption DEF Incr, Desc, IsCounted, Uncounted, Owed,
         TypeOK, ControlInv, OwnerAt, Cloning, TableInv, EntryAt, Dropping
    <2>2. \A r \in Proc, x \in Fd : Uncounted(r, x)' <=> Uncounted(r, x) /\ ~(r = tab[p] /\ x = slot[p])
      BY <1>1, OneWriter DEF Incr, Return, Uncounted, TypeOK, ControlInv,
         ReturnAt
    <2>3. \A r \in Proc, x \in Fd : Owed(r, x, g)' <=> Owed(r, x, g)
      BY <1>1 DEF Incr, Return, Owed, TypeOK, ControlInv, ReturnAt
    <2>4. \A r \in Proc, x \in Fd : IsCounted(r, x, g)' <=> IsCounted(r, x, g) \/ (g = f /\ r = tab[p] /\ x = slot[p])
      BY <1>1, <2>2, <2>3 DEF Incr, IsCounted
    <2>5. CASE g # f
      <3>1. counts'[g] = counts[g]
        BY <1>1, <2>5 DEF Incr, TypeOK
      <3>2. QED
        BY <2>4, <2>5, <3>1, SameCounted
    <2>6. CASE g = f
      <3>1. Counted(g)' = Counted(g) \cup {d}
        BY <2>1, <2>4, <2>6 DEF Counted, Desc
      <3>2. d \notin Counted(g)
        BY <2>1, <2>6 DEF Counted
      <3>3. Cardinality(Counted(g) \cup {d}) = Cardinality(Counted(g)) + 1
        BY <3>2, DescFinite, FS_AddElement
      <3>4. counts'[g] = counts[g] + 1
        BY <1>1, <2>6 DEF Incr, TypeOK
      <3>5. QED
        BY <3>1, <3>3, <3>4 DEF CountsAreReferences
    <2>7. QED
      BY <2>5, <2>6
  <1>2. ASSUME NEW p \in Proc, Decr(p) PROVE counts'[g] = Cardinality(Counted(g)')
    <2> DEFINE f == file[p]
               d == <<p, slot[p]>>
    <2>1. f \in File /\ d \in Desc /\ IsCounted(p, slot[p], f) /\ entries[p][slot[p]] = NoFile
      BY <1>2, NoFileAssumption DEF Decr, Desc, IsCounted, Owed, TypeOK,
         TableInv, EntryAt, Dropping
    <2>2. \A r \in Proc, x \in Fd : Uncounted(r, x)' <=> Uncounted(r, x)
      BY <1>2 DEF Decr, Return, Uncounted, TypeOK, ControlInv, ReturnAt,
         Dropping
    <2>3. \A r \in Proc, x \in Fd : Owed(r, x, g)' <=> Owed(r, x, g) /\ r # p
      BY <1>2 DEF Decr, Return, Owed, TypeOK, ControlInv, ReturnAt, Dropping
    <2>4. \A r \in Proc, x \in Fd : IsCounted(r, x, g)' <=> IsCounted(r, x, g) /\ ~(g = f /\ r = p /\ x = slot[p])
      BY <1>2, <2>1, <2>2, <2>3, NoFileAssumption DEF Decr, IsCounted, Owed
    <2>5. CASE g # f
      <3>1. counts'[g] = counts[g]
        BY <1>2, <2>5 DEF Decr, TypeOK
      <3>2. QED
        BY <2>4, <2>5, <3>1, SameCounted
    <2>6. CASE g = f
      <3>1. Counted(g)' = Counted(g) \ {d}
        BY <2>1, <2>4, <2>6 DEF Counted, Desc
      <3>2. d \in Counted(g)
        BY <2>1, <2>6 DEF Counted
      <3>3. Cardinality(Counted(g) \ {d}) = Cardinality(Counted(g)) - 1
        BY <3>2, DescFinite, FS_RemoveElement
      <3>4. counts'[g] = counts[g] - 1
        BY <1>2, <2>6 DEF Decr, TypeOK
      <3>5. QED
        BY <3>1, <3>3, <3>4 DEF CountsAreReferences
    <2>7. QED
      BY <2>5, <2>6
  <1>3. ASSUME NEW p \in Proc, DecrLast(p) PROVE counts'[g] = Cardinality(Counted(g)')
    <2> DEFINE f == file[p]
               d == <<p, slot[p]>>
    <2>1. f \in File /\ d \in Desc /\ entries[p][slot[p]] = NoFile
      BY <1>3 DEF DecrLast, Desc, TypeOK, TableInv, EntryAt, Dropping
    <2>2. \A r \in Proc, x \in Fd : Uncounted(r, x)' <=> Uncounted(r, x)
      BY <1>3 DEF DecrLast, Uncounted, TypeOK
    <2>3. \A r \in Proc, x \in Fd : Owed(r, x, g)' <=> Owed(r, x, g) /\ r # p
      BY <1>3 DEF DecrLast, Owed, TypeOK
    <2>4. \A r \in Proc, x \in Fd : IsCounted(r, x, g)' <=> IsCounted(r, x, g) /\ ~(g = f /\ r = p /\ x = slot[p])
      BY <1>3, <2>1, <2>2, <2>3, NoFileAssumption DEF DecrLast, IsCounted, Owed
    <2>5. CASE g # f
      <3>1. counts'[g] = counts[g]
        BY <1>3, <2>5 DEF DecrLast, TypeOK
      <3>2. QED
        BY <2>4, <2>5, <3>1, SameCounted
    <2>6. CASE g = f
      <3>1. Counted(g) = {d}
        BY <1>3, <2>6, LastReference DEF DecrLast
      <3>2. Counted(g)' = {}
        BY <2>1, <2>4, <2>6, <3>1 DEF Counted, Desc
      <3>3. counts'[g] = 0
        BY <1>3, <2>6 DEF DecrLast, TypeOK
      <3>4. QED
        BY <3>2, <3>3, FS_EmptySet
    <2>7. QED
      BY <2>5, <2>6
  <1>4. ASSUME NEW p \in Proc, Shut(p) PROVE counts'[g] = Cardinality(Counted(g)')
    <2>1. UNCHANGED <<entries, tab>>
      BY <1>4 DEF Shut, Return
    <2>2. \A r \in Proc, x \in Fd : Uncounted(r, x)' <=> Uncounted(r, x)
      BY <1>4, <2>1, ReturnEffect DEF Shut, Uncounted
    <2>3. \A r \in Proc, x \in Fd : Owed(r, x, g)' <=> Owed(r, x, g)
      BY <1>4, ReturnEffect DEF Shut, Owed
    <2>4. \A r \in Proc, x \in Fd : IsCounted(r, x, g)' <=> IsCounted(r, x, g)
      BY <2>1, <2>2, <2>3 DEF IsCounted
    <2>5. counts'[g] = counts[g]
      BY <1>4 DEF Shut
    <2>6. QED
      BY <2>4, <2>5, SameCounted
  <1>5. ASSUME NEW p \in Proc, Install(p) PROVE counts'[g] = Cardinality(Counted(g)')
    <2>1. entries[p][slot[p]] = NoFile /\ tab[p] = p
      BY <1>5 DEF Install, TableInv, EntryAt, Installing, ControlInv, OwnerAt,
         Cloning
    <2>2. \A r \in Proc, x \in Fd : Uncounted(r, x)' <=> Uncounted(r, x) \/ (r = p /\ x = slot[p])
      BY <1>5, <2>1 DEF Install, Uncounted, TypeOK
    <2>3. \A r \in Proc, x \in Fd : Owed(r, x, g)' <=> Owed(r, x, g)
      BY <1>5 DEF Install, Owed, TypeOK
    <2>4. \A r \in Proc, x \in Fd : IsCounted(r, x, g)' <=> IsCounted(r, x, g)
      BY <1>5, <2>1, <2>2, <2>3, NoFileAssumption DEF Install, IsCounted,
         TypeOK
    <2>5. counts'[g] = counts[g]
      BY <1>5 DEF Install
    <2>6. QED
      BY <2>4, <2>5, SameCounted
  <1>6. ASSUME NEW p \in Proc, NEW fd \in Fd, CloneEntry(p, fd) PROVE counts'[g] = Cardinality(Counted(g)')
    <2>1. \A r \in Proc, x \in Fd : IsCounted(r, x, g)' <=> IsCounted(r, x, g)
      BY <1>6, NoFileAssumption DEF CloneEntry, IsCounted, Uncounted, Owed,
         TypeOK, ControlInv, ReturnAt, OwnerAt, TableInv, EntryAt, Cloning,
         Dropping, CloneAt
    <2>2. counts'[g] = counts[g]
      BY <1>6 DEF CloneEntry
    <2>3. QED
      BY <2>1, <2>2, SameCounted
  <1>7. ASSUME NEW p \in Proc, CloneDone(p) PROVE counts'[g] = Cardinality(Counted(g)')
    <2>1. \A r \in Proc, x \in Fd : IsCounted(r, x, g)' <=> IsCounted(r, x, g)
      BY <1>7, NoFileAssumption DEF CloneDone, IsCounted, Uncounted, Owed,
         TypeOK, ControlInv, ReturnAt, OwnerAt, TableInv, EntryAt, Cloning,
         Dropping
    <2>2. counts'[g] = counts[g]
      BY <1>7 DEF CloneDone
    <2>3. QED
      BY <2>1, <2>2, SameCounted
  <1>8. ASSUME NEW p \in Proc, NEW fd \in Fd, CloseNext(p, fd) PROVE counts'[g] = Cardinality(Counted(g)')
    <2>1. \A r \in Proc, x \in Fd : IsCounted(r, x, g)' <=> IsCounted(r, x, g)
      BY <1>8, NoFileAssumption DEF CloseNext, BeginClose, IsCounted,
         Uncounted, Owed, TypeOK, ControlInv, ReturnAt, OwnerAt, TableInv,
         EntryAt, Cloning, Dropping
    <2>2. counts'[g] = counts[g]
      BY <1>8 DEF CloseNext, BeginClose
    <2>3. QED
      BY <2>1, <2>2, SameCounted
  <1>9. ASSUME NEW p \in Proc, CloseOnExecDone(p) PROVE counts'[g] = Cardinality(Counted(g)')
    <2>1. \A r \in Proc, x \in Fd : IsCounted(r, x, g)' <=> IsCounted(r, x, g)
      BY <1>9, NoFileAssumption DEF CloseOnExecDone, IsCounted, Uncounted,
         Owed, TypeOK, ControlInv, ReturnAt, OwnerAt, TableInv, EntryAt,
         Cloning, Dropping
    <2>2. counts'[g] = counts[g]
      BY <1>9 DEF CloseOnExecDone
    <2>3. QED
      BY <2>1, <2>2, SameCounted
  <1>10. ASSUME NEW p \in Proc, CloseAllDone(p) PROVE counts'[g] = Cardinality(Counted(g)')
    <2>1. \A r \in Proc, x \in Fd : IsCounted(r, x, g)' <=> IsCounted(r, x, g)
      BY <1>10, NoFileAssumption DEF CloseAllDone, IsCounted, Uncounted, Owed,
         TypeOK, ControlInv, ReturnAt, OwnerAt, TableInv, EntryAt, Cloning,
         Dropping
    <2>2. counts'[g] = counts[g]
      BY <1>10 DEF CloseAllDone
    <2>3. QED
      BY <2>1, <2>2, SameCounted
  <1>11. ASSUME NEW p \in Proc, NEW f \in File, AllocNew(p, f) PROVE counts'[g] = Cardinality(Counted(g)')
    <2>1. \A r \in Proc, x \in Fd : IsCounted(r, x, g)' <=> IsCounted(r, x, g)
      BY <1>11, NoFileAssumption DEF AllocNew, Alloc, IsCounted, Uncounted,
         Owed, TypeOK, ControlInv, ReturnAt, OwnerAt, TableInv, EntryAt,
         Cloning, Dropping, NextAt
    <2>2. counts'[g] = counts[g]
      BY <1>11 DEF AllocNew, Alloc
    <2>3. QED
      BY <2>1, <2>2, SameCounted
  <1>12. ASSUME NEW p \in Proc, NEW fd \in Fd, Dup(p, fd) PROVE counts'[g] = Cardinality(Counted(g)')
    <2>1. \A r \in Proc, x \in Fd : IsCounted(r, x, g)' <=> IsCounted(r, x, g)
      BY <1>12, NoFileAssumption DEF Dup, Alloc, IsCounted, Uncounted, Owed,
         TypeOK, ControlInv, ReturnAt, OwnerAt, TableInv, EntryAt, Cloning,
         Dropping, NextAt
    <2>2. counts'[g] = counts[g]
      BY <1>12 DEF Dup, Alloc
    <2>3. QED
      BY <2>1, <2>2, SameCounted
  <1>13. ASSUME NEW p \in Proc, NEW fd \in Fd, Close(p, fd) PROVE counts'[g] = Cardinality(Counted(g)')
    <2>1. ~Uncounted(p, fd)
      BY <1>13 DEF Close, Uncounted, TypeOK, ControlInv, OwnerAt, Cloning
    <2>2. \A r \in Proc, x \in Fd : Uncounted(r, x)' <=> Uncounted(r, x)
      BY <1>13 DEF Close, BeginClose, Uncounted, TypeOK
    <2>3. \A r \in Proc, x \in Fd : Owed(r, x, g)' <=> Owed(r, x, g) \/ (r = p /\ x = fd /\ g = entries[p][fd])
      BY <1>13 DEF Close, BeginClose, Owed, TypeOK
    <2>4. \A r \in Proc, x \in Fd : IsCounted(r, x, g)' <=> IsCounted(r, x, g)
      BY <1>13, <2>1, <2>2, <2>3, NoFileAssumption DEF Close, BeginClose,
         IsCounted, TypeOK
    <2>5. counts'[g] = counts[g]
      BY <1>13 DEF Close, BeginClose
    <2>6. QED
      BY <2>4, <2>5, SameCounted
  <1>14. ASSUME NEW p \in Proc, NEW o \in Fd, NEW n \in Fd, Dup2Over(p, o, n) PROVE counts'[g] = Cardinality(Counted(g)')
    <2>1. \A r \in Proc, x \in Fd : IsCounted(r, x, g)' <=> IsCounted(r, x, g)
      BY <1>14, NoFileAssumption DEF Dup2Over, BeginClose, IsCounted,
         Uncounted, Owed, TypeOK, ControlInv, ReturnAt, OwnerAt, TableInv,
         EntryAt, Cloning, Dropping
    <2>2. counts'[g] = counts[g]
      BY <1>14 DEF Dup2Over, BeginClose
    <2>3. QED
      BY <2>1, <2>2, SameCounted
  <1>15. ASSUME NEW p \in Proc, NEW o \in Fd, NEW n \in Fd, Dup2Free(p, o, n) PROVE counts'[g] = Cardinality(Counted(g)')
    <2>1. \A r \in Proc, x \in Fd : IsCounted(r, x, g)' <=> IsCounted(r, x, g)
      BY <1>15, NoFileAssumption DEF Dup2Free, IsCounted, Uncounted, Owed,
         TypeOK, ControlInv, ReturnAt, OwnerAt, TableInv, EntryAt, Cloning,
         Dropping
    <2>2. counts'[g] = counts[g]
      BY <1>15 DEF Dup2Free
    <2>3. QED
      BY <2>1, <2>2, SameCounted
  <1>16. ASSUME NEW p \in Proc, NEW fd \in Fd, NEW val \in BOOLEAN, SetCloexec(p, fd, val) PROVE counts'[g] = Cardinality(Counted(g)')
    <2>1. \A r \in Proc, x \in Fd : IsCounted(r, x, g)' <=> IsCounted(r, x, g)
      BY <1>16, NoFileAssumption DEF SetCloexec, IsCounted, Uncounted, Owed,
         TypeOK, ControlInv, ReturnAt, OwnerAt, TableInv, EntryAt, Cloning,
         Dropping
    <2>2. counts'[g] = counts[g]
      BY <1>16 DEF SetCloexec
    <2>3. QED
      BY <2>1, <2>2, SameCounted
  <1>17. ASSUME NEW p \in Proc, NEW c \in Proc, Clone(p, c) PROVE counts'[g] = Cardinality(Counted(g)')
    <2>1. \A r \in Proc : pc[r] \in {"incr", "decr"} \/ pc'[r] \in {"incr", "decr"} => pc'[r] = pc[r] /\ r # p
      BY <1>17 DEF Clone, TypeOK
    <2>2. \A r \in Proc, x \in Fd : Uncounted(r, x)' <=> Uncounted(r, x)
      BY <1>17, <2>1 DEF Clone, Uncounted, TypeOK
    <2>3. \A r \in Proc, x \in Fd : Owed(r, x, g)' <=> Owed(r, x, g)
      BY <1>17, <2>1 DEF Clone, Owed
    <2>4. \A r \in Proc, x \in Fd : IsCounted(r, x, g)' <=> IsCounted(r, x, g)
      BY <1>17, <2>2, <2>3 DEF Clone, IsCounted
    <2>5. counts'[g] = counts[g]
      BY <1>17 DEF Clone
    <2>6. QED
      BY <2>4, <2>5, SameCounted
  <1>18. ASSUME NEW p \in Proc, CloseOnExec(p) PROVE counts'[g] = Cardinality(Counted(g)')
    <2>1. \A r \in Proc, x \in Fd : IsCounted(r, x, g)' <=> IsCounted(r, x, g)
      BY <1>18, NoFileAssumption DEF CloseOnExec, IsCounted, Uncounted, Owed,
         TypeOK, ControlInv, ReturnAt, OwnerAt, TableInv, EntryAt, Cloning,
         Dropping
    <2>2. counts'[g] = counts[g]
      BY <1>18 DEF CloseOnExec
    <2>3. QED
      BY <2>1, <2>2, SameCounted
  <1>19. ASSUME NEW p \in Proc, CloseAll(p) PROVE counts'[g] = Cardinality(Counted(g)')
    <2>1. \A r \in Proc, x \in Fd : IsCounted(r, x, g)' <=> IsCounted(r, x, g)
      BY <1>19, NoFileAssumption DEF CloseAll, IsCounted, Uncounted, Owed,
         TypeOK, ControlInv, ReturnAt, OwnerAt, TableInv, EntryAt, Cloning,
         Dropping
    <2>2. counts'[g] = counts[g]
      BY <1>19 DEF CloseAll
    <2>3. QED
      BY <2>1, <2>2, SameCounted
  <1>20. CASE UNCHANGED vars
    <2>1. \A r \in Proc, x \in Fd : IsCounted(r, x, g)' <=> IsCounted(r, x, g)
      BY <1>20 DEF IsCounted, Uncounted, Owed
    <2>2. counts'[g] = counts[g]
      BY <1>20
    <2>3. QED
      BY <2>1, <2>2, SameCounted
  <1>21. QED
    BY <1>1, <1>2, <1>3, <1>4, <1>5, <1>6, <1>7, <1>8, <1>9, <1>10, <1>11,
       <1>12, <1>13, <1>14, <1>15, <1>16, <1>17, <1>18, <1>19, <1>20,
       ArgFdAssumption DEF Next, Call, Step, Fd

-----------------------------------------------------------------------------
(* The invariant holds initially: stdin, stdout and stderr have one        *)
(* reference each.                                                         *)
LEMMA InitIInv == Init => IInv
  <1> SUFFICES ASSUME Init PROVE IInv
    OBVIOUS
  <1> USE MaxFdAssumption, StdAssumption, RootAssumption, NoFileAssumption
  <1>1. 0 \in Fd /\ 1 \in Fd /\ 2 \in Fd /\ Fd \subseteq Int
    BY DEF Fd
  <1>10. \A d \in Desc : d[1] \in Proc /\ d[2] \in Fd /\ d = <<d[1], d[2]>>
    BY DEF Desc
  <1>2. TypeOK
    BY <1>1 DEF Init, TypeOK, NewTable, PC, Fd
  <1>3. ControlInv
    BY DEF Init, ControlInv, ReturnAt, OwnerAt, Cloning, Dropping
  <1>4. \A p \in Proc, fd \in Fd :
           entries[p][fd] # NoFile => p = Root /\ fd \in 0..2 /\ entries[p][fd] \in opened
    BY <1>1 DEF Init, NewTable, Fd
  <1>5. TableInv
    BY <1>1, <1>4 DEF Init, TableInv, NextAt, EntryAt, CloneAt, Cloning, Dropping, Installing, Looping
  <1>6. SourceInv /\ CloexecIsOpen
    BY DEF Init, SourceInv, SourceAt, CloexecIsOpen
  <1>7. FileInv
    BY <1>4 DEF Init, FileInv, FileAt, ShutAt, Unreferenced, Undropped, Dropping
  <1>8. CountsAreReferences
    <2> SUFFICES ASSUME NEW f \in File PROVE counts[f] = Cardinality(Counted(f))
      BY DEF CountsAreReferences
    <2>1. \A q \in Proc, fd \in Fd : IsCounted(q, fd, f) <=> q = Root /\ NewTable[fd] = f
      BY DEF Init, IsCounted, Uncounted, Owed
    <2>2. \A q \in Proc, fd \in Fd : IsCounted(q, fd, f) <=>
              q = Root /\ \/ fd = 0 /\ f = Stdin
                          \/ fd = 1 /\ f = Stdout
                          \/ fd = 2 /\ f = Stderr
      BY <1>1, <2>1 DEF NewTable
    <2>3. CASE f = Stdin
      <3>1. \A d \in Desc : d \in Counted(f) <=> d = <<Root, 0>>
        BY <1>10, <1>1, <2>2, <2>3 DEF Counted
      <3>2. Counted(f) = {<<Root, 0>>}
        BY <1>1, <3>1 DEF Counted, Desc
      <3>3. QED
        BY <2>3, <3>2, FS_Singleton DEF Init
    <2>4. CASE f = Stdout
      <3>1. \A d \in Desc : d \in Counted(f) <=> d = <<Root, 1>>
        BY <1>10, <1>1, <2>2, <2>4 DEF Counted
      <3>2. Counted(f) = {<<Root, 1>>}
        BY <1>1, <3>1 DEF Counted, Desc
      <3>3. QED
        BY <2>4, <3>2, FS_Singleton DEF Init
    <2>5. CASE f = Stderr
      <3>1. \A d \in Desc : d \in Counted(f) <=> d = <<Root, 2>>
        BY <1>10, <1>1, <2>2, <2>5 DEF Counted
      <3>2. Counted(f) = {<<Root, 2>>}
        BY <1>1, <3>1 DEF Counted, Desc
      <3>3. QED
        BY <2>5, <3>2, FS_Singleton DEF Init
    <2>6. CASE f \notin {Stdin, Stdout, Stderr}
      <3>1. Counted(f) = {}
        BY <2>2, <2>6 DEF Counted, Desc
      <3>2. QED
        BY <2>6, <3>1, FS_EmptySet DEF Init
    <2>7. QED
      BY <2>3, <2>4, <2>5, <2>6
  <1>9. QED
    BY <1>2, <1>3, <1>5, <1>6, <1>7, <1>8 DEF IInv

(* Every step of every goroutine preserves the invariant.                  *)
LEMMA StepIInv == IInv /\ [Next]_vars => IInv'
  <1> SUFFICES ASSUME IInv, [Next]_vars PROVE IInv'
    OBVIOUS
  <1>1. TypeOK /\ ControlInv /\ TableInv /\ SourceInv /\ FileInv /\ CloexecIsOpen /\ CountsAreReferences
    BY DEF IInv
  <1>2. TypeOK'
    BY <1>1, TypeStep
  <1>3. ControlInv'
    BY <1>1, ReturnStep, OwnerStep DEF ControlInv
  <1>4. TableInv'
    BY <1>1, NextStep, EntryStep, CloneStep DEF TableInv
  <1>5. SourceInv'
    BY <1>1, SourceStep DEF SourceInv
  <1>6. FileInv'
    BY <1>1, FileStep, ShutStep DEF FileInv
  <1>7. CloexecIsOpen'
    BY <1>1, CloexecStep
  <1>8. CountsAreReferences'
    BY <1>1, CountStep DEF CountsAreReferences
  <1>9. QED
    BY <1>2, <1>3, <1>4, <1>5, <1>6, <1>7, <1>8 DEF IInv

(* The inductive invariant holds in every reachable state.                 *)
THEOREM Invariance == Safety => []IInv
  BY InitIInv, StepIInv, PTL DEF Safety

(* Type correctness of the tables, the counts and the goroutines' state.   *)
THEOREM TypeCorrect == Safety => []TypeOK
  <1>1. IInv => TypeOK
    BY DEF IInv
  <1>2. QED
    BY Invariance, <1>1, PTL

(* fileRefs.counts is, at every point between two steps of any goroutines, *)
(* the number of descriptors that refer to the File.                       *)
THEOREM CountsCorrect == Safety => []CountsAreReferences
  <1>1. IInv => CountsAreReferences
    BY DEF IInv
  <1>2. QED
    BY Invariance, <1>1, PTL

(* A File is never closed while a descriptor of any process refers to it,  *)
(* and never closed twice.                                                 *)
THEOREM ClosedOnlyWhenUnused == Safety => []NeverClosedInUse
  <1>1. IInv => NeverClosedInUse
    BY DEF IInv, NeverClosedInUse, FileInv, FileAt, Unreferenced, Refs, Desc
  <1>2. QED
    BY Invariance, <1>1, PTL

(* FD_CLOEXEC flags are only on open descriptors.                          *)
THEOREM CloexecCorrect == Safety => []CloexecIsOpen
  <1>1. IInv => CloexecIsOpen
    BY DEF IInv
  <1>2. QED
    BY Invariance, <1>1, PTL

-----------------------------------------------------------------------------
(* No step overwrites a table entry by another File.                       *)
LEMMA NoClobberStep ==
    ASSUME TypeOK, ControlInv, TableInv, [Next]_vars, NEW q \in Proc, NEW y \in Fd, entries[q][y] # NoFile
    PROVE  entries'[q][y] \in {entries[q][y], NoFile}
  <1> USE DEF vars, tables, refs, regs
  <1> USE MaxFdAssumption DEF TypeOK, ControlInv, OwnerAt, TableInv, NextAt, EntryAt, CloneAt, Cloning, Installing, Fd
  <1>1. ASSUME NEW p \in Proc, Incr(p) PROVE entries'[q][y] \in {entries[q][y], NoFile}
    BY <1>1 DEF Incr, Return
  <1>2. ASSUME NEW p \in Proc, Decr(p) PROVE entries'[q][y] \in {entries[q][y], NoFile}
    BY <1>2 DEF Decr, Return
  <1>3. ASSUME NEW p \in Proc, DecrLast(p) PROVE entries'[q][y] \in {entries[q][y], NoFile}
    BY <1>3 DEF DecrLast
  <1>4. ASSUME NEW p \in Proc, Shut(p) PROVE entries'[q][y] \in {entries[q][y], NoFile}
    BY <1>4 DEF Shut, Return
  <1>5. ASSUME NEW p \in Proc, Install(p) PROVE entries'[q][y] \in {entries[q][y], NoFile}
    BY <1>5 DEF Install
  <1>6. ASSUME NEW p \in Proc, NEW fd \in Fd, CloneEntry(p, fd) PROVE entries'[q][y] \in {entries[q][y], NoFile}
    BY <1>6 DEF CloneEntry
  <1>7. ASSUME NEW p \in Proc, CloneDone(p) PROVE entries'[q][y] \in {entries[q][y], NoFile}
    BY <1>7 DEF CloneDone
  <1>8. ASSUME NEW p \in Proc, NEW fd \in Fd, CloseNext(p, fd) PROVE entries'[q][y] \in {entries[q][y], NoFile}
    BY <1>8 DEF CloseNext, BeginClose
  <1>9. ASSUME NEW p \in Proc, CloseOnExecDone(p) PROVE entries'[q][y] \in {entries[q][y], NoFile}
    BY <1>9 DEF CloseOnExecDone
  <1>10. ASSUME NEW p \in Proc, CloseAllDone(p) PROVE entries'[q][y] \in {entries[q][y], NoFile}
    BY <1>10 DEF CloseAllDone
  <1>11. ASSUME NEW p \in Proc, NEW f \in File, AllocNew(p, f) PROVE entries'[q][y] \in {entries[q][y], NoFile}
    BY <1>11 DEF AllocNew, Alloc
  <1>12. ASSUME NEW p \in Proc, NEW fd \in Fd, Dup(p, fd) PROVE entries'[q][y] \in {entries[q][y], NoFile}
    BY <1>12 DEF Dup, Alloc
  <1>13. ASSUME NEW p \in Proc, NEW fd \in Fd, Close(p, fd) PROVE entries'[q][y] \in {entries[q][y], NoFile}
    BY <1>13 DEF Close, BeginClose
  <1>14. ASSUME NEW p \in Proc, NEW o \in Fd, NEW n \in Fd, Dup2Over(p, o, n) PROVE entries'[q][y] \in {entries[q][y], NoFile}
    BY <1>14 DEF Dup2Over, BeginClose
  <1>15. ASSUME NEW p \in Proc, NEW o \in Fd, NEW n \in Fd, Dup2Free(p, o, n) PROVE entries'[q][y] \in {entries[q][y], NoFile}
    BY <1>15 DEF Dup2Free
  <1>16. ASSUME NEW p \in Proc, NEW fd \in Fd, NEW val \in BOOLEAN, SetCloexec(p, fd, val) PROVE entries'[q][y] \in {entries[q][y], NoFile}
    BY <1>16 DEF SetCloexec
  <1>17. ASSUME NEW p \in Proc, NEW c \in Proc, Clone(p, c) PROVE entries'[q][y] \in {entries[q][y], NoFile}
    BY <1>17 DEF Clone
  <1>18. ASSUME NEW p \in Proc, CloseOnExec(p) PROVE entries'[q][y] \in {entries[q][y], NoFile}
    BY <1>18 DEF CloseOnExec
  <1>19. ASSUME NEW p \in Proc, CloseAll(p) PROVE entries'[q][y] \in {entries[q][y], NoFile}
    BY <1>19 DEF CloseAll
  <1>20. CASE UNCHANGED vars
    BY <1>20
  <1> HIDE DEF TypeOK, ControlInv, OwnerAt, TableInv, NextAt, EntryAt, CloneAt, Cloning, Installing, Fd
  <1>21. QED
    BY <1>1, <1>2, <1>3, <1>4, <1>5, <1>6, <1>7, <1>8, <1>9, <1>10, <1>11,
       <1>12, <1>13, <1>14, <1>15, <1>16, <1>17, <1>18, <1>19, <1>20,
       ArgFdAssumption DEF Next, Call, Step, Fd


(* A descriptor number is a pair; a table entry is one of those of Refs.   *)
LEMMA RefsMember ==
    ASSUME NEW f, NEW q \in Proc, NEW fd \in Fd
    PROVE  <<q, fd>> \in Refs(f) <=> entries[q][fd] = f
  BY DEF Refs, Desc

(* Setting a free entry to a File some descriptor refers to is a Share.    *)
LEMMA ShareMaps ==
    ASSUME NEW f \in File, NEW d \in Desc, entries[d[1]][d[2]] = NoFile,
           closes[f] = 0, f \in opened, Refs(f) # {}, UNCHANGED <<opened, closes>>,
           \A r \in Proc, x \in Fd : entries'[r][x] = IF <<r, x>> = d THEN f ELSE entries[r][x]
    PROVE  Life!LifeNext
  <1>1. \A e \in Desc : e[1] \in Proc /\ e[2] \in Fd /\ e = <<e[1], e[2]>>
    BY DEF Desc
  <1>2. \A g \in File : Refs(g)' = IF g = f THEN Refs(g) \cup {d} ELSE Refs(g)
    BY <1>1, NoFileAssumption DEF Refs
  <1>3. Life!Unused(d)
    BY NoFileAssumption DEF Life!Unused, Refs
  <1>4. Life!Share(f, d)
    <2>1. ~(closes[f] > 0)
      OBVIOUS
    <2>2. QED
      BY <1>2, <1>3, <2>1 DEF Life!Share
  <1>5. QED
    BY <1>4 DEF Life!LifeNext

(* Setting a free entry to a File nobody has opened before is an Open.     *)
LEMMA OpenMaps ==
    ASSUME NEW f \in File, NEW d \in Desc, entries[d[1]][d[2]] = NoFile,
           closes[f] = 0, f \notin opened, Refs(f) = {}, opened' = opened \cup {f},
           closes' = closes,
           \A r \in Proc, x \in Fd : entries'[r][x] = IF <<r, x>> = d THEN f ELSE entries[r][x]
    PROVE  Life!LifeNext
  <1>1. \A e \in Desc : e[1] \in Proc /\ e[2] \in Fd /\ e = <<e[1], e[2]>>
    BY DEF Desc
  <1>2. \A g \in File : Refs(g)' = IF g = f THEN {d} ELSE Refs(g)
    BY <1>1, NoFileAssumption DEF Refs
  <1>3. Life!Unused(d)
    BY NoFileAssumption DEF Life!Unused, Refs
  <1>4. Life!Open(f, d)
    <2>1. ~(closes[f] > 0)
      OBVIOUS
    <2>2. QED
      BY <1>2, <1>3, <2>1 DEF Life!Open
  <1>5. QED
    BY <1>4 DEF Life!LifeNext

(* Removing an entry is a Drop.                                            *)
LEMMA DropMaps ==
    ASSUME NEW d \in Desc, entries[d[1]][d[2]] \in File, UNCHANGED <<opened, closes>>,
           \A r \in Proc, x \in Fd : entries'[r][x] = IF <<r, x>> = d THEN NoFile ELSE entries[r][x]
    PROVE  Life!LifeNext
  <1> DEFINE f == entries[d[1]][d[2]]
  <1>1. \A e \in Desc : e[1] \in Proc /\ e[2] \in Fd /\ e = <<e[1], e[2]>>
    BY DEF Desc
  <1>2. \A g \in File : Refs(g)' = IF g = f THEN Refs(g) \ {d} ELSE Refs(g)
    BY <1>1, NoFileAssumption DEF Refs
  <1>3. d \in Refs(f)
    BY DEF Refs
  <1>4. Life!Drop(f, d)
    BY <1>2, <1>3 DEF Life!Drop
  <1>5. QED
    BY <1>4 DEF Life!LifeNext

(* Calling Close on a File nobody refers to is a Release.                  *)
LEMMA ReleaseMaps ==
    ASSUME NEW f \in File, closes[f] = 0, f \in opened, Refs(f) = {},
           UNCHANGED <<entries, opened>>,
           \A g \in File : closes'[g] = IF g = f THEN 1 ELSE closes[g]
    PROVE  Life!LifeNext
  <1>1. \A g \in File : Refs(g)' = Refs(g)
    BY DEF Refs
  <1>2. ~(closes[f] > 0) /\ closes'[f] > 0
    OBVIOUS
  <1>3. \A g \in File : g # f => closes'[g] = closes[g]
    OBVIOUS
  <1>4. Life!Release(f)
    BY <1>1, <1>2, <1>3 DEF Life!Release
  <1>5. QED
    BY <1>4 DEF Life!LifeNext

(* Every step of a goroutine is a step of FileLifetime or leaves it alone. *)
LEMMA RefinementStep ==
    ASSUME TypeOK, ControlInv, TableInv, FileInv, [Next]_vars
    PROVE  [Life!LifeNext]_(Life!lifeVars)
  <1> USE DEF vars, tables, refs, regs
  <1>1. ASSUME NEW p \in Proc, Incr(p) PROVE [Life!LifeNext]_(Life!lifeVars)
    BY <1>1 DEF Incr, Return, Refs, Life!lifeVars
  <1>2. ASSUME NEW p \in Proc, Decr(p) PROVE [Life!LifeNext]_(Life!lifeVars)
    BY <1>2 DEF Decr, Return, Refs, Life!lifeVars
  <1>3. ASSUME NEW p \in Proc, DecrLast(p) PROVE [Life!LifeNext]_(Life!lifeVars)
    BY <1>3 DEF DecrLast, Refs, Life!lifeVars
  <1>4. ASSUME NEW p \in Proc, Shut(p) PROVE [Life!LifeNext]_(Life!lifeVars)
    <2>1. file[p] \in File /\ closes[file[p]] = 0 /\ file[p] \in opened /\ Refs(file[p]) = {}
      BY <1>4 DEF Shut, TypeOK, TableInv, EntryAt, Dropping, FileInv, FileAt,
         ShutAt, Unreferenced, Undropped, Refs, Desc
    <2>2. UNCHANGED <<entries, opened>>
      BY <1>4 DEF Shut
    <2>3. \A g \in File : closes'[g] = IF g = file[p] THEN 1 ELSE closes[g]
      BY <1>4, <2>1 DEF Shut, TypeOK
    <2>4. Life!LifeNext
      BY <2>1, <2>2, <2>3, ReleaseMaps
    <2>5. QED
      BY <2>4
  <1>5. ASSUME NEW p \in Proc, Install(p) PROVE [Life!LifeNext]_(Life!lifeVars)
    <2> DEFINE f0 == inst[p]
               d0 == <<p, slot[p]>>
    <2>1. p \in Proc /\ slot[p] \in Fd /\ entries[p][slot[p]] = NoFile /\ f0 \in File
      BY <1>5, MaxFdAssumption, NoFileAssumption DEF Install, TypeOK,
         TableInv, EntryAt, Installing
    <2>2. \E r \in Proc, x \in Fd : entries[r][x] = f0
      BY <1>5, <2>1 DEF Install, TypeOK, TableInv, EntryAt, Installing
    <2>3. closes[f0] = 0 /\ f0 \in opened /\ Refs(f0) # {}
      <3>1. ~Unreferenced(f0)
        BY <2>2 DEF Unreferenced
      <3>2. closes[f0] = 0 /\ f0 \in opened
        BY <2>1, <3>1 DEF FileInv, FileAt
      <3>3. QED
        BY <2>2, <3>2, RefsMember
    <2>4. UNCHANGED <<opened, closes>> /\ d0 \in Desc
      BY <1>5, <2>1 DEF Install, Desc
    <2>5. \A r \in Proc, x \in Fd : entries'[r][x] = IF <<r, x>> = d0 THEN f0 ELSE entries[r][x]
      BY <1>5, <2>1 DEF Install, TypeOK
    <2>6. Life!LifeNext
      BY <2>1, <2>3, <2>4, <2>5, ShareMaps
    <2>7. QED
      BY <2>6
  <1>6. ASSUME NEW p \in Proc, NEW fd \in Fd, CloneEntry(p, fd) PROVE [Life!LifeNext]_(Life!lifeVars)
    <2> DEFINE f0 == entries[p][fd]
               d0 == <<tab[p], fd>>
    <2>1. tab[p] \in Proc /\ fd \in Fd /\ entries[tab[p]][fd] = NoFile /\ f0 \in File
      BY <1>6, MaxFdAssumption, NoFileAssumption DEF CloneEntry, TypeOK,
         TableInv, CloneAt, Cloning
    <2>2. \E r \in Proc, x \in Fd : entries[r][x] = f0
      BY <1>6, <2>1 DEF CloneEntry, TypeOK
    <2>3. closes[f0] = 0 /\ f0 \in opened /\ Refs(f0) # {}
      BY <2>1, <2>2, RefsMember DEF FileInv, FileAt, Unreferenced
    <2>4. UNCHANGED <<opened, closes>> /\ d0 \in Desc
      BY <1>6, <2>1 DEF CloneEntry, Desc
    <2>5. \A r \in Proc, x \in Fd : entries'[r][x] = IF <<r, x>> = d0 THEN f0 ELSE entries[r][x]
      BY <1>6, <2>1 DEF CloneEntry, TypeOK
    <2>6. Life!LifeNext
      BY <2>1, <2>3, <2>4, <2>5, ShareMaps
    <2>7. QED
      BY <2>6
  <1>7. ASSUME NEW p \in Proc, CloneDone(p) PROVE [Life!LifeNext]_(Life!lifeVars)
    BY <1>7 DEF CloneDone, Refs, Life!lifeVars
  <1>8. ASSUME NEW p \in Proc, NEW fd \in Fd, CloseNext(p, fd) PROVE [Life!LifeNext]_(Life!lifeVars)
    <2>1. entries[p][fd] \in File /\ <<p, fd>> \in Desc /\ UNCHANGED <<opened, closes>>
      BY <1>8 DEF CloseNext, BeginClose, TypeOK, Desc
    <2>2. \A r \in Proc, x \in Fd : entries'[r][x] = IF <<r, x>> = <<p, fd>> THEN NoFile ELSE entries[r][x]
      BY <1>8 DEF CloseNext, BeginClose, TypeOK
    <2>3. Life!LifeNext
      BY <2>1, <2>2, DropMaps
    <2>4. QED
      BY <2>3
  <1>9. ASSUME NEW p \in Proc, CloseOnExecDone(p) PROVE [Life!LifeNext]_(Life!lifeVars)
    BY <1>9 DEF CloseOnExecDone, Refs, Life!lifeVars
  <1>10. ASSUME NEW p \in Proc, CloseAllDone(p) PROVE [Life!LifeNext]_(Life!lifeVars)
    BY <1>10 DEF CloseAllDone, Refs, Life!lifeVars
  <1>11. ASSUME NEW p \in Proc, NEW f \in File, AllocNew(p, f) PROVE [Life!LifeNext]_(Life!lifeVars)
    <2> DEFINE d0 == <<p, next[p]>>
    <2>1. next[p] \in Fd /\ entries[p][next[p]] = NoFile
      BY <1>11, MaxFdAssumption DEF AllocNew, Alloc, TypeOK, TableInv, NextAt,
         Fd
    <2>2. closes[f] = 0 /\ f \notin opened /\ Refs(f) = {}
      BY <1>11 DEF AllocNew, FileInv, FileAt, Unreferenced, Refs, Desc
    <2>3. opened' = opened \cup {f} /\ closes' = closes /\ d0 \in Desc
      BY <1>11, <2>1 DEF AllocNew, Alloc, Desc
    <2>4. \A r \in Proc, x \in Fd : entries'[r][x] = IF <<r, x>> = d0 THEN f ELSE entries[r][x]
      BY <1>11, <2>1 DEF AllocNew, Alloc, TypeOK
    <2>5. Life!LifeNext
      BY <2>1, <2>2, <2>3, <2>4, OpenMaps
    <2>6. QED
      BY <2>5
  <1>12. ASSUME NEW p \in Proc, NEW fd \in Fd, Dup(p, fd) PROVE [Life!LifeNext]_(Life!lifeVars)
    <2> DEFINE f0 == entries[p][fd]
               d0 == <<p, next[p]>>
    <2>1. p \in Proc /\ next[p] \in Fd /\ entries[p][next[p]] = NoFile /\ f0 \in File
      BY <1>12, MaxFdAssumption, NoFileAssumption DEF Dup, Alloc, TypeOK,
         TableInv, NextAt, Fd
    <2>2. \E r \in Proc, x \in Fd : entries[r][x] = f0
      BY <1>12, <2>1 DEF Dup, Alloc, TypeOK
    <2>3. closes[f0] = 0 /\ f0 \in opened /\ Refs(f0) # {}
      BY <2>1, <2>2, RefsMember DEF FileInv, FileAt, Unreferenced
    <2>4. UNCHANGED <<opened, closes>> /\ d0 \in Desc
      BY <1>12, <2>1 DEF Dup, Alloc, Desc
    <2>5. \A r \in Proc, x \in Fd : entries'[r][x] = IF <<r, x>> = d0 THEN f0 ELSE entries[r][x]
      BY <1>12, <2>1 DEF Dup, Alloc, TypeOK
    <2>6. Life!LifeNext
      BY <2>1, <2>3, <2>4, <2>5, ShareMaps
    <2>7. QED
      BY <2>6
  <1>13. ASSUME NEW p \in Proc, NEW fd \in Fd, Close(p, fd) PROVE [Life!LifeNext]_(Life!lifeVars)
    <2>1. entries[p][fd] \in File /\ <<p, fd>> \in Desc /\ UNCHANGED <<opened, closes>>
      BY <1>13 DEF Close, BeginClose, TypeOK, Desc
    <2>2. \A r \in Proc, x \in Fd : entries'[r][x] = IF <<r, x>> = <<p, fd>> THEN NoFile ELSE entries[r][x]
      BY <1>13 DEF Close, BeginClose, TypeOK
    <2>3. Life!LifeNext
      BY <2>1, <2>2, DropMaps
    <2>4. QED
      BY <2>3
  <1>14. ASSUME NEW p \in Proc, NEW o \in Fd, NEW n \in Fd, Dup2Over(p, o, n) PROVE [Life!LifeNext]_(Life!lifeVars)
    <2>1. entries[p][n] \in File /\ <<p, n>> \in Desc /\ UNCHANGED <<opened, closes>>
      BY <1>14 DEF Dup2Over, BeginClose, TypeOK, Desc
    <2>2. \A r \in Proc, x \in Fd : entries'[r][x] = IF <<r, x>> = <<p, n>> THEN NoFile ELSE entries[r][x]
      BY <1>14 DEF Dup2Over, BeginClose, TypeOK
    <2>3. Life!LifeNext
      BY <2>1, <2>2, DropMaps
    <2>4. QED
      BY <2>3
  <1>15. ASSUME NEW p \in Proc, NEW o \in Fd, NEW n \in Fd, Dup2Free(p, o, n) PROVE [Life!LifeNext]_(Life!lifeVars)
    BY <1>15 DEF Dup2Free, Refs, Life!lifeVars
  <1>16. ASSUME NEW p \in Proc, NEW fd \in Fd, NEW val \in BOOLEAN, SetCloexec(p, fd, val) PROVE [Life!LifeNext]_(Life!lifeVars)
    BY <1>16 DEF SetCloexec, Refs, Life!lifeVars
  <1>17. ASSUME NEW p \in Proc, NEW c \in Proc, Clone(p, c) PROVE [Life!LifeNext]_(Life!lifeVars)
    BY <1>17 DEF Clone, Refs, Life!lifeVars
  <1>18. ASSUME NEW p \in Proc, CloseOnExec(p) PROVE [Life!LifeNext]_(Life!lifeVars)
    BY <1>18 DEF CloseOnExec, Refs, Life!lifeVars
  <1>19. ASSUME NEW p \in Proc, CloseAll(p) PROVE [Life!LifeNext]_(Life!lifeVars)
    BY <1>19 DEF CloseAll, Refs, Life!lifeVars
  <1>20. CASE UNCHANGED vars
    BY <1>20 DEF Refs, Life!lifeVars
  <1>21. QED
    BY <1>1, <1>2, <1>3, <1>4, <1>5, <1>6, <1>7, <1>8, <1>9, <1>10, <1>11,
       <1>12, <1>13, <1>14, <1>15, <1>16, <1>17, <1>18, <1>19, <1>20,
       ArgFdAssumption DEF Next, Call, Step, Fd

(* The initial tables hold stdin, stdout and stderr as FileLifetime says.  *)
LEMMA RefinementInit == Init => Life!LifeInit
  <1> SUFFICES ASSUME Init PROVE Life!LifeInit
    OBVIOUS
  <1>1. \A d \in Desc : d[1] \in Proc /\ d[2] \in Fd
    BY DEF Desc
  <1>2. \A f \in File : Refs(f) = {d \in Desc : d[1] = Root /\ NewTable[d[2]] = f}
    BY <1>1, NoFileAssumption DEF Init, Refs
  <1>3. \A f \in File : Refs(f) = {} <=> f \notin opened
    <2>1. 0 \in Fd /\ 1 \in Fd /\ 2 \in Fd
      BY MaxFdAssumption DEF Fd
    <2>2. \A f \in opened : \E fd \in Fd : entries[Root][fd] = f
      BY <2>1, RootAssumption DEF Init, NewTable
    <2>3. \A f \in File : f \notin opened => \A q \in Proc, fd \in Fd : entries[q][fd] # f
      BY NoFileAssumption DEF Init, NewTable
    <2>4. \A f \in opened : Refs(f) # {}
      BY <2>2, RefsMember, RootAssumption
    <2>5. \A f \in File : f \notin opened => Refs(f) = {}
      BY <1>1, <2>3 DEF Refs
    <2>6. QED
      BY <2>4, <2>5
  <1>4. QED
    BY <1>2, <1>3 DEF Init, Life!LifeInit

(* The counting tables implement the safety part of FileLifetime: a File   *)
(* is closed once, after its last descriptor has gone, and no descriptor   *)
(* refers to it afterwards.                                                *)
THEOREM Refinement == Safety => LifetimeSafety
  <1>1. IInv /\ [Next]_vars => [Life!LifeNext]_(Life!lifeVars)
    BY RefinementStep DEF IInv
  <1>2. QED
    BY RefinementInit, Invariance, <1>1, PTL DEF Safety, LifetimeSafety, Life!LifeSafety

(* No step of any goroutine overwrites an entry that is in use: a          *)
(* descriptor is always given up before its number gets another File.      *)
THEOREM NothingClobbered == Safety => NoClobber
  <1>1. IInv /\ [Next]_vars =>
          [\A p \in Proc, fd \in Fd :
              entries[p][fd] # NoFile => entries'[p][fd] \in {entries[p][fd], NoFile}]_vars
    BY NoClobberStep DEF IInv
  <1>2. QED
    BY Invariance, <1>1, PTL DEF Safety, NoClobber

-----------------------------------------------------------------------------
(***************************************************************************)
(* Nothing leaks.                                                          *)
(***************************************************************************)
Exiting(p) == pc[p] = "closeall" \/ (Dropping(p) /\ ret[p] = "closeall")

(* CloseAll leaves nothing behind.                                         *)
ExitAt(p) ==
    /\ pc[p] = "gone" => OpenFds(p) = {}
    /\ Exiting(p) => OpenFds(p) \subseteq todo[p]

(* An open File has a descriptor in some table, or one on its way out.     *)
HeldAt(f) == f \in opened => closes[f] = 1 \/ ~Unreferenced(f) \/ ~Undropped(f)

LeakInv == (\A p \in Proc : ExitAt(p)) /\ (\A f \in File : HeldAt(f))

LEMMA ExitStep ==
    ASSUME TypeOK, ControlInv, TableInv, NEW q \in Proc, ExitAt(q), [Next]_vars
    PROVE  ExitAt(q)'
  <1> USE DEF vars, tables, refs, regs
  <1> USE DEF ExitAt, Exiting, OpenFds, TypeOK, ControlInv, ReturnAt, OwnerAt, TableInv, EntryAt, Cloning, Dropping, Installing
  <1>1. ASSUME NEW p \in Proc, Incr(p) PROVE ExitAt(q)'
    BY <1>1 DEF Incr, Return
  <1>2. ASSUME NEW p \in Proc, Decr(p) PROVE ExitAt(q)'
    <2>1. UNCHANGED <<entries, todo>>
      BY <1>2 DEF Decr, Return
    <2>2. pc'[q] = (IF q = p THEN ret[p] ELSE pc[q]) /\ ret'[q] = (IF q = p THEN "user" ELSE ret[q])
      BY <1>2 DEF Decr, Return
    <2>3. ret[p] # "gone" /\ pc[p] \in {"decr", "shut"}
      BY <1>2 DEF Decr
    <2>4. QED
      BY <2>1, <2>2, <2>3
  <1>3. ASSUME NEW p \in Proc, DecrLast(p) PROVE ExitAt(q)'
    BY <1>3 DEF DecrLast
  <1>4. ASSUME NEW p \in Proc, Shut(p) PROVE ExitAt(q)'
    <2>1. UNCHANGED <<entries, todo>>
      BY <1>4 DEF Shut, Return
    <2>2. pc'[q] = (IF q = p THEN ret[p] ELSE pc[q]) /\ ret'[q] = (IF q = p THEN "user" ELSE ret[q])
      BY <1>4 DEF Shut, Return
    <2>3. ret[p] # "gone" /\ pc[p] \in {"decr", "shut"}
      BY <1>4 DEF Shut
    <2>4. QED
      BY <2>1, <2>2, <2>3
  <1>5. ASSUME NEW p \in Proc, NEW c \in Proc, Clone(p, c) PROVE ExitAt(q)'
    BY <1>5 DEF Clone
  <1>6. ASSUME NEW p \in Proc, Install(p) PROVE ExitAt(q)'
    BY <1>6 DEF Install
  <1>7. ASSUME NEW p \in Proc, NEW fd \in Fd, CloneEntry(p, fd) PROVE ExitAt(q)'
    BY <1>7 DEF CloneEntry
  <1>8. ASSUME NEW p \in Proc, CloneDone(p) PROVE ExitAt(q)'
    BY <1>8 DEF CloneDone
  <1>9. ASSUME NEW p \in Proc, NEW fd \in Fd, CloseNext(p, fd) PROVE ExitAt(q)'
    BY <1>9 DEF CloseNext, BeginClose
  <1>10. ASSUME NEW p \in Proc, CloseOnExecDone(p) PROVE ExitAt(q)'
    BY <1>10 DEF CloseOnExecDone
  <1>11. ASSUME NEW p \in Proc, CloseAllDone(p) PROVE ExitAt(q)'
    BY <1>11 DEF CloseAllDone
  <1>12. ASSUME NEW p \in Proc, NEW f \in File, AllocNew(p, f) PROVE ExitAt(q)'
    BY <1>12 DEF AllocNew, Alloc
  <1>13. ASSUME NEW p \in Proc, NEW fd \in Fd, Dup(p, fd) PROVE ExitAt(q)'
    BY <1>13 DEF Dup, Alloc
  <1>14. ASSUME NEW p \in Proc, NEW fd \in Fd, Close(p, fd) PROVE ExitAt(q)'
    BY <1>14 DEF Close, BeginClose
  <1>15. ASSUME NEW p \in Proc, NEW o \in Fd, NEW n \in Fd, Dup2Over(p, o, n) PROVE ExitAt(q)'
    BY <1>15 DEF Dup2Over, BeginClose
  <1>16. ASSUME NEW p \in Proc, NEW o \in Fd, NEW n \in Fd, Dup2Free(p, o, n) PROVE ExitAt(q)'
    BY <1>16 DEF Dup2Free
  <1>17. ASSUME NEW p \in Proc, NEW fd \in Fd, NEW val \in BOOLEAN, SetCloexec(p, fd, val) PROVE ExitAt(q)'
    BY <1>17 DEF SetCloexec
  <1>18. ASSUME NEW p \in Proc, CloseOnExec(p) PROVE ExitAt(q)'
    BY <1>18 DEF CloseOnExec
  <1>19. ASSUME NEW p \in Proc, CloseAll(p) PROVE ExitAt(q)'
    BY <1>19 DEF CloseAll
  <1>20. CASE UNCHANGED vars
    BY <1>20
  <1> HIDE DEF ExitAt, Exiting, OpenFds, TypeOK, ControlInv, ReturnAt, OwnerAt, TableInv, EntryAt, Cloning, Dropping, Installing
  <1>21. QED
    BY <1>1, <1>2, <1>3, <1>4, <1>5, <1>6, <1>7, <1>8, <1>9, <1>10, <1>11,
       <1>12, <1>13, <1>14, <1>15, <1>16, <1>17, <1>18, <1>19, <1>20,
       ArgFdAssumption DEF Next, Call, Step, Fd

(* What keeps every descriptor of g, in a table or on its way out.         *)
LEMMA KeepsHeld ==
    ASSUME NEW g \in File, HeldAt(g), g \in opened' => g \in opened, closes'[g] = closes[g],
           \A q \in Proc, y \in Fd : entries[q][y] = g => entries'[q][y] = g,
           \A q \in Proc : Dropping(q) /\ file[q] = g => Dropping(q)' /\ file'[q] = g
    PROVE  HeldAt(g)'
  BY DEF HeldAt, Unreferenced, Undropped

LEMMA HeldStep ==
    ASSUME TypeOK, ControlInv, TableInv, FileInv, CountsAreReferences, CountsAreReferences', NEW g \in File, HeldAt(g), [Next]_vars
    PROVE  HeldAt(g)'
  <1> USE DEF vars, tables, refs, regs
  <1> USE NoFileAssumption DEF TypeOK
  <1>1. ASSUME NEW p \in Proc, Incr(p) PROVE HeldAt(g)'
    <2>1. UNCHANGED <<entries, opened, closes>>
      BY <1>1 DEF Incr, tables
    <2>2. \A r \in Proc : Dropping(r) => Dropping(r)' /\ file'[r] = file[r]
      BY <1>1 DEF Incr, Return, Dropping, TypeOK
    <2>3. QED
      BY <2>1, <2>2, KeepsHeld
  <1>2. ASSUME NEW p \in Proc, Decr(p) PROVE HeldAt(g)'
    <2>1. UNCHANGED <<entries, opened, closes>>
      BY <1>2 DEF Decr
    <2>2. \A r \in Proc : r # p /\ Dropping(r) => Dropping(r)' /\ file'[r] = file[r]
      BY <1>2 DEF Decr, Return, Dropping, TypeOK
    <2>3. CASE g # file[p]
      BY <2>1, <2>2, <2>3, KeepsHeld
    <2>4. CASE g = file[p]
      <3>1. counts'[g] = counts[g] - 1 /\ counts[g] - 1 > 0
        BY <1>2, <2>4 DEF Decr, TypeOK
      <3>2. counts'[g] = Cardinality(Counted(g)')
        BY DEF CountsAreReferences
      <3>3. Counted(g)' # {}
        <4> DEFINE C == Counted(g)'
        <4>1. Cardinality(C) # 0
          BY <3>1, <3>2
        <4>2. C = {} => Cardinality(C) = 0
          BY FS_EmptySet
        <4> QED
          BY <4>1, <4>2
      <3>4. PICK r \in Proc, y \in Fd : IsCounted(r, y, g)'
        BY <3>3 DEF Counted, Desc
      <3>5. QED
        BY <3>4 DEF IsCounted, Owed, HeldAt, Unreferenced, Undropped, Dropping
    <2>5. QED
      BY <2>3, <2>4
  <1>3. ASSUME NEW p \in Proc, DecrLast(p) PROVE HeldAt(g)'
    BY <1>3 DEF HeldAt, Unreferenced, Undropped, Dropping, DecrLast
  <1>4. ASSUME NEW p \in Proc, Shut(p) PROVE HeldAt(g)'
    <2>1. UNCHANGED <<entries, opened>> /\ closes' = [closes EXCEPT ![file[p]] = @ + 1]
      BY <1>4 DEF Shut
    <2>2. \A r \in Proc : r # p /\ Dropping(r) => Dropping(r)' /\ file'[r] = file[r]
      BY <1>4 DEF Shut, Return, Dropping, TypeOK
    <2>3. CASE g # file[p]
      BY <2>1, <2>2, <2>3, KeepsHeld DEF TypeOK
    <2>4. CASE g = file[p]
      <3>1. Dropping(p) /\ ~Undropped(g)
        BY <1>4, <2>4 DEF Shut, Dropping, Undropped
      <3>2. closes[g] = 0
        BY <3>1 DEF FileInv, FileAt
      <3>3. closes'[g] = 1
        BY <2>1, <2>4, <3>2 DEF TypeOK
      <3>4. QED
        BY <3>3 DEF HeldAt
    <2>5. QED
      BY <2>3, <2>4
  <1>5. ASSUME NEW p \in Proc, NEW c \in Proc, Clone(p, c) PROVE HeldAt(g)'
    BY <1>5 DEF HeldAt, Unreferenced, Undropped, Dropping, Clone
  <1>6. ASSUME NEW p \in Proc, Install(p) PROVE HeldAt(g)'
    <2>0. entries[p][slot[p]] = NoFile
      BY <1>6, NoFileAssumption, MaxFdAssumption DEF Install, TableInv, EntryAt, Installing
    <2>1. \A q \in Proc, y \in Fd : entries[q][y] = g => entries'[q][y] = g
      BY <1>6, <2>0, NoFileAssumption DEF Install, TypeOK
    <2>2. \A r \in Proc : Dropping(r) => Dropping(r)' /\ file'[r] = file[r]
      BY <1>6 DEF Install, Dropping, TypeOK, refs, regs
    <2>3. UNCHANGED <<opened, closes>>
      BY <1>6 DEF Install, refs
    <2>4. QED
      BY <2>1, <2>2, <2>3, KeepsHeld
  <1>7. ASSUME NEW p \in Proc, NEW fd \in Fd, CloneEntry(p, fd) PROVE HeldAt(g)'
    <2>0. entries[tab[p]][fd] = NoFile
      BY <1>7, NoFileAssumption, MaxFdAssumption DEF CloneEntry, TableInv, CloneAt, Cloning
    <2>1. \A q \in Proc, y \in Fd : entries[q][y] = g => entries'[q][y] = g
      BY <1>7, <2>0, NoFileAssumption DEF CloneEntry, TypeOK
    <2>2. \A r \in Proc : Dropping(r) => Dropping(r)' /\ file'[r] = file[r]
      BY <1>7 DEF CloneEntry, Dropping, TypeOK, refs, regs
    <2>3. UNCHANGED <<opened, closes>>
      BY <1>7 DEF CloneEntry, refs
    <2>4. QED
      BY <2>1, <2>2, <2>3, KeepsHeld
  <1>8. ASSUME NEW p \in Proc, CloneDone(p) PROVE HeldAt(g)'
    <2>1. UNCHANGED <<entries, opened, closes, file>>
      BY <1>8 DEF CloneDone
    <2>2. \A r \in Proc : Dropping(r) => Dropping(r)'
      BY <1>8 DEF CloneDone, Dropping, ControlInv, OwnerAt, Cloning
    <2>3. QED
      BY <2>1, <2>2, KeepsHeld
  <1>9. ASSUME NEW p \in Proc, NEW fd \in Fd, CloseNext(p, fd) PROVE HeldAt(g)'
    BY <1>9 DEF HeldAt, Unreferenced, Undropped, Dropping, CloseNext, BeginClose
  <1>10. ASSUME NEW p \in Proc, CloseOnExecDone(p) PROVE HeldAt(g)'
    BY <1>10 DEF HeldAt, Unreferenced, Undropped, Dropping, CloseOnExecDone
  <1>11. ASSUME NEW p \in Proc, CloseAllDone(p) PROVE HeldAt(g)'
    BY <1>11 DEF HeldAt, Unreferenced, Undropped, Dropping, CloseAllDone
  <1>12. ASSUME NEW p \in Proc, NEW f \in File, AllocNew(p, f) PROVE HeldAt(g)'
    <2>0. entries[p][next[p]] = NoFile
      BY <1>12, NoFileAssumption, MaxFdAssumption DEF AllocNew, Alloc, TableInv, NextAt, TypeOK, Fd
    <2>1. \A q \in Proc, y \in Fd : entries[q][y] = g => entries'[q][y] = g
      BY <1>12, <2>0, NoFileAssumption DEF AllocNew, Alloc, TypeOK
    <2>2. \A r \in Proc : Dropping(r) => Dropping(r)' /\ file'[r] = file[r]
      BY <1>12 DEF AllocNew, Alloc, Dropping, TypeOK, refs, regs
    <2>3. CASE g \in opened
      <3>1. UNCHANGED closes
        BY <1>12 DEF AllocNew, Alloc
      <3>2. QED
        BY <2>1, <2>2, <2>3, <3>1, KeepsHeld
    <2>4. CASE g = f
      <3>1. entries'[p][next[p]] = g /\ next[p] \in Fd
        BY <1>12, <2>4 DEF AllocNew, Alloc, TypeOK
      <3>2. QED
        BY <3>1 DEF HeldAt, Unreferenced
    <2>5. CASE g # f /\ g \notin opened
      BY <1>12, <2>5 DEF AllocNew, HeldAt
    <2>6. QED
      BY <2>3, <2>4, <2>5
  <1>13. ASSUME NEW p \in Proc, NEW fd \in Fd, Dup(p, fd) PROVE HeldAt(g)'
    <2>0. entries[p][next[p]] = NoFile
      BY <1>13, NoFileAssumption, MaxFdAssumption DEF Dup, Alloc, TableInv, NextAt, TypeOK, Fd
    <2>1. \A q \in Proc, y \in Fd : entries[q][y] = g => entries'[q][y] = g
      BY <1>13, <2>0, NoFileAssumption DEF Dup, Alloc, TypeOK
    <2>2. \A r \in Proc : Dropping(r) => Dropping(r)' /\ file'[r] = file[r]
      BY <1>13 DEF Dup, Alloc, Dropping, TypeOK, refs, regs
    <2>3. UNCHANGED <<opened, closes>>
      BY <1>13 DEF Dup, Alloc, refs
    <2>4. QED
      BY <2>1, <2>2, <2>3, KeepsHeld
  <1>14. ASSUME NEW p \in Proc, NEW fd \in Fd, Close(p, fd) PROVE HeldAt(g)'
    BY <1>14 DEF HeldAt, Unreferenced, Undropped, Dropping, Close, BeginClose
  <1>15. ASSUME NEW p \in Proc, NEW o \in Fd, NEW n \in Fd, Dup2Over(p, o, n) PROVE HeldAt(g)'
    BY <1>15 DEF HeldAt, Unreferenced, Undropped, Dropping, Dup2Over, BeginClose
  <1>16. ASSUME NEW p \in Proc, NEW o \in Fd, NEW n \in Fd, Dup2Free(p, o, n) PROVE HeldAt(g)'
    BY <1>16 DEF HeldAt, Unreferenced, Undropped, Dropping, Dup2Free
  <1>17. ASSUME NEW p \in Proc, NEW fd \in Fd, NEW val \in BOOLEAN, SetCloexec(p, fd, val) PROVE HeldAt(g)'
    BY <1>17 DEF HeldAt, Unreferenced, Undropped, Dropping, SetCloexec
  <1>18. ASSUME NEW p \in Proc, CloseOnExec(p) PROVE HeldAt(g)'
    BY <1>18 DEF HeldAt, Unreferenced, Undropped, Dropping, CloseOnExec
  <1>19. ASSUME NEW p \in Proc, CloseAll(p) PROVE HeldAt(g)'
    BY <1>19 DEF HeldAt, Unreferenced, Undropped, Dropping, CloseAll
  <1>20. CASE UNCHANGED vars
    BY <1>20 DEF HeldAt, Unreferenced, Undropped, Dropping
  <1> HIDE DEF TypeOK
  <1>21. QED
    BY <1>1, <1>2, <1>3, <1>4, <1>5, <1>6, <1>7, <1>8, <1>9, <1>10, <1>11,
       <1>12, <1>13, <1>14, <1>15, <1>16, <1>17, <1>18, <1>19, <1>20,
       ArgFdAssumption DEF Next, Call, Step, Fd

LEMMA InitLeak ==
    ASSUME Init
    PROVE  LeakInv
  <1>1. \A p \in Proc : ExitAt(p)
    BY DEF Init, ExitAt, Exiting, Dropping
  <1>2. ASSUME NEW f \in File, f \in opened
        PROVE  ~Unreferenced(f)
    <2>1. f \in {Stdin, Stdout, Stderr} /\ 0 \in Fd /\ 1 \in Fd /\ 2 \in Fd
      BY <1>2, MaxFdAssumption DEF Init, Fd
    <2>2. entries[Root] = NewTable
      BY RootAssumption DEF Init
    <2>3. NewTable[0] = Stdin /\ NewTable[1] = Stdout /\ NewTable[2] = Stderr
      BY <2>1 DEF NewTable
    <2>4. QED
      BY <2>1, <2>2, <2>3, RootAssumption DEF Unreferenced
  <1>3. QED
    BY <1>1, <1>2 DEF LeakInv, HeldAt

LEMMA LeakInvariance == Safety => []LeakInv
  <1>1. Init => LeakInv
    BY InitLeak
  <1>2. IInv /\ IInv' /\ LeakInv /\ [Next]_vars => LeakInv'
    BY ExitStep, HeldStep DEF IInv, LeakInv
  <1>3. QED
    BY <1>1, <1>2, Invariance, PTL DEF Safety

(***************************************************************************)
(* Safety.  Nothing leaks: a File that was opened has been closed, or some *)
(* descriptor of some process refers to it, or a goroutine is just giving  *)
(* up its last descriptor; and CloseAll leaves an exited process none.     *)
(***************************************************************************)
NothingLeaks ==
    /\ \A f \in opened : \/ closes[f] = 1
                         \/ Refs(f) # {}
                         \/ \E p \in Proc : pc[p] \in {"decr", "shut"} /\ file[p] = f
    /\ \A p \in Proc : pc[p] = "gone" => OpenFds(p) = {}

THEOREM NoLeaks == Safety => []NothingLeaks
  <1>1. IInv /\ LeakInv => NothingLeaks
    <2>1. \A f \in File : Refs(f) = {} => Unreferenced(f)
      BY RefsMember DEF Unreferenced
    <2>2. QED
      BY <2>1 DEF IInv, TypeOK, LeakInv, ExitAt, HeldAt, Undropped, Dropping, NothingLeaks
  <1>2. QED
    BY <1>1, Invariance, LeakInvariance, PTL

(* Safety.  When every process of the tree has exited, every File it ever  *)
(* opened has been closed, once.                                           *)
TreeClosed ==
    (\A p \in Proc : pc[p] \in {"unborn", "gone"}) => \A f \in opened : closes[f] = 1

THEOREM AllClosed == Safety => []TreeClosed
  <1>1. IInv /\ NothingLeaks => TreeClosed
    <2> SUFFICES ASSUME IInv, NothingLeaks, \A p \in Proc : pc[p] \in {"unborn", "gone"},
                        NEW f \in opened
                 PROVE  closes[f] = 1
      BY DEF TreeClosed
    <2>1. \A p \in Proc, fd \in Fd : entries[p][fd] = NoFile
      BY DEF IInv, TableInv, EntryAt, NothingLeaks, OpenFds
    <2>2. Refs(f) = {}
      BY <2>1, NoFileAssumption DEF IInv, TypeOK, Refs, Desc
    <2>3. QED
      BY <2>2 DEF NothingLeaks
  <1>2. QED
    BY <1>1, Invariance, NoLeaks, PTL

-----------------------------------------------------------------------------
(***************************************************************************)
(* Pipelines: the reader is not told end of file before it has everything. *)
(*                                                                         *)
(* A pipeline is a behaviour of the descriptor tables, so what is proved   *)
(* of them holds of it: the write end is not closed while a descriptor     *)
(* refers to it.  What remains is that at every point, in particular while *)
(* fork is copying a table and while dup2 has emptied fd 1, somebody on    *)
(* the writer's side has such a descriptor.                                *)
(***************************************************************************)

Born(p) == pc[p] \notin {"unborn", "nascent"}

(* Where the shell is, and what that says of its children's tables.        *)
ShellTable ==
    /\ at[Root] \in 1..9
    /\ at[Root] = 1 => next[Root] = Rfd
    /\ at[Root] = 2 => next[Root] = Wfd /\ entries[Root][Rfd] = PipeR
    /\ at[Root] \in 3..5 => entries[Root][Rfd] = PipeR /\ entries[Root][Wfd] = PipeW
    /\ at[Root] \in 1..5 => pc[Root] \in {"user", "incr", "clone"}

Forking ==
    /\ \A p \in Proc : Cloning(p) =>
          p = Root /\ ((at[p] = 4 /\ tab[p] = Writer) \/ (at[p] = 5 /\ tab[p] = Reader))
    /\ \A p \in Proc : pc[p] = "nascent" => Cloning(Root) /\ tab[Root] = p
    /\ pc[Writer] = "unborn" <=> at[Root] <= 3
    /\ pc[Reader] = "unborn" <=> at[Root] <= 4
    /\ Born(Root)
    /\ \A p \in Proc \ {Root, Writer, Reader} : pc[p] = "unborn"

(* A child, whose end f of the pipe is o at first and t in the end.        *)
ChildTable(c, o, t, f) ==
    /\ at[c] \in 1..6
    /\ ~Born(c) => at[c] = 1
    /\ Born(c) /\ at[c] = 1 => pc[c] = "user" /\ entries[c][o] = f
    /\ at[c] = 2 => /\ entries[c][o] = f
                    /\ \/ Installing(c) /\ inst[c] = f /\ slot[c] = t
                       \/ pc[c] \in {"incr", "user"} /\ entries[c][t] = f
    /\ at[c] \in {3, 4} => entries[c][t] = f /\ (pc[c] = "user" \/ (Dropping(c) /\ ret[c] = "user"))
    /\ at[c] = 5 => entries[c][t] = f /\ (pc[c] = "user" \/ (pc[c] = "cloexec" /\ todo[c] = {}))

NoCloexec == \A p \in Proc : cloexec[p] = {}

Flow ==
    /\ buf \in Nat /\ sent \in Nat /\ got \in Nat /\ limit \in Nat
    /\ got + buf = sent /\ sent <= Bytes /\ got <= limit
    /\ at[Writer] > 5 => sent = Bytes \/ closes[PipeR] > 0
    /\ NoEarlyEof

PInv ==
    /\ IInv
    /\ at \in [Proc -> 1..9]
    /\ ShellTable
    /\ Forking
    /\ ChildTable(Writer, Wfd, 1, PipeW)
    /\ ChildTable(Reader, Rfd, 0, PipeR)
    /\ NoCloexec
    /\ Flow

-----------------------------------------------------------------------------
(***************************************************************************)
(* Who is at which instruction.                                            *)
(***************************************************************************)
LEMMA Names ==
    /\ {0, 1, 3, 4} \subseteq Fd /\ {0, 1, 3, 4} \subseteq ArgFd
    /\ Root \in Proc /\ Writer \in Proc /\ Reader \in Proc
    /\ Root # Writer /\ Root # Reader /\ Writer # Reader
    /\ PipeR \in File /\ PipeW \in File /\ PipeR # PipeW /\ NoFile \notin File
    /\ Bytes \in Nat /\ Limits \subseteq Nat
  BY PipelineAssumption, RootAssumption, ArgFdAssumption, NoFileAssumption DEF Fd

LEMMA RootProgram ==
    /\ Program(Root)[1] = <<"open", PipeR>> /\ Program(Root)[2] = <<"open", PipeW>>
    /\ Program(Root)[3] = <<"fork", Writer>> /\ Program(Root)[4] = <<"fork", Reader>>
    /\ Program(Root)[5] = <<"close", Rfd>> /\ Program(Root)[6] = <<"close", Wfd>>
    /\ Program(Root)[7] = <<"wait", Writer>> /\ Program(Root)[8] = <<"wait", Reader>>
    /\ Program(Root)[9] = <<"exit">>
  BY Names DEF Program

LEMMA WriterProgram ==
    /\ Program(Writer)[1] = <<"dup2", Wfd, 1>> /\ Program(Writer)[2] = <<"close", Rfd>>
    /\ Program(Writer)[3] = <<"close", Wfd>> /\ Program(Writer)[4] = <<"exec">>
    /\ Program(Writer)[5] = <<"write">> /\ Program(Writer)[6] = <<"exit">>
  BY Names DEF Program

LEMMA ReaderProgram ==
    /\ Program(Reader)[1] = <<"dup2", Rfd, 0>> /\ Program(Reader)[2] = <<"close", Rfd>>
    /\ Program(Reader)[3] = <<"close", Wfd>> /\ Program(Reader)[4] = <<"exec">>
    /\ Program(Reader)[5] = <<"read">> /\ Program(Reader)[6] = <<"exit">>
  BY Names DEF Program

(* The call that p makes next.                                             *)
LEMMA ReadyAt ==
    ASSUME PInv, NEW p \in Proc
    PROVE  /\ Ready(p, "open") => p = Root /\ \/ at[p] = 1 /\ Instr(p)[2] = PipeR
                                              \/ at[p] = 2 /\ Instr(p)[2] = PipeW
           /\ Ready(p, "fork") => p = Root /\ \/ at[p] = 3 /\ Instr(p)[2] = Writer
                                              \/ at[p] = 4 /\ Instr(p)[2] = Reader
           /\ Ready(p, "dup2") => /\ at[p] = 1
                                  /\ \/ p = Writer /\ Instr(p)[2] = Wfd /\ Instr(p)[3] = 1
                                     \/ p = Reader /\ Instr(p)[2] = Rfd /\ Instr(p)[3] = 0
           /\ Ready(p, "close") => /\ Instr(p)[2] \in {Rfd, Wfd}
                                   /\ \/ p = Root /\ at[p] \in {5, 6}
                                      \/ p \in {Writer, Reader} /\ at[p] \in {2, 3}
           /\ Ready(p, "exec") => p \in {Writer, Reader} /\ at[p] = 4
           /\ Ready(p, "write") => p = Writer /\ at[p] = 5
           /\ Ready(p, "read") => p = Reader /\ at[p] = 5
           /\ Ready(p, "wait") => p = Root /\ at[p] \in {7, 8}
           /\ Ready(p, "exit") => (p = Root /\ at[p] = 9) \/ (p \in {Writer, Reader} /\ at[p] = 6)
<1>1. pc[p] = "user" => p \in {Root, Writer, Reader}
  BY DEF PInv, Forking
<1>2. CASE p = Root
  <2>1. at[p] \in 1..9
    BY <1>2 DEF PInv, ShellTable
  <2>2. at[p] \in {1, 2, 3, 4, 5, 6, 7, 8, 9}
    BY <2>1
  <2> QED
    BY <1>2, <2>2, RootProgram DEF Ready, Instr
<1>3. CASE p = Writer
  <2>1. at[p] \in 1..6
    BY <1>3 DEF PInv, ChildTable
  <2>2. at[p] \in {1, 2, 3, 4, 5, 6}
    BY <2>1
  <2> QED
    BY <1>3, <2>2, WriterProgram DEF Ready, Instr
<1>4. CASE p = Reader
  <2>1. at[p] \in 1..6
    BY <1>4 DEF PInv, ChildTable
  <2>2. at[p] \in {1, 2, 3, 4, 5, 6}
    BY <2>1
  <2> QED
    BY <1>4, <2>2, ReaderProgram DEF Ready, Instr
<1> QED
  BY <1>1, <1>2, <1>3, <1>4 DEF Ready

(* Who forks, forks a process.                                             *)
LEMMA ForkClones ==
    ASSUME PInv, NEW p \in Proc, DoFork(p) PROVE \E d \in Proc : Clone(p, d)
<1>1. Ready(p, "fork") /\ Clone(p, Instr(p)[2])
  BY DEF DoFork
<1>2. Instr(p)[2] \in {Writer, Reader}
  BY <1>1, ReadyAt
<1> QED
  BY <1>1, <1>2, Names

(* Every step of a pipeline is one of the descriptor tables, or leaves     *)
(* them alone.                                                             *)
LEMMA TableStep ==
    ASSUME PInv, [PNext]_pvars PROVE [Next]_vars
<1> USE Names
<1>1. ASSUME NEW p \in Proc, DoPipe(p) PROVE Next
  BY <1>1, ReadyAt DEF DoPipe, Next, Call
<1>2. ASSUME NEW p \in Proc, DoFork(p) PROVE Next
  BY <1>2, ReadyAt DEF DoFork, Next, Call
<1>3. ASSUME NEW p \in Proc, DoDup2(p) PROVE Next
  BY <1>3, ReadyAt DEF DoDup2, Next, Call, Rfd, Wfd
<1>4. ASSUME NEW p \in Proc, DoClose(p) PROVE Next
  BY <1>4, ReadyAt DEF DoClose, Next, Call, Rfd, Wfd
<1>5. ASSUME NEW p \in Proc, DoExecve(p) \/ DoExit(p) PROVE Next
  BY <1>5 DEF DoExecve, DoExit, Next, Call
<1>6. ASSUME NEW p \in Proc, Write(p) \/ WriteEnd(p) \/ Read(p) \/ ReadEnd(p) \/ DoWait(p) \/ Fault(p)
      PROVE  UNCHANGED vars
  BY <1>6 DEF Write, WriteEnd, Read, ReadEnd, DoWait, Fault
<1>7. ASSUME NEW p \in Proc, Step(p) PROVE Next
  BY <1>7 DEF Next
<1>8. UNCHANGED pvars => UNCHANGED vars
  BY DEF pvars
<1> QED
  BY <1>1, <1>2, <1>3, <1>4, <1>5, <1>6, <1>7, <1>8 DEF PNext, Goroutine, Guest

-----------------------------------------------------------------------------
(* What a process has is touched by nobody else once it runs.              *)
LEMMA OthersKept ==
    ASSUME PInv, NEW p \in Proc, Goroutine(p) \/ Fault(p), NEW q \in Proc, q # p, Born(q)
    PROVE  /\ entries'[q] = entries[q] /\ next'[q] = next[q] /\ pc'[q] = pc[q] /\ at'[q] = at[q]
           /\ ret'[q] = ret[q] /\ tab'[q] = tab[q] /\ slot'[q] = slot[q] /\ file'[q] = file[q]
           /\ inst'[q] = inst[q] /\ todo'[q] = todo[q]
<1> USE DEF vars, tables, refs, regs, Advance, Born
<1>1. /\ TypeOK /\ at \in [Proc -> 1..9] /\ (pc[p] = "clone" => tab[p] # q)
      /\ tab[p] \in Proc
  BY DEF PInv, IInv, TypeOK, ControlInv, OwnerAt, Cloning
<1> USE <1>1 DEF TypeOK
<1>2. CASE DoPipe(p)
  BY <1>2 DEF DoPipe, AllocNew, Alloc
<1>3. CASE DoFork(p)
  <2>1. PICK c \in Proc : pc[c] = "unborn" /\ Clone(p, c) /\ Advance(p)
    BY <1>3, ReadyAt, Names DEF DoFork, Clone
  <2> QED
    BY <2>1 DEF Clone
<1>4. CASE DoDup2(p)
  BY <1>4 DEF DoDup2, Dup2Over, BeginClose
<1>5. CASE DoClose(p)
  BY <1>5 DEF DoClose, Close, BeginClose
<1>6. CASE DoExecve(p) \/ DoExit(p)
  BY <1>6 DEF DoExecve, DoExit, CloseOnExec, CloseAll
<1>7. CASE Write(p) \/ WriteEnd(p) \/ Read(p) \/ ReadEnd(p) \/ DoWait(p) \/ Fault(p)
  BY <1>7 DEF Write, WriteEnd, Read, ReadEnd, DoWait, Fault
<1>8. CASE Step(p) /\ UNCHANGED <<at, data, dead>>
  <2>1. CASE Incr(p) \/ Decr(p) \/ DecrLast(p) \/ Shut(p)
    BY <1>8, <2>1 DEF Incr, Decr, DecrLast, Shut, Return
  <2>2. CASE Install(p) \/ CloseOnExecDone(p) \/ CloseAllDone(p)
    BY <1>8, <2>2 DEF Install, CloseOnExecDone, CloseAllDone
  <2>3. CASE \E fd \in Fd : CloneEntry(p, fd)
    BY <1>8, <2>3 DEF CloneEntry
  <2>4. CASE CloneDone(p)
    BY <1>8, <2>4 DEF CloneDone
  <2>5. CASE \E fd \in Fd : CloseNext(p, fd)
    BY <1>8, <2>5 DEF CloseNext, BeginClose
  <2> QED
    BY <1>8, <2>1, <2>2, <2>3, <2>4, <2>5 DEF Step
<1> QED
  BY <1>2, <1>3, <1>4, <1>5, <1>6, <1>7, <1>8 DEF Goroutine, Guest

LEMMA ShellStep ==
    ASSUME PInv, NEW p \in Proc, Goroutine(p) \/ Fault(p) PROVE ShellTable'
<1> USE Names DEF Rfd, Wfd
<1>1. /\ TypeOK /\ at \in [Proc -> 1..9] /\ ShellTable /\ Born(Root)
      /\ ReturnAt(Root) /\ (Cloning(Root) => tab[Root] # Root /\ at[Root] \in {4, 5})
  BY DEF PInv, IInv, ControlInv, OwnerAt, Forking
<1>2. CASE p # Root
  BY <1>1, <1>2, OthersKept DEF ShellTable
<1>3. CASE p = Root
  <2> USE <1>1, <1>3 DEF vars, tables, refs, regs, Advance, ShellTable, TypeOK
  <2>1. CASE DoPipe(p)
    BY <2>1, ReadyAt DEF DoPipe, AllocNew, Alloc
  <2>2. CASE DoFork(p)
    <3>1. PICK c \in Proc : c # Root /\ Clone(p, c) /\ Advance(p) /\ at[p] \in {3, 4}
      BY <2>2, ReadyAt DEF DoFork
    <3> QED
      BY <3>1 DEF Clone
  <2>3. CASE DoDup2(p) \/ DoExecve(p) \/ Write(p) \/ WriteEnd(p) \/ Read(p) \/ ReadEnd(p)
    BY <2>3, ReadyAt DEF DoDup2, DoExecve, Write, WriteEnd, Read, ReadEnd
  <2>4. CASE DoClose(p)
    <3>1. at[p] \in {5, 6} /\ Advance(p)
      BY <2>4, ReadyAt DEF DoClose
    <3> QED
      BY <3>1
  <2>5. CASE DoExit(p)
    <3>1. at[p] = 9 /\ at' = at
      BY <2>5, ReadyAt DEF DoExit
    <3> QED
      BY <3>1
  <2>6. CASE DoWait(p)
    BY <2>6, ReadyAt DEF DoWait
  <2>7. CASE Fault(p)
    BY <2>7 DEF Fault
  <2>8. CASE Step(p) /\ UNCHANGED <<at, data, dead>>
    <3>1. CASE at[p] \in 6..9
      BY <2>8, <3>1
    <3>2. CASE at[p] \in 1..5
      <4>1. CASE Incr(p)
        BY <2>8, <3>2, <4>1 DEF Incr, Return, ReturnAt
      <4>2. CASE \E fd \in Fd : CloneEntry(p, fd)
        BY <2>8, <3>2, <4>2 DEF CloneEntry, Cloning
      <4>3. CASE CloneDone(p)
        BY <2>8, <3>2, <4>3 DEF CloneDone, Cloning
      <4> QED
        BY <2>8, <3>2, <4>1, <4>2, <4>3
           DEF Step, Decr, DecrLast, Shut, Install, CloseNext, CloseOnExecDone, CloseAllDone
    <3> QED
      BY <3>1, <3>2
  <2> QED
    BY <2>1, <2>2, <2>3, <2>4, <2>5, <2>6, <2>7, <2>8 DEF Goroutine, Guest
<1> QED
  BY <1>2, <1>3

LEMMA ActorBorn ==
    ASSUME PInv, NEW p \in Proc, Goroutine(p) \/ Fault(p)
    PROVE  Born(p) /\ p \in {Root, Writer, Reader}
<1>1. Born(p)
  BY DEF Goroutine, Guest, Fault, DoPipe, DoFork, DoDup2, DoClose, DoExecve, DoExit, Write, WriteEnd,
         Read, ReadEnd, DoWait, Ready, Step, Incr, Decr, DecrLast, Shut, Install, CloneEntry,
         CloneDone, CloseNext, CloseOnExecDone, CloseAllDone, Born
<1> QED
  BY <1>1 DEF PInv, Forking, Born

(* Only the shell forks.                                                   *)
LEMMA ChildActs ==
    ASSUME PInv, NEW p \in Proc, Goroutine(p) \/ Fault(p), p # Root
    PROVE  /\ \A x \in Proc : x # p => pc'[x] = pc[x]
           /\ Born(p)' /\ ~Cloning(p)'
<1>1. /\ TypeOK /\ at \in [Proc -> 1..9] /\ ~Cloning(p) /\ ReturnAt(p) /\ Born(p)
  BY ActorBorn DEF PInv, IInv, ControlInv, Forking
<1> USE <1>1 DEF vars, tables, refs, regs, Born, TypeOK, Cloning
<1>2. CASE DoPipe(p) \/ DoFork(p)
  BY <1>2, ReadyAt DEF DoPipe, DoFork
<1>3. CASE DoDup2(p)
  BY <1>3 DEF DoDup2, Dup2Over, BeginClose
<1>4. CASE DoClose(p)
  BY <1>4 DEF DoClose, Close, BeginClose
<1>5. CASE DoExecve(p) \/ DoExit(p)
  BY <1>5 DEF DoExecve, DoExit, CloseOnExec, CloseAll
<1>6. CASE Write(p) \/ WriteEnd(p) \/ Read(p) \/ ReadEnd(p) \/ DoWait(p) \/ Fault(p)
  BY <1>6 DEF Write, WriteEnd, Read, ReadEnd, DoWait, Fault
<1>7. CASE Step(p)
  <2>1. CASE Incr(p) \/ Decr(p) \/ Shut(p)
    BY <2>1 DEF Incr, Decr, Shut, Return, ReturnAt, Dropping
  <2>2. CASE DecrLast(p) \/ CloseOnExecDone(p) \/ CloseAllDone(p)
    BY <2>2 DEF DecrLast, CloseOnExecDone, CloseAllDone
  <2>3. CASE Install(p)
    BY <2>3 DEF Install, ReturnAt
  <2>4. CASE \E fd \in Fd : CloseNext(p, fd)
    BY <2>4 DEF CloseNext, BeginClose
  <2> QED
    BY <1>7, <2>1, <2>2, <2>3, <2>4 DEF Step, CloneEntry, CloneDone
<1> QED
  BY <1>2, <1>3, <1>4, <1>5, <1>6, <1>7 DEF Goroutine, Guest

LEMMA ForkStep ==
    ASSUME PInv, NEW p \in Proc, Goroutine(p) \/ Fault(p) PROVE Forking'
<1> USE Names
<1>1. /\ TypeOK /\ at \in [Proc -> 1..9] /\ at[Root] \in 1..9 /\ Forking /\ Born(p)
      /\ p \in {Root, Writer, Reader} /\ ReturnAt(Root) /\ tab[Root] \in Proc
      /\ (Cloning(Root) => pc[tab[Root]] = "nascent")
  BY ActorBorn DEF PInv, IInv, TypeOK, ControlInv, OwnerAt, ShellTable
<1>2. CASE p # Root
  <2>1. /\ \A x \in Proc : x # p => pc'[x] = pc[x]
        /\ Born(p)' /\ ~Cloning(p)'
    BY <1>2, ChildActs
  <2>2. at'[Root] = at[Root] /\ tab'[Root] = tab[Root] /\ ret'[Root] = ret[Root]
    BY <1>1, <1>2, OthersKept DEF Forking
  <2>3. \A x \in Proc : Cloning(x)' => x = Root /\ Cloning(Root)
    <3>1. ASSUME NEW x \in Proc, Cloning(x)', x # Root PROVE FALSE
      <4>1. x # p /\ pc'[x] = pc[x] /\ Born(x)
        BY <2>1, <3>1 DEF Cloning, Born
      <4>2. ret'[x] = ret[x]
        BY <4>1, OthersKept
      <4> QED
        BY <1>1, <3>1, <4>1, <4>2 DEF Forking, Cloning
    <3>2. Cloning(Root)' => Cloning(Root)
      BY <1>2, <2>1, <2>2 DEF Cloning
    <3> QED
      BY <3>1, <3>2
  <2>4. Cloning(Root) => Cloning(Root)'
    BY <1>2, <2>1, <2>2 DEF Cloning
  <2> QED
    BY <1>1, <1>2, <2>1, <2>2, <2>3, <2>4 DEF Forking, Born
<1>3. CASE p = Root
  <2>1. ASSUME NEW x \in Proc, x # Root, Cloning(x)' PROVE FALSE
    <3>1. CASE Born(x)
      BY <1>1, <1>3, <2>1, <3>1, OthersKept DEF Forking, Cloning
    <3>2. CASE ~Born(x)
      <4>1. pc'[x] \in {"unborn", "nascent", "user"}
        <5> USE <1>1, <1>3, <2>1, <3>2 DEF vars, tables, refs, regs, TypeOK, Born
        <5>1. CASE DoFork(p)
          <6>1. PICK c \in Proc : Clone(p, c)
            BY <5>1, ReadyAt DEF DoFork
          <6> QED
            BY <6>1 DEF Clone
        <5>2. CASE CloneDone(p)
          BY <5>2 DEF CloneDone
        <5>3. CASE UNCHANGED pc \/ \E v : pc' = [pc EXCEPT ![p] = v]
          BY <5>3
        <5> QED
          BY <5>1, <5>2, <5>3
             DEF Goroutine, Guest, Fault, DoPipe, AllocNew, Alloc, DoDup2, Dup2Over, DoClose, Close,
                 BeginClose, DoExecve, CloseOnExec, DoExit, CloseAll, Write, WriteEnd, Read, ReadEnd,
                 DoWait, Step, Incr, Decr, DecrLast, Shut, Return, Install, CloneEntry, CloseNext,
                 CloseOnExecDone, CloseAllDone
      <4> QED
        BY <2>1, <4>1 DEF Cloning
    <3> QED
      BY <3>1, <3>2
  <2> USE <1>1, <1>3 DEF vars, tables, refs, regs, Advance, TypeOK, Born
  <2>2. CASE DoPipe(p)
    BY <2>1, <2>2, ReadyAt DEF DoPipe, AllocNew, Alloc, Forking, Cloning, ReturnAt
  <2>3. CASE DoFork(p)
    <3>1. PICK c \in {Writer, Reader} :
             /\ Clone(p, c) /\ Advance(p)
             /\ at[p] = IF c = Writer THEN 3 ELSE 4
      BY <2>3, ReadyAt DEF DoFork
    <3>2. /\ pc' = [pc EXCEPT ![p] = "clone", ![c] = "nascent"] /\ tab' = [tab EXCEPT ![p] = c]
          /\ at' = [at EXCEPT ![p] = at[p] + 1] /\ pc[p] = "user"
      BY <3>1 DEF Clone
    <3>3. ~Cloning(Root) /\ \A x \in Proc : pc[x] # "nascent"
      BY <3>2 DEF Forking, Cloning
    <3>4. pc'[Root] = "clone" /\ tab'[Root] = c /\ pc'[c] = "nascent" /\ at'[Root] = at[Root] + 1
          /\ \A x \in Proc \ {Root, c} : pc'[x] = pc[x]
      BY <3>2
    <3> QED
      BY <2>1, <3>1, <3>3, <3>4 DEF Forking, Cloning
  <2>4. CASE DoDup2(p) \/ DoExecve(p) \/ Write(p) \/ WriteEnd(p) \/ Read(p) \/ ReadEnd(p)
    BY <2>4, ReadyAt DEF DoDup2, DoExecve, Write, WriteEnd, Read, ReadEnd
  <2>5. CASE DoClose(p)
    BY <2>1, <2>5, ReadyAt DEF DoClose, Close, BeginClose, Forking, Cloning
  <2>6. CASE DoExit(p)
    BY <2>1, <2>6, ReadyAt DEF DoExit, CloseAll, Forking, Cloning
  <2>7. CASE DoWait(p)
    BY <2>1, <2>7, ReadyAt DEF DoWait, Ready, Forking, Cloning
  <2>8. CASE Fault(p)
    BY <2>1, <2>8 DEF Fault, Forking, Cloning
  <2>9. CASE Step(p) /\ UNCHANGED <<at, data, dead>>
    <3>1. CASE Incr(p)
      BY <2>1, <2>9, <3>1 DEF Incr, Return, ReturnAt, Forking, Cloning
    <3>2. CASE Decr(p) \/ DecrLast(p) \/ Shut(p)
      BY <2>1, <2>9, <3>2 DEF Decr, DecrLast, Shut, Return, ReturnAt, Dropping, Forking, Cloning
    <3>3. CASE Install(p) \/ CloseOnExecDone(p) \/ CloseAllDone(p)
      BY <2>1, <2>9, <3>3 DEF Install, CloseOnExecDone, CloseAllDone, ReturnAt, Forking, Cloning
    <3>4. CASE \E fd \in Fd : CloneEntry(p, fd)
      BY <2>1, <2>9, <3>4 DEF CloneEntry, Forking, Cloning
    <3>5. CASE CloneDone(p)
      BY <2>1, <2>9, <3>5 DEF CloneDone, Forking, Cloning
    <3>6. CASE \E fd \in Fd : CloseNext(p, fd)
      BY <2>1, <2>9, <3>6 DEF CloseNext, BeginClose, Forking, Cloning
    <3> QED
      BY <2>9, <3>1, <3>2, <3>3, <3>4, <3>5, <3>6 DEF Step
  <2> QED
    BY <2>2, <2>3, <2>4, <2>5, <2>6, <2>7, <2>8, <2>9 DEF Goroutine, Guest
<1> QED
  BY <1>2, <1>3

(* A child that comes to life has its end of the pipe, and keeps it until  *)
(* it exits.                                                               *)
LEMMA ChildStep ==
    ASSUME PInv, NEW p \in Proc, Goroutine(p) \/ Fault(p), NoCloexec,
           NEW c \in {Writer, Reader}, NEW o, NEW t, NEW f,
           \/ c = Writer /\ o = Wfd /\ t = 1 /\ f = PipeW
           \/ c = Reader /\ o = Rfd /\ t = 0 /\ f = PipeR,
           ChildTable(c, o, t, f)
    PROVE  ChildTable(c, o, t, f)'
<1> USE Names DEF Rfd, Wfd
<1>1. /\ TypeOK /\ at \in [Proc -> 1..9] /\ c \in Proc /\ c # Root /\ f # NoFile
      /\ o \in {3, 4} /\ o \in Fd /\ t \in {0, 1} /\ t \in Fd /\ cloexec[c] = {}
  BY DEF PInv, IInv, NoCloexec
<1>2. ReturnAt(c) /\ EntryAt(c) /\ ~Cloning(c) /\ tab[c] = c
  BY <1>1 DEF PInv, IInv, ControlInv, OwnerAt, TableInv, Forking
<1>3. CASE p # c /\ Born(c)
  <2>1. /\ entries'[c] = entries[c] /\ pc'[c] = pc[c] /\ at'[c] = at[c] /\ ret'[c] = ret[c]
        /\ slot'[c] = slot[c] /\ inst'[c] = inst[c] /\ todo'[c] = todo[c]
    BY <1>1, <1>3, OthersKept
  <2> QED
    BY <2>1 DEF ChildTable, Born, Installing, Dropping
<1>4. CASE p # c /\ ~Born(c)
  <2>1. at[c] = 1 /\ at'[c] = 1
    <3>1. at' = at \/ Advance(p)
      BY DEF Goroutine, Guest, Fault, DoPipe, DoFork, DoDup2, DoClose, DoExecve, DoExit, Write,
             WriteEnd, Read, ReadEnd, DoWait
    <3> QED
      BY <1>1, <1>4, <3>1 DEF ChildTable, Advance
  <2>2. CASE CloneDone(p)
    <3>1. Cloning(p) /\ p = Root /\ tab[p] \in {Writer, Reader} /\ at[p] \in {4, 5} /\ todo[p] = {}
      BY <2>2 DEF CloneDone, Cloning, PInv, Forking
    <3>2. /\ pc' = [pc EXCEPT ![p] = "user", ![tab[p]] = "user"] /\ entries' = entries
      BY <2>2 DEF CloneDone
    <3>3. CASE tab[p] = c
      <4>1. entries[c][o] = entries[Root][o]
        BY <1>1, <3>1, <3>3 DEF PInv, IInv, TableInv, CloneAt
      <4>2. entries[Root][o] = f
        BY <3>1 DEF PInv, ShellTable
      <4>3. pc'[c] = "user"
        BY <1>1, <3>2, <3>3 DEF TypeOK
      <4> QED
        BY <2>1, <3>2, <4>1, <4>2, <4>3 DEF ChildTable
    <3>4. CASE tab[p] # c
      <4>1. pc'[c] = pc[c]
        BY <1>1, <1>4, <3>2, <3>4 DEF TypeOK
      <4> QED
        BY <1>4, <2>1, <4>1 DEF ChildTable, Born
    <3> QED
      BY <3>3, <3>4
  <2>3. CASE ~CloneDone(p)
    <3>1. pc'[c] \in {"unborn", "nascent"}
      <4> USE <1>1, <1>4 DEF vars, tables, refs, regs, TypeOK, Born
      <4>1. CASE DoFork(p)
        <5>1. PICK d \in Proc : Clone(p, d)
          BY <4>1, ForkClones
        <5> QED
          BY <5>1 DEF Clone
      <4>2. CASE UNCHANGED pc \/ \E v : pc' = [pc EXCEPT ![p] = v]
        BY <4>2
      <4> QED
        BY <2>3, <4>1, <4>2
           DEF Goroutine, Guest, Fault, DoPipe, AllocNew, Alloc, DoDup2, Dup2Over, DoClose, Close,
               BeginClose, DoExecve, CloseOnExec, DoExit, CloseAll, Write, WriteEnd, Read, ReadEnd,
               DoWait, Step, Incr, Decr, DecrLast, Shut, Return, Install, CloneEntry, CloseNext,
               CloseOnExecDone, CloseAllDone
    <3> QED
      BY <2>1, <3>1 DEF ChildTable, Born
  <2> QED
    BY <2>2, <2>3
<1>5. CASE p = c
  <2>1. Born(c)
    BY <1>5, ActorBorn
  <2> USE <1>1, <1>2, <1>5, <2>1
      DEF vars, tables, refs, regs, Advance, TypeOK, ChildTable, Born, Installing, Dropping
  <2>2. CASE DoPipe(p) \/ DoFork(p) \/ DoWait(p)
    BY <2>2, ReadyAt DEF DoPipe, DoFork, DoWait
  <2>3. CASE DoDup2(p)
    <3>1. at[p] = 1 /\ Dup2Over(p, o, t) /\ Advance(p)
      BY <2>3, ReadyAt DEF DoDup2
    <3> QED
      BY <3>1 DEF Dup2Over, BeginClose
  <2>4. CASE DoClose(p)
    <3>1. PICK fd \in {3, 4} : at[p] \in {2, 3} /\ Close(p, fd) /\ Advance(p)
      BY <2>4, ReadyAt DEF DoClose
    <3> QED
      BY <3>1 DEF Close, BeginClose
  <2>5. CASE DoExecve(p)
    <3>1. at[p] = 4 /\ CloseOnExec(p) /\ Advance(p)
      BY <2>5, ReadyAt DEF DoExecve
    <3> QED
      BY <3>1 DEF CloseOnExec
  <2>6. CASE DoExit(p)
    <3>1. at[p] = 6 /\ at' = at /\ CloseAll(p)
      BY <2>6, ReadyAt DEF DoExit
    <3> QED
      BY <3>1 DEF CloseAll
  <2>7. CASE Write(p) \/ Read(p) \/ Fault(p)
    BY <2>7 DEF Write, Read, Fault
  <2>8. CASE WriteEnd(p) \/ ReadEnd(p)
    BY <2>8, ReadyAt DEF WriteEnd, ReadEnd, Ready
  <2>9. CASE Step(p) /\ UNCHANGED <<at, data, dead>>
    <3>1. CASE Incr(p)
      BY <2>9, <3>1 DEF Incr, Return, ReturnAt, Cloning
    <3>2. CASE Decr(p) \/ Shut(p)
      <4>1. /\ entries' = entries /\ inst' = inst /\ at' = at /\ Dropping(p)
            /\ pc'[p] = ret[p]
            /\ slot'[p] = IF ret[p] = "install" THEN slot[p] ELSE 0
        BY <2>9, <3>2 DEF Decr, Shut, Return
      <4>2. CASE at[p] \in 1..4
        BY <3>2, <4>1, <4>2
      <4>3. CASE at[p] \in 5..6
        BY <3>2, <4>1, <4>3 DEF ReturnAt
      <4> QED
        BY <4>2, <4>3
    <3>3. CASE DecrLast(p)
      BY <2>9, <3>3 DEF DecrLast
    <3>4. CASE Install(p)
      BY <2>9, <3>4 DEF Install, ReturnAt
    <3>5. CASE CloseOnExecDone(p) \/ CloseAllDone(p)
      BY <2>9, <3>5 DEF CloseOnExecDone, CloseAllDone
    <3>6. CASE \E fd \in Fd : CloseNext(p, fd)
      BY <2>9, <3>6 DEF CloseNext, BeginClose
    <3> QED
      BY <2>9, <3>1, <3>2, <3>3, <3>4, <3>5, <3>6 DEF Step, CloneEntry, CloneDone, Cloning
  <2> QED
    BY <2>2, <2>3, <2>4, <2>5, <2>6, <2>7, <2>8, <2>9 DEF Goroutine, Guest
<1> QED
  BY <1>3, <1>4, <1>5

LEMMA NoCloexecStep ==
    ASSUME PInv, NEW p \in Proc, Goroutine(p) \/ Fault(p) PROVE NoCloexec'
<1>1. TypeOK /\ NoCloexec
  BY DEF PInv, IInv
<1> USE <1>1 DEF vars, tables, refs, regs, TypeOK, NoCloexec
<1>2. CASE CloneDone(p)
  BY <1>2 DEF CloneDone
<1>3. CASE UNCHANGED cloexec \/ \E fd, k : BeginClose(p, fd, k)
  <2>1. CASE UNCHANGED cloexec
    BY <2>1
  <2>2. ASSUME NEW fd, NEW k, BeginClose(p, fd, k) PROVE NoCloexec'
    <3>1. cloexec' = [cloexec EXCEPT ![p] = cloexec[p] \ {fd}] /\ cloexec[p] = {}
      BY <2>2 DEF BeginClose
    <3>2. cloexec' = [cloexec EXCEPT ![p] = {}]
      BY <3>1
    <3> QED
      BY <3>2
  <2> QED
    BY <1>3, <2>1, <2>2
<1> QED
  BY <1>2, <1>3
     DEF Goroutine, Guest, Fault, DoPipe, AllocNew, Alloc, DoFork, Clone, DoDup2, Dup2Over, DoClose,
         Close, DoExecve, CloseOnExec, DoExit, CloseAll, Write, WriteEnd, Read, ReadEnd, DoWait, Step,
         Incr, Decr, DecrLast, Shut, Install, CloneEntry, CloseNext, CloseOnExecDone, CloseAllDone

(* While a child is not past its loop, its end of the pipe is open.        *)
LEMMA EndIsOpen ==
    ASSUME PInv, NEW c \in Proc, NEW o \in Fd, NEW t \in Fd, NEW f \in File,
           ChildTable(c, o, t, f), Born(c), at[c] <= 5
    PROVE  closes[f] = 0
<1>1. at[c] \in 1..5
  BY DEF ChildTable
<1>2. entries[c][o] = f \/ entries[c][t] = f
  BY <1>1 DEF ChildTable
<1> QED
  BY <1>2 DEF PInv, IInv, FileInv, FileAt, Unreferenced

LEMMA FlowStep ==
    ASSUME PInv, NEW p \in Proc, Goroutine(p) \/ Fault(p) PROVE Flow'
<1> USE Names
<1>1. /\ Flow /\ at \in [Proc -> 1..9] /\ closes \in [File -> Nat]
      /\ ChildTable(Writer, Wfd, 1, PipeW) /\ ChildTable(Reader, Rfd, 0, PipeR)
      /\ Rfd \in Fd /\ Wfd \in Fd /\ at[Root] \in 1..9
  BY DEF PInv, IInv, TypeOK, Rfd, Wfd, ShellTable
<1>2. closes'[PipeR] = closes[PipeR] \/ closes'[PipeR] = closes[PipeR] + 1
  <2>1. CASE Shut(p)
    BY <1>1, <2>1 DEF Shut
  <2>2. CASE ~Shut(p)
    <3>1. UNCHANGED closes
      BY <2>2 DEF Goroutine, Guest, Fault, DoPipe, AllocNew, Alloc, DoFork, Clone, DoDup2, Dup2Over,
         DoClose, Close, BeginClose, DoExecve, CloseOnExec, DoExit, CloseAll, Write, WriteEnd, Read,
         ReadEnd, DoWait, Step, Incr, Decr, DecrLast, Install, CloneEntry, CloneDone, CloseNext,
         CloseOnExecDone, CloseAllDone, vars, refs
    <3> QED
      BY <3>1
  <2> QED
    BY <2>1, <2>2
<1>3. CASE Write(p)
  <2>1. p = Writer /\ at[p] = 5
    BY <1>3, ReadyAt DEF Write
  <2>2. at' = at /\ got' = got /\ limit' = limit /\ sent < Bytes /\ buf' = buf + 1 /\ sent' = sent + 1
    BY <1>3 DEF Write
  <2> QED
    BY <1>1, <1>2, <2>1, <2>2 DEF Flow, NoEarlyEof
<1>4. CASE Read(p)
  <2>1. p = Reader /\ at[p] = 5
    BY <1>4, ReadyAt DEF Read
  <2>2. /\ at' = at /\ got < limit /\ buf > 0 /\ buf' = buf - 1 /\ got' = got + 1
        /\ sent' = sent /\ limit' = limit
    BY <1>4 DEF Read
  <2>3. buf' \in Nat /\ got' \in Nat /\ got' + buf' = sent
    BY <1>1, <2>2 DEF Flow
  <2> QED
    BY <1>1, <1>2, <2>1, <2>2, <2>3 DEF Flow, NoEarlyEof
<1>5. CASE WriteEnd(p)
  <2>1. p = Writer /\ (sent = Bytes \/ closes[PipeR] > 0) /\ at' = [at EXCEPT ![p] = @ + 1]
        /\ UNCHANGED data
    BY <1>5, ReadyAt DEF WriteEnd, Advance
  <2> QED
    BY <1>1, <1>2, <2>1 DEF Flow, NoEarlyEof, data
<1>6. CASE ReadEnd(p)
  <2>1. /\ p = Reader /\ at[p] = 5 /\ pc[p] = "user" /\ at' = [at EXCEPT ![p] = @ + 1]
        /\ UNCHANGED data
        /\ got = limit \/ (buf = 0 /\ closes[PipeW] > 0)
    BY <1>6, ReadyAt DEF ReadEnd, Advance, Ready
  <2>2. at[Writer] \in 1..6 /\ got + buf = sent /\ got \in Nat /\ buf \in Nat
        /\ sent <= Bytes /\ got <= limit /\ limit \in Nat
    BY <1>1 DEF ChildTable, Flow
  <2>3. got = IF Bytes < limit THEN Bytes ELSE limit
    <3>1. CASE got = limit
      BY <2>2, <3>1
    <3>2. CASE buf = 0 /\ closes[PipeW] > 0
      <4>1. pc[Writer] # "unborn" /\ pc[Writer] # "nascent"
        <5>1. at[Root] > 4
          BY <1>1, <2>1 DEF PInv, Forking
        <5> QED
          BY <1>1, <5>1 DEF PInv, Forking
      <4>2. at[Writer] > 5
        BY <1>1, <2>2, <3>2, <4>1, EndIsOpen DEF Born
      <4>3. closes[PipeR] = 0
        BY <1>1, <2>1, EndIsOpen DEF Born
      <4>4. sent = Bytes
        BY <1>1, <4>2, <4>3 DEF Flow
      <4> QED
        BY <2>2, <3>2, <4>4
    <3> QED
      BY <2>1, <3>1, <3>2
  <2> QED
    BY <1>1, <1>2, <2>1, <2>3 DEF Flow, NoEarlyEof, data
<1>7. CASE UNCHANGED data /\ at'[Writer] = at[Writer] /\ at'[Reader] = at[Reader]
  BY <1>1, <1>2, <1>7 DEF Flow, NoEarlyEof, data
<1>8. ASSUME UNCHANGED data, Advance(p), at[p] < 5 \/ p = Root PROVE Flow'
  BY <1>1, <1>2, <1>8 DEF Flow, NoEarlyEof, data, Advance
<1>9. CASE DoPipe(p) \/ DoFork(p) \/ DoWait(p)
  BY <1>8, <1>9, ReadyAt DEF DoPipe, DoFork, DoWait, data
<1>10. CASE DoDup2(p) \/ DoClose(p) \/ DoExecve(p)
  BY <1>8, <1>10, ReadyAt DEF DoDup2, DoClose, DoExecve
<1>11. CASE DoExit(p) \/ Fault(p) \/ (Step(p) /\ UNCHANGED <<at, data, dead>>)
  BY <1>7, <1>11 DEF DoExit, Fault
<1> QED
  BY <1>3, <1>4, <1>5, <1>6, <1>9, <1>10, <1>11 DEF Goroutine, Guest

-----------------------------------------------------------------------------
LEMMA InitPInv == PInit => PInv
<1> SUFFICES ASSUME PInit PROVE PInv
  OBVIOUS
<1> USE Names
<1>1. IInv
  BY InitIInv DEF PInit
<1>2. /\ pc = [p \in Proc |-> IF p = Root THEN "user" ELSE "unborn"]
      /\ next = [p \in Proc |-> IF p = Root THEN 3 ELSE 0]
      /\ cloexec = [p \in Proc |-> {}] /\ at = [p \in Proc |-> 1]
      /\ buf = 0 /\ sent = 0 /\ got = 0 /\ limit \in Nat
  BY DEF PInit, Init
<1>3. ShellTable
  BY <1>2 DEF ShellTable, Rfd
<1>4. Forking /\ NoCloexec
  BY <1>2 DEF Forking, NoCloexec, Cloning, Born
<1>5. ChildTable(Writer, Wfd, 1, PipeW) /\ ChildTable(Reader, Rfd, 0, PipeR)
  BY <1>2 DEF ChildTable, Born
<1>6. Flow
  BY <1>2 DEF Flow, NoEarlyEof
<1>7. at \in [Proc -> 1..9]
  BY <1>2
<1> QED
  BY <1>1, <1>3, <1>4, <1>5, <1>6, <1>7 DEF PInv

LEMMA StepPInv == PInv /\ [PNext]_pvars => PInv'
<1> SUFFICES ASSUME PInv, [PNext]_pvars PROVE PInv'
  OBVIOUS
<1>1. IInv'
  BY TableStep, StepIInv DEF PInv
<1>2. CASE UNCHANGED pvars
  BY <1>1, <1>2 DEF pvars, vars, tables, refs, regs, data, PInv, ShellTable, Forking, ChildTable,
                    NoCloexec, Flow, NoEarlyEof, Born, Cloning, Installing, Dropping
<1>3. ASSUME NEW p \in Proc, Goroutine(p) \/ Fault(p) PROVE PInv'
  <2>1. ShellTable' /\ Forking' /\ NoCloexec' /\ Flow'
    BY <1>3, ShellStep, ForkStep, NoCloexecStep, FlowStep
  <2>2. ChildTable(Writer, Wfd, 1, PipeW)'
    BY <1>3, ChildStep DEF PInv
  <2>3. ChildTable(Reader, Rfd, 0, PipeR)'
    BY <1>3, ChildStep DEF PInv
  <2>4. at' \in [Proc -> 1..9]
    <3>1. at \in [Proc -> 1..9] /\ (at' = at \/ at' = [at EXCEPT ![p] = @ + 1])
      BY <1>3 DEF PInv, Advance, Goroutine, Guest, Fault, DoPipe, DoFork, DoDup2, DoClose, DoExecve,
                  DoExit, Write, WriteEnd, Read, ReadEnd, DoWait
    <3>2. at'[p] \in 1..9
      <4>1. p \in {Root, Writer, Reader}
        BY <1>3, ActorBorn
      <4> QED
        BY <2>1, <2>2, <2>3, <4>1 DEF ShellTable, ChildTable
    <3> QED
      BY <3>1, <3>2
  <2> QED
    BY <1>1, <2>1, <2>2, <2>3, <2>4 DEF PInv
<1> QED
  BY <1>2, <1>3 DEF PNext

(* The descriptor tables, the programs' places and the bytes in the pipe   *)
(* fit together at every point of a pipeline.                              *)
THEOREM PipelineInvariance == PSpec => []PInv
  BY InitPInv, StepPInv, PTL DEF PSpec

(* Refinement.  A pipeline uses the descriptor tables as FdTable allows,   *)
(* so the counts, the closing and the refinement of FileLifetime that are  *)
(* proved of them hold of every pipeline.                                  *)
THEOREM PipelineUsesTables == PSpec => Safety
<1>1. PInit => Init
  BY DEF PInit
<1>2. PInv /\ [PNext]_pvars => [Next]_vars
  BY TableStep
<1>3. PSpec => []PInv
  BY PipelineInvariance
<1> QED
  BY <1>1, <1>2, <1>3, PTL DEF PSpec, Safety

(* Safety.  The reader of a pipeline is never told end of file early: when *)
(* it goes on from reading it has all the writer had to write, or all it   *)
(* wanted, however the goroutines' Clone, Dup2, Close and CloseAll         *)
(* interleave and whichever process dies of a fault.                       *)
THEOREM EofIsNotEarly == PSpec => []NoEarlyEof
<1>1. PInv => NoEarlyEof
  BY DEF PInv, Flow
<1>2. PSpec => []PInv
  BY PipelineInvariance
<1> QED
  BY <1>1, <1>2, PTL
=============================================================================
