------------------------------ MODULE FdTable ------------------------------
(***************************************************************************)
(* internal/fds: one descriptor table per guest process and the reference  *)
(* counts (fileRefs) that all the tables of a process tree share.  Every   *)
(* guest process runs on a goroutine of its own; a table is only touched   *)
(* by the goroutine that owns it (by the parent's, while Clone builds the  *)
(* child's), so the steps that interleave are the critical sections of     *)
(* fileRefs.mu, the File.Close() call made after the unlock, and the       *)
(* iterations of the loops of Clone, CloseOnExec and CloseAll.             *)
(***************************************************************************)
EXTENDS Integers, FiniteSets

CONSTANTS Proc,      \* guest processes (one goroutine and one table each)
          Root,      \* the process the emulator starts
          File,      \* every fds.File value that may ever be opened
          Stdin, Stdout, Stderr,
          NoFile,    \* "no entry"
          MaxFd,     \* bound: the largest descriptor number used
          ArgFd      \* bound: the descriptor numbers guest programs pass

ASSUME RootAssumption == Root \in Proc
ASSUME StdAssumption ==
    /\ {Stdin, Stdout, Stderr} \subseteq File
    /\ Stdin # Stdout /\ Stdin # Stderr /\ Stdout # Stderr
ASSUME NoFileAssumption == NoFile \notin File
ASSUME MaxFdAssumption == MaxFd \in Nat /\ MaxFd >= 2
ASSUME ArgFdAssumption == ArgFd \subseteq 0..MaxFd
ASSUME FiniteAssumption == IsFiniteSet(Proc)

VARIABLES
    entries,   \* entries[p][fd]: Table.entries, NoFile where there is no key
    next,      \* next[p]: Table.next
    cloexec,   \* cloexec[p]: the fds whose Table.cloexec flag is set
    counts,    \* counts[f]: fileRefs.counts, 0 where there is no key
    opened,    \* the Files that exist: each is created by one open
    closes,    \* closes[f]: how often f.Close() has been called
    pc,        \* where the goroutine of p is
    ret,       \* where it goes on after an incr or a Close
    tab,       \* the table it is writing: its own or its new child's
    slot,      \* the descriptor number it is working on
    file,      \* the File a Close is dropping
    inst,      \* the File a Dup2 will install
    todo       \* the fds the loop it is in has still to visit

tables == <<entries, next, cloexec>>
refs == <<counts, opened, closes>>
regs == <<ret, tab, slot, file, inst, todo>>
vars == <<tables, refs, pc, regs>>

Fd == 0..MaxFd
OpenFds(p) == {fd \in Fd : entries[p][fd] # NoFile}

(***************************************************************************)
(* unborn: not forked yet; nascent: its table is being built by Clone;     *)
(* user: no call in progress; gone: exited, table emptied by CloseAll.     *)
(***************************************************************************)
Loops == {"clone", "cloexec", "closeall"}
PC == {"unborn", "nascent", "user", "incr", "decr", "shut", "install", "gone"} \cup Loops

TypeOK ==
    /\ entries \in [Proc -> [Fd -> File \cup {NoFile}]]
    /\ next \in [Proc -> 0..(MaxFd + 1)]
    /\ cloexec \in [Proc -> SUBSET Fd]
    /\ counts \in [File -> Nat]
    /\ opened \subseteq File
    /\ closes \in [File -> Nat]
    /\ pc \in [Proc -> PC]
    /\ ret \in [Proc -> {"user", "install"} \cup Loops]
    /\ tab \in [Proc -> Proc]
    /\ slot \in [Proc -> Fd]
    /\ file \in [Proc -> File \cup {NoFile}]
    /\ inst \in [Proc -> File \cup {NoFile}]
    /\ todo \in [Proc -> SUBSET Fd]

(* NewTable: stdin, stdout and stderr open, each with one reference.       *)
NewTable ==
    [fd \in Fd |-> CASE fd = 0 -> Stdin
                     [] fd = 1 -> Stdout
                     [] fd = 2 -> Stderr
                     [] OTHER  -> NoFile]

Init ==
    /\ entries = [p \in Proc |-> IF p = Root THEN NewTable ELSE [fd \in Fd |-> NoFile]]
    /\ next = [p \in Proc |-> IF p = Root THEN 3 ELSE 0]
    /\ cloexec = [p \in Proc |-> {}]
    /\ opened = {Stdin, Stdout, Stderr}
    /\ counts = [f \in File |-> IF f \in {Stdin, Stdout, Stderr} THEN 1 ELSE 0]
    /\ closes = [f \in File |-> 0]
    /\ pc = [p \in Proc |-> IF p = Root THEN "user" ELSE "unborn"]
    /\ ret = [p \in Proc |-> "user"]
    /\ tab = [p \in Proc |-> p]
    /\ slot = [p \in Proc |-> 0]
    /\ file = [p \in Proc |-> NoFile]
    /\ inst = [p \in Proc |-> NoFile]
    /\ todo = [p \in Proc |-> {}]

-----------------------------------------------------------------------------
(***************************************************************************)
(* fileRefs: the two critical sections, and the Close outside of them.     *)
(***************************************************************************)

(* The call into fileRefs returns; its registers are dead from here on.    *)
Return(p) ==
    /\ pc' = [pc EXCEPT ![p] = ret[p]]
    /\ ret' = [ret EXCEPT ![p] = "user"]
    /\ file' = [file EXCEPT ![p] = NoFile]
    /\ slot' = [slot EXCEPT ![p] = IF ret[p] = "install" THEN @ ELSE 0]
    /\ UNCHANGED <<tab, inst, todo>>

Incr(p) ==
    /\ pc[p] = "incr"
    /\ counts' = [counts EXCEPT ![entries[tab[p]][slot[p]]] = @ + 1]
    /\ Return(p)
    /\ UNCHANGED <<tables, opened, closes>>

(* decrAndMaybeClose, under the lock: one reference less, others remain.   *)
Decr(p) ==
    /\ pc[p] = "decr"
    /\ counts[file[p]] - 1 > 0
    /\ counts' = [counts EXCEPT ![file[p]] = @ - 1]
    /\ Return(p)
    /\ UNCHANGED <<tables, opened, closes>>

(* Mutation: Close is called whenever a descriptor goes, as Table.Close    *)
(* once did.                                                               *)
DecrAlwaysLast(p) ==
    /\ pc[p] = "decr"
    /\ counts' = [counts EXCEPT ![file[p]] = IF @ > 0 THEN @ - 1 ELSE 0]
    /\ pc' = [pc EXCEPT ![p] = "shut"]
    /\ UNCHANGED <<tables, opened, closes, regs>>

(* Mutation: the key is deleted but the File is never closed.              *)
DecrLastNoClose(p) ==
    /\ pc[p] = "decr"
    /\ counts[file[p]] - 1 <= 0
    /\ counts' = [counts EXCEPT ![file[p]] = 0]
    /\ Return(p)
    /\ UNCHANGED <<tables, opened, closes>>

(* decrAndMaybeClose, under the lock: the last reference deletes the key.  *)
DecrLast(p) ==
    /\ pc[p] = "decr"
    /\ counts[file[p]] - 1 <= 0
    /\ counts' = [counts EXCEPT ![file[p]] = 0]
    /\ pc' = [pc EXCEPT ![p] = "shut"]
    /\ UNCHANGED <<tables, opened, closes, regs>>

(* decrAndMaybeClose, after the unlock: f.Close().                         *)
Shut(p) ==
    /\ pc[p] = "shut"
    /\ closes' = [closes EXCEPT ![file[p]] = @ + 1]
    /\ Return(p)
    /\ UNCHANGED <<tables, counts, opened>>

-----------------------------------------------------------------------------
(***************************************************************************)
(* Table: the operations a process performs on its own table.              *)
(***************************************************************************)

(* Alloc(f): descriptor numbers only ever grow, none is used again.        *)
Alloc(p, f) ==
    /\ pc[p] = "user"
    /\ next[p] \in Fd
    /\ entries' = [entries EXCEPT ![p][next[p]] = f]
    /\ next' = [next EXCEPT ![p] = @ + 1]
    /\ slot' = [slot EXCEPT ![p] = next[p]]
    /\ pc' = [pc EXCEPT ![p] = "incr"]
    /\ UNCHANGED <<cloexec, counts, closes, ret, tab, file, inst, todo>>

(* Every open, pipe, socket and accept: Alloc of a File just created.      *)
AllocNew(p, f) ==
    /\ f \notin opened
    /\ opened' = opened \cup {f}
    /\ Alloc(p, f)

(* dup and fcntl(F_DUPFD): Alloc of a File the table already has.          *)
Dup(p, oldfd) ==
    /\ entries[p][oldfd] # NoFile
    /\ Alloc(p, entries[p][oldfd])
    /\ UNCHANGED opened

(* Mutation: Close leaves the descriptor's FD_CLOEXEC flag behind.         *)
BeginCloseKeepFlag(p, fd, k) ==
    /\ entries[p][fd] # NoFile
    /\ entries' = [entries EXCEPT ![p][fd] = NoFile]
    /\ file' = [file EXCEPT ![p] = entries[p][fd]]
    /\ slot' = [slot EXCEPT ![p] = fd]
    /\ pc' = [pc EXCEPT ![p] = "decr"]
    /\ ret' = [ret EXCEPT ![p] = k]
    /\ UNCHANGED <<next, cloexec, refs, tab>>

(* Close(fd) up to the critical section; the caller goes on at k.          *)
BeginClose(p, fd, k) ==
    /\ entries[p][fd] # NoFile
    /\ entries' = [entries EXCEPT ![p][fd] = NoFile]
    /\ cloexec' = [cloexec EXCEPT ![p] = @ \ {fd}]
    /\ file' = [file EXCEPT ![p] = entries[p][fd]]
    /\ slot' = [slot EXCEPT ![p] = fd]
    /\ pc' = [pc EXCEPT ![p] = "decr"]
    /\ ret' = [ret EXCEPT ![p] = k]
    /\ UNCHANGED <<next, refs, tab>>

Close(p, fd) ==
    /\ pc[p] = "user"
    /\ BeginClose(p, fd, "user")
    /\ UNCHANGED <<inst, todo>>

(* Mutation: Dup2 overwrites an occupied newfd without closing it.         *)
Dup2OverNoClose(p, oldfd, newfd) ==
    /\ pc[p] = "user"
    /\ entries[p][oldfd] # NoFile
    /\ entries[p][newfd] # NoFile
    /\ newfd # oldfd
    /\ inst' = [inst EXCEPT ![p] = entries[p][oldfd]]
    /\ slot' = [slot EXCEPT ![p] = newfd]
    /\ pc' = [pc EXCEPT ![p] = "install"]
    /\ UNCHANGED <<tables, refs, ret, tab, file, todo>>

(* Dup2(oldfd, newfd) on an occupied newfd: it is closed first.  With      *)
(* newfd = oldfd the call changes nothing.                                 *)
Dup2Over(p, oldfd, newfd) ==
    /\ pc[p] = "user"
    /\ entries[p][oldfd] # NoFile
    /\ newfd # oldfd
    /\ BeginClose(p, newfd, "install")
    /\ inst' = [inst EXCEPT ![p] = entries[p][oldfd]]
    /\ UNCHANGED todo

(* Dup2(oldfd, newfd) on a free newfd.                                     *)
Dup2Free(p, oldfd, newfd) ==
    /\ pc[p] = "user"
    /\ entries[p][oldfd] # NoFile
    /\ entries[p][newfd] = NoFile
    /\ inst' = [inst EXCEPT ![p] = entries[p][oldfd]]
    /\ slot' = [slot EXCEPT ![p] = newfd]
    /\ pc' = [pc EXCEPT ![p] = "install"]
    /\ UNCHANGED <<tables, refs, ret, tab, file, todo>>

(* The rest of Dup2: set the entry, count it, keep next above it.          *)
Install(p) ==
    /\ pc[p] = "install"
    /\ entries' = [entries EXCEPT ![p][slot[p]] = inst[p]]
    /\ next' = [next EXCEPT ![p] = IF slot[p] + 1 > @ THEN slot[p] + 1 ELSE @]
    /\ inst' = [inst EXCEPT ![p] = NoFile]
    /\ pc' = [pc EXCEPT ![p] = "incr"]
    /\ UNCHANGED <<cloexec, refs, ret, tab, slot, file, todo>>

(* SetCloexec, from O_CLOEXEC, F_DUPFD_CLOEXEC and fcntl(F_SETFD), each of *)
(* which names an open descriptor.                                         *)
SetCloexec(p, fd, val) ==
    /\ pc[p] = "user"
    /\ entries[p][fd] # NoFile
    /\ cloexec' = [cloexec EXCEPT ![p] = IF val THEN @ \cup {fd} ELSE @ \ {fd}]
    /\ UNCHANGED <<entries, next, refs, pc, regs>>

-----------------------------------------------------------------------------
(***************************************************************************)
(* Clone: fork copies the table entry by entry, counting each one, while   *)
(* the other processes go on; the child runs when it is complete.          *)
(***************************************************************************)
Clone(p, c) ==
    /\ pc[p] = "user"
    /\ pc[c] = "unborn"
    /\ todo' = [todo EXCEPT ![p] = OpenFds(p)]
    /\ tab' = [tab EXCEPT ![p] = c]
    /\ next' = [next EXCEPT ![c] = next[p]]
    /\ pc' = [pc EXCEPT ![p] = "clone", ![c] = "nascent"]
    /\ UNCHANGED <<entries, cloexec, refs, ret, slot, file, inst>>

(* Mutation: fork copies an entry without counting the copy.               *)
CloneEntryNoIncr(p, fd) ==
    /\ pc[p] = "clone"
    /\ fd \in todo[p]
    /\ entries' = [entries EXCEPT ![tab[p]][fd] = entries[p][fd]]
    /\ todo' = [todo EXCEPT ![p] = @ \ {fd}]
    /\ UNCHANGED <<next, cloexec, refs, pc, ret, tab, slot, file, inst>>

CloneEntry(p, fd) ==
    /\ pc[p] = "clone"
    /\ fd \in todo[p]
    /\ entries' = [entries EXCEPT ![tab[p]][fd] = entries[p][fd]]
    /\ todo' = [todo EXCEPT ![p] = @ \ {fd}]
    /\ slot' = [slot EXCEPT ![p] = fd]
    /\ pc' = [pc EXCEPT ![p] = "incr"]
    /\ ret' = [ret EXCEPT ![p] = "clone"]
    /\ UNCHANGED <<next, cloexec, refs, tab, file, inst>>

CloneDone(p) ==
    /\ pc[p] = "clone"
    /\ todo[p] = {}
    /\ cloexec' = [cloexec EXCEPT ![tab[p]] = cloexec[p]]
    /\ pc' = [pc EXCEPT ![p] = "user", ![tab[p]] = "user"]
    /\ tab' = [tab EXCEPT ![p] = p]
    /\ UNCHANGED <<entries, next, refs, ret, slot, file, inst, todo>>

-----------------------------------------------------------------------------
(***************************************************************************)
(* CloseOnExec (execImage) and CloseAll (exit): Close in a loop over a map *)
(* in the map's arbitrary order.                                           *)
(***************************************************************************)
CloseOnExec(p) ==
    /\ pc[p] = "user"
    /\ todo' = [todo EXCEPT ![p] = cloexec[p]]
    /\ pc' = [pc EXCEPT ![p] = "cloexec"]
    /\ UNCHANGED <<tables, refs, ret, tab, slot, file, inst>>

(* Mutation: exit leaves stdin, stdout and stderr open.                    *)
CloseAllButStdio(p) ==
    /\ pc[p] = "user"
    /\ todo' = [todo EXCEPT ![p] = OpenFds(p) \ 0..2]
    /\ pc' = [pc EXCEPT ![p] = "closeall"]
    /\ UNCHANGED <<tables, refs, ret, tab, slot, file, inst>>

CloseAll(p) ==
    /\ pc[p] = "user"
    /\ todo' = [todo EXCEPT ![p] = OpenFds(p)]
    /\ pc' = [pc EXCEPT ![p] = "closeall"]
    /\ UNCHANGED <<tables, refs, ret, tab, slot, file, inst>>

CloseNext(p, fd) ==
    /\ pc[p] \in {"cloexec", "closeall"}
    /\ fd \in todo[p]
    /\ BeginClose(p, fd, pc[p])
    /\ todo' = [todo EXCEPT ![p] = @ \ {fd}]
    /\ UNCHANGED inst

CloseOnExecDone(p) ==
    /\ pc[p] = "cloexec"
    /\ todo[p] = {}
    /\ pc' = [pc EXCEPT ![p] = "user"]
    /\ UNCHANGED <<tables, refs, regs>>

CloseAllDone(p) ==
    /\ pc[p] = "closeall"
    /\ todo[p] = {}
    /\ pc' = [pc EXCEPT ![p] = "gone"]
    /\ UNCHANGED <<tables, refs, regs>>

-----------------------------------------------------------------------------
(* The calls a guest program may make at any time.                         *)
Call(p) ==
    \/ \E f \in File : AllocNew(p, f)
    \/ \E fd \in ArgFd : Dup(p, fd)
    \/ \E fd \in ArgFd : Close(p, fd)
    \/ \E oldfd, newfd \in ArgFd : Dup2Over(p, oldfd, newfd)
    \/ \E oldfd, newfd \in ArgFd : Dup2Free(p, oldfd, newfd)
    \/ \E fd \in ArgFd, val \in BOOLEAN : SetCloexec(p, fd, val)
    \/ \E c \in Proc : Clone(p, c)
    \/ CloseOnExec(p)
    \/ CloseAll(p)

(* The steps that carry on a call once it has begun.                       *)
Step(p) ==
    \/ Incr(p)
    \/ Decr(p)
    \/ DecrLast(p)
    \/ Shut(p)
    \/ Install(p)
    \/ \E fd \in Fd : CloneEntry(p, fd)
    \/ CloneDone(p)
    \/ \E fd \in Fd : CloseNext(p, fd)
    \/ CloseOnExecDone(p)
    \/ CloseAllDone(p)

Next == \E p \in Proc : Call(p) \/ Step(p)

Safety == Init /\ [][Next]_vars

(* A goroutine that is inside a call is not suspended for ever.            *)
Spec == Safety /\ \A p \in Proc : WF_vars(Step(p))

-----------------------------------------------------------------------------
Desc == Proc \X Fd

(* The descriptors that refer to f, in whichever table they are.           *)
Refs(f) == {d \in Desc : entries[d[1]][d[2]] = f}

Life == INSTANCE FileLifetime WITH
    Held0   <- [f \in File |-> {d \in Desc : d[1] = Root /\ NewTable[d[2]] = f}],
    holders <- [f \in File |-> Refs(f)],
    life    <- [f \in File |-> IF closes[f] > 0 THEN "closed"
                               ELSE IF f \in opened THEN "open" ELSE "new"]

(***************************************************************************)
(* The descriptors whose reference is in counts[f]: those that refer to f  *)
(* and have been counted, and those already removed from their table and   *)
(* not yet discounted.                                                     *)
(***************************************************************************)
Uncounted(q, fd) == \E p \in Proc : pc[p] = "incr" /\ tab[p] = q /\ slot[p] = fd
Owed(q, fd, f) == pc[q] = "decr" /\ slot[q] = fd /\ file[q] = f
IsCounted(q, fd, f) == (entries[q][fd] = f /\ ~Uncounted(q, fd)) \/ Owed(q, fd, f)
Counted(f) == {d \in Desc : IsCounted(d[1], d[2], f)}

(* Safety.  fileRefs.counts[f] is the number of table entries, over all    *)
(* the processes, that refer to f, at every point between two steps.       *)
CountsAreReferences == \A f \in File : counts[f] = Cardinality(Counted(f))

(* Safety.  No descriptor of any process refers to a File whose Close has  *)
(* been called, and Close is never called twice.                           *)
NeverClosedInUse ==
    \A f \in File : closes[f] <= 1 /\ (closes[f] = 1 => Refs(f) = {})

(* Safety.  A descriptor flagged FD_CLOEXEC is open, so CloseOnExec never  *)
(* meets a stale flag and a number reused by dup2 starts without one.      *)
CloexecIsOpen == \A p \in Proc : cloexec[p] \subseteq OpenFds(p)

(* Action property.  No step puts a File where another one is: neither the *)
(* number Alloc takes nor the one Dup2 installs is in use, so no reference *)
(* is lost without being discounted.                                       *)
NoClobber ==
    [][\A p \in Proc, fd \in Fd :
          entries[p][fd] # NoFile => entries'[p][fd] \in {entries[p][fd], NoFile}]_vars

(* Refinement, safety.  Whatever the goroutines do, a File is opened,      *)
(* shared, dropped and closed as FileLifetime allows: closed once, after   *)
(* the last descriptor of any process has gone.                            *)
LifetimeSafety == Life!LifeSafety

(* Refinement, liveness.  A File nobody refers to any more is eventually   *)
(* closed.                                                                 *)
ImplementsLifetime == Life!LifeSpec

(* Liveness.  A process that exits ends up with an empty table.            *)
ExitEmptiesTable ==
    \A p \in Proc : pc[p] = "closeall" ~> (pc[p] = "gone" /\ OpenFds(p) = {})
=============================================================================
