# golinux: a verification project

golinux runs an x86-64 Linux binary without a kernel: its own CPU engine
executes the machine code, every SYSCALL instruction traps into Go, and the
calls are served from a virtual file system, a descriptor table and a registry
of processes. This directory holds TLA+ models of the parts whose correctness
depends on order (of goroutines, of stores and fetches, of host calls and
crashes) or on arithmetic at its edges (the instructions, the address space),
the TLC runs that check them on small instances, and TLAPS proofs of the main
safety properties for instances of every size.

Run a check with `tlc -config <file>.cfg <MC module>` and the proofs of a module
with `tlapm <module>.tla`, for `DescriptorProofs` (the tables and the pipelines),
`ProcTreeProofs`, `CodeCacheProofs`, `CpuProofs`, `SidecarProofs`,
`VfsTreeProofs`, `PollSelectProofs` and `AddressSpaceProofs`.

## 1. The system

| Part | Where | State | Operations | What is hard |
|---|---|---|---|---|
| Descriptor tables | `internal/fds` | per process: `entries`, `cloexec`, `next`; shared by all: the reference count of every `File` | Alloc, Close, Dup, Dup2, Clone, CloseOnExec, CloseAll, SetCloexec | a File is shared by processes that are goroutines; the count's lock is dropped before the File is closed |
| Processes | `internal/emulator`, `syscalls/fork.go`, `exit.go` | `childrenOf`, `nextChildPid`, one `childRecord` per child (pid, exitCode, done channel, reaped) | doFork, exit, Wait4 | a child is a goroutine; Wait4 polls, then selects over many channels; a child can end in an error |
| Guest memory | `internal/cpu/memory.go` | pages, protections, `codeDirty` | MemMap, MemUnmap, MemProtect, MemWrite, the checked copies | partial writes, accesses across pages |
| Engine | `internal/cpu/cpu.go`, `block.go` | registers, `decodeCache`, `blockCache`, `cachedBlock`, generation | EmuStart, EmuStop, Clone, compileBlock, executeBlock | self-modifying code, code whose mapping changes in a system call, blocks that overwrite themselves |
| Instructions | `internal/cpu` (decode, twobyte, exec, sse, vex, flags, operand, modrm, registers) | general and vector registers, flags, memory; what a decoded closure has captured | one closure per opcode | widths, flags and saturation at their edges, instructions that fault halfway, closures that are executed again from the cache, the tag that sends an instruction to a hook instead |
| x87 | `internal/cpu/x87.go` | a stack of eight registers | one function per opcode | conversions to and from 80 bits |
| VFS metadata | `internal/vfs` | one JSON sidecar per host directory, rewritten whole | loadSidecar, saveSidecar, reconcile, register, unregister, SetMeta | goroutines share the directory without a lock; the emulator can be killed at any time and the root is used again |
| VFS tree | `internal/vfs`, `syscalls/dir.go`, `fs_meta.go` | host tree plus sidecars | mkdir, rmdir, create, unlink, rename, link, symlink, O_TMPFILE | two stores (host entry, sidecar) must agree |
| Mounts | `internal/vfs`, `syscalls/mount.go` | the mount table and its file | mount, umount, refresh | several emulators share the file |
| Address space | `emulator.DoBrk/DoMmap/DoMunmap/DoMprotect` | `brkStart`, `brkCur`, `brkMappedEnd`, `mmapNext`, the protection of every page | brk, mmap, munmap, mprotect | rounding and wrapping of addresses; calls whose regions meet |
| Loader | `internal/elfload`, `emulator.Load`, `execImage` | the pages it maps | segments, relocations, stack | segments that share a page, failures halfway |
| Waiting | `syscalls/poll.go`, `select.go` | none; the host's poll does the waiting | poll, ppoll, select, pselect6 | time-outs against events, descriptors that never block among those that do |
| Other calls | `internal/syscalls` | credentials, cwd, umask; sockets are the host's | about 138 handlers | time-outs, partial transfers, error paths |
| Devices, procfs, time, ioctl | `internal/devices`, `internal/procfs`, ... | none | text and constants | `/dev/tty` keeps Files it does not count |

How the parts meet: `EmuStart` runs in one goroutine per guest process. A
SYSCALL traps into `onSyscall`, which dispatches to a handler; handlers use the
process's own descriptor table, the shared reference counts, the shared VFS
object and, for fork, exit and wait, the shared registry. `fork` clones memory,
engine and table and starts a goroutine for the child. A File's `Close` ends a
pipe for whoever reads it, which is how a mistake in the counts of one process
becomes a hang of another. The handlers write guest memory (`MemWrite`,
`MemMap`, ...), which is how system calls reach the engine's caches.

What makes each part correct:

- *tables*: a File is closed exactly once, after its last descriptor; no
  descriptor refers to a closed File; an exit releases everything.
- *processes*: a child is reaped once, by its own parent, with its own exit
  code; wait4 answers truthfully and a blocked one returns.
- *pipelines*: the reader gets every byte and then end of file; everything ends.
- *engine*: with caches it executes what a machine without caches executes.
- *sidecars*: what a completed call left is what the next call finds.
- *tree*: host tree and sidecars stay together; a call changes what is under its
  own names only, and nothing if it fails.
- *waiting*: what is reported as ready can be done without blocking; an empty
  answer means that the time is over; an event loop makes progress.
- *address space*: what the process was granted is mapped until it unmaps it;
  nothing is mapped over what is there unless the call says so.
- *instructions*: flags, widths, addresses and lanes mean the same to every
  instruction that uses them; an instruction that faults can be accounted for.

## 2. Modules

| Module | Models |
|---|---|
| `FileLifetime` | abstract: the life of an open file, without counts |
| `FdTable` | `internal/fds` `Table` and `fileRefs`, one action per step between two lock operations |
| `WaitSpec` | abstract: fork, exit and wait4 as a guest program sees them |
| `ProcTree` | `doFork`, the child's goroutine, `Wait4`, `waitAnyChild` |
| `ProcTreeProofs` | theorems about `ProcTree` |
| `Pipeline` | `writer \| reader` under a shell, composed from `FdTable`'s actions |
| `DescriptorProofs` | theorems about `FdTable`, and from them about `Pipeline` |
| `GuestMemory` | `internal/cpu/memory.go` |
| `PlainCpu` | abstract: a machine that fetches every instruction from memory |
| `CodeCache` | `EmuStart`'s loop, the decode cache and the block cache |
| `CodeCacheProofs` | theorems about `CodeCache` |
| `Sidecar` | one directory's sidecar: load, heal, change, save |
| `SidecarProofs` | theorems about `Sidecar` |
| `VfsTree` | the tree: host directories and files, and the entries in the sidecars |
| `VfsTreeProofs` | theorems about `VfsTree` |
| `PollSelect` | poll, ppoll, select and pselect6 under an event loop |
| `PollSelectProofs` | theorems about `PollSelect` |
| `AddressSpace` | `Load`, `execImage`, brk, mmap, munmap, mprotect, as far as they map pages |
| `AddressSpaceProofs` | theorems about `AddressSpace` |
| `Words` | fixed-width words and vectors, over bytes of `ByteBits` bits |
| `CpuState` | registers, operands, ModRM and SIB, the tags of instructions, checked accesses to memory |
| `IntegerCpu` | the general-purpose instructions |
| `VectorOps` | what the SSE helpers compute, lane by lane |
| `SseCpu`, `AvxCpu` | the SSE instructions; the closures of the VEX-encoded ones |
| `Cpu` | the engine that executes them: one action per group of opcodes, and the hooks |
| `CpuProofs` | theorems about `Cpu` and about the operators of `IntegerCpu` |
| `GuestCode`, `IntegerLaws`, `VectorLaws` | guest programs and what must hold when they have run |
| `MC*` | instances for TLC |

**FdTable.** `entries[p]`, `cloexec[p]` and `next[p]` are a table; `counts[f]` is
`fileRefs.counts`; `closes[f]` counts the calls of `f.Close()`. Every call is
cut where the code releases a mutex: `Dup` puts the entry into the table and
then counts it, `Close` removes the entry, then decrements, then, outside the
lock, closes the File if the count reached zero. The cuts are the program
counter `pc[p]`; `Step(p)` is what a goroutine inside a call does next. `Clone`
works on the child's table entry by entry, which is why the goroutine has a
`tab[p]`. The kinds of File are not told apart.

**ProcTree.** `AllocChildPid`, `Register` and `Spawn` are the three locked
sections of `doFork`; `SetExitCode` and `CloseDone` are the last two steps of a
child's goroutine, `Fail` the error return of `Run` (exit code 128). `Wait4`
takes its list of candidates under the lock; `PollPending` and `PollDone` look
at one done channel each; `Block` and `WaitAnyChild` are the select. The codes
are kept as the code masks them (`& 0xff`), the status in bits 8-15.

**Pipeline.** Three programs, each a fixed sequence of calls, run `FdTable`'s
actions; the pipe itself is the host's (a count of bytes with a capacity), and
it reports end of file when `FdTable` has closed its write end. `Fault` is a
`Run` that returns an error: the goroutine ends, wait4 will see it, and no
`CloseAll` runs.

**GuestMemory, CodeCache.** An address holds a unit; an instruction is one or
two units, so that it can straddle a page; what an instruction computes is left
open (it may store up to two units anywhere, and a branch may go anywhere),
which covers every instruction of the engine. `mode` is where the fetch loop
is; a hook may change memory and mappings before it returns. `Clone` follows
the child of a fork. The bound `MaxGen` limits how often the caches are
dropped, and with it the stores that do so.

**Sidecar.** A sidecar is a map from names to entries; the three paths that can
hold one (`.golinux_meta`, its `.tmp`, the legacy name) point to host files, and
a goroutine's open file stays open when its path is renamed. A call runs
`GetMeta` (load, list, perhaps save), decides, changes the host file, loads
again, changes its entry and saves (truncate, write, rename). `create` is
`openCommon` with O_CREAT, with its second lookup and its `os.OpenFile`;
repeated lookups that change nothing are one. Directories, mounts and the entry
of the directory itself are not in the model.

**VfsTree.** `host[p]` is what the host has under a path, `side[p]` its entry in
the sidecar of its directory, `has` the directories that contain a sidecar file,
`tmp[t]` an O_TMPFILE handle, `res` how the last call ended. A lookup heals
(`Healed`): that is part of every call, so each action says which directories
it has looked into. An entry has a type and a mode, given by a call or by
healing. What the guest sees is `View(p)`: the entry a lookup would find, and
the content. Calls are atomic here (one goroutine); what happens inside one
sidecar is `Sidecar`'s subject. Paths with symbolic links in them are resolved
before the calls modelled here and belong to the planned module on paths.
`NewPath` bounds the names that calls may give to something new, `Fits` keeps
renames inside `Path`. The guest does not give a name that `os.CreateTemp` has
made up (`PathAssumption`).

**PollSelect.** The guest is an event loop over sockets and pipe ends: `tosend`
and `eof` are what it has still to do, `toRead` and `toWrite` what the last
answer told it is ready. `Call` is `doPoll` or `doSelect` up to the host's poll,
`HostPoll` its return and the answer; in between the other ends send, receive
and close, and time passes (`elapsed`). `Conditions` is the host's poll(2).
`Interrupted` is a signal, which poll reports and select ignores, and
`WriteBackFails` an answer that does not fit into guest memory; both are bounded
by `MaxUpsets`. `res` keeps the last answer with what it was an answer to.

**AddressSpace.** `perm[a]` is the protection of page `a`, or `None`;
`mmapNext`, `brkStart`, `brkCur` and `brkMappedEnd` are those of `Process`. The
code tells the first byte of a page from its other bytes and no more, so a page
is two addresses; sums wrap at the top of the address space as those of uint64
do, and a loop whose end wraps visits nothing (`Loop`). `MapSegment`, `LoadDone`
and `LoadFails` are `Load`: segments that share a page, an interpreter, a stack
that does not fit, a file that cannot be read. `ExecImage` starts again with a
new engine. `given`, `holes` and `wrapped` are history: what the guest was
granted, what it has unmapped, and whether a call was granted a range that
wraps. The contents of pages are not in the model.

**Words to Cpu.** An instruction is the record of what its bytes say (prefixes
and REX bits, ModRM and SIB, displacement, immediate) and is one address long;
the fetch of its bytes and the order of its prefixes are left out. A machine is
the record of one engine. An operator such as `AluRm`, `Shift` or `SsePacked`
takes a machine and an instruction to the machine after it, as the closure that
the decoder returns does, with its reads, faults and early returns in the order
of the code; `err` is what it returned, `panic` included. `Cpu` gives each group
of opcodes an action. The closures are the same for every execution but for
those of BT, BTS, BTR and BTC, which assign to what they have captured: `bt` is
that state. Every opcode the decoder accepts is there except the x87 ones and
those without effect (prefetch, NOP).

EmuStart looks at the tag of a decoded instruction (`insnID`) before it thinks
of the closure, and so does `Cpu`: with `noInsnHook` the closure is executed
(`Step`), with another tag the hook of that name (`HookStep`), or the engine
stops because there is none. What the hooks do is open: `SyscallReturns`,
`SyscallMaps` and `SyscallStops` may set RAX and the FS base, write into mapped
pages whatever their protection, map and protect pages, or stop the engine;
`CpuidReturns` sets its four registers. `Decoded` gives the tags as the decoder
does: SYSCALL and CPUID have their own, and every VEX instruction has that of
SYSCALL, because `vexFinish` leaves it 0 (`decode.go:231-233`). A VEX
instruction is therefore a system call in this model, as it is in the engine;
the operators of `AvxCpu` are what its closure would do, and no action applies
them.

**GuestCode, IntegerLaws, VectorLaws.** The programs are short sequences of
instructions with operands at the edges of their width, each with the
instructions whose agreement compiled code relies on: a comparison and the
branches on its flags, the two halves of a wide sum, a product and the division
that undoes it, a copy loop that runs into a page it may not write, an SSE
instruction and the closure of its VEX form. A property compares the machine at
the end of a program with the machine it started from, by integer arithmetic or
by another instruction, never by the code's own bit operations.

## 3. Runs

| Run | Instance | Shows |
|---|---|---|
| `fd_tables` | a parent and a child, one File beyond stdio, descriptors 0-3 | exact counts between any two steps, no closed File in use, close-on-exec flags only on open descriptors, no entry overwritten without a close; the tables implement the safety part of `FileLifetime` |
| `proc` | a tree of three processes, exit argument 257 (which `& 0xff` masks to 1), wait for any child or for the first | wait4 reaps an ended child of the caller, once, with its code; pids are unique; a WNOHANG wait misses no child that had ended; all of it implements `WaitSpec`; a blocked wait4 returns when a matching child has ended |
| `pipeline` | 3 bytes through a pipe of capacity 1; the reader wants 1 or more than all; the writer may die | no early end of file; without a death all three processes end and every File is closed; a death is always noticed; an exit empties its table and every File is closed after its last descriptor (`FileLifetime` with its liveness) |
| `pipeline_fault` | the same, reader wants everything | **violated**: see below |
| `code` | 2 pages of 2 units, branches of 2 units, protections wx and w, blocks of 2, with and without blocks | nothing stale in a cache while `codeDirty` is clear; a block executes the instruction at rip; the engine implements `PlainCpu` |
| `sidecar` | two goroutines, 2 names (one ends in `.tmp`), every kind of call, 2 kills | while no two calls have overlapped, a completed call is never undone or torn, kills included; no temporary file survives, overlapping calls included |
| `sidecar_race` | two goroutines that only look names up | **violated**: see below |
| `vfs_tree` | two directories with one name each (a file, a directory or a link), two contents, one O_TMPFILE file | a seen directory is a host directory, and a seen regular file a host file unless O_TMPFILE was used; a call has only local effect; a failure is clean; a rename moves the whole subtree |
| `poll_select` | loops over two of a socket and two pipe ends of capacity 1, any of the four calls, with a file, a device, a closed or a negative descriptor among those watched | what is reported can be done without blocking; an empty answer means that the time is over; a call with a time-out or with something ready returns; the loop ends |
| `cpu` | bytes of 2 bits, 4 pages of 16 bytes (one not mapped, one read-only), hooks that return 0 or 5 and touch page 1, 35 families of programs | conditions, carries and signs (`FlagsTell`), products, shifts and scans (`BitsAgree`), addresses, partial registers, locked updates and the stack (`OperandsAgree`), string instructions that end, stop or fault (`StringsStop`), vector lanes (`LanesAgree`), floats with NaN (`FloatsAgree`); an SSE instruction keeps the upper halves, and all registers if it faults; the closures of VEX instructions, applied to the machine where one is next, do what the SSE forms do, treat both halves alike and fail cleanly (`VexClosuresAgree`) |
| `cpu_vex` | the programs with VEX instructions, hooks installed | **violated**: see below |
| `address_space` | 10 pages, an arena of 2, 4 images (with a shared page, an interpreter, one in the stack's way), arguments that round and that wrap | what was granted and not unmapped is mapped; neither brk nor mmap without MAP_FIXED touches a mapped page |

Why the bounds suffice. In the tables and the process tree the hard cases need
two actors and one shared object, which the instances have. The theorems below
lift the safety part of every passing run to any size, but for seven laws of
`cpu`, so that the bounds matter for liveness and for what the instructions
compute; elsewhere they let TLC find a violation quickly. For the engine: two
pages show every straddling access, blocks of two or three units show a block
that overwrites its rest, one slot shows two blocks competing for it, and two
generations show a stale block that meets its slot again. For the sidecar: one
kill can fall between any two host calls, a second one into the recovery from
the first; two names show that a call on one loses nothing of the other. For the
tree: two levels and two directories show a rename within a directory, between
two, of a directory with its content, and every operation below a name that is a
file, a directory, a link or nothing. For the address space: image, heap, arena
and stack, each with a page that another call may take, and arguments inside a
page, at its end, and past the top. For the instructions: every width, mask,
sign bit and count mask is derived from `ByteBits`, so that 2 keeps all the
edges of the real widths (words of 2, 4, 8 and 16 bits) and makes all of them
reachable. For the event loop: two bytes through a capacity of one make it wait
for room, and two descriptors make it wait for one while the other is ready.

The type invariants are not among the runs' properties: those of `FdTable`,
`ProcTree`, `CodeCache`, `Sidecar`, `PollSelect` and `AddressSpace` are proved,
and those of `Pipeline` and `VfsTree` are part of their inductive invariants
(`PInv`, `Typed`).

Named bounds: `MaxGen` in `CodeCache` limits how often the caches are dropped.
`Together` in `Sidecar` names the kinds of calls that may overlap another, and a
kill happens only while none has overlapped: what two overlapping saves leave is
the subject of `sidecar_race`. A REP loop of `IntegerCpu` ends after one
iteration more than there are bytes, which no run reaches. `CallResults` and
`CallPages` of `Cpu` are the values a hook puts into a register and the pages a
system call touches: two values tell a result from a register that was kept, and
one page, which programs load from and store to, shows memory and permissions
that change under a program. A float is a number
of halves with one NaN: infinities, signed zeros, subnormals and the rounding
of sums are not in the model. With two bits to a byte the sum of PSADBW and the
mask of PMOVMSKB do not fit and are truncated; the laws about them take that
into account.

Symmetry is used only in runs without liveness. Deadlock checking is off where
the programs end: processes exit, an engine halts, a bound is used up.

Every property of a passing run has a mutant in `PROJECT.json`, a plausible bug
in the code that makes TLC find it violated.

### Disagreements between code and comments

- `pipeline_fault`: a guest process that ends in a fault (or whose execve
  cannot load its image) keeps its references, because only the exit calls run
  `CloseAll`. `fds.go:479-490` describes the consequence as a bug that was
  fixed: "leaving the reader side blocked in read() forever waiting for an EOF
  that can now never arrive". The run shows it for the error path.
- `sidecar_race`: the goroutines of a fork tree share one VFS, `saveSidecar`
  uses one temporary name and nothing is locked. Two lookups that heal the same
  directory suffice to make the sidecar empty for a moment; a symbolic link,
  which exists only in the sidecar, is then not found, and a goroutine that
  heals at that moment saves the loss.
- `cpu_vex`: `vexFinish` makes the decoded record of every VEX instruction
  without an `insnID` (`decode.go:231-233`), which leaves 0, `InsSyscall`
  (`cpu.go:150-153`). `compileBlock` stops in front of it (`block.go:62`), and
  EmuStart runs the SYSCALL hook in place of its closure and sets RIP past it
  (`cpu.go:498-511`): the guest gets a system call it did not make, with
  whatever number is in RAX, and its vector registers stay as they were.
  `decode.go:15-17` says that `insnID` is "InsSyscall/InsCpuid for those two
  instructions [...] and -1 for everything else". The tests of the vector
  instructions call the helpers and `decodeVEXPrefix`, never EmuStart, and
  `onCpuid` hides AVX from programs that ask. The run finds a step in
  which the hook of SYSCALL is taken at a VEX instruction, and what it leaves is
  not what the closure would have left.

No run is about the following; the models have them as the code does.

- *BT with a register*: the closure of BT, BTS, BTR and BTC moves its captured
  operand to the word that holds the bit (`twobyte.go:281-303`) and clears its
  RIP-relative flag; the next execution from the decode cache starts from there,
  although `operand.go:20-28` says that such an address "must be resolved fresh
  on every call" and `cpu.go:245` that "exec closures are stateless". The
  property is `CachedAsFresh`; `tlc -config Cpu_bt.cfg MCCpu` shows a loop of
  BTS over a RIP-relative bitmap that violates it.
- *files and processes*: `Rmdir` leaves the removal to `os.Remove`, which fails
  because of the sidecar in the directory, so that a directory in which a name
  was registered and removed again can never be removed, although the comment
  says "Rmdir removes an empty directory" (`Removable` in `VfsTree`); a rename of
  a name to itself removes its entry; an O_TMPFILE file, "invisible to the
  guest", gets an entry from the first lookup in its directory, and that entry
  outlives the file; the registry keeps reaped children although its comment
  says it holds "live + unreaped zombies", and so grows with every fork;
  `reconcile` skips names that end in `.tmp` although its comment says no file
  is left invisible.
- *waiting*: `doSelect` turns the negative wait of a call without a time-out into
  0 (`select.go:239`), so it returns 0 at once and a guest that loops on it spins,
  although `select.go:60` says "NULL means "block forever"" (`HostWait` in
  `PollSelect`); poll with entries that are all negative, and select with nothing
  to poll, return at once whatever their time-out; a descriptor in both sets of
  a select is reported in one; select passes over closed descriptors and
  devices, and answers an interrupted wait like one whose time is over.

The instruction modules follow the code where it differs from the processor;
the programs of the laws stay within what the code does promise. Met on the way:

- *integer*: the 64-bit IDIV divides by one word only and a signed quotient that
  does not fit is truncated; the 8-bit MUL, IMUL, DIV and IDIV use DL where the
  processor uses AH; CMPXCHG sets the flags of destination minus accumulator;
  SHLD and SHRD mask their count by the operand's width; flags are set, and the
  register of XADD and the stack pointer of LEAVE written, before a store or
  load that may fault; string instructions ignore a segment override, and a
  RIP-relative operand too; BT on a memory operand with base or index drops the
  byte offset of the bit number.
- *SSE*: PALIGNR with a count of 17 to 31 panics in Go; SQRTSS, RSQRTSS and
  RCPSS take their source from the destination; scalar memory operands are read
  as 16 bytes; PEXTRB and PEXTRW store four bytes and PINSRB reads four;
  UNPCKL/H and MOVMSK ignore a read that faults; the register forms of MOVHLPS
  and MOVLHPS access address 0; packed shifts use the low byte of their count; a
  MOVAPS store needs read permission; a MOVSS load keeps the upper lanes.
- *AVX*, of the closures that are not called: VADD and VSQRT of 256 bits repeat
  the low half; VMOVSS and VMOVSD copy 16 bytes; the 256-bit integer operations
  clear the upper half, although `registers.go:25-26` says that they write the
  full register; VPERM2F128 and VINSERTF128 accept a 128-bit length.
- *address space*: a break in the last page is granted without being mapped;
  mmap of a length that wraps maps nothing and moves `mmapNext` back; a break
  that goes up below `brkMappedEnd` after an munmap succeeds over a hole; a
  break that comes down keeps its pages; the arena is never used again.

What the properties do not see, though the models have it: `BitsAgree` checks
quotients that fit and says nothing of one that does not; `ZeroMeansTimedOut`
exempts the negative wait of a select, `EntryHasHost` the regular files once
O_TMPFILE was used, `PromisedIsMapped` everything after a range that wrapped and
the pages the guest itself unmapped; `AckedKept` says nothing of a host file
whose name ends in `.tmp` and which no call has registered.

## 4. Fairness

- `FdTable`: weak fairness of `Step(p)`, the steps inside a call. The guest need
  not make calls; a goroutine inside one is run by the Go scheduler and its
  locks are held only for a few statements.
- `ProcTree`: weak fairness of `Running /\ Step(p)`: the steps inside a call and
  the end of a goroutine, as long as the main process runs. A guest that never
  exits is allowed.
- `Pipeline`: weak fairness of every goroutine, guest steps included, because
  the three programs are finite and do not loop.
- `PollSelect`: weak fairness of time, of the host's poll, of the guest's reads
  and writes and of its next call. That the loop ends is claimed only if the
  other ends are fair, too: they are not the emulator's.
- `CodeCache`, `Sidecar`, `VfsTree`, `Cpu` and `AddressSpace` have safety
  properties only: their specifications state no fairness.

## 5. Proofs

All theorems hold for every value of the constants that satisfies the named
assumptions of the modules: any finite set of processes, any set of Files, any
number of descriptors from 3 up; any number of pages, any layout of them, any
instruction set and any size of the caches; any number of goroutines, names and
kills; any set of paths that contains what is above a path; any finite set of
descriptors to wait for; any programs, and bytes and pages of any size. Each
module proves that its `IInv` (`PInv` for the pipeline, `CpuInv` for the
instructions) holds initially and is kept by every action, and derives the
properties from it. TLC finds each of these invariants to hold on the instance
of its component's run, too (an MC module that extends the proof module).

`DescriptorProofs`, on the tables: `TypeCorrect`, `CountsCorrect`,
`ClosedOnlyWhenUnused`, `CloexecCorrect`, `NothingClobbered`, `Refinement` (the
tables implement the safety part of `FileLifetime`), `NoLeaks` and `AllClosed`.
The counts alone are not inductive: that a count is exact says nothing about a
goroutine that is about to count a File somebody else is closing. `IInv` adds
what holds at each point of a call:

- `ControlInv`: who owns which table while a fork copies one;
- `TableInv`: `next` is above every number in use, the entry a call is about is
  (or is not) in the table, the copied part of a clone equals the original;
- `SourceInv`: a File that is about to be counted is held by another descriptor
  of the same process, or is new and known to nobody else; this is the fact that
  makes the unlocked gap harmless;
- `FileInv`: a File that is closed, or about to be, is in no table and nobody is
  dropping it.

`CountsAreReferences` equates a count with the cardinality of a set of
descriptors; each action adds one element to that set or removes one, so its
proof needs the set to be finite, hence a finite set of processes.

`NoLeaks` is the converse of `NeverClosedInUse`, and the safety part of the two
liveness properties `ImplementsLifetime` and `ExitEmptiesTable`: a File that was
opened is closed, or some process has a descriptor of it, or a goroutine is just
giving up its last one; and an exited process has no descriptor. Its invariant
`LeakInv` is proved beside `IInv`: `ExitAt`, what a process that exits has open
is still among what `CloseAll` has to visit, and `HeldAt`. The step that could
break it is a `Decr` that keeps the File open; that another descriptor is left
then is the exactness of the counts. `AllClosed` follows: once the whole tree
has exited, every File it opened has been closed.

`ProcTreeProofs`: `TypeCorrect`, `ReapedOnce`, `StatusCorrect`,
`RegistryCorrect`, `NoZombieMissed` and `Refinement` (fork, exit and wait4
implement `WaitSpec`). `IInv` adds: a record between its allocation and its
registration belongs to one fork (`ForkInv`); lists are disjoint and complete
(`ListInv`); the counter bounds the pids (`PidInv`); the code is stored before
the channel is closed (`DoneInv`); a candidate that had ended when the list was
taken has not been passed over, and nobody else can reap it (`WaitInv`); an
answer names a reaped child with its code (`AnswerInv`).

`AddressSpaceProofs`: `TypeCorrect` (every sum that wraps stays in range),
`PromisesKept` (`PromisedIsMapped`) and `FreshPages` (`NewPagesAreFresh`).
`PromisedIsMapped` is not inductive: a break that goes up again inside
`brkMappedEnd` maps nothing, so `IInv` says that all pages up to `brkMappedEnd`
are mapped or were unmapped by the guest (`HeapOK`); that mmap hands out pages of
the arena needs that its next page never falls below its base (`ArenaOK`); and
that the loader's sums do not wrap needs the images to lie in the address space
(`ImagesAssumption`, kept for the segments still to map by `PlacedOK`). The last
three are claimed only while no call was granted a range that wraps: then
`MemMap` maps nothing and reports success, and the promise is void.

`DescriptorProofs`, on the pipelines: `PipelineUsesTables`, every step of
a pipeline is a step of the tables or leaves them alone, so that all theorems
about `FdTable` hold of it; and `EofIsNotEarly` (`NoEarlyEof`). The tables say
that a File is not closed while a descriptor refers to it; what has to be added
is that somebody on the writer's side refers to the write end at every moment.
`PInv` says so: `ShellTable` for the shell until it has forked the reader,
`Forking` for the child whose table is being copied, `ChildTable` for a child,
through the moment in which `Dup2` has taken descriptor 1 out and not yet put it
back; `NoCloexec`, that execve closes nothing of it; `Flow`, that no byte is
lost and that a writer that is done has written everything or has lost its
reader. `PipelineAssumption` asks for two different children and two different
ends of the pipe.

`CodeCacheProofs`: `TypeCorrect`, `CachesAreCurrent` (`CachesCurrent`),
`BlockAtRip` (`BlockFollowsRip`) and `Refinement` (`ImplementsPlain`). The
caches may hold anything stale while `codeDirty` is set, and dropping them keeps
the block cache and only moves the generation. So `IInv` separates the shape of
a block, which never depends on memory (`CacheShape`: its instructions follow
one another, only the last is a branch, none is a hook's, its generation is not
ahead), from its freshness (`CacheFresh`: while `codeDirty` is clear, what is in
the decode cache, and every block of the current generation, is what memory
holds). `LoopOK` says that the loop has polled `codeDirty` before it looks up,
compiles or executes, and where compilation and execution have come to. With
that, every step of a block is the step of `PlainCpu` at rip, and looking up,
compiling and invalidating are stutters. The argument about stores is the lemma
`CopyKeepsCode`: a copy that changes an instruction, by either of its units,
sets `codeDirty`.

`SidecarProofs`: `TypeCorrect`, `NothingLost` (`AckedKept`) and `NoTmpFile`
(`NoTmpLeft`). `TmpOwned` holds whatever overlaps: without a kill, a temporary
file belongs to a save in progress. The rest is claimed while no two calls have
overlapped, as `AckedKept` is: `MemoryOK`, how the map in memory relates to the
one on disk at each step of a call (equal, healed, or changed at one name);
`TmpOK`, the temporary file is torn and then holds that map; `FilesOK`, it is
never the sidecar itself and no link's name has a host file, which is why
healing adds and does not overwrite; `EntryOK`, what the call has found out about
its name. A kill at any point then leaves the sidecar of before or of after.

`VfsTreeProofs`: `TreesAgree` (`EntryHasHost`), `FailuresAreClean`
(`FailureIsClean`), `EffectsAreLocal` (`LocalEffect`) and `RenamesMove`
(`RenameMoves`). `EntryHasHost` is not inductive. `Rooted` adds that everything
above a host entry or a sidecar entry is a host directory: without it a rename
could move a subtree whose parent is not one. `InSidecar` adds that a directory
with entries has a sidecar file, so that `os.Remove` of a directory, which needs
it to be empty on the host, loses no entry. `TmpIsFile` adds that the name of an
open O_TMPFILE file is no directory's; that needs `PathAssumption`. The lemmas
about paths (`WithinLinear`, `ChildTowards`, `FromKeepsBelow`, `FromParent`)
carry the rename. The three action properties compare `View` before and after a
step; healing and `os.MkdirAll` are treated once (`HealedSeen`, `MadeSeen`) and
used for every call.

`PollSelectProofs`: `TypeCorrect`, `ReportsHold` (`ReportedIsReady`) and
`ZeroIsTimeout` (`ZeroMeansTimedOut`). A report must not be undone between the
answer and the guest's use of it: the other end only ever makes a descriptor
more ready. The invariant adds `AskedIsNeeded`: a call that waits asks only for
what the guest still needs, and nothing of the last answer is left over. That 0
means that nothing was ready needs finitely many entries (`KindAssumption`, which
also says that a number with a host descriptor is of no other kind).

`CpuProofs`: `CpuInvariance`, `UpperHalvesKept` (`UpperHalves`),
`VectorFaultsClean` (`VectorFaultIsClean`), `StoresPermitted`, `FilesApart` and
`VexClosuresLeave`, of every program, of memory of any size and of bytes of any
number of bits. The invariant is small (`CpuInv`: the program is one of `Runs`,
a machine keeps its fields and its registers); the work is a frame argument over
the hundred operators of the three instruction modules. `Only(s, n, fs)` says
that `n` differs from `s` in the fields `fs` and in bytes that `s` may write; a
lemma per operator says what its handler leaves alone, from the lemmas of
`CpuState`'s reads and writes upwards (`writeOperand`, `writeXMM`, ...), and the
action's property is read off. Every theorem says which instructions it is
about. The first two are about SSE instructions. `StoresPermitted` is about
instructions that are executed by their closures: a system call writes where it
likes, and so may a VEX instruction. `FilesApart` is about all: nothing moves
the GS base and no closure the FS base, a hook leaves the flags alone, an SSE
instruction that succeeds goes on to the next one, and only SSE instructions
change a vector register or MXCSR, so that no VEX instruction ever does, which
is the bug of `cpu_vex` for every program. `VexClosuresLeave` is about the
closures the engine does not call, as functions (`VexLeaves`): they change upper
halves of the registers they name only, clear that of a 128-bit result, and
change no register when they fail. `RunsAssumption` is what the decoder
guarantees: the machine of a program is one, and an instruction is of one of the
forms that its handler tells apart (`Decoded`). Two handlers ignore the length
bit, of encodings the processor does not have (`Always256`); they are excepted
where the closure of a 128-bit form is to clear the upper half.

The other theorems of `CpuProofs` are about the operators, for all operands:

- `SumFlags` and `DifferenceFlags`: ADD, ADC, SUB, SBB and CMP give the
  truncated result, and CF, OF, ZF and SF say of it what they should, at every
  width and with a carry or borrow coming in; `CarriesChain`: two words added by
  ADD and ADC are the sum of the two-word numbers; `FastPathsAgree`: the 32-bit
  fast paths compute the same. The provers know nothing of exponentiation, so
  that a modulus is twice a sign bit that is greater than 1 is an assumption
  (`PowersAssumption` in `Words`, which every run of the instructions evaluates).
- `CompareTells`: after CMP each of the 16 conditions says what its name says of
  the operands, unsigned and signed (`Ordered`).
- `RepCounts`: RCX and the pointers of a REP string instruction agree on the
  number of elements taken, and it stops early only at a fault or on ZF. The
  loop is a recursive function; the proof takes the least iteration at which the
  claim fails (`WFMin`), because the induction theorems of the library that take
  an operator cannot be used. Its count is at most `MemBytes`, as in
  every run: past that the model cuts the loop off.
- `LoadStored` and `StoredLoad`: `u64ToLE` and `leToU64` undo each other, for
  every number and every string of bytes of the four widths. The sum over the
  bytes is unrolled as the string loop is; a byte is a digit, which what is added
  above it leaves alone (`DigitStays`). What the moduli are to each other is an
  assumption again (`BytesAssumption`).
- `RegisterParts`: a register written at a width reads back as what was written,
  no other register changes, AH to BH leave the byte below alone, 8- and 16-bit
  writes what is above, and a 32-bit write clears it. `WrittenIsRead`: so does any
  operand that `writeOperand` could write, in memory through an address that wraps
  and pages with different permissions, because the bytes of one access are apart
  (`BytesApart`) and a store that does not fault writes all of them and no other
  (`StoreWrites`).
- `PushedIsPopped`: POP takes what the push before it stored, and the stack
  pointer is back; `SwappedTwice`: BSWAP undoes itself.
- `CopiesForward`: REP MOVS with DF clear is a copy, at every width and count, for
  a destination that does not overlap the source or overlaps it from below, when
  neither range wraps. The invariant of the loop: the elements taken are copied,
  and the source from there on has not been written.

Only model-checked:

- liveness (`ExitEmptiesTable`, `ImplementsLifetime`, `BlockedWaitReturns`,
  `PipelineEnds`, `DeathIsNoticed`, `CallReturns`, `LoopEnds`): fairness and
  ENABLED are out of the prover's reach;
- seven laws of the instructions. They speak of programs of several instructions
  in `Runs` and of values that recursion over bits, bytes or lanes computes:
  `FlagsTell` (its arithmetic is what `SumFlags`, `DifferenceFlags`,
  `CarriesChain`, `FastPathsAgree` and `CompareTells` prove of the operators;
  the logical instructions are not among them), `StringsStop` (`RepCounts` and
  `CopiesForward` prove how far a loop goes and what it copies; overlap from
  above, DF set, STOS and the comparisons are checked only), `OperandsAgree`
  (its parts are `RegisterParts`, `WrittenIsRead` and `PushedIsPopped`; the
  programs that combine them are checked), `BitsAgree`, `LanesAgree`,
  `FloatsAgree` and `VexClosuresAgree` (its last part is `VexClosuresLeave`;
  powers of two, products, bits and lanes, whose recursive definitions have not
  been unfolded for all inputs).

## 6. Not modelled

- x87: the stack of eight registers and the 80-bit conversions.
- The cursor of the decoder: the bytes of an instruction and the order of its
  prefixes.
- The ELF parser, the values of relocations, the words of the initial stack.
- Mounts, paths and symbolic links; offsets and kinds of Files; the calls on
  sockets; credentials; devices.
- Text generated for procfs; time, ioctl and system information, which pass
  single calls to the host; the command line; tables of constants; the unused
  Unicorn binding.

`PROJECT.json` lists every component with its reason.

## 7. Plan

In this order:

1. *Proofs*: REP MOVS downward and REP STOS, as `CopiesForward`; that the machine
   of every instruction is well typed.
2. *VFS tree*: an abstract tree that `VfsTree` implements, with owners; rename
   of an entry onto itself and whether an O_TMPFILE file is invisible.
3. *File kinds*: offsets, getdents64 positions, `/dev/tty`'s uncounted Files,
   O_TMPFILE handles, in a module that extends `FdTable`; bad pointers of wait4.
4. *Paths and mounts*: `normPath`, `resolve`, `followSymlinks` as operators
   against a reference definition; the mount table and its file.
5. *Sockets*: the error paths of socketpair and accept.
6. *x87* on `CpuState`; the credential rules as operators.
