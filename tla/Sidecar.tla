------------------------------ MODULE Sidecar ------------------------------
(***************************************************************************)
(* internal/vfs: one host directory and the sidecar file that holds the    *)
(* metadata of its entries.  Every operation reads the whole sidecar,      *)
(* changes it in memory and saves it: it writes a temporary file, whose    *)
(* name is fixed, and renames it over the sidecar.  The goroutines of a    *)
(* fork tree share the directory and no lock guards it; the emulator may   *)
(* be killed between any two host calls and started again.                 *)
(***************************************************************************)
EXTENDS Integers, FiniteSets

CONSTANTS Proc,        \* the goroutines that use the directory
          Name,        \* the names in it
          TmpName,     \* those that end in ".tmp"
          Op,          \* the system calls they make
          Together,    \* bound: the calls that are made while another is in progress
          Inode,       \* bound: the host files that sidecars are written to
          MaxCrash,    \* bound: how often the emulator is killed
          None

ASSUME NameAssumption == TmpName \subseteq Name
ASSUME OpAssumption ==
    Together \subseteq Op /\ Op \subseteq {"stat", "create", "symlink", "unlink", "setmeta"}
ASSUME InodeAssumption == None \notin Inode
ASSUME CrashAssumption == MaxCrash \in Nat

VARIABLES
    disk,      \* the names that have a host file
    node,      \* node[path]: the host file at the path of a sidecar, or None
    content,   \* content[i]: the map a host file holds, or Torn
    fd,        \* the host file a goroutine's WriteFile has open
    pc,        \* where each goroutine is
    call,      \* its call: operation, name, sidecar in memory, way back from a save
    ack,       \* history: what the last call on a name left, or Unknown
    overlap,   \* history: two calls have been in progress at once
    crashes

files == <<disk, node, content, fd>>
vars == <<files, pc, call, ack, overlap, crashes>>

Sidecars == {"meta", "tmp", "legacy"}
Meta == [type : {"reg", "lnk"}, mode : {"given", "heal", "set"}]
NoMeta == [type |-> "none", mode |-> "none"]
Unknown == [type |-> "unknown", mode |-> "none"]
Given == [type |-> "reg", mode |-> "given"]
Healed == [type |-> "reg", mode |-> "heal"]
Map == [Name -> Meta \cup {NoMeta}]
Empty == [n \in Name |-> NoMeta]
Torn == [n \in Name |-> Unknown]
NoCall == [op |-> "none", name |-> None, data |-> Empty, ret |-> "idle", alone |-> FALSE]

TypeOK ==
    /\ disk \subseteq Name
    /\ node \in [Sidecars -> Inode \cup {None}]
    /\ content \in [Inode -> Map \cup {Torn}]
    /\ fd \in [Proc -> Inode \cup {None}]
    /\ pc \in [Proc -> {"idle", "load", "list", "decide", "host", "open", "reload",
                        "trunc", "write", "rename"}]
    /\ call \in [Proc -> {NoCall} \cup [op : Op \cup {"open"}, name : Name, data : Map,
                                        ret : {"idle", "decide"}, alone : BOOLEAN]]
    /\ ack \in [Name -> Meta \cup {NoMeta, Unknown}]
    /\ overlap \in BOOLEAN
    /\ crashes \in 0..MaxCrash

(* The sidecar in use, which migrateLegacySidecar renames if it is the old.*)
Current == IF node["meta"] # None THEN node["meta"] ELSE node["legacy"]

(* loadSidecar: no file, or one that is not JSON, is an empty map.         *)
LoadSidecar ==
    IF Current = None \/ content[Current] = Torn THEN Empty ELSE content[Current]

(* reconcile, in memory: every file found that is not a ".tmp" is healed.  *)
Reconciled(m) == [n \in Name |-> IF n \in disk \ TmpName /\ m[n] = NoMeta THEN Healed ELSE m[n]]

(* What a call on a name would find if it ran alone now.                   *)
Lookup(n) == Reconciled(LoadSidecar)[n]

(* A directory with files dropped into it, and perhaps a sidecar that an   *)
(* earlier version of the tool left, with a symlink in it.                 *)
Init ==
    /\ disk \in SUBSET Name
    /\ \E n \in Name \cup {None}, legacy \in Inode :
          /\ n \notin disk
          /\ node = [s \in Sidecars |-> IF s = "legacy" /\ n # None THEN legacy ELSE None]
          /\ content = [i \in Inode |->
                [m \in Name |-> IF i = legacy /\ m = n THEN [type |-> "lnk", mode |-> "given"]
                                ELSE NoMeta]]
    /\ fd = [p \in Proc |-> None]
    /\ pc = [p \in Proc |-> "idle"]
    /\ call = [p \in Proc |-> NoCall]
    /\ ack = [n \in Name |-> Lookup(n)]
    /\ overlap = FALSE
    /\ crashes = 0

-----------------------------------------------------------------------------
(***************************************************************************)
(* A system call begins.  What it will leave is not known until it         *)
(* returns, nor then if another call was made on the same name meanwhile.  *)
(***************************************************************************)
Changing(n) == {p \in Proc : call[p].name = n /\ call[p].op # "stat"}

Busy(p) == {call[q].op : q \in {r \in Proc \ {p} : pc[r] # "idle"}}

Begin(p, o, n) ==
    /\ pc[p] = "idle"
    /\ Busy(p) # {} => {o} \cup Busy(p) \subseteq Together \cup {"open"}
    /\ overlap' = (overlap \/ Busy(p) # {})
    /\ pc' = [pc EXCEPT ![p] = "load"]
    /\ call' = [q \in Proc |->
          IF q = p
          THEN [NoCall EXCEPT !.op = o, !.name = n, !.alone = o # "stat" /\ Changing(n) = {}]
          ELSE [call[q] EXCEPT !.alone = @ /\ ~(o # "stat" /\ call[q].name = n)]]
    /\ ack' = IF o = "stat" THEN ack ELSE [ack EXCEPT ![n] = Unknown]
    /\ UNCHANGED <<files, crashes>>

(* The call is over; made alone, it has left m under its name.             *)
Returns(p, m) ==
    /\ pc' = [pc EXCEPT ![p] = "idle"]
    /\ call' = [call EXCEPT ![p] = NoCall]
    /\ ack' = IF call[p].alone THEN [ack EXCEPT ![call[p].name] = m] ELSE ack
    /\ UNCHANGED overlap

(* Goes on to step l with m as the sidecar in memory.                      *)
Goto(p, l, m) ==
    /\ pc' = [pc EXCEPT ![p] = l]
    /\ call' = [call EXCEPT ![p].data = m]
    /\ UNCHANGED <<ack, overlap, crashes>>

(* migrateLegacySidecar gives an old sidecar the new name, then it is read.*)
Migrate ==
    /\ IF node["meta"] = None /\ node["legacy"] # None
       THEN node' = [node EXCEPT !["meta"] = node["legacy"], !["legacy"] = None]
       ELSE UNCHANGED node
    /\ UNCHANGED <<disk, content, fd>>

Load(p) ==
    /\ pc[p] = "load"
    /\ Migrate
    /\ Goto(p, "list", LoadSidecar)

(* reconcile: ReadDir and heal; the sidecar is saved if that changed it.   *)
List(p) ==
    /\ pc[p] = "list"
    /\ LET m == Reconciled(call[p].data) IN
       /\ pc' = [pc EXCEPT ![p] = IF m = call[p].data THEN "decide" ELSE "trunc"]
       /\ call' = [call EXCEPT ![p].data = m, ![p].ret = "decide"]
    /\ UNCHANGED <<files, ack, overlap, crashes>>

-----------------------------------------------------------------------------
(***************************************************************************)
(* saveSidecar: os.WriteFile of the temporary file, which opens and        *)
(* truncates it and then writes, and os.Rename.  An open file stays open   *)
(* when somebody renames it; one with no name that nobody has open is gone.*)
(***************************************************************************)
InUse == {node[s] : s \in Sidecars} \cup {fd[p] : p \in Proc}
Holds(c) == content' = [i \in Inode |-> IF i \in InUse' THEN c[i] ELSE Empty]

Open(p, s, i) ==
    /\ node' = [node EXCEPT ![s] = i]
    /\ fd' = [fd EXCEPT ![p] = i]
    /\ Holds([content EXCEPT ![i] = Torn])
    /\ UNCHANGED disk
    /\ Goto(p, "write", call[p].data)

(* Mutation: the sidecar itself is opened and truncated.                   *)
TruncInPlace(p, i) ==
    /\ pc[p] = "trunc"
    /\ IF node["meta"] = None THEN i \notin InUse ELSE i = node["meta"]
    /\ Open(p, "meta", i)

Trunc(p, i) ==
    /\ pc[p] = "trunc"
    /\ IF node["tmp"] = None THEN i \notin InUse ELSE i = node["tmp"]
    /\ Open(p, "tmp", i)

(* Written over what another goroutine wrote to the same file, the shorter *)
(* text leaves the end of the longer one behind it.                        *)
Write(p) ==
    /\ pc[p] = "write"
    /\ fd' = [fd EXCEPT ![p] = None]
    /\ UNCHANGED <<disk, node>>
    /\ \/ Holds([content EXCEPT ![fd[p]] = call[p].data])
       \/ content[fd[p]] \notin {Torn, call[p].data} /\ Holds([content EXCEPT ![fd[p]] = Torn])
    /\ Goto(p, "rename", call[p].data)

(* Where saveSidecar's caller goes on: openCommon looks the file up that   *)
(* CreateFile registered, the other calls are over.                        *)
Saved(p) ==
    /\ CASE call[p].ret = "decide"  -> Goto(p, "decide", call[p].data)
         [] call[p].ret = "idle" /\ call[p].op = "create" ->
              /\ pc' = [pc EXCEPT ![p] = "load"]
              /\ call' = [call EXCEPT ![p].op = "open", ![p].data = Empty]
              /\ UNCHANGED <<ack, overlap>>
         [] OTHER -> Returns(p, call[p].data[call[p].name])
    /\ UNCHANGED crashes

(* Mutation: the temporary file is linked, not renamed.                    *)
RenameLinks(p) ==
    /\ pc[p] = "rename"
    /\ node["tmp"] # None
    /\ node' = [node EXCEPT !["meta"] = node["tmp"]]
    /\ UNCHANGED <<disk, fd>>
    /\ Holds(content)
    /\ Saved(p)

Rename(p) ==
    /\ pc[p] = "rename"
    /\ node["tmp"] # None
    /\ node' = [node EXCEPT !["meta"] = node["tmp"], !["tmp"] = None]
    /\ UNCHANGED <<disk, fd>>
    /\ Holds(content)
    /\ Saved(p)

(* Another goroutine has renamed the temporary file: reconcile ignores the *)
(* error, the others report it and what they left is not known.            *)
RenameFails(p) ==
    /\ pc[p] = "rename"
    /\ node["tmp"] = None
    /\ IF call[p].ret = "idle" THEN Returns(p, Unknown) /\ UNCHANGED crashes
       ELSE Goto(p, "decide", call[p].data)
    /\ UNCHANGED files

-----------------------------------------------------------------------------
(***************************************************************************)
(* What GetMeta found decides: the call ends, goes on to the host file, or *)
(* goes straight to the entry.                                             *)
(***************************************************************************)
Found(p) == call[p].data[call[p].name]
Ends(p) ==
    CASE call[p].op = "stat"                           -> TRUE
      [] call[p].op = "create"                         -> Found(p).type = "lnk"
      [] call[p].op = "symlink"                        -> Found(p) # NoMeta
      [] call[p].op \in {"unlink", "setmeta", "open"}  -> Found(p) = NoMeta
Goes(p) ==
    CASE call[p].op = "create" /\ Found(p) = NoMeta      -> "host"
      [] call[p].op = "unlink" /\ Found(p).type = "reg"  -> "host"
      [] call[p].op \in {"create", "open"} /\ Found(p) # NoMeta -> "open"
      [] OTHER                                           -> "reload"

(* An open that finds a symbolic link goes on with another name, as a call *)
(* of its own; setmeta is chmod, which has followed links, or lchown.      *)
Decide(p) ==
    /\ pc[p] = "decide"
    /\ IF Ends(p) THEN Returns(p, Found(p)) /\ UNCHANGED crashes
       ELSE Goto(p, Goes(p), IF Goes(p) = "open" THEN call[p].data ELSE Empty)
    /\ UNCHANGED files

(* OpenVFSFile, with O_CREATE: an entry without a host file is given one.  *)
OpenFile(p) ==
    /\ pc[p] = "open"
    /\ disk' = disk \cup {call[p].name}
    /\ UNCHANGED <<node, content, fd, crashes>>
    /\ Returns(p, IF call[p].op = "open" THEN Given ELSE Found(p))

(* CreateFile's O_CREATE, or Unlink's os.Remove.                           *)
HostFile(p) ==
    /\ pc[p] = "host"
    /\ disk' = IF call[p].op = "create" THEN disk \cup {call[p].name} ELSE disk \ {call[p].name}
    /\ UNCHANGED <<node, content, fd>>
    /\ Goto(p, "reload", Empty)

(* register, unregister or SetMeta: what becomes of the entry m.           *)
Updated(o, m) ==
    CASE o = "create"  -> Given
      [] o = "symlink" -> [type |-> "lnk", mode |-> "given"]
      [] o = "unlink"  -> NoMeta
      [] o = "setmeta"   -> [type |-> IF m = NoMeta THEN "reg" ELSE m.type, mode |-> "set"]

(* They read the sidecar again, change the entry and save.                 *)
Reload(p) ==
    /\ pc[p] = "reload"
    /\ Migrate
    /\ pc' = [pc EXCEPT ![p] = "trunc"]
    /\ call' = [call EXCEPT ![p].ret = "idle",
                   ![p].data = [LoadSidecar EXCEPT ![call[p].name] = Updated(call[p].op, @)]]
    /\ UNCHANGED <<ack, overlap, crashes>>

(* The emulator is killed, with every goroutine; the files stay.           *)
Crash ==
    /\ crashes < MaxCrash
    /\ ~overlap      \* bound: what a crash leaves of saves that overlap is not followed
    /\ crashes' = crashes + 1
    /\ pc' = [p \in Proc |-> "idle"]
    /\ call' = [p \in Proc |-> NoCall]
    /\ fd' = [p \in Proc |-> None]
    /\ UNCHANGED <<disk, node, ack, overlap>>
    /\ Holds(content)

Next ==
    \/ \E p \in Proc, o \in Op, n \in Name : Begin(p, o, n)
    \/ \E p \in Proc : Load(p) \/ List(p) \/ Decide(p) \/ HostFile(p) \/ OpenFile(p) \/ Reload(p)
    \/ \E p \in Proc, i \in Inode : Trunc(p, i)
    \/ \E p \in Proc : Write(p) \/ Rename(p) \/ RenameFails(p)
    \/ Crash

Spec == Init /\ [][Next]_vars

-----------------------------------------------------------------------------
(* Safety.  What a call on a name left when it returned is what the next   *)
(* call finds, whatever is done to other names and wherever the emulator   *)
(* is killed: saveSidecar never loses or tears the metadata of an entry    *)
(* as long as calls are made one after the other.                          *)
Kept == \A n \in Name : ack[n] # Unknown => Lookup(n) = ack[n]
AckedKept == ~overlap => Kept

(* Safety.  The same of goroutines whose calls overlap.                    *)
AckedKeptByAll == Kept

(* Safety.  However the saves of goroutines interleave, once no call is in *)
(* progress no temporary file is left: the last rename takes the last one, *)
(* also when a rename of another goroutine fails for want of it.           *)
NoTmpLeft == crashes = 0 /\ (\A p \in Proc : pc[p] = "idle") => node["tmp"] = None
=============================================================================
