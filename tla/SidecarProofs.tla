--------------------------- MODULE SidecarProofs ---------------------------
(***************************************************************************)
(* Proofs about Sidecar, for any number of goroutines, names and host      *)
(* files, and for any number of crashes.                                   *)
(*                                                                         *)
(* NoTmpLeft needs to know who will take the temporary file away.          *)
(* AckedKept needs the whole plan of a call: what the sidecar in memory is *)
(* to the one on disk at each step, that the temporary file is never the   *)
(* sidecar, and that no link's name has a host file to be healed.          *)
(***************************************************************************)
EXTENDS Sidecar, TLAPS

CallType == [op : Op \cup {"open"}, name : Name, data : Map, ret : {"idle", "decide"},
             alone : BOOLEAN]
Saving == {"trunc", "write", "rename"}
Updating == {"create", "symlink", "unlink", "setmeta"}

Steps == {"load", "list", "decide", "host", "open", "reload", "trunc", "write", "rename"}

(* Where a call may be, whatever the others do.                            *)
ShapeAt(p) ==
    /\ pc[p] = "idle" => call[p] = NoCall
    /\ pc[p] # "write" => fd[p] = None
    /\ pc[p] # "idle" => call[p] \in CallType
    /\ pc[p] = "host" => call[p].op \in {"create", "unlink"}
    /\ pc[p] = "reload" => call[p].op \in Updating
    /\ pc[p] \in Saving /\ call[p].ret = "idle" => call[p].op \in Updating
ShapeOK == \A p \in Proc : ShapeAt(p)

(* A temporary file belongs to a save that is going on.                    *)
TmpOwned == crashes = 0 /\ node["tmp"] # None => \E p \in Proc : pc[p] \in {"write", "rename"}

(* Names that reconcile heals.                                             *)
Seen == disk \ TmpName
FilesOK ==
    /\ node["tmp"] # None => node["tmp"] \notin {node["meta"], node["legacy"]}
    /\ \A n \in Name : LoadSidecar[n].type = "lnk" => n \notin Seen

Solo == \A p, q \in Proc : pc[p] # "idle" /\ pc[q] # "idle" => p = q

(* What a call has in memory and has found out, if nobody else is there.   *)
MemoryOK(p) ==
    /\ pc[p] = "list" => call[p].data = LoadSidecar
    /\ pc[p] \in {"decide", "open"} =>
          call[p].data = LoadSidecar /\ Reconciled(LoadSidecar) = LoadSidecar
    /\ pc[p] \in Saving /\ call[p].ret = "decide" => call[p].data = Reconciled(LoadSidecar)
    /\ pc[p] \in Saving /\ call[p].ret = "idle" =>
          call[p].data = [LoadSidecar EXCEPT ![call[p].name] = Updated(call[p].op, @)]
TmpOK(p) ==
    /\ pc[p] \in {"write", "rename"} => node["tmp"] # None
    /\ pc[p] = "write" => fd[p] = node["tmp"] /\ content[node["tmp"]] = Torn
    /\ pc[p] = "rename" => content[node["tmp"]] = call[p].data
EntryOK(p) ==
    /\ call[p].op # "stat" => ack[call[p].name] = Unknown
    /\ call[p].op = "open" => LoadSidecar[call[p].name] = Given
    /\ pc[p] = "open" => /\ call[p].op \in {"create", "open"}
                         /\ LoadSidecar[call[p].name] # NoMeta
                         /\ LoadSidecar[call[p].name].type # "lnk"
    /\ pc[p] = "host" /\ call[p].op = "create" => LoadSidecar[call[p].name] = NoMeta
    /\ pc[p] = "reload" \/ (pc[p] \in Saving /\ call[p].ret = "idle") =>
          (call[p].op \in {"symlink", "unlink"} => call[p].name \notin Seen)

PlanOK == \A p \in Proc : pc[p] # "idle" => MemoryOK(p) /\ TmpOK(p) /\ EntryOK(p)

Always == TypeOK /\ ShapeOK /\ TmpOwned
IInv == Always /\ (~overlap => Solo /\ FilesOK /\ PlanOK /\ Kept)

-----------------------------------------------------------------------------
(* Facts about the maps.                                                   *)
LEMMA MapFacts ==
    /\ Empty \in Map
    /\ Given \in Meta /\ Healed \in Meta /\ NoMeta \notin Meta /\ Unknown \notin Meta
    /\ Unknown # NoMeta /\ Given # NoMeta /\ Healed # NoMeta
    /\ NoMeta.type = "none" /\ Given.type = "reg" /\ Healed.type = "reg"
  BY DEF Empty, Map, Given, Healed, NoMeta, Unknown, Meta

LEMMA NotTorn == ASSUME NEW n \in Name, NEW m \in Map PROVE m # Torn
<1>1. m[n] # Unknown
  BY MapFacts DEF Map
<1> QED
  BY <1>1 DEF Torn

LEMMA LoadType == ASSUME TypeOK PROVE LoadSidecar \in Map
  BY MapFacts DEF LoadSidecar, Current, TypeOK, Sidecars

LEMMA ReconciledType == ASSUME NEW m \in Map PROVE Reconciled(m) \in Map
  BY MapFacts DEF Reconciled, Map

LEMMA UpdatedType ==
    ASSUME NEW o \in Updating, NEW m \in Meta \cup {NoMeta}
    PROVE  Updated(o, m) \in Meta \cup {NoMeta}
  BY MapFacts DEF Updated, Updating, Meta, Given, NoMeta

(* Which sidecar is read, and what is in it, if the other files change.    *)
LEMMA SameLoad ==
    ASSUME UNCHANGED <<node>>, Current # None => content'[Current] = content[Current]
    PROVE  LoadSidecar' = LoadSidecar
  BY DEF LoadSidecar, Current

LEMMA MigrateSame ==
    ASSUME TypeOK, Migrate
    PROVE  /\ node' \in [Sidecars -> Inode \cup {None}] /\ node'["tmp"] = node["tmp"]
           /\ LoadSidecar' = LoadSidecar
           /\ {node'["meta"], node'["legacy"]} \subseteq {node["meta"], node["legacy"], None}
           /\ UNCHANGED <<disk, content, fd>>
<1>1. CASE node["meta"] = None /\ node["legacy"] # None
  <2>1. node' = [node EXCEPT !["meta"] = node["legacy"], !["legacy"] = None]
        /\ UNCHANGED <<disk, content, fd>>
    BY <1>1 DEF Migrate
  <2>2. /\ node' \in [Sidecars -> Inode \cup {None}] /\ node'["tmp"] = node["tmp"]
        /\ node'["meta"] = node["legacy"] /\ node'["legacy"] = None
    BY <2>1 DEF TypeOK, Sidecars
  <2> QED
    BY <1>1, <2>1, <2>2 DEF LoadSidecar, Current
<1>2. CASE ~(node["meta"] = None /\ node["legacy"] # None)
  <2>1. UNCHANGED <<node, disk, content, fd>>
    BY <1>2 DEF Migrate
  <2> QED
    BY <2>1 DEF TypeOK, LoadSidecar, Current
<1> QED
  BY <1>1, <1>2

-----------------------------------------------------------------------------
(* The two ways a step of p leaves pc and call.                            *)
LEMMA GotoEffect ==
    ASSUME TypeOK, ShapeOK, NEW p \in Proc, pc[p] # "idle", NEW l \in Steps, NEW m \in Map,
           Goto(p, l, m)
    PROVE  /\ pc' \in [Proc -> Steps \cup {"idle"}] /\ call' \in [Proc -> {NoCall} \cup CallType]
           /\ pc'[p] = l /\ call'[p] \in CallType /\ call'[p].data = m
           /\ call'[p].op = call[p].op /\ call'[p].name = call[p].name
           /\ call'[p].ret = call[p].ret /\ call'[p].alone = call[p].alone
           /\ \A q \in Proc \ {p} : pc'[q] = pc[q] /\ call'[q] = call[q]
           /\ UNCHANGED <<ack, overlap, crashes>>
<1>1. call[p] \in CallType
  BY DEF ShapeOK, ShapeAt
<1> QED
  BY <1>1 DEF Goto, TypeOK, CallType, Steps

LEMMA ReturnsEffect ==
    ASSUME TypeOK, ShapeOK, NEW p \in Proc, pc[p] # "idle", NEW m \in Meta \cup {NoMeta, Unknown},
           Returns(p, m)
    PROVE  /\ pc' \in [Proc -> Steps \cup {"idle"}] /\ call' \in [Proc -> {NoCall} \cup CallType]
           /\ ack' \in [Name -> Meta \cup {NoMeta, Unknown}]
           /\ pc'[p] = "idle" /\ call'[p] = NoCall
           /\ \A q \in Proc \ {p} : pc'[q] = pc[q] /\ call'[q] = call[q]
           /\ \A n \in Name : \/ ack'[n] = ack[n]
                              \/ n = call[p].name /\ ack'[n] = m
           /\ UNCHANGED overlap
<1>1. call[p] \in CallType
  BY DEF ShapeOK, ShapeAt
<1> QED
  BY <1>1 DEF Returns, TypeOK, CallType, Steps

LEMMA OthersIdle ==
    ASSUME IInv, ~overlap, NEW p \in Proc, pc[p] # "idle",
           \A q \in Proc \ {p} : pc'[q] = pc[q]
    PROVE  Solo' /\ \A q \in Proc \ {p} : pc[q] = "idle" /\ pc'[q] = "idle"
  BY DEF IInv, Solo

(* What the steps of p have to show.                                       *)
LEMMA StepShape ==
    ASSUME ShapeOK, NEW p \in Proc, ShapeAt(p)',
           \A q \in Proc \ {p} : pc'[q] = pc[q] /\ call'[q] = call[q] /\ fd'[q] = fd[q]
    PROVE  ShapeOK'
  BY DEF ShapeOK, ShapeAt

LEMMA StepPlan ==
    ASSUME NEW p \in Proc, \A q \in Proc \ {p} : pc'[q] = "idle",
           pc'[p] # "idle" => MemoryOK(p)' /\ TmpOK(p)' /\ EntryOK(p)'
    PROVE  PlanOK'
  BY DEF PlanOK

(* What is found under a name depends on the sidecar and on the file.      *)
LEMMA StepKept ==
    ASSUME Kept, TypeOK,
           \A n \in Name : ack'[n] # Unknown => ack'[n] = ack[n] /\ Lookup(n)' = Lookup(n)
    PROVE  Kept'
  BY DEF Kept

(* Calls as records.                                                       *)
LEMMA SameAlone ==
    ASSUME NEW o, NEW n, NEW d, NEW r, NEW a
    PROVE  [[op |-> o, name |-> n, data |-> d, ret |-> r, alone |-> a] EXCEPT !.alone = a]
             = [op |-> o, name |-> n, data |-> d, ret |-> r, alone |-> a]
  OBVIOUS

-----------------------------------------------------------------------------
(* A call begins.                                                          *)
LEMMA BeginIInv ==
    ASSUME IInv, NEW p \in Proc, NEW o \in Op, NEW n \in Name, Begin(p, o, n) PROVE IInv'
<1> DEFINE a == o # "stat" /\ Changing(n) = {}
           c == [NoCall EXCEPT !.op = o, !.name = n, !.alone = a]
<1>1. /\ pc[p] = "idle" /\ pc' = [pc EXCEPT ![p] = "load"]
      /\ overlap' = (overlap \/ Busy(p) # {})
      /\ ack' = IF o = "stat" THEN ack ELSE [ack EXCEPT ![n] = Unknown]
      /\ UNCHANGED <<disk, node, content, fd, crashes>>
  BY DEF Begin, files
<1>2. c \in CallType /\ c.op = o /\ c.name = n
  <2>1. a \in BOOLEAN
    OBVIOUS
  <2>2. c = [NoCall EXCEPT !.op = o, !.name = n, !.alone = a]
    OBVIOUS
  <2> DEFINE O == Op \cup {"none"}
             N == Name \cup {None}
  <2>3. NoCall \in [op : O, name : N, data : Map, ret : {"idle"}, alone : BOOLEAN]
    BY MapFacts DEF NoCall
  <2>4. o \in O /\ n \in N
    OBVIOUS
  <2> HIDE DEF a, c, O, N
  <2>5. /\ c \in [op : O, name : N, data : Map, ret : {"idle"}, alone : BOOLEAN]
        /\ c.op = o /\ c.name = n
    BY <2>1, <2>2, <2>3, <2>4
  <2> QED
    BY <2>5 DEF CallType
<1>3. /\ call' = [q \in Proc |->
            IF q = p THEN c ELSE [call[q] EXCEPT !.alone = @ /\ ~(o # "stat" /\ call[q].name = n)]]
  BY DEF Begin
<1>4. call'[p] = c
  BY <1>3
<1>5. ASSUME NEW q \in Proc \ {p}
      PROVE  /\ call[q] = NoCall => call'[q] = NoCall
             /\ call[q] \in CallType => call'[q] \in CallType /\ call'[q].op = call[q].op
                                        /\ call'[q].ret = call[q].ret
             /\ pc'[q] = pc[q]
  <2> DEFINE b == call[q].alone /\ ~(o # "stat" /\ call[q].name = n)
  <2>1. call'[q] = [call[q] EXCEPT !.alone = b]
    BY <1>3
  <2>2. ASSUME call[q] = NoCall PROVE call'[q] = NoCall
    <3>1. b = FALSE
      BY <2>2 DEF NoCall
    <3> HIDE DEF b
    <3>2. call'[q] = [NoCall EXCEPT !.alone = FALSE]
      BY <2>1, <2>2, <3>1, Zenon
    <3> QED
      BY <3>2, SameAlone, Zenon DEF NoCall
  <2>3. ASSUME call[q] \in CallType
        PROVE  call'[q] \in CallType /\ call'[q].op = call[q].op /\ call'[q].ret = call[q].ret
    <3>1. b \in BOOLEAN
      OBVIOUS
    <3> HIDE DEF b
    <3> QED
      BY <2>1, <2>3, <3>1 DEF CallType
  <2> QED
    BY <2>2, <2>3, <1>1 DEF IInv, Always, TypeOK
<1>6. TypeOK'
  <2>1. call' \in [Proc -> {NoCall} \cup CallType]
    <3>1. \A q \in Proc : call[q] \in {NoCall} \cup CallType
      BY DEF IInv, Always, TypeOK, CallType
    <3>2. \A q \in Proc : call'[q] \in {NoCall} \cup CallType
      <4> HIDE DEF c
      <4> QED
        BY <3>1, <1>2, <1>4, <1>5, Zenon
    <3>3. DOMAIN call' = Proc /\ call' = [q \in DOMAIN call' |-> call'[q]]
      BY <1>3, Zenon
    <3> QED
      BY <3>2, <3>3
  <2>2. overlap' \in BOOLEAN
    BY <1>1 DEF IInv, Always, TypeOK
  <2>3. ack' \in [Name -> Meta \cup {NoMeta, Unknown}]
    BY <1>1 DEF IInv, Always, TypeOK
  <2> QED
    BY <1>1, <2>1, <2>2, <2>3 DEF IInv, Always, TypeOK, CallType
<1>7. pc'[p] = "load"
  BY <1>1 DEF IInv, Always, TypeOK
<1>8. ShapeOK'
  <2>1. ShapeAt(p)'
    BY <1>1, <1>2, <1>4, <1>7 DEF IInv, Always, ShapeOK, ShapeAt, Saving
  <2>2. ASSUME NEW q \in Proc \ {p} PROVE ShapeAt(q)'
    BY <1>1, <1>5 DEF ShapeAt, ShapeOK, IInv, Always
  <2> QED
    BY <2>1, <2>2 DEF ShapeOK
<1>9. TmpOwned'
  BY <1>1, <1>5 DEF IInv, Always, TmpOwned
<1>10. ASSUME ~overlap' PROVE Solo' /\ FilesOK' /\ PlanOK' /\ Kept'
  <2>1. ~overlap /\ Busy(p) = {}
    BY <1>1, <1>10
  <2>2. \A q \in Proc \ {p} : pc'[q] = "idle"
    BY <1>5, <2>1 DEF Busy
  <2>3. LoadSidecar' = LoadSidecar /\ disk' = disk
    BY <1>1, SameLoad
  <2>4. FilesOK'
    BY <1>1, <2>1, <2>3 DEF IInv, FilesOK, Seen
  <2>5. MemoryOK(p)' /\ TmpOK(p)' /\ EntryOK(p)'
    <3>1. o # "open"
      BY OpAssumption
    <3>2. o # "stat" => ack'[n] = Unknown
      BY <1>1 DEF IInv, Always, TypeOK
    <3> QED
      BY <3>1, <3>2, <1>2, <1>4, <1>7 DEF MemoryOK, TmpOK, EntryOK, Saving
  <2>6. Kept'
    <3>1. \A m \in Name : ack'[m] # Unknown => ack'[m] = ack[m] /\ Lookup(m)' = Lookup(m)
      BY <1>1, <2>3 DEF IInv, Always, TypeOK, Lookup, Reconciled
    <3> QED
      BY <3>1, <2>1, StepKept DEF IInv, Always
  <2> QED
    BY <2>2, <2>4, <2>5, <2>6, StepPlan DEF Solo
<1> QED
  BY <1>6, <1>8, <1>9, <1>10 DEF IInv, Always

(* Load: the sidecar is read, migrated first if it is an old one.          *)
LEMMA LoadIInv == ASSUME IInv, NEW p \in Proc, Load(p) PROVE IInv'
<1>1. pc[p] = "load" /\ Migrate /\ Goto(p, "list", LoadSidecar)
  BY DEF Load
<1>2. /\ node' \in [Sidecars -> Inode \cup {None}] /\ node'["tmp"] = node["tmp"]
      /\ LoadSidecar' = LoadSidecar
      /\ {node'["meta"], node'["legacy"]} \subseteq {node["meta"], node["legacy"], None}
      /\ UNCHANGED <<disk, content, fd>>
  BY <1>1, MigrateSame DEF IInv, Always
<1>3. LoadSidecar \in Map
  BY LoadType DEF IInv, Always
<1>4. /\ pc' \in [Proc -> Steps \cup {"idle"}] /\ call' \in [Proc -> {NoCall} \cup CallType]
      /\ pc'[p] = "list" /\ call'[p] \in CallType /\ call'[p].data = LoadSidecar
      /\ call'[p].op = call[p].op /\ call'[p].name = call[p].name
      /\ \A q \in Proc \ {p} : pc'[q] = pc[q] /\ call'[q] = call[q]
      /\ UNCHANGED <<ack, overlap, crashes>>
  BY <1>1, <1>3, GotoEffect DEF IInv, Always, Steps
<1>5. TypeOK'
  BY <1>2, <1>4 DEF IInv, Always, TypeOK, CallType, Steps
<1>6. ShapeOK'
  BY <1>1, <1>2, <1>4, StepShape DEF IInv, Always, ShapeOK, ShapeAt, Saving
<1>7. TmpOwned'
  BY <1>1, <1>2, <1>4 DEF IInv, Always, TmpOwned
<1>8. ASSUME ~overlap' PROVE Solo' /\ FilesOK' /\ PlanOK' /\ Kept'
  <2>1. ~overlap
    BY <1>4, <1>8
  <2>2. Solo' /\ \A q \in Proc \ {p} : pc'[q] = "idle"
    BY <1>1, <1>4, <2>1, OthersIdle
  <2>3. FilesOK'
    BY <1>2, <2>1 DEF IInv, FilesOK, Seen
  <2>4. MemoryOK(p) /\ TmpOK(p) /\ EntryOK(p)
    BY <1>1, <2>1 DEF IInv, PlanOK
  <2>5. MemoryOK(p)' /\ TmpOK(p)' /\ EntryOK(p)'
    BY <1>1, <1>2, <1>4, <2>4 DEF MemoryOK, TmpOK, EntryOK, Saving
  <2>6. Kept'
    <3>1. \A m \in Name : ack'[m] # Unknown => ack'[m] = ack[m] /\ Lookup(m)' = Lookup(m)
      BY <1>2, <1>4 DEF Lookup, Reconciled
    <3> QED
      BY <3>1, <2>1, StepKept DEF IInv, Always
  <2> QED
    BY <2>2, <2>3, <2>5, <2>6, StepPlan
<1> QED
  BY <1>5, <1>6, <1>7, <1>8 DEF IInv, Always

(* What every later step of a call has to show.                            *)
LEMMA ByStep ==
    ASSUME IInv, NEW p \in Proc, pc[p] # "idle", UNCHANGED overlap,
           \A q \in Proc \ {p} : pc'[q] = pc[q] /\ call'[q] = call[q] /\ fd'[q] = fd[q],
           TypeOK', ShapeAt(p)', TmpOwned',
           ~overlap => /\ FilesOK' /\ Kept'
                       /\ pc'[p] # "idle" => MemoryOK(p)' /\ TmpOK(p)' /\ EntryOK(p)'
    PROVE  IInv'
<1>1. ShapeOK'
  BY StepShape DEF IInv, Always
<1>2. ASSUME ~overlap PROVE Solo' /\ PlanOK'
  <2>1. Solo' /\ \A q \in Proc \ {p} : pc'[q] = "idle"
    BY <1>2, OthersIdle
  <2> QED
    BY <2>1, <1>2, StepPlan
<1> QED
  BY <1>1, <1>2 DEF IInv, Always

(* List: the names found are healed in memory.                             *)
LEMMA ReconciledTwice ==
    ASSUME NEW m \in Map PROVE Reconciled(Reconciled(m)) = Reconciled(m)
  BY MapFacts DEF Reconciled, Map

LEMMA ListIInv == ASSUME IInv, NEW p \in Proc, List(p) PROVE IInv'
<1> DEFINE m == Reconciled(call[p].data)
<1>1. /\ pc[p] = "list"
      /\ pc' = [pc EXCEPT ![p] = IF m = call[p].data THEN "decide" ELSE "trunc"]
      /\ call' = [call EXCEPT ![p].data = m, ![p].ret = "decide"]
      /\ UNCHANGED <<disk, node, content, fd, ack, overlap, crashes>>
  BY DEF List, files
<1>2. TypeOK /\ call[p] \in CallType
  BY <1>1 DEF IInv, Always, ShapeOK, ShapeAt
<1>3. m \in Map
  BY <1>2, ReconciledType DEF CallType
<1> HIDE DEF m
<1>4. /\ pc' \in [Proc -> Steps \cup {"idle"}] /\ call' \in [Proc -> {NoCall} \cup CallType]
      /\ pc'[p] = (IF m = call[p].data THEN "decide" ELSE "trunc")
      /\ call'[p] \in CallType /\ call'[p].data = m /\ call'[p].ret = "decide"
      /\ call'[p].op = call[p].op /\ call'[p].name = call[p].name
      /\ \A q \in Proc \ {p} : pc'[q] = pc[q] /\ call'[q] = call[q]
  BY <1>1, <1>2, <1>3 DEF TypeOK, CallType, Steps
<1>5. TypeOK'
  BY <1>1, <1>4 DEF IInv, Always, TypeOK, CallType, Steps
<1>6. ShapeAt(p)'
  BY <1>1, <1>4 DEF IInv, Always, ShapeOK, ShapeAt, Saving
<1>7. TmpOwned'
  BY <1>1, <1>4 DEF IInv, Always, TmpOwned
<1>8. ASSUME ~overlap
      PROVE  FilesOK' /\ Kept' /\ MemoryOK(p)' /\ TmpOK(p)' /\ EntryOK(p)'
  <2>1. LoadSidecar' = LoadSidecar /\ disk' = disk
    BY <1>1, SameLoad
  <2>2. FilesOK'
    BY <1>1, <1>8, <2>1 DEF IInv, FilesOK, Seen
  <2>3. MemoryOK(p) /\ TmpOK(p) /\ EntryOK(p)
    BY <1>1, <1>8 DEF IInv, PlanOK
  <2>4. \A x : Reconciled(x)' = Reconciled(x)
    BY <2>1 DEF Reconciled
  <2>5. Kept'
    BY <1>1, <1>8, <2>1, <2>4 DEF IInv, Kept, Lookup
  <2>6. m = Reconciled(LoadSidecar) /\ call[p].data = LoadSidecar
    BY <1>1, <2>3 DEF MemoryOK, m
  <2>7. MemoryOK(p)'
    BY <1>4, <2>1, <2>4, <2>6 DEF MemoryOK, Saving
  <2>8. TmpOK(p)' /\ EntryOK(p)'
    BY <1>1, <1>4, <2>1, <2>3 DEF TmpOK, EntryOK
  <2> QED
    BY <2>2, <2>5, <2>7, <2>8
<1> QED
  BY <1>1, <1>4, <1>5, <1>6, <1>7, <1>8, ByStep

-----------------------------------------------------------------------------
(* Files that are gone do not matter.                                      *)
LEMMA HoldsType ==
    ASSUME NEW c \in [Inode -> Map \cup {Torn}], Holds(c)
    PROVE  /\ content' \in [Inode -> Map \cup {Torn}]
           /\ \A s \in Sidecars : node'[s] \in Inode => content'[node'[s]] = c[node'[s]]
  BY MapFacts DEF Holds, InUse

LEMMA HoldsLoad ==
    ASSUME TypeOK, NEW c \in [Inode -> Map \cup {Torn}], Holds(c),
           node'["meta"] = node["meta"] /\ node'["legacy"] = node["legacy"],
           Current # None => c[Current] = content[Current]
    PROVE  LoadSidecar' = LoadSidecar
<1>1. Current' = Current /\ Current \in Inode \cup {None}
  BY DEF Current, TypeOK, Sidecars
<1>2. Current # None => content'[Current] = c[Current]
  BY <1>1, HoldsType DEF Current, Sidecars
<1> QED
  BY <1>1, <1>2 DEF LoadSidecar

(* Trunc: the temporary file is opened and truncated.                      *)
LEMMA TruncIInv == ASSUME IInv, NEW p \in Proc, NEW i \in Inode, Trunc(p, i) PROVE IInv'
<1> DEFINE c == [content EXCEPT ![i] = Torn]
<1>1. /\ pc[p] = "trunc"
      /\ IF node["tmp"] = None THEN i \notin InUse ELSE i = node["tmp"]
      /\ node' = [node EXCEPT !["tmp"] = i]
      /\ fd' = [fd EXCEPT ![p] = i]
      /\ Holds(c) /\ UNCHANGED disk
      /\ Goto(p, "write", call[p].data)
  BY DEF Trunc, Open
<1>2. TypeOK /\ ShapeOK /\ call[p] \in CallType
  BY <1>1 DEF IInv, Always, ShapeOK, ShapeAt
<1>3. c \in [Inode -> Map \cup {Torn}]
  BY <1>2 DEF TypeOK
<1>4. /\ pc' \in [Proc -> Steps \cup {"idle"}] /\ call' \in [Proc -> {NoCall} \cup CallType]
      /\ pc'[p] = "write" /\ call'[p] \in CallType /\ call'[p].data = call[p].data
      /\ call'[p].op = call[p].op /\ call'[p].name = call[p].name /\ call'[p].ret = call[p].ret
      /\ \A q \in Proc \ {p} : pc'[q] = pc[q] /\ call'[q] = call[q]
      /\ UNCHANGED <<ack, overlap, crashes>>
  <2>1. call[p].data \in Map
    BY <1>2 DEF CallType
  <2> QED
    BY <1>1, <1>2, <2>1, GotoEffect DEF Steps
<1>5. /\ node' \in [Sidecars -> Inode \cup {None}]
      /\ node'["tmp"] = i /\ node'["meta"] = node["meta"] /\ node'["legacy"] = node["legacy"]
      /\ fd' \in [Proc -> Inode \cup {None}] /\ fd'[p] = i
      /\ \A q \in Proc \ {p} : fd'[q] = fd[q]
  BY <1>1, <1>2 DEF TypeOK, Sidecars
<1>6. content' \in [Inode -> Map \cup {Torn}] /\ content'[i] = Torn
  BY <1>1, <1>2, <1>3, <1>5, HoldsType DEF Sidecars, TypeOK
<1>7. TypeOK'
  BY <1>1, <1>2, <1>4, <1>5, <1>6 DEF TypeOK, CallType, Steps
<1>8. ShapeAt(p)'
  BY <1>1, <1>4 DEF IInv, Always, ShapeOK, ShapeAt, Saving
<1>9. TmpOwned'
  BY <1>4 DEF TmpOwned
<1>10. ASSUME ~overlap
       PROVE  FilesOK' /\ Kept' /\ MemoryOK(p)' /\ TmpOK(p)' /\ EntryOK(p)'
  <2>1. i \notin {node["meta"], node["legacy"]}
    BY <1>1, <1>10 DEF IInv, FilesOK, InUse, Sidecars
  <2>2. Current # None => c[Current] = content[Current]
    BY <1>2, <2>1 DEF Current, TypeOK, Sidecars
  <2>3. LoadSidecar' = LoadSidecar /\ disk' = disk
    <3> HIDE DEF c
    <3> QED
      BY <1>1, <1>2, <1>3, <1>5, <2>2, HoldsLoad
  <2>4. FilesOK'
    BY <1>5, <1>10, <2>1, <2>3 DEF IInv, FilesOK, Seen
  <2>5. \A x : Reconciled(x)' = Reconciled(x)
    BY <2>3 DEF Reconciled
  <2>6. Kept'
    BY <1>4, <1>10, <2>3, <2>5 DEF IInv, Kept, Lookup
  <2>7. MemoryOK(p) /\ TmpOK(p) /\ EntryOK(p)
    BY <1>1, <1>10 DEF IInv, PlanOK
  <2>8. MemoryOK(p)'
    BY <1>1, <1>4, <2>3, <2>5, <2>7 DEF MemoryOK, Saving
  <2>9. TmpOK(p)'
    BY <1>4, <1>5, <1>6, InodeAssumption DEF TmpOK
  <2>10. EntryOK(p)'
    BY <1>1, <1>4, <2>3, <2>7 DEF EntryOK, Saving, Seen
  <2> QED
    BY <2>4, <2>6, <2>8, <2>9, <2>10
<1> QED
  BY <1>1, <1>4, <1>5, <1>7, <1>8, <1>9, <1>10, ByStep

(* Write: what was truncated holds the map in memory.                      *)
LEMMA WriteIInv == ASSUME IInv, NEW p \in Proc, Write(p) PROVE IInv'
<1>1. /\ pc[p] = "write" /\ fd' = [fd EXCEPT ![p] = None] /\ UNCHANGED <<disk, node>>
      /\ \/ Holds([content EXCEPT ![fd[p]] = call[p].data])
         \/ content[fd[p]] \notin {Torn, call[p].data} /\ Holds([content EXCEPT ![fd[p]] = Torn])
      /\ Goto(p, "rename", call[p].data)
  BY DEF Write
<1>2. TypeOK /\ ShapeOK /\ call[p] \in CallType /\ call[p].data \in Map
  BY <1>1 DEF IInv, Always, ShapeOK, ShapeAt, CallType
<1>3. /\ pc' \in [Proc -> Steps \cup {"idle"}] /\ call' \in [Proc -> {NoCall} \cup CallType]
      /\ pc'[p] = "rename" /\ call'[p] \in CallType /\ call'[p].data = call[p].data
      /\ call'[p].op = call[p].op /\ call'[p].name = call[p].name /\ call'[p].ret = call[p].ret
      /\ \A q \in Proc \ {p} : pc'[q] = pc[q] /\ call'[q] = call[q]
      /\ UNCHANGED <<ack, overlap, crashes>>
  BY <1>1, <1>2, GotoEffect DEF Steps
<1>4. PICK m \in Map \cup {Torn} :
           /\ Holds([content EXCEPT ![fd[p]] = m])
           /\ content[fd[p]] = Torn => m = call[p].data
  BY <1>1, <1>2
<1> DEFINE c == [content EXCEPT ![fd[p]] = m]
<1>5. c \in [Inode -> Map \cup {Torn}]
  BY <1>2 DEF TypeOK
<1>6. content' \in [Inode -> Map \cup {Torn}]
      /\ \A s \in Sidecars : node[s] \in Inode => content'[node[s]] = c[node[s]]
  BY <1>1, <1>4, <1>5, HoldsType
<1>7. TypeOK'
  BY <1>1, <1>2, <1>3, <1>6 DEF TypeOK, CallType, Steps
<1>8. ShapeAt(p)'
  BY <1>1, <1>2, <1>3 DEF TypeOK, IInv, Always, ShapeOK, ShapeAt, Saving
<1>9. TmpOwned'
  BY <1>3 DEF TmpOwned
<1>10. ASSUME ~overlap
       PROVE  FilesOK' /\ Kept' /\ MemoryOK(p)' /\ TmpOK(p)' /\ EntryOK(p)'
  <2>1. MemoryOK(p) /\ TmpOK(p) /\ EntryOK(p) /\ FilesOK
    BY <1>1, <1>10 DEF IInv, PlanOK
  <2>2. /\ fd[p] = node["tmp"] /\ node["tmp"] \in Inode /\ content[node["tmp"]] = Torn
        /\ fd[p] \notin {node["meta"], node["legacy"]}
    BY <1>1, <1>2, <2>1 DEF TmpOK, FilesOK, TypeOK, Sidecars
  <2>3. Current # None => c[Current] = content[Current]
    BY <1>2, <2>2 DEF Current, TypeOK, Sidecars
  <2>4. LoadSidecar' = LoadSidecar /\ disk' = disk
    <3>1. Holds(c)
      BY <1>4
    <3> HIDE DEF c
    <3> QED
      BY <1>1, <1>2, <1>5, <3>1, <2>3, HoldsLoad
  <2>5. FilesOK'
    BY <1>1, <2>1, <2>4 DEF FilesOK, Seen
  <2>6. \A x : Reconciled(x)' = Reconciled(x)
    BY <2>4 DEF Reconciled
  <2>7. Kept'
    BY <1>3, <1>10, <2>4, <2>6 DEF IInv, Kept, Lookup
  <2>8. MemoryOK(p)'
    BY <1>1, <1>3, <2>1, <2>4, <2>6 DEF MemoryOK, Saving
  <2>9. TmpOK(p)'
    <3>1. content'[node["tmp"]] = call[p].data
      BY <1>2, <1>4, <1>6, <2>2 DEF Sidecars, TypeOK
    <3> QED
      BY <1>1, <1>3, <2>1, <3>1 DEF TmpOK
  <2>10. EntryOK(p)'
    BY <1>1, <1>3, <2>1, <2>4 DEF EntryOK, Saving, Seen
  <2> QED
    BY <2>5, <2>7, <2>8, <2>9, <2>10
<1>11. \A q \in Proc \ {p} : fd'[q] = fd[q]
  BY <1>1, <1>2 DEF TypeOK
<1> QED
  BY <1>1, <1>3, <1>7, <1>8, <1>9, <1>10, <1>11, ByStep

-----------------------------------------------------------------------------
(* Rename: the map in memory becomes the sidecar.                          *)
LEMMA ReconciledAt ==
    ASSUME NEW n \in Name, NEW m, NEW k, m[n] = k[n] PROVE Reconciled(m)[n] = Reconciled(k)[n]
  BY DEF Reconciled

LEMMA RenameFiles ==
    ASSUME TypeOK, NEW p \in Proc, Rename(p)
    PROVE  /\ pc[p] = "rename" /\ Saved(p) /\ UNCHANGED <<disk, fd>>
           /\ node["tmp"] \in Inode /\ node' \in [Sidecars -> Inode \cup {None}]
           /\ node'["meta"] = node["tmp"] /\ node'["tmp"] = None
           /\ content' \in [Inode -> Map \cup {Torn}]
           /\ content'[node["tmp"]] = content[node["tmp"]]
<1>1. /\ pc[p] = "rename" /\ node["tmp"] # None
      /\ node' = [node EXCEPT !["meta"] = node["tmp"], !["tmp"] = None]
      /\ UNCHANGED <<disk, fd>> /\ Holds(content) /\ Saved(p)
  BY DEF Rename
<1>2. /\ node["tmp"] \in Inode /\ node' \in [Sidecars -> Inode \cup {None}]
      /\ node'["meta"] = node["tmp"] /\ node'["tmp"] = None
  BY <1>1 DEF TypeOK, Sidecars
<1>3. /\ content' \in [Inode -> Map \cup {Torn}]
      /\ \A s \in Sidecars : node'[s] \in Inode => content'[node'[s]] = content[node'[s]]
  BY <1>1, HoldsType DEF TypeOK
<1> QED
  BY <1>1, <1>2, <1>3 DEF Sidecars

LEMMA RenameLoads ==
    ASSUME IInv, ~overlap, NEW p \in Proc, Rename(p)
    PROVE  LoadSidecar' = call[p].data /\ FilesOK' /\ UNCHANGED disk
<1>1. TypeOK /\ ShapeAt(p)
  BY DEF IInv, Always, ShapeOK
<1>2. /\ pc[p] = "rename" /\ UNCHANGED disk
      /\ node["tmp"] \in Inode /\ node'["meta"] = node["tmp"] /\ node'["tmp"] = None
      /\ content'[node["tmp"]] = content[node["tmp"]]
  BY <1>1, RenameFiles
<1>3. call[p] \in CallType /\ call[p].name \in Name /\ call[p].data \in Map
  BY <1>1, <1>2 DEF ShapeAt, CallType
<1>4. MemoryOK(p) /\ TmpOK(p) /\ EntryOK(p) /\ FilesOK
  BY <1>2 DEF IInv, PlanOK
<1>5. content'[node'["meta"]] = call[p].data /\ call[p].data # Torn
  BY <1>2, <1>3, <1>4, NotTorn DEF TmpOK
<1>6. LoadSidecar' = call[p].data
  BY <1>2, <1>5, InodeAssumption DEF LoadSidecar, Current
<1>7. ASSUME NEW n \in Name, call[p].data[n].type = "lnk" PROVE n \notin Seen
  <2>1. CASE call[p].ret = "decide"
    <3>1. call[p].data = Reconciled(LoadSidecar)
      BY <1>2, <1>4, <2>1 DEF MemoryOK, Saving
    <3>2. LoadSidecar[n].type = "lnk"
      BY <1>7, <3>1, MapFacts DEF Reconciled
    <3> QED
      BY <1>4, <3>2 DEF FilesOK
  <2>2. CASE call[p].ret = "idle"
    <3>1. call[p].data = [LoadSidecar EXCEPT ![call[p].name] = Updated(call[p].op, @)]
      BY <1>2, <1>4, <2>2 DEF MemoryOK, Saving
    <3>2. LoadSidecar \in Map
      BY <1>1, LoadType
    <3>3. call[p].op \in Updating
      BY <1>1, <1>2, <2>2 DEF ShapeAt, Saving
    <3>4. CASE n # call[p].name
      <4>1. LoadSidecar[n].type = "lnk"
        BY <1>7, <3>1, <3>2, <3>4 DEF Map
      <4> QED
        BY <1>4, <4>1 DEF FilesOK
    <3>5. CASE n = call[p].name
      <4>1. Updated(call[p].op, LoadSidecar[n]).type = "lnk"
        BY <1>3, <1>7, <3>1, <3>2, <3>5 DEF Map
      <4>2. CASE call[p].op = "symlink"
        BY <1>2, <1>4, <2>2, <3>5, <4>2 DEF EntryOK, Saving
      <4>3. CASE call[p].op \in {"create", "unlink"}
        BY <4>1, <4>3, MapFacts DEF Updated
      <4>4. CASE call[p].op = "setmeta"
        <5>1. LoadSidecar[n].type = "lnk"
          BY <4>1, <4>4 DEF Updated
        <5> QED
          BY <1>4, <5>1 DEF FilesOK
      <4> QED
        BY <3>3, <4>2, <4>3, <4>4 DEF Updating
    <3> QED
      BY <3>4, <3>5
  <2> QED
    BY <1>3, <2>1, <2>2 DEF CallType
<1> QED
  BY <1>2, <1>6, <1>7 DEF FilesOK, Seen

(* An update leaves what the next call finds under its name.               *)
LEMMA UpdateFound ==
    ASSUME IInv, ~overlap, NEW p \in Proc, pc[p] \in Saving, call[p].ret = "idle"
    PROVE  /\ Reconciled(call[p].data)[call[p].name] = call[p].data[call[p].name]
           /\ \A n \in Name \ {call[p].name} :
                 Reconciled(call[p].data)[n] = Reconciled(LoadSidecar)[n]
           /\ call[p].op = "create" => call[p].data[call[p].name] = Given
           /\ ack[call[p].name] = Unknown
<1>1. TypeOK /\ ShapeAt(p) /\ MemoryOK(p) /\ EntryOK(p) /\ pc[p] # "idle"
  BY DEF IInv, Always, ShapeOK, PlanOK, Saving
<1>2. call[p].name \in Name /\ call[p].op \in Updating
  BY <1>1 DEF ShapeAt, CallType
<1>3. LoadSidecar \in Map
  BY <1>1, LoadType
<1>4. call[p].data = [LoadSidecar EXCEPT ![call[p].name] = Updated(call[p].op, @)]
  BY <1>1 DEF MemoryOK
<1>5. call[p].data[call[p].name] = Updated(call[p].op, LoadSidecar[call[p].name])
      /\ \A n \in Name \ {call[p].name} : call[p].data[n] = LoadSidecar[n]
  BY <1>2, <1>3, <1>4 DEF Map
<1>6. \A n \in Name \ {call[p].name} :
         Reconciled(call[p].data)[n] = Reconciled(LoadSidecar)[n]
  BY <1>5, ReconciledAt
<1>7. call[p].op = "unlink" \/ Updated(call[p].op, LoadSidecar[call[p].name]) # NoMeta
  BY <1>2, MapFacts DEF Updated, Updating, NoMeta
<1>8. call[p].op = "unlink" => call[p].name \notin Seen
  BY <1>1 DEF EntryOK
<1>9. Reconciled(call[p].data)[call[p].name] = call[p].data[call[p].name]
  BY <1>2, <1>5, <1>7, <1>8 DEF Reconciled, Seen
<1>10. call[p].op = "create" => call[p].data[call[p].name] = Given
  BY <1>5 DEF Updated
<1>11. ack[call[p].name] = Unknown
  BY <1>1, <1>2 DEF EntryOK, Updating
<1> QED
  BY <1>6, <1>9, <1>10, <1>11

LEMMA RenameIInv == ASSUME IInv, NEW p \in Proc, Rename(p) PROVE IInv'
<1>1. TypeOK /\ ShapeOK
  BY DEF IInv, Always
<1>2. /\ pc[p] = "rename" /\ Saved(p) /\ UNCHANGED <<disk, fd>>
      /\ node' \in [Sidecars -> Inode \cup {None}] /\ node'["tmp"] = None
      /\ content' \in [Inode -> Map \cup {Torn}]
  BY <1>1, RenameFiles
<1>3. call[p] \in CallType /\ call[p].name \in Name /\ call[p].data \in Map
      /\ call[p].ret \in {"idle", "decide"}
  BY <1>1, <1>2 DEF ShapeOK, ShapeAt, CallType
<1>4. TmpOwned'
  BY <1>2 DEF TmpOwned
<1>5. ~overlap => LoadSidecar' = call[p].data /\ FilesOK'
  BY RenameLoads
<1>6. ~overlap => MemoryOK(p) /\ EntryOK(p)
  BY <1>2 DEF IInv, PlanOK
<1>7. \A x : Reconciled(x)' = Reconciled(x)
  BY <1>2 DEF Reconciled
<1>8. LoadSidecar \in Map
  BY <1>1, LoadType
<1>9. CASE call[p].ret = "decide"
  <2>1. Goto(p, "decide", call[p].data) /\ UNCHANGED crashes
    BY <1>2, <1>9 DEF Saved
  <2>2. /\ pc' \in [Proc -> Steps \cup {"idle"}] /\ call' \in [Proc -> {NoCall} \cup CallType]
        /\ pc'[p] = "decide" /\ call'[p] \in CallType /\ call'[p].data = call[p].data
        /\ call'[p].op = call[p].op /\ call'[p].name = call[p].name
        /\ \A q \in Proc \ {p} : pc'[q] = pc[q] /\ call'[q] = call[q]
        /\ UNCHANGED <<ack, overlap, crashes>>
    BY <1>1, <1>2, <1>3, <2>1, GotoEffect DEF Steps
  <2>3. TypeOK'
    BY <1>1, <1>2, <2>2 DEF TypeOK, CallType, Steps
  <2>4. ShapeAt(p)'
    BY <1>1, <1>2, <2>2 DEF ShapeOK, ShapeAt, Saving
  <2>5. ASSUME ~overlap PROVE Kept' /\ MemoryOK(p)' /\ TmpOK(p)' /\ EntryOK(p)'
    <3>1. call[p].data = Reconciled(LoadSidecar)
      BY <1>2, <1>6, <1>9, <2>5 DEF MemoryOK, Saving
    <3>2. Reconciled(call[p].data) = call[p].data
      BY <1>8, <3>1, ReconciledTwice
    <3>3. LoadSidecar' = call[p].data /\ Reconciled(LoadSidecar)' = call[p].data
      BY <1>5, <1>7, <2>5, <3>2
    <3>4. Kept'
      BY <2>2, <2>5, <3>1, <3>3 DEF IInv, Kept, Lookup
    <3>5. MemoryOK(p)' /\ TmpOK(p)'
      BY <2>2, <3>3, <3>2 DEF MemoryOK, TmpOK, Saving
    <3>6. call[p].op = "open" => call[p].data[call[p].name] = Given
      BY <1>3, <1>6, <2>5, <3>1, MapFacts DEF EntryOK, Reconciled
    <3>7. EntryOK(p)'
      BY <1>6, <2>2, <2>5, <3>3, <3>6 DEF EntryOK, Saving
    <3> QED
      BY <3>4, <3>5, <3>7
  <2> QED
    BY <1>2, <1>4, <1>5, <2>2, <2>3, <2>4, <2>5, ByStep
<1>10. CASE call[p].ret = "idle" /\ call[p].op = "create"
  <2>1. /\ pc' = [pc EXCEPT ![p] = "load"]
        /\ call' = [call EXCEPT ![p].op = "open", ![p].data = Empty]
        /\ UNCHANGED <<ack, overlap, crashes>>
    BY <1>2, <1>10 DEF Saved
  <2>2. /\ pc' \in [Proc -> Steps \cup {"idle"}] /\ call' \in [Proc -> {NoCall} \cup CallType]
        /\ pc'[p] = "load" /\ call'[p] \in CallType
        /\ call'[p].op = "open" /\ call'[p].name = call[p].name
        /\ \A q \in Proc \ {p} : pc'[q] = pc[q] /\ call'[q] = call[q]
    BY <1>1, <1>3, <2>1, MapFacts DEF TypeOK, CallType, Steps
  <2>3. TypeOK'
    BY <1>1, <1>2, <2>1, <2>2 DEF TypeOK, CallType, Steps
  <2>4. ShapeAt(p)'
    BY <1>1, <1>2, <2>2 DEF ShapeOK, ShapeAt, Saving
  <2>5. ASSUME ~overlap PROVE Kept' /\ MemoryOK(p)' /\ TmpOK(p)' /\ EntryOK(p)'
    <3>1. /\ \A n \in Name \ {call[p].name} :
                Reconciled(call[p].data)[n] = Reconciled(LoadSidecar)[n]
          /\ call[p].data[call[p].name] = Given /\ ack[call[p].name] = Unknown
      BY <1>2, <1>10, <2>5, UpdateFound DEF Saving
    <3>2. \A n \in Name \ {call[p].name} : Lookup(n)' = Lookup(n)
      BY <1>5, <1>7, <2>5, <3>1 DEF Lookup
    <3>3. Kept'
      BY <2>1, <2>5, <3>1, <3>2 DEF IInv, Kept
    <3>4. MemoryOK(p)' /\ TmpOK(p)'
      BY <2>2 DEF MemoryOK, TmpOK, Saving
    <3>5. EntryOK(p)'
      BY <1>5, <2>1, <2>2, <2>5, <3>1 DEF EntryOK, Saving
    <3> QED
      BY <3>3, <3>4, <3>5
  <2> QED
    BY <1>2, <1>4, <1>5, <2>1, <2>2, <2>3, <2>4, <2>5, ByStep
<1>11. CASE call[p].ret = "idle" /\ call[p].op # "create"
  <2> DEFINE m == call[p].data[call[p].name]
  <2>1. Returns(p, m) /\ UNCHANGED crashes
    BY <1>2, <1>11 DEF Saved
  <2>2. m \in Meta \cup {NoMeta, Unknown}
    BY <1>3 DEF Map
  <2> HIDE DEF m
  <2>3. /\ pc' \in [Proc -> Steps \cup {"idle"}] /\ call' \in [Proc -> {NoCall} \cup CallType]
        /\ ack' \in [Name -> Meta \cup {NoMeta, Unknown}]
        /\ pc'[p] = "idle" /\ call'[p] = NoCall
        /\ \A q \in Proc \ {p} : pc'[q] = pc[q] /\ call'[q] = call[q]
        /\ \A n \in Name : ack'[n] = ack[n] \/ (n = call[p].name /\ ack'[n] = m)
        /\ UNCHANGED overlap
    BY <1>1, <1>2, <2>1, <2>2, ReturnsEffect
  <2>4. TypeOK'
    BY <1>1, <1>2, <2>1, <2>3 DEF TypeOK, CallType, Steps
  <2>5. fd[p] = None
    BY <1>1, <1>2 DEF ShapeOK, ShapeAt
  <2>6. ShapeAt(p)'
    BY <1>2, <2>3, <2>5 DEF ShapeAt, Saving
  <2>7. ASSUME ~overlap PROVE Kept'
    <3>1. /\ Reconciled(call[p].data)[call[p].name] = call[p].data[call[p].name]
          /\ \A n \in Name \ {call[p].name} :
                Reconciled(call[p].data)[n] = Reconciled(LoadSidecar)[n]
          /\ ack[call[p].name] = Unknown
      BY <1>2, <1>11, <2>7, UpdateFound DEF Saving
    <3>2. \A n \in Name \ {call[p].name} : Lookup(n)' = Lookup(n)
      BY <1>5, <1>7, <2>7, <3>1 DEF Lookup
    <3>3. \A n \in Name : n = call[p].name => Lookup(n)' = m
      BY <1>5, <1>7, <2>7, <3>1 DEF Lookup, m
    <3> QED
      BY <2>3, <2>7, <3>1, <3>2, <3>3 DEF IInv, Kept
  <2> QED
    BY <1>2, <1>4, <1>5, <2>3, <2>4, <2>6, <2>7, ByStep
<1> QED
  BY <1>3, <1>9, <1>10, <1>11

-----------------------------------------------------------------------------
(* A call that ends without a save leaves what it has found.               *)
LEMMA ReturnIInv ==
    ASSUME IInv, NEW p \in Proc, pc[p] \notin {"idle", "write"},
           NEW m \in Meta \cup {NoMeta, Unknown}, Returns(p, m),
           UNCHANGED <<node, content, fd, crashes>>, disk' \subseteq Name, TmpOwned',
           ~overlap => /\ FilesOK'
                       /\ \A n \in Name : Lookup(n)' = Lookup(n)
                       /\ Lookup(call[p].name) = m
    PROVE  IInv'
<1>1. TypeOK /\ ShapeOK
  BY DEF IInv, Always
<1>2. /\ pc' \in [Proc -> Steps \cup {"idle"}] /\ call' \in [Proc -> {NoCall} \cup CallType]
      /\ ack' \in [Name -> Meta \cup {NoMeta, Unknown}]
      /\ pc'[p] = "idle" /\ call'[p] = NoCall
      /\ \A q \in Proc \ {p} : pc'[q] = pc[q] /\ call'[q] = call[q]
      /\ \A n \in Name : ack'[n] = ack[n] \/ (n = call[p].name /\ ack'[n] = m)
      /\ UNCHANGED overlap
  BY <1>1, ReturnsEffect
<1>3. TypeOK'
  BY <1>1, <1>2 DEF TypeOK, CallType, Steps
<1>4. ShapeAt(p)'
  BY <1>1, <1>2 DEF ShapeOK, ShapeAt, Saving
<1>5. ~overlap => Kept'
  BY <1>2 DEF IInv, Kept
<1> QED
  BY <1>2, <1>3, <1>4, <1>5, ByStep

(* RenameFails: there is no temporary file, so the calls have overlapped.  *)
LEMMA RenameFailsIInv == ASSUME IInv, NEW p \in Proc, RenameFails(p) PROVE IInv'
<1>1. /\ pc[p] = "rename" /\ node["tmp"] = None
      /\ IF call[p].ret = "idle" THEN Returns(p, Unknown) /\ UNCHANGED crashes
         ELSE Goto(p, "decide", call[p].data)
      /\ UNCHANGED <<disk, node, content, fd>>
  BY DEF RenameFails, files
<1>2. TypeOK /\ ShapeOK
  BY DEF IInv, Always
<1>3. overlap
  BY <1>1 DEF IInv, PlanOK, TmpOK
<1>4. TmpOwned'
  BY <1>1 DEF TmpOwned
<1>5. CASE call[p].ret = "idle"
  BY <1>1, <1>2, <1>3, <1>4, <1>5, ReturnIInv DEF TypeOK
<1>6. CASE call[p].ret # "idle"
  <2>1. call[p].data \in Map
    BY <1>1, <1>2 DEF ShapeOK, ShapeAt, CallType
  <2>2. /\ pc' \in [Proc -> Steps \cup {"idle"}] /\ call' \in [Proc -> {NoCall} \cup CallType]
        /\ pc'[p] = "decide" /\ call'[p] \in CallType
        /\ \A q \in Proc \ {p} : pc'[q] = pc[q] /\ call'[q] = call[q]
        /\ UNCHANGED <<ack, overlap, crashes>>
    BY <1>1, <1>2, <1>6, <2>1, GotoEffect DEF Steps
  <2>3. TypeOK'
    BY <1>1, <1>2, <2>2 DEF TypeOK, CallType, Steps
  <2>4. ShapeAt(p)'
    BY <1>1, <1>2, <2>2 DEF ShapeOK, ShapeAt, Saving
  <2> QED
    BY <1>1, <1>3, <1>4, <2>2, <2>3, <2>4, ByStep
<1> QED
  BY <1>5, <1>6

(* Decide: what GetMeta found is what the sidecar holds.                   *)
LEMMA DecideIInv == ASSUME IInv, NEW p \in Proc, Decide(p) PROVE IInv'
<1>1. /\ pc[p] = "decide"
      /\ IF Ends(p) THEN Returns(p, Found(p)) /\ UNCHANGED crashes
         ELSE Goto(p, Goes(p), IF Goes(p) = "open" THEN call[p].data ELSE Empty)
      /\ UNCHANGED <<disk, node, content, fd>>
  BY DEF Decide, files
<1>2. TypeOK /\ ShapeOK /\ TmpOwned
  BY DEF IInv, Always
<1>3. /\ call[p] \in CallType /\ call[p].name \in Name /\ call[p].data \in Map
      /\ call[p].op \in Op \cup {"open"} /\ Found(p) \in Meta \cup {NoMeta}
  BY <1>1, <1>2 DEF ShapeOK, ShapeAt, CallType, Map, Found
<1>4. LoadSidecar' = LoadSidecar /\ \A x : Reconciled(x)' = Reconciled(x)
  BY <1>1, SameLoad DEF Reconciled
<1>5. \A n \in Name : Lookup(n)' = Lookup(n)
  BY <1>4 DEF Lookup
<1>6. ASSUME ~overlap
      PROVE  /\ MemoryOK(p) /\ EntryOK(p) /\ FilesOK /\ FilesOK'
             /\ call[p].data = LoadSidecar /\ Reconciled(LoadSidecar) = LoadSidecar
             /\ Found(p) = LoadSidecar[call[p].name]
  BY <1>1, <1>4, <1>6 DEF IInv, PlanOK, MemoryOK, FilesOK, Seen, Found
<1>7. CASE Ends(p)
  <2>1. ~overlap => Lookup(call[p].name) = Found(p)
    BY <1>6 DEF Lookup
  <2>2. Returns(p, Found(p)) /\ UNCHANGED crashes
    BY <1>1, <1>7
  <2>3. pc' = [pc EXCEPT ![p] = "idle"]
    BY <2>2 DEF Returns
  <2>4. TmpOwned'
    BY <1>1, <1>2, <2>2, <2>3 DEF TmpOwned, TypeOK
  <2> QED
    BY <1>1, <1>2, <1>3, <1>5, <1>6, <2>1, <2>2, <2>4, ReturnIInv DEF TypeOK
<1>8. CASE ~Ends(p)
  <2> DEFINE m == IF Goes(p) = "open" THEN call[p].data ELSE Empty
  <2>1. /\ Goes(p) \in {"host", "open", "reload"}
        /\ Goes(p) = "host" => \/ call[p].op = "create" /\ Found(p) = NoMeta
                               \/ call[p].op = "unlink"
        /\ Goes(p) = "open" => call[p].op \in {"create", "open"} /\ Found(p) # NoMeta
        /\ Goes(p) = "reload" => call[p].op \in Updating
        /\ Goes(p) = "reload" => call[p].op # "create"
        /\ Goes(p) = "reload" /\ call[p].op = "symlink" => Found(p) = NoMeta
        /\ Goes(p) = "reload" /\ call[p].op = "unlink" => Found(p).type = "lnk"
        /\ call[p].op = "create" => Found(p).type # "lnk"
    BY <1>3, <1>8, OpAssumption DEF Goes, Ends, Updating, Meta
  <2>2. m \in Map /\ Goes(p) \in Steps
    BY <1>3, <2>1, MapFacts DEF Steps
  <2>3. Goto(p, Goes(p), m)
    BY <1>1, <1>8
  <2>4. /\ pc' \in [Proc -> Steps \cup {"idle"}] /\ call' \in [Proc -> {NoCall} \cup CallType]
        /\ pc'[p] = Goes(p) /\ call'[p] \in CallType /\ call'[p].data = m
        /\ call'[p].op = call[p].op /\ call'[p].name = call[p].name
        /\ \A q \in Proc \ {p} : pc'[q] = pc[q] /\ call'[q] = call[q]
        /\ UNCHANGED <<ack, overlap, crashes>>
    <3> HIDE DEF m
    <3> QED
      BY <1>1, <1>2, <2>2, <2>3, GotoEffect
  <2>5. TypeOK'
    BY <1>1, <1>2, <2>4 DEF TypeOK, CallType, Steps
  <2>6. ShapeAt(p)'
    BY <1>1, <1>2, <2>1, <2>4 DEF ShapeOK, ShapeAt, Saving
  <2>7. TmpOwned'
    BY <1>1, <1>2, <2>4 DEF TmpOwned
  <2>8. ASSUME ~overlap PROVE FilesOK' /\ Kept' /\ MemoryOK(p)' /\ TmpOK(p)' /\ EntryOK(p)'
    <3>1. Kept'
      BY <1>5, <2>4, <2>8 DEF IInv, Kept
    <3>2. MemoryOK(p)' /\ TmpOK(p)'
      BY <1>4, <1>6, <2>1, <2>4, <2>8 DEF MemoryOK, TmpOK, Saving
    <3>3. LoadSidecar[call[p].name] = NoMeta => call[p].name \notin Seen
      BY <1>3, <1>6, <2>8, MapFacts DEF Reconciled, Seen
    <3>4. LoadSidecar[call[p].name].type = "lnk" => call[p].name \notin Seen
      BY <1>3, <1>6, <2>8 DEF FilesOK
    <3>5. Seen' = Seen
      BY <1>1 DEF Seen
    <3>6. Goes(p) = "open" => Found(p).type # "lnk"
      BY <1>6, <2>1, <2>8, MapFacts DEF EntryOK
    <3>7. EntryOK(p)'
      BY <1>4, <1>6, <2>1, <2>4, <2>8, <3>3, <3>4, <3>5, <3>6 DEF EntryOK, Saving
    <3> QED
      BY <1>6, <2>8, <3>1, <3>2, <3>7
  <2> QED
    BY <1>1, <2>4, <2>5, <2>6, <2>7, <2>8, ByStep
<1> QED
  BY <1>7, <1>8

(* OpenFile: the file it creates has an entry, so there is nothing to heal.*)
LEMMA OpenFileIInv == ASSUME IInv, NEW p \in Proc, OpenFile(p) PROVE IInv'
<1> DEFINE m == IF call[p].op = "open" THEN Given ELSE Found(p)
<1>1. /\ pc[p] = "open" /\ disk' = disk \cup {call[p].name}
      /\ UNCHANGED <<node, content, fd, crashes>> /\ Returns(p, m)
  BY DEF OpenFile
<1>2. TypeOK /\ ShapeOK /\ TmpOwned
  BY DEF IInv, Always
<1>3. /\ call[p] \in CallType /\ call[p].name \in Name
      /\ m \in Meta \cup {NoMeta, Unknown} /\ Found(p) = call[p].data[call[p].name]
  BY <1>1, <1>2, MapFacts DEF ShapeOK, ShapeAt, CallType, Map, Found
<1>4. TmpOwned'
  <2>1. pc' = [pc EXCEPT ![p] = "idle"]
    BY <1>1 DEF Returns
  <2> QED
    BY <1>1, <1>2, <2>1 DEF TmpOwned, TypeOK
<1>5. LoadSidecar' = LoadSidecar
  BY <1>1, SameLoad
<1>6. ASSUME ~overlap
      PROVE  /\ FilesOK' /\ \A n \in Name : Lookup(n)' = Lookup(n)
             /\ Lookup(call[p].name) = m
  <2>1. MemoryOK(p) /\ EntryOK(p) /\ FilesOK
    BY <1>1, <1>6 DEF IInv, PlanOK
  <2>2. /\ call[p].data = LoadSidecar /\ Reconciled(LoadSidecar) = LoadSidecar
        /\ LoadSidecar[call[p].name] # NoMeta /\ LoadSidecar[call[p].name].type # "lnk"
        /\ call[p].op = "open" => LoadSidecar[call[p].name] = Given
    BY <1>1, <2>1 DEF MemoryOK, EntryOK
  <2>3. FilesOK'
    BY <1>1, <1>5, <2>1, <2>2 DEF FilesOK, Seen
  <2>4. \A n \in Name : Lookup(n)' = Lookup(n)
    BY <1>1, <1>5, <2>2 DEF Lookup, Reconciled
  <2> QED
    BY <1>3, <2>2, <2>3, <2>4 DEF Lookup
<1> HIDE DEF m
<1> QED
  BY <1>1, <1>2, <1>3, <1>4, <1>6, ReturnIInv DEF TypeOK

(* HostFile: only the name of the call is touched.                         *)
LEMMA HostFileIInv == ASSUME IInv, NEW p \in Proc, HostFile(p) PROVE IInv'
<1>1. /\ pc[p] = "host"
      /\ disk' = IF call[p].op = "create" THEN disk \cup {call[p].name}
                 ELSE disk \ {call[p].name}
      /\ UNCHANGED <<node, content, fd>> /\ Goto(p, "reload", Empty)
  BY DEF HostFile
<1>2. TypeOK /\ ShapeOK /\ TmpOwned
  BY DEF IInv, Always
<1>3. call[p].name \in Name /\ call[p].op \in {"create", "unlink"}
  BY <1>1, <1>2 DEF ShapeOK, ShapeAt, CallType
<1>4. /\ pc' \in [Proc -> Steps \cup {"idle"}] /\ call' \in [Proc -> {NoCall} \cup CallType]
      /\ pc'[p] = "reload" /\ call'[p] \in CallType
      /\ call'[p].op = call[p].op /\ call'[p].name = call[p].name
      /\ \A q \in Proc \ {p} : pc'[q] = pc[q] /\ call'[q] = call[q]
      /\ UNCHANGED <<ack, overlap, crashes>>
  BY <1>1, <1>2, MapFacts, GotoEffect DEF Steps
<1>5. TypeOK'
  BY <1>1, <1>2, <1>3, <1>4 DEF TypeOK, CallType, Steps
<1>6. ShapeAt(p)'
  BY <1>1, <1>2, <1>3, <1>4 DEF ShapeOK, ShapeAt, Saving, Updating
<1>7. TmpOwned'
  BY <1>1, <1>2, <1>4 DEF TmpOwned
<1>8. ASSUME ~overlap PROVE FilesOK' /\ Kept' /\ MemoryOK(p)' /\ TmpOK(p)' /\ EntryOK(p)'
  <2>1. EntryOK(p) /\ FilesOK /\ LoadSidecar' = LoadSidecar
    BY <1>1, <1>8, SameLoad DEF IInv, PlanOK
  <2>2. call[p].op = "create" => LoadSidecar[call[p].name].type # "lnk"
    BY <1>1, <2>1, MapFacts DEF EntryOK
  <2>3. FilesOK'
    BY <1>1, <2>1, <2>2 DEF FilesOK, Seen
  <2>4. \A n \in Name \ {call[p].name} : Lookup(n)' = Lookup(n)
    BY <1>1, <2>1 DEF Lookup, Reconciled
  <2>5. Kept'
    BY <1>3, <1>4, <1>8, <2>1, <2>4 DEF IInv, Kept, EntryOK
  <2>6. MemoryOK(p)' /\ TmpOK(p)'
    BY <1>4 DEF MemoryOK, TmpOK, Saving
  <2>7. EntryOK(p)'
    BY <1>1, <1>3, <1>4, <2>1 DEF EntryOK, Saving, Seen
  <2> QED
    BY <2>3, <2>5, <2>6, <2>7
<1> QED
  BY <1>1, <1>4, <1>5, <1>6, <1>7, <1>8, ByStep

(* Reload: the sidecar is read again and the entry changed in memory.      *)
LEMMA ReloadIInv == ASSUME IInv, NEW p \in Proc, Reload(p) PROVE IInv'
<1> DEFINE m == [LoadSidecar EXCEPT ![call[p].name] = Updated(call[p].op, @)]
<1>1. /\ pc[p] = "reload" /\ Migrate
      /\ pc' = [pc EXCEPT ![p] = "trunc"]
      /\ call' = [call EXCEPT ![p].ret = "idle", ![p].data = m]
      /\ UNCHANGED <<ack, overlap, crashes>>
  BY DEF Reload
<1>2. TypeOK /\ ShapeOK /\ TmpOwned
  BY DEF IInv, Always
<1>3. call[p] \in CallType /\ call[p].name \in Name /\ call[p].op \in Updating
  BY <1>1, <1>2 DEF ShapeOK, ShapeAt, CallType
<1>4. /\ node' \in [Sidecars -> Inode \cup {None}] /\ node'["tmp"] = node["tmp"]
      /\ LoadSidecar' = LoadSidecar
      /\ {node'["meta"], node'["legacy"]} \subseteq {node["meta"], node["legacy"], None}
      /\ UNCHANGED <<disk, content, fd>>
  BY <1>1, <1>2, MigrateSame
<1>5. m \in Map
  <2>1. LoadSidecar \in Map
    BY <1>2, LoadType
  <2>2. Updated(call[p].op, LoadSidecar[call[p].name]) \in Meta \cup {NoMeta}
    BY <1>3, <2>1, UpdatedType DEF Map
  <2> QED
    BY <1>3, <2>1, <2>2 DEF Map
<1>6. m = [LoadSidecar EXCEPT ![call[p].name] = Updated(call[p].op, LoadSidecar[call[p].name])]
  OBVIOUS
<1> HIDE DEF m
<1>7. /\ pc' \in [Proc -> Steps \cup {"idle"}] /\ call' \in [Proc -> {NoCall} \cup CallType]
      /\ pc'[p] = "trunc" /\ call'[p] \in CallType /\ call'[p].data = m
      /\ call'[p].op = call[p].op /\ call'[p].name = call[p].name /\ call'[p].ret = "idle"
      /\ \A q \in Proc \ {p} : pc'[q] = pc[q] /\ call'[q] = call[q]
  BY <1>1, <1>2, <1>3, <1>5 DEF TypeOK, CallType, Steps
<1>8. TypeOK'
  BY <1>1, <1>2, <1>4, <1>7 DEF TypeOK, CallType, Steps
<1>9. ShapeAt(p)'
  BY <1>1, <1>2, <1>3, <1>4, <1>7 DEF ShapeOK, ShapeAt, Saving
<1>10. TmpOwned'
  BY <1>1, <1>2, <1>4, <1>7 DEF TmpOwned
<1>11. ASSUME ~overlap PROVE FilesOK' /\ Kept' /\ MemoryOK(p)' /\ TmpOK(p)' /\ EntryOK(p)'
  <2>1. EntryOK(p) /\ FilesOK
    BY <1>1, <1>11 DEF IInv, PlanOK
  <2>2. FilesOK'
    BY <1>4, <2>1 DEF FilesOK, Seen
  <2>3. \A n \in Name : Lookup(n)' = Lookup(n)
    BY <1>4 DEF Lookup, Reconciled
  <2>4. Kept'
    BY <1>1, <1>11, <2>3 DEF IInv, Kept
  <2>5. MemoryOK(p)' /\ TmpOK(p)'
    BY <1>4, <1>6, <1>7 DEF MemoryOK, TmpOK, Saving
  <2>6. EntryOK(p)'
    BY <1>1, <1>4, <1>7, <2>1 DEF EntryOK, Saving, Seen
  <2> QED
    BY <2>2, <2>4, <2>5, <2>6
<1> QED
  BY <1>1, <1>4, <1>7, <1>8, <1>9, <1>10, <1>11, ByStep

(* Crash: the sidecar in use has a name and stays.                         *)
LEMMA CrashIInv == ASSUME IInv, Crash PROVE IInv'
<1>1. /\ crashes < MaxCrash /\ ~overlap /\ crashes' = crashes + 1
      /\ pc' = [p \in Proc |-> "idle"] /\ call' = [p \in Proc |-> NoCall]
      /\ fd' = [p \in Proc |-> None] /\ UNCHANGED <<disk, node, ack, overlap>>
      /\ Holds(content)
  BY DEF Crash
<1>2. TypeOK /\ FilesOK /\ Kept /\ content \in [Inode -> Map \cup {Torn}]
  BY <1>1 DEF IInv, Always, TypeOK
<1>3. content' \in [Inode -> Map \cup {Torn}]
  BY <1>1, <1>2, HoldsType
<1>4. LoadSidecar' = LoadSidecar
  BY <1>1, <1>2, HoldsLoad
<1>5. TypeOK'
  BY <1>1, <1>2, <1>3, CrashAssumption DEF TypeOK
<1>6. ShapeOK' /\ Solo' /\ PlanOK'
  BY <1>1 DEF ShapeOK, ShapeAt, Solo, PlanOK, Saving
<1>7. TmpOwned'
  BY <1>1, <1>2, CrashAssumption DEF TypeOK, TmpOwned
<1>8. FilesOK'
  BY <1>1, <1>2, <1>4 DEF FilesOK, Seen
<1>9. Kept'
  BY <1>1, <1>2, <1>4 DEF Kept, Lookup, Reconciled
<1> QED
  BY <1>5, <1>6, <1>7, <1>8, <1>9 DEF IInv, Always

-----------------------------------------------------------------------------
(* The directory as it is found.                                           *)
LEMMA InitIInv == Init => IInv
<1> SUFFICES ASSUME Init PROVE IInv
  OBVIOUS
<1>1. PICK n \in Name \cup {None}, legacy \in Inode :
          /\ n \notin disk
          /\ node = [s \in Sidecars |-> IF s = "legacy" /\ n # None THEN legacy ELSE None]
          /\ content = [i \in Inode |->
                [m \in Name |-> IF i = legacy /\ m = n THEN [type |-> "lnk", mode |-> "given"]
                                ELSE NoMeta]]
  BY DEF Init
<1>2. /\ disk \subseteq Name /\ fd = [p \in Proc |-> None] /\ pc = [p \in Proc |-> "idle"]
      /\ call = [p \in Proc |-> NoCall] /\ ack = [m \in Name |-> Lookup(m)]
      /\ overlap = FALSE /\ crashes = 0
  BY DEF Init
<1>3. node \in [Sidecars -> Inode \cup {None}] /\ node["tmp"] = None
  BY <1>1 DEF Sidecars
<1>4. content \in [Inode -> Map \cup {Torn}]
  <2>1. [type |-> "lnk", mode |-> "given"] \in Meta
    BY DEF Meta
  <2> QED
    BY <1>1, <2>1 DEF Map
<1>5. LoadSidecar \in Map
  BY <1>3, <1>4, MapFacts DEF LoadSidecar, Current, Sidecars
<1>6. ack \in [Name -> Meta \cup {NoMeta, Unknown}]
  BY <1>2, <1>5, ReconciledType DEF Lookup, Map
<1>7. TypeOK
  <2>1. overlap \in BOOLEAN
    BY <1>2
  <2>2. crashes \in 0..MaxCrash
    BY <1>2, CrashAssumption
  <2>3. /\ fd \in [Proc -> Inode \cup {None}]
        /\ pc \in [Proc -> {"idle"}] /\ call \in [Proc -> {NoCall}]
    BY <1>2
  <2> QED
    BY <1>2, <1>3, <1>4, <1>6, <2>1, <2>2, <2>3 DEF TypeOK
<1>8. ShapeOK /\ TmpOwned /\ Solo /\ PlanOK
  BY <1>2, <1>3 DEF ShapeOK, ShapeAt, TmpOwned, Solo, PlanOK, Saving
<1>9. ASSUME NEW m \in Name, LoadSidecar[m].type = "lnk" PROVE m \notin Seen
  <2>1. Empty[m].type # "lnk"
    BY MapFacts DEF Empty
  <2>2. PICK i \in Inode : content[i][m].type = "lnk"
    BY <1>3, <1>9, <2>1 DEF LoadSidecar, Current, Sidecars
  <2>3. m = n
    BY <1>1, <2>2, MapFacts
  <2> QED
    BY <1>1, <2>3 DEF Seen
<1>10. FilesOK /\ Kept
  BY <1>2, <1>3, <1>9 DEF FilesOK, Kept
<1> QED
  BY <1>7, <1>8, <1>10 DEF IInv, Always

LEMMA StepIInv == IInv /\ [Next]_vars => IInv'
<1> SUFFICES ASSUME IInv, [Next]_vars PROVE IInv'
  OBVIOUS
<1>1. CASE \E p \in Proc, o \in Op, n \in Name : Begin(p, o, n)
  BY <1>1, BeginIInv
<1>2. ASSUME NEW p \in Proc,
             Load(p) \/ List(p) \/ Decide(p) \/ HostFile(p) \/ OpenFile(p) \/ Reload(p)
      PROVE  IInv'
  BY <1>2, LoadIInv, ListIInv, DecideIInv, HostFileIInv, OpenFileIInv, ReloadIInv
<1>3. ASSUME NEW p \in Proc, NEW i \in Inode, Trunc(p, i) PROVE IInv'
  BY <1>3, TruncIInv
<1>4. ASSUME NEW p \in Proc, Write(p) \/ Rename(p) \/ RenameFails(p) PROVE IInv'
  BY <1>4, WriteIInv, RenameIInv, RenameFailsIInv
<1>5. CASE Crash
  BY <1>5, CrashIInv
<1>6. CASE UNCHANGED vars
  <2>1. UNCHANGED <<disk, node, content, fd, pc, call, ack, overlap, crashes>>
    BY <1>6 DEF vars, files
  <2>2. Always'
    BY <2>1 DEF IInv, Always, TypeOK, ShapeOK, ShapeAt, TmpOwned
  <2>3. LoadSidecar' = LoadSidecar /\ \A x : Reconciled(x)' = Reconciled(x)
    BY <2>1, SameLoad DEF Reconciled
  <2>4. ~overlap' => Solo' /\ FilesOK'
    BY <2>1, <2>3 DEF IInv, Solo, FilesOK, Seen
  <2>5. ~overlap' => Kept'
    BY <2>1, <2>3 DEF IInv, Kept, Lookup
  <2>6. ~overlap' => PlanOK'
    <3>1. ASSUME NEW p \in Proc
          PROVE  /\ MemoryOK(p)' <=> MemoryOK(p)
                 /\ TmpOK(p)' <=> TmpOK(p)
                 /\ EntryOK(p)' <=> EntryOK(p)
      <4>1. MemoryOK(p)' <=> MemoryOK(p)
        BY <2>1, <2>3 DEF MemoryOK
      <4>2. TmpOK(p)' <=> TmpOK(p)
        BY <2>1 DEF TmpOK
      <4>3. EntryOK(p)' <=> EntryOK(p)
        BY <2>1, <2>3 DEF EntryOK, Seen
      <4> QED
        BY <4>1, <4>2, <4>3
    <3> QED
      BY <2>1, <3>1 DEF IInv, PlanOK
  <2> QED
    BY <2>2, <2>4, <2>5, <2>6 DEF IInv
<1> QED
  BY <1>1, <1>2, <1>3, <1>4, <1>5, <1>6 DEF Next

(* Safety.  The plan of every call holds in every reachable state.         *)
THEOREM Inductive == Spec => []IInv
  BY InitIInv, StepIInv, PTL DEF Spec

(* Safety.  Every variable keeps its type: a file that is in use holds a   *)
(* map or is torn, however the goroutines' saves interleave.               *)
THEOREM TypeCorrect == Spec => []TypeOK
<1>1. IInv => TypeOK
  BY DEF IInv, Always
<1> QED
  BY <1>1, Inductive, PTL

(* Safety.  As long as calls are made one after the other, what a call on  *)
(* a name left when it returned is what the next call finds, wherever and  *)
(* however often the emulator is killed in between: WriteFile to the       *)
(* temporary file and Rename never lose or tear an entry.                  *)
THEOREM NothingLost == Spec => []AckedKept
<1>1. IInv => AckedKept
  BY DEF IInv, AckedKept
<1> QED
  BY <1>1, Inductive, PTL

(* Safety.  However many goroutines' saves interleave, no temporary file   *)
(* is left once no call is in progress, unless the emulator was killed.    *)
THEOREM NoTmpFile == Spec => []NoTmpLeft
<1>1. IInv => NoTmpLeft
  BY DEF IInv, Always, TmpOwned, NoTmpLeft
<1> QED
  BY <1>1, Inductive, PTL
=============================================================================
