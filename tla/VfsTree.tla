------------------------------ MODULE VfsTree ------------------------------
(***************************************************************************)
(* internal/vfs: the operations on the tree.  What the guest sees is kept  *)
(* in two places: the host's own tree holds directories and the content of *)
(* regular files, and the sidecar in each host directory holds an entry    *)
(* for each name; symbolic links have only an entry.  A lookup heals:      *)
(* what the host has and the sidecar has not is given an entry.  One       *)
(* goroutine; Sidecar.tla has what happens inside one directory.           *)
(***************************************************************************)
EXTENDS Integers, Sequences

CONSTANTS Path,      \* bound: the paths used, sequences of names
          NewPath,   \* bound: those that a call may give to something new
          TmpPath,   \* those that os.CreateTemp may choose for O_TMPFILE
          Data       \* what a regular file may hold, "empty" among it

ASSUME DataAssumption == "empty" \in Data /\ Data \cap {"none", "dir"} = {}

VARIABLES host,   \* host[p]: "none", "dir" or the content of a regular file
          side,   \* side[p]: the entry of p in the sidecar of its directory
          has,    \* the directories whose host directory has a sidecar file
          tmp,    \* tmp[t]: an O_TMPFILE handle, "none", "open" or "closed"
          res     \* what the last call returned, "ok" or "err"

vars == <<host, side, has, tmp, res>>

Root == <<>>
Parent(p) == SubSeq(p, 1, Len(p) - 1)
Below(r, p) == Len(r) > Len(p) /\ SubSeq(r, 1, Len(p)) = p

(* With a path come those above it; what os.CreateTemp makes up is not a   *)
(* name that a call gives to something new, nor above one.                 *)
ASSUME PathAssumption ==
    /\ \A p \in Path : p \in Seq(STRING) /\ Len(p) > 0
    /\ \A p \in Path : \A k \in 1..Len(p) : SubSeq(p, 1, k) \in Path
    /\ NewPath \subseteq Path /\ TmpPath \subseteq Path
    /\ \A t \in TmpPath, p \in NewPath : p # t /\ ~Below(p, t)

IsHostDir(d) == IF d = Root THEN TRUE ELSE host[d] = "dir"

NoMeta == [type |-> "none", mode |-> "none"]
Given(t) == [type |-> t, mode |-> "given"]

Init ==
    /\ host = [p \in Path |-> "none"]
    /\ side = [p \in Path |-> NoMeta]
    /\ has = {Root}
    /\ tmp = [t \in TmpPath |-> "none"]
    /\ res = "ok"

-----------------------------------------------------------------------------
(* reconcile: the entry that something found on the host is given.         *)
Autoheal(h) == [type |-> IF h = "dir" THEN "dir" ELSE "reg", mode |-> "heal"]
Unregistered(p) == host[p] # "none" /\ side[p] = NoMeta
Entry(p) == IF Unregistered(p) THEN Autoheal(host[p]) ELSE side[p]

(* The sidecars after lookups in the directories D, and who has one then.  *)
Healed(D) == [p \in Path |-> IF Parent(p) \in D THEN Entry(p) ELSE side[p]]
HealedHas(D) == has \cup {Parent(p) : p \in {x \in Path : Parent(x) \in D /\ Unregistered(x)}}

(* A call returns r, having changed what it changed.                       *)
Leaves(h, s, hs, r) == host' = h /\ side' = s /\ has' = hs /\ res' = r
Fails(D) == Leaves(host, Healed(D), HealedHas(D), "err")

(* os.MkdirAll(d): it fails if one of the names on the way is a file.      *)
Above(d) == {r \in Path : r = d \/ Below(d, r)}
Blocked(d) == \E r \in Above(d) : host[r] \notin {"none", "dir"}
Made(d) == [r \in Path |-> IF r \in Above(d) /\ host[r] = "none" THEN "dir" ELSE host[r]]

(* register needs a directory to save the sidecar in.                      *)
CanRegister(p) == IsHostDir(Parent(p))

-----------------------------------------------------------------------------
(* stat, access, readlink: a lookup.                                       *)
Stat(p) ==
    LET D == {Parent(p)} IN
    /\ Leaves(host, Healed(D), HealedHas(D), IF Entry(p) = NoMeta THEN "err" ELSE "ok")
    /\ UNCHANGED tmp

Mkdir(p) ==
    LET D == {Parent(p)} IN
    /\ IF Entry(p) # NoMeta \/ Blocked(p) THEN Fails(D)
       ELSE Leaves(Made(p), [Healed(D) EXCEPT ![p] = Given("dir")], HealedHas(D) \cup D, "ok")
    /\ UNCHANGED tmp

(* openCommon with O_CREAT, of a path in which followSymlinks has left no  *)
(* link: CreateFile and OpenVFSFile, whose O_CREATE makes a host file for  *)
(* an entry that has none; or NewDirHandle, which lists the directory.     *)
Create(p) ==
    LET D == {Parent(r) : r \in Above(p)} IN
    /\ \A r \in Above(p) : Entry(r).type # "lnk"
    /\ \/ Entry(p) = NoMeta /\ Blocked(Parent(p)) /\ Fails(D)
       \/ /\ Entry(p) = NoMeta
          /\ ~Blocked(Parent(p))
          /\ Leaves([Made(Parent(p)) EXCEPT ![p] = "empty"],
                    [Healed(D) EXCEPT ![p] = Given("reg")], HealedHas(D) \cup {Parent(p)}, "ok")
       \/ /\ Entry(p).type = "dir"
          /\ Leaves(host, Healed(D \cup {p}), HealedHas(D \cup {p}), "ok")
       \/ Entry(p).type = "reg" /\ host[p] = "dir" /\ Fails(D)
       \/ /\ Entry(p).type = "reg" /\ host[p] # "dir"
          /\ Leaves([host EXCEPT ![p] = IF @ = "none" THEN "empty" ELSE @],
                    Healed(D), HealedHas(D), "ok")
    /\ UNCHANGED tmp

(* open without O_CREAT, and write.                                        *)
Write(p, c) ==
    LET D == {Parent(r) : r \in Above(p)} IN
    /\ \A r \in Above(p) : Entry(r).type # "lnk"
    /\ Entry(p).type = "reg"
    /\ IF host[p] \notin Data THEN Fails(D)
       ELSE Leaves([host EXCEPT ![p] = c], Healed(D), HealedHas(D), "ok")
    /\ UNCHANGED tmp

Symlink(p) ==
    LET D == {Parent(p)} IN
    /\ IF Entry(p) # NoMeta \/ ~CanRegister(p) THEN Fails(D)
       ELSE Leaves(host, [Healed(D) EXCEPT ![p] = Given("lnk")], HealedHas(D) \cup D, "ok")
    /\ UNCHANGED tmp

(* os.Remove takes a file, and a directory that the host finds empty: a    *)
(* sidecar in it, be it an empty map, is in the way.                       *)
Children(p) == {r \in Path : Parent(r) = p}
Removable(p) == host[p] = "dir" => p \notin has /\ \A r \in Children(p) : host[r] = "none"

(* Mutation: unregister saves a map of its own, not the one it loaded.     *)
UnlinkEmptiesSidecar(p) ==
    LET D == {Parent(p)} IN
    /\ IF Entry(p).type \in {"none", "dir"} THEN Fails(D)
       ELSE Leaves([host EXCEPT ![p] = IF Entry(p).type = "reg" /\ Removable(p) THEN "none" ELSE @],
                   [r \in Path |-> IF Parent(r) \in D THEN NoMeta ELSE side[r]],
                   HealedHas(D) \cup D, "ok")
    /\ UNCHANGED tmp

(* Unlink removes the host file of a regular file, if the host lets it,    *)
(* and the entry.                                                          *)
Unlink(p) ==
    LET D == {Parent(p)} IN
    /\ IF Entry(p).type \in {"none", "dir"} THEN Fails(D)
       ELSE Leaves([host EXCEPT ![p] = IF Entry(p).type = "reg" /\ Removable(p) THEN "none" ELSE @],
                   [Healed(D) EXCEPT ![p] = NoMeta], HealedHas(D) \cup D, "ok")
    /\ UNCHANGED tmp

(* Rmdir looks for entries, then leaves it to the host.                    *)
Empty(p) == \A r \in Children(p) : Entry(r) = NoMeta

(* Mutation: the entry goes before the host has removed the directory.     *)
RmdirUnregistersFirst(p) ==
    LET D == {Parent(p)} IN
    /\ \/ Entry(p).type # "dir" /\ Fails(D)
       \/ Entry(p).type = "dir" /\ ~Empty(p) /\ Fails(D \cup {p})
       \/ /\ Entry(p).type = "dir" /\ Empty(p)
          /\ Leaves([host EXCEPT ![p] = IF Removable(p) THEN "none" ELSE @],
                    [Healed(D) EXCEPT ![p] = NoMeta], HealedHas(D) \cup D,
                    IF Removable(p) THEN "ok" ELSE "err")
    /\ UNCHANGED tmp

Rmdir(p) ==
    LET D == {Parent(p)} IN
    /\ \/ Entry(p).type # "dir" /\ Fails(D)
       \/ Entry(p).type = "dir" /\ ~(Empty(p) /\ Removable(p)) /\ Fails(D \cup {p})
       \/ /\ Entry(p).type = "dir" /\ Empty(p) /\ Removable(p)
          /\ Leaves([host EXCEPT ![p] = "none"],
                    [Healed(D) EXCEPT ![p] = NoMeta], HealedHas(D) \cup D, "ok")
    /\ UNCHANGED tmp

-----------------------------------------------------------------------------
(***************************************************************************)
(* Rename.  Below(p) moves with a host directory, sidecar included; the    *)
(* entry of p itself is written under q and then removed under p.          *)
(***************************************************************************)
From(r, p, q) == p \o SubSeq(r, Len(q) + 1, Len(r))
Moved(f, p, q, nothing) ==
    [r \in Path |->
        IF r = q \/ Below(r, q) THEN IF From(r, p, q) \in Path THEN f[From(r, p, q)] ELSE nothing
        ELSE IF r = p \/ Below(r, p) THEN nothing ELSE f[r]]

(* Bound: what is in a directory keeps to Path; and it takes no name that  *)
(* os.CreateTemp has made up for a handle that is open.                    *)
Fits(p, q) ==
    host[p] = "dir" =>
        \A r \in Path : Below(r, p) /\ Entry(r) # NoMeta =>
            From(r, q, p) \in Path \ {t \in TmpPath : tmp[t] = "open"}

(* os.Rename of host file p; Go refuses a directory as the new name.       *)
HostRefuses(p, q) ==
    \/ host[q] = "dir"
    \/ host[p] = "dir" /\ (host[q] # "none" \/ Below(q, p))

HasMoved(S, p, q) == {IF d = p \/ Below(d, p) THEN From(d, q, p) ELSE d : d \in S}

(* Mutation: the old entry is left behind.                                 *)
RenamedNoUnregister(s, p, q) == [s EXCEPT ![q] = s[p]]

(* Mutation: the new entry is left to reconcile.                           *)
RenamedNoRegister(s, p, q) == [s EXCEPT ![p] = NoMeta]

(* register of what p was under q, unregister of p.                        *)
Renamed(s, p, q) == [[s EXCEPT ![q] = s[p]] EXCEPT ![p] = NoMeta]

Rename(p, q) ==
    LET D == {Parent(p)}
        s == Healed(D)
        onHost == s[p].type \in {"reg", "dir"} /\ host[p] # "none"
        registered == HealedHas(D) \cup {Parent(p), Parent(q)}
        movedHost == Moved(host, p, q, "none")
        movedSide == Moved(s, p, q, NoMeta)
    IN
    /\ Fits(p, q)
    /\ \/ s[p] = NoMeta /\ Fails(D)
       \/ s[p] # NoMeta /\ ~onHost /\ ~CanRegister(q) /\ Fails(D)
       \/ /\ s[p] # NoMeta /\ ~onHost /\ CanRegister(q)
          /\ Leaves(host, Renamed(s, p, q), registered, "ok")
       \/ onHost /\ Blocked(Parent(q)) /\ Fails(D)
       \/ /\ onHost /\ ~Blocked(Parent(q)) /\ HostRefuses(p, q)
          /\ Leaves(Made(Parent(q)), s, HealedHas(D), "err")
       \/ /\ onHost /\ ~Blocked(Parent(q)) /\ ~HostRefuses(p, q)
          /\ Leaves([r \in Path |-> IF r \in Above(Parent(q)) /\ host[r] = "none" THEN "dir"
                                    ELSE movedHost[r]],
                    Renamed([r \in Path |-> IF r \in {p, q} THEN s[r] ELSE movedSide[r]], p, q),
                    HasMoved(registered, p, q), "ok")
    /\ UNCHANGED tmp

(* Link: a copy of the content and of the entry.                           *)
Link(p, q) ==
    LET D == {Parent(p), Parent(q)}
        copies == Entry(p).type = "reg"
        refused == \/ Entry(p).type \in {"none", "dir"}
                   \/ Entry(q) # NoMeta
                   \/ IF copies THEN Blocked(Parent(q)) ELSE ~CanRegister(q)
        linked == [Healed(D) EXCEPT ![q] = Entry(p)]
    IN
    /\ \/ refused /\ Fails(D)
       \/ /\ ~refused /\ copies /\ host[p] = "none"
          /\ Leaves(Made(Parent(q)), Healed(D), HealedHas(D), "err")
       \/ /\ ~refused /\ copies /\ host[p] = "dir"
          /\ Leaves([Made(Parent(q)) EXCEPT ![q] = "empty"], Healed(D), HealedHas(D), "err")
       \/ /\ ~refused /\ copies /\ host[p] \in Data
          /\ Leaves([Made(Parent(q)) EXCEPT ![q] = host[p]],
                    linked, HealedHas(D) \cup {Parent(q)}, "ok")
       \/ ~refused /\ ~copies /\ Leaves(host, linked, HealedHas(D) \cup {Parent(q)}, "ok")
    /\ UNCHANGED tmp

-----------------------------------------------------------------------------
(***************************************************************************)
(* O_TMPFILE: a host file in the directory, with a name of its own and no  *)
(* entry, to be copied under its real name by linkat.  The handle keeps    *)
(* the host path, wherever the directory has gone meanwhile.               *)
(***************************************************************************)
TmpOpen(t, c) ==
    LET d == Parent(t)
        D == IF d = Root THEN {} ELSE {Parent(d)}
    IN
    /\ tmp[t] = "none" /\ Entry(t) = NoMeta
    /\ IF IF d = Root THEN TRUE ELSE Entry(d).type = "dir" /\ host[d] = "dir"
       THEN /\ Leaves([host EXCEPT ![t] = c], Healed(D), HealedHas(D), "ok")
            /\ tmp' = [tmp EXCEPT ![t] = "open"]
       ELSE Fails(D) /\ UNCHANGED tmp

TmpLink(t, q) ==
    LET D == {Parent(q)} IN
    /\ tmp[t] = "open"
    /\ \/ (Entry(q) # NoMeta \/ Blocked(Parent(q))) /\ Fails(D) /\ UNCHANGED tmp
       \/ /\ Entry(q) = NoMeta /\ ~Blocked(Parent(q)) /\ host[t] = "none"
          /\ Leaves(Made(Parent(q)), Healed(D), HealedHas(D), "err")
          /\ UNCHANGED tmp
       \/ /\ Entry(q) = NoMeta /\ ~Blocked(Parent(q)) /\ host[t] # "none"
          /\ Leaves([Made(Parent(q)) EXCEPT ![q] = host[t], ![t] = "none"],
                    [Healed(D) EXCEPT ![q] = Given("reg")], HealedHas(D) \cup D, "ok")
          /\ tmp' = [tmp EXCEPT ![t] = "closed"]

(* The host file stays.                                                    *)
TmpClose(t) ==
    /\ tmp[t] = "open"
    /\ tmp' = [tmp EXCEPT ![t] = "closed"]
    /\ res' = "ok"
    /\ UNCHANGED <<host, side, has>>

Next ==
    \/ \E p \in Path : Stat(p) \/ Rmdir(p) \/ Unlink(p)
    \/ \E p \in NewPath : Mkdir(p) \/ Create(p) \/ Symlink(p)
    \/ \E p \in Path, c \in Data : Write(p, c)
    \/ \E p \in Path, q \in NewPath : Rename(p, q) \/ (p # q /\ Link(p, q))
    \/ \E t \in TmpPath, c \in Data : TmpOpen(t, c)
    \/ \E t \in TmpPath, q \in NewPath : TmpLink(t, q)
    \/ \E t \in TmpPath : TmpClose(t)

Spec == Init /\ [][Next]_vars

-----------------------------------------------------------------------------
(* What the guest sees under a name.                                       *)
View(p) == <<Entry(p), IF Entry(p).type = "reg" /\ host[p] \in Data THEN host[p] ELSE "none">>
Nothing == <<NoMeta, "none">>

(* A directory that os.MkdirAll made on the way, healed when it is seen.   *)
MadeOnTheWay(r) == View(r) = Nothing /\ View(r)' = <<Autoheal("dir"), "none">>

(* The names C are those in S, below them or made on the way to them.      *)
OnlyIn(C, S) ==
    \A r \in C : \E p \in S : r = p \/ Below(r, p) \/ (Below(p, r) /\ MadeOnTheWay(r))

(* Every regular file that is seen has a host file.                        *)
NoGhost == \A p \in Path : Entry(p).type = "reg" => host[p] \in Data

(* Action property.  A call changes what is seen under the names it was    *)
(* given and nowhere else: no entry is lost, uncovered or brought back by  *)
(* a call that is about another one, and a lookup changes nothing.         *)
LocalEffect ==
    [][LET C == {r \in Path : View(r)' # View(r)} IN
       C # {} =>
           /\ \A p \in Path : ~Stat(p) /\ (OnlyIn(C, {p}) \/ ~(Unlink(p) \/ Rmdir(p)))
           /\ \A p \in NewPath : OnlyIn(C, {p}) \/ ~(Mkdir(p) \/ Create(p) \/ Symlink(p))
           /\ \A p \in Path, q \in NewPath : (OnlyIn(C, {p, q}) \/ ~Rename(p, q))
                                           /\ (OnlyIn(C, {q}) \/ ~Link(p, q))]_vars

(* Action property.  Unless a regular file has lost its host file, a call  *)
(* that fails leaves what is seen as it was, but for directories made on   *)
(* the way.                                                                *)
FailureIsClean ==
    [][res' = "err" /\ NoGhost =>
           \A r \in Path : View(r)' = View(r) \/ MadeOnTheWay(r)]_vars

(* The entry of p and the host agree about what p is.                      *)
Agrees(p) ==
    CASE side[p].type = "dir" -> host[p] = "dir"
      [] side[p].type = "reg" -> host[p] \in Data
      [] side[p].type = "lnk" -> host[p] = "none"
      [] OTHER                -> TRUE

(* Action property.  A rename to another name that succeeds moves the      *)
(* entry, its content and everything below it, whatever was under the new  *)
(* name before.                                                            *)
RenameMoves ==
    [][\A p \in Path, q \in NewPath :
          res' = "ok" /\ p # q /\ side[p] # NoMeta /\ Agrees(p) =>
              \/ /\ View(q)' = View(p)
                 /\ View(p)' = Nothing
                 /\ \A r \in Path : Below(r, p) /\ View(r) # Nothing =>
                        From(r, q, p) \in Path /\ View(From(r, q, p))' = View(r)
              \/ ~Rename(p, q)]_vars

(* Safety.  A directory that is seen is a directory of the host, which can *)
(* hold a sidecar; unless O_TMPFILE was used, a regular file that is seen  *)
(* is a file of the host.  No sequence of calls separates the two trees.   *)
EntryHasHost ==
    \A p \in Path :
        /\ side[p].type = "dir" => host[p] = "dir"
        /\ side[p].type = "reg" /\ (\A t \in TmpPath : tmp[t] = "none") => host[p] \in Data
=============================================================================
