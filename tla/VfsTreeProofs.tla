--------------------------- MODULE VfsTreeProofs ---------------------------
(***************************************************************************)
(* Proofs about VfsTree, for every finite or infinite set of paths that    *)
(* is closed upwards: that the host's tree and the sidecars never come     *)
(* apart, whatever is created, removed, renamed and linked.                *)
(*                                                                         *)
(* EntryHasHost is not inductive: a rename that moves a directory needs    *)
(* the host's tree to be one, an os.Remove that takes a directory needs to *)
(* know that nothing has an entry below it, and linkat of an O_TMPFILE     *)
(* file needs its name not to have become a directory's.                   *)
(***************************************************************************)
EXTENDS VfsTree, SequenceTheorems, TLAPS

Metas == [type : {"dir", "reg", "lnk"}, mode : {"given", "heal"}]

(* The same of a host tree h, sidecars s and directories hs with sidecars. *)
Typed(h, s) == h \in [Path -> Data \cup {"none", "dir"}] /\ s \in [Path -> Metas \cup {NoMeta}]
DirsAgree(h, s) == \A p \in Path : s[p].type = "dir" => h[p] = "dir"
FilesAgree(h, s) == \A p \in Path : s[p].type = "reg" => h[p] \in Data

(* All that is above something is a directory of the host.                 *)
Rooted(h, s) ==
    \A r \in Path : h[r] # "none" \/ s[r] # NoMeta =>
        \A a \in Path : Below(r, a) => h[a] = "dir"

(* An entry is in a sidecar.                                               *)
InSidecar(s, hs) == \A r \in Path : s[r] # NoMeta => Parent(r) \in hs

(* The name of an O_TMPFILE file that is open is no directory's.           *)
TmpIsFile(h, tm) == \A t \in TmpPath : tm[t] = "open" => h[t] # "dir"

NoTmp == \A t \in TmpPath : tmp[t] = "none"
Good(h, s, hs) == Typed(h, s) /\ DirsAgree(h, s) /\ Rooted(h, s) /\ InSidecar(s, hs)

IInv ==
    /\ Good(host, side, has)
    /\ tmp \in [TmpPath -> {"none", "open", "closed"}]
    /\ TmpIsFile(host, tmp)
    /\ NoTmp => FilesAgree(host, side)

-----------------------------------------------------------------------------
(***************************************************************************)
(* Paths.  Everything about what is above and below follows from two       *)
(* facts: a path is below another if it is longer and agrees with it as    *)
(* far as that goes, and From replaces what a path begins with.            *)
(***************************************************************************)
Paths == Seq(STRING)
Within(r, p) == r = p \/ Below(r, p)
Agree(r, p) == \A i \in 1..Len(p) : r[i] = p[i]

LEMMA PathFacts ==
    ASSUME NEW p \in Path PROVE p \in Paths /\ Len(p) \in Nat /\ Len(p) > 0
  BY PathAssumption, LenProperties DEF Paths

LEMMA PrefixFacts ==
    ASSUME NEW p \in Paths, NEW k \in 0..Len(p)
    PROVE  /\ SubSeq(p, 1, k) \in Paths /\ Len(SubSeq(p, 1, k)) = k
           /\ \A i \in 1..k : SubSeq(p, 1, k)[i] = p[i]
<1>1. Len(p) \in Nat /\ \A i \in 1..k : p[i] \in STRING
  BY LenProperties, ElementOfSeq DEF Paths
<1>2. /\ SubSeq(p, 1, k) \in Seq(STRING)
      /\ Len(SubSeq(p, 1, k)) = IF 1 <= k THEN k - 1 + 1 ELSE 0
      /\ \A i \in 1..(k - 1 + 1) : SubSeq(p, 1, k)[i] = p[1 + i - 1]
  BY <1>1, SubSeqProperties
<1> QED
  BY <1>1, <1>2 DEF Paths

LEMMA SamePath ==
    ASSUME NEW r \in Paths, NEW p \in Paths, Len(r) = Len(p), Agree(r, p) PROVE r = p
  BY SeqEqual DEF Paths, Agree

LEMMA BelowIsAgree ==
    ASSUME NEW r \in Paths, NEW p \in Paths
    PROVE  Below(r, p) <=> Len(r) > Len(p) /\ Agree(r, p)
<1>1. Len(r) \in Nat /\ Len(p) \in Nat
  BY LenProperties DEF Paths
<1>2. CASE Len(r) > Len(p)
  <2> DEFINE s == SubSeq(r, 1, Len(p))
  <2>1. s \in Paths /\ Len(s) = Len(p) /\ \A i \in 1..Len(p) : s[i] = r[i]
    BY <1>1, <1>2, PrefixFacts
  <2>2. Agree(r, p) => s = p
    <3> HIDE DEF s
    <3> QED
      BY <2>1, SamePath DEF Agree
  <2>3. s = p => Agree(r, p)
    BY <2>1 DEF Agree
  <2> QED
    BY <1>2, <2>2, <2>3 DEF Below
<1>3. CASE ~(Len(r) > Len(p))
  BY <1>3 DEF Below
<1> QED
  BY <1>2, <1>3

LEMMA WithinIsAgree ==
    ASSUME NEW r \in Paths, NEW p \in Paths
    PROVE  Within(r, p) <=> Len(r) >= Len(p) /\ Agree(r, p)
<1>1. Len(r) \in Nat /\ Len(p) \in Nat
  BY LenProperties DEF Paths
<1>2. r = p => Agree(r, p)
  BY DEF Agree
<1> QED
  BY <1>1, <1>2, BelowIsAgree, SamePath DEF Within

LEMMA WithinTrans ==
    ASSUME NEW a \in Paths, NEW b \in Paths, NEW c \in Paths, Within(a, b), Within(b, c)
    PROVE  Within(a, c) /\ (Below(a, b) \/ Below(b, c) => Below(a, c))
<1>1. Len(a) \in Nat /\ Len(b) \in Nat /\ Len(c) \in Nat
  BY LenProperties DEF Paths
<1>2. Len(a) >= Len(b) /\ Agree(a, b) /\ Len(b) >= Len(c) /\ Agree(b, c)
  BY WithinIsAgree
<1>3. Agree(a, c)
  BY <1>1, <1>2 DEF Agree
<1> QED
  BY <1>1, <1>2, <1>3, WithinIsAgree, BelowIsAgree

(* Of two paths above a third one is above the other.                      *)
LEMMA WithinLinear ==
    ASSUME NEW a \in Paths, NEW b \in Paths, NEW c \in Paths, Within(a, b), Within(a, c)
    PROVE  Within(b, c) \/ Below(c, b)
<1>1. Len(a) \in Nat /\ Len(b) \in Nat /\ Len(c) \in Nat
  BY LenProperties DEF Paths
<1>2. Len(a) >= Len(b) /\ Agree(a, b) /\ Len(a) >= Len(c) /\ Agree(a, c)
  BY WithinIsAgree
<1>3. CASE Len(b) >= Len(c)
  <2>1. Agree(b, c)
    BY <1>1, <1>2, <1>3 DEF Agree
  <2> QED
    BY <1>3, <2>1, WithinIsAgree
<1>4. CASE Len(c) > Len(b)
  <2>1. Agree(c, b)
    BY <1>1, <1>2, <1>4 DEF Agree
  <2> QED
    BY <1>4, <2>1, BelowIsAgree
<1> QED
  BY <1>1, <1>3, <1>4

LEMMA ParentFacts ==
    ASSUME NEW p \in Path
    PROVE  /\ Parent(p) \in Paths /\ Len(Parent(p)) = Len(p) - 1 /\ Below(p, Parent(p))
           /\ Parent(p) = Root \/ Parent(p) \in Path
           /\ \A a \in Paths : Below(p, a) <=> Within(Parent(p), a)
<1>1. p \in Paths /\ Len(p) \in Nat /\ Len(p) > 0 /\ Len(p) - 1 \in 0..Len(p)
  BY PathFacts
<1>2. /\ Parent(p) \in Paths /\ Len(Parent(p)) = Len(p) - 1
      /\ \A i \in 1..(Len(p) - 1) : Parent(p)[i] = p[i]
  BY <1>1, PrefixFacts DEF Parent
<1>3. Below(p, Parent(p))
  BY <1>1, <1>2, BelowIsAgree DEF Agree
<1>4. Parent(p) = Root \/ Parent(p) \in Path
  <2>1. CASE Len(p) = 1
    BY <1>1, <1>2, <2>1, EmptySeq DEF Paths, Root
  <2>2. CASE Len(p) # 1
    <3>1. \A n \in Nat : n > 0 /\ n # 1 => n - 1 \in 1..n
      OBVIOUS
    <3>2. Len(p) - 1 \in 1..Len(p)
      BY <1>1, <2>2, <3>1
    <3> QED
      BY <3>2, PathAssumption DEF Parent
  <2> QED
    BY <2>1, <2>2
<1>5. ASSUME NEW a \in Paths PROVE Below(p, a) <=> Within(Parent(p), a)
  <2>1. Len(a) \in Nat
    BY LenProperties DEF Paths
  <2>2. Len(p) > Len(a) => (Agree(p, a) <=> Agree(Parent(p), a))
    BY <1>1, <1>2, <2>1 DEF Agree
  <2> QED
    BY <1>1, <1>2, <2>1, <2>2, BelowIsAgree, WithinIsAgree
<1> QED
  BY <1>2, <1>3, <1>4, <1>5

(* What is above a path is a path, or the root.                            *)
LEMMA AboveIsPath ==
    ASSUME NEW r \in Path, NEW a \in Paths, Len(a) > 0, Within(r, a) PROVE a \in Path
<1>1. r \in Paths /\ Len(r) \in Nat /\ Len(a) \in Nat
  BY PathFacts, LenProperties DEF Paths
<1>2. Len(r) >= Len(a) /\ Agree(r, a)
  BY <1>1, WithinIsAgree
<1> DEFINE s == SubSeq(r, 1, Len(a))
<1>3. s \in Paths /\ Len(s) = Len(a) /\ \A i \in 1..Len(a) : s[i] = r[i]
  BY <1>1, <1>2, PrefixFacts
<1>4. s \in Path
  BY <1>1, <1>2, PathAssumption
<1> HIDE DEF s
<1>5. s = a
  BY <1>2, <1>3, SamePath DEF Agree
<1> QED
  BY <1>4, <1>5

(* Below a path there is a child on the way.                               *)
LEMMA ChildTowards ==
    ASSUME NEW r \in Path, NEW p \in Path, Below(r, p)
    PROVE  \E c \in Path : Parent(c) = p /\ Within(r, c)
<1>1. r \in Paths /\ p \in Paths /\ Len(r) \in Nat /\ Len(p) \in Nat
  BY PathFacts
<1>2. Len(r) > Len(p) /\ Agree(r, p)
  BY <1>1, BelowIsAgree
<1> DEFINE c == SubSeq(r, 1, Len(p) + 1)
<1>3. /\ c \in Paths /\ Len(c) = Len(p) + 1
      /\ \A i \in 1..(Len(p) + 1) : c[i] = r[i]
  BY <1>1, <1>2, PrefixFacts
<1> HIDE DEF c
<1>4. Within(r, c) /\ Below(c, p)
  BY <1>1, <1>2, <1>3, WithinIsAgree, BelowIsAgree DEF Agree
<1>5. c \in Path
  BY <1>1, <1>3, <1>4, AboveIsPath
<1>6. Within(Parent(c), p) /\ Len(Parent(c)) = Len(p) /\ Parent(c) \in Paths
  BY <1>1, <1>3, <1>4, <1>5, ParentFacts
<1>7. Parent(c) = p
  BY <1>1, <1>6, WithinIsAgree, SamePath
<1> QED
  BY <1>4, <1>5, <1>7

(* Where a path below q was before p became q.                             *)
LEMMA FromElems ==
    ASSUME NEW r \in Paths, NEW p \in Paths, NEW q \in Paths, Within(r, q)
    PROVE  /\ From(r, p, q) \in Paths
           /\ Len(From(r, p, q)) = Len(p) + (Len(r) - Len(q))
           /\ \A i \in 1..Len(p) : From(r, p, q)[i] = p[i]
           /\ \A i \in 1..(Len(r) - Len(q)) : From(r, p, q)[Len(p) + i] = r[Len(q) + i]
<1>1. Len(r) \in Nat /\ Len(p) \in Nat /\ Len(q) \in Nat /\ Len(r) >= Len(q)
  BY WithinIsAgree, LenProperties DEF Paths
<1> DEFINE u == SubSeq(r, Len(q) + 1, Len(r))
<1>2. \A i \in (Len(q) + 1)..Len(r) : r[i] \in STRING
  BY <1>1, ElementOfSeq DEF Paths
<1>3. /\ u \in Seq(STRING)
      /\ Len(u) = IF Len(q) + 1 <= Len(r) THEN Len(r) - (Len(q) + 1) + 1 ELSE 0
      /\ \A i \in 1..(Len(r) - (Len(q) + 1) + 1) : u[i] = r[(Len(q) + 1) + i - 1]
  BY <1>1, <1>2, SubSeqProperties
<1>4. Len(u) = Len(r) - Len(q) /\ \A i \in 1..(Len(r) - Len(q)) : u[i] = r[Len(q) + i]
  BY <1>1, <1>3
<1> HIDE DEF u
<1>5. /\ p \o u \in Seq(STRING) /\ Len(p \o u) = Len(p) + Len(u)
      /\ \A i \in 1..(Len(p) + Len(u)) :
            (p \o u)[i] = IF i <= Len(p) THEN p[i] ELSE u[i - Len(p)]
  BY <1>3, ConcatProperties DEF Paths
<1>6. From(r, p, q) = p \o u
  BY DEF From, u
<1>7. \A i \in 1..Len(p) : From(r, p, q)[i] = p[i]
  BY <1>1, <1>4, <1>5, <1>6
<1>8. \A i \in 1..(Len(r) - Len(q)) : From(r, p, q)[Len(p) + i] = r[Len(q) + i]
  BY <1>1, <1>4, <1>5, <1>6
<1> QED
  BY <1>4, <1>5, <1>6, <1>7, <1>8 DEF Paths

LEMMA FromFacts ==
    ASSUME NEW r \in Paths, NEW p \in Paths, NEW q \in Paths, Within(r, q)
    PROVE  /\ From(r, p, q) \in Paths /\ Within(From(r, p, q), p)
           /\ From(From(r, p, q), q, p) = r
           /\ r = q => From(r, p, q) = p
           /\ Below(r, q) => Below(From(r, p, q), p)
<1> DEFINE f == From(r, p, q)
           g == From(f, q, p)
<1>1. Len(r) \in Nat /\ Len(p) \in Nat /\ Len(q) \in Nat /\ Len(r) >= Len(q) /\ Agree(r, q)
  BY WithinIsAgree, LenProperties DEF Paths
<1>2. /\ f \in Paths /\ Len(f) = Len(p) + (Len(r) - Len(q))
      /\ \A i \in 1..Len(p) : f[i] = p[i]
      /\ \A i \in 1..(Len(r) - Len(q)) : f[Len(p) + i] = r[Len(q) + i]
  BY FromElems
<1> HIDE DEF f
<1>3. Within(f, p) /\ (Below(r, q) => Below(f, p)) /\ (r = q => f = p)
  BY <1>1, <1>2, WithinIsAgree, BelowIsAgree, SamePath DEF Agree
<1>4. /\ g \in Paths /\ Len(g) = Len(q) + (Len(f) - Len(p))
      /\ \A i \in 1..Len(q) : g[i] = q[i]
      /\ \A i \in 1..(Len(f) - Len(p)) : g[Len(q) + i] = f[Len(p) + i]
  BY <1>2, <1>3, FromElems
<1> HIDE DEF g
<1>5. Len(g) = Len(r)
  BY <1>1, <1>2, <1>4
<1>6. ASSUME NEW i \in 1..Len(r) PROVE g[i] = r[i]
  <2>1. CASE i <= Len(q)
    BY <1>1, <1>4, <2>1 DEF Agree
  <2>2. CASE i > Len(q)
    <3>1. i - Len(q) \in 1..(Len(r) - Len(q)) /\ Len(q) + (i - Len(q)) = i
      BY <1>1, <2>2
    <3>2. i - Len(q) \in 1..(Len(f) - Len(p))
      BY <1>1, <1>2, <3>1
    <3> QED
      BY <1>2, <1>4, <3>1, <3>2
  <2> QED
    BY <1>1, <2>1, <2>2
<1>7. g = r
  BY <1>4, <1>5, <1>6, SamePath DEF Agree
<1> QED
  BY <1>2, <1>3, <1>7 DEF f, g

LEMMA FromKeepsBelow ==
    ASSUME NEW r \in Paths, NEW s \in Paths, NEW p \in Paths, NEW q \in Paths,
           Within(s, q), Below(r, s)
    PROVE  Within(r, q) /\ Below(From(r, p, q), From(s, p, q))
<1>1. Within(r, q)
  BY WithinTrans DEF Within
<1> DEFINE f == From(r, p, q)
           g == From(s, p, q)
<1>2. /\ Len(r) \in Nat /\ Len(s) \in Nat /\ Len(p) \in Nat /\ Len(q) \in Nat
      /\ Len(s) >= Len(q) /\ Len(r) > Len(s) /\ Agree(r, s)
  BY WithinIsAgree, BelowIsAgree, LenProperties DEF Paths
<1>3. /\ f \in Paths /\ Len(f) = Len(p) + (Len(r) - Len(q))
      /\ \A i \in 1..Len(p) : f[i] = p[i]
      /\ \A i \in 1..(Len(r) - Len(q)) : f[Len(p) + i] = r[Len(q) + i]
  BY <1>1, FromElems
<1>4. /\ g \in Paths /\ Len(g) = Len(p) + (Len(s) - Len(q))
      /\ \A i \in 1..Len(p) : g[i] = p[i]
      /\ \A i \in 1..(Len(s) - Len(q)) : g[Len(p) + i] = s[Len(q) + i]
  BY FromElems
<1> HIDE DEF f, g
<1>5. ASSUME NEW i \in 1..Len(g) PROVE f[i] = g[i]
  <2>1. CASE i <= Len(p)
    BY <1>2, <1>3, <1>4, <2>1
  <2>2. CASE i > Len(p)
    <3>1. /\ i - Len(p) \in 1..(Len(s) - Len(q)) /\ Len(p) + (i - Len(p)) = i
          /\ i - Len(p) \in 1..(Len(r) - Len(q)) /\ Len(q) + (i - Len(p)) \in 1..Len(s)
      BY <1>2, <1>4, <2>2
    <3> QED
      BY <1>2, <1>3, <1>4, <3>1 DEF Agree
  <2> QED
    BY <1>2, <1>4, <2>1, <2>2
<1>6. Len(f) > Len(g)
  BY <1>2, <1>3, <1>4
<1>7. Below(f, g)
  BY <1>3, <1>4, <1>5, <1>6, BelowIsAgree DEF Agree
<1> QED
  BY <1>1, <1>7 DEF f, g

LEMMA FromParent ==
    ASSUME NEW r \in Path, NEW p \in Paths, NEW q \in Paths, Below(r, q), From(r, p, q) \in Path
    PROVE  Within(Parent(r), q) /\ Parent(From(r, p, q)) = From(Parent(r), p, q)
<1> DEFINE f == From(r, p, q)
           g == From(Parent(r), p, q)
<1>1. /\ r \in Paths /\ Parent(r) \in Paths /\ Len(Parent(r)) = Len(r) - 1
      /\ Below(r, Parent(r)) /\ Within(Parent(r), q)
  BY PathFacts, ParentFacts
<1>2. Within(r, q) /\ Below(f, g)
  BY <1>1, FromKeepsBelow
<1>3. /\ Len(r) \in Nat /\ Len(p) \in Nat /\ Len(q) \in Nat
      /\ Len(f) = Len(p) + (Len(r) - Len(q))
      /\ g \in Paths /\ Len(g) = Len(p) + (Len(Parent(r)) - Len(q))
  <2>1. Len(r) \in Nat /\ Len(p) \in Nat /\ Len(q) \in Nat
    BY <1>1, LenProperties DEF Paths
  <2>2. Len(f) = Len(p) + (Len(r) - Len(q))
    BY <1>1, <1>2, FromElems
  <2>3. g \in Paths /\ Len(g) = Len(p) + (Len(Parent(r)) - Len(q))
    BY <1>1, <1>2, FromElems
  <2> QED
    BY <2>1, <2>2, <2>3
<1> HIDE DEF g, f
<1>4. f \in Path
  BY DEF f
<1>5. Parent(f) \in Paths /\ Len(Parent(f)) = Len(f) - 1 /\ Within(Parent(f), g)
  BY <1>2, <1>3, <1>4, ParentFacts
<1>6. Parent(f) = g
  BY <1>1, <1>3, <1>5, WithinIsAgree, SamePath
<1> QED
  BY <1>1, <1>6 DEF f, g

-----------------------------------------------------------------------------
(***************************************************************************)
(* What the calls are made of: a lookup, and ways to put something into    *)
(* the two trees or to take it out.                                        *)
(***************************************************************************)
LEMMA MetaFacts ==
    /\ NoMeta \notin Metas /\ NoMeta.type = "none"
    /\ \A m \in Metas : m.type \in {"dir", "reg", "lnk"}
    /\ \A k \in {"dir", "reg", "lnk"} : Given(k) \in Metas /\ Given(k).type = k
    /\ \A h : Autoheal(h) \in Metas /\ Autoheal(h).type = IF h = "dir" THEN "dir" ELSE "reg"
  BY DEF NoMeta, Metas, Given, Autoheal

LEMMA EntryFacts ==
    ASSUME Good(host, side, has), NEW p \in Path
    PROVE  /\ Entry(p) \in Metas \cup {NoMeta}
           /\ Entry(p) = NoMeta <=> side[p] = NoMeta /\ host[p] = "none"
           /\ Entry(p).type = "none" <=> Entry(p) = NoMeta
           /\ Entry(p).type = "dir" => host[p] = "dir"
           /\ FilesAgree(host, side) /\ Entry(p).type = "reg" => host[p] \in Data
<1>1. /\ side[p] \in Metas \cup {NoMeta} /\ host[p] \in Data \cup {"none", "dir"}
      /\ side[p].type = "dir" => host[p] = "dir"
  BY DEF Good, Typed, DirsAgree
<1>2. CASE Unregistered(p)
  <2>1. /\ host[p] # "none" /\ Entry(p) = Autoheal(host[p]) /\ Entry(p) \in Metas
        /\ Entry(p).type = IF host[p] = "dir" THEN "dir" ELSE "reg"
    BY <1>2, MetaFacts DEF Unregistered, Entry
  <2> QED
    BY <1>1, <2>1, MetaFacts
<1>3. CASE ~Unregistered(p)
  BY <1>1, <1>3, MetaFacts DEF Unregistered, Entry, FilesAgree
<1> QED
  BY <1>2, <1>3

LEMMA HealedFacts ==
    ASSUME Good(host, side, has), NEW D
    PROVE  /\ Good(host, Healed(D), HealedHas(D))
           /\ FilesAgree(host, side) => FilesAgree(host, Healed(D))
           /\ \A p \in Path : Healed(D)[p] = side[p] \/ Healed(D)[p] = Entry(p)
           /\ \A p \in Path : Parent(p) \in D => Healed(D)[p] = Entry(p)
           /\ has \subseteq HealedHas(D)
<1> DEFINE s == Healed(D)
           hs == HealedHas(D)
<1>1. s = [p \in Path |-> IF Parent(p) \in D THEN Entry(p) ELSE side[p]] /\ has \subseteq hs
  BY DEF Healed, HealedHas
<1>2. ASSUME NEW p \in Path
      PROVE  /\ s[p] = side[p] \/ (s[p] = Entry(p) /\ Parent(p) \in D)
             /\ Parent(p) \in D => s[p] = Entry(p)
  BY <1>1
<1>3. ASSUME NEW p \in Path
      PROVE  /\ s[p] \in Metas \cup {NoMeta}
             /\ s[p].type = "dir" => host[p] = "dir"
             /\ s[p] # NoMeta => host[p] # "none" \/ side[p] # NoMeta
             /\ FilesAgree(host, side) /\ s[p].type = "reg" => host[p] \in Data
  <2>1. side[p] \in Metas \cup {NoMeta} /\ (side[p].type = "dir" => host[p] = "dir")
    BY DEF Good, Typed, DirsAgree
  <2>2. FilesAgree(host, side) /\ side[p].type = "reg" => host[p] \in Data
    BY DEF FilesAgree
  <2> QED
    BY <1>2, <2>1, <2>2, EntryFacts
<1>4. ASSUME NEW p \in Path, s[p] # NoMeta PROVE Parent(p) \in hs
  <2>1. CASE side[p] # NoMeta
    BY <1>1, <2>1 DEF Good, InSidecar
  <2>2. CASE side[p] = NoMeta
    <3>1. Parent(p) \in D /\ Unregistered(p)
      BY <1>2, <1>4, <2>2 DEF Entry
    <3> QED
      BY <3>1 DEF HealedHas
  <2> QED
    BY <2>1, <2>2
<1> HIDE DEF hs
<1>5. Typed(host, s) /\ DirsAgree(host, s) /\ Rooted(host, s) /\ InSidecar(s, hs)
  <2>1. Typed(host, s)
    BY <1>1, <1>3 DEF Good, Typed
  <2> HIDE DEF s
  <2>2. DirsAgree(host, s) /\ InSidecar(s, hs)
    BY <1>3, <1>4 DEF DirsAgree, InSidecar
  <2>3. Rooted(host, s)
    BY <1>3 DEF Good, Rooted
  <2> QED
    BY <2>1, <2>2, <2>3
<1>6. FilesAgree(host, side) => FilesAgree(host, s)
  <2> HIDE DEF s
  <2> QED
    BY <1>3 DEF FilesAgree
<1> HIDE DEF s
<1>7. /\ \A p \in Path : s[p] = side[p] \/ s[p] = Entry(p)
      /\ \A p \in Path : Parent(p) \in D => s[p] = Entry(p)
  BY <1>2
<1> QED
  BY <1>1, <1>5, <1>6, <1>7 DEF Good, s, hs

(* Nothing is below what is not a directory.                               *)
LEMMA NothingBelow ==
    ASSUME NEW h, NEW s, NEW hs, Good(h, s, hs), NEW p \in Path, h[p] # "dir",
           NEW r \in Path, Below(r, p)
    PROVE  h[r] = "none" /\ s[r] = NoMeta
  BY DEF Good, Rooted

Reached(h, p) == \A a \in Path : Below(p, a) => h[a] = "dir"

LEMMA InDirectory ==
    ASSUME NEW h, NEW s, NEW hs, Good(h, s, hs), NEW p \in Path,
           Parent(p) # Root => h[Parent(p)] = "dir"
    PROVE  Reached(h, p)
<1> SUFFICES ASSUME NEW a \in Path, Below(p, a) PROVE h[a] = "dir"
  BY DEF Reached
<1>1. a \in Paths /\ Len(a) \in Nat /\ Len(a) > 0
  BY PathFacts
<1>2. Within(Parent(p), a) /\ Parent(p) \in Paths
  BY <1>1, ParentFacts
<1>3. CASE Parent(p) = Root
  <2>1. Len(Parent(p)) = 0
    BY <1>3, EmptySeq DEF Root
  <2> QED
    BY <1>1, <1>2, <2>1, WithinIsAgree
<1>4. CASE Parent(p) # Root
  <2>1. Parent(p) \in Path /\ h[Parent(p)] = "dir"
    BY <1>4, ParentFacts
  <2>2. Parent(p) = a \/ Below(Parent(p), a)
    BY <1>2 DEF Within
  <2>3. "dir" # "none"
    OBVIOUS
  <2> QED
    BY <2>1, <2>2, <2>3 DEF Good, Rooted
<1> QED
  BY <1>3, <1>4

(* os.MkdirAll.                                                            *)
LEMMA MadeFacts ==
    ASSUME NEW s, NEW hs, Good(host, s, hs), NEW d \in Paths, ~Blocked(d)
    PROVE  /\ Good(Made(d), s, hs)
           /\ FilesAgree(host, s) => FilesAgree(Made(d), s)
           /\ \A r \in Path : Within(d, r) => Made(d)[r] = "dir"
           /\ \A r \in Path : Made(d)[r] = host[r]
                              \/ (host[r] = "none" /\ Made(d)[r] = "dir" /\ Within(d, r))
<1> DEFINE h == Made(d)
<1>1. h = [r \in Path |-> IF r \in Above(d) /\ host[r] = "none" THEN "dir" ELSE host[r]]
  BY DEF Made
<1>2. \A r \in Path : r \in Above(d) <=> Within(d, r)
  BY DEF Above, Within
<1>3. \A r \in Above(d) : host[r] \in {"none", "dir"}
  BY DEF Blocked
<1>4. /\ \A r \in Path : Within(d, r) => h[r] = "dir"
      /\ \A r \in Path : h[r] = host[r] \/ (host[r] = "none" /\ h[r] = "dir" /\ Within(d, r))
  BY <1>1, <1>2, <1>3
<1>5. Typed(h, s)
  BY <1>1 DEF Good, Typed
<1> HIDE DEF h
<1>6. DirsAgree(h, s)
  BY <1>4 DEF Good, DirsAgree
<1>7. Rooted(h, s)
  <2> SUFFICES ASSUME NEW r \in Path, h[r] # "none" \/ s[r] # NoMeta,
                      NEW a \in Path, Below(r, a)
               PROVE  h[a] = "dir"
    BY DEF Rooted
  <2>1. CASE host[r] # "none" \/ s[r] # NoMeta
    <3>1. host[a] = "dir"
      BY <2>1 DEF Good, Rooted
    <3> QED
      BY <1>4, <3>1
  <2>2. CASE ~(host[r] # "none" \/ s[r] # NoMeta)
    <3>1. Within(d, r)
      BY <1>4, <2>2
    <3>2. Within(d, a)
      BY <3>1, PathFacts, WithinTrans DEF Within
    <3> QED
      BY <1>4, <3>2
  <2> QED
    BY <2>1, <2>2
<1>8. FilesAgree(host, s) => FilesAgree(h, s)
  <2>1. "none" \notin Data
    BY DataAssumption
  <2> QED
    BY <1>4, <2>1 DEF FilesAgree
<1> QED
  BY <1>4, <1>5, <1>6, <1>7, <1>8 DEF Good, h

(* A file is created, or written, where there is no directory.             *)
LEMMA PutFile ==
    ASSUME NEW h, NEW s, NEW hs, Good(h, s, hs), NEW p \in Path, h[p] # "dir", Reached(h, p),
           NEW c \in Data
    PROVE  /\ Good([h EXCEPT ![p] = c], s, hs)
           /\ FilesAgree(h, s) => FilesAgree([h EXCEPT ![p] = c], s)
<1> DEFINE g == [h EXCEPT ![p] = c]
<1>1. Typed(g, s) /\ g[p] = c /\ \A r \in Path \ {p} : g[r] = h[r]
  BY DEF Good, Typed
<1> HIDE DEF g
<1>2. c # "dir"
  BY DataAssumption
<1>3. DirsAgree(g, s)
  BY <1>1 DEF Good, DirsAgree
<1>4. Rooted(g, s)
  <2> SUFFICES ASSUME NEW r \in Path, g[r] # "none" \/ s[r] # NoMeta,
                      NEW a \in Path, Below(r, a)
               PROVE  g[a] = "dir"
    BY DEF Rooted
  <2>1. h[a] = "dir"
    <3>1. CASE r = p
      BY <3>1 DEF Reached
    <3>2. CASE r # p
      BY <1>1, <3>2 DEF Good, Rooted
    <3> QED
      BY <3>1, <3>2
  <2> QED
    BY <1>1, <2>1
<1>5. FilesAgree(h, s) => FilesAgree(g, s)
  BY <1>1 DEF FilesAgree
<1> QED
  BY <1>1, <1>3, <1>4, <1>5 DEF Good, g

(* register.                                                               *)
LEMMA PutEntry ==
    ASSUME NEW h, NEW s, NEW hs, Good(h, s, hs), NEW p \in Path, Reached(h, p),
           NEW m \in Metas, m.type = "dir" => h[p] = "dir"
    PROVE  /\ Good(h, [s EXCEPT ![p] = m], hs \cup {Parent(p)})
           /\ FilesAgree(h, s) /\ (m.type = "reg" => h[p] \in Data)
                 => FilesAgree(h, [s EXCEPT ![p] = m])
<1> DEFINE x == [s EXCEPT ![p] = m]
<1>1. Typed(h, x) /\ x[p] = m /\ \A r \in Path \ {p} : x[r] = s[r]
  BY DEF Good, Typed
<1> HIDE DEF x
<1>2. DirsAgree(h, x) /\ InSidecar(x, hs \cup {Parent(p)})
  BY <1>1 DEF Good, DirsAgree, InSidecar
<1>3. Rooted(h, x)
  BY <1>1 DEF Good, Rooted, Reached
<1>4. FilesAgree(h, s) /\ (m.type = "reg" => h[p] \in Data) => FilesAgree(h, x)
  BY <1>1 DEF FilesAgree
<1> QED
  BY <1>1, <1>2, <1>3, <1>4 DEF Good, x

(* unregister.                                                             *)
LEMMA DropEntry ==
    ASSUME NEW h, NEW s, NEW hs, Good(h, s, hs), NEW p \in Path, NEW D
    PROVE  /\ Good(h, [s EXCEPT ![p] = NoMeta], hs \cup D)
           /\ FilesAgree(h, s) => FilesAgree(h, [s EXCEPT ![p] = NoMeta])
<1> DEFINE x == [s EXCEPT ![p] = NoMeta]
<1>1. Typed(h, x) /\ x[p] = NoMeta /\ \A r \in Path \ {p} : x[r] = s[r]
  BY DEF Good, Typed
<1> HIDE DEF x
<1>2. DirsAgree(h, x) /\ InSidecar(x, hs \cup D)
  BY <1>1, MetaFacts DEF Good, DirsAgree, InSidecar
<1>3. Rooted(h, x)
  BY <1>1 DEF Good, Rooted
<1>4. FilesAgree(h, s) => FilesAgree(h, x)
  BY <1>1, MetaFacts DEF FilesAgree
<1> QED
  BY <1>1, <1>2, <1>3, <1>4 DEF Good, x

(* os.Remove of what has no entry any more and nothing below it.           *)
LEMMA DropHost ==
    ASSUME NEW h, NEW s, NEW hs, Good(h, s, hs), NEW p \in Path, s[p].type # "dir",
           \A r \in Path : Below(r, p) => h[r] = "none" /\ s[r] = NoMeta
    PROVE  /\ Good([h EXCEPT ![p] = "none"], s, hs)
           /\ FilesAgree(h, s) /\ s[p].type # "reg" => FilesAgree([h EXCEPT ![p] = "none"], s)
<1> DEFINE g == [h EXCEPT ![p] = "none"]
<1>1. Typed(g, s) /\ g[p] = "none" /\ \A r \in Path \ {p} : g[r] = h[r]
  BY DEF Good, Typed
<1> HIDE DEF g
<1>2. DirsAgree(g, s)
  BY <1>1 DEF Good, DirsAgree
<1>3. Rooted(g, s)
  <2> SUFFICES ASSUME NEW r \in Path, g[r] # "none" \/ s[r] # NoMeta,
                      NEW a \in Path, Below(r, a)
               PROVE  g[a] = "dir"
    BY DEF Rooted
  <2>1. h[r] # "none" \/ s[r] # NoMeta
    BY <1>1
  <2>2. a # p /\ h[a] = "dir"
    BY <2>1 DEF Good, Rooted
  <2> QED
    BY <1>1, <2>2
<1>4. FilesAgree(h, s) /\ s[p].type # "reg" => FilesAgree(g, s)
  BY <1>1 DEF FilesAgree
<1> QED
  BY <1>1, <1>2, <1>3, <1>4 DEF Good, g

-----------------------------------------------------------------------------
(* Calls, one lemma each.                                                  *)
LEMMA LeavesIInv ==
    ASSUME IInv, NEW h, NEW s, NEW hs, NEW r, Leaves(h, s, hs, r), UNCHANGED tmp,
           Good(h, s, hs), TmpIsFile(h, tmp), FilesAgree(host, side) => FilesAgree(h, s)
    PROVE  IInv'
<1>1. host' = h /\ side' = s /\ has' = hs
  BY DEF Leaves
<1>2. Good(host', side', has') /\ TmpIsFile(host', tmp')
  BY <1>1
<1>3. NoTmp' => FilesAgree(host', side')
  BY <1>1 DEF IInv, NoTmp
<1> QED
  BY <1>2, <1>3 DEF IInv, Good, Typed, DirsAgree, Rooted, InSidecar, TmpIsFile, FilesAgree

LEMMA LookupIInv ==
    ASSUME IInv, NEW D, NEW r, Leaves(host, Healed(D), HealedHas(D), r), UNCHANGED tmp PROVE IInv'
  BY HealedFacts, LeavesIInv DEF IInv

LEMMA FailsIInv == ASSUME IInv, NEW D, Fails(D), UNCHANGED tmp PROVE IInv'
  BY LookupIInv DEF Fails

LEMMA NewNotTmp ==
    ASSUME NEW q \in NewPath, NEW t \in TmpPath
    PROVE  q # t /\ ~Below(q, t) /\ ~Within(q, t) /\ ~Within(Parent(q), t)
<1>1. q \in Path /\ t \in Path /\ q # t /\ ~Below(q, t)
  BY PathAssumption
<1> QED
  BY <1>1, PathFacts, ParentFacts DEF Within

LEMMA StatIInv == ASSUME IInv, NEW p \in Path, Stat(p) PROVE IInv'
  BY LookupIInv DEF Stat

LEMMA MkdirIInv == ASSUME IInv, NEW p \in NewPath, Mkdir(p) PROVE IInv'
<1> DEFINE D == {Parent(p)}
<1>1. p \in Path /\ p \in Paths /\ UNCHANGED tmp
  BY PathAssumption, PathFacts DEF Mkdir
<1>2. CASE Entry(p) # NoMeta \/ Blocked(p)
  BY <1>1, <1>2, FailsIInv DEF Mkdir
<1>3. CASE ~(Entry(p) # NoMeta \/ Blocked(p))
  <2> DEFINE s == Healed(D)
             hs == HealedHas(D)
             h == Made(p)
  <2>1. Leaves(h, [s EXCEPT ![p] = Given("dir")], hs \cup {Parent(p)}, "ok")
    BY <1>3 DEF Mkdir
  <2>2. Good(host, s, hs) /\ (FilesAgree(host, side) => FilesAgree(host, s))
    BY HealedFacts DEF IInv
  <2> HIDE DEF s, hs
  <2>3. /\ Good(h, s, hs) /\ (FilesAgree(host, s) => FilesAgree(h, s))
        /\ \A r \in Path : Within(p, r) => h[r] = "dir"
        /\ \A r \in Path : h[r] = host[r] \/ Within(p, r)
    BY <1>1, <1>3, <2>2, MadeFacts
  <2> HIDE DEF h
  <2>4. Reached(h, p) /\ h[p] = "dir"
    BY <1>1, <2>3 DEF Reached, Within
  <2>5. /\ Good(h, [s EXCEPT ![p] = Given("dir")], hs \cup {Parent(p)})
        /\ FilesAgree(h, s) => FilesAgree(h, [s EXCEPT ![p] = Given("dir")])
    BY <1>1, <2>3, <2>4, MetaFacts, PutEntry
  <2>6. TmpIsFile(h, tmp)
    BY <2>3, NewNotTmp, PathAssumption DEF IInv, TmpIsFile
  <2> QED
    BY <1>1, <2>1, <2>2, <2>3, <2>5, <2>6, LeavesIInv
<1> QED
  BY <1>2, <1>3

(* CreateFile and copyFile: a new file in a directory made if need be.     *)
LEMMA NewFile ==
    ASSUME NEW s, NEW hs, Good(host, s, hs), NEW q \in NewPath, host[q] = "none",
           ~Blocked(Parent(q)), NEW c \in Data
    PROVE  LET h == [Made(Parent(q)) EXCEPT ![q] = c] IN
           /\ Good(h, s, hs) /\ Reached(h, q) /\ h[q] = c
           /\ FilesAgree(host, s) => FilesAgree(h, s)
           /\ TmpIsFile(host, tmp) => TmpIsFile(h, tmp)
<1> DEFINE g == Made(Parent(q))
           h == [g EXCEPT ![q] = c]
<1>1. q \in Path /\ q \in Paths /\ Parent(q) \in Paths
  BY PathAssumption, PathFacts, ParentFacts
<1>2. /\ Good(g, s, hs) /\ (FilesAgree(host, s) => FilesAgree(g, s))
      /\ \A r \in Path : Within(Parent(q), r) => g[r] = "dir"
      /\ \A r \in Path : g[r] = host[r] \/ Within(Parent(q), r)
  BY <1>1, MadeFacts
<1> HIDE DEF g
<1>3. \A a \in Path : Below(q, a) <=> Within(Parent(q), a)
  BY <1>1, PathFacts, ParentFacts
<1>4. Reached(g, q)
  BY <1>2, <1>3 DEF Reached
<1>5. ~Below(q, q)
  BY DEF Below
<1>6. g[q] # "dir"
  BY <1>1, <1>2, <1>3, <1>5
<1>7. Good(h, s, hs) /\ (FilesAgree(g, s) => FilesAgree(h, s))
  BY <1>1, <1>2, <1>4, <1>6, PutFile
<1>8. h[q] = c /\ \A r \in Path \ {q} : h[r] = g[r]
  BY <1>1, <1>2 DEF Good, Typed
<1>9. Reached(h, q)
  BY <1>4, <1>5, <1>8 DEF Reached
<1>10. TmpIsFile(host, tmp) => TmpIsFile(h, tmp)
  BY <1>2, <1>8, NewNotTmp, PathAssumption DEF TmpIsFile
<1> QED
  BY <1>2, <1>7, <1>8, <1>9, <1>10 DEF g

LEMMA CreateIInv == ASSUME IInv, NEW p \in NewPath, Create(p) PROVE IInv'
<1> DEFINE D == {Parent(r) : r \in Above(p)}
           s == Healed(D)
           hs == HealedHas(D)
<1>1. p \in Path /\ UNCHANGED tmp /\ "empty" \in Data
  BY PathAssumption, DataAssumption DEF Create
<1>2. Good(host, side, has) /\ Good(host, s, hs) /\ TmpIsFile(host, tmp)
      /\ (FilesAgree(host, side) => FilesAgree(host, s))
  BY HealedFacts DEF IInv
<1>3. CASE Fails(D)
  BY <1>1, <1>3, FailsIInv
<1>4. CASE /\ Entry(p) = NoMeta /\ ~Blocked(Parent(p))
           /\ Leaves([Made(Parent(p)) EXCEPT ![p] = "empty"],
                     [s EXCEPT ![p] = Given("reg")], hs \cup {Parent(p)}, "ok")
  <2> DEFINE h == [Made(Parent(p)) EXCEPT ![p] = "empty"]
  <2> HIDE DEF s, hs
  <2>1. host[p] = "none"
    BY <1>1, <1>2, <1>4, EntryFacts
  <2>2. /\ Good(h, s, hs) /\ Reached(h, p) /\ h[p] = "empty"
        /\ FilesAgree(host, s) => FilesAgree(h, s)
        /\ TmpIsFile(host, tmp) => TmpIsFile(h, tmp)
    BY <1>1, <1>2, <1>4, <2>1, NewFile
  <2>3. Leaves(h, [s EXCEPT ![p] = Given("reg")], hs \cup {Parent(p)}, "ok")
    BY <1>4
  <2> HIDE DEF h
  <2>4. Given("reg") \in Metas /\ Given("reg").type = "reg"
    BY MetaFacts
  <2>5. /\ Good(h, [s EXCEPT ![p] = Given("reg")], hs \cup {Parent(p)})
        /\ FilesAgree(h, s) => FilesAgree(h, [s EXCEPT ![p] = Given("reg")])
    BY <1>1, <2>2, <2>4, PutEntry
  <2> QED
    BY <1>1, <1>2, <2>2, <2>3, <2>5, LeavesIInv
<1>5. CASE Leaves(host, Healed(D \cup {p}), HealedHas(D \cup {p}), "ok")
  BY <1>1, <1>5, LookupIInv
<1>6. CASE /\ Entry(p).type = "reg" /\ host[p] # "dir"
           /\ Leaves([host EXCEPT ![p] = IF @ = "none" THEN "empty" ELSE @], s, hs, "ok")
  <2> HIDE DEF s, hs
  <2>1. PICK c \in Data : Leaves([host EXCEPT ![p] = c], s, hs, "ok")
    BY <1>1, <1>2, <1>6 DEF Good, Typed
  <2>2. Reached(host, p)
    BY <1>1, <1>2, <1>6, EntryFacts, MetaFacts DEF Good, Rooted, Reached
  <2>3. /\ Good([host EXCEPT ![p] = c], s, hs)
        /\ FilesAgree(host, s) => FilesAgree([host EXCEPT ![p] = c], s)
    BY <1>1, <1>2, <1>6, <2>2, PutFile
  <2>4. TmpIsFile([host EXCEPT ![p] = c], tmp)
    BY <1>1, <1>2, DataAssumption, PathAssumption DEF TmpIsFile, Good, Typed
  <2> QED
    BY <1>1, <1>2, <2>1, <2>3, <2>4, LeavesIInv
<1> QED
  BY <1>3, <1>4, <1>5, <1>6 DEF Create

LEMMA WriteIInv == ASSUME IInv, NEW p \in Path, NEW c \in Data, Write(p, c) PROVE IInv'
<1> DEFINE D == {Parent(r) : r \in Above(p)}
           s == Healed(D)
           hs == HealedHas(D)
<1>1. Good(host, side, has) /\ Good(host, s, hs) /\ TmpIsFile(host, tmp)
      /\ (FilesAgree(host, side) => FilesAgree(host, s)) /\ UNCHANGED tmp
  BY HealedFacts DEF IInv, Write
<1>2. CASE host[p] \notin Data
  BY <1>2, FailsIInv DEF Write
<1>3. CASE host[p] \in Data
  <2>1. Leaves([host EXCEPT ![p] = c], s, hs, "ok")
    BY <1>3 DEF Write
  <2> HIDE DEF s, hs
  <2>2. host[p] # "dir" /\ Reached(host, p)
    BY <1>1, <1>3, DataAssumption DEF Good, Rooted, Reached
  <2>3. /\ Good([host EXCEPT ![p] = c], s, hs)
        /\ FilesAgree(host, s) => FilesAgree([host EXCEPT ![p] = c], s)
    BY <1>1, <2>2, PutFile
  <2>4. TmpIsFile([host EXCEPT ![p] = c], tmp)
    BY <1>1, DataAssumption, PathAssumption DEF TmpIsFile, Good, Typed
  <2> QED
    BY <1>1, <2>1, <2>3, <2>4, LeavesIInv
<1> QED
  BY <1>2, <1>3

LEMMA SymlinkIInv == ASSUME IInv, NEW p \in NewPath, Symlink(p) PROVE IInv'
<1> DEFINE D == {Parent(p)}
           s == Healed(D)
           hs == HealedHas(D)
<1>1. Good(host, s, hs) /\ TmpIsFile(host, tmp) /\ p \in Path
      /\ (FilesAgree(host, side) => FilesAgree(host, s)) /\ UNCHANGED tmp
  BY HealedFacts, PathAssumption DEF IInv, Symlink
<1>2. CASE Entry(p) # NoMeta \/ ~CanRegister(p)
  BY <1>2, FailsIInv DEF Symlink
<1>3. CASE ~(Entry(p) # NoMeta \/ ~CanRegister(p))
  <2>1. Leaves(host, [s EXCEPT ![p] = Given("lnk")], hs \cup {Parent(p)}, "ok")
    BY <1>3 DEF Symlink
  <2> HIDE DEF s, hs
  <2>2. Reached(host, p)
    BY <1>1, <1>3, InDirectory DEF CanRegister, IsHostDir
  <2>3. Given("lnk") \in Metas /\ Given("lnk").type = "lnk"
    BY MetaFacts
  <2>4. /\ Good(host, [s EXCEPT ![p] = Given("lnk")], hs \cup {Parent(p)})
        /\ FilesAgree(host, s) => FilesAgree(host, [s EXCEPT ![p] = Given("lnk")])
    BY <1>1, <2>2, <2>3, PutEntry
  <2> QED
    BY <1>1, <2>1, <2>4, LeavesIInv
<1> QED
  BY <1>2, <1>3

(* What os.Remove takes has nothing below it, entries included.            *)
LEMMA RemovedIsBare ==
    ASSUME NEW s, NEW hs, Good(host, s, hs), NEW p \in Path,
           host[p] = "dir" => \A c \in Children(p) : host[c] = "none" /\ s[c] = NoMeta
    PROVE  \A r \in Path : Below(r, p) => host[r] = "none" /\ s[r] = NoMeta
<1> SUFFICES ASSUME NEW r \in Path, Below(r, p), ~(host[r] = "none" /\ s[r] = NoMeta) PROVE FALSE
  OBVIOUS
<1>1. host[p] = "dir"
  BY DEF Good, Rooted
<1>2. PICK c \in Path : Parent(c) = p /\ Within(r, c)
  BY ChildTowards
<1>3. host[c] = "none" /\ s[c] = NoMeta
  BY <1>1, <1>2 DEF Children
<1>4. Below(r, c)
  BY <1>2, <1>3 DEF Within
<1>5. host[c] = "dir"
  BY <1>4 DEF Good, Rooted
<1> QED
  BY <1>3, <1>5

LEMMA UnlinkIInv == ASSUME IInv, NEW p \in Path, Unlink(p) PROVE IInv'
<1> DEFINE D == {Parent(p)}
           s == Healed(D)
           hs == HealedHas(D)
           x == [s EXCEPT ![p] = NoMeta]
           y == hs \cup D
<1>1. /\ Good(host, side, has) /\ Good(host, s, hs) /\ TmpIsFile(host, tmp)
      /\ FilesAgree(host, side) => FilesAgree(host, s)
      /\ UNCHANGED tmp
  BY HealedFacts DEF IInv, Unlink
<1>2. CASE Entry(p).type \in {"none", "dir"}
  BY <1>2, FailsIInv DEF Unlink
<1>3. CASE Entry(p).type \notin {"none", "dir"}
  <2> DEFINE gone == Entry(p).type = "reg" /\ Removable(p)
             h == [host EXCEPT ![p] = IF gone THEN "none" ELSE host[p]]
  <2>1. Leaves(h, x, y, "ok")
    BY <1>3 DEF Unlink
  <2> HIDE DEF s, hs
  <2>2. Good(host, x, y) /\ (FilesAgree(host, s) => FilesAgree(host, x))
    BY <1>1, DropEntry
  <2>3. x[p] = NoMeta /\ \A r \in Path \ {p} : x[r] = s[r]
    BY <1>1 DEF Good, Typed
  <2> HIDE DEF x, y
  <2>4. CASE gone
    <3>1. h = [host EXCEPT ![p] = "none"]
      BY <2>4
    <3>2. ASSUME host[p] = "dir", NEW c \in Children(p) PROVE host[c] = "none" /\ x[c] = NoMeta
      <4>1. c \in Path /\ Parent(c) = p /\ p \notin has /\ host[c] = "none"
        BY <2>4, <3>2 DEF Removable, Children
      <4>2. side[c] = NoMeta
        BY <1>1, <4>1 DEF Good, InSidecar
      <4>3. Entry(c) = NoMeta
        BY <1>1, <4>1, <4>2, EntryFacts
      <4>4. s[c] = NoMeta
        BY <1>1, <4>1, <4>2, <4>3, HealedFacts DEF s
      <4> QED
        BY <2>3, <4>1, <4>4
    <3>3. \A r \in Path : Below(r, p) => host[r] = "none" /\ x[r] = NoMeta
      BY <2>2, <3>2, RemovedIsBare
    <3>4. x[p].type = "none"
      BY <2>3, MetaFacts
    <3>5. Good(h, x, y) /\ (FilesAgree(host, x) => FilesAgree(h, x))
      BY <2>2, <3>1, <3>3, <3>4, DropHost
    <3>6. TmpIsFile(h, tmp)
      BY <1>1, <3>1, PathAssumption DEF TmpIsFile, Good, Typed
    <3> QED
      BY <1>1, <2>1, <2>2, <3>5, <3>6, LeavesIInv
  <2>5. CASE ~gone
    <3>1. h = host
      BY <1>1, <2>5 DEF Good, Typed
    <3> QED
      BY <1>1, <2>1, <2>2, <3>1, LeavesIInv
  <2> QED
    BY <2>4, <2>5
<1> QED
  BY <1>2, <1>3

LEMMA RmdirIInv == ASSUME IInv, NEW p \in Path, Rmdir(p) PROVE IInv'
<1> DEFINE D == {Parent(p)}
           s == Healed(D)
           hs == HealedHas(D)
           x == [s EXCEPT ![p] = NoMeta]
           y == hs \cup D
           h == [host EXCEPT ![p] = "none"]
<1>1. /\ Good(host, side, has) /\ Good(host, s, hs) /\ TmpIsFile(host, tmp)
      /\ FilesAgree(host, side) => FilesAgree(host, s)
      /\ UNCHANGED tmp
  BY HealedFacts DEF IInv, Rmdir
<1>2. CASE Fails(D) \/ Fails(D \cup {p})
  BY <1>1, <1>2, FailsIInv
<1>3. CASE Empty(p) /\ Removable(p) /\ Leaves(h, x, y, "ok")
  <2>1. ASSUME NEW c \in Children(p) PROVE host[c] = "none" /\ s[c] = NoMeta
    <3>1. c \in Path /\ Entry(c) = NoMeta
      BY <1>3 DEF Children, Empty
    <3>2. host[c] = "none" /\ side[c] = NoMeta
      BY <1>1, <3>1, EntryFacts
    <3> QED
      BY <1>1, <3>1, <3>2, HealedFacts
  <2> HIDE DEF s, hs
  <2>2. Good(host, x, y) /\ (FilesAgree(host, s) => FilesAgree(host, x))
    BY <1>1, DropEntry
  <2>3. x[p] = NoMeta /\ \A r \in Path \ {p} : x[r] = s[r]
    BY <1>1 DEF Good, Typed
  <2>4. Leaves(h, x, y, "ok")
    BY <1>3
  <2> HIDE DEF x, y
  <2>5. \A c \in Children(p) : host[c] = "none" /\ x[c] = NoMeta
    BY <2>1, <2>3 DEF Children
  <2>6. \A r \in Path : Below(r, p) => host[r] = "none" /\ x[r] = NoMeta
    BY <2>2, <2>5, RemovedIsBare
  <2>7. x[p].type = "none"
    BY <2>3, MetaFacts
  <2>8. Good(h, x, y) /\ (FilesAgree(host, x) => FilesAgree(h, x))
    BY <2>2, <2>6, <2>7, DropHost
  <2>9. TmpIsFile(h, tmp)
    BY <1>1, PathAssumption DEF TmpIsFile, Good, Typed
  <2> QED
    BY <1>1, <2>2, <2>4, <2>8, <2>9, LeavesIInv
<1> QED
  BY <1>2, <1>3 DEF Rmdir

LEMMA LinkIInv == ASSUME IInv, NEW p \in Path, NEW q \in NewPath, Link(p, q) PROVE IInv'
<1> DEFINE D == {Parent(p), Parent(q)}
           s == Healed(D)
           hs == HealedHas(D)
           copies == Entry(p).type = "reg"
           refused == \/ Entry(p).type \in {"none", "dir"}
                      \/ Entry(q) # NoMeta
                      \/ IF copies THEN Blocked(Parent(q)) ELSE ~CanRegister(q)
           x == [s EXCEPT ![q] = Entry(p)]
           y == hs \cup {Parent(q)}
           g == Made(Parent(q))
<1>1. /\ Good(host, side, has) /\ Good(host, s, hs) /\ TmpIsFile(host, tmp)
      /\ FilesAgree(host, side) => FilesAgree(host, s)
      /\ UNCHANGED tmp /\ q \in Path /\ Parent(q) \in Paths
  BY HealedFacts, PathAssumption, ParentFacts DEF IInv, Link
<1>2. \/ refused /\ Fails(D)
      \/ ~refused /\ copies /\ host[p] = "none" /\ Leaves(g, s, hs, "err")
      \/ ~refused /\ copies /\ host[p] = "dir" /\ Leaves([g EXCEPT ![q] = "empty"], s, hs, "err")
      \/ ~refused /\ copies /\ host[p] \in Data /\ Leaves([g EXCEPT ![q] = host[p]], x, y, "ok")
      \/ ~refused /\ ~copies /\ Leaves(host, x, y, "ok")
  BY DEF Link
<1>3. CASE Fails(D)
  BY <1>1, <1>3, FailsIInv
<1> HIDE DEF s, hs
<1>4. ASSUME ~refused
      PROVE  /\ host[q] = "none" /\ Entry(p) \in Metas
             /\ Entry(p).type # "dir" /\ (copies => ~Blocked(Parent(q)))
             /\ ~copies => CanRegister(q)
  BY <1>1, <1>4, EntryFacts
<1> HIDE DEF refused
<1>5. CASE ~refused /\ copies /\ Leaves(g, s, hs, "err")
  <2>1. /\ Good(g, s, hs) /\ (FilesAgree(host, s) => FilesAgree(g, s))
        /\ \A r \in Path : g[r] = host[r] \/ Within(Parent(q), r)
    BY <1>1, <1>4, <1>5, MadeFacts
  <2> HIDE DEF g
  <2>2. TmpIsFile(g, tmp)
    BY <1>1, <2>1, NewNotTmp, PathAssumption DEF TmpIsFile
  <2> QED
    BY <1>1, <1>5, <2>1, <2>2, LeavesIInv
<1>6. ASSUME ~refused, copies, NEW c \in Data
      PROVE  /\ Good([g EXCEPT ![q] = c], s, hs) /\ Reached([g EXCEPT ![q] = c], q)
             /\ [g EXCEPT ![q] = c][q] = c
             /\ FilesAgree(host, s) => FilesAgree([g EXCEPT ![q] = c], s)
             /\ TmpIsFile([g EXCEPT ![q] = c], tmp)
  BY <1>1, <1>4, <1>6, NewFile
<1> HIDE DEF g
<1>7. CASE ~refused /\ copies /\ Leaves([g EXCEPT ![q] = "empty"], s, hs, "err")
  BY <1>1, <1>6, <1>7, DataAssumption, LeavesIInv
<1>8. CASE ~refused /\ copies /\ host[p] \in Data /\ Leaves([g EXCEPT ![q] = host[p]], x, y, "ok")
  <2> DEFINE h == [g EXCEPT ![q] = host[p]]
  <2>1. /\ Good(h, s, hs) /\ Reached(h, q) /\ h[q] \in Data /\ TmpIsFile(h, tmp)
        /\ FilesAgree(host, s) => FilesAgree(h, s)
        /\ Leaves(h, x, y, "ok")
    BY <1>6, <1>8
  <2> HIDE DEF h
  <2>2. Good(h, x, y) /\ (FilesAgree(h, s) => FilesAgree(h, x))
    BY <1>1, <1>4, <1>8, <2>1, PutEntry
  <2> QED
    BY <1>1, <2>1, <2>2, LeavesIInv
<1>9. CASE ~refused /\ ~copies /\ Leaves(host, x, y, "ok")
  <2>1. Reached(host, q)
    BY <1>1, <1>4, <1>9, InDirectory DEF CanRegister, IsHostDir
  <2>2. Good(host, x, y) /\ (FilesAgree(host, s) => FilesAgree(host, x))
    BY <1>1, <1>4, <1>9, <2>1, PutEntry
  <2> QED
    BY <1>1, <1>9, <2>2, LeavesIInv
<1> QED
  BY <1>2, <1>3, <1>5, <1>7, <1>8, <1>9

LEMMA TmpOpenIInv == ASSUME IInv, NEW t \in TmpPath, NEW c \in Data, TmpOpen(t, c) PROVE IInv'
<1> DEFINE d == Parent(t)
           D == IF d = Root THEN {} ELSE {Parent(d)}
           s == Healed(D)
           hs == HealedHas(D)
           isdir == IF d = Root THEN TRUE ELSE Entry(d).type = "dir" /\ host[d] = "dir"
           h == [host EXCEPT ![t] = c]
<1>1. /\ Good(host, side, has) /\ Good(host, s, hs) /\ TmpIsFile(host, tmp) /\ t \in Path
      /\ tmp \in [TmpPath -> {"none", "open", "closed"}]
  BY HealedFacts, PathAssumption DEF IInv
<1>2. CASE ~isdir
  BY <1>2, FailsIInv DEF TmpOpen
<1>3. CASE isdir
  <2>1. Entry(t) = NoMeta /\ Leaves(h, s, hs, "ok") /\ tmp' = [tmp EXCEPT ![t] = "open"]
    BY <1>3 DEF TmpOpen
  <2> HIDE DEF s, hs
  <2>2. host[t] = "none"
    BY <1>1, <2>1, EntryFacts
  <2>3. Reached(host, t)
    BY <1>1, <1>3, InDirectory
  <2>4. Good(h, s, hs)
    BY <1>1, <2>2, <2>3, PutFile
  <2>5. h[t] # "dir" /\ \A r \in Path \ {t} : h[r] = host[r]
    BY <1>1, DataAssumption DEF Good, Typed
  <2> HIDE DEF h
  <2>6. tmp' \in [TmpPath -> {"none", "open", "closed"}] /\ tmp'[t] = "open"
        /\ \A u \in TmpPath \ {t} : tmp'[u] = tmp[u]
    BY <1>1, <2>1
  <2>7. TmpIsFile(h, tmp')
    BY <1>1, <2>5, <2>6, PathAssumption DEF TmpIsFile
  <2>8. host' = h /\ side' = s /\ has' = hs
    BY <2>1 DEF Leaves
  <2>9. ~NoTmp'
    BY <2>6 DEF NoTmp
  <2>10. Good(host', side', has') /\ TmpIsFile(host', tmp')
    BY <2>4, <2>7, <2>8
  <2> QED
    BY <2>6, <2>9, <2>10 DEF IInv, Good, Typed, DirsAgree, Rooted, InSidecar, TmpIsFile
<1> QED
  BY <1>2, <1>3

LEMMA TmpLinkIInv == ASSUME IInv, NEW t \in TmpPath, NEW q \in NewPath, TmpLink(t, q) PROVE IInv'
<1> DEFINE D == {Parent(q)}
           s == Healed(D)
           hs == HealedHas(D)
           g == Made(Parent(q))
<1>1. /\ Good(host, side, has) /\ Good(host, s, hs) /\ TmpIsFile(host, tmp)
      /\ FilesAgree(host, side) => FilesAgree(host, s)
      /\ t \in Path /\ q \in Path /\ Parent(q) \in Paths /\ tmp[t] = "open"
      /\ tmp \in [TmpPath -> {"none", "open", "closed"}]
  BY HealedFacts, PathAssumption, ParentFacts DEF IInv, TmpLink
<1>2. CASE Fails(D) /\ UNCHANGED tmp
  BY <1>2, FailsIInv
<1>3. CASE ~Blocked(Parent(q)) /\ Leaves(g, s, hs, "err") /\ UNCHANGED tmp
  <2> HIDE DEF s, hs
  <2>1. /\ Good(g, s, hs) /\ (FilesAgree(host, s) => FilesAgree(g, s))
        /\ \A r \in Path : g[r] = host[r] \/ Within(Parent(q), r)
    BY <1>1, <1>3, MadeFacts
  <2> HIDE DEF g
  <2>2. TmpIsFile(g, tmp)
    BY <1>1, <2>1, NewNotTmp, PathAssumption DEF TmpIsFile
  <2> QED
    BY <1>1, <1>3, <2>1, <2>2, LeavesIInv
<1>4. CASE /\ Entry(q) = NoMeta /\ ~Blocked(Parent(q)) /\ host[t] # "none"
           /\ Leaves([g EXCEPT ![q] = host[t], ![t] = "none"],
                     [s EXCEPT ![q] = Given("reg")], hs \cup {Parent(q)}, "ok")
           /\ tmp' = [tmp EXCEPT ![t] = "closed"]
  <2> DEFINE f == [g EXCEPT ![q] = host[t]]
             h == [f EXCEPT ![t] = "none"]
             x == [s EXCEPT ![q] = Given("reg")]
             y == hs \cup {Parent(q)}
  <2>1. host[q] = "none" /\ q # t /\ host[t] \in Data /\ host[t] # "dir"
    BY <1>1, <1>4, EntryFacts, NewNotTmp DEF TmpIsFile, Good, Typed
  <2>2. s[t] = side[t] \/ s[t] = Entry(t)
    BY <1>1, HealedFacts
  <2> HIDE DEF s, hs
  <2>3. /\ Good(f, s, hs) /\ Reached(f, q) /\ f[q] = host[t]
        /\ TmpIsFile(host, tmp) => TmpIsFile(f, tmp)
    BY <1>1, <1>4, <2>1, NewFile
  <2>4. f \in [Path -> Data \cup {"none", "dir"}]
    BY <2>3 DEF Good, Typed
  <2>5. [g EXCEPT ![q] = host[t], ![t] = "none"] = h
    OBVIOUS
  <2> HIDE DEF f
  <2>6. Given("reg") \in Metas /\ Given("reg").type = "reg"
    BY MetaFacts
  <2>7. Good(f, x, y)
    BY <1>1, <2>3, <2>6, PutEntry
  <2>8. x[t] = s[t]
    BY <1>1, <2>1 DEF Good, Typed
  <2>9. Leaves(h, x, y, "ok")
    BY <1>4, <2>5
  <2> HIDE DEF x, y
  <2>10. f[t] # "dir"
    BY <1>1, <2>3 DEF TmpIsFile
  <2>11. x[t].type # "dir"
    BY <1>1, <2>7, <2>10 DEF Good, DirsAgree
  <2>12. \A r \in Path : Below(r, t) => f[r] = "none" /\ x[r] = NoMeta
    BY <1>1, <2>7, <2>10, NothingBelow
  <2>13. Good(h, x, y)
    BY <1>1, <2>7, <2>11, <2>12, DropHost
  <2>14. h[t] = "none" /\ \A r \in Path \ {t} : h[r] = f[r]
    BY <1>1, <2>4
  <2> HIDE DEF h
  <2>15. tmp' \in [TmpPath -> {"none", "open", "closed"}] /\ tmp'[t] = "closed"
         /\ \A u \in TmpPath \ {t} : tmp'[u] = tmp[u]
    BY <1>1, <1>4
  <2>16. TmpIsFile(h, tmp')
    BY <1>1, <2>3, <2>14, <2>15, PathAssumption DEF TmpIsFile
  <2>17. host' = h /\ side' = x /\ has' = y
    BY <2>9 DEF Leaves
  <2>18. ~NoTmp'
    BY <2>15 DEF NoTmp
  <2>19. Good(host', side', has') /\ TmpIsFile(host', tmp')
    BY <2>13, <2>16, <2>17
  <2> QED
    BY <2>15, <2>18, <2>19 DEF IInv, Good, Typed, DirsAgree, Rooted, InSidecar, TmpIsFile
<1> QED
  BY <1>2, <1>3, <1>4 DEF TmpLink

LEMMA TmpCloseIInv == ASSUME IInv, NEW t \in TmpPath, TmpClose(t) PROVE IInv'
<1>1. tmp' = [tmp EXCEPT ![t] = "closed"] /\ UNCHANGED <<host, side, has>>
  BY DEF TmpClose
<1>2. tmp \in [TmpPath -> {"none", "open", "closed"}]
  BY DEF IInv
<1>3. tmp' \in [TmpPath -> {"none", "open", "closed"}] /\ tmp'[t] = "closed"
      /\ \A u \in TmpPath \ {t} : tmp'[u] = tmp[u]
  BY <1>1, <1>2
<1>4. TmpIsFile(host, tmp')
  BY <1>3 DEF IInv, TmpIsFile
<1>5. ~NoTmp'
  BY <1>3 DEF NoTmp
<1> QED
  BY <1>1, <1>3, <1>4, <1>5 DEF IInv, Good, Typed, DirsAgree, Rooted, InSidecar, TmpIsFile

-----------------------------------------------------------------------------
(***************************************************************************)
(* Rename of something that is on the host.  RenamedHost, RenamedSide and  *)
(* RenamedHas are what it leaves, s being the sidecars after the lookup.   *)
(***************************************************************************)
RenamedHost(p, q) ==
    [r \in Path |-> IF r \in Above(Parent(q)) /\ host[r] = "none" THEN "dir"
                    ELSE Moved(host, p, q, "none")[r]]
RenamedSide(s, p, q) ==
    Renamed([r \in Path |-> IF r \in {p, q} THEN s[r] ELSE Moved(s, p, q, NoMeta)[r]], p, q)
RenamedHas(hs, p, q) == HasMoved(hs \cup {Parent(p), Parent(q)}, p, q)

Renames(s, hs, p, q) ==
    /\ Good(host, s, hs) /\ p \in Path /\ q \in Path /\ host[p] # "none"
    /\ ~Blocked(Parent(q)) /\ ~HostRefuses(p, q)

(* Neither of the two names is below the other.                            *)
LEMMA Apart ==
    ASSUME NEW s, NEW hs, NEW p, NEW q, Renames(s, hs, p, q)
    PROVE  /\ p \in Paths /\ q \in Paths /\ Parent(q) \in Paths
           /\ ~Below(p, q) /\ ~Below(q, p)
           /\ \A r \in Path : Within(Parent(q), r) =>
                 /\ ~Within(r, p) /\ ~Within(r, q)
                 /\ host[r] \in {"none", "dir"} /\ r \in Above(Parent(q))
           /\ \A r \in Path : Below(q, r) <=> Within(Parent(q), r)
<1>1. p \in Path /\ q \in Path /\ p \in Paths /\ q \in Paths /\ Parent(q) \in Paths
  BY PathFacts, ParentFacts DEF Renames
<1>2. \A r \in Path : Below(q, r) <=> Within(Parent(q), r)
  BY <1>1, PathFacts, ParentFacts
<1>3. \A r \in Path : Within(Parent(q), r) => host[r] \in {"none", "dir"} /\ r \in Above(Parent(q))
  BY DEF Renames, Blocked, Above, Within
<1>4. ~Below(p, q)
  BY <1>1 DEF Renames, HostRefuses, Good, Rooted
<1>5. ~Below(q, p)
  BY <1>1, <1>2, <1>3 DEF Renames, HostRefuses
<1>6. ASSUME NEW r \in Path, Within(Parent(q), r) PROVE ~Within(r, p) /\ ~Within(r, q)
  <2>1. Below(q, r) /\ r \in Paths
    BY <1>2, <1>6, PathFacts
  <2>2. Within(r, p) => Below(q, p)
    BY <1>1, <2>1, WithinTrans DEF Within
  <2>3. Within(r, q) => Below(q, q)
    BY <1>1, <2>1, WithinTrans DEF Within
  <2>4. ~Below(q, q)
    BY <1>1, BelowIsAgree, LenProperties DEF Paths
  <2> QED
    BY <1>5, <2>2, <2>3, <2>4
<1> QED
  BY <1>1, <1>2, <1>3, <1>4, <1>5, <1>6

(* What is under a name afterwards, and where it comes from.               *)
LEMMA WhatMoved ==
    ASSUME NEW s, NEW hs, NEW p, NEW q, Renames(s, hs, p, q), NEW r \in Path
    PROVE  LET h == RenamedHost(p, q)
               x == RenamedSide(s, p, q)
               f == From(r, p, q)
           IN
           /\ Within(r, q) => /\ h[r] = IF f \in Path THEN host[f] ELSE "none"
                              /\ x[r] # NoMeta => f \in Path /\ x[r] = s[f]
           /\ r # p /\ Within(r, q) => x[r] = IF f \in Path THEN s[f] ELSE NoMeta
           /\ ~Within(r, q) /\ Within(r, p) => h[r] = "none" /\ x[r] = NoMeta
           /\ ~Within(r, q) /\ ~Within(r, p) =>
                 /\ x[r] = s[r]
                 /\ h[r] = host[r] \/ (host[r] = "none" /\ h[r] = "dir" /\ Within(Parent(q), r))
           /\ Within(Parent(q), r) => h[r] = "dir"
<1> DEFINE h == RenamedHost(p, q)
           x == RenamedSide(s, p, q)
           f == From(r, p, q)
           mh == Moved(host, p, q, "none")
           ms == Moved(s, p, q, NoMeta)
           z == [u \in Path |-> IF u \in {p, q} THEN s[u] ELSE ms[u]]
<1>1. /\ p \in Path /\ q \in Path /\ ~Below(p, q) /\ ~Below(q, p)
      /\ p \in Paths /\ q \in Paths /\ Good(host, s, hs)
      /\ Within(Parent(q), r) => /\ ~Within(r, p) /\ ~Within(r, q)
                                 /\ host[r] \in {"none", "dir"} /\ r \in Above(Parent(q))
  BY Apart DEF Renames
<1>2. r \in Above(Parent(q)) <=> Within(Parent(q), r)
  BY DEF Above, Within
<1>3. h[r] = IF Within(Parent(q), r) /\ host[r] = "none" THEN "dir" ELSE mh[r]
  BY <1>2 DEF RenamedHost
<1>4. /\ mh[r] = IF Within(r, q) THEN IF f \in Path THEN host[f] ELSE "none"
                 ELSE IF Within(r, p) THEN "none" ELSE host[r]
      /\ ms[r] = IF Within(r, q) THEN IF f \in Path THEN s[f] ELSE NoMeta
                 ELSE IF Within(r, p) THEN NoMeta ELSE s[r]
  BY DEF Moved, Within
<1>5. x = [[z EXCEPT ![q] = z[p]] EXCEPT ![p] = NoMeta]
  BY DEF RenamedSide, Renamed
<1> HIDE DEF ms, mh
<1>6. DOMAIN z = Path /\ z[r] = (IF r \in {p, q} THEN s[r] ELSE ms[r]) /\ z[p] = s[p]
  BY <1>1
<1> HIDE DEF z, x, h
<1>7. x[r] = IF r = p THEN NoMeta ELSE IF r = q THEN s[p] ELSE ms[r]
  <2> DEFINE v == [z EXCEPT ![q] = z[p]]
  <2>1. DOMAIN v = Path /\ v[r] = IF r = q THEN z[p] ELSE z[r]
    BY <1>1, <1>6
  <2>2. x = [v EXCEPT ![p] = NoMeta]
    BY <1>5
  <2> HIDE DEF v
  <2>3. x[r] = IF r = p THEN NoMeta ELSE v[r]
    BY <2>1, <2>2
  <2> QED
    BY <1>6, <2>1, <2>3
<1>8. r = q => f = p
  BY <1>1, FromFacts DEF Within
<1> HIDE DEF f
<1>9. /\ Within(r, q) => /\ h[r] = IF f \in Path THEN host[f] ELSE "none"
                         /\ x[r] # NoMeta => f \in Path /\ x[r] = s[f]
      /\ r # p /\ Within(r, q) => x[r] = IF f \in Path THEN s[f] ELSE NoMeta
  BY <1>1, <1>3, <1>4, <1>7, <1>8
<1>10. ~Within(r, q) /\ Within(r, p) => h[r] = "none" /\ x[r] = NoMeta
  BY <1>1, <1>3, <1>4, <1>7 DEF Within
<1>11. ~Within(r, q) /\ ~Within(r, p) =>
          /\ x[r] = s[r]
          /\ h[r] = host[r] \/ (host[r] = "none" /\ h[r] = "dir" /\ Within(Parent(q), r))
  BY <1>1, <1>3, <1>4, <1>7 DEF Within
<1>12. Within(Parent(q), r) => h[r] = "dir"
  BY <1>1, <1>3, <1>4
<1> QED
  BY <1>9, <1>10, <1>11, <1>12 DEF h, x, f

LEMMA RenamedTyped ==
    ASSUME NEW s, NEW hs, NEW p, NEW q, Renames(s, hs, p, q)
    PROVE  Typed(RenamedHost(p, q), RenamedSide(s, p, q))
<1> DEFINE H == Data \cup {"none", "dir"}
           M == Metas \cup {NoMeta}
           mh == Moved(host, p, q, "none")
           ms == Moved(s, p, q, NoMeta)
           z == [u \in Path |-> IF u \in {p, q} THEN s[u] ELSE ms[u]]
<1>1. host \in [Path -> H] /\ s \in [Path -> M] /\ p \in Path /\ q \in Path
  BY DEF Renames, Good, Typed
<1>2. "none" \in H /\ "dir" \in H /\ NoMeta \in M
  OBVIOUS
<1>3. RenamedSide(s, p, q) = [[z EXCEPT ![q] = z[p]] EXCEPT ![p] = NoMeta]
  BY DEF RenamedSide, Renamed
<1>4. RenamedHost(p, q) = [r \in Path |-> IF r \in Above(Parent(q)) /\ host[r] = "none" THEN "dir"
                                          ELSE mh[r]]
  BY DEF RenamedHost
<1> HIDE DEF H, M
<1>5. mh \in [Path -> H] /\ ms \in [Path -> M]
  BY <1>1, <1>2 DEF Moved
<1> HIDE DEF mh, ms
<1>6. z \in [Path -> M]
  BY <1>1, <1>5
<1> HIDE DEF z
<1>7. [z EXCEPT ![q] = z[p]] \in [Path -> M]
  BY <1>1, <1>6
<1>8. RenamedSide(s, p, q) \in [Path -> M]
  BY <1>1, <1>2, <1>3, <1>7
<1>9. RenamedHost(p, q) \in [Path -> H]
  BY <1>2, <1>4, <1>5
<1> QED
  BY <1>8, <1>9 DEF Typed, H, M

LEMMA RenamedRooted ==
    ASSUME NEW s, NEW hs, NEW p, NEW q, Renames(s, hs, p, q)
    PROVE  Rooted(RenamedHost(p, q), RenamedSide(s, p, q))
<1> DEFINE h == RenamedHost(p, q)
           x == RenamedSide(s, p, q)
<1>1. /\ p \in Path /\ q \in Path /\ p \in Paths /\ q \in Paths /\ Parent(q) \in Paths
      /\ Good(host, s, hs)
      /\ \A u \in Path : Below(q, u) <=> Within(Parent(q), u)
  BY Apart DEF Renames
<1>2. ASSUME NEW r \in Path
      PROVE  /\ Within(r, q) => LET f == From(r, p, q) IN
                                /\ h[r] = IF f \in Path THEN host[f] ELSE "none"
                                /\ x[r] # NoMeta => f \in Path /\ x[r] = s[f]
             /\ ~Within(r, q) /\ Within(r, p) => h[r] = "none" /\ x[r] = NoMeta
             /\ ~Within(r, q) /\ ~Within(r, p) =>
                   /\ x[r] = s[r]
                   /\ h[r] = host[r]
                      \/ (host[r] = "none" /\ h[r] = "dir" /\ Within(Parent(q), r))
             /\ Within(Parent(q), r) => h[r] = "dir"
  BY WhatMoved
<1> HIDE DEF h, x
<1> SUFFICES ASSUME NEW r \in Path, h[r] # "none" \/ x[r] # NoMeta, NEW a \in Path, Below(r, a)
             PROVE  h[a] = "dir"
  BY DEF Rooted, h, x
<1>3. r \in Paths /\ a \in Paths /\ Within(r, a)
  BY PathFacts DEF Within
<1>4. CASE Within(r, q) /\ Within(a, q)
  <2> DEFINE f == From(r, p, q)
             g == From(a, p, q)
  <2>1. f \in Path /\ (host[f] # "none" \/ s[f] # NoMeta)
    BY <1>2, <1>4
  <2>2. Below(f, g)
    BY <1>1, <1>3, <1>4, FromKeepsBelow
  <2>3. g \in Paths /\ Within(g, p)
    BY <1>1, <1>3, <1>4, FromFacts
  <2> HIDE DEF f, g
  <2>4. Len(g) > 0
    <3>1. Len(p) > 0 /\ Len(p) \in Nat /\ Len(g) \in Nat /\ Len(g) >= Len(p)
      BY <1>1, <2>3, PathFacts, LenProperties, WithinIsAgree DEF Paths
    <3> QED
      BY <3>1
  <2>5. g \in Path
    BY <2>1, <2>2, <2>3, <2>4, AboveIsPath DEF Within
  <2>6. host[g] = "dir"
    BY <1>1, <2>1, <2>2, <2>5 DEF Good, Rooted
  <2> QED
    BY <1>2, <1>4, <2>5, <2>6 DEF g
<1>5. CASE Within(r, q) /\ ~Within(a, q)
  BY <1>1, <1>2, <1>3, <1>5, WithinLinear
<1>6. CASE ~Within(r, q) /\ ~Within(r, p) /\ Within(Parent(q), r)
  <2>1. Within(Parent(q), a)
    BY <1>1, <1>3, <1>6, WithinTrans
  <2> QED
    BY <1>2, <2>1
<1>7. CASE ~Within(r, q) /\ ~Within(r, p) /\ ~Within(Parent(q), r)
  <2>1. host[a] = "dir"
    BY <1>1, <1>2, <1>7 DEF Good, Rooted
  <2>2. ~Within(a, q) /\ ~Within(a, p)
    BY <1>1, <1>3, <1>7, WithinTrans
  <2> QED
    BY <1>2, <2>1, <2>2
<1> QED
  BY <1>2, <1>4, <1>5, <1>6, <1>7

LEMMA RenamedInSidecar ==
    ASSUME NEW s, NEW hs, NEW p, NEW q, Renames(s, hs, p, q)
    PROVE  InSidecar(RenamedSide(s, p, q), RenamedHas(hs, p, q))
<1> DEFINE x == RenamedSide(s, p, q)
           D == hs \cup {Parent(p), Parent(q)}
           y == RenamedHas(hs, p, q)
<1>1. /\ p \in Path /\ q \in Path /\ p \in Paths /\ q \in Paths /\ Good(host, s, hs)
      /\ ~Below(q, p)
  BY Apart DEF Renames
<1>2. ASSUME NEW r \in Path
      PROVE  /\ Within(r, q) /\ x[r] # NoMeta => From(r, p, q) \in Path /\ x[r] = s[From(r, p, q)]
             /\ ~Within(r, q) /\ Within(r, p) => x[r] = NoMeta
             /\ ~Within(r, q) /\ ~Within(r, p) => x[r] = s[r]
  BY WhatMoved
<1>3. \A d \in D : (Within(d, p) => From(d, q, p) \in y) /\ (~Within(d, p) => d \in y)
  BY DEF RenamedHas, HasMoved, Within
<1> HIDE DEF x, y
<1> SUFFICES ASSUME NEW r \in Path, x[r] # NoMeta PROVE Parent(r) \in y
  BY DEF InSidecar, x, y
<1>4. r \in Paths /\ Parent(r) \in Paths /\ (Below(r, p) <=> Within(Parent(r), p))
  BY <1>1, PathFacts, ParentFacts
<1>5. CASE r = q
  BY <1>1, <1>3, <1>4, <1>5
<1>6. CASE Below(r, q)
  <2> DEFINE f == From(r, p, q)
  <2>1. f \in Path /\ s[f] # NoMeta
    BY <1>2, <1>6 DEF Within
  <2>2. Within(Parent(r), q) /\ Parent(f) = From(Parent(r), p, q)
    BY <1>1, <1>6, <2>1, FromParent
  <2> HIDE DEF f
  <2>3. Parent(f) \in D
    BY <1>1, <2>1 DEF Good, InSidecar
  <2>4. Within(Parent(f), p) /\ From(Parent(f), q, p) = Parent(r)
    BY <1>1, <1>4, <2>2, FromFacts
  <2> QED
    BY <1>3, <2>3, <2>4
<1>7. CASE ~Within(r, q)
  <2>1. ~Within(r, p) /\ s[r] # NoMeta
    BY <1>2, <1>7
  <2>2. Parent(r) \in D /\ ~Within(Parent(r), p)
    BY <1>1, <1>4, <2>1 DEF Good, InSidecar, Within
  <2> QED
    BY <1>3, <2>2
<1> QED
  BY <1>5, <1>6, <1>7 DEF Within

LEMMA RenameGood ==
    ASSUME NEW s, NEW hs, NEW p, NEW q, Renames(s, hs, p, q)
    PROVE  /\ Good(RenamedHost(p, q), RenamedSide(s, p, q), RenamedHas(hs, p, q))
           /\ FilesAgree(host, s) => FilesAgree(RenamedHost(p, q), RenamedSide(s, p, q))
<1> DEFINE h == RenamedHost(p, q)
           x == RenamedSide(s, p, q)
<1>1. ASSUME NEW r \in Path
      PROVE  x[r] = NoMeta \/ \E f \in Path : x[r] = s[f] /\ (host[f] # "none" => h[r] = host[f])
  BY WhatMoved
<1>2. Good(host, s, hs)
  BY DEF Renames
<1> HIDE DEF h, x
<1>3. DirsAgree(h, x)
  <2>1. NoMeta.type # "dir" /\ "dir" # "none"
    BY MetaFacts
  <2> QED
    BY <1>1, <1>2, <2>1 DEF Good, DirsAgree
<1>4. FilesAgree(host, s) => FilesAgree(h, x)
  <2>1. NoMeta.type # "reg" /\ "none" \notin Data
    BY MetaFacts, DataAssumption
  <2> QED
    BY <1>1, <2>1 DEF FilesAgree
<1> QED
  BY <1>3, <1>4, RenamedTyped, RenamedRooted, RenamedInSidecar DEF Good, h, x

(* No name of an open O_TMPFILE file becomes a directory's by a rename.    *)
LEMMA RenameTmp ==
    ASSUME NEW s, NEW hs, NEW p, NEW q \in NewPath, Renames(s, hs, p, q), IInv, Fits(p, q)
    PROVE  TmpIsFile(RenamedHost(p, q), tmp)
<1> DEFINE h == RenamedHost(p, q)
<1> SUFFICES ASSUME NEW t \in TmpPath, tmp[t] = "open", h[t] = "dir" PROVE FALSE
  BY DEF TmpIsFile
<1>1. /\ p \in Path /\ q \in Path /\ p \in Paths /\ q \in Paths /\ t \in Path /\ t \in Paths
      /\ Good(host, side, has) /\ host[t] # "dir"
  BY PathAssumption, PathFacts DEF Renames, IInv, TmpIsFile
<1>2. t # q /\ ~Within(Parent(q), t)
  BY NewNotTmp
<1> DEFINE f == From(t, p, q)
<1>3. /\ Within(t, q) => h[t] = IF f \in Path THEN host[f] ELSE "none"
      /\ ~Within(t, q) => h[t] = "none" \/ h[t] = host[t] \/ Within(Parent(q), t)
  BY <1>1, WhatMoved
<1> HIDE DEF h
<1>4. Below(t, q) /\ f \in Path /\ host[f] = "dir"
  BY <1>1, <1>2, <1>3 DEF Within
<1>5. Below(f, p) /\ From(f, q, p) = t
  BY <1>1, <1>4, FromFacts DEF Within
<1> HIDE DEF f
<1>6. host[p] = "dir" /\ Entry(f) # NoMeta
  BY <1>1, <1>4, <1>5, EntryFacts DEF Good, Rooted
<1> QED
  BY <1>4, <1>5, <1>6 DEF Fits

LEMMA RenameIInv == ASSUME IInv, NEW p \in Path, NEW q \in NewPath, Rename(p, q) PROVE IInv'
<1> DEFINE D == {Parent(p)}
           s == Healed(D)
           hs == HealedHas(D)
           onHost == s[p].type \in {"reg", "dir"} /\ host[p] # "none"
           x == [s EXCEPT ![q] = s[p]]
           g == Made(Parent(q))
<1>1. /\ Good(host, side, has) /\ Good(host, s, hs) /\ TmpIsFile(host, tmp)
      /\ FilesAgree(host, side) => FilesAgree(host, s)
      /\ UNCHANGED tmp /\ q \in Path /\ Parent(q) \in Paths /\ Fits(p, q)
  BY HealedFacts, PathAssumption, ParentFacts DEF IInv, Rename
<1>2. \/ Fails(D)
      \/ /\ s[p] # NoMeta /\ ~onHost /\ CanRegister(q)
         /\ Leaves(host, Renamed(s, p, q), hs \cup {Parent(p), Parent(q)}, "ok")
      \/ ~Blocked(Parent(q)) /\ Leaves(g, s, hs, "err")
      \/ /\ onHost /\ ~Blocked(Parent(q)) /\ ~HostRefuses(p, q)
         /\ Leaves(RenamedHost(p, q), RenamedSide(s, p, q), RenamedHas(hs, p, q), "ok")
  BY DEF Rename, RenamedHost, RenamedSide, RenamedHas
<1> HIDE DEF s, hs
<1>3. CASE Fails(D)
  BY <1>1, <1>3, FailsIInv
<1>4. CASE /\ s[p] # NoMeta /\ ~onHost /\ CanRegister(q)
           /\ Leaves(host, Renamed(s, p, q), hs \cup {Parent(p), Parent(q)}, "ok")
  <2>1. s[p] \in Metas /\ s[p].type # "dir" /\ ~(FilesAgree(host, s) /\ s[p].type = "reg")
    BY <1>1, <1>4, DataAssumption DEF Good, Typed, DirsAgree, FilesAgree
  <2>2. Reached(host, q)
    BY <1>1, <1>4, InDirectory DEF CanRegister, IsHostDir
  <2>3. Good(host, x, hs \cup {Parent(q)}) /\ (FilesAgree(host, s) => FilesAgree(host, x))
    BY <1>1, <2>1, <2>2, PutEntry
  <2> HIDE DEF x
  <2>4. /\ Good(host, [x EXCEPT ![p] = NoMeta], (hs \cup {Parent(q)}) \cup D)
        /\ FilesAgree(host, x) => FilesAgree(host, [x EXCEPT ![p] = NoMeta])
    BY <2>3, DropEntry
  <2>5. (hs \cup {Parent(q)}) \cup D = hs \cup {Parent(p), Parent(q)}
    OBVIOUS
  <2>6. Renamed(s, p, q) = [x EXCEPT ![p] = NoMeta]
    BY DEF Renamed, x
  <2> QED
    BY <1>1, <1>4, <2>3, <2>4, <2>5, <2>6, LeavesIInv
<1>5. CASE ~Blocked(Parent(q)) /\ Leaves(g, s, hs, "err")
  <2>1. /\ Good(g, s, hs) /\ (FilesAgree(host, s) => FilesAgree(g, s))
        /\ \A r \in Path : g[r] = host[r] \/ Within(Parent(q), r)
    BY <1>1, <1>5, MadeFacts
  <2> HIDE DEF g
  <2>2. TmpIsFile(g, tmp)
    BY <1>1, <2>1, NewNotTmp, PathAssumption DEF TmpIsFile
  <2> QED
    BY <1>1, <1>5, <2>1, <2>2, LeavesIInv
<1>6. CASE /\ onHost /\ ~Blocked(Parent(q)) /\ ~HostRefuses(p, q)
           /\ Leaves(RenamedHost(p, q), RenamedSide(s, p, q), RenamedHas(hs, p, q), "ok")
  <2>1. Renames(s, hs, p, q)
    BY <1>1, <1>6 DEF Renames
  <2>2. /\ Good(RenamedHost(p, q), RenamedSide(s, p, q), RenamedHas(hs, p, q))
        /\ FilesAgree(host, s) => FilesAgree(RenamedHost(p, q), RenamedSide(s, p, q))
    BY <2>1, RenameGood
  <2>3. TmpIsFile(RenamedHost(p, q), tmp)
    BY <1>1, <2>1, RenameTmp
  <2> QED
    BY <1>1, <1>6, <2>2, <2>3, LeavesIInv
<1> QED
  BY <1>2, <1>3, <1>4, <1>5, <1>6

-----------------------------------------------------------------------------
LEMMA InitIInv == Init => IInv
<1> SUFFICES ASSUME Init PROVE IInv
  OBVIOUS
<1>1. /\ host = [p \in Path |-> "none"] /\ side = [p \in Path |-> NoMeta]
      /\ tmp = [t \in TmpPath |-> "none"]
  BY DEF Init
<1>2. Typed(host, side) /\ \A p \in Path : host[p] = "none" /\ side[p] = NoMeta
  BY <1>1 DEF Typed
<1>3. Good(host, side, has) /\ FilesAgree(host, side)
  BY <1>2, MetaFacts DEF Good, DirsAgree, Rooted, InSidecar, FilesAgree
<1> QED
  BY <1>1, <1>3 DEF IInv, TmpIsFile

LEMMA StepIInv == IInv /\ [Next]_vars => IInv'
<1> SUFFICES ASSUME IInv, [Next]_vars PROVE IInv'
  OBVIOUS
<1>1. CASE UNCHANGED vars
  BY <1>1 DEF vars, IInv, Good, Typed, DirsAgree, Rooted, InSidecar, TmpIsFile, FilesAgree, NoTmp
<1>2. ASSUME NEW p \in Path, Stat(p) \/ Rmdir(p) \/ Unlink(p) PROVE IInv'
  BY <1>2, StatIInv, RmdirIInv, UnlinkIInv
<1>3. ASSUME NEW p \in NewPath, Mkdir(p) \/ Create(p) \/ Symlink(p) PROVE IInv'
  BY <1>3, MkdirIInv, CreateIInv, SymlinkIInv
<1>4. ASSUME NEW p \in Path, NEW c \in Data, Write(p, c) PROVE IInv'
  BY <1>4, WriteIInv
<1>5. ASSUME NEW p \in Path, NEW q \in NewPath, Rename(p, q) \/ (p # q /\ Link(p, q)) PROVE IInv'
  BY <1>5, RenameIInv, LinkIInv
<1>6. ASSUME NEW t \in TmpPath, NEW c \in Data, TmpOpen(t, c) PROVE IInv'
  BY <1>6, TmpOpenIInv
<1>7. ASSUME NEW t \in TmpPath, NEW q \in NewPath, TmpLink(t, q) PROVE IInv'
  BY <1>7, TmpLinkIInv
<1>8. ASSUME NEW t \in TmpPath, TmpClose(t) PROVE IInv'
  BY <1>8, TmpCloseIInv
<1> QED
  BY <1>1, <1>2, <1>3, <1>4, <1>5, <1>6, <1>7, <1>8 DEF Next

(* The host's tree, the sidecars and the O_TMPFILE handles fit together,   *)
(* whatever the calls of internal/vfs do.                                  *)
THEOREM Inductive == Spec => []IInv
  BY InitIInv, StepIInv, PTL DEF Spec

(* The two trees that hold what the guest sees never come apart: what has  *)
(* a directory's entry is a directory of the host and, unless O_TMPFILE    *)
(* was used, what has a file's entry is a file of the host.                *)
THEOREM TreesAgree == Spec => []EntryHasHost
<1>1. IInv => EntryHasHost
  BY DEF IInv, Good, DirsAgree, FilesAgree, NoTmp, EntryHasHost
<1>2. Spec => []IInv
  BY Inductive
<1> QED
  BY <1>1, <1>2, PTL

-----------------------------------------------------------------------------
(***************************************************************************)
(* What the guest sees.  Seen is View as a function of the two things it   *)
(* looks at, so that what a call leaves can be compared name by name.      *)
(***************************************************************************)
Seen(h, m) ==
    LET e == IF h # "none" /\ m = NoMeta THEN Autoheal(h) ELSE m
    IN  <<e, IF e.type = "reg" /\ h \in Data THEN h ELSE "none">>

LEMMA ViewIsSeen ==
    ASSUME NEW r \in Path
    PROVE  View(r) = Seen(host[r], side[r]) /\ View(r)' = Seen(host'[r], side'[r])
  BY DEF View, Entry, Unregistered, Seen

LEMMA LeavesSeen ==
    ASSUME NEW h, NEW s, NEW hs, NEW c, Leaves(h, s, hs, c)
    PROVE  res' = c /\ \A r \in Path : View(r)' = Seen(h[r], s[r])
  BY ViewIsSeen DEF Leaves

(* A lookup may write an entry, and changes nothing of what is seen.       *)
LEMMA HealedSeen ==
    ASSUME NEW D, NEW r \in Path PROVE Seen(host[r], Healed(D)[r]) = View(r)
<1> DEFINE m == Healed(D)[r]
<1>1. m = side[r] \/ m = Entry(r)
  BY DEF Healed
<1>2. CASE Unregistered(r)
  <2>1. Entry(r) = Autoheal(host[r]) /\ Autoheal(host[r]) # NoMeta
    BY <1>2, MetaFacts DEF Entry
  <2>2. View(r) = Seen(host[r], Autoheal(host[r]))
    BY <1>2, <2>1, ViewIsSeen DEF Seen, Unregistered
  <2>3. View(r) = Seen(host[r], side[r])
    BY ViewIsSeen
  <2> QED
    BY <1>1, <2>1, <2>2, <2>3
<1>3. CASE ~Unregistered(r)
  BY <1>1, <1>3, ViewIsSeen DEF Entry
<1> QED
  BY <1>2, <1>3

(* os.MkdirAll shows directories where nothing was.                        *)
LEMMA MadeSeen ==
    ASSUME NEW D, NEW r \in Path, host[r] = "none"
    PROVE  \/ Seen("dir", Healed(D)[r]) = View(r)
           \/ View(r) = Nothing /\ Seen("dir", Healed(D)[r]) = <<Autoheal("dir"), "none">>
<1>1. Healed(D)[r] = side[r] /\ View(r) = Seen("none", side[r])
  BY ViewIsSeen DEF Healed, Entry, Unregistered
<1>2. "dir" \notin Data /\ "none" \notin Data
  BY DataAssumption
<1>3. CASE side[r] = NoMeta
  <2>1. View(r) = Nothing
    BY <1>1, <1>3, MetaFacts DEF Seen, Nothing
  <2>2. Seen("dir", side[r]) = <<Autoheal("dir"), "none">>
    BY <1>2, <1>3, MetaFacts DEF Seen
  <2> QED
    BY <1>1, <2>1, <2>2
<1>4. CASE side[r] # NoMeta
  BY <1>1, <1>2, <1>4 DEF Seen
<1> QED
  BY <1>3, <1>4

(* What a call leaves that fails, and what one leaves that has made        *)
(* directories on the way to d.                                            *)
LEMMA LookupSeen ==
    ASSUME NEW D, NEW hs, NEW c, Leaves(host, Healed(D), hs, c)
    PROVE  \A r \in Path : View(r)' = View(r)
  BY LeavesSeen, HealedSeen

LEMMA FailsSeen == ASSUME NEW D, Fails(D) PROVE \A r \in Path : View(r)' = View(r)
  BY LookupSeen DEF Fails

LEMMA MadeLeaves ==
    ASSUME NEW D, NEW hs, NEW c, NEW d, NEW h, NEW s, Leaves(h, s, hs, c),
           NEW r \in Path, h[r] = Made(d)[r], s[r] = Healed(D)[r]
    PROVE  View(r)' = View(r) \/ (Within(d, r) /\ MadeOnTheWay(r))
<1>1. View(r)' = Seen(Made(d)[r], Healed(D)[r])
  BY LeavesSeen
<1>2. CASE Made(d)[r] = host[r]
  BY <1>1, <1>2, HealedSeen
<1>3. CASE Made(d)[r] # host[r]
  <2>1. Within(d, r) /\ host[r] = "none" /\ Made(d)[r] = "dir"
    BY <1>3 DEF Made, Above, Within
  <2> QED
    BY <1>1, <2>1, MadeSeen DEF MadeOnTheWay
<1> QED
  BY <1>2, <1>3

(* Action property.  Unless a regular file has lost its host file, a call  *)
(* that fails leaves what the guest sees as it was, but for directories    *)
(* that os.MkdirAll has made on the way.                                   *)
THEOREM FailuresAreClean == Spec => FailureIsClean
<1> DEFINE Clean == \A r \in Path : View(r)' = View(r) \/ MadeOnTheWay(r)
<1>1. ASSUME [Next]_vars, res' = "err", NoGhost PROVE Clean
  <2>1. CASE UNCHANGED vars
    BY <2>1 DEF vars, View, Entry, Unregistered
  <2>2. ASSUME NEW D, Fails(D) PROVE Clean
    BY <2>2, FailsSeen
  <2>3. ASSUME NEW h, NEW s, NEW hs, Leaves(h, s, hs, "ok") PROVE FALSE
    BY <1>1, <2>3 DEF Leaves
  <2>4. ASSUME NEW D, NEW hs, NEW d, Leaves(Made(d), Healed(D), hs, "err") PROVE Clean
    BY <2>4, MadeLeaves
  <2> HIDE DEF Clean
  <2>5. ASSUME NEW p \in Path, Stat(p) PROVE Clean
    BY <2>5, LookupSeen DEF Stat, Clean
  <2>6. ASSUME NEW p \in Path, Rmdir(p) \/ Unlink(p) PROVE Clean
    BY <2>2, <2>3, <2>6 DEF Rmdir, Unlink
  <2>7. ASSUME NEW p \in NewPath, Mkdir(p) \/ Create(p) \/ Symlink(p) PROVE Clean
    BY <2>2, <2>3, <2>7 DEF Mkdir, Create, Symlink
  <2>8. ASSUME NEW p \in Path, NEW c \in Data, Write(p, c) PROVE Clean
    BY <2>2, <2>3, <2>8 DEF Write
  <2>9. ASSUME NEW p \in Path, NEW q \in NewPath, Rename(p, q) PROVE Clean
    BY <2>2, <2>3, <2>4, <2>9 DEF Rename
  <2>10. ASSUME NEW p \in Path, NEW q \in NewPath, Link(p, q) PROVE Clean
    <3>1. ~(Entry(p).type = "reg" /\ host[p] = "dir")
      BY <1>1, DataAssumption DEF NoGhost
    <3> QED
      BY <2>2, <2>3, <2>4, <2>10, <3>1 DEF Link
  <2>11. ASSUME NEW t \in TmpPath, NEW c \in Data, TmpOpen(t, c) PROVE Clean
    BY <2>2, <2>3, <2>11 DEF TmpOpen
  <2>12. ASSUME NEW t \in TmpPath, NEW q \in NewPath, TmpLink(t, q) PROVE Clean
    BY <2>2, <2>3, <2>4, <2>12 DEF TmpLink
  <2>13. ASSUME NEW t \in TmpPath, TmpClose(t) PROVE Clean
    BY <1>1, <2>13 DEF TmpClose
  <2> QED
    BY <1>1, <2>1, <2>5, <2>6, <2>7, <2>8, <2>9, <2>10, <2>11, <2>12, <2>13 DEF Next
<1>2. [Next]_vars => [res' = "err" /\ NoGhost => Clean]_vars
  BY <1>1
<1> QED
  BY <1>2, PTL DEF Spec, FailureIsClean

-----------------------------------------------------------------------------
(***************************************************************************)
(* How far a call reaches: Reach(r, p) is what OnlyIn says of one name.    *)
(***************************************************************************)
Reach(r, p) == Within(r, p) \/ (Below(p, r) /\ MadeOnTheWay(r))

(* Only p itself, what was made above d, and what the lookup heals.        *)
LEMMA PutSeen ==
    ASSUME NEW D, NEW hs, NEW c, NEW p \in Path, NEW d, d = p \/ d = Parent(p),
           NEW h, NEW s, Leaves(h, s, hs, c),
           \A r \in Path \ {p} : h[r] = Made(d)[r] /\ s[r] = Healed(D)[r]
    PROVE  \A r \in Path : View(r)' = View(r) \/ Reach(r, p)
<1> SUFFICES ASSUME NEW r \in Path, r # p PROVE View(r)' = View(r) \/ Reach(r, p)
  BY DEF Reach, Within
<1>1. View(r)' = View(r) \/ (Within(d, r) /\ MadeOnTheWay(r))
  BY MadeLeaves
<1>2. Within(d, r) => Below(p, r)
  BY PathFacts, ParentFacts DEF Within
<1> QED
  BY <1>1, <1>2 DEF Reach

LEMMA PutAlone ==
    ASSUME NEW D, NEW hs, NEW c, NEW p \in Path, NEW h, NEW s, Leaves(h, s, hs, c),
           \A r \in Path \ {p} : h[r] = host[r] /\ s[r] = Healed(D)[r]
    PROVE  \A r \in Path : View(r)' = View(r) \/ Reach(r, p)
<1> SUFFICES ASSUME NEW r \in Path, r # p PROVE View(r)' = View(r)
  BY DEF Reach, Within
<1> QED
  BY LeavesSeen, HealedSeen

LEMMA RemovalReach ==
    ASSUME Good(host, side, has), NEW p \in Path, Unlink(p) \/ Rmdir(p)
    PROVE  \A r \in Path : View(r)' = View(r) \/ Reach(r, p)
<1> DEFINE D == {Parent(p)}
           s == Healed(D)
           Goal == \A r \in Path : View(r)' = View(r) \/ Reach(r, p)
<1>1. ASSUME NEW E, Fails(E) PROVE Goal
  BY <1>1, FailsSeen
<1>2. host \in [Path -> Data \cup {"none", "dir"}] /\ s \in [Path -> Metas \cup {NoMeta}]
  BY HealedFacts DEF Good, Typed
<1>3. ASSUME NEW v, NEW hs, NEW c, Leaves([host EXCEPT ![p] = v], [s EXCEPT ![p] = NoMeta], hs, c)
      PROVE  Goal
  <2> DEFINE h == [host EXCEPT ![p] = v]
             x == [s EXCEPT ![p] = NoMeta]
  <2>1. \A r \in Path \ {p} : h[r] = host[r] /\ x[r] = s[r]
    BY <1>2
  <2>2. Leaves(h, x, hs, c)
    BY <1>3
  <2> HIDE DEF h, x
  <2> QED
    BY <2>1, <2>2, PutAlone
<1> HIDE DEF Goal
<1>4. ASSUME Unlink(p) PROVE Goal
  BY <1>1, <1>3, <1>4 DEF Unlink
<1>5. ASSUME Rmdir(p) PROVE Goal
  BY <1>1, <1>3, <1>5 DEF Rmdir
<1> QED
  BY <1>4, <1>5 DEF Goal

LEMMA CreationReach ==
    ASSUME Good(host, side, has), NEW p \in NewPath, Mkdir(p) \/ Create(p) \/ Symlink(p)
    PROVE  \A r \in Path : View(r)' = View(r) \/ Reach(r, p)
<1> DEFINE Goal == \A r \in Path : View(r)' = View(r) \/ Reach(r, p)
<1>1. p \in Path /\ host \in [Path -> Data \cup {"none", "dir"}]
  BY PathAssumption DEF Good, Typed
<1>2. \A D : Healed(D) \in [Path -> Metas \cup {NoMeta}]
  BY HealedFacts DEF Good, Typed
<1>3. ASSUME NEW D, Fails(D) PROVE Goal
  BY <1>3, FailsSeen
<1>4. ASSUME NEW D, NEW hs, NEW c, Leaves(host, Healed(D), hs, c) PROVE Goal
  BY <1>4, LookupSeen
<1>5. CASE Mkdir(p)
  <2> DEFINE D == {Parent(p)}
             x == [Healed(D) EXCEPT ![p] = Given("dir")]
  <2>1. CASE Fails(D)
    BY <1>3, <2>1
  <2>2. CASE Leaves(Made(p), x, HealedHas(D) \cup D, "ok")
    <3>1. \A r \in Path \ {p} : x[r] = Healed(D)[r]
      BY <1>2
    <3> HIDE DEF x
    <3> QED
      BY <1>1, <2>2, <3>1, PutSeen
  <2> QED
    BY <1>5, <2>1, <2>2 DEF Mkdir
<1>6. CASE Create(p)
  <2> DEFINE D == {Parent(r) : r \in Above(p)}
             h == [Made(Parent(p)) EXCEPT ![p] = "empty"]
             x == [Healed(D) EXCEPT ![p] = Given("reg")]
             k == [host EXCEPT ![p] = IF host[p] = "none" THEN "empty" ELSE host[p]]
  <2>1. \/ Fails(D) \/ Leaves(h, x, HealedHas(D) \cup {Parent(p)}, "ok")
        \/ Leaves(host, Healed(D \cup {p}), HealedHas(D \cup {p}), "ok")
        \/ Leaves(k, Healed(D), HealedHas(D), "ok")
    BY <1>6 DEF Create
  <2>2. CASE Leaves(h, x, HealedHas(D) \cup {Parent(p)}, "ok")
    <3>1. \A r \in Path \ {p} : x[r] = Healed(D)[r]
      BY <1>2
    <3>2. \A r \in Path \ {p} : h[r] = Made(Parent(p))[r]
      BY DEF Made
    <3> HIDE DEF x, h, D
    <3> QED
      BY <1>1, <2>2, <3>1, <3>2, PutSeen
  <2>3. CASE Leaves(k, Healed(D), HealedHas(D), "ok")
    <3>1. \A r \in Path \ {p} : k[r] = host[r]
      BY <1>1
    <3> HIDE DEF k, D
    <3> QED
      BY <1>1, <2>3, <3>1, PutAlone
  <2> HIDE DEF Goal, D, h, x, k
  <2> QED
    BY <1>3, <1>4, <2>1, <2>2, <2>3 DEF Goal
<1>7. CASE Symlink(p)
  <2> DEFINE D == {Parent(p)}
             x == [Healed(D) EXCEPT ![p] = Given("lnk")]
  <2>1. CASE Fails(D)
    BY <1>3, <2>1
  <2>2. CASE Leaves(host, x, HealedHas(D) \cup D, "ok")
    <3>1. \A r \in Path \ {p} : x[r] = Healed(D)[r]
      BY <1>2
    <3> HIDE DEF x
    <3> QED
      BY <1>1, <2>2, <3>1, PutAlone
  <2> QED
    BY <1>7, <2>1, <2>2 DEF Symlink
<1> QED
  BY <1>5, <1>6, <1>7

LEMMA LinkReach ==
    ASSUME Good(host, side, has), NEW p \in Path, NEW q \in NewPath, Link(p, q)
    PROVE  \A r \in Path : View(r)' = View(r) \/ Reach(r, q)
<1> DEFINE Goal == \A r \in Path : View(r)' = View(r) \/ Reach(r, q)
           D == {Parent(p), Parent(q)}
           s == Healed(D)
           g == Made(Parent(q))
           x == [s EXCEPT ![q] = Entry(p)]
           hs == HealedHas(D)
           y == hs \cup {Parent(q)}
<1>1. q \in Path /\ s \in [Path -> Metas \cup {NoMeta}]
  BY PathAssumption, HealedFacts DEF Good, Typed
<1>2. \/ Fails(D) \/ Leaves(g, s, hs, "err") \/ Leaves([g EXCEPT ![q] = "empty"], s, hs, "err")
      \/ Leaves([g EXCEPT ![q] = host[p]], x, y, "ok") \/ Leaves(host, x, y, "ok")
  BY DEF Link
<1>3. CASE Fails(D)
  BY <1>3, FailsSeen
<1>4. \A r \in Path \ {q} : x[r] = s[r]
  BY <1>1
<1>5. \A v : \A r \in Path \ {q} : [g EXCEPT ![q] = v][r] = g[r]
  BY DEF Made
<1> HIDE DEF x, s, hs, y, g, Goal
<1>6. ASSUME NEW h, NEW z, NEW ys, NEW c, Leaves(h, z, ys, c),
             \A r \in Path \ {q} : h[r] = g[r] /\ z[r] = s[r]
      PROVE  Goal
  BY <1>1, <1>6, PutSeen DEF s, g, Goal
<1>7. ASSUME Leaves(g, s, hs, "err") \/ Leaves([g EXCEPT ![q] = "empty"], s, hs, "err") PROVE Goal
  BY <1>5, <1>6, <1>7
<1>8. ASSUME Leaves([g EXCEPT ![q] = host[p]], x, y, "ok") PROVE Goal
  <2> DEFINE h == [g EXCEPT ![q] = host[p]]
  <2>1. Leaves(h, x, y, "ok") /\ \A r \in Path \ {q} : h[r] = g[r] /\ x[r] = s[r]
    BY <1>4, <1>5, <1>8
  <2> HIDE DEF h
  <2> QED
    BY <1>6, <2>1
<1>9. ASSUME Leaves(host, x, y, "ok") PROVE Goal
  BY <1>1, <1>4, <1>9, PutAlone DEF s, Goal
<1> QED
  BY <1>2, <1>3, <1>7, <1>8, <1>9 DEF Goal

(* The four ways in which a rename ends.                                   *)
LEMMA RenameEnds ==
    ASSUME IInv, NEW p \in Path, NEW q \in NewPath, Rename(p, q)
    PROVE  LET D == {Parent(p)}
               s == Healed(D)
               hs == HealedHas(D)
           IN
           \/ Fails(D)
           \/ /\ s[p].type \notin {"reg", "dir"} \/ host[p] = "none"
              /\ Leaves(host, Renamed(s, p, q), hs \cup {Parent(p), Parent(q)}, "ok")
           \/ Leaves(Made(Parent(q)), s, hs, "err")
           \/ /\ Renames(s, hs, p, q)
              /\ Leaves(RenamedHost(p, q), RenamedSide(s, p, q), RenamedHas(hs, p, q), "ok")
<1> DEFINE D == {Parent(p)}
           s == Healed(D)
           hs == HealedHas(D)
           onHost == s[p].type \in {"reg", "dir"} /\ host[p] # "none"
<1>1. Good(host, s, hs) /\ q \in Path
  BY HealedFacts, PathAssumption DEF IInv
<1>2. \/ Fails(D)
      \/ ~onHost /\ Leaves(host, Renamed(s, p, q), hs \cup {Parent(p), Parent(q)}, "ok")
      \/ Leaves(Made(Parent(q)), s, hs, "err")
      \/ /\ onHost /\ ~Blocked(Parent(q)) /\ ~HostRefuses(p, q)
         /\ Leaves(RenamedHost(p, q), RenamedSide(s, p, q), RenamedHas(hs, p, q), "ok")
  BY DEF Rename, RenamedHost, RenamedSide, RenamedHas
<1> HIDE DEF s, hs
<1>3. onHost /\ ~Blocked(Parent(q)) /\ ~HostRefuses(p, q) => Renames(s, hs, p, q)
  BY <1>1 DEF Renames
<1> QED
  BY <1>2, <1>3 DEF s, hs

LEMMA RenameReach ==
    ASSUME IInv, NEW p \in Path, NEW q \in NewPath, Rename(p, q)
    PROVE  \A r \in Path : View(r)' = View(r) \/ Reach(r, p) \/ Reach(r, q)
<1> DEFINE D == {Parent(p)}
           s == Healed(D)
           hs == HealedHas(D)
           x == Renamed(s, p, q)
           y == hs \cup {Parent(p), Parent(q)}
<1>1. /\ q \in Path /\ s \in [Path -> Metas \cup {NoMeta}]
      /\ \A r \in Path : Seen(host[r], s[r]) = View(r)
  BY PathAssumption, HealedFacts, HealedSeen DEF IInv, Good, Typed
<1>2. \/ Fails(D)
      \/ Leaves(host, x, y, "ok")
      \/ Leaves(Made(Parent(q)), s, hs, "err")
      \/ /\ Renames(s, hs, p, q)
         /\ Leaves(RenamedHost(p, q), RenamedSide(s, p, q), RenamedHas(hs, p, q), "ok")
  BY RenameEnds
<1>3. CASE Fails(D)
  BY <1>3, FailsSeen
<1>4. CASE Leaves(Made(Parent(q)), s, hs, "err")
  BY <1>1, <1>4, PutSeen
<1>5. CASE Leaves(host, x, y, "ok")
  <2> HIDE DEF s
  <2>1. ASSUME NEW r \in Path, r # p, r # q PROVE x[r] = s[r]
    BY <1>1, <2>1 DEF Renamed
  <2>2. \A r \in Path : View(r)' = Seen(host[r], x[r])
    BY <1>5, LeavesSeen
  <2> HIDE DEF x
  <2> QED
    BY <1>1, <2>1, <2>2 DEF Reach, Within
<1> HIDE DEF s, hs
<1>6. CASE /\ Renames(s, hs, p, q)
           /\ Leaves(RenamedHost(p, q), RenamedSide(s, p, q), RenamedHas(hs, p, q), "ok")
  <2> DEFINE h == RenamedHost(p, q)
             z == RenamedSide(s, p, q)
  <2> SUFFICES ASSUME NEW r \in Path, ~Within(r, p), ~Within(r, q)
               PROVE  View(r)' = View(r) \/ Reach(r, q)
    BY DEF Reach
  <2>1. z[r] = s[r] /\ (h[r] = host[r] \/ (host[r] = "none" /\ h[r] = "dir" /\ Within(Parent(q), r)))
    BY <1>6, WhatMoved
  <2>2. View(r)' = Seen(h[r], z[r])
    BY <1>6, LeavesSeen
  <2> HIDE DEF h, z
  <2>3. CASE h[r] = host[r]
    BY <1>1, <2>1, <2>2, <2>3
  <2>4. CASE host[r] = "none" /\ h[r] = "dir" /\ Within(Parent(q), r)
    <3>1. Below(q, r)
      BY <1>1, <2>4, PathFacts, ParentFacts
    <3>2. View(r)' = View(r) \/ MadeOnTheWay(r)
      BY <2>1, <2>2, <2>4, MadeSeen DEF s, MadeOnTheWay
    <3> QED
      BY <3>1, <3>2 DEF Reach
  <2> QED
    BY <2>1, <2>3, <2>4
<1> QED
  BY <1>2, <1>3, <1>4, <1>5, <1>6

(* Action property.  A call changes what the guest sees under the names it *)
(* was given and nowhere else, but for directories made on the way: no     *)
(* entry is lost, uncovered or brought back by a call about another one.   *)
THEOREM EffectsAreLocal == Spec => LocalEffect
<1> DEFINE C == {r \in Path : View(r)' # View(r)}
           Local == C # {} =>
               /\ \A p \in Path : ~Stat(p) /\ (OnlyIn(C, {p}) \/ ~(Unlink(p) \/ Rmdir(p)))
               /\ \A p \in NewPath : OnlyIn(C, {p}) \/ ~(Mkdir(p) \/ Create(p) \/ Symlink(p))
               /\ \A p \in Path, q \in NewPath : (OnlyIn(C, {p, q}) \/ ~Rename(p, q))
                                               /\ (OnlyIn(C, {q}) \/ ~Link(p, q))
<1>1. ASSUME IInv PROVE Local
  <2>1. \A r \in C : r \in Path /\ View(r)' # View(r)
    OBVIOUS
  <2>2. ASSUME NEW p \in Path, Stat(p) PROVE C = {}
    <3>1. \A r \in Path : View(r)' = View(r)
      BY <2>2, LookupSeen DEF Stat
    <3> QED
      BY <2>1, <3>1
  <2> HIDE DEF C
  <2>3. ASSUME NEW p, \A r \in Path : View(r)' = View(r) \/ Reach(r, p) PROVE OnlyIn(C, {p})
    BY <2>1, <2>3 DEF OnlyIn, Reach, Within
  <2>4. ASSUME NEW p \in Path, Unlink(p) \/ Rmdir(p) PROVE OnlyIn(C, {p})
    BY <1>1, <2>3, <2>4, RemovalReach DEF IInv
  <2>5. ASSUME NEW p \in NewPath, Mkdir(p) \/ Create(p) \/ Symlink(p) PROVE OnlyIn(C, {p})
    BY <1>1, <2>3, <2>5, CreationReach DEF IInv
  <2>6. ASSUME NEW p \in Path, NEW q \in NewPath, Link(p, q) PROVE OnlyIn(C, {q})
    BY <1>1, <2>3, <2>6, LinkReach DEF IInv
  <2>7. ASSUME NEW p \in Path, NEW q \in NewPath, Rename(p, q) PROVE OnlyIn(C, {p, q})
    <3>1. \A r \in Path : View(r)' = View(r) \/ Reach(r, p) \/ Reach(r, q)
      BY <1>1, <2>7, RenameReach
    <3> QED
      BY <2>1, <3>1 DEF OnlyIn, Reach, Within
  <2> QED
    BY <2>2, <2>4, <2>5, <2>6, <2>7
<1>2. Spec => []IInv
  BY Inductive
<1> QED
  BY <1>1, <1>2, PTL DEF LocalEffect

LEMMA RenameLands ==
    ASSUME IInv, NEW p \in Path, NEW q \in NewPath, Rename(p, q),
           res' = "ok", p # q, side[p] # NoMeta, Agrees(p)
    PROVE  /\ View(q)' = View(p)
           /\ View(p)' = Nothing
           /\ \A r \in Path : Below(r, p) /\ View(r) # Nothing =>
                  From(r, q, p) \in Path /\ View(From(r, q, p))' = View(r)
<1> DEFINE D == {Parent(p)}
           s == Healed(D)
           hs == HealedHas(D)
           x == Renamed(s, p, q)
           y == hs \cup {Parent(p), Parent(q)}
<1>1. /\ q \in Path /\ p \in Paths /\ q \in Paths /\ Good(host, side, has) /\ Fits(p, q)
      /\ Good(host, s, hs)
      /\ \A r \in Path : Seen(host[r], s[r]) = View(r)
  BY PathAssumption, PathFacts, HealedFacts, HealedSeen DEF IInv, Rename
<1>2. s[p] = side[p]
  BY DEF Healed, Entry, Unregistered
<1>3. \/ /\ s[p].type \notin {"reg", "dir"} \/ host[p] = "none"
         /\ Leaves(host, x, y, "ok")
      \/ /\ Renames(s, hs, p, q)
         /\ Leaves(RenamedHost(p, q), RenamedSide(s, p, q), RenamedHas(hs, p, q), "ok")
  BY RenameEnds DEF Fails, Leaves
<1>4. ASSUME NEW r \in Path, Below(r, p), View(r) # Nothing
      PROVE  host[p] = "dir" /\ Entry(r) # NoMeta /\ From(r, q, p) \in Path
  <2>1. Entry(r) # NoMeta
    BY <1>4, MetaFacts DEF View, Nothing
  <2>2. host[r] # "none" \/ side[r] # NoMeta
    BY <1>1, <2>1, EntryFacts
  <2>3. host[p] = "dir"
    BY <1>1, <1>4, <2>2 DEF Good, Rooted
  <2> QED
    BY <1>1, <1>4, <2>1, <2>3 DEF Fits
<1>5. Seen("none", NoMeta) = Nothing
  BY MetaFacts DEF Seen, Nothing
<1> HIDE DEF s, hs
<1>6. CASE /\ s[p].type \notin {"reg", "dir"} \/ host[p] = "none"
           /\ Leaves(host, x, y, "ok")
  <2>1. side[p].type = "lnk" /\ host[p] = "none"
    <3>1. side[p].type \in {"dir", "reg", "lnk"}
      BY <1>1, MetaFacts DEF Good, Typed
    <3>2. "none" \notin Data /\ "none" # "dir"
      BY DataAssumption
    <3> QED
      BY <1>2, <1>6, <3>1, <3>2 DEF Agrees
  <2>2. x[q] = s[p] /\ x[p] = NoMeta
    BY <1>1 DEF Renamed, Good, Typed
  <2>3. \A r \in Path : View(r)' = Seen(host[r], x[r])
    BY <1>6, LeavesSeen
  <2> HIDE DEF x
  <2>4. View(p)' = Nothing
    BY <1>5, <2>1, <2>2, <2>3
  <2>5. View(q)' = View(p)
    <3>1. \A h : Seen(h, side[p]) = <<side[p], "none">>
      BY <2>1 DEF Seen
    <3>2. View(p) = <<side[p], "none">>
      BY <1>1, <1>2, <3>1
    <3>3. View(q)' = Seen(host[q], side[p])
      BY <1>1, <1>2, <2>2, <2>3
    <3> QED
      BY <3>1, <3>2, <3>3
  <2> QED
    BY <1>4, <2>1, <2>4, <2>5
<1>7. CASE /\ Renames(s, hs, p, q)
           /\ Leaves(RenamedHost(p, q), RenamedSide(s, p, q), RenamedHas(hs, p, q), "ok")
  <2> DEFINE h == RenamedHost(p, q)
             z == RenamedSide(s, p, q)
  <2>1. ~Within(p, q) /\ Within(p, p)
    BY <1>7, Apart DEF Within
  <2>2. \A r \in Path : View(r)' = Seen(h[r], z[r])
    BY <1>7, LeavesSeen
  <2>3. h[p] = "none" /\ z[p] = NoMeta
    BY <1>7, <2>1, WhatMoved
  <2>4. ASSUME NEW u \in Path, Within(u, q), From(u, p, q) \in Path
        PROVE  View(u)' = View(From(u, p, q))
    <3>1. u # p
      BY <2>1, <2>4
    <3>2. h[u] = host[From(u, p, q)] /\ z[u] = s[From(u, p, q)]
      BY <1>7, <2>4, <3>1, WhatMoved
    <3> HIDE DEF h, z
    <3> QED
      BY <1>1, <2>2, <2>4, <3>2
  <2> HIDE DEF h, z
  <2>5. View(p)' = Nothing
    BY <1>5, <2>2, <2>3
  <2>6. View(q)' = View(p)
    <3>1. Within(q, q) /\ From(q, p, q) = p
      BY <1>1, FromFacts DEF Within
    <3> QED
      BY <1>1, <2>4, <3>1
  <2>7. ASSUME NEW r \in Path, Below(r, p), View(r) # Nothing
        PROVE  From(r, q, p) \in Path /\ View(From(r, q, p))' = View(r)
    <3> DEFINE u == From(r, q, p)
    <3>1. u \in Path
      BY <1>4, <2>7
    <3>2. Within(u, q) /\ From(u, p, q) = r
      BY <1>1, <2>7, PathFacts, FromFacts DEF Within
    <3> HIDE DEF u
    <3>3. View(u)' = View(r)
      BY <2>4, <3>1, <3>2
    <3> QED
      BY <3>1, <3>3 DEF u
  <2> QED
    BY <2>5, <2>6, <2>7
<1> QED
  BY <1>3, <1>6, <1>7

(* Action property.  A rename to another name that succeeds moves the      *)
(* entry, its content and everything below it, whatever was under the new  *)
(* name before.                                                            *)
THEOREM RenamesMove == Spec => RenameMoves
<1> DEFINE Moves == \A p \in Path, q \in NewPath :
                       res' = "ok" /\ p # q /\ side[p] # NoMeta /\ Agrees(p) =>
                           \/ /\ View(q)' = View(p)
                              /\ View(p)' = Nothing
                              /\ \A r \in Path : Below(r, p) /\ View(r) # Nothing =>
                                     From(r, q, p) \in Path /\ View(From(r, q, p))' = View(r)
                           \/ ~Rename(p, q)
<1>1. IInv => Moves
  BY RenameLands
<1>2. Spec => []IInv
  BY Inductive
<1> QED
  BY <1>1, <1>2, PTL DEF RenameMoves
=============================================================================
