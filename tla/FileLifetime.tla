---------------------------- MODULE FileLifetime ----------------------------
(***************************************************************************)
(* What the reference counts of internal/fds promise, stated without any   *)
(* count: an open file description (a fds.File) is closed exactly when the *)
(* last descriptor that refers to it has gone, and nothing comes back to   *)
(* life afterwards.  FdTable.tla implements this specification.            *)
(***************************************************************************)
EXTENDS Naturals

CONSTANTS Desc,      \* descriptors: (table, number) pairs
          File,      \* open file descriptions
          Held0      \* the initial holders: [File -> SUBSET Desc]

VARIABLES holders,   \* holders[f]: the descriptors that refer to f
          life       \* life[f] \in {"new", "open", "closed"}

lifeVars == <<holders, life>>

LifeInit ==
    /\ holders = Held0
    /\ life = [f \in File |-> IF Held0[f] = {} THEN "new" ELSE "open"]

(***************************************************************************)
(* A descriptor refers to at most one description.                         *)
(***************************************************************************)
Unused(d) == \A f \in File : d \notin holders[f]

(* open(2), pipe(2), socket(2): a new description with one descriptor.     *)
Open(f, d) ==
    /\ life[f] = "new"
    /\ Unused(d)
    /\ life' = [life EXCEPT ![f] = "open"]
    /\ holders' = [holders EXCEPT ![f] = {d}]

(* dup(2), dup2(2), fork(2): one more descriptor for a description that    *)
(* already has one.                                                        *)
Share(f, d) ==
    /\ life[f] = "open"
    /\ holders[f] # {}
    /\ Unused(d)
    /\ holders' = [holders EXCEPT ![f] = @ \cup {d}]
    /\ UNCHANGED life

(* close(2), exit(2), execve(2): a descriptor goes away.                   *)
Drop(f, d) ==
    /\ d \in holders[f]
    /\ holders' = [holders EXCEPT ![f] = @ \ {d}]
    /\ UNCHANGED life

(* The description itself is closed, once, after its last descriptor.      *)
Release(f) ==
    /\ life[f] = "open"
    /\ holders[f] = {}
    /\ life' = [life EXCEPT ![f] = "closed"]
    /\ UNCHANGED holders

LifeNext ==
    \E f \in File :
        \/ \E d \in Desc : Open(f, d) \/ Share(f, d) \/ Drop(f, d)
        \/ Release(f)

LifeSafety == LifeInit /\ [][LifeNext]_lifeVars

LifeSpec == LifeSafety /\ \A f \in File : WF_lifeVars(Release(f))
=============================================================================
