------------------------------ MODULE WaitSpec ------------------------------
(***************************************************************************)
(* What fork and wait4 promise a guest program, stated without goroutines, *)
(* channels or a registry: a child is alive, then a zombie that keeps its  *)
(* exit code, then reaped, by its own parent and exactly once; and a wait4 *)
(* that reports a child, no child, or no exited child, tells the truth.    *)
(* ProcTree.tla implements this specification.                             *)
(***************************************************************************)
EXTENDS Integers

CONSTANTS Proc, Root, NoProc, RootPid

VARIABLES life,      \* life[c] \in {"unborn", "alive", "zombie", "reaped"}
          ppid,      \* ppid[c]: the process that forked c, NoProc for none
          pid,       \* pid[c]: the number c is waited for by, 0 if unborn
          exited,    \* exited[c]: the exit code of a zombie
          answer     \* answer[p]: what the last wait4 of p returned

waitVars == <<life, ppid, pid, exited, answer>>

Unreaped == {"alive", "zombie"}

(* The children of p that wait4(want) is about; want <= 0 means any child. *)
Matching(p, want) ==
    {c \in Proc : ppid[c] = p /\ life[c] \in Unreaped /\ (want <= 0 \/ pid[c] = want)}

WaitInit ==
    /\ life = [c \in Proc |-> IF c = Root THEN "alive" ELSE "unborn"]
    /\ ppid = [c \in Proc |-> NoProc]
    /\ pid = [c \in Proc |-> IF c = Root THEN RootPid ELSE 0]
    /\ exited = [c \in Proc |-> 0]
    /\ answer = [p \in Proc |->
                    [kind |-> "none", want |-> 0, child |-> NoProc, status |-> 0]]

(* fork: a new process under a number no other process has had.            *)
Fork(p, c) ==
    /\ life[c] = "unborn"
    /\ life' = [life EXCEPT ![c] = "alive"]
    /\ ppid' = [ppid EXCEPT ![c] = p]
    /\ pid'[c] > 0
    /\ \A q \in Proc : pid'[c] # pid[q] /\ (q # c => pid'[q] = pid[q])
    /\ UNCHANGED <<exited, answer>>

(* A child becomes a zombie; this is when its code becomes visible.        *)
Die(c) ==
    /\ life[c] = "alive"
    /\ c # Root
    /\ life' = [life EXCEPT ![c] = "zombie"]
    /\ exited'[c] \in 0..255
    /\ \A q \in Proc \ {c} : exited'[q] = exited[q]
    /\ UNCHANGED <<ppid, pid, answer>>

(* wait4 returns a zombie's number and its code in bits 8-15.              *)
Reap(p, c, want) ==
    /\ c \in Matching(p, want)
    /\ life[c] = "zombie"
    /\ life' = [life EXCEPT ![c] = "reaped"]
    /\ answer' = [answer EXCEPT ![p] =
            [kind |-> "pid", want |-> want, child |-> c, status |-> 256 * exited[c]]]
    /\ UNCHANGED <<ppid, pid, exited>>

(* wait4 fails with ECHILD: there really is no such child to wait for.     *)
NoChild(p, want) ==
    /\ Matching(p, want) = {}
    /\ answer' = [answer EXCEPT ![p] =
            [kind |-> "ECHILD", want |-> want, child |-> NoProc, status |-> 0]]
    /\ UNCHANGED <<life, ppid, pid, exited>>

(* wait4(WNOHANG) returns 0: there is one, and it need not have exited.    *)
NotYet(p, want) ==
    /\ Matching(p, want) # {}
    /\ answer' = [answer EXCEPT ![p] =
            [kind |-> "0", want |-> want, child |-> NoProc, status |-> 0]]
    /\ UNCHANGED <<life, ppid, pid, exited>>

(* The number asked for is whatever the answer records.                    *)
WaitNext ==
    \E p \in Proc :
        \/ \E c \in Proc : Fork(p, c)
        \/ Die(p)
        \/ \E c \in Proc : Reap(p, c, answer'[p].want)
        \/ NoChild(p, answer'[p].want)
        \/ NotYet(p, answer'[p].want)

WaitSafety == WaitInit /\ [][WaitNext]_waitVars
=============================================================================
