------------------------------ MODULE ProcTree ------------------------------
(***************************************************************************)
(* internal/emulator: fork, exit and wait4.  A forked process is a copy    *)
(* that runs on a goroutine of its own; wait4 finds it again through a     *)
(* childRecord in the package-level registry childrenOf.  The goroutines   *)
(* share that registry, the pid counter and the records' done channels.    *)
(***************************************************************************)
EXTENDS Integers, FiniteSets

CONSTANTS Proc,      \* guest processes
          Root,      \* the process main() runs
          NoProc,
          RootPid,   \* os.Getpid()
          PidBase,   \* childPidBase
          ExitArg,   \* bound: the arguments exit(2) is called with
          WaitArg    \* bound: the pid arguments wait4(2) is called with

ASSUME RootAssumption == Root \in Proc /\ NoProc \notin Proc
ASSUME PidAssumption == RootPid \in Nat /\ PidBase \in Nat /\ 0 < RootPid /\ RootPid <= PidBase
ASSUME ExitArgAssumption == ExitArg \subseteq Nat
ASSUME WaitArgAssumption == WaitArg \subseteq Int

VARIABLES
    pc,            \* where the goroutine of each process is
    pid,           \* Process.Pid_, 0 before fork has allocated one
    nextChildPid,
    childrenOf,    \* childrenOf[p]: the processes whose records p's list holds
    code,          \* code[p]: what Run() of p returned
    exitCode,      \* childRecord.exitCode of the record of each child
    done,          \* the children whose record's done channel is closed
    reaped,        \* the children whose record has reaped set
    want,          \* Wait4's pid argument
    options,       \* Wait4's options argument
    candidates,    \* Wait4's candidates
    todo,          \* the candidates Wait4 has still to poll
    rec,           \* the record doFork is making, or Wait4 has chosen
    ripe,          \* history: the candidates done when Wait4 took the list
    answer         \* what the last Wait4 of each process returned

tree == <<pid, nextChildPid, childrenOf>>
record == <<code, exitCode, done, reaped>>
locals == <<want, options, candidates, todo, rec, ripe>>
vars == <<pc, tree, record, locals, answer>>

Reply(k, w, c, s) == [kind |-> k, want |-> w, child |-> c, status |-> s]

PC == {"unborn", "nascent", "user", "register", "spawn",
       "poll", "wait", "reap", "returned", "recorded", "gone"}
Answer == [kind : {"none", "pid", "ECHILD", "0"}, want : Int,
           child : Proc \cup {NoProc}, status : Nat]

TypeOK ==
    /\ pc \in [Proc -> PC]
    /\ pid \in [Proc -> Nat]
    /\ nextChildPid \in Nat
    /\ childrenOf \in [Proc -> SUBSET Proc]
    /\ code \in [Proc -> 0..255]
    /\ exitCode \in [Proc -> 0..255]
    /\ done \subseteq Proc
    /\ reaped \subseteq Proc
    /\ want \in [Proc -> Int]
    /\ options \in [Proc -> {"none", "WNOHANG"}]
    /\ candidates \in [Proc -> SUBSET Proc]
    /\ todo \in [Proc -> SUBSET Proc]
    /\ rec \in [Proc -> Proc \cup {NoProc}]
    /\ ripe \in [Proc -> SUBSET Proc]
    /\ answer \in [Proc -> Answer]

Init ==
    /\ pc = [p \in Proc |-> IF p = Root THEN "user" ELSE "unborn"]
    /\ pid = [p \in Proc |-> IF p = Root THEN RootPid ELSE 0]
    /\ nextChildPid = PidBase
    /\ childrenOf = [p \in Proc |-> {}]
    /\ code = [p \in Proc |-> 0]
    /\ exitCode = [p \in Proc |-> 0]
    /\ done = {}
    /\ reaped = {}
    /\ want = [p \in Proc |-> 0]
    /\ options = [p \in Proc |-> "none"]
    /\ candidates = [p \in Proc |-> {}]
    /\ todo = [p \in Proc |-> {}]
    /\ rec = [p \in Proc |-> NoProc]
    /\ ripe = [p \in Proc |-> {}]
    /\ answer = [p \in Proc |-> Reply("none", 0, NoProc, 0)]

-----------------------------------------------------------------------------
(***************************************************************************)
(* doFork: allocate a number, copy the process, register the record, start *)
(* the goroutine.  (installHooks, whose failure doFork handles, only fills *)
(* in the hook fields of the new engine and returns nil.)                  *)
(***************************************************************************)
(* Mutation: the counter is read and not moved.                            *)
AllocChildPidNoBump(p, c) ==
    /\ pc[p] = "user"
    /\ pc[c] = "unborn"
    /\ pid' = [pid EXCEPT ![c] = nextChildPid + 1]
    /\ rec' = [rec EXCEPT ![p] = c]
    /\ pc' = [pc EXCEPT ![p] = "register", ![c] = "nascent"]
    /\ UNCHANGED <<nextChildPid, childrenOf, record, want, options, candidates, todo, ripe, answer>>

AllocChildPid(p, c) ==
    /\ pc[p] = "user"
    /\ pc[c] = "unborn"
    /\ nextChildPid' = nextChildPid + 1
    /\ pid' = [pid EXCEPT ![c] = nextChildPid + 1]
    /\ rec' = [rec EXCEPT ![p] = c]
    /\ pc' = [pc EXCEPT ![p] = "register", ![c] = "nascent"]
    /\ UNCHANGED <<childrenOf, record, want, options, candidates, todo, ripe, answer>>

(* The list is appended to by its owner alone and in the order in which it *)
(* allocated the numbers, so the set ordered by pid is the list.           *)
Register(p) ==
    /\ pc[p] = "register"
    /\ childrenOf' = [childrenOf EXCEPT ![p] = @ \cup {rec[p]}]
    /\ pc' = [pc EXCEPT ![p] = "spawn"]
    /\ UNCHANGED <<pid, nextChildPid, record, locals, answer>>

Spawn(p) ==
    /\ pc[p] = "spawn"
    /\ pc' = [pc EXCEPT ![p] = "user", ![rec[p]] = "user"]
    /\ rec' = [rec EXCEPT ![p] = NoProc]
    /\ UNCHANGED <<tree, record, want, options, candidates, todo, ripe, answer>>

-----------------------------------------------------------------------------
(***************************************************************************)
(* The end of a process: Run returns, then, in a child, the goroutine      *)
(* stores the code under registryMu and closes the channel.                *)
(***************************************************************************)

(* exit and exit_group mask the code to a byte.                            *)
Exit(p, n) ==
    /\ pc[p] = "user"
    /\ code' = [code EXCEPT ![p] = n % 256]
    /\ pc' = [pc EXCEPT ![p] = "returned"]
    /\ UNCHANGED <<tree, exitCode, done, reaped, locals, answer>>

(* Run returns an error: the emulation faulted or execve could not load.   *)
Fail(p) ==
    /\ pc[p] = "user"
    /\ code' = [code EXCEPT ![p] = IF p = Root THEN 1 ELSE 128]
    /\ pc' = [pc EXCEPT ![p] = "returned"]
    /\ UNCHANGED <<tree, exitCode, done, reaped, locals, answer>>

(* Mutation: the channel is closed before the code is stored.              *)
SetExitCodeAfterDone(p) ==
    /\ pc[p] = "returned"
    /\ p # Root
    /\ done' = done \cup {p}
    /\ pc' = [pc EXCEPT ![p] = "recorded"]
    /\ UNCHANGED <<tree, code, exitCode, reaped, locals, answer>>

SetExitCode(p) ==
    /\ pc[p] = "returned"
    /\ p # Root
    /\ exitCode' = [exitCode EXCEPT ![p] = code[p]]
    /\ pc' = [pc EXCEPT ![p] = "recorded"]
    /\ UNCHANGED <<tree, code, done, reaped, locals, answer>>

CloseDone(p) ==
    /\ pc[p] = "recorded"
    /\ done' = done \cup {p}
    /\ pc' = [pc EXCEPT ![p] = "gone"]
    /\ UNCHANGED <<tree, code, exitCode, reaped, locals, answer>>

(* main returns: every other goroutine is abandoned where it is.           *)
MainReturns ==
    /\ pc[Root] = "returned"
    /\ pc' = [pc EXCEPT ![Root] = "gone"]
    /\ UNCHANGED <<tree, record, locals, answer>>

Running == pc[Root] # "gone"

-----------------------------------------------------------------------------
(***************************************************************************)
(* Wait4: take the matching records under registryMu, poll each one's      *)
(* channel in list order, block if none is closed, reap the chosen one.    *)
(***************************************************************************)
(* Mutation: a record that is already reaped matches again.                *)
MatchesReaped(p, w) == {c \in childrenOf[p] : w <= 0 \/ pid[c] = w}

Matches(p, w) == {c \in childrenOf[p] \ reaped : w <= 0 \/ pid[c] = w}

(* Mutation: children that are still running do not count.                 *)
NoCandidatesExited(p, w) ==
    /\ pc[p] = "user"
    /\ Matches(p, w) \cap done = {}
    /\ answer' = [answer EXCEPT ![p] = Reply("ECHILD", w, NoProc, 0)]
    /\ UNCHANGED <<pc, tree, record, locals>>

NoCandidates(p, w) ==
    /\ pc[p] = "user"
    /\ Matches(p, w) = {}
    /\ answer' = [answer EXCEPT ![p] = Reply("ECHILD", w, NoProc, 0)]
    /\ UNCHANGED <<pc, tree, record, locals>>

Wait4(p, w, opt) ==
    /\ pc[p] = "user"
    /\ Matches(p, w) # {}
    /\ want' = [want EXCEPT ![p] = w]
    /\ options' = [options EXCEPT ![p] = opt]
    /\ candidates' = [candidates EXCEPT ![p] = Matches(p, w)]
    /\ todo' = [todo EXCEPT ![p] = Matches(p, w)]
    /\ ripe' = [ripe EXCEPT ![p] = Matches(p, w) \cap done]
    /\ pc' = [pc EXCEPT ![p] = "poll"]
    /\ UNCHANGED <<tree, record, rec, answer>>

IsFirst(c, S) == c \in S /\ \A d \in S : pid[c] <= pid[d]

(* Mutation: only the first candidate is polled.                           *)
PollPendingFirstOnly(p, c) ==
    /\ pc[p] = "poll"
    /\ IsFirst(c, todo[p])
    /\ c \notin done
    /\ todo' = [todo EXCEPT ![p] = {}]
    /\ UNCHANGED <<pc, tree, record, want, options, candidates, rec, ripe, answer>>

(* select on an open channel: go on to the next candidate.                 *)
PollPending(p, c) ==
    /\ pc[p] = "poll"
    /\ IsFirst(c, todo[p])
    /\ c \notin done
    /\ todo' = [todo EXCEPT ![p] = @ \ {c}]
    /\ UNCHANGED <<pc, tree, record, want, options, candidates, rec, ripe, answer>>

PollDone(p, c) ==
    /\ pc[p] = "poll"
    /\ IsFirst(c, todo[p])
    /\ c \in done
    /\ rec' = [rec EXCEPT ![p] = c]
    /\ todo' = [todo EXCEPT ![p] = {}]
    /\ pc' = [pc EXCEPT ![p] = "reap"]
    /\ UNCHANGED <<tree, record, want, options, candidates, ripe, answer>>

(* What Wait4 forgets when it returns.                                     *)
Return(p) ==
    /\ pc' = [pc EXCEPT ![p] = "user"]
    /\ want' = [want EXCEPT ![p] = 0]
    /\ options' = [options EXCEPT ![p] = "none"]
    /\ candidates' = [candidates EXCEPT ![p] = {}]
    /\ rec' = [rec EXCEPT ![p] = NoProc]
    /\ ripe' = [ripe EXCEPT ![p] = {}]

PollOver(p) ==
    /\ pc[p] = "poll"
    /\ todo[p] = {}
    /\ options[p] = "WNOHANG"
    /\ answer' = [answer EXCEPT ![p] = Reply("0", want[p], NoProc, 0)]
    /\ Return(p)
    /\ UNCHANGED <<tree, record, todo>>

Block(p) ==
    /\ pc[p] = "poll"
    /\ todo[p] = {}
    /\ options[p] = "none"
    /\ pc' = [pc EXCEPT ![p] = "wait"]
    /\ UNCHANGED <<tree, record, locals, answer>>

(* Mutation: the first candidate is waited for, whichever ends first.      *)
WaitFirstChild(p, c) ==
    /\ pc[p] = "wait"
    /\ IsFirst(c, candidates[p])
    /\ c \in done
    /\ rec' = [rec EXCEPT ![p] = c]
    /\ pc' = [pc EXCEPT ![p] = "reap"]
    /\ UNCHANGED <<tree, record, want, options, candidates, todo, ripe, answer>>

(* waitAnyChild: the helper goroutines race to the winner channel, so any  *)
(* candidate whose channel is closed may be the one received.              *)
WaitAnyChild(p, c) ==
    /\ pc[p] = "wait"
    /\ c \in candidates[p] \cap done
    /\ rec' = [rec EXCEPT ![p] = c]
    /\ pc' = [pc EXCEPT ![p] = "reap"]
    /\ UNCHANGED <<tree, record, want, options, candidates, todo, ripe, answer>>

Reap(p) ==
    /\ pc[p] = "reap"
    /\ reaped' = reaped \cup {rec[p]}
    /\ answer' = [answer EXCEPT ![p] =
            Reply("pid", want[p], rec[p], 256 * (exitCode[rec[p]] % 256))]
    /\ Return(p)
    /\ UNCHANGED <<tree, code, exitCode, done, todo>>

-----------------------------------------------------------------------------
(* What a guest program may do next, or fail to do.                        *)
Call(p) ==
    \/ \E c \in Proc : AllocChildPid(p, c)
    \/ \E n \in ExitArg : Exit(p, n)
    \/ Fail(p)
    \/ \E w \in WaitArg : NoCandidates(p, w)
    \/ \E w \in WaitArg, opt \in {"none", "WNOHANG"} : Wait4(p, w, opt)

(* What its goroutine does by itself.                                      *)
Step(p) ==
    \/ Register(p)
    \/ Spawn(p)
    \/ SetExitCode(p)
    \/ CloseDone(p)
    \/ \E c \in Proc : PollPending(p, c)
    \/ \E c \in Proc : PollDone(p, c)
    \/ PollOver(p)
    \/ Block(p)
    \/ \E c \in Proc : WaitAnyChild(p, c)
    \/ Reap(p)

Next ==
    /\ Running
    /\ \/ \E p \in Proc : Call(p) \/ Step(p)
       \/ MainReturns

Safety == Init /\ [][Next]_vars

(* The Go scheduler runs every goroutine that can run, until main returns. *)
Spec == Safety /\ \A p \in Proc : WF_vars(Running /\ Step(p))

-----------------------------------------------------------------------------
(* Safety.  The record Wait4 is about to reap belongs to a child of the    *)
(* caller that has ended, is not reaped yet, and that no other process is  *)
(* about to reap: nobody is told twice of the same death.                  *)
ReapsOwnZombie ==
    \A p \in Proc : pc[p] = "reap" =>
        /\ rec[p] \in (childrenOf[p] \cap done) \ reaped
        /\ \A q \in Proc \ {p} : rec[p] \notin childrenOf[q]

(* Safety.  The status Wait4 reports is the code the child's own Run       *)
(* returned, although the goroutine that sets it and the one that reads it *)
(* only meet at the done channel.                                          *)
StatusIsExitCode ==
    \A p \in Proc : answer[p].kind = "pid" =>
        /\ answer[p].child \in reaped
        /\ pc[answer[p].child] = "gone"
        /\ answer[p].status = 256 * code[answer[p].child]

(* Safety.  No two processes have the same pid, whichever processes fork   *)
(* at the same time, and every process that runs can be waited for by      *)
(* exactly one other.                                                      *)
OneParentOnePid ==
    /\ \A p, q \in Proc : pid[p] = pid[q] /\ pid[p] # 0 => p = q
    /\ \A c \in Proc \ {Root} : pc[c] \notin {"unborn", "nascent"} =>
          \E p \in Proc : c \in childrenOf[p] /\ \A q \in Proc \ {p} : c \notin childrenOf[q]

(* Action property.  wait4(WNOHANG) answers 0 only if no matching child    *)
(* had ended when the call took its list, although the channels are polled *)
(* one by one while children go on ending.                                 *)
NoMissedZombie ==
    [][\A p \in Proc : pc[p] = "poll" /\ pc'[p] = "user" => ripe[p] = {}]_vars

(* The state of WaitSpec that a state of the registry stands for.          *)
Registered(c) == c = Root \/ \E p \in Proc : c \in childrenOf[p]
LifeOf(c) == IF c \in reaped THEN "reaped"
             ELSE IF c \in done THEN "zombie"
             ELSE IF Registered(c) THEN "alive" ELSE "unborn"
ParentOf(c) == IF \E p \in Proc : c \in childrenOf[p]
               THEN CHOOSE p \in Proc : c \in childrenOf[p] ELSE NoProc
PidOf(c) == IF Registered(c) THEN pid[c] ELSE 0
ExitedOf(c) == IF c \in done THEN exitCode[c] ELSE 0

Wait == INSTANCE WaitSpec WITH
    life   <- [c \in Proc |-> LifeOf(c)],
    ppid   <- [c \in Proc |-> ParentOf(c)],
    pid    <- [c \in Proc |-> PidOf(c)],
    exited <- [c \in Proc |-> ExitedOf(c)]

(* Refinement.  fork and wait4 implement WaitSpec.                         *)
ImplementsWait == Wait!WaitSafety

(* Liveness.  Once Run has returned in a child that a blocked wait4 is     *)
(* waiting for, that wait4 returns, unless main returns first.             *)
BlockedWaitReturns ==
    \A p \in Proc :
        (pc[p] = "wait" /\ \E c \in candidates[p] : pc[c] = "returned")
            ~> (pc[p] = "user" \/ ~Running)
=============================================================================
