--------------------------- MODULE ProcTreeProofs ---------------------------
(***************************************************************************)
(* Proofs about ProcTree, for any number of processes and any arguments.   *)
(***************************************************************************)
EXTENDS ProcTree, TLAPS

Forking(p) == pc[p] \in {"register", "spawn"}
Waiting(p) == pc[p] \in {"poll", "wait", "reap"}

(* The record doFork is making: its process does not run yet, no other     *)
(* process is forking it, and it is in no list until it is registered.     *)
ForkAt(p) ==
    Forking(p) =>
        /\ rec[p] \in Proc
        /\ pc[rec[p]] = "nascent"
        /\ \A q \in Proc : Forking(q) /\ rec[q] = rec[p] => q = p
        /\ \A q \in Proc : rec[p] \in childrenOf[q] => q = p /\ pc[p] = "spawn"
        /\ pc[p] = "spawn" => rec[p] \in childrenOf[p]

ForkInv == \A p \in Proc : ForkAt(p)

(* A list holds processes that have been forked, each list its own, and a  *)
(* process that runs is in one.                                            *)
ListInv ==
    /\ pc[Root] \notin {"unborn", "nascent"}
    /\ \A p, c \in Proc : c \in childrenOf[p] => pc[c] # "unborn" /\ c # Root
    /\ \A p, q, c \in Proc : c \in childrenOf[p] /\ c \in childrenOf[q] => p = q
    /\ \A c \in Proc : c # Root /\ pc[c] \notin {"unborn", "nascent"} =>
           \E p \in Proc : c \in childrenOf[p]

(* The counter is at or above every number given out.                      *)
PidInv ==
    /\ nextChildPid >= PidBase
    /\ \A p \in Proc : pid[p] <= nextChildPid
    /\ \A p \in Proc : pid[p] = 0 <=> pc[p] = "unborn"
    /\ \A p, q \in Proc : pid[p] = pid[q] /\ pid[p] # 0 => p = q

(* The channel is closed after the code has been stored.                   *)
DoneInv ==
    /\ \A c \in Proc : c \in done <=> c # Root /\ pc[c] = "gone"
    /\ \A c \in Proc : c # Root /\ pc[c] \in {"recorded", "gone"} => exitCode[c] = code[c]
    /\ Root \notin done
    /\ pc[Root] # "recorded"
    /\ reaped \subseteq done

(* Wait4's list is still the list of what matches: nobody else forks or    *)
(* reaps the caller's children.  A candidate that was done when the list   *)
(* was taken has not been passed over.                                     *)
WaitAt(p) ==
    Waiting(p) =>
        /\ candidates[p] = Matches(p, want[p])
        /\ candidates[p] # {}
        /\ todo[p] \subseteq candidates[p]
        /\ ripe[p] \subseteq done
        /\ pc[p] = "poll" => ripe[p] \subseteq todo[p]
        /\ pc[p] = "reap" => rec[p] \in candidates[p] /\ rec[p] \in done

WaitInv == \A p \in Proc : WaitAt(p)

(* An answer names a child that is reaped, with the code of its end.       *)
AnswerAt(p) ==
    answer[p].kind = "pid" =>
        /\ answer[p].child \in reaped
        /\ answer[p].status = 256 * code[answer[p].child]

AnswerInv == \A p \in Proc : AnswerAt(p)

(* The inductive invariant.                                                *)
IInv ==
    /\ TypeOK
    /\ ForkInv
    /\ ListInv
    /\ PidInv
    /\ DoneInv
    /\ WaitInv
    /\ AnswerInv

-----------------------------------------------------------------------------
(* Every step keeps each part.                                             *)

(* Types.                                                                  *)
LEMMA TypeStep ==
    ASSUME TypeOK, ForkInv, WaitInv, [Next]_vars
    PROVE  TypeOK'
<1> USE RootAssumption DEF PC
<1>1. CASE UNCHANGED vars
  BY <1>1 DEF vars, tree, record, locals, TypeOK
<1>2. ASSUME NEW p \in Proc, NEW c \in Proc, AllocChildPid(p, c)
      PROVE  TypeOK'
  BY <1>2 DEF AllocChildPid, tree, record, locals, TypeOK
<1>3. ASSUME NEW p \in Proc, Register(p)
      PROVE  TypeOK'
  <2>1. rec[p] \in Proc
    BY <1>3 DEF Register, ForkInv, ForkAt, Forking
  <2>2. QED
    BY <1>3, <2>1 DEF Register, tree, record, locals, TypeOK
<1>4. ASSUME NEW p \in Proc, Spawn(p)
      PROVE  TypeOK'
  BY <1>4 DEF Spawn, tree, record, locals, TypeOK
<1>5. ASSUME NEW p \in Proc, NEW n \in ExitArg, Exit(p, n)
      PROVE  TypeOK'
  <2>1. n % 256 \in 0..255
    BY <1>5, ExitArgAssumption
  <2>2. QED
    BY <1>5, <2>1 DEF Exit, tree, record, locals, TypeOK
<1>6. ASSUME NEW p \in Proc, Fail(p)
      PROVE  TypeOK'
  BY <1>6 DEF Fail, tree, record, locals, TypeOK
<1>7. ASSUME NEW p \in Proc, SetExitCode(p)
      PROVE  TypeOK'
  BY <1>7 DEF SetExitCode, tree, record, locals, TypeOK
<1>8. ASSUME NEW p \in Proc, CloseDone(p)
      PROVE  TypeOK'
  BY <1>8 DEF CloseDone, tree, record, locals, TypeOK
<1>9. ASSUME NEW p \in Proc, NEW w \in WaitArg, NoCandidates(p, w)
      PROVE  TypeOK'
  <2>1. Reply("ECHILD", w, NoProc, 0) \in Answer
    BY WaitArgAssumption DEF Reply, Answer
  <2>2. QED
    BY <1>9, <2>1 DEF NoCandidates, tree, record, locals, TypeOK
<1>10. ASSUME NEW p \in Proc, NEW w \in WaitArg, NEW opt \in {"none", "WNOHANG"}, Wait4(p, w, opt)
      PROVE  TypeOK'
  <2>1. Matches(p, w) \in SUBSET Proc
    BY DEF Matches, TypeOK
  <2>2. QED
    BY <1>10, <2>1, WaitArgAssumption DEF Wait4, tree, record, locals, TypeOK
<1>11. ASSUME NEW p \in Proc, NEW c \in Proc, PollPending(p, c)
      PROVE  TypeOK'
  BY <1>11 DEF PollPending, tree, record, locals, TypeOK
<1>12. ASSUME NEW p \in Proc, NEW c \in Proc, PollDone(p, c)
      PROVE  TypeOK'
  BY <1>12 DEF PollDone, IsFirst, tree, record, locals, TypeOK
<1>13. ASSUME NEW p \in Proc, PollOver(p)
      PROVE  TypeOK'
  <2>1. Reply("0", want[p], NoProc, 0) \in Answer
    BY DEF Reply, Answer, TypeOK
  <2>2. QED
    BY <1>13, <2>1 DEF PollOver, Return, tree, record, locals, TypeOK
<1>14. ASSUME NEW p \in Proc, Block(p)
      PROVE  TypeOK'
  BY <1>14 DEF Block, tree, record, locals, TypeOK
<1>15. ASSUME NEW p \in Proc, NEW c \in Proc, WaitAnyChild(p, c)
      PROVE  TypeOK'
  BY <1>15 DEF WaitAnyChild, tree, record, locals, TypeOK
<1>16. ASSUME NEW p \in Proc, Reap(p)
      PROVE  TypeOK'
  <2>1. rec[p] \in Proc
    BY <1>16 DEF Reap, WaitInv, WaitAt, Waiting, Matches, TypeOK
  <2>2. 256 * (exitCode[rec[p]] % 256) \in Nat
    <3>1. exitCode[rec[p]] \in Nat
      BY <2>1 DEF TypeOK
    <3> QED
      BY <3>1
  <2>3. Reply("pid", want[p], rec[p], 256 * (exitCode[rec[p]] % 256)) \in Answer
    BY <2>1, <2>2 DEF Reply, Answer, TypeOK
  <2>4. QED
    BY <1>16, <2>1, <2>3 DEF Reap, Return, tree, record, locals, TypeOK
<1>17. CASE MainReturns
  BY <1>17 DEF MainReturns, tree, record, locals, TypeOK
<1>18. QED
  BY <1>1, <1>2, <1>3, <1>4, <1>5, <1>6, <1>7, <1>8, <1>9, <1>10, <1>11, <1>12, <1>13, <1>14, <1>15, <1>16, <1>17 DEF Next, Call, Step

(* The record of a fork in progress.                                       *)
LEMMA ForkStep ==
    ASSUME TypeOK, ForkInv, ListInv, WaitInv, [Next]_vars
    PROVE  ForkInv'
<1> USE RootAssumption DEF PC
<1>1. CASE UNCHANGED vars
  BY <1>1 DEF vars, tree, record, locals, ForkInv, ForkAt, Forking, TypeOK, ListInv, WaitInv, WaitAt, Waiting
<1>2. ASSUME NEW p \in Proc, NEW c \in Proc, AllocChildPid(p, c)
      PROVE  ForkInv'
  BY <1>2 DEF AllocChildPid, tree, record, locals, ForkInv, ForkAt, Forking, TypeOK, ListInv, WaitInv, WaitAt, Waiting
<1>3. ASSUME NEW p \in Proc, Register(p)
      PROVE  ForkInv'
  BY <1>3 DEF Register, tree, record, locals, ForkInv, ForkAt, Forking, TypeOK, ListInv, WaitInv, WaitAt, Waiting
<1>4. ASSUME NEW p \in Proc, Spawn(p)
      PROVE  ForkInv'
  BY <1>4 DEF Spawn, tree, record, locals, ForkInv, ForkAt, Forking, TypeOK, ListInv, WaitInv, WaitAt, Waiting
<1>5. ASSUME NEW p \in Proc, NEW n \in ExitArg, Exit(p, n)
      PROVE  ForkInv'
  BY <1>5 DEF Exit, tree, record, locals, ForkInv, ForkAt, Forking, TypeOK, ListInv, WaitInv, WaitAt, Waiting
<1>6. ASSUME NEW p \in Proc, Fail(p)
      PROVE  ForkInv'
  BY <1>6 DEF Fail, tree, record, locals, ForkInv, ForkAt, Forking, TypeOK, ListInv, WaitInv, WaitAt, Waiting
<1>7. ASSUME NEW p \in Proc, SetExitCode(p)
      PROVE  ForkInv'
  BY <1>7 DEF SetExitCode, tree, record, locals, ForkInv, ForkAt, Forking, TypeOK, ListInv, WaitInv, WaitAt, Waiting
<1>8. ASSUME NEW p \in Proc, CloseDone(p)
      PROVE  ForkInv'
  BY <1>8 DEF CloseDone, tree, record, locals, ForkInv, ForkAt, Forking, TypeOK, ListInv, WaitInv, WaitAt, Waiting
<1>9. ASSUME NEW p \in Proc, NEW w \in WaitArg, NoCandidates(p, w)
      PROVE  ForkInv'
  BY <1>9 DEF NoCandidates, Reply, tree, record, locals, ForkInv, ForkAt, Forking, TypeOK, ListInv, WaitInv, WaitAt, Waiting
<1>10. ASSUME NEW p \in Proc, NEW w \in WaitArg, NEW opt \in {"none", "WNOHANG"}, Wait4(p, w, opt)
      PROVE  ForkInv'
  BY <1>10 DEF Wait4, Matches, tree, record, locals, ForkInv, ForkAt, Forking, TypeOK, ListInv, WaitInv, WaitAt, Waiting
<1>11. ASSUME NEW p \in Proc, NEW c \in Proc, PollPending(p, c)
      PROVE  ForkInv'
  BY <1>11 DEF PollPending, tree, record, locals, ForkInv, ForkAt, Forking, TypeOK, ListInv, WaitInv, WaitAt, Waiting
<1>12. ASSUME NEW p \in Proc, NEW c \in Proc, PollDone(p, c)
      PROVE  ForkInv'
  BY <1>12 DEF PollDone, IsFirst, tree, record, locals, ForkInv, ForkAt, Forking, TypeOK, ListInv, WaitInv, WaitAt, Waiting
<1>13. ASSUME NEW p \in Proc, PollOver(p)
      PROVE  ForkInv'
  BY <1>13 DEF PollOver, Return, Reply, tree, record, locals, ForkInv, ForkAt, Forking, TypeOK, ListInv, WaitInv, WaitAt, Waiting
<1>14. ASSUME NEW p \in Proc, Block(p)
      PROVE  ForkInv'
  BY <1>14 DEF Block, tree, record, locals, ForkInv, ForkAt, Forking, TypeOK, ListInv, WaitInv, WaitAt, Waiting
<1>15. ASSUME NEW p \in Proc, NEW c \in Proc, WaitAnyChild(p, c)
      PROVE  ForkInv'
  BY <1>15 DEF WaitAnyChild, tree, record, locals, ForkInv, ForkAt, Forking, TypeOK, ListInv, WaitInv, WaitAt, Waiting
<1>16. ASSUME NEW p \in Proc, Reap(p)
      PROVE  ForkInv'
  BY <1>16 DEF Reap, Return, Reply, tree, record, locals, ForkInv, ForkAt, Forking, TypeOK, ListInv, WaitInv, WaitAt, Waiting
<1>17. CASE MainReturns
  BY <1>17 DEF MainReturns, tree, record, locals, ForkInv, ForkAt, Forking, TypeOK, ListInv, WaitInv, WaitAt, Waiting
<1>18. QED
  BY <1>1, <1>2, <1>3, <1>4, <1>5, <1>6, <1>7, <1>8, <1>9, <1>10, <1>11, <1>12, <1>13, <1>14, <1>15, <1>16, <1>17 DEF Next, Call, Step

(* The lists of children.                                                  *)
LEMMA ListStep ==
    ASSUME TypeOK, ForkInv, ListInv, [Next]_vars
    PROVE  ListInv'
<1> USE RootAssumption DEF PC
<1>1. CASE UNCHANGED vars
  BY <1>1 DEF vars, tree, record, locals, ListInv, ForkInv, ForkAt, Forking, TypeOK
<1>2. ASSUME NEW p \in Proc, NEW c \in Proc, AllocChildPid(p, c)
      PROVE  ListInv'
  BY <1>2 DEF AllocChildPid, tree, record, locals, ListInv, ForkInv, ForkAt, Forking, TypeOK
<1>3. ASSUME NEW p \in Proc, Register(p)
      PROVE  ListInv'
  BY <1>3 DEF Register, tree, record, locals, ListInv, ForkInv, ForkAt, Forking, TypeOK
<1>4. ASSUME NEW p \in Proc, Spawn(p)
      PROVE  ListInv'
  BY <1>4 DEF Spawn, tree, record, locals, ListInv, ForkInv, ForkAt, Forking, TypeOK
<1>5. ASSUME NEW p \in Proc, NEW n \in ExitArg, Exit(p, n)
      PROVE  ListInv'
  BY <1>5 DEF Exit, tree, record, locals, ListInv, ForkInv, ForkAt, Forking, TypeOK
<1>6. ASSUME NEW p \in Proc, Fail(p)
      PROVE  ListInv'
  BY <1>6 DEF Fail, tree, record, locals, ListInv, ForkInv, ForkAt, Forking, TypeOK
<1>7. ASSUME NEW p \in Proc, SetExitCode(p)
      PROVE  ListInv'
  BY <1>7 DEF SetExitCode, tree, record, locals, ListInv, ForkInv, ForkAt, Forking, TypeOK
<1>8. ASSUME NEW p \in Proc, CloseDone(p)
      PROVE  ListInv'
  BY <1>8 DEF CloseDone, tree, record, locals, ListInv, ForkInv, ForkAt, Forking, TypeOK
<1>9. ASSUME NEW p \in Proc, NEW w \in WaitArg, NoCandidates(p, w)
      PROVE  ListInv'
  BY <1>9 DEF NoCandidates, Reply, tree, record, locals, ListInv, ForkInv, ForkAt, Forking, TypeOK
<1>10. ASSUME NEW p \in Proc, NEW w \in WaitArg, NEW opt \in {"none", "WNOHANG"}, Wait4(p, w, opt)
      PROVE  ListInv'
  BY <1>10 DEF Wait4, Matches, tree, record, locals, ListInv, ForkInv, ForkAt, Forking, TypeOK
<1>11. ASSUME NEW p \in Proc, NEW c \in Proc, PollPending(p, c)
      PROVE  ListInv'
  BY <1>11 DEF PollPending, tree, record, locals, ListInv, ForkInv, ForkAt, Forking, TypeOK
<1>12. ASSUME NEW p \in Proc, NEW c \in Proc, PollDone(p, c)
      PROVE  ListInv'
  BY <1>12 DEF PollDone, IsFirst, tree, record, locals, ListInv, ForkInv, ForkAt, Forking, TypeOK
<1>13. ASSUME NEW p \in Proc, PollOver(p)
      PROVE  ListInv'
  BY <1>13 DEF PollOver, Return, Reply, tree, record, locals, ListInv, ForkInv, ForkAt, Forking, TypeOK
<1>14. ASSUME NEW p \in Proc, Block(p)
      PROVE  ListInv'
  BY <1>14 DEF Block, tree, record, locals, ListInv, ForkInv, ForkAt, Forking, TypeOK
<1>15. ASSUME NEW p \in Proc, NEW c \in Proc, WaitAnyChild(p, c)
      PROVE  ListInv'
  BY <1>15 DEF WaitAnyChild, tree, record, locals, ListInv, ForkInv, ForkAt, Forking, TypeOK
<1>16. ASSUME NEW p \in Proc, Reap(p)
      PROVE  ListInv'
  BY <1>16 DEF Reap, Return, Reply, tree, record, locals, ListInv, ForkInv, ForkAt, Forking, TypeOK
<1>17. CASE MainReturns
  BY <1>17 DEF MainReturns, tree, record, locals, ListInv, ForkInv, ForkAt, Forking, TypeOK
<1>18. QED
  BY <1>1, <1>2, <1>3, <1>4, <1>5, <1>6, <1>7, <1>8, <1>9, <1>10, <1>11, <1>12, <1>13, <1>14, <1>15, <1>16, <1>17 DEF Next, Call, Step

(* The pids.                                                               *)
LEMMA PidStep ==
    ASSUME TypeOK, ForkInv, PidInv, [Next]_vars
    PROVE  PidInv'
<1> USE RootAssumption DEF PC
<1>1. CASE UNCHANGED vars
  BY <1>1 DEF vars, tree, record, locals, PidInv, ForkInv, ForkAt, Forking, TypeOK
<1>2. ASSUME NEW p \in Proc, NEW c \in Proc, AllocChildPid(p, c)
      PROVE  PidInv'
  BY <1>2, PidAssumption DEF AllocChildPid, tree, record, locals, PidInv, ForkInv, ForkAt, Forking, TypeOK
<1>3. ASSUME NEW p \in Proc, Register(p)
      PROVE  PidInv'
  BY <1>3 DEF Register, tree, record, locals, PidInv, ForkInv, ForkAt, Forking, TypeOK
<1>4. ASSUME NEW p \in Proc, Spawn(p)
      PROVE  PidInv'
  BY <1>4 DEF Spawn, tree, record, locals, PidInv, ForkInv, ForkAt, Forking, TypeOK
<1>5. ASSUME NEW p \in Proc, NEW n \in ExitArg, Exit(p, n)
      PROVE  PidInv'
  BY <1>5 DEF Exit, tree, record, locals, PidInv, ForkInv, ForkAt, Forking, TypeOK
<1>6. ASSUME NEW p \in Proc, Fail(p)
      PROVE  PidInv'
  BY <1>6 DEF Fail, tree, record, locals, PidInv, ForkInv, ForkAt, Forking, TypeOK
<1>7. ASSUME NEW p \in Proc, SetExitCode(p)
      PROVE  PidInv'
  BY <1>7 DEF SetExitCode, tree, record, locals, PidInv, ForkInv, ForkAt, Forking, TypeOK
<1>8. ASSUME NEW p \in Proc, CloseDone(p)
      PROVE  PidInv'
  BY <1>8 DEF CloseDone, tree, record, locals, PidInv, ForkInv, ForkAt, Forking, TypeOK
<1>9. ASSUME NEW p \in Proc, NEW w \in WaitArg, NoCandidates(p, w)
      PROVE  PidInv'
  BY <1>9 DEF NoCandidates, Reply, tree, record, locals, PidInv, ForkInv, ForkAt, Forking, TypeOK
<1>10. ASSUME NEW p \in Proc, NEW w \in WaitArg, NEW opt \in {"none", "WNOHANG"}, Wait4(p, w, opt)
      PROVE  PidInv'
  BY <1>10 DEF Wait4, Matches, tree, record, locals, PidInv, ForkInv, ForkAt, Forking, TypeOK
<1>11. ASSUME NEW p \in Proc, NEW c \in Proc, PollPending(p, c)
      PROVE  PidInv'
  BY <1>11 DEF PollPending, tree, record, locals, PidInv, ForkInv, ForkAt, Forking, TypeOK
<1>12. ASSUME NEW p \in Proc, NEW c \in Proc, PollDone(p, c)
      PROVE  PidInv'
  BY <1>12 DEF PollDone, IsFirst, tree, record, locals, PidInv, ForkInv, ForkAt, Forking, TypeOK
<1>13. ASSUME NEW p \in Proc, PollOver(p)
      PROVE  PidInv'
  BY <1>13 DEF PollOver, Return, Reply, tree, record, locals, PidInv, ForkInv, ForkAt, Forking, TypeOK
<1>14. ASSUME NEW p \in Proc, Block(p)
      PROVE  PidInv'
  BY <1>14 DEF Block, tree, record, locals, PidInv, ForkInv, ForkAt, Forking, TypeOK
<1>15. ASSUME NEW p \in Proc, NEW c \in Proc, WaitAnyChild(p, c)
      PROVE  PidInv'
  BY <1>15 DEF WaitAnyChild, tree, record, locals, PidInv, ForkInv, ForkAt, Forking, TypeOK
<1>16. ASSUME NEW p \in Proc, Reap(p)
      PROVE  PidInv'
  BY <1>16 DEF Reap, Return, Reply, tree, record, locals, PidInv, ForkInv, ForkAt, Forking, TypeOK
<1>17. CASE MainReturns
  BY <1>17 DEF MainReturns, tree, record, locals, PidInv, ForkInv, ForkAt, Forking, TypeOK
<1>18. QED
  BY <1>1, <1>2, <1>3, <1>4, <1>5, <1>6, <1>7, <1>8, <1>9, <1>10, <1>11, <1>12, <1>13, <1>14, <1>15, <1>16, <1>17 DEF Next, Call, Step

(* The order of a child's last steps.                                      *)
LEMMA DoneStep ==
    ASSUME TypeOK, ForkInv, ListInv, DoneInv, WaitInv, [Next]_vars
    PROVE  DoneInv'
<1> USE RootAssumption DEF PC
<1>1. CASE UNCHANGED vars
  BY <1>1 DEF vars, tree, record, locals, DoneInv, ForkInv, ForkAt, Forking, TypeOK, ListInv, WaitInv, WaitAt, Waiting
<1>2. ASSUME NEW p \in Proc, NEW c \in Proc, AllocChildPid(p, c)
      PROVE  DoneInv'
  BY <1>2 DEF AllocChildPid, tree, record, locals, DoneInv, ForkInv, ForkAt, Forking, TypeOK, ListInv, WaitInv, WaitAt, Waiting
<1>3. ASSUME NEW p \in Proc, Register(p)
      PROVE  DoneInv'
  BY <1>3 DEF Register, tree, record, locals, DoneInv, ForkInv, ForkAt, Forking, TypeOK, ListInv, WaitInv, WaitAt, Waiting
<1>4. ASSUME NEW p \in Proc, Spawn(p)
      PROVE  DoneInv'
  BY <1>4 DEF Spawn, tree, record, locals, DoneInv, ForkInv, ForkAt, Forking, TypeOK, ListInv, WaitInv, WaitAt, Waiting
<1>5. ASSUME NEW p \in Proc, NEW n \in ExitArg, Exit(p, n)
      PROVE  DoneInv'
  BY <1>5 DEF Exit, tree, record, locals, DoneInv, ForkInv, ForkAt, Forking, TypeOK, ListInv, WaitInv, WaitAt, Waiting
<1>6. ASSUME NEW p \in Proc, Fail(p)
      PROVE  DoneInv'
  BY <1>6 DEF Fail, tree, record, locals, DoneInv, ForkInv, ForkAt, Forking, TypeOK, ListInv, WaitInv, WaitAt, Waiting
<1>7. ASSUME NEW p \in Proc, SetExitCode(p)
      PROVE  DoneInv'
  BY <1>7 DEF SetExitCode, tree, record, locals, DoneInv, ForkInv, ForkAt, Forking, TypeOK, ListInv, WaitInv, WaitAt, Waiting
<1>8. ASSUME NEW p \in Proc, CloseDone(p)
      PROVE  DoneInv'
  BY <1>8 DEF CloseDone, tree, record, locals, DoneInv, ForkInv, ForkAt, Forking, TypeOK, ListInv, WaitInv, WaitAt, Waiting
<1>9. ASSUME NEW p \in Proc, NEW w \in WaitArg, NoCandidates(p, w)
      PROVE  DoneInv'
  BY <1>9 DEF NoCandidates, Reply, tree, record, locals, DoneInv, ForkInv, ForkAt, Forking, TypeOK, ListInv, WaitInv, WaitAt, Waiting
<1>10. ASSUME NEW p \in Proc, NEW w \in WaitArg, NEW opt \in {"none", "WNOHANG"}, Wait4(p, w, opt)
      PROVE  DoneInv'
  BY <1>10 DEF Wait4, Matches, tree, record, locals, DoneInv, ForkInv, ForkAt, Forking, TypeOK, ListInv, WaitInv, WaitAt, Waiting
<1>11. ASSUME NEW p \in Proc, NEW c \in Proc, PollPending(p, c)
      PROVE  DoneInv'
  BY <1>11 DEF PollPending, tree, record, locals, DoneInv, ForkInv, ForkAt, Forking, TypeOK, ListInv, WaitInv, WaitAt, Waiting
<1>12. ASSUME NEW p \in Proc, NEW c \in Proc, PollDone(p, c)
      PROVE  DoneInv'
  BY <1>12 DEF PollDone, IsFirst, tree, record, locals, DoneInv, ForkInv, ForkAt, Forking, TypeOK, ListInv, WaitInv, WaitAt, Waiting
<1>13. ASSUME NEW p \in Proc, PollOver(p)
      PROVE  DoneInv'
  BY <1>13 DEF PollOver, Return, Reply, tree, record, locals, DoneInv, ForkInv, ForkAt, Forking, TypeOK, ListInv, WaitInv, WaitAt, Waiting
<1>14. ASSUME NEW p \in Proc, Block(p)
      PROVE  DoneInv'
  BY <1>14 DEF Block, tree, record, locals, DoneInv, ForkInv, ForkAt, Forking, TypeOK, ListInv, WaitInv, WaitAt, Waiting
<1>15. ASSUME NEW p \in Proc, NEW c \in Proc, WaitAnyChild(p, c)
      PROVE  DoneInv'
  BY <1>15 DEF WaitAnyChild, tree, record, locals, DoneInv, ForkInv, ForkAt, Forking, TypeOK, ListInv, WaitInv, WaitAt, Waiting
<1>16. ASSUME NEW p \in Proc, Reap(p)
      PROVE  DoneInv'
  BY <1>16 DEF Reap, Return, Reply, tree, record, locals, DoneInv, ForkInv, ForkAt, Forking, TypeOK, ListInv, WaitInv, WaitAt, Waiting
<1>17. CASE MainReturns
  BY <1>17 DEF MainReturns, tree, record, locals, DoneInv, ForkInv, ForkAt, Forking, TypeOK, ListInv, WaitInv, WaitAt, Waiting
<1>18. QED
  BY <1>1, <1>2, <1>3, <1>4, <1>5, <1>6, <1>7, <1>8, <1>9, <1>10, <1>11, <1>12, <1>13, <1>14, <1>15, <1>16, <1>17 DEF Next, Call, Step

(* The state of a wait4 in progress.                                       *)
LEMMA WaitStep ==
    ASSUME TypeOK, ForkInv, ListInv, DoneInv, WaitInv, [Next]_vars
    PROVE  WaitInv'
<1> USE RootAssumption DEF PC
<1>1. CASE UNCHANGED vars
  BY <1>1 DEF vars, tree, record, locals, WaitInv, WaitAt, Waiting, Matches, ForkInv, ForkAt, Forking, TypeOK, ListInv
<1>2. ASSUME NEW p \in Proc, NEW c \in Proc, AllocChildPid(p, c)
      PROVE  WaitInv'
  BY <1>2 DEF AllocChildPid, tree, record, locals, WaitInv, WaitAt, Waiting, Matches, ForkInv, ForkAt, Forking, TypeOK, ListInv
<1>3. ASSUME NEW p \in Proc, Register(p)
      PROVE  WaitInv'
  BY <1>3 DEF Register, tree, record, locals, WaitInv, WaitAt, Waiting, Matches, ForkInv, ForkAt, Forking, TypeOK, ListInv
<1>4. ASSUME NEW p \in Proc, Spawn(p)
      PROVE  WaitInv'
  BY <1>4 DEF Spawn, tree, record, locals, WaitInv, WaitAt, Waiting, Matches, ForkInv, ForkAt, Forking, TypeOK, ListInv
<1>5. ASSUME NEW p \in Proc, NEW n \in ExitArg, Exit(p, n)
      PROVE  WaitInv'
  BY <1>5 DEF Exit, tree, record, locals, WaitInv, WaitAt, Waiting, Matches, ForkInv, ForkAt, Forking, TypeOK, ListInv
<1>6. ASSUME NEW p \in Proc, Fail(p)
      PROVE  WaitInv'
  BY <1>6 DEF Fail, tree, record, locals, WaitInv, WaitAt, Waiting, Matches, ForkInv, ForkAt, Forking, TypeOK, ListInv
<1>7. ASSUME NEW p \in Proc, SetExitCode(p)
      PROVE  WaitInv'
  BY <1>7 DEF SetExitCode, tree, record, locals, WaitInv, WaitAt, Waiting, Matches, ForkInv, ForkAt, Forking, TypeOK, ListInv
<1>8. ASSUME NEW p \in Proc, CloseDone(p)
      PROVE  WaitInv'
  BY <1>8 DEF CloseDone, tree, record, locals, WaitInv, WaitAt, Waiting, Matches, ForkInv, ForkAt, Forking, TypeOK, ListInv
<1>9. ASSUME NEW p \in Proc, NEW w \in WaitArg, NoCandidates(p, w)
      PROVE  WaitInv'
  BY <1>9 DEF NoCandidates, Reply, tree, record, locals, WaitInv, WaitAt, Waiting, Matches, ForkInv, ForkAt, Forking, TypeOK, ListInv
<1>10. ASSUME NEW p \in Proc, NEW w \in WaitArg, NEW opt \in {"none", "WNOHANG"}, Wait4(p, w, opt)
      PROVE  WaitInv'
  BY <1>10 DEF Wait4, Matches, tree, record, locals, WaitInv, WaitAt, Waiting, Matches, ForkInv, ForkAt, Forking, TypeOK, ListInv
<1>11. ASSUME NEW p \in Proc, NEW c \in Proc, PollPending(p, c)
      PROVE  WaitInv'
  BY <1>11 DEF PollPending, tree, record, locals, WaitInv, WaitAt, Waiting, Matches, ForkInv, ForkAt, Forking, TypeOK, ListInv
<1>12. ASSUME NEW p \in Proc, NEW c \in Proc, PollDone(p, c)
      PROVE  WaitInv'
  BY <1>12 DEF PollDone, IsFirst, tree, record, locals, WaitInv, WaitAt, Waiting, Matches, ForkInv, ForkAt, Forking, TypeOK, ListInv
<1>13. ASSUME NEW p \in Proc, PollOver(p)
      PROVE  WaitInv'
  BY <1>13 DEF PollOver, Return, Reply, tree, record, locals, WaitInv, WaitAt, Waiting, Matches, ForkInv, ForkAt, Forking, TypeOK, ListInv
<1>14. ASSUME NEW p \in Proc, Block(p)
      PROVE  WaitInv'
  BY <1>14 DEF Block, tree, record, locals, WaitInv, WaitAt, Waiting, Matches, ForkInv, ForkAt, Forking, TypeOK, ListInv
<1>15. ASSUME NEW p \in Proc, NEW c \in Proc, WaitAnyChild(p, c)
      PROVE  WaitInv'
  BY <1>15 DEF WaitAnyChild, tree, record, locals, WaitInv, WaitAt, Waiting, Matches, ForkInv, ForkAt, Forking, TypeOK, ListInv
<1>16. ASSUME NEW p \in Proc, Reap(p)
      PROVE  WaitInv'
  BY <1>16 DEF Reap, Return, Reply, tree, record, locals, WaitInv, WaitAt, Waiting, Matches, ForkInv, ForkAt, Forking, TypeOK, ListInv
<1>17. CASE MainReturns
  BY <1>17 DEF MainReturns, tree, record, locals, WaitInv, WaitAt, Waiting, Matches, ForkInv, ForkAt, Forking, TypeOK, ListInv
<1>18. QED
  BY <1>1, <1>2, <1>3, <1>4, <1>5, <1>6, <1>7, <1>8, <1>9, <1>10, <1>11, <1>12, <1>13, <1>14, <1>15, <1>16, <1>17 DEF Next, Call, Step

(* The answers given.                                                      *)
LEMMA AnswerStep ==
    ASSUME TypeOK, ListInv, DoneInv, WaitInv, AnswerInv, [Next]_vars
    PROVE  AnswerInv'
<1> USE RootAssumption DEF PC
<1>1. CASE UNCHANGED vars
  BY <1>1 DEF vars, tree, record, locals, AnswerInv, AnswerAt, DoneInv, TypeOK
<1>2. ASSUME NEW p \in Proc, NEW c \in Proc, AllocChildPid(p, c)
      PROVE  AnswerInv'
  BY <1>2 DEF AllocChildPid, tree, record, locals, AnswerInv, AnswerAt, DoneInv, TypeOK
<1>3. ASSUME NEW p \in Proc, Register(p)
      PROVE  AnswerInv'
  BY <1>3 DEF Register, tree, record, locals, AnswerInv, AnswerAt, DoneInv, TypeOK
<1>4. ASSUME NEW p \in Proc, Spawn(p)
      PROVE  AnswerInv'
  BY <1>4 DEF Spawn, tree, record, locals, AnswerInv, AnswerAt, DoneInv, TypeOK
<1>5. ASSUME NEW p \in Proc, NEW n \in ExitArg, Exit(p, n)
      PROVE  AnswerInv'
  BY <1>5 DEF Exit, tree, record, locals, AnswerInv, AnswerAt, DoneInv, TypeOK
<1>6. ASSUME NEW p \in Proc, Fail(p)
      PROVE  AnswerInv'
  BY <1>6 DEF Fail, tree, record, locals, AnswerInv, AnswerAt, DoneInv, TypeOK
<1>7. ASSUME NEW p \in Proc, SetExitCode(p)
      PROVE  AnswerInv'
  BY <1>7 DEF SetExitCode, tree, record, locals, AnswerInv, AnswerAt, DoneInv, TypeOK
<1>8. ASSUME NEW p \in Proc, CloseDone(p)
      PROVE  AnswerInv'
  BY <1>8 DEF CloseDone, tree, record, locals, AnswerInv, AnswerAt, DoneInv, TypeOK
<1>9. ASSUME NEW p \in Proc, NEW w \in WaitArg, NoCandidates(p, w)
      PROVE  AnswerInv'
  BY <1>9 DEF NoCandidates, Reply, tree, record, locals, AnswerInv, AnswerAt, DoneInv, TypeOK
<1>10. ASSUME NEW p \in Proc, NEW w \in WaitArg, NEW opt \in {"none", "WNOHANG"}, Wait4(p, w, opt)
      PROVE  AnswerInv'
  BY <1>10 DEF Wait4, Matches, tree, record, locals, AnswerInv, AnswerAt, DoneInv, TypeOK
<1>11. ASSUME NEW p \in Proc, NEW c \in Proc, PollPending(p, c)
      PROVE  AnswerInv'
  BY <1>11 DEF PollPending, tree, record, locals, AnswerInv, AnswerAt, DoneInv, TypeOK
<1>12. ASSUME NEW p \in Proc, NEW c \in Proc, PollDone(p, c)
      PROVE  AnswerInv'
  BY <1>12 DEF PollDone, IsFirst, tree, record, locals, AnswerInv, AnswerAt, DoneInv, TypeOK
<1>13. ASSUME NEW p \in Proc, PollOver(p)
      PROVE  AnswerInv'
  BY <1>13 DEF PollOver, Return, Reply, tree, record, locals, AnswerInv, AnswerAt, DoneInv, TypeOK
<1>14. ASSUME NEW p \in Proc, Block(p)
      PROVE  AnswerInv'
  BY <1>14 DEF Block, tree, record, locals, AnswerInv, AnswerAt, DoneInv, TypeOK
<1>15. ASSUME NEW p \in Proc, NEW c \in Proc, WaitAnyChild(p, c)
      PROVE  AnswerInv'
  BY <1>15 DEF WaitAnyChild, tree, record, locals, AnswerInv, AnswerAt, DoneInv, TypeOK
<1>16. ASSUME NEW p \in Proc, Reap(p)
      PROVE  AnswerInv'
  <2>1. rec[p] \in Proc /\ rec[p] \in done
    BY <1>16 DEF Reap, WaitInv, WaitAt, Waiting, Matches, TypeOK
  <2>2. exitCode[rec[p]] = code[rec[p]] /\ code[rec[p]] \in 0..255
    BY <2>1 DEF DoneInv, TypeOK
  <2>3. exitCode[rec[p]] % 256 = code[rec[p]]
    BY <2>2
  <2>4. answer'[p].child = rec[p] /\ answer'[p].status = 256 * code[rec[p]]
    BY <1>16, <2>3 DEF Reap, Reply, TypeOK
  <2>5. AnswerAt(p)'
    BY <1>16, <2>1, <2>4 DEF Reap, Reply, AnswerAt
  <2>6. \A q \in Proc \ {p} : AnswerAt(q)'
    BY <1>16 DEF Reap, AnswerInv, AnswerAt, TypeOK
  <2>7. QED
    BY <2>5, <2>6 DEF AnswerInv
<1>17. CASE MainReturns
  BY <1>17 DEF MainReturns, tree, record, locals, AnswerInv, AnswerAt, DoneInv, TypeOK
<1>18. QED
  BY <1>1, <1>2, <1>3, <1>4, <1>5, <1>6, <1>7, <1>8, <1>9, <1>10, <1>11, <1>12, <1>13, <1>14, <1>15, <1>16, <1>17 DEF Next, Call, Step

-----------------------------------------------------------------------------
(* The initial state satisfies the invariant.                              *)
LEMMA InitIInv == Init => IInv
  <1> SUFFICES ASSUME Init PROVE IInv
    OBVIOUS
  <1> USE RootAssumption, PidAssumption
  <1>1. Reply("none", 0, NoProc, 0) \in Answer
    BY DEF Reply, Answer
  <1>2. TypeOK
    BY <1>1 DEF Init, TypeOK, PC
  <1>3. ForkInv /\ ListInv /\ WaitInv
    BY DEF Init, ForkInv, ForkAt, Forking, ListInv, WaitInv, WaitAt, Waiting
  <1>4. PidInv
    BY DEF Init, PidInv
  <1>5. DoneInv
    BY DEF Init, DoneInv
  <1>6. AnswerInv
    BY DEF Init, AnswerInv, AnswerAt, Reply
  <1>7. QED
    BY <1>2, <1>3, <1>4, <1>5, <1>6 DEF IInv

(* Every step of every goroutine preserves the invariant.                  *)
LEMMA StepIInv == IInv /\ [Next]_vars => IInv'
  BY TypeStep, ForkStep, ListStep, PidStep, DoneStep, WaitStep, AnswerStep DEF IInv

(* The inductive invariant holds in every reachable state.                 *)
THEOREM Invariance == Safety => []IInv
  BY InitIInv, StepIInv, PTL DEF Safety

(* Type correctness of the registry, the records and Wait4's locals.       *)
THEOREM TypeCorrect == Safety => []TypeOK
  <1>1. IInv => TypeOK
    BY DEF IInv
  <1>2. QED
    BY Invariance, <1>1, PTL

(* Wait4 only reaps an ended, unreaped child of the caller's own: no death *)
(* is reported twice, to one parent or to two.                             *)
THEOREM ReapedOnce == Safety => []ReapsOwnZombie
  <1>1. IInv => ReapsOwnZombie
    BY DEF IInv, ReapsOwnZombie, WaitInv, WaitAt, Waiting, Matches, ListInv, DoneInv, TypeOK
  <1>2. QED
    BY Invariance, <1>1, PTL

(* The status Wait4 reports is the code the child's Run returned.          *)
THEOREM StatusCorrect == Safety => []StatusIsExitCode
  <1>1. IInv => StatusIsExitCode
    BY DEF IInv, StatusIsExitCode, AnswerInv, AnswerAt, DoneInv, TypeOK
  <1>2. QED
    BY Invariance, <1>1, PTL

(* Pids are unique and every process that runs is in exactly one list.     *)
THEOREM RegistryCorrect == Safety => []OneParentOnePid
  <1>1. IInv => OneParentOnePid
    BY DEF IInv, OneParentOnePid, ListInv, PidInv
  <1>2. QED
    BY Invariance, <1>1, PTL

(* A WNOHANG wait4 never answers 0 when a child it is about had already    *)
(* ended at the call.                                                      *)
LEMMA PollStep ==
    ASSUME TypeOK, WaitInv, ForkInv, [Next]_vars
    PROVE  [\A p \in Proc : pc[p] = "poll" /\ pc'[p] = "user" => ripe[p] = {}]_vars
<1> USE DEF vars, tree, record, locals, TypeOK, WaitInv, WaitAt, Waiting, ForkInv, ForkAt, Forking
<1> DEFINE Polled == \A q \in Proc : pc[q] = "poll" /\ pc'[q] = "user" => ripe[q] = {}
<1>1. ASSUME NEW p \in Proc, NEW c \in Proc, AllocChildPid(p, c)
      PROVE  Polled
  BY <1>1 DEF AllocChildPid
<1>2. ASSUME NEW p \in Proc, Register(p)
      PROVE  Polled
  BY <1>2 DEF Register
<1>3. ASSUME NEW p \in Proc, Spawn(p)
      PROVE  Polled
  BY <1>3 DEF Spawn
<1>4. ASSUME NEW p \in Proc, NEW n \in ExitArg, Exit(p, n)
      PROVE  Polled
  BY <1>4 DEF Exit
<1>5. ASSUME NEW p \in Proc, Fail(p)
      PROVE  Polled
  BY <1>5 DEF Fail
<1>6. ASSUME NEW p \in Proc, SetExitCode(p)
      PROVE  Polled
  BY <1>6 DEF SetExitCode
<1>7. ASSUME NEW p \in Proc, CloseDone(p)
      PROVE  Polled
  BY <1>7 DEF CloseDone
<1>8. ASSUME NEW p \in Proc, NEW w \in WaitArg, NoCandidates(p, w)
      PROVE  Polled
  BY <1>8 DEF NoCandidates
<1>9. ASSUME NEW p \in Proc, NEW w \in WaitArg, NEW opt \in {"none", "WNOHANG"}, Wait4(p, w, opt)
      PROVE  Polled
  BY <1>9 DEF Wait4
<1>10. ASSUME NEW p \in Proc, NEW c \in Proc, PollPending(p, c)
      PROVE  Polled
  BY <1>10 DEF PollPending
<1>11. ASSUME NEW p \in Proc, NEW c \in Proc, PollDone(p, c)
      PROVE  Polled
  BY <1>11 DEF PollDone
<1>12. ASSUME NEW p \in Proc, PollOver(p)
      PROVE  Polled
  BY <1>12 DEF PollOver, Return
<1>13. ASSUME NEW p \in Proc, Block(p)
      PROVE  Polled
  BY <1>13 DEF Block
<1>14. ASSUME NEW p \in Proc, NEW c \in Proc, WaitAnyChild(p, c)
      PROVE  Polled
  BY <1>14 DEF WaitAnyChild
<1>15. ASSUME NEW p \in Proc, Reap(p)
      PROVE  Polled
  BY <1>15 DEF Reap, Return
<1>16. ASSUME MainReturns PROVE Polled
  BY <1>16 DEF MainReturns
<1> HIDE DEF vars, tree, record, locals, TypeOK, WaitInv, WaitAt, Waiting, ForkInv, ForkAt, Forking
<1>17. QED
  BY <1>1, <1>2, <1>3, <1>4, <1>5, <1>6, <1>7, <1>8, <1>9, <1>10, <1>11, <1>12, <1>13, <1>14, <1>15, <1>16 DEF Next, Call, Step

(* The same, as a property of every behaviour.                             *)
THEOREM NoZombieMissed == Safety => NoMissedZombie
  <1>1. IInv /\ [Next]_vars =>
          [\A p \in Proc : pc[p] = "poll" /\ pc'[p] = "user" => ripe[p] = {}]_vars
    BY PollStep DEF IInv
  <1>2. QED
    BY Invariance, <1>1, PTL DEF Safety, NoMissedZombie

-----------------------------------------------------------------------------
(* The parent of a process is the one whose list it is in.                 *)
LEMMA ParentIs ==
    ASSUME ListInv, NEW p \in Proc, NEW c \in Proc
    PROVE  ParentOf(c) = p <=> c \in childrenOf[p]
  BY RootAssumption DEF ListInv, ParentOf

(* WaitSpec's candidates are the records Wait4 collects.                   *)
LEMMA MatchingIs ==
    ASSUME TypeOK, ListInv, DoneInv, NEW p \in Proc, NEW w \in Int
    PROVE  Wait!Matching(p, w) = Matches(p, w)
  <1>1. \A c \in Proc : c \in childrenOf[p] =>
           (LifeOf(c) \in {"alive", "zombie"} <=> c \notin reaped)
    BY DEF LifeOf, Registered
  <1>2. \A c \in Proc : c \in childrenOf[p] => PidOf(c) = pid[c]
    BY DEF PidOf, Registered
  <1>3. QED
    BY <1>1, <1>2, ParentIs DEF Wait!Matching, Wait!Unreaped, Matches, TypeOK

(* What does not touch the registry, a closed record or an answer is       *)
(* invisible to WaitSpec.                                                  *)
LEMMA Invisible ==
    ASSUME UNCHANGED <<childrenOf, done, reaped, answer>>,
           \A c \in Proc : Registered(c) => pid'[c] = pid[c],
           \A c \in Proc : c \in done => exitCode'[c] = exitCode[c]
    PROVE  UNCHANGED Wait!waitVars
  <1>1. \A c \in Proc : LifeOf(c)' = LifeOf(c) /\ ParentOf(c)' = ParentOf(c)
    BY DEF LifeOf, ParentOf, Registered
  <1>2. \A c \in Proc : PidOf(c)' = PidOf(c) /\ ExitedOf(c)' = ExitedOf(c)
    BY DEF PidOf, ExitedOf, Registered
  <1>3. QED
    BY <1>1, <1>2 DEF Wait!waitVars

(* Appending the record is the fork.                                       *)
LEMMA RegisterMaps ==
    ASSUME IInv, IInv', NEW p \in Proc, Register(p)
    PROVE  Wait!WaitNext
  <1> DEFINE c0 == rec[p]
  <1> USE DEF Register, record, locals
  <1>1. c0 \in Proc /\ c0 # Root /\ c0 \notin done /\ c0 \notin reaped
    BY DEF IInv, ForkInv, ForkAt, Forking, ListInv, DoneInv
  <1>2. \A q \in Proc : c0 \notin childrenOf[q]
    BY DEF IInv, ForkInv, ForkAt, Forking
  <1>3. \A q, d \in Proc : d \in childrenOf'[q] <=> d \in childrenOf[q] \/ (q = p /\ d = c0)
    BY DEF IInv, TypeOK
  <1>4. \A d \in Proc : Registered(d)' <=> Registered(d) \/ d = c0
    BY <1>1, <1>3 DEF Registered
  <1>5. ~Registered(c0)
    BY <1>1, <1>2 DEF Registered
  <1>6. \A d \in Proc : LifeOf(d)' = IF d = c0 THEN "alive" ELSE LifeOf(d)
    BY <1>1, <1>4 DEF LifeOf
  <1>7. \A d \in Proc : ParentOf(d)' = IF d = c0 THEN p ELSE ParentOf(d)
    <2>1. ParentOf(c0)' = p
      BY <1>1, <1>2, <1>3 DEF ParentOf
    <2>2. \A d \in Proc : d # c0 => ParentOf(d)' = ParentOf(d)
      BY <1>3 DEF ParentOf
    <2>3. QED
      BY <2>1, <2>2
  <1>8. \A d \in Proc : PidOf(d)' = IF d = c0 THEN pid[c0] ELSE PidOf(d)
    BY <1>4 DEF PidOf
  <1>9. pid[c0] > 0 /\ \A q \in Proc : pid[c0] # PidOf(q)
    <2>1. pid[c0] # 0 /\ pid[c0] \in Nat
      BY <1>1 DEF IInv, PidInv, TypeOK, ForkInv, ForkAt, Forking
    <2>2. \A q \in Proc : Registered(q) => pid[c0] # pid[q]
      BY <1>1, <1>5, <2>1 DEF IInv, PidInv
    <2>3. QED
      BY <2>1, <2>2 DEF PidOf
  <1>10. \A d \in Proc : ExitedOf(d)' = ExitedOf(d)
    BY DEF ExitedOf
  <1>11. LifeOf(c0) = "unborn"
    BY <1>1, <1>5 DEF LifeOf
  <1> HIDE DEF c0
  <1>12. Wait!Fork(p, c0)
    BY <1>1, <1>6, <1>7, <1>8, <1>9, <1>10, <1>11 DEF Wait!Fork
  <1>13. QED
    BY <1>1, <1>12 DEF Wait!WaitNext

(* Closing the done channel makes a zombie.                                *)
LEMMA CloseDoneMaps ==
    ASSUME IInv, NEW p \in Proc, CloseDone(p)
    PROVE  Wait!WaitNext
  <1> USE DEF CloseDone, tree, record, locals
  <1>1. p # Root /\ p \notin done /\ p \notin reaped
    BY DEF IInv, DoneInv
  <1>2. Registered(p) /\ \A d \in Proc : Registered(d)' <=> Registered(d)
    BY <1>1 DEF IInv, ListInv, Registered
  <1>3. \A d \in Proc : LifeOf(d)' = IF d = p THEN "zombie" ELSE LifeOf(d)
    BY <1>1, <1>2 DEF LifeOf
  <1>4. LifeOf(p) = "alive"
    BY <1>1, <1>2 DEF LifeOf
  <1>5. \A d \in Proc : ParentOf(d)' = ParentOf(d) /\ PidOf(d)' = PidOf(d)
    BY <1>2 DEF ParentOf, PidOf
  <1>6. \A d \in Proc : ExitedOf(d)' = IF d = p THEN exitCode[p] ELSE ExitedOf(d)
    BY DEF ExitedOf
  <1>7. exitCode[p] \in 0..255
    BY DEF IInv, TypeOK
  <1>8. Wait!Die(p)
    BY <1>1, <1>3, <1>4, <1>5, <1>6, <1>7 DEF Wait!Die
  <1>9. QED
    BY <1>8 DEF Wait!WaitNext

(* Setting reaped is the reaping.                                          *)
LEMMA ReapMaps ==
    ASSUME IInv, NEW p \in Proc, Reap(p)
    PROVE  Wait!WaitNext
  <1> DEFINE c0 == rec[p]
             w0 == want[p]
  <1> USE DEF Reap, tree
  <1>1. c0 \in Matches(p, w0) /\ c0 \in done /\ w0 \in Int
    BY DEF IInv, WaitInv, WaitAt, Waiting, TypeOK
  <1>2. c0 \in Proc /\ c0 \notin reaped /\ c0 \in Wait!Matching(p, w0)
    BY <1>1, MatchingIs DEF IInv, Matches, TypeOK
  <1>3. \A d \in Proc : LifeOf(d)' = IF d = c0 THEN "reaped" ELSE LifeOf(d)
    BY <1>1, <1>2 DEF LifeOf, Registered
  <1>4. LifeOf(c0) = "zombie"
    BY <1>1, <1>2 DEF LifeOf
  <1>5. \A d \in Proc : ParentOf(d)' = ParentOf(d) /\ PidOf(d)' = PidOf(d) /\ ExitedOf(d)' = ExitedOf(d)
    BY DEF ParentOf, PidOf, ExitedOf, Registered
  <1>6. 256 * (exitCode[c0] % 256) = 256 * ExitedOf(c0)
    <2>1. exitCode[c0] \in 0..255
      BY <1>2 DEF IInv, TypeOK
    <2>2. exitCode[c0] % 256 = exitCode[c0]
      BY <2>1
    <2>3. QED
      BY <1>1, <2>2 DEF ExitedOf
  <1>7. answer' = [answer EXCEPT ![p] =
            [kind |-> "pid", want |-> w0, child |-> c0, status |-> 256 * ExitedOf(c0)]]
    BY <1>6 DEF Reply
  <1>8. answer'[p].want = w0
    BY <1>7 DEF IInv, TypeOK
  <1> HIDE DEF c0, w0, Reap
  <1>9. Wait!Reap(p, c0, w0)
    BY <1>2, <1>3, <1>4, <1>5, <1>7 DEF Wait!Reap
  <1>10. QED
    BY <1>2, <1>8, <1>9 DEF Wait!WaitNext

(* ECHILD is only answered when there is no child to wait for.             *)
LEMMA NoCandidatesMaps ==
    ASSUME IInv, NEW p \in Proc, NEW w \in WaitArg, NoCandidates(p, w)
    PROVE  Wait!WaitNext
  <1> USE DEF NoCandidates, tree, record, locals
  <1>1. w \in Int /\ Wait!Matching(p, w) = {}
    BY WaitArgAssumption, MatchingIs DEF IInv
  <1>2. UNCHANGED <<childrenOf, done, reaped, pid, exitCode>>
    OBVIOUS
  <1>3. \A d \in Proc : /\ LifeOf(d)' = LifeOf(d) /\ ParentOf(d)' = ParentOf(d)
                        /\ PidOf(d)' = PidOf(d) /\ ExitedOf(d)' = ExitedOf(d)
    BY <1>2 DEF LifeOf, ParentOf, PidOf, ExitedOf, Registered
  <1>4. answer' = [answer EXCEPT ![p] =
            [kind |-> "ECHILD", want |-> w, child |-> NoProc, status |-> 0]]
    BY DEF Reply
  <1>5. answer'[p].want = w
    BY <1>4 DEF IInv, TypeOK
  <1>6. Wait!NoChild(p, w)
    BY <1>1, <1>3, <1>4 DEF Wait!NoChild
  <1>7. QED
    BY <1>5, <1>6 DEF Wait!WaitNext

(* 0 is only answered when there is one.                                   *)
LEMMA PollOverMaps ==
    ASSUME IInv, NEW p \in Proc, PollOver(p)
    PROVE  Wait!WaitNext
  <1> DEFINE w0 == want[p]
  <1> USE DEF PollOver, tree, record
  <1>1. w0 \in Int /\ Matches(p, w0) # {}
    BY DEF IInv, WaitInv, WaitAt, Waiting, TypeOK
  <1>2. Wait!Matching(p, w0) # {}
    BY <1>1, MatchingIs DEF IInv
  <1>3. UNCHANGED <<childrenOf, done, reaped, pid, exitCode>>
    OBVIOUS
  <1>4. \A d \in Proc : /\ LifeOf(d)' = LifeOf(d) /\ ParentOf(d)' = ParentOf(d)
                        /\ PidOf(d)' = PidOf(d) /\ ExitedOf(d)' = ExitedOf(d)
    BY <1>3 DEF LifeOf, ParentOf, PidOf, ExitedOf, Registered
  <1>5. answer' = [answer EXCEPT ![p] =
            [kind |-> "0", want |-> w0, child |-> NoProc, status |-> 0]]
    BY DEF Reply
  <1>6. answer'[p].want = w0
    BY <1>5 DEF IInv, TypeOK
  <1> HIDE DEF w0
  <1>7. Wait!NotYet(p, w0)
    BY <1>2, <1>4, <1>5 DEF Wait!NotYet
  <1>8. QED
    BY <1>6, <1>7 DEF Wait!WaitNext

(* Every step is a step of WaitSpec or leaves its state alone.             *)
LEMMA RefinementStep ==
    ASSUME IInv, IInv', [Next]_vars
    PROVE  [Wait!WaitNext]_(Wait!waitVars)
<1>1. CASE UNCHANGED vars
  BY <1>1, Invisible DEF vars, tree, record
<1>2. ASSUME NEW p \in Proc, NEW c \in Proc, AllocChildPid(p, c)
      PROVE  [Wait!WaitNext]_(Wait!waitVars)
  <2>1. \A d \in Proc : Registered(d) => pid'[d] = pid[d]
    BY <1>2 DEF AllocChildPid, Registered, IInv, ListInv, TypeOK
  <2>2. QED
    BY <1>2, <2>1, Invisible DEF AllocChildPid, record
<1>3. ASSUME NEW p \in Proc, Register(p)
      PROVE  [Wait!WaitNext]_(Wait!waitVars)
  BY <1>3, RegisterMaps
<1>4. ASSUME NEW p \in Proc, Spawn(p)
      PROVE  [Wait!WaitNext]_(Wait!waitVars)
  BY <1>4, Invisible DEF Spawn, tree, record
<1>5. ASSUME NEW p \in Proc, NEW n \in ExitArg, Exit(p, n)
      PROVE  [Wait!WaitNext]_(Wait!waitVars)
  BY <1>5, Invisible DEF Exit, tree, record
<1>6. ASSUME NEW p \in Proc, Fail(p)
      PROVE  [Wait!WaitNext]_(Wait!waitVars)
  BY <1>6, Invisible DEF Fail, tree, record
<1>7. ASSUME NEW p \in Proc, SetExitCode(p)
      PROVE  [Wait!WaitNext]_(Wait!waitVars)
  <2>1. \A d \in Proc : d \in done => exitCode'[d] = exitCode[d]
    BY <1>7 DEF SetExitCode, IInv, DoneInv, TypeOK
  <2>2. QED
    BY <1>7, <2>1, Invisible DEF SetExitCode, tree
<1>8. ASSUME NEW p \in Proc, CloseDone(p)
      PROVE  [Wait!WaitNext]_(Wait!waitVars)
  BY <1>8, CloseDoneMaps
<1>9. ASSUME NEW p \in Proc, NEW w \in WaitArg, NoCandidates(p, w)
      PROVE  [Wait!WaitNext]_(Wait!waitVars)
  BY <1>9, NoCandidatesMaps
<1>10. ASSUME NEW p \in Proc, NEW w \in WaitArg, NEW opt \in {"none", "WNOHANG"}, Wait4(p, w, opt)
      PROVE  [Wait!WaitNext]_(Wait!waitVars)
  BY <1>10, Invisible DEF Wait4, tree, record
<1>11. ASSUME NEW p \in Proc, NEW c \in Proc, PollPending(p, c)
      PROVE  [Wait!WaitNext]_(Wait!waitVars)
  BY <1>11, Invisible DEF PollPending, tree, record
<1>12. ASSUME NEW p \in Proc, NEW c \in Proc, PollDone(p, c)
      PROVE  [Wait!WaitNext]_(Wait!waitVars)
  BY <1>12, Invisible DEF PollDone, tree, record
<1>13. ASSUME NEW p \in Proc, PollOver(p)
      PROVE  [Wait!WaitNext]_(Wait!waitVars)
  BY <1>13, PollOverMaps
<1>14. ASSUME NEW p \in Proc, Block(p)
      PROVE  [Wait!WaitNext]_(Wait!waitVars)
  BY <1>14, Invisible DEF Block, tree, record
<1>15. ASSUME NEW p \in Proc, NEW c \in Proc, WaitAnyChild(p, c)
      PROVE  [Wait!WaitNext]_(Wait!waitVars)
  BY <1>15, Invisible DEF WaitAnyChild, tree, record
<1>16. ASSUME NEW p \in Proc, Reap(p)
      PROVE  [Wait!WaitNext]_(Wait!waitVars)
  BY <1>16, ReapMaps
<1>17. CASE MainReturns
  BY <1>17, Invisible DEF MainReturns, tree, record
<1>18. QED
  BY <1>1, <1>2, <1>3, <1>4, <1>5, <1>6, <1>7, <1>8, <1>9, <1>10, <1>11, <1>12, <1>13, <1>14, <1>15, <1>16, <1>17 DEF Next, Call, Step

(* Nobody is registered at first but Root.                                 *)
LEMMA RefinementInit == Init => Wait!WaitInit
  <1> SUFFICES ASSUME Init PROVE Wait!WaitInit
    OBVIOUS
  <1>1. \A c \in Proc : Registered(c) <=> c = Root
    BY DEF Init, Registered
  <1>2. \A c \in Proc : LifeOf(c) = IF c = Root THEN "alive" ELSE "unborn"
    BY <1>1 DEF Init, LifeOf
  <1>3. \A c \in Proc : ParentOf(c) = NoProc /\ ExitedOf(c) = 0
    BY DEF Init, ParentOf, ExitedOf
  <1>4. \A c \in Proc : PidOf(c) = IF c = Root THEN RootPid ELSE 0
    BY <1>1 DEF Init, PidOf
  <1>5. QED
    BY <1>2, <1>3, <1>4 DEF Init, Reply, Wait!WaitInit

(* fork, exit and wait4 implement WaitSpec: each child is reaped at most   *)
(* once, by its parent, with its own exit code, ECHILD and 0 are truthful. *)
THEOREM Refinement == Safety => ImplementsWait
  <1>1. IInv /\ IInv' /\ [Next]_vars => [Wait!WaitNext]_(Wait!waitVars)
    BY RefinementStep
  <1>2. QED
    BY RefinementInit, Invariance, <1>1, PTL DEF Safety, ImplementsWait, Wait!WaitSafety
=============================================================================
