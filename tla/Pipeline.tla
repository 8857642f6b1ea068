------------------------------ MODULE Pipeline ------------------------------
(***************************************************************************)
(* A shell pipeline, writer | reader, run on the descriptor tables: the    *)
(* shell makes a pipe, forks two children and waits for both; each child   *)
(* moves its end of the pipe to fd 1 or 0, closes the rest, calls execve   *)
(* and then writes or reads until it is done.  The pipe is the host's; it  *)
(* reports end of file when its write end has been closed, which is the    *)
(* File.Close that the tables' reference counts decide on.                 *)
(***************************************************************************)
EXTENDS FdTable, Sequences

CONSTANTS Writer, Reader,  \* the children
          PipeR, PipeW,    \* the two Files of the pipe
          Bytes,           \* bound: the bytes the writer has to write
          Limits,          \* bound: the bytes a reader may want at most
          Capacity,        \* bound: the bytes the pipe holds
          MayFault         \* the processes whose emulation may fail

ASSUME PipelineAssumption ==
    /\ {Writer, Reader} \subseteq Proc \ {Root} /\ Writer # Reader
    /\ {PipeR, PipeW} \subseteq File \ {Stdin, Stdout, Stderr} /\ PipeR # PipeW
    /\ {0, 1, 3, 4} \subseteq ArgFd
    /\ Bytes \in Nat /\ Limits \subseteq Nat /\ Capacity \in Nat \ {0}
    /\ MayFault \subseteq Proc

VARIABLES at,     \* at[p]: the instruction of its program p is at
          buf,    \* bytes in the pipe
          sent,   \* bytes the writer has written
          got,    \* bytes the reader has read
          limit,  \* bytes it wants
          dead    \* the processes whose Run returned an error

data == <<buf, sent, got, limit>>
pvars == <<vars, at, data, dead>>

(* doPipe returns 3 and 4, the first numbers NewTable leaves free.         *)
Rfd == 3
Wfd == 4

Program(p) ==
    CASE p = Root   -> << <<"open", PipeR>>, <<"open", PipeW>>,
                          <<"fork", Writer>>, <<"fork", Reader>>,
                          <<"close", Rfd>>, <<"close", Wfd>>,
                          <<"wait", Writer>>, <<"wait", Reader>>, <<"exit">> >>
      [] p = Writer -> << <<"dup2", Wfd, 1>>, <<"close", Rfd>>, <<"close", Wfd>>,
                          <<"exec">>, <<"write">>, <<"exit">> >>
      [] p = Reader -> << <<"dup2", Rfd, 0>>, <<"close", Rfd>>, <<"close", Wfd>>,
                          <<"exec">>, <<"read">>, <<"exit">> >>

PInit ==
    /\ Init
    /\ at = [p \in Proc |-> 1]
    /\ buf = 0 /\ sent = 0 /\ got = 0 /\ limit \in Limits
    /\ dead = {}

(* p is between two system calls and its next one is o.                    *)
Instr(p) == Program(p)[at[p]]
Ready(p, o) == pc[p] = "user" /\ p \notin dead /\ Instr(p)[1] = o
Advance(p) == at' = [at EXCEPT ![p] = @ + 1]

DoPipe(p) ==
    /\ Ready(p, "open")
    /\ AllocNew(p, Instr(p)[2])
    /\ Advance(p)
    /\ UNCHANGED <<data, dead>>

DoFork(p) ==
    /\ Ready(p, "fork")
    /\ Clone(p, Instr(p)[2])
    /\ Advance(p)
    /\ UNCHANGED <<data, dead>>

DoDup2(p) ==
    /\ Ready(p, "dup2")
    /\ Dup2Over(p, Instr(p)[2], Instr(p)[3])
    /\ Advance(p)
    /\ UNCHANGED <<data, dead>>

DoClose(p) ==
    /\ Ready(p, "close")
    /\ Close(p, Instr(p)[2])
    /\ Advance(p)
    /\ UNCHANGED <<data, dead>>

DoExecve(p) ==
    /\ Ready(p, "exec")
    /\ CloseOnExec(p)
    /\ Advance(p)
    /\ UNCHANGED <<data, dead>>

DoExit(p) ==
    /\ Ready(p, "exit")
    /\ CloseAll(p)
    /\ UNCHANGED <<at, data, dead>>

(* sysWrite on fd 1: the host's write blocks while the pipe is full.       *)
Write(p) ==
    /\ Ready(p, "write")
    /\ entries[p][1] = PipeW
    /\ closes[PipeR] = 0
    /\ sent < Bytes
    /\ buf < Capacity
    /\ buf' = buf + 1
    /\ sent' = sent + 1
    /\ UNCHANGED <<vars, at, got, limit, dead>>

(* All is written, or the read end is closed: EPIPE.                       *)
WriteEnd(p) ==
    /\ Ready(p, "write")
    /\ sent = Bytes \/ closes[PipeR] > 0
    /\ Advance(p)
    /\ UNCHANGED <<vars, data, dead>>

(* sysRead on fd 0: the host's read blocks while the pipe is empty.        *)
Read(p) ==
    /\ Ready(p, "read")
    /\ entries[p][0] = PipeR
    /\ got < limit
    /\ buf > 0
    /\ buf' = buf - 1
    /\ got' = got + 1
    /\ UNCHANGED <<vars, at, sent, limit, dead>>

(* The reader has what it wants, or read returned 0: end of file.          *)
ReadEnd(p) ==
    /\ Ready(p, "read")
    /\ got = limit \/ (buf = 0 /\ closes[PipeW] > 0)
    /\ Advance(p)
    /\ UNCHANGED <<vars, data, dead>>

(* Mutation: a goroutine whose Run failed never closes the done channel.   *)
EndedByExit(p) == pc[p] = "gone"

(* The done channel of the record of p is closed.                          *)
Ended(p) == pc[p] = "gone" \/ p \in dead

DoWait(p) ==
    /\ Ready(p, "wait")
    /\ Ended(Instr(p)[2])
    /\ Advance(p)
    /\ UNCHANGED <<vars, data, dead>>

(* Run returns an error, from EmuStart or from execImage: the goroutine    *)
(* records exit code 128 and ends.  Nothing closes the table.              *)
Fault(p) ==
    /\ p \in MayFault
    /\ pc[p] = "user"
    /\ p \notin dead
    /\ dead' = dead \cup {p}
    /\ UNCHANGED <<vars, at, data>>

Guest(p) ==
    \/ DoPipe(p) \/ DoFork(p) \/ DoDup2(p) \/ DoClose(p) \/ DoExecve(p) \/ DoExit(p)
    \/ Write(p) \/ WriteEnd(p) \/ Read(p) \/ ReadEnd(p) \/ DoWait(p)

Goroutine(p) == Guest(p) \/ (Step(p) /\ UNCHANGED <<at, data, dead>>)

PNext == \E p \in Proc : Goroutine(p) \/ Fault(p)

(* These programs do not loop: a goroutine that can go on does.            *)
PSpec == PInit /\ [][PNext]_pvars /\ \A p \in Proc : WF_pvars(Goroutine(p))

-----------------------------------------------------------------------------
(* Safety.  The reader is never told end of file early: when it has gone   *)
(* on from reading it has all the writer had to write, or all it wanted.   *)
NoEarlyEof ==
    at[Reader] > 5 => got = IF Bytes < limit THEN Bytes ELSE limit

(* Liveness.  Unless a process dies of a fault the pipeline ends: the      *)
(* reader sees end of file, a writer the reader has left gets EPIPE, and   *)
(* the shell gets both back and exits with every File closed.              *)
AllOver ==
    /\ \A p \in Proc : pc[p] = "gone"
    /\ \A f \in opened : closes[f] = 1
PipelineEnds == <>(dead # {} \/ []AllOver)

(* Liveness.  The shell gets a writer back that died of a fault.           *)
DeathIsNoticed == Writer \in dead ~> at[Root] > 7

(* Liveness.  Once no living process has a descriptor for the write end,   *)
(* the reader does not stay blocked waiting for end of file.               *)
WriteEndHeld == \E p \in Proc \ dead : \E fd \in Fd : entries[p][fd] = PipeW
EofArrives ==
    (PipeW \in opened /\ ~WriteEndHeld) ~> (at[Reader] > 5 \/ Reader \in dead)
=============================================================================
