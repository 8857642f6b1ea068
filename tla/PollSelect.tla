---------------------------- MODULE PollSelect ----------------------------
(***************************************************************************)
(* internal/syscalls poll.go and select.go: a guest process that waits for *)
(* its descriptors with poll, ppoll, select and pselect6.                  *)
(*                                                                         *)
(* The guest is an event loop.  It has bytes to send on some descriptors   *)
(* and reads others until end of file; it waits for all of them at once,   *)
(* with any of the four calls and any time-out, does what the answer says  *)
(* is ready, and waits again.  At the other end of each pipe or socket is  *)
(* a host process that runs whenever it likes.                             *)
(***************************************************************************)
EXTENDS Integers, FiniteSets

CONSTANTS
    Sock, ReadEnd, WriteEnd,  \* sockets and ends of pipes: what has a host descriptor
    Plain,                    \* a VFSFile, StaticFile or DirHandle
    Device,                   \* a device or O_TMPFILE file: no host descriptor either
    Closed,                   \* a number that is not open
    Negative,                 \* a negative number, in a pollfd
    Loops,                    \* bound: the sets of those that a loop serves together
    Capacity,                 \* bytes a pipe or socket holds in one direction
    GuestBytes, PeerBytes,    \* bytes each side has to send on a descriptor
    Extras,                   \* bound: what else the guest watches in a call
    Timeouts,                 \* bound: the time-outs tried, in milliseconds
    MaxUpsets,                \* bound: interrupted waits and failing write-backs
    NULL                      \* no time-out

Host == Sock \cup ReadEnd \cup WriteEnd
Other == Plain \cup Device \cup Closed \cup Negative
(* A number is of one kind, and a process has finitely many.               *)
ASSUME KindAssumption == Host \cap Other = {} /\ IsFiniteSet(Host \cup Other)
ASSUME ExtrasAssumption == Extras \subseteq SUBSET Other
ASSUME LoopsAssumption == Loops \subseteq SUBSET Host
ASSUME SizeAssumption == Capacity \in Nat \ {0} /\ GuestBytes \in Nat /\ PeerBytes \in Nat /\ MaxUpsets \in Nat
ASSUME TimeoutAssumption == NULL \notin Timeouts /\ Timeouts \subseteq Int

VARIABLES
    inbox, outbox,     \* the bytes on their way to the guest, and from it
    unsent,            \* the bytes the other end has still to send
    shut,              \* the descriptors whose other end is closed
    tosend, eof,       \* the guest: bytes still to send; descriptors read to their end
    toRead, toWrite,   \* the guest: what the last answer said is ready
    pc,                \* "guest", "wait" (in the host's poll) or "sleep"
    call,              \* the call in progress
    elapsed,           \* the time since it began
    res,               \* the last answer, with what it was an answer to
    upsets
other == <<inbox, outbox, unsent, shut>>
guest == <<tosend, eof, toRead, toWrite>>
vars == <<other, guest, pc, call, elapsed, res, upsets>>

NoCall == [op |-> "none", ent |-> {}, rd |-> {}, wr |-> {}, t |-> 0]
NoRes == [op |-> "none", ret |-> "none", n |-> 0, t |-> 0, waited |-> 0, left |-> 0,
          polled |-> FALSE, upset |-> FALSE]
LongestWait == CHOOSE t \in Timeouts \cup {0} : \A u \in Timeouts : u <= t

Init ==
    /\ inbox = [h \in Host |-> 0]
    /\ outbox = [h \in Host |-> 0]
    /\ \E used \in Loops :
          /\ unsent = [h \in Host |-> IF h \in used \ WriteEnd THEN PeerBytes ELSE 0]
          /\ tosend = [h \in Host |-> IF h \in used \ ReadEnd THEN GuestBytes ELSE 0]
          /\ eof = WriteEnd \cup (Host \ used)
          /\ shut = Host \ used
    /\ toRead = {} /\ toWrite = {}
    /\ pc = "guest"
    /\ call = NoCall
    /\ elapsed = 0
    /\ res = NoRes
    /\ upsets = 0

-----------------------------------------------------------------------------
(***************************************************************************)
(* The host: the other ends, and what poll(2) says of a descriptor.        *)
(***************************************************************************)
PeerSend(h) ==
    /\ h \notin shut
    /\ unsent[h] > 0 /\ inbox[h] < Capacity
    /\ unsent' = [unsent EXCEPT ![h] = @ - 1]
    /\ inbox' = [inbox EXCEPT ![h] = @ + 1]
    /\ UNCHANGED <<outbox, shut, guest, pc, call, elapsed, res, upsets>>

PeerReceive(h) ==
    /\ h \notin shut
    /\ outbox[h] > 0
    /\ outbox' = [outbox EXCEPT ![h] = @ - 1]
    /\ UNCHANGED <<inbox, unsent, shut, guest, pc, call, elapsed, res, upsets>>

PeerClose(h) ==
    /\ h \notin shut
    /\ unsent[h] = 0
    /\ shut' = shut \cup {h}
    /\ UNCHANGED <<inbox, outbox, unsent, guest, pc, call, elapsed, res, upsets>>

CanRead(h) == inbox[h] > 0 \/ h \in shut
CanWrite(h) == outbox[h] < Capacity \/ h \in shut

(* A pipe whose writer is gone hangs up, one whose reader is gone is an    *)
(* error, and a socket whose peer is gone can be read and written at once. *)
Conditions(h) ==
    {e \in {"in", "out", "hup", "err"} :
        CASE e = "in"  -> h \notin WriteEnd /\ (inbox[h] > 0 \/ (h \in Sock /\ h \in shut))
          [] e = "out" -> h \notin ReadEnd /\ CanWrite(h)
          [] e = "hup" -> h \notin WriteEnd /\ h \in shut
          [] e = "err" -> h \in WriteEnd /\ h \in shut}
(* revents: what was asked for, and hup and err in any case.               *)
Revents(h, events) == Conditions(h) \cap (events \cup {"hup", "err"})

-----------------------------------------------------------------------------
(***************************************************************************)
(* The calls.  A call is its pollfds, ent, with those of them that ask for *)
(* reading and for writing, or the two sets of a select.                   *)
(***************************************************************************)
IsSelect(c) == c.op \in {"select", "pselect6"}
Asked(c, h) == (IF h \in c.rd THEN {"in"} ELSE {}) \cup (IF h \in c.wr THEN {"out"} ELSE {})

(* poll has its time-out in a register, the others behind a pointer; ppoll *)
(* and pselect6 make a negative one 0.                                     *)
TimeoutMs(op, arg) ==
    IF arg = NULL THEN -1
    ELSE IF op \in {"ppoll", "pselect6"} /\ arg < 0 THEN 0 ELSE arg

(* What needs no wait.  poll: what is not open and what has no host        *)
(* descriptor; select: isAlwaysReadyFile, the rest is passed over.         *)
Immediate(c) ==
    IF IsSelect(c) THEN c.ent \cap Plain
    ELSE (c.ent \cap Closed) \cup ((c.rd \cup c.wr) \cap (Plain \cup Device))
(* hostFdForFile.                                                          *)
Polled(c) == c.ent \cap Host

(* Mutation: what is ready at once does not shorten the wait.              *)
HostWaitFull(c) == IF IsSelect(c) /\ c.t < 0 THEN 0 ELSE c.t
(* Mutation: the time-out is given up a millisecond early.                 *)
HostWaitShort(c) == IF Immediate(c) # {} \/ (IsSelect(c) /\ c.t < 0) THEN 0
                    ELSE IF c.t > 0 THEN c.t - 1 ELSE c.t
(* How long the host is asked to wait; negative is for ever.               *)
HostWait(c) == IF Immediate(c) # {} \/ (IsSelect(c) /\ c.t < 0) THEN 0 ELSE c.t

(* doSelect: an entry of the host's poll for each direction; a descriptor  *)
(* that is readable is not looked at again for writing.                    *)
(* Mutation: a pipe that has hung up is not readable.                      *)
SelectReadableData(c, h) == h \in c.rd /\ Revents(h, {"in", "err"}) \cap {"in", "err"} # {}
SelectReadable(c, h) == h \in c.rd /\ Revents(h, {"in", "err"}) # {}
(* Mutation: one entry for both directions, and any event counts.          *)
SelectWritableAny(c, h) == h \in c.wr /\ Revents(h, {"in", "out", "err"}) # {}
SelectWritable(c, h) ==
    h \in c.wr /\ Revents(h, {"out", "err"}) \cap {"out", "err"} # {} /\ ~SelectReadable(c, h)

(* The host descriptors that the guest, told by revents or by the two      *)
(* sets, goes on to read and to write.                                     *)
ReportsRead(c) ==
    {h \in Polled(c) : IF IsSelect(c) THEN SelectReadable(c, h)
                       ELSE h \in c.rd /\ Revents(h, Asked(c, h)) \cap {"in", "hup", "err"} # {}}
ReportsWrite(c) ==
    {h \in Polled(c) : IF IsSelect(c) THEN SelectWritable(c, h)
                       ELSE h \in c.wr /\ Revents(h, Asked(c, h)) \cap {"out", "err"} # {}}
(* The entries that the host's poll has something to say about.            *)
Ready(c) ==
    {h \in Polled(c) : IF IsSelect(c) THEN SelectReadable(c, h) \/ SelectWritable(c, h)
                       ELSE Revents(h, Asked(c, h)) # {}}

(* sysSelect writes the time that is left back; nobody else does.          *)
Left(c) == IF c.op = "select" /\ c.t > elapsed THEN c.t - elapsed ELSE 0

(* The call c returns, with ret, and n descriptors in its answer.          *)
Returns(c, ret, n, polled, upset) ==
    /\ res' = [op |-> c.op, ret |-> ret, n |-> n, t |-> c.t, waited |-> elapsed,
               left |-> Left(c), polled |-> polled, upset |-> upset]
    /\ pc' = "guest"
    /\ call' = NoCall
    /\ elapsed' = 0
    /\ UNCHANGED <<other, tosend, eof>>

Needs == [rd |-> Host \ eof, wr |-> {h \in Host : tosend[h] > 0}]
Done == Needs.rd = {} /\ Needs.wr = {}
Args(op) == IF op = "poll" THEN Timeouts ELSE Timeouts \cup {NULL}

(* The guest asks for all that it needs, and for what else is in extra.    *)
(* ppoll goes on as poll.                                                  *)
Request(op, arg, extra) ==
    [op |-> IF op = "ppoll" THEN "poll" ELSE op, t |-> TimeoutMs(op, arg), ent |-> Needs.rd \cup Needs.wr \cup extra,
     rd |-> Needs.rd \cup extra, wr |-> Needs.wr]

(* doPoll and doSelect up to the host's poll, or, when there is nothing to *)
(* poll, to the end.                                                       *)
Call(op, arg, extra) ==
    LET c == Request(op, arg, extra) IN
    /\ pc = "guest" /\ toRead = {} /\ toWrite = {}
    /\ c.ent # {}
    /\ op \in {"select", "pselect6"} => extra \cap Negative = {}
    /\ UNCHANGED <<upsets, toRead, toWrite>>
    /\ IF Polled(c) = {} THEN Returns(c, "ok", Cardinality(Immediate(c)), FALSE, FALSE)
       ELSE /\ pc' = "wait"
            /\ call' = c
            /\ res' = NoRes
            /\ UNCHANGED <<other, tosend, eof, elapsed>>

(* A call with a bad pointer, or with too many descriptors for a fd_set.   *)
Refused(op, err) ==
    /\ pc = "guest"
    /\ err = "EINVAL" => op \in {"select", "pselect6"}
    /\ Returns([NoCall EXCEPT !.op = op], err, 0, FALSE, FALSE)
    /\ UNCHANGED <<upsets, toRead, toWrite>>

(* poll(NULL, 0, timeout) is a sleep; the guest rests when it is done.     *)
Sleep(arg) ==
    LET c == [NoCall EXCEPT !.op = "poll", !.t = TimeoutMs("poll", arg)] IN
    /\ pc = "guest" /\ Done
    /\ UNCHANGED <<upsets, toRead, toWrite>>
    /\ IF c.t = 0 THEN Returns(c, "ok", 0, TRUE, FALSE)
       ELSE /\ pc' = "sleep"
            /\ call' = c
            /\ UNCHANGED <<other, tosend, eof, elapsed, res>>
Wake ==
    /\ pc = "sleep"
    /\ call.t > 0 /\ elapsed >= call.t
    /\ Returns(call, "ok", 0, TRUE, FALSE)
    /\ UNCHANGED <<upsets, toRead, toWrite>>

(* The host's poll returns because something is ready or the time is over, *)
(* and the answer is written to the guest's memory.                        *)
HostAnswers ==
    \/ Ready(call) # {}
    \/ HostWait(call) >= 0 /\ elapsed >= HostWait(call)
HostPoll ==
    /\ pc = "wait"
    /\ HostAnswers
    /\ toRead' = ReportsRead(call)
    /\ toWrite' = ReportsWrite(call)
    /\ Returns(call, "ok", Cardinality(Ready(call) \cup Immediate(call)), TRUE, FALSE)
    /\ UNCHANGED upsets

(* A signal interrupts the host's poll: poll returns the error, select     *)
(* ignores it and finds that nothing of the host is ready.                 *)
Interrupted ==
    /\ pc = "wait"
    /\ upsets < MaxUpsets
    /\ upsets' = upsets + 1
    /\ IF IsSelect(call) THEN Returns(call, "ok", Cardinality(Immediate(call)), TRUE, TRUE)
       ELSE Returns(call, "EINTR", 0, TRUE, TRUE)
    /\ UNCHANGED <<toRead, toWrite>>

(* The answer cannot be written to the guest's memory.                     *)
WriteBackFails ==
    /\ pc = "wait"
    /\ upsets < MaxUpsets
    /\ upsets' = upsets + 1
    /\ HostAnswers
    /\ Returns(call, "EFAULT", 0, TRUE, TRUE)
    /\ UNCHANGED <<toRead, toWrite>>

Tick ==
    /\ pc \in {"wait", "sleep"}
    /\ elapsed < LongestWait
    /\ elapsed' = elapsed + 1
    /\ UNCHANGED <<other, guest, pc, call, res, upsets>>

-----------------------------------------------------------------------------
(***************************************************************************)
(* The guest reads and writes, a byte at a time, what it was told is       *)
(* ready.  A read or write that would block waits here.                    *)
(***************************************************************************)
Read(h) ==
    /\ pc = "guest" /\ h \in toRead
    /\ CanRead(h)
    /\ IF inbox[h] > 0
       THEN inbox' = [inbox EXCEPT ![h] = @ - 1] /\ UNCHANGED eof
       ELSE eof' = eof \cup {h} /\ UNCHANGED inbox
    /\ toRead' = toRead \ {h}
    /\ UNCHANGED <<outbox, unsent, shut, tosend, toWrite, pc, call, elapsed, res, upsets>>

(* A write to a closed end is EPIPE: the guest gives up on it.             *)
Write(h) ==
    /\ pc = "guest" /\ h \in toWrite
    /\ CanWrite(h)
    /\ IF h \in shut
       THEN tosend' = [tosend EXCEPT ![h] = 0] /\ UNCHANGED outbox
       ELSE /\ tosend' = [tosend EXCEPT ![h] = @ - 1]
            /\ outbox' = [outbox EXCEPT ![h] = @ + 1]
    /\ toWrite' = toWrite \ {h}
    /\ UNCHANGED <<inbox, unsent, shut, eof, toRead, pc, call, elapsed, res, upsets>>

Ops == {"poll", "ppoll", "select", "pselect6"}
Serve == \E h \in Host : Read(h) \/ Write(h)
Wait == \E op \in Ops, extra \in Extras : \E arg \in Args(op) : Call(op, arg, extra)
Peer(h) == PeerSend(h) \/ PeerReceive(h) \/ PeerClose(h)
Next ==
    \/ Serve \/ Wait \/ HostPoll \/ Interrupted \/ WriteBackFails \/ Wake \/ Tick
    \/ \E op \in Ops, err \in {"EFAULT", "EINVAL"} : Refused(op, err)
    \/ \E arg \in Timeouts \cup {0} : Sleep(arg)
    \/ \E h \in Host : Peer(h)

(* The loop goes round: some Call, the only action that does this to pc.   *)
Again == pc = "guest" /\ toRead = {} /\ toWrite = {} /\ ~Done /\ pc' = "wait"
(* Time passes, the host returns from its poll when it can, and the guest  *)
(* is a loop that keeps running.                                           *)
Fairness ==
    WF_vars(Serve) /\ WF_pc(Again) /\ WF_vars(HostPoll) /\ WF_vars(Tick) /\ WF_vars(Wake)
Spec == Init /\ [][Next]_vars /\ Fairness

-----------------------------------------------------------------------------
(* Safety.  What an answer reports as readable or writable was asked for   *)
(* and can be read or written without blocking, however long the guest     *)
(* takes to do it and whatever the other ends do meanwhile: the promise an *)
(* event loop is built on.                                                 *)
ReportedIsReady ==
    /\ \A h \in toRead : h \notin eof /\ CanRead(h)
    /\ \A h \in toWrite : tosend[h] > 0 /\ CanWrite(h)

(* Safety.  A call that waited on the host and answers that nothing is     *)
(* ready has waited for its whole time-out; a poll without one never gives *)
(* that answer; and the time that select says is left is time it has not   *)
(* waited.  (Unless a signal cut the wait short.  doSelect makes the wait  *)
(* of a call without a time-out 0, and does give it that answer.)          *)
ZeroMeansTimedOut ==
    res.ret = "ok" /\ res.polled /\ ~res.upset /\ res.n = 0 =>
        /\ res.waited >= res.t
        /\ res.t < 0 => IsSelect(res)
        /\ res.left = 0

(* Liveness.  A call returns if it has a time-out, or asks for something   *)
(* that is ready without a wait, however quiet the host stays.             *)
CallReturns == pc = "wait" /\ (call.t >= 0 \/ Immediate(call) # {}) ~> pc = "guest"

(* Liveness.  The event loop ends, if the other ends do their part: every  *)
(* descriptor is read to its end and every byte is sent or refused,        *)
(* whichever calls it waits with and whatever else it has them watch.      *)
LoopEnds == (\A h \in Host : WF_vars(Peer(h))) => <>Done
=============================================================================
