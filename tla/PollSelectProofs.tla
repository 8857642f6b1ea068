-------------------------- MODULE PollSelectProofs --------------------------
(***************************************************************************)
(* Proofs about PollSelect, for any descriptors, any capacity and amount   *)
(* of data, any time-outs and any number of interrupted waits.             *)
(*                                                                         *)
(* ReportedIsReady needs to know what a call in progress asked for: only   *)
(* what the guest still needs, which does not change while it waits.       *)
(***************************************************************************)
EXTENDS PollSelect, FiniteSetTheorems, TLAPS

Watched == Host \cup Other
CallType == [op : Ops \cup {"none"}, ent : SUBSET Watched, rd : SUBSET Watched, wr : SUBSET Host,
             t : Int]
ResType == [op : Ops \cup {"none"}, ret : {"none", "ok", "EINTR", "EFAULT", "EINVAL"}, n : Nat,
            t : Int, waited : Nat, left : Nat, polled : BOOLEAN, upset : BOOLEAN]

HostOK ==
    /\ inbox \in [Host -> Nat] /\ outbox \in [Host -> Nat] /\ unsent \in [Host -> Nat]
    /\ shut \subseteq Host
GuestOK ==
    /\ tosend \in [Host -> Nat] /\ eof \subseteq Host
    /\ toRead \subseteq Host /\ toWrite \subseteq Host
CallOK ==
    /\ pc \in {"guest", "wait", "sleep"}
    /\ call \in CallType
    /\ elapsed \in Nat /\ upsets \in 0..MaxUpsets
TypeOK == HostOK /\ GuestOK /\ CallOK /\ res \in ResType

(* A call that waits asks for what the guest needs, and the guest has      *)
(* served all that the last answer reported.                               *)
AskedIsNeeded ==
    pc = "wait" =>
        /\ call.rd \cap Host \subseteq Needs.rd
        /\ call.wr \subseteq Needs.wr
        /\ toRead = {} /\ toWrite = {}

IInv == TypeOK /\ AskedIsNeeded /\ ReportedIsReady /\ ZeroMeansTimedOut

-----------------------------------------------------------------------------
LEMMA NoneTypes == NoCall \in CallType /\ NoRes \in ResType
  BY DEF NoCall, NoRes, CallType, ResType

LEMMA TimeoutType ==
    ASSUME NEW op \in Ops, NEW arg \in Timeouts \cup {NULL, 0} PROVE TimeoutMs(op, arg) \in Int
  BY TimeoutAssumption DEF TimeoutMs

(* The entries of a call are finitely many, so that an answer of 0 means   *)
(* that none is ready.                                                     *)
LEMMA CountType ==
    ASSUME NEW S, S \subseteq Watched
    PROVE  Cardinality(S) \in Nat /\ (Cardinality(S) = 0 => S = {})
<1>1. IsFiniteSet(S)
  BY KindAssumption, FS_Subset DEF Watched
<1> QED
  BY <1>1, FS_CardinalityType, FS_EmptySet

LEMMA EntryTypes ==
    ASSUME NEW c \in CallType
    PROVE  /\ Immediate(c) \subseteq Watched /\ Polled(c) \subseteq Watched
           /\ Ready(c) \subseteq Watched
           /\ ReportsRead(c) \subseteq Host /\ ReportsWrite(c) \subseteq Host
  BY DEF CallType, Immediate, Polled, Ready, ReportsRead, ReportsWrite, Watched, Other

LEMMA RequestType ==
    ASSUME GuestOK, NEW op \in Ops, NEW arg \in Args(op), NEW extra \in Extras
    PROVE  Request(op, arg, extra) \in CallType
<1>1. TimeoutMs(op, arg) \in Int
  BY TimeoutType DEF Args
<1>2. Needs.rd \subseteq Host /\ Needs.wr \subseteq Host /\ extra \subseteq Other
  BY ExtrasAssumption DEF Needs
<1> QED
  BY <1>1, <1>2 DEF Request, CallType, Watched, Ops

LEMMA LeftType ==
    ASSUME NEW c \in CallType, elapsed \in Nat
    PROVE  Left(c) \in Nat /\ (elapsed >= c.t => Left(c) = 0)
  BY DEF Left, CallType

(* A call returns: the types of what it leaves.                            *)
LEMMA ReturnsType ==
    ASSUME TypeOK, NEW c \in CallType, NEW ret \in {"ok", "EINTR", "EFAULT", "EINVAL"},
           NEW n \in Nat, NEW polled \in BOOLEAN, NEW upset \in BOOLEAN,
           Returns(c, ret, n, polled, upset)
    PROVE  /\ res' \in ResType /\ pc' = "guest" /\ call' \in CallType /\ elapsed' = 0
           /\ UNCHANGED <<inbox, outbox, unsent, shut, tosend, eof>>
<1>1. Left(c) \in Nat /\ elapsed \in Nat /\ c.op \in Ops \cup {"none"} /\ c.t \in Int
  BY LeftType DEF TypeOK, CallOK, CallType
<1> QED
  BY <1>1, NoneTypes DEF Returns, ResType, other

(* What the host reports as ready can be read or written.                  *)
LEMMA ReportsAreReady ==
    ASSUME NEW c \in CallType
    PROVE  /\ \A h \in ReportsRead(c) : h \in c.rd \cap Host /\ CanRead(h)
           /\ \A h \in ReportsWrite(c) : h \in c.wr /\ CanWrite(h)
<1>1. ASSUME NEW h, NEW events, NEW e \in Revents(h, events)
      PROVE  /\ e \in {"in", "hup", "err"} => CanRead(h)
             /\ e \in {"out", "err"} => CanWrite(h)
  BY DEF Revents, Conditions, CanRead, CanWrite
<1>2. ASSUME NEW h \in ReportsRead(c) PROVE h \in c.rd \cap Host /\ CanRead(h)
  <2>1. CASE IsSelect(c)
    <3>1. h \in c.rd /\ h \in Host /\ Revents(h, {"in", "err"}) # {}
      BY <2>1 DEF ReportsRead, SelectReadable, Polled
    <3>2. Revents(h, {"in", "err"}) \subseteq {"in", "hup", "err"}
      BY DEF Revents
    <3> QED
      BY <3>1, <3>2, <1>1
  <2>2. CASE ~IsSelect(c)
    <3>1. h \in c.rd /\ h \in Host /\ Revents(h, Asked(c, h)) \cap {"in", "hup", "err"} # {}
      BY <2>2 DEF ReportsRead, Polled
    <3> QED
      BY <3>1, <1>1
  <2> QED
    BY <2>1, <2>2
<1>3. ASSUME NEW h \in ReportsWrite(c) PROVE h \in c.wr /\ CanWrite(h)
  <2>1. CASE IsSelect(c)
    <3>1. h \in c.wr /\ Revents(h, {"out", "err"}) \cap {"out", "err"} # {}
      BY <2>1 DEF ReportsWrite, SelectWritable
    <3> QED
      BY <3>1, <1>1
  <2>2. CASE ~IsSelect(c)
    <3>1. h \in c.wr /\ Revents(h, Asked(c, h)) \cap {"out", "err"} # {}
      BY <2>2 DEF ReportsWrite
    <3> QED
      BY <3>1, <1>1
  <2> QED
    BY <2>1, <2>2
<1> QED
  BY <1>2, <1>3

-----------------------------------------------------------------------------
(* The other ends only ever make a descriptor more ready.                  *)
LEMMA PeerIInv == ASSUME IInv, NEW h \in Host, Peer(h) PROVE IInv'
<1>1. UNCHANGED <<guest, pc, call, elapsed, res, upsets>>
  BY DEF Peer, PeerSend, PeerReceive, PeerClose
<1>2. UNCHANGED <<tosend, eof, toRead, toWrite>>
  BY <1>1 DEF guest
<1>3. HostOK'
  BY DEF Peer, PeerSend, PeerReceive, PeerClose, IInv, TypeOK, HostOK
<1>4. TypeOK'
  BY <1>1, <1>2, <1>3 DEF IInv, TypeOK, GuestOK, CallOK
<1>5. \A g \in Host : CanRead(g) => CanRead(g)'
  BY SizeAssumption DEF Peer, PeerSend, PeerReceive, PeerClose, IInv, TypeOK, HostOK, CanRead
<1>6. \A g \in Host : CanWrite(g) => CanWrite(g)'
  BY SizeAssumption DEF Peer, PeerSend, PeerReceive, PeerClose, IInv, TypeOK, HostOK, CanWrite
<1>7. ReportedIsReady'
  BY <1>2, <1>5, <1>6 DEF IInv, TypeOK, GuestOK, ReportedIsReady
<1>8. AskedIsNeeded' /\ ZeroMeansTimedOut'
  BY <1>1, <1>2 DEF IInv, AskedIsNeeded, Needs, ZeroMeansTimedOut, IsSelect
<1> QED
  BY <1>4, <1>7, <1>8 DEF IInv

(* A call that returns without an answer of the host's poll.               *)
LEMMA ReturnsIInv ==
    ASSUME IInv, NEW c \in CallType, NEW ret \in {"ok", "EINTR", "EFAULT", "EINVAL"},
           NEW n \in Nat, NEW polled \in BOOLEAN, NEW upset \in BOOLEAN,
           Returns(c, ret, n, polled, upset), UNCHANGED <<toRead, toWrite>>,
           upsets' \in 0..MaxUpsets,
           ret = "ok" /\ polled /\ ~upset /\ n = 0 => c.t >= 0 /\ elapsed >= c.t
    PROVE  IInv'
<1>1. /\ res' \in ResType /\ pc' = "guest" /\ call' \in CallType /\ elapsed' = 0
      /\ UNCHANGED <<inbox, outbox, unsent, shut, tosend, eof>>
  BY ReturnsType DEF IInv
<1>2. TypeOK'
  BY <1>1 DEF IInv, TypeOK, HostOK, GuestOK, CallOK
<1>3. AskedIsNeeded' /\ ReportedIsReady'
  BY <1>1 DEF IInv, AskedIsNeeded, ReportedIsReady, CanRead, CanWrite
<1>4. /\ res'.ret = ret /\ res'.polled = polled /\ res'.upset = upset /\ res'.n = n
      /\ res'.t = c.t /\ res'.waited = elapsed /\ res'.left = Left(c)
  BY DEF Returns
<1>5. ZeroMeansTimedOut'
  <2> SUFFICES ASSUME res'.ret = "ok", res'.polled, ~res'.upset, res'.n = 0
               PROVE  /\ res'.waited >= res'.t /\ (res'.t < 0 => IsSelect(res)') /\ res'.left = 0
    BY DEF ZeroMeansTimedOut
  <2>1. c.t >= 0 /\ elapsed >= c.t /\ c.t \in Int
    BY <1>4 DEF CallType
  <2>2. Left(c) = 0
    BY <2>1, LeftType DEF IInv, TypeOK, CallOK
  <2> QED
    BY <1>4, <2>1, <2>2
<1> QED
  BY <1>2, <1>3, <1>5 DEF IInv

LEMMA CallIInv ==
    ASSUME IInv, NEW op \in Ops, NEW arg \in Args(op), NEW extra \in Extras, Call(op, arg, extra)
    PROVE  IInv'
<1> DEFINE c == Request(op, arg, extra)
<1>1. c \in CallType
  BY RequestType DEF IInv, TypeOK
<1>2. /\ pc = "guest" /\ toRead = {} /\ toWrite = {}
      /\ UNCHANGED <<upsets, toRead, toWrite>>
  BY DEF Call
<1>3. upsets' \in 0..MaxUpsets
  BY <1>2 DEF IInv, TypeOK, CallOK
<1>4. CASE Polled(c) = {}
  <2>1. Returns(c, "ok", Cardinality(Immediate(c)), FALSE, FALSE)
    BY <1>4 DEF Call
  <2>2. Cardinality(Immediate(c)) \in Nat
    BY <1>1, CountType, EntryTypes
  <2> QED
    BY <1>1, <1>2, <1>3, <2>1, <2>2, ReturnsIInv
<1>5. CASE Polled(c) # {}
  <2>1. /\ pc' = "wait" /\ call' = c /\ res' = NoRes
        /\ UNCHANGED <<other, tosend, eof, elapsed>>
    BY <1>5 DEF Call
  <2>2. TypeOK'
    BY <1>1, <1>2, <1>3, <2>1, NoneTypes DEF IInv, TypeOK, HostOK, GuestOK, CallOK, other
  <2>3. c.rd \cap Host \subseteq Needs.rd /\ c.wr \subseteq Needs.wr
    BY ExtrasAssumption, KindAssumption DEF Request
  <2>4. Needs' = Needs
    BY <2>1 DEF Needs
  <2>5. AskedIsNeeded'
    BY <1>2, <2>1, <2>3, <2>4 DEF AskedIsNeeded
  <2>6. ReportedIsReady'
    BY <1>2 DEF ReportedIsReady
  <2>7. ZeroMeansTimedOut'
    BY <2>1 DEF ZeroMeansTimedOut, NoRes
  <2> QED
    BY <2>2, <2>5, <2>6, <2>7 DEF IInv
<1> QED
  BY <1>4, <1>5

LEMMA RefusedIInv ==
    ASSUME IInv, NEW op \in Ops, NEW err \in {"EFAULT", "EINVAL"}, Refused(op, err)
    PROVE  IInv'
<1>1. [NoCall EXCEPT !.op = op] \in CallType
  BY DEF NoCall, CallType
<1> QED
  BY <1>1, ReturnsIInv DEF Refused, IInv, TypeOK, CallOK

LEMMA SleepIInv == ASSUME IInv, NEW arg \in Timeouts \cup {0}, Sleep(arg) PROVE IInv'
<1> DEFINE c == [NoCall EXCEPT !.op = "poll", !.t = TimeoutMs("poll", arg)]
<1>1. c \in CallType /\ c.t \in Int
  BY TimeoutType DEF NoCall, CallType, Ops
<1>2. UNCHANGED <<upsets, toRead, toWrite>> /\ upsets' \in 0..MaxUpsets
  BY DEF Sleep, IInv, TypeOK, CallOK
<1>3. CASE c.t = 0
  <2>1. Returns(c, "ok", 0, TRUE, FALSE)
    BY <1>3 DEF Sleep
  <2>2. c.t >= 0 /\ elapsed >= c.t
    BY <1>3 DEF IInv, TypeOK, CallOK
  <2> HIDE DEF c
  <2> QED
    BY <1>1, <1>2, <2>1, <2>2, ReturnsIInv
<1>4. CASE c.t # 0
  <2>1. pc' = "sleep" /\ call' = c /\ UNCHANGED <<other, tosend, eof, elapsed, res>>
    BY <1>4 DEF Sleep
  <2>2. TypeOK'
    BY <1>1, <1>2, <2>1 DEF IInv, TypeOK, HostOK, GuestOK, CallOK, other
  <2>3. AskedIsNeeded' /\ ReportedIsReady' /\ ZeroMeansTimedOut'
    BY <1>2, <2>1
    DEF IInv, AskedIsNeeded, ReportedIsReady, CanRead, CanWrite, ZeroMeansTimedOut, IsSelect, other
  <2> QED
    BY <2>2, <2>3 DEF IInv
<1> QED
  BY <1>3, <1>4

LEMMA WakeIInv == ASSUME IInv, Wake PROVE IInv'
<1>1. call \in CallType /\ call.t >= 0 /\ elapsed >= call.t
  BY DEF Wake, IInv, TypeOK, CallOK, CallType
<1>2. Returns(call, "ok", 0, TRUE, FALSE) /\ UNCHANGED <<toRead, toWrite>>
  BY DEF Wake
<1>3. upsets' \in 0..MaxUpsets
  BY DEF Wake, IInv, TypeOK, CallOK
<1> QED
  BY <1>1, <1>2, <1>3, ReturnsIInv

LEMMA TickIInv == ASSUME IInv, Tick PROVE IInv'
<1>1. elapsed' = elapsed + 1 /\ UNCHANGED <<other, guest, pc, call, res, upsets>>
  BY DEF Tick
<1>2. TypeOK'
  BY <1>1 DEF IInv, TypeOK, HostOK, GuestOK, CallOK, other, guest
<1>3. AskedIsNeeded' /\ ReportedIsReady' /\ ZeroMeansTimedOut'
  BY <1>1 DEF IInv, AskedIsNeeded, Needs, ReportedIsReady, CanRead, CanWrite,
              ZeroMeansTimedOut, IsSelect, other, guest
<1> QED
  BY <1>2, <1>3 DEF IInv

-----------------------------------------------------------------------------
(* The host's poll returns.                                                *)
LEMMA HostPollIInv == ASSUME IInv, HostPoll PROVE IInv'
<1> DEFINE n == Cardinality(Ready(call) \cup Immediate(call))
<1>1. /\ call \in CallType /\ call.t \in Int /\ elapsed \in Nat /\ pc = "wait"
      /\ call.rd \cap Host \subseteq Needs.rd /\ call.wr \subseteq Needs.wr
  BY DEF HostPoll, IInv, TypeOK, CallOK, CallType, AskedIsNeeded
<1>2. n \in Nat /\ (n = 0 => Ready(call) = {} /\ Immediate(call) = {})
  BY <1>1, CountType, EntryTypes
<1>3. Returns(call, "ok", n, TRUE, FALSE) /\ UNCHANGED upsets
      /\ toRead' = ReportsRead(call) /\ toWrite' = ReportsWrite(call) /\ HostAnswers
  BY DEF HostPoll
<1>4. /\ res' \in ResType /\ pc' = "guest" /\ call' \in CallType /\ elapsed' = 0
      /\ UNCHANGED <<inbox, outbox, unsent, shut, tosend, eof>>
  BY <1>1, <1>2, <1>3, ReturnsType DEF IInv
<1>5. TypeOK'
  BY <1>1, <1>3, <1>4, EntryTypes DEF IInv, TypeOK, HostOK, GuestOK, CallOK
<1>6. AskedIsNeeded'
  BY <1>4 DEF AskedIsNeeded
<1>7. ReportedIsReady'
  <2>1. ASSUME NEW h \in toRead' PROVE h \notin eof' /\ CanRead(h)'
    <3>1. h \in call.rd \cap Host /\ CanRead(h)
      BY <1>1, <1>3, ReportsAreReady
    <3> QED
      BY <3>1, <1>1, <1>4 DEF Needs, CanRead
  <2>2. ASSUME NEW h \in toWrite' PROVE tosend'[h] > 0 /\ CanWrite(h)'
    <3>1. h \in call.wr /\ CanWrite(h)
      BY <1>1, <1>3, ReportsAreReady
    <3> QED
      BY <3>1, <1>1, <1>4 DEF Needs, CanWrite
  <2> QED
    BY <2>1, <2>2 DEF ReportedIsReady
<1>8. ZeroMeansTimedOut'
  <2>1. /\ res'.op = call.op /\ res'.n = n
        /\ res'.t = call.t /\ res'.waited = elapsed /\ res'.left = Left(call)
    BY <1>3 DEF Returns
  <2> SUFFICES ASSUME n = 0
               PROVE  /\ elapsed >= call.t /\ (call.t < 0 => IsSelect(call)) /\ Left(call) = 0
    BY <2>1 DEF ZeroMeansTimedOut, IsSelect
  <2>2. Ready(call) = {} /\ Immediate(call) = {}
    BY <1>2
  <2>3. HostWait(call) >= 0 /\ elapsed >= HostWait(call)
    BY <1>3, <2>2 DEF HostAnswers
  <2>4. elapsed >= call.t /\ (call.t < 0 => IsSelect(call))
    BY <1>1, <2>2, <2>3 DEF HostWait
  <2> QED
    BY <1>1, <2>4, LeftType
<1> QED
  BY <1>5, <1>6, <1>7, <1>8 DEF IInv

LEMMA UpsetIInv == ASSUME IInv, Interrupted \/ WriteBackFails PROVE IInv'
<1>1. /\ call \in CallType /\ UNCHANGED <<toRead, toWrite>>
      /\ upsets' = upsets + 1 /\ upsets < MaxUpsets /\ upsets \in 0..MaxUpsets
  BY DEF Interrupted, WriteBackFails, IInv, TypeOK, CallOK
<1>2. upsets' \in 0..MaxUpsets
  BY <1>1, SizeAssumption
<1>3. Cardinality(Immediate(call)) \in Nat
  BY <1>1, CountType, EntryTypes
<1>4. \/ Returns(call, "ok", Cardinality(Immediate(call)), TRUE, TRUE)
      \/ Returns(call, "EINTR", 0, TRUE, TRUE)
      \/ Returns(call, "EFAULT", 0, TRUE, TRUE)
  BY DEF Interrupted, WriteBackFails
<1> QED
  BY <1>1, <1>2, <1>3, <1>4, ReturnsIInv

-----------------------------------------------------------------------------
(* The guest reads and writes one descriptor; the others stay ready.       *)
LEMMA ReadIInv == ASSUME IInv, NEW h \in Host, Read(h) PROVE IInv'
<1>1. /\ pc = "guest" /\ h \in toRead /\ toRead' = toRead \ {h}
      /\ UNCHANGED <<outbox, unsent, shut, tosend, toWrite, pc, call, elapsed, res, upsets>>
  BY DEF Read
<1>2. /\ inbox' \in [Host -> Nat] /\ eof' \subseteq Host
      /\ \A g \in Host \ {h} : inbox'[g] = inbox[g] /\ (g \in eof' => g \in eof)
  BY DEF Read, IInv, TypeOK, HostOK, GuestOK
<1>3. TypeOK'
  BY <1>1, <1>2 DEF IInv, TypeOK, HostOK, GuestOK, CallOK
<1>4. ReportedIsReady'
  BY <1>1, <1>2 DEF IInv, TypeOK, GuestOK, ReportedIsReady, CanRead, CanWrite
<1>5. AskedIsNeeded' /\ ZeroMeansTimedOut'
  BY <1>1 DEF IInv, AskedIsNeeded, ZeroMeansTimedOut, IsSelect
<1> QED
  BY <1>3, <1>4, <1>5 DEF IInv

LEMMA WriteIInv == ASSUME IInv, NEW h \in Host, Write(h) PROVE IInv'
<1>1. /\ pc = "guest" /\ h \in toWrite /\ toWrite' = toWrite \ {h}
      /\ UNCHANGED <<inbox, unsent, shut, eof, toRead, pc, call, elapsed, res, upsets>>
  BY DEF Write
<1>2. tosend[h] \in Nat /\ tosend[h] > 0
  BY <1>1 DEF IInv, TypeOK, GuestOK, ReportedIsReady
<1>3. /\ outbox' \in [Host -> Nat] /\ tosend' \in [Host -> Nat]
      /\ \A g \in Host \ {h} : outbox'[g] = outbox[g] /\ tosend'[g] = tosend[g]
  BY <1>2 DEF Write, IInv, TypeOK, HostOK, GuestOK
<1>4. TypeOK'
  BY <1>1, <1>3 DEF IInv, TypeOK, HostOK, GuestOK, CallOK
<1>5. ReportedIsReady'
  BY <1>1, <1>3 DEF IInv, TypeOK, GuestOK, ReportedIsReady, CanRead, CanWrite
<1>6. AskedIsNeeded' /\ ZeroMeansTimedOut'
  BY <1>1 DEF IInv, AskedIsNeeded, ZeroMeansTimedOut, IsSelect
<1> QED
  BY <1>4, <1>5, <1>6 DEF IInv

-----------------------------------------------------------------------------
LEMMA InitIInv == Init => IInv
<1> SUFFICES ASSUME Init PROVE IInv
  OBVIOUS
<1>1. PICK used \in Loops :
         /\ unsent = [h \in Host |-> IF h \in used \ WriteEnd THEN PeerBytes ELSE 0]
         /\ tosend = [h \in Host |-> IF h \in used \ ReadEnd THEN GuestBytes ELSE 0]
         /\ eof = WriteEnd \cup (Host \ used)
         /\ shut = Host \ used
  BY DEF Init
<1>2. TypeOK
  BY <1>1, SizeAssumption, NoneTypes DEF Init, TypeOK, HostOK, GuestOK, CallOK, Host
<1>3. AskedIsNeeded /\ ReportedIsReady /\ ZeroMeansTimedOut
  BY DEF Init, AskedIsNeeded, ReportedIsReady, ZeroMeansTimedOut, NoRes
<1> QED
  BY <1>2, <1>3 DEF IInv

LEMMA StepIInv == IInv /\ [Next]_vars => IInv'
<1> SUFFICES ASSUME IInv, [Next]_vars PROVE IInv'
  OBVIOUS
<1>1. CASE Serve
  BY <1>1, ReadIInv, WriteIInv DEF Serve
<1>2. CASE Wait
  BY <1>2, CallIInv DEF Wait
<1>3. CASE HostPoll \/ Interrupted \/ WriteBackFails
  BY <1>3, HostPollIInv, UpsetIInv
<1>4. CASE Wake \/ Tick
  BY <1>4, WakeIInv, TickIInv
<1>5. CASE \E op \in Ops, err \in {"EFAULT", "EINVAL"} : Refused(op, err)
  BY <1>5, RefusedIInv
<1>6. CASE \E arg \in Timeouts \cup {0} : Sleep(arg)
  BY <1>6, SleepIInv
<1>7. CASE \E h \in Host : Peer(h)
  BY <1>7, PeerIInv
<1>8. CASE UNCHANGED vars
  BY <1>8 DEF vars, other, guest, IInv, TypeOK, HostOK, GuestOK, CallOK, AskedIsNeeded, Needs,
              ReportedIsReady, CanRead, CanWrite, ZeroMeansTimedOut, IsSelect
<1> QED
  BY <1>1, <1>2, <1>3, <1>4, <1>5, <1>6, <1>7, <1>8 DEF Next

(* The inductive invariant holds in every reachable state.                 *)
THEOREM Inductive == Spec => []IInv
  BY InitIInv, StepIInv, PTL DEF Spec

(* Type correctness of the calls, their answers and the host's queues.     *)
THEOREM TypeCorrect == Spec => []TypeOK
<1>1. IInv => TypeOK
  BY DEF IInv
<1> QED
  BY <1>1, Inductive, PTL

(* What doPoll or doSelect reports as readable or writable was asked for   *)
(* and does not block, until the guest has read or written it.             *)
THEOREM ReportsHold == Spec => []ReportedIsReady
<1>1. IInv => ReportedIsReady
  BY DEF IInv
<1> QED
  BY <1>1, Inductive, PTL

(* An answer of 0 from a wait that nothing cut short comes after the whole *)
(* time-out, and select has no time left to report.                        *)
THEOREM ZeroIsTimeout == Spec => []ZeroMeansTimedOut
<1>1. IInv => ZeroMeansTimedOut
  BY DEF IInv
<1> QED
  BY <1>1, Inductive, PTL
=============================================================================
