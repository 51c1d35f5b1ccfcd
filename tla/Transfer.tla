------------------------------ MODULE Transfer ------------------------------
(***************************************************************************)
(* The data phases of MTP_Teensy.cpp on a Teensy 4: the device loop that   *)
(* takes a command, SendObjectInfo, SendObject, GetObject and              *)
(* GetPartialObject packet by packet, their timeouts, the zero length      *)
(* packet that ends a transfer, and a host that pauses, stops or cancels.  *)
(*                                                                         *)
(* The unit of length is the 12 bytes of a container's header, so that a   *)
(* container without parameters is one unit and Packet is the size of a    *)
(* bulk packet.  Only a packet of one unit has the length of a command     *)
(* (12 to 32 bytes).  The data of an object of n units is Bytes(n), and    *)
(* what a command asks for travels with it instead of being looked up.     *)
(***************************************************************************)
EXTENDS Naturals, Sequences, FiniteSets

CONSTANTS
  Packet,      \* units in a bulk packet
  InfoLen,     \* units of the dataset of SendObjectInfo
  Sizes,       \* sizes of objects
  Offsets,     \* offsets a host gives to GetPartialObject
  MaxTrouble   \* pauses, stops, failed writes and cancels in one behaviour

ASSUME PacketAssumption == Packet \in Nat \ {0, 1}
ASSUME SizesAssumption  == Sizes \subseteq Nat /\ Offsets \subseteq Nat
ASSUME BoundsAssumption == InfoLen \in Nat \ {0} /\ MaxTrouble \in Nat

VARIABLES
  ask,         \* the host's transaction, NoAsk between two of them
  rest,        \* packets of it the host has not sent yet
  gone,        \* the host has cancelled it
  granted,     \* {n} when SendObjectInfo got a handle for n units, else {}
  out,         \* packets in the pipe to the device
  in,          \* packets the host got since it asked
  status,      \* usb_mtp_status
  rx,          \* what is left in receive_buffer, <<>> for data == NULL
  tx,          \* what is in transmit_buffer, <<>> for data == NULL
  open,        \* write_transfer_open
  pc,          \* where the device is
  cmd,         \* the container being handled
  pos,         \* units done of the data phase
  size,        \* units in it
  ret,         \* return_code
  id,          \* whether object_id_ names an object
  writing,     \* file_ is open on that object, for writing
  file,        \* what was written to it
  trouble      \* what went wrong so far

hostVars   == <<ask, rest, gone, granted>>
storeVars  == <<id, writing, file>>
handler    == <<cmd, pos, size, ret>>
transmitter == <<tx, open, in>>
vars == <<hostVars, out, status, rx, transmitter, pc, handler, storeVars, trouble>>

-----------------------------------------------------------------------------
(* What travels.                                                           *)

OK        == "0x01"
Cancelled == "cancelled"

Byte(i)  == [t |-> "byte", v |-> i]
Bytes(n) == [i \in 1 .. n |-> Byte(i)]
Data(n)  == [t |-> "data", v |-> n]
Response(code, v) == [t |-> code, v |-> v]
Codes    == {"ok", "failed", "full", "unsupported"}

Command(op, n, off, num) == [t |-> op, n |-> n, off |-> off, num |-> num]
NoAsk == Command("none", 0, 0, 0)

Lesser(a, b) == IF a < b THEN a ELSE b

\* A stream cut into packets: all full but the last, which may be empty.
Piece(s, i) == SubSeq(s, (i - 1) * Packet + 1, Lesser(i * Packet, Len(s)))
Packets(s)  == [i \in 1 .. (Len(s) \div Packet) + 1 |-> Piece(s, i)]

\* A host sends no empty packet: usb_mtp_recv gives none to the code.
SentPackets(s) == [i \in 1 .. (Len(s) + Packet - 1) \div Packet |-> Piece(s, i)]

InfoSet == [i \in 1 .. InfoLen |-> Byte(0)]

-----------------------------------------------------------------------------
(* The host.                                                               *)

HostAsks(c, packets) ==
  /\ ask = NoAsk
  /\ ask' = c
  /\ rest' = packets
  /\ out' = Append(out, <<c>>)
  /\ UNCHANGED <<gone, granted, status, rx, transmitter, pc, handler, storeVars, trouble>>

AskGetObject == \E n \in Sizes : HostAsks(Command("GetObject", n, 0, 0), <<>>)

AskGetPartialObject ==
  \E n \in Sizes, off \in Offsets, num \in Sizes :
    /\ off <= n
    /\ HostAsks(Command("GetPartialObject", n, off, num), <<>>)

AskSendObjectInfo ==
  \E n \in Sizes :
    HostAsks(Command("SendObjectInfo", n, 0, 0),
             SentPackets(<<Data(InfoLen)>> \o InfoSet))

\* Of an object the host got a handle for; again, if it failed the first time.
AskSendObject ==
  \E n \in granted :
    HostAsks(Command("SendObject", n, 0, 0),
             SentPackets(<<Data(n)>> \o Bytes(n)))

\* Any command without a data phase of the host's.
AskOther == HostAsks(Command("Other", 0, 0, 0), <<>>)

HostSends ==
  /\ rest # <<>>
  /\ out' = Append(out, Head(rest))
  /\ rest' = Tail(rest)
  /\ UNCHANGED <<ask, gone, granted, status, rx, transmitter, pc, handler, storeVars, trouble>>

\* The host stops sending and waits to be told.
HostStops ==
  /\ rest # <<>>
  /\ trouble < MaxTrouble
  /\ rest' = <<>>
  /\ trouble' = trouble + 1
  /\ UNCHANGED <<ask, gone, granted, out, status, rx, transmitter, pc, handler, storeVars>>

Answer == in[Len(in)][1]
IsAnswered == in # <<>> /\ in[Len(in)] # <<>> /\ Answer.t \in Codes

HostDone ==
  /\ ask # NoAsk
  /\ IF gone THEN status = OK ELSE IsAnswered /\ rest = <<>>
  /\ ask' = NoAsk
  /\ in' = <<>>
  /\ gone' = FALSE
  /\ granted' = IF gone THEN {}
                ELSE CASE ask.t = "SendObjectInfo" ->
                            IF Answer.t = "ok" THEN {ask.n} ELSE {}
                       [] ask.t = "SendObject" ->
                            IF Answer.t = "ok" THEN {} ELSE granted
                       [] OTHER -> granted
  /\ UNCHANGED <<rest, out, status, rx, tx, open, pc, handler, storeVars, trouble>>

\* A control request, noted by an interrupt; the pipes are flushed.  Not while
\* a data phase's header waits in transmit_buffer for the first packet: the
\* abort of GetObject leaves it there, in front of the next answer.
HeaderWaits ==
  /\ in = <<>>
  /\ pc = "get_header" \/ (pc = "get" /\ pos < size)

HostCancels ==
  /\ ask # NoAsk
  /\ ~ gone
  /\ ~ HeaderWaits
  /\ trouble < MaxTrouble
  /\ trouble' = trouble + 1
  /\ gone' = TRUE
  /\ status' = Cancelled
  /\ rest' = <<>>
  /\ out' = <<>>
  /\ UNCHANGED <<ask, granted, rx, transmitter, pc, handler, storeVars>>

-----------------------------------------------------------------------------
(* Bulk packets.                                                           *)

\* receive_bulk: it gets a packet, or nothing in time, or nothing because of
\* the status.  A pause of the host is longer than the 100 ms of a read and
\* shorter than the 250 ms SendObject waits for each packet it throws away;
\* it comes between two packets of an object's data.
CanReceive == status = OK /\ out # <<>>

HostSilent == out = <<>> /\ rest = <<>>

\* transmit_bulk of s.
Transmit(s) ==
  /\ tx' = <<>>
  /\ IF status = OK
       THEN in' = Append(in, s) /\ open' = (s # <<>> /\ Len(s) % Packet = 0)
       ELSE UNCHANGED <<in, open>>

\* write of one unit.
Write(u) ==
  IF Len(tx) + 1 < Packet
    THEN tx' = Append(tx, u) /\ UNCHANGED <<in, open>>
    ELSE Transmit(Append(tx, u))

\* write_finish without the empty packet.
FaultyWriteFinish ==
  IF tx = <<>> THEN UNCHANGED transmitter ELSE Transmit(tx)

\* write_finish: what is left, or the packet that ends a transfer.
WriteFinish ==
  IF tx = <<>> /\ ~ open THEN UNCHANGED transmitter ELSE Transmit(tx)

-----------------------------------------------------------------------------
(* The device.                                                             *)

HostKeeps == UNCHANGED <<ask, rest, gone, granted, trouble>>

Handlers == [SendObjectInfo   |-> "info_header",
             SendObject       |-> "send_header",
             GetObject        |-> "get_header",
             GetPartialObject |-> "get_header",
             Other            |-> "respond"]

\* loop takes a packet.  One that does not have a command's length is dropped;
\* one that is no command is refused.
Loop ==
  /\ pc = "loop"
  /\ CanReceive
  /\ out' = Tail(out)
  /\ rx' = <<>>
  /\ IF Len(Head(out)) # 1
       THEN pc' = "reset" /\ UNCHANGED handler
       ELSE /\ cmd' = Head(out)[1]
            /\ pos' = 0
            /\ size' = 0
            /\ IF cmd'.t \in DOMAIN Handlers
                 THEN pc' = Handlers[cmd'.t] /\ ret' = Response("ok", 0)
                 ELSE pc' = "respond" /\ ret' = Response("unsupported", 0)
  /\ HostKeeps /\ UNCHANGED <<status, transmitter, storeVars>>

\* The end of loop, when it forgets to set the status back.
FaultyLoopEnds ==
  /\ pc = "reset" \/ (pc = "loop" /\ status # OK)
  /\ status' = status
  /\ pc' = "loop"
  /\ HostKeeps /\ UNCHANGED <<out, rx, transmitter, handler, storeVars>>

\* The end of loop, also when it received nothing.
LoopEnds ==
  /\ pc = "reset" \/ (pc = "loop" /\ status # OK)
  /\ status' = OK
  /\ pc' = "loop"
  /\ HostKeeps /\ UNCHANGED <<out, rx, transmitter, handler, storeVars>>

\* return_code, unless the host cancelled.
Respond ==
  /\ pc = "respond"
  /\ IF status = OK
       THEN Write(ret) /\ pc' = "respond_finish"
       ELSE pc' = "reset" /\ UNCHANGED transmitter
  /\ HostKeeps /\ UNCHANGED <<out, status, rx, handler, storeVars>>

RespondFinish ==
  /\ pc = "respond_finish"
  /\ WriteFinish
  /\ pc' = "reset"
  /\ HostKeeps /\ UNCHANGED <<out, status, rx, handler, storeVars>>

\* readDataPhaseHeader of SendObjectInfo and SendObject: anything but a data
\* container is refused, with what came behind it left in receive_buffer.
ReadHeader ==
  /\ pc \in {"info_header", "send_header"}
  /\ CanReceive
  /\ out' = Tail(out)
  /\ rx' = Tail(Head(out))
  /\ IF Head(out)[1].t = "data"
       THEN /\ size' = IF pc = "info_header" THEN InfoLen ELSE Head(out)[1].v
            /\ pc' = IF pc = "info_header" THEN "info" ELSE "send"
            /\ ret' = ret
       ELSE /\ size' = size
            /\ pc' = "respond"
            /\ ret' = Response("failed", 0)
  /\ HostKeeps /\ UNCHANGED <<status, transmitter, cmd, pos, storeVars>>

\* The next packet of a data phase.
Receive ==
  /\ pc \in {"info", "send", "drain"}
  /\ rx = <<>>
  /\ pos < size
  /\ CanReceive
  /\ rx' = Head(out)
  /\ out' = Tail(out)
  /\ HostKeeps /\ UNCHANGED <<status, transmitter, pc, handler, storeVars>>

\* SendObject gives up without throwing the rest of the data away.
FaultyGiveUp ==
  /\ pc' = IF pc \in {"info_header", "info", "send_header"} THEN "respond" ELSE "close"
  /\ ret' = Response("failed", 0)

\* Where a handler goes on when receive_bulk returns false.
GiveUp ==
  /\ pc' = CASE pc \in {"info_header", "info", "send_header"} -> "respond"
             [] pc = "send"  -> "drain"
             [] pc = "drain" -> "close"
  /\ ret' = Response("failed", 0)

Timeout ==
  /\ pc \in {"info_header", "send_header"}
       \/ (pc \in {"info", "send", "drain"} /\ rx = <<>> /\ pos < size)
  /\ status # OK \/ HostSilent
  /\ GiveUp
  /\ HostKeeps
  /\ UNCHANGED <<out, status, rx, transmitter, cmd, pos, size, storeVars>>

\* The host goes on after the pause.
Pause ==
  /\ pc = "send" /\ rx = <<>> /\ pos < size
  /\ out = <<>> /\ rest # <<>>
  /\ trouble < MaxTrouble
  /\ trouble' = trouble + 1
  /\ GiveUp
  /\ UNCHANGED <<hostVars, out, status, rx, transmitter, cmd, pos, size, storeVars>>

\* SendObjectInfo reads its dataset.
ReadInfo ==
  /\ pc = "info" /\ rx # <<>> /\ pos < size
  /\ pos' = pos + Lesser(Len(rx), size - pos)
  /\ rx' = SubSeq(rx, pos' - pos + 1, Len(rx))
  /\ HostKeeps /\ UNCHANGED <<out, status, transmitter, pc, cmd, size, ret, storeVars>>

\* It answers: the store is too full, the object cannot be created, before or
\* after file_ was closed for it, or file_ is open on the new object and the
\* host gets its handle.
CreateObject ==
  /\ pc = "info" /\ pos >= size
  /\ pc' = "respond"
  /\ \/ ret' = Response("full", 0) /\ UNCHANGED storeVars
     \/ /\ ret' = Response("unsupported", 0)
        /\ id' = FALSE /\ writing' \in {writing, FALSE} /\ file' = file
     \/ /\ ret' = Response("ok", 0)
        /\ id' = TRUE /\ writing' = TRUE /\ file' = <<>>
  /\ HostKeeps /\ UNCHANGED <<out, status, rx, transmitter, cmd, pos, size>>

\* SendObject writes what is in receive_buffer.
Cut == Lesser(Len(rx), size)

WriteData ==
  /\ pc = "send" /\ rx # <<>> /\ pos < size
  /\ writing
  /\ file' = file \o SubSeq(rx, 1, Cut)
  /\ pos' = pos + Cut
  /\ rx' = SubSeq(rx, Cut + 1, Len(rx))
  /\ HostKeeps
  /\ UNCHANGED <<out, status, transmitter, pc, cmd, size, ret, id, writing>>

\* The store refuses the data, and nobody notes it.
FaultyWriteFails ==
  /\ pc = "send" /\ rx # <<>> /\ pos < size
  /\ IF writing
       THEN trouble < MaxTrouble /\ trouble' = trouble + 1
       ELSE trouble' = trouble
  /\ pc' = "drain"
  /\ UNCHANGED <<hostVars, out, status, rx, transmitter, handler, storeVars>>

\* The store refuses the data, or file_ is not open.
WriteFails ==
  /\ pc = "send" /\ rx # <<>> /\ pos < size
  /\ IF writing
       THEN trouble < MaxTrouble /\ trouble' = trouble + 1
       ELSE trouble' = trouble
  /\ ret' = Response("failed", 0)
  /\ pc' = "drain"
  /\ UNCHANGED <<hostVars, out, status, rx, transmitter, cmd, pos, size, storeVars>>

\* After either, SendObject throws the rest of the data away.
Drain ==
  /\ pc = "drain" /\ rx # <<>> /\ pos < size
  /\ pos' = pos + Len(rx)
  /\ rx' = <<>>
  /\ HostKeeps
  /\ UNCHANGED <<out, status, transmitter, pc, cmd, size, ret, storeVars>>

\* It closes the file, and forgets the object if all went well.
CloseObject ==
  /\ pc = "close" \/ (pc \in {"send", "drain"} /\ pos >= size)
  /\ writing' = FALSE
  /\ id' = (id /\ ret.t # "ok")
  /\ pc' = "respond"
  /\ HostKeeps /\ UNCHANGED <<out, status, rx, transmitter, handler, file>>

\* GetObject and GetPartialObject: the object's size and the header.
ToSend ==
  IF cmd.t = "GetObject" THEN cmd.n ELSE Lesser(cmd.num, cmd.n - cmd.off)

GetHeader ==
  /\ pc = "get_header"
  /\ size' = ToSend
  /\ pos' = cmd.off
  /\ Write(Data(ToSend))
  /\ pc' = "get"
  /\ HostKeeps /\ UNCHANGED <<out, status, rx, cmd, ret, storeVars>>

\* All that is left, whether transmit_buffer has room for it or not.
FaultyFits == size - pos

\* to_copy: as much as fits into transmit_buffer.
Fits == Lesser(Packet - Len(tx), size - pos)

\* Their loop.  Reading opens file_ on the object that is read.
FillPacket ==
  /\ pc = "get" /\ pos < size
  /\ status = OK
  /\ tx' = tx \o SubSeq(Bytes(cmd.n), pos + 1, pos + Fits)
  /\ pos' = pos + Fits
  /\ pc' = IF Len(tx') >= Packet THEN "get_transmit" ELSE "get"
  /\ writing' = FALSE
  /\ HostKeeps /\ UNCHANGED <<in, open, out, status, rx, cmd, size, ret, id, file>>

TransmitPacket ==
  /\ pc = "get_transmit"
  /\ Transmit(tx)
  /\ pc' = "get"
  /\ HostKeeps /\ UNCHANGED <<out, status, rx, handler, storeVars>>

\* return 0: no response.
AbortGet ==
  /\ pc = "get" /\ pos < size
  /\ status # OK
  /\ pc' = "reset"
  /\ HostKeeps /\ UNCHANGED <<out, status, rx, transmitter, handler, storeVars>>

\* GetPartialObject's response has the number of bytes sent.
GetFinish ==
  /\ pc = "get" /\ pos >= size
  /\ WriteFinish
  /\ ret' = Response("ok", IF cmd.t = "GetPartialObject" THEN size ELSE 0)
  /\ pc' = "respond"
  /\ HostKeeps /\ UNCHANGED <<out, status, rx, cmd, pos, size, storeVars>>

-----------------------------------------------------------------------------
Init ==
  /\ ask = NoAsk /\ rest = <<>> /\ gone = FALSE /\ granted = {}
  /\ out = <<>> /\ in = <<>> /\ status = OK
  /\ rx = <<>> /\ tx = <<>> /\ open = FALSE
  /\ pc = "loop" /\ cmd = NoAsk /\ pos = 0 /\ size = 0 /\ ret = Response("ok", 0)
  /\ id = FALSE /\ writing = FALSE /\ file = <<>>
  /\ trouble = 0

Host ==
  \/ AskGetObject \/ AskGetPartialObject \/ AskSendObjectInfo \/ AskSendObject \/ AskOther
  \/ HostSends \/ HostStops \/ HostDone \/ HostCancels

Device ==
  \/ Loop \/ LoopEnds \/ Respond \/ RespondFinish
  \/ ReadHeader \/ Receive \/ Timeout \/ Pause
  \/ ReadInfo \/ CreateObject
  \/ WriteData \/ WriteFails \/ Drain \/ CloseObject
  \/ GetHeader \/ FillPacket \/ TransmitPacket \/ AbortGet \/ GetFinish

Next == Host \/ Device

\* The program calls loop again and again and every wait of the device ends;
\* the host either sends or stops, and reads the answer.
Spec ==
  /\ Init /\ [][Next]_vars
  /\ WF_vars(Device) /\ WF_vars(HostSends) /\ WF_vars(HostDone)

-----------------------------------------------------------------------------
(* Properties.                                                             *)

Units == [t : {"byte", "data"} \cup Codes, v : Nat]

\* Everything stays in its type; transmit_buffer is never filled beyond a
\* packet, and is sent as soon as it is full.
TypeOK ==
  /\ rest \in Seq(Seq(Units)) /\ in \in Seq(Seq(Units))
  /\ gone \in BOOLEAN /\ open \in BOOLEAN /\ id \in BOOLEAN /\ writing \in BOOLEAN
  /\ granted \subseteq Sizes
  /\ status \in {OK, Cancelled}
  /\ rx \in Seq(Units) /\ tx \in Seq(Units) /\ file \in Seq(Units)
  /\ Len(tx) <= Packet /\ (Len(tx) = Packet => pc = "get_transmit")
  /\ pos \in Nat /\ size \in Nat
  /\ ret \in [t : Codes, v : Nat]
  /\ trouble \in 0 .. MaxTrouble

\* The data phase a host expects.
PartialSize(c) == Lesser(c.num, c.n - c.off)
Expected(c) ==
  CASE c.t = "GetObject" -> Packets(<<Data(c.n)>> \o Bytes(c.n))
    [] c.t = "GetPartialObject" ->
         Packets(<<Data(PartialSize(c))>>
                   \o SubSeq(Bytes(c.n), c.off + 1, c.off + PartialSize(c)))
    [] OTHER -> <<>>

IsPrefixOf(s, t) == Len(s) <= Len(t) /\ s = SubSeq(t, 1, Len(s))

\* What the host gets for a transaction is the data phase it expects, in
\* order, ended by a packet that is not full, and one response behind it;
\* between transactions it gets nothing (write, write_finish, transmit_bulk).
AnswerInOrder ==
  IF ask = NoAsk
    THEN in = <<>>
    ELSE \/ IsPrefixOf(in, Expected(ask))
         \/ \E code \in Codes, n \in 0 .. ask.n :
              in = Append(Expected(ask), <<Response(code, n)>>)

\* When the device calls a SendObject successful, the file has every byte the
\* host sent, in order and once (SendObject, for all pauses and failures).
SentIsStored ==
  (ask.t = "SendObject" /\ IsAnswered /\ Answer.t = "ok") => file = Bytes(ask.n)

\* A transaction leaves nothing behind it that a later one would take for its
\* own: no packet, nothing in the two buffers (the loops that consume the
\* rest of the data, the aborts).
NothingLeft ==
  (pc = "loop" /\ ask = NoAsk) => out = <<>> /\ rx = <<>> /\ tx = <<>>

\* Every transaction ends, by a response or by the status the host waits for
\* after a cancel, whatever the host and the store do meanwhile.
Answered == (ask # NoAsk) ~> (ask = NoAsk)

\* src/src/MTP_Teensy.cpp:610: the response to GetPartialObject has one
\* parameter, the actual number of bytes sent.
CountsWhatItSent ==
  (ask.t = "GetPartialObject" /\ IsAnswered /\ ~ gone) =>
    Answer.v = Cardinality({p \in (1 .. Len(in)) \X (1 .. Packet) :
                              p[2] <= Len(in[p[1]]) /\ in[p[1]][p[2]].t = "byte"})
=============================================================================
