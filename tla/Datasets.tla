------------------------------ MODULE Datasets ------------------------------
(***************************************************************************)
(* The commands that answer with a dataset.  Each computes its length for  *)
(* the header of the data phase, writes it field by field into a packet    *)
(* that is transmitted when it is full, and finishes it; then loop, or the *)
(* interval timer before the first call of loop, sends the response.  The  *)
(* host may cancel between any two steps.                                  *)
(*                                                                         *)
(* A field is its length in bytes, a packet its length and whose parts are *)
(* in it; lists and names are what a command's record says.                *)
(***************************************************************************)
EXTENDS Integers, Sequences, SequencesExt

CONSTANTS
  Packet,      \* transmit_buffer.size, and transmit_packet_size_mask + 1: 64 or 512
  NameLengths, \* units in a file's or a storage's name
  ListLengths, \* handles or storages in a list
  MaxAsks,     \* bound: commands in one behaviour
  MaxCancels   \* bound: cancels in one behaviour

ASSUME PacketAssumption == Packet \in Nat /\ Packet >= 64
ASSUME LengthsAssumption == NameLengths \subseteq Nat /\ ListLengths \subseteq Nat

VARIABLES
  ask,         \* the host's command, NoAsk between two of them
  gone,        \* the host cancelled it
  in,          \* packets the host got since it asked
  status,      \* usb_mtp_status
  looping,     \* loop was called: g_pmtpd_interval is nullptr
  pc,          \* "idle", "write", "respond", "finish", "reset"
  announced,   \* the length in the header of the data phase, 0 without one,
               \* Untaken until the device takes the command
  fields,      \* lengths the handler has yet to write
  tx,          \* transmit_buffer: [len, parts], NoBuffer for data == NULL
  open,        \* write_transfer_open
  asks, cancels

host   == <<ask, gone, asks, cancels>>
device == <<looping, pc, announced, fields>>
transmitter == <<tx, open, in>>
vars == <<host, device, transmitter, status>>

HeaderSize == 12     \* of a container without parameters
Untaken == -1
OK        == "0x01"
Cancelled == "cancelled"

-----------------------------------------------------------------------------
(* Datasets: the length announced, and the lengths written.                *)

Dataset(size, writes) == [size |-> size, writes |-> writes, params |-> 0]
NoDataset(params) == [size |-> -1, writes |-> <<>>, params |-> params]
Times(n, x) == [i \in 1 .. n |-> x]

writestringlen(n) == IF n = 0 THEN 1 ELSE n * 2 + 2 + 1

writestring(n) == IF n = 0 THEN <<1>> ELSE <<1>> \o Times(n + 1, 2)

\* A date is fifteen units, or none where the file system knows none.
DateLengths == {0, 15}

GetObjectInfo(c) ==
  Dataset(4 + 2 + 2 + 4 + 2 + 4 + 4 + 4 + 4 + 4 + 4 + 4 + 2 + 4 + 4
            + writestringlen(c.name) + writestringlen(c.created)
            + writestringlen(c.modified) + writestringlen(0),
          <<4, 2, 2, 4, 2, 4, 4, 4, 4, 4, 4, 4, 2, 4, 4>>
            \o writestring(c.name) \o writestring(c.created)
            \o writestring(c.modified) \o writestring(0))

GetStorageIDs(c) == Dataset(4 + c.list * 4, <<4>> \o Times(c.list, 4))

\* A storage that is not there has no name and no dataset.
GetStorageInfo(c) ==
  IF c.list = 0 THEN NoDataset(0)
  ELSE Dataset(2 + 2 + 2 + 8 + 8 + 4 + writestringlen(c.name) + writestringlen(0),
               <<2, 2, 2, 8, 8, 4>> \o writestring(c.name) \o writestring(0))

\* Counted in one pass, listed in a second; none for a format.
GetObjectHandles(c) ==
  IF c.format THEN Dataset(4, <<4>>) ELSE Dataset(4 + c.list * 4, <<4>> \o Times(c.list, 4))

GetNumObjects(c) == NoDataset(IF c.format THEN 0 ELSE 1)

MTP_NAME  == 6      \* "Teensy"
MTP_MANUF == 4      \* "PJRC"
MTP_MODEL == 6      \* "Teensy"
Version   == 14     \* "1.60 / MTP 1.0"
SerialNumber == 9

GetDevicePropValue(c) ==
  CASE c.property = "name" -> Dataset(writestringlen(MTP_NAME), writestring(MTP_NAME))
    [] OTHER -> Dataset(0, <<>>)

GetDevicePropDesc(c) ==
  CASE c.property = "name" ->
         Dataset(5 + writestringlen(MTP_NAME) * 2 + 1,
                 <<2, 2, 1>> \o writestring(MTP_NAME) \o writestring(MTP_NAME) \o <<1>>)
    [] OTHER -> Dataset(0, <<>>)

Properties == {"storage", "format", "protection", "size", "name", "created", "modified",
               "parent", "uid", "other"}

\* The default value of a property decides how long its description is.
GetObjectPropDesc(c) ==
  CASE c.property \in {"storage", "parent"} ->
         Dataset(2 + 2 + 1 + 4 + 4 + 1, <<2, 2, 1, 4, 4, 1>>)
    [] c.property \in {"format", "protection"} ->
         Dataset(2 + 2 + 1 + 2 + 4 + 1, <<2, 2, 1, 2, 4, 1>>)
    [] c.property = "size" ->
         Dataset(2 + 2 + 1 + 8 + 4 + 1, <<2, 2, 1, 8, 4, 1>>)
    [] c.property \in {"name", "created", "modified"} ->
         Dataset(2 + 2 + 1 + 1 + 4 + 1, <<2, 2, 1, 1, 4, 1>>)
    [] c.property = "uid" ->
         Dataset(2 + 2 + 1 + 8 + 8 + 4 + 1, <<2, 2, 1, 8, 8, 4, 1>>)
    [] OTHER -> Dataset(0, <<>>)

GetObjectPropValue(c) ==
  CASE c.property \in {"storage", "parent"} -> Dataset(4, <<4>>)
    [] c.property \in {"format", "protection"} -> Dataset(2, <<2>>)
    [] c.property = "size" -> Dataset(8, <<4, 4>>)
    [] c.property = "name" -> Dataset(writestringlen(c.name), writestring(c.name))
    [] c.property = "created" -> Dataset(writestringlen(c.created), writestring(c.created))
    [] c.property = "modified" -> Dataset(writestringlen(c.modified), writestring(c.modified))
    [] c.property = "uid" -> Dataset(4 + 4 + 4 + 4, <<4, 4, 4, 4>>)
    [] OTHER -> Dataset(0, <<>>)

GetObjectPropsSupported == Dataset(4 + 20, <<4, 20>>)

GetDeviceInfo ==
  Dataset(2 + 4 + 2 + writestringlen(19) + 2 + 4 + 42 + 4 + 18 + 4 + 2 + 4 + 4 + 2 * 2
            + writestringlen(MTP_MANUF) + writestringlen(MTP_MODEL)
            + writestringlen(Version) + writestringlen(SerialNumber),
          <<2, 4, 2>> \o writestring(19) \o <<2, 4, 42, 4, 18, 4, 2, 4, 4, 2, 2>>
            \o writestring(MTP_MANUF) \o writestring(MTP_MODEL)
            \o writestring(Version) \o writestring(SerialNumber))

-----------------------------------------------------------------------------
(* Commands.                                                               *)

Command(op, list, name, created, modified, property, format) ==
  [op |-> op, list |-> list, name |-> name, created |-> created, modified |-> modified,
   property |-> property, format |-> format]
Plain(op) == Command(op, 0, 0, 0, 0, "other", FALSE)
NoAsk == Plain("none")

Commands ==
  { Plain(op) : op \in {"GetDeviceInfo", "GetObjectPropsSupported", "Other"} }
  \cup { Command("GetObjectInfo", 0, n, c, m, "other", FALSE) :
           n \in NameLengths, c \in DateLengths, m \in DateLengths }
  \cup { Command(op, n, 0, 0, 0, "other", f) :
           op \in {"GetObjectHandles", "GetNumObjects"}, n \in ListLengths, f \in BOOLEAN }
  \cup { Command("GetStorageIDs", n, 0, 0, 0, "other", FALSE) : n \in ListLengths }
  \cup { Command("GetStorageInfo", n, s, 0, 0, "other", FALSE) : n \in {0, 1}, s \in NameLengths }
  \cup { Command(op, 0, 0, 0, 0, p, FALSE) :
           op \in {"GetDevicePropValue", "GetDevicePropDesc"}, p \in {"name", "other"} }
  \cup { Command("GetObjectPropDesc", 0, 0, 0, 0, p, FALSE) : p \in Properties }
  \cup { Command("GetObjectPropValue", 0, n, d, d, p, FALSE) :
           n \in NameLengths, d \in DateLengths, p \in Properties }

Answered(c) ==
  CASE c.op = "GetDeviceInfo" -> GetDeviceInfo
    [] c.op = "GetObjectPropsSupported" -> GetObjectPropsSupported
    [] c.op = "GetObjectInfo" -> GetObjectInfo(c)
    [] c.op = "GetObjectHandles" -> GetObjectHandles(c)
    [] c.op = "GetNumObjects" -> GetNumObjects(c)
    [] c.op = "GetStorageIDs" -> GetStorageIDs(c)
    [] c.op = "GetStorageInfo" -> GetStorageInfo(c)
    [] c.op = "GetDevicePropValue" -> GetDevicePropValue(c)
    [] c.op = "GetDevicePropDesc" -> GetDevicePropDesc(c)
    [] c.op = "GetObjectPropDesc" -> GetObjectPropDesc(c)
    [] c.op = "GetObjectPropValue" -> GetObjectPropValue(c)
    [] OTHER -> NoDataset(0)

\* The timer is too busy for the others.
TimerAnswers == {"GetDeviceInfo", "GetDevicePropDesc", "GetStorageIDs", "GetStorageInfo",
                 "GetObjectPropsSupported"}

Handled(c) == IF looping \/ c.op \in TimerAnswers THEN Answered(c) ELSE NoDataset(0)

\* Without write_finish: what the host does not know yet is in transmit_buffer.
Unfinished(c) ==
  c.op \in {"GetDevicePropValue", "GetDevicePropDesc"} /\ Handled(c).size = 0

-----------------------------------------------------------------------------
(* Bulk packets.  Parts are told apart by the command they belong to.      *)

NoBuffer == [len |-> 0, parts |-> {}]
Part(kind) == <<kind, asks>>

\* What usb_mtp_send takes: nothing once the host has cancelled.
Sent(full) ==
  IF status = OK
    THEN in' = in \o full /\ open' = (Last(full).len > 0 /\ Last(full).len % Packet = 0)
    ELSE UNCHANGED <<in, open>>

FaultyTransmit(full) ==      \* Mutant: what a cancel stops stays in the buffer
  /\ tx' = IF status = OK THEN NoBuffer ELSE Last(full)
  /\ Sent(full)

\* transmit_bulk, once for each packet.
Transmit(full) == tx' = NoBuffer /\ Sent(full)

\* write of n bytes fills packets, the first behind what is there.
Write(kind, n) ==
  LET parts == tx.parts \cup {Part(kind)}
      Filled(i) == [len |-> Packet, parts |-> IF i = 1 THEN parts ELSE {Part(kind)}]
      full == (tx.len + n) \div Packet
      rest == (tx.len + n) % Packet
  IN  IF full = 0
        THEN tx' = [len |-> tx.len + n, parts |-> parts] /\ UNCHANGED <<in, open>>
        ELSE /\ tx' = IF rest = 0 THEN NoBuffer ELSE [len |-> rest, parts |-> {Part(kind)}]
             /\ Sent([i \in 1 .. full |-> Filled(i)])

FaultyFinish ==              \* Mutant: no empty packet
  IF tx = NoBuffer THEN UNCHANGED transmitter ELSE Transmit(<<tx>>)

\* write_finish: what is left, or the empty packet behind a full one.
WriteFinish ==
  IF tx = NoBuffer /\ ~open THEN UNCHANGED transmitter ELSE Transmit(<<tx>>)

-----------------------------------------------------------------------------
(* The device.                                                             *)

Init ==
  /\ ask = NoAsk /\ gone = FALSE /\ asks = 0 /\ cancels = 0
  /\ status = OK /\ looping = FALSE
  /\ pc = "idle" /\ announced = Untaken /\ fields = <<>>
  /\ tx = NoBuffer /\ open = FALSE /\ in = <<>>

\* The command waits in the pipe until the device looks.
Waiting == ask # NoAsk /\ ~gone /\ announced = Untaken

\* The program's first call of loop ends the timer.
StartLoop ==
  /\ ~looping /\ pc = "idle"
  /\ looping' = TRUE
  /\ UNCHANGED <<host, transmitter, status, pc, announced, fields>>

\* receive_bulk, and writeDataPhaseHeader of the handlers that have one.
Receive ==
  /\ pc = "idle" /\ status = OK
  /\ Waiting
  /\ LET dataset == Handled(ask)
     IN  IF dataset.size < 0
           THEN pc' = "respond" /\ announced' = 0 /\ fields' = <<>> /\ UNCHANGED transmitter
           ELSE /\ Write("data", HeaderSize)
                /\ announced' = HeaderSize + dataset.size
                /\ fields' = dataset.writes
                /\ pc' = IF Unfinished(ask) THEN "respond" ELSE "write"
  /\ UNCHANGED <<host, looping, status>>

WriteField ==
  /\ pc = "write" /\ fields # <<>>
  /\ Write("data", Head(fields))
  /\ fields' = Tail(fields)
  /\ UNCHANGED <<host, looping, pc, announced, status>>

FinishDataset ==
  /\ pc = "write" /\ fields = <<>>
  /\ WriteFinish
  /\ pc' = "respond"
  /\ UNCHANGED <<host, looping, announced, fields, status>>

\* loop's response follows what is in transmit_buffer, unless the host cancelled.
Respond ==
  /\ pc = "respond" /\ looping
  /\ IF status = OK
       THEN Write("response", HeaderSize + 4 * Handled(ask).params) /\ pc' = "finish"
       ELSE UNCHANGED transmitter /\ pc' = "reset"
  /\ UNCHANGED <<host, looping, announced, fields, status>>

RespondFinish ==
  /\ pc = "finish"
  /\ WriteFinish
  /\ pc' = "reset"
  /\ UNCHANGED <<host, looping, announced, fields, status>>

\* The timer's response takes transmit_buffer over.
TimerResponds ==
  /\ pc = "respond" /\ ~looping
  /\ Transmit(<<[len |-> HeaderSize, parts |-> {Part("response")}]>>)
  /\ pc' = "idle"
  /\ UNCHANGED <<host, looping, announced, fields, status>>

FaultyLoopEnds ==            \* Mutant: the status is set back only after a command
  /\ looping
  /\ pc = "reset"
  /\ status' = OK
  /\ pc' = "idle"
  /\ UNCHANGED <<host, looping, announced, fields, transmitter>>

\* The end of loop, also when it received nothing.
LoopEnds ==
  /\ looping
  /\ pc = "reset" \/ (pc = "idle" /\ status # OK)
  /\ status' = OK
  /\ pc' = "idle"
  /\ UNCHANGED <<host, looping, announced, fields, transmitter>>

-----------------------------------------------------------------------------
(* The host.                                                               *)

HostAsks ==
  /\ ask = NoAsk /\ asks < MaxAsks
  /\ ask' \in Commands
  /\ asks' = asks + 1
  /\ announced' = Untaken
  /\ UNCHANGED <<gone, cancels, looping, pc, fields, transmitter, status>>

IsResponse(packet) == Part("response") \in packet.parts
HasResponse == in # <<>> /\ IsResponse(Last(in))

\* An interrupt notes the cancel, and the pipes are flushed.  Not while the
\* header of an unknown property waits in transmit_buffer: it stays there, in
\* front of the next answer.
HostCancels ==
  /\ ask # NoAsk /\ ~gone /\ cancels < MaxCancels
  /\ ~Unfinished(ask)
  /\ gone' = TRUE
  /\ in' = <<>>
  /\ status' = Cancelled
  /\ cancels' = cancels + 1
  /\ UNCHANGED <<ask, asks, device, tx, open>>

\* The host takes the response, or sees in the status that the cancel is done.
HostDone ==
  /\ ask # NoAsk
  /\ IF gone THEN status = OK ELSE HasResponse
  /\ ask' = NoAsk /\ gone' = FALSE /\ in' = <<>>
  /\ UNCHANGED <<asks, cancels, device, tx, open, status>>

Next ==
  \/ HostAsks \/ HostCancels \/ HostDone
  \/ StartLoop \/ Receive \/ WriteField \/ FinishDataset
  \/ Respond \/ RespondFinish \/ TimerResponds \/ LoopEnds

\* A program calls loop, again and again; a host takes its answers.
Spec == Init /\ [][Next]_vars
             /\ WF_vars(StartLoop) /\ WF_vars(HostDone)
             /\ WF_vars(Receive \/ WriteField \/ FinishDataset \/ Respond \/ RespondFinish
                          \/ TimerResponds \/ LoopEnds)

-----------------------------------------------------------------------------
Packets == [len : 0 .. Packet, parts : SUBSET ({"data", "response"} \X Nat)]

TypeOK ==
  /\ ask \in Commands \cup {NoAsk} /\ gone \in BOOLEAN
  /\ status \in {OK, Cancelled} /\ looping \in BOOLEAN
  /\ pc \in {"idle", "write", "respond", "finish", "reset"}
  /\ announced \in Nat \cup {Untaken} /\ fields \in Seq(1 .. Packet)
  /\ tx \in Packets /\ tx.len < Packet
  /\ open \in BOOLEAN
  /\ in \in Seq(Packets)

(* When the device is at rest nothing waits in transmit_buffer that would  *)
(* come in front of the next answer: the header of an unknown property     *)
(* goes out with the response behind it, or the timer's response takes its *)
(* place.                                                                  *)
NothingLeft == pc = "idle" => tx = NoBuffer

(* What the host sees: how many bytes of the data phase are to come, by    *)
(* the length in its header, and in which phase the transaction is.  A     *)
(* packet that is not what the abstract device would send garbles it.      *)
OfData(packet)   == packet.parts = {Part("data")} \/ packet = NoBuffer
FullData(n)      == \A i \in 1 .. n : in[i].len = Packet /\ OfData(in[i])
LastData(packet) == OfData(packet) /\ packet.len < Packet

\* The first n packets are a whole data phase, if there is one.
DataCame(n) ==
  IF announced = 0 THEN n = 0
  ELSE /\ n > 0 /\ FullData(n - 1) /\ LastData(in[n])
       /\ Packet * (n - 1) + in[n].len = announced

Alone(packet) == packet.parts = {Part("response")}
Joined == Len(in) = 1 /\ announced = HeaderSize

Phase ==
  CASE ask = NoAsk -> "idle"
    [] ask # NoAsk /\ gone -> "cancelled"
    [] ask # NoAsk /\ ~gone /\ announced = Untaken -> "asked"
    [] ask # NoAsk /\ ~gone /\ announced # Untaken ->
         CASE HasResponse ->
                IF Joined \/ (Alone(Last(in)) /\ DataCame(Len(in) - 1))
                  THEN "answered" ELSE "garbled"
           [] ~HasResponse ->
                IF DataCame(Len(in)) THEN "response"
                ELSE IF FullData(Len(in)) THEN "data" ELSE "garbled"
Left == IF Phase = "data" THEN announced - Packet * Len(in) ELSE 0

(* Every dataset comes to the host as its header announces it, in full     *)
(* packets and a short one, and its response behind it; nothing of a       *)
(* cancelled transaction is in the answer to the next one.                 *)
Phases == INSTANCE DataPhase WITH phase <- Phase, left <- Left
AnswerSpec == Phases!Spec

(* A host that asks gets its response, or its cancel is done, also when it *)
(* cancels before the program calls loop.                                  *)
AskAnswered == (ask # NoAsk) ~> (ask = NoAsk)
=============================================================================
