--------------------------- MODULE TransferProofs ---------------------------
(***************************************************************************)
(* Proofs about Transfer, for packets, datasets, objects and numbers of    *)
(* troubles of any size: types, nothing left behind, a success only for a  *)
(* complete file, and the order of what a host gets.                       *)
(***************************************************************************)
EXTENDS Transfer, FiniteSetTheorems, SequenceTheorems, TLAPS

(* Quotient and remainder by P rebuild the number. *)
LEMMA DivMod ==
  ASSUME NEW x \in Nat, NEW P \in Nat \ {0}
  PROVE  /\ x \div P \in Nat
         /\ x % P \in 0 .. P - 1
         /\ x = (x \div P) * P + (x % P)
OBVIOUS

(* The pair of quotient and remainder is unique. *)
LEMMA DivUnique ==
  ASSUME NEW q \in Nat, NEW P \in Nat \ {0}, NEW k \in 0 .. P - 1
  PROVE  /\ q * P + k \in Nat
         /\ (q * P + k) \div P = q
         /\ (q * P + k) % P = k
OBVIOUS

(* Multiplication by a natural is monotonic. *)
LEMMA TimesMonotonic ==
  ASSUME NEW q \in Nat, NEW m \in Nat, NEW P \in Nat, q <= m
  PROVE  q * P <= m * P
OBVIOUS

(* A number whose quotient is at most m is below (m + 1) * P. *)
LEMMA DivBound ==
  ASSUME NEW x \in Nat, NEW m \in Nat, NEW P \in Nat \ {0}, x \div P <= m
  PROVE  x < (m + 1) * P
<1>1. (x \div P) * P <= m * P
  BY DivMod, TimesMonotonic
<1> QED BY <1>1, DivMod

(* The quotient is monotonic. *)
LEMMA DivMonotonic ==
  ASSUME NEW x \in Nat, NEW y \in Nat, NEW P \in Nat \ {0}, x <= y
  PROVE  x \div P <= y \div P
<1> DEFINE q == x \div P
           r == y \div P
<1>1. q \in Nat /\ r \in Nat
  BY DivMod
<1>2. SUFFICES ASSUME r + 1 <= q PROVE FALSE
  BY <1>1
<1>3. (r + 1) * P <= q * P
  BY <1>1, <1>2, TimesMonotonic
<1>4. y < (r + 1) * P
  BY <1>1, DivBound
<1>5. q * P <= x
  BY DivMod
<1>6. q * P \in Nat /\ (r + 1) * P \in Nat
  BY <1>1
<1> QED BY <1>3, <1>4, <1>5, <1>6


(* What travels: commands, and units of data. *)
Ops      == {"SendObjectInfo", "SendObject", "GetObject", "GetPartialObject", "Other"}
Commands == [t : Ops, n : Nat, off : Nat, num : Nat]
Payload  == [t : {"byte", "data"}, v : Nat]
Item     == Units \cup Commands \cup {NoAsk}

(* What a host sends behind a command c, and how much it is to get. *)
Stream(n) == <<Data(n)>> \o Bytes(n)

Incoming(c) ==
  CASE c.t = "SendObjectInfo" -> <<Data(InfoLen)>> \o InfoSet
    [] c.t = "SendObject"     -> Stream(c.n)
    [] OTHER                  -> <<>>

Amount(c) == IF c.t = "GetObject" THEN c.n ELSE PartialSize(c)

(* Where the handlers are. *)
Idle    == {"loop", "reset"}
Headers == {"info_header", "send_header"}
Reading == {"info", "send", "drain"}
Sending == {"get", "get_transmit"}
Getting == {"get_header"} \cup Sending
Ends    == {"respond", "respond_finish"}

(* A handler works on the command the host waits for. *)
PcInv ==
  /\ pc \in Idle \cup Headers \cup Reading \cup {"close"} \cup Getting \cup Ends
  /\ pc \notin Idle => cmd = ask /\ ask # NoAsk
  /\ pc \in {"info_header", "info"} => ask.t = "SendObjectInfo"
  /\ pc \in {"send_header", "send", "drain", "close"} => ask.t = "SendObject"
  /\ pc \in Getting => ask.t \in {"GetObject", "GetPartialObject"}

(* What a host may ask for, and when it has cancelled. *)
AskInv ==
  /\ ask \in Commands \cup {NoAsk}
  /\ ask.off \in Offsets \cup {0} /\ ask.off <= ask.n
  /\ ask.t # "GetPartialObject" => ask.off = 0
  /\ ask.t = "SendObjectInfo" => ask.n \in Sizes
  /\ ask.t = "SendObject" => ask.n \in granted
  /\ granted \subseteq Sizes
  /\ trouble \in 0 .. MaxTrouble

CancelInv ==
  /\ gone \in BOOLEAN /\ status \in {OK, Cancelled}
  /\ status # OK => gone
  /\ gone => ask # NoAsk /\ out = <<>> /\ rest = <<>> /\ pc # "get_header"
  /\ gone /\ status = OK => pc = "loop"
  /\ ask = NoAsk => out = <<>> /\ rest = <<>> /\ in = <<>> /\ pc \in Idle

(* What is under way to the device: the k-th packet of the command and its *)
(* data, and those behind it.                                              *)
Part(i) == IF i = 0 THEN <<ask>> ELSE Piece(Incoming(ask), i)
Count(s) == (Len(s) + Packet - 1) \div Packet

Comes(k) ==
  /\ \A i \in 1 .. Len(out) : out[i] = Part(k + i - 1)
  /\ \A i \in 1 .. Len(rest) : rest[i] = Part(k + Len(out) + i - 1)
  /\ k + Len(out) + Len(rest) <= Count(Incoming(ask)) + 1

(* Nothing that the host sends in a transaction is lost or left. *)
FlowInv ==
  /\ out \in Seq(Seq(Item)) /\ rest \in Seq(Seq(Units))
  /\ ask # NoAsk /\ ~ gone =>
       /\ pc \in Idle /\ in = <<>> => Comes(0)
       /\ pc \in Headers => Comes(1)
       /\ pc \in Reading =>
            \E k \in Nat : /\ Comes(k + 1)
                           /\ Lesser(k * Packet, size + 1) = 1 + pos + Len(rx)
       /\ pc \notin Headers \cup Reading /\ (pc \in Idle => in # <<>>)
            => out = <<>> /\ rest = <<>>

(* In receive_buffer is the next of the data phase, and nothing else ever. *)
ReceiveInv ==
  /\ rx \in Seq(Units) /\ pos \in Nat /\ size \in Nat
  /\ pc \notin Reading => rx = <<>>
  /\ pc \in Headers => pos = 0
  /\ pc \in Reading =>
       /\ size + 1 = Len(Incoming(ask))
       /\ pos + Len(rx) <= size
       /\ \A i \in 1 .. Len(rx) : rx[i] = Incoming(ask)[pos + 1 + i]

(* transmit_buffer: a handler that sends data has room in it, and when a   *)
(* host cancels only what is behind the last full packet is in it.         *)
TransmitInv ==
  /\ tx \in Seq(Units) /\ open \in BOOLEAN
  /\ pc \notin Sending \cup {"respond_finish"} => tx = <<>>
  /\ pc = "respond_finish" => tx = <<ret>>
  /\ pc \in Sending => tx \in Seq(Payload) /\ size = Amount(ask)
  /\ pc = "get" => Len(tx) < Packet
  /\ pc = "get_transmit" => Len(tx) = Packet
  /\ pc = "get" /\ pos < size => tx = <<>> \/ (in = <<>> /\ ~ gone)

(* What an answer promises of the file. *)
Kept(c, code) ==
  code = "ok" => /\ c.t = "SendObject" => file = Bytes(c.n)
                 /\ c.t = "SendObjectInfo" => file = <<>>

(* What the host has: nothing that looks like an answer before the answer, *)
(* which keeps its promise.                                                *)
AnswerInv ==
  /\ in \in Seq(Seq(Units))
  /\ pc = "get_header" => in = <<>>
  /\ IsAnswered => pc \in Idle /\ Answer.v <= ask.n /\ Kept(ask, Answer.t)

(* The packets of the data phase, all full until the last. *)
Shipped ==
  /\ pos <= size
  /\ \A i \in 1 .. Len(in) : in[i] = Piece(Stream(size), i)
  /\ Len(in) * Packet + Len(tx) = pos + 1
  /\ \A i \in 1 .. Len(tx) : tx[i] = Stream(size)[Len(in) * Packet + i]
  /\ tx = <<>> => open

Complete ==
  \E code \in Codes, n \in 0 .. ask.n :
    in = Append(Expected(ask), <<Response(code, n)>>)

OrderInv ==
  ask # NoAsk /\ ask.off = 0 =>
    /\ IsPrefixOf(in, Expected(ask)) \/ Complete
    /\ ~ gone =>
         /\ pc \in Sending => Shipped
         /\ pc \in Idle => in = <<>> \/ Complete
         /\ pc \notin Sending \cup Idle \cup {"get_header"} => in = Expected(ask)

(* The object on the store, and the answer that is being prepared. *)
StoreInv ==
  /\ id \in BOOLEAN /\ writing \in BOOLEAN /\ file \in Seq(Units)
  /\ ret \in [t : Codes, v : Nat]
  /\ pc \in Ends => ret.v <= ask.n /\ Kept(ask, ret.t)
  /\ \A n, m \in granted : n = m
  /\ pc \notin {"send", "drain", "close"} =>
       \A n \in granted : (writing => file = <<>>) /\ (n = 0 => file = <<>>)
  /\ pc = "send_header" => ret = Response("ok", 0)
  /\ pc = "send" => /\ ret = Response("ok", 0)
                    /\ writing \/ pos = 0
                    /\ writing => file = Bytes(pos)
                    /\ size = 0 => file = <<>>
  /\ pc \in {"drain", "close"} => ret = Response("failed", 0) /\ ask.n > 0

TransferInv ==
  /\ PcInv /\ AskInv /\ CancelInv /\ FlowInv /\ ReceiveInv
  /\ TransmitInv /\ AnswerInv /\ OrderInv /\ StoreInv

-----------------------------------------------------------------------------
(* The data.                                                               *)

LEMMA Constants ==
  /\ Packet \in Nat /\ Packet > 1
  /\ InfoLen \in Nat /\ InfoLen > 0
  /\ MaxTrouble \in Nat
  /\ Sizes \subseteq Nat /\ Offsets \subseteq Nat
BY PacketAssumption, SizesAssumption, BoundsAssumption

LEMMA LesserIs ==
  ASSUME NEW a \in Nat, NEW b \in Nat
  PROVE  Lesser(a, b) \in Nat /\ Lesser(a, b) <= a /\ Lesser(a, b) <= b
BY DEF Lesser

(* The bytes of an object, and the container that carries them. *)
LEMMA StreamIs ==
  ASSUME NEW n \in Nat
  PROVE  /\ Bytes(n) \in Seq(Payload) /\ Len(Bytes(n)) = n
         /\ \A i \in 1 .. n : Bytes(n)[i] = Byte(i)
         /\ Stream(n) \in Seq(Payload) /\ Len(Stream(n)) = n + 1
         /\ Stream(n)[1] = Data(n)
         /\ \A i \in 1 .. n : Stream(n)[i + 1] = Byte(i)
<1>1. Bytes(n) \in Seq(Payload) /\ Len(Bytes(n)) = n /\ \A i \in 1 .. n : Bytes(n)[i] = Byte(i)
  <2>1. \A i \in 1 .. n : Byte(i) \in Payload
    BY DEF Byte, Payload
  <2> QED BY <2>1 DEF Bytes
<1>2. <<Data(n)>> \in Seq(Payload) /\ Len(<<Data(n)>>) = 1 /\ <<Data(n)>>[1] = Data(n)
  <2>1. Data(n) \in Payload
    BY DEF Data, Payload
  <2> QED BY <2>1
<1>3. /\ Stream(n) \in Seq(Payload)
      /\ Len(Stream(n)) = 1 + n
      /\ \A i \in 1 .. 1 + n : Stream(n)[i] = IF i <= 1 THEN <<Data(n)>>[i] ELSE Bytes(n)[i - 1]
  BY <1>1, <1>2, ConcatProperties DEF Stream
<1>4. \A i \in 1 .. n : Stream(n)[i + 1] = Byte(i)
  <2>1. TAKE i \in 1 .. n
  <2>2. i + 1 \in 1 .. 1 + n /\ ~ (i + 1 <= 1) /\ (i + 1) - 1 = i
    OBVIOUS
  <2> QED BY <1>1, <1>3, <2>2
<1>5. Stream(n)[1] = Data(n)
  BY <1>2, <1>3
<1> QED BY <1>1, <1>3, <1>4, <1>5

(* A payload is a unit, and no answer. *)
LEMMA PayloadIs ==
  /\ Payload \subseteq Units
  /\ \A u \in Payload : u.t \notin Codes
  /\ \A s \in Seq(Payload) : s \in Seq(Units)
<1>1. Payload \subseteq Units
  BY DEF Payload, Units
<1>2. \A u \in Payload : u.t \notin Codes
  BY DEF Payload, Codes
<1>3. \A s \in Seq(Payload) : s \in Seq(Units)
  BY <1>1, SeqMonotonic
<1> QED BY <1>1, <1>2, <1>3

(* The i-th packet of a stream. *)
LEMMA PieceIs ==
  ASSUME NEW S, NEW s \in Seq(S), NEW i \in Nat, i > 0, (i - 1) * Packet <= Len(s)
  PROVE  /\ Piece(s, i) \in Seq(S)
         /\ Len(Piece(s, i)) = Lesser(i * Packet, Len(s)) - (i - 1) * Packet
         /\ \A j \in 1 .. Len(Piece(s, i)) : Piece(s, i)[j] = s[(i - 1) * Packet + j]
<1> DEFINE m == (i - 1) * Packet
           k == Lesser(i * Packet, Len(s))
<1>1. m \in Nat /\ i * Packet = m + Packet /\ Packet \in Nat /\ Packet > 1
  BY Constants
<1>2. k \in Nat /\ m <= k /\ k <= Len(s)
  BY <1>1 DEF Lesser
<1>3. Piece(s, i) = SubSeq(s, m + 1, k)
  BY DEF Piece
<1> HIDE DEF m, k
<1>4. \A j \in m + 1 .. k : s[j] \in S
  BY <1>1, <1>2
<1>5. /\ SubSeq(s, m + 1, k) \in Seq(S)
      /\ Len(SubSeq(s, m + 1, k)) = IF m + 1 <= k THEN k - (m + 1) + 1 ELSE 0
      /\ \A j \in 1 .. k - (m + 1) + 1 : SubSeq(s, m + 1, k)[j] = s[(m + 1) + j - 1]
  BY <1>1, <1>2, <1>4, SubSeqProperties
<1>6. Len(SubSeq(s, m + 1, k)) = k - m
  BY <1>1, <1>2, <1>5
<1>7. \A j \in 1 .. k - m : SubSeq(s, m + 1, k)[j] = s[m + j]
  BY <1>1, <1>2, <1>5
<1> QED BY <1>3, <1>5, <1>6, <1>7 DEF m, k

(* The packets of a stream. *)
LEMMA PacketsAre ==
  ASSUME NEW S, NEW s \in Seq(S)
  PROVE  /\ Packets(s) \in Seq(Seq(S))
         /\ Len(s) \div Packet \in Nat
         /\ Len(Packets(s)) = (Len(s) \div Packet) + 1
         /\ \A i \in 1 .. Len(Packets(s)) : Packets(s)[i] = Piece(s, i)
<1> DEFINE q == Len(s) \div Packet
<1>1. q \in Nat /\ q * Packet <= Len(s) /\ Packet \in Nat
  <2>1. Len(s) \in Nat /\ Packet \in Nat \ {0}
    BY Constants
  <2>2. q \in Nat /\ Len(s) % Packet \in 0 .. Packet - 1 /\ Len(s) = q * Packet + (Len(s) % Packet)
    BY <2>1, DivMod
  <2> HIDE DEF q
  <2>3. q * Packet \in Nat
    BY <2>1, <2>2
  <2> QED BY <2>1, <2>2, <2>3
<1> HIDE DEF q
<1>2. ASSUME NEW i \in 1 .. q + 1 PROVE Piece(s, i) \in Seq(S)
  <2>1. i \in Nat /\ i > 0 /\ i - 1 \in Nat /\ i - 1 <= q
    BY <1>1
  <2>2. (i - 1) * Packet <= q * Packet
    BY <1>1, <2>1, TimesMonotonic
  <2>3. (i - 1) * Packet \in Nat /\ q * Packet \in Nat /\ Len(s) \in Nat
    BY <1>1, <2>1
  <2>4. (i - 1) * Packet <= Len(s)
    BY <1>1, <2>2, <2>3
  <2> QED BY <2>1, <2>4, PieceIs
<1>3. Packets(s) = [i \in 1 .. q + 1 |-> Piece(s, i)]
  BY DEF Packets, q
<1>4. Packets(s) \in Seq(Seq(S)) /\ Len(Packets(s)) = q + 1
  BY <1>1, <1>2, <1>3
<1> QED BY <1>1, <1>3, <1>4 DEF q

(* What a host sends, in packets. *)
LEMMA SentPacketsAre ==
  ASSUME NEW S, NEW s \in Seq(S)
  PROVE  /\ Count(s) \in Nat
         /\ Count(s) * Packet < Len(s) + Packet
         /\ Len(s) <= Count(s) * Packet
         /\ SentPackets(s) \in Seq(Seq(S))
         /\ Len(SentPackets(s)) = Count(s)
         /\ \A i \in 1 .. Count(s) : SentPackets(s)[i] = Piece(s, i)
<1> DEFINE q == (Len(s) + Packet - 1) \div Packet
           r == (Len(s) + Packet - 1) % Packet
           x == Len(s) + Packet - 1
<1>1. Len(s) \in Nat /\ Packet \in Nat /\ Packet > 1 /\ x \in Nat
  BY Constants
<1>2. q \in Nat /\ r \in 0 .. Packet - 1 /\ x = q * Packet + r
  <2>1. Packet \in Nat \ {0}
    BY <1>1
  <2> HIDE DEF x
  <2>2. x \div Packet \in Nat /\ x % Packet \in 0 .. Packet - 1 /\ x = (x \div Packet) * Packet + (x % Packet)
    BY <1>1, <2>1, DivMod
  <2> QED BY <2>2 DEF x
<1>3. q * Packet \in Nat
  BY <1>1, <1>2
<1> HIDE DEF q, r
<1>4. q * Packet < Len(s) + Packet /\ Len(s) <= q * Packet
  BY <1>1, <1>2, <1>3
<1>5. ASSUME NEW i \in 1 .. q PROVE Piece(s, i) \in Seq(S)
  <2>1. i \in Nat /\ i > 0 /\ i - 1 \in Nat /\ i <= q
    BY <1>2
  <2>2. i * Packet <= q * Packet
    BY <1>1, <1>2, <2>1, TimesMonotonic
  <2>3. (i - 1) * Packet \in Nat /\ (i - 1) * Packet + Packet = i * Packet
    BY <1>1, <2>1
  <2>4. (i - 1) * Packet <= Len(s)
    BY <1>1, <1>3, <1>4, <2>2, <2>3
  <2> QED BY <2>1, <2>4, PieceIs
<1>6. SentPackets(s) = [i \in 1 .. q |-> Piece(s, i)]
  BY DEF SentPackets, q
<1>7. SentPackets(s) \in Seq(Seq(S)) /\ Len(SentPackets(s)) = q
  BY <1>2, <1>5, <1>6
<1> QED BY <1>2, <1>4, <1>6, <1>7 DEF q, Count

(* The data phase a host sends: a data container, and its data. *)
LEMMA IncomingIs ==
  ASSUME NEW c \in Commands \cup {NoAsk}
  PROVE  /\ Incoming(c) \in Seq(Units)
         /\ c.t = "SendObjectInfo" =>
              Len(Incoming(c)) = InfoLen + 1 /\ Incoming(c)[1].t = "data"
         /\ c.t = "SendObject" =>
              /\ c.n \in Nat
              /\ Incoming(c) = Stream(c.n)
              /\ Len(Incoming(c)) = c.n + 1 /\ Incoming(c)[1] = Data(c.n)
         /\ c.t \notin {"SendObjectInfo", "SendObject"} => Incoming(c) = <<>>
<1>1. CASE c.t = "SendObjectInfo"
  <2> DEFINE h == <<Data(InfoLen)>>
  <2>1. h \in Seq(Units) /\ Len(h) = 1 /\ h[1].t = "data"
    <3>1. Data(InfoLen) \in Units /\ Data(InfoLen).t = "data"
      BY Constants DEF Data, Units
    <3> QED BY <3>1
  <2>2. InfoSet \in Seq(Units) /\ Len(InfoSet) = InfoLen
    <3>1. Byte(0) \in Units
      BY DEF Byte, Units
    <3> QED BY <3>1, Constants DEF InfoSet
  <2>3. Incoming(c) = h \o InfoSet
    BY <1>1 DEF Incoming
  <2> HIDE DEF h
  <2>4. /\ h \o InfoSet \in Seq(Units)
        /\ Len(h \o InfoSet) = Len(h) + Len(InfoSet)
        /\ \A i \in 1 .. Len(h) + Len(InfoSet) :
             (h \o InfoSet)[i] = IF i <= Len(h) THEN h[i] ELSE InfoSet[i - Len(h)]
    BY <2>1, <2>2, ConcatProperties
  <2>5. (h \o InfoSet)[1] = h[1]
    BY <2>1, <2>2, <2>4, Constants
  <2>6. 1 + InfoLen = InfoLen + 1
    BY Constants
  <2> QED BY <1>1, <2>1, <2>2, <2>3, <2>4, <2>5, <2>6
<1>2. CASE c.t = "SendObject"
  <2>1. c.n \in Nat
    BY <1>2 DEF Commands, NoAsk, Command
  <2>2. Incoming(c) = Stream(c.n)
    BY <1>2 DEF Incoming
  <2> QED BY <1>2, <2>1, <2>2, StreamIs, PayloadIs
<1>3. CASE c.t \notin {"SendObjectInfo", "SendObject"}
  <2>1. Incoming(c) = <<>>
    BY <1>3 DEF Incoming
  <2> QED BY <1>3, <2>1
<1> QED BY <1>1, <1>2, <1>3

(* How much a host is to get of an object. *)
LEMMA AmountIs ==
  ASSUME NEW c \in Commands, c.off <= c.n
  PROVE  Amount(c) \in Nat /\ Amount(c) <= c.n
<1>1. c.n \in Nat /\ c.off \in Nat /\ c.num \in Nat
  BY DEF Commands
<1> QED BY <1>1 DEF Amount, PartialSize, Lesser

(* The packets that carry an object. *)
LEMMA StreamPacketsAre ==
  ASSUME NEW n \in Nat
  PROVE  /\ Packets(Stream(n)) \in Seq(Seq(Payload)) /\ Packets(Stream(n)) \in Seq(Seq(Units))
         /\ (n + 1) \div Packet \in Nat
         /\ Len(Packets(Stream(n))) = ((n + 1) \div Packet) + 1
         /\ \A i \in 1 .. Len(Packets(Stream(n))) : Packets(Stream(n))[i] = Piece(Stream(n), i)
<1>1. Stream(n) \in Seq(Payload) /\ Stream(n) \in Seq(Units) /\ Len(Stream(n)) = n + 1
  BY StreamIs, PayloadIs
<1>2. /\ Packets(Stream(n)) \in Seq(Seq(Payload))
      /\ Len(Stream(n)) \div Packet \in Nat
      /\ Len(Packets(Stream(n))) = (Len(Stream(n)) \div Packet) + 1
      /\ \A i \in 1 .. Len(Packets(Stream(n))) : Packets(Stream(n))[i] = Piece(Stream(n), i)
  BY <1>1, PacketsAre
<1>3. Packets(Stream(n)) \in Seq(Seq(Units))
  BY <1>1, PacketsAre
<1> QED BY <1>1, <1>2, <1>3

(* The data phase a host expects, when it asks for an object from its start. *)
LEMMA ExpectedIs ==
  ASSUME NEW c \in Commands, c.off = 0
  PROVE  /\ Amount(c) \in Nat
         /\ c.t \in {"GetObject", "GetPartialObject"} =>
              /\ Expected(c) = Packets(Stream(Amount(c)))
              /\ Len(Expected(c)) = ((Amount(c) + 1) \div Packet) + 1
              /\ \A i \in 1 .. Len(Expected(c)) : Expected(c)[i] = Piece(Stream(Amount(c)), i)
         /\ c.t \notin {"GetObject", "GetPartialObject"} => Expected(c) = <<>>
         /\ Expected(c) \in Seq(Seq(Units))
<1>1. c.n \in Nat /\ c.num \in Nat /\ Amount(c) \in Nat /\ Amount(c) <= c.n
  BY AmountIs DEF Commands
<1>2. CASE c.t = "GetObject"
  <2>1. Expected(c) = Packets(Stream(Amount(c)))
    BY <1>2 DEF Expected, Amount, Stream
  <2> QED BY <1>1, <1>2, <2>1, StreamPacketsAre
<1>3. CASE c.t = "GetPartialObject"
  <2> DEFINE m == Amount(c)
  <2>1. PartialSize(c) = m
    BY <1>3 DEF Amount
  <2>0. m \in Nat /\ m <= c.n
    BY <1>1
  <2> HIDE DEF m
  <2>2. SubSeq(Bytes(c.n), 1, m) = Bytes(m)
    <3>1. \A i \in 1 .. m : Bytes(c.n)[i] = Byte(i) /\ Byte(i) \in Payload
      <4>1. TAKE i \in 1 .. m
      <4>2. i \in 1 .. c.n /\ i \in Nat
        BY <1>1, <2>0
      <4>3. Bytes(c.n)[i] = Byte(i)
        BY <1>1, <4>2, StreamIs
      <4> QED BY <4>2, <4>3 DEF Byte, Payload
    <3>2. /\ SubSeq(Bytes(c.n), 1, m) \in Seq(Payload)
          /\ Len(SubSeq(Bytes(c.n), 1, m)) = IF 1 <= m THEN m - 1 + 1 ELSE 0
          /\ \A i \in 1 .. m - 1 + 1 : SubSeq(Bytes(c.n), 1, m)[i] = Bytes(c.n)[1 + i - 1]
      BY ONLY <3>1, <2>0, SubSeqProperties
    <3>3. Len(SubSeq(Bytes(c.n), 1, m)) = m
      BY <2>0, <3>2
    <3>4. \A i \in 1 .. m : SubSeq(Bytes(c.n), 1, m)[i] = Bytes(m)[i]
      <4>1. TAKE i \in 1 .. m
      <4>2. i \in 1 .. m - 1 + 1 /\ 1 + i - 1 = i
        BY <2>0
      <4>3. SubSeq(Bytes(c.n), 1, m)[i] = Byte(i)
        BY <3>1, <3>2, <4>2
      <4> QED BY <2>0, <4>3, StreamIs
    <3>5. Bytes(m) \in Seq(Payload) /\ Len(Bytes(m)) = m
      BY <2>0, StreamIs
    <3> QED BY <3>2, <3>3, <3>4, <3>5, SeqEqual
  <2>3. c.off + 1 = 1 /\ c.off + m = m
    BY <2>0
  <2>4. Expected(c) = Packets(<<Data(m)>> \o SubSeq(Bytes(c.n), 1, m))
    BY <1>3, <2>1, <2>3 DEF Expected
  <2>5. Expected(c) = Packets(Stream(m))
    BY <2>2, <2>4 DEF Stream
  <2> QED BY <1>1, <1>3, <2>5, StreamPacketsAre DEF m
<1>4. CASE c.t \notin {"GetObject", "GetPartialObject"}
  <2>1. Expected(c) = <<>>
    BY <1>4 DEF Expected
  <2> QED BY <1>1, <1>4, <2>1
<1> QED BY <1>2, <1>3, <1>4


-----------------------------------------------------------------------------
(* What the device finds.                                                  *)

(* While a handler runs there is a transaction; only a cancel that the     *)
(* device has noticed, at the top of its loop, leaves the status good.     *)
LEMMA Now ==
  ASSUME TransferInv
  PROVE  /\ status = OK /\ pc # "loop" => ~ gone
         /\ ~ gone => status = OK
         /\ gone => out = <<>> /\ rest = <<>>
         /\ ask # NoAsk => ask \in Commands /\ ask.n \in Nat
         /\ pc \notin Idle => ask # NoAsk
         /\ IsAnswered => pc \in Idle /\ ask # NoAsk
<1>1. IsAnswered => in # <<>>
  BY DEF IsAnswered
<1> QED BY <1>1 DEF TransferInv, PcInv, AskInv, CancelInv, AnswerInv, Commands

(* What a host may ask for, and how it sends the data of it. *)
LEMMA AsksCommand ==
  ASSUME TransferInv,
         AskGetObject \/ AskGetPartialObject \/ AskSendObjectInfo \/ AskSendObject \/ AskOther
  PROVE  \E c \in Commands, packets \in Seq(Seq(Units)) :
           /\ HostAsks(c, packets)
           /\ c.off \in Offsets \cup {0} /\ c.off <= c.n
           /\ c.t # "GetPartialObject" => c.off = 0
           /\ c.t = "SendObjectInfo" => c.n \in Sizes
           /\ c.t = "SendObject" => c.n \in granted
           /\ Len(packets) <= Count(Incoming(c))
           /\ \A i \in 1 .. Len(packets) : packets[i] = Piece(Incoming(c), i)
<1>1. \A n \in Nat, off \in Nat, num \in Nat, t \in Ops :
        /\ Command(t, n, off, num) \in Commands
        /\ Command(t, n, off, num).t = t /\ Command(t, n, off, num).n = n
        /\ Command(t, n, off, num).off = off
  BY DEF Command, Commands
<1>2. granted \subseteq Sizes /\ Sizes \subseteq Nat /\ Offsets \subseteq Nat
  BY Constants DEF TransferInv, AskInv
<1>3. <<>> \in Seq(Seq(Units)) /\ Len(<<>>) = 0
  OBVIOUS
<1>4. ASSUME NEW c \in Commands
      PROVE  /\ Count(Incoming(c)) \in Nat /\ Len(<<>>) <= Count(Incoming(c))
             /\ \A i \in 1 .. Len(<<>>) : <<>>[i] = Piece(Incoming(c), i)
  <2>1. Count(Incoming(c)) \in Nat
    BY <1>4, IncomingIs, SentPacketsAre
  <2>2. 1 .. Len(<<>>) = {}
    BY <1>3
  <2> QED BY <1>3, <2>1, <2>2
<1>5. CASE AskGetObject
  <2>1. PICK n \in Sizes : HostAsks(Command("GetObject", n, 0, 0), <<>>)
    BY <1>5 DEF AskGetObject
  <2> DEFINE c == Command("GetObject", n, 0, 0)
  <2>2. c \in Commands /\ c.t = "GetObject" /\ c.n = n /\ c.off = 0 /\ n \in Nat /\ HostAsks(c, <<>>)
    BY <1>1, <1>2, <2>1 DEF Ops
  <2> HIDE DEF c
  <2>3. c.off <= c.n /\ c.off \in Offsets \cup {0}
    BY <2>2
  <2> QED BY <1>3, <1>4, <2>2, <2>3
<1>6. CASE AskGetPartialObject
  <2>1. PICK n \in Sizes, off \in Offsets, num \in Sizes :
          off <= n /\ HostAsks(Command("GetPartialObject", n, off, num), <<>>)
    BY <1>6 DEF AskGetPartialObject
  <2> DEFINE c == Command("GetPartialObject", n, off, num)
  <2>2. /\ c \in Commands /\ c.t = "GetPartialObject" /\ c.n = n /\ c.off = off
        /\ off \in Offsets /\ off <= n /\ HostAsks(c, <<>>)
    <3>1. n \in Nat /\ off \in Nat /\ num \in Nat /\ "GetPartialObject" \in Ops
      BY <1>2 DEF Ops
    <3> QED BY <1>1, <2>1, <3>1
  <2> HIDE DEF c
  <2> QED BY <1>3, <1>4, <2>2
<1>7. CASE AskOther
  <2> DEFINE c == Command("Other", 0, 0, 0)
  <2>1. c \in Commands /\ c.t = "Other" /\ c.n = 0 /\ c.off = 0 /\ HostAsks(c, <<>>)
    BY <1>1, <1>7 DEF Ops, AskOther
  <2> HIDE DEF c
  <2>2. c.off <= c.n /\ c.off \in Offsets \cup {0}
    BY <2>1
  <2> QED BY <1>3, <1>4, <2>1, <2>2
<1>8. ASSUME NEW c \in Commands, c.t \in {"SendObjectInfo", "SendObject"}
      PROVE  LET packets == SentPackets(Incoming(c))
             IN  /\ packets \in Seq(Seq(Units)) /\ Len(packets) <= Count(Incoming(c))
                 /\ \A i \in 1 .. Len(packets) : packets[i] = Piece(Incoming(c), i)
  <2>1. Incoming(c) \in Seq(Units)
    BY <1>8, IncomingIs
  <2> QED BY <1>4, <1>8, <2>1, SentPacketsAre
<1>9. CASE AskSendObjectInfo
  <2>1. PICK n \in Sizes :
          HostAsks(Command("SendObjectInfo", n, 0, 0), SentPackets(<<Data(InfoLen)>> \o InfoSet))
    BY <1>9 DEF AskSendObjectInfo
  <2> DEFINE c == Command("SendObjectInfo", n, 0, 0)
  <2>2. /\ c \in Commands /\ c.t = "SendObjectInfo" /\ c.n = n /\ c.off = 0 /\ n \in Nat
    BY <1>1, <1>2 DEF Ops
  <2> HIDE DEF c
  <2>3. Incoming(c) = <<Data(InfoLen)>> \o InfoSet
    BY <2>2 DEF Incoming
  <2>4. HostAsks(c, SentPackets(Incoming(c)))
    BY <2>1, <2>3 DEF c
  <2> QED BY <1>8, <2>2, <2>4
<1>10. CASE AskSendObject
  <2>1. PICK n \in granted :
          HostAsks(Command("SendObject", n, 0, 0), SentPackets(<<Data(n)>> \o Bytes(n)))
    BY <1>10 DEF AskSendObject
  <2> DEFINE c == Command("SendObject", n, 0, 0)
  <2>2. /\ c \in Commands /\ c.t = "SendObject" /\ c.n = n /\ c.off = 0 /\ n \in Nat
    BY <1>1, <1>2 DEF Ops
  <2> HIDE DEF c
  <2>3. Incoming(c) = <<Data(n)>> \o Bytes(n)
    BY <2>2 DEF Incoming, Stream
  <2>4. HostAsks(c, SentPackets(Incoming(c)))
    BY <2>1, <2>3 DEF c
  <2> QED BY <1>8, <2>2, <2>4
<1> QED BY <1>5, <1>6, <1>7, <1>9, <1>10

(* The packet loop takes is the command the host waits for. *)
LEMMA TakesCommand ==
  ASSUME TransferInv, Loop
  PROVE  /\ ask # NoAsk /\ ask \in Commands /\ ~ gone /\ in = <<>> /\ Comes(0) /\ out # <<>>
         /\ Head(out) = <<ask>>
         /\ cmd' = ask /\ pos' = 0 /\ size' = 0 /\ ret' = Response("ok", 0)
         /\ pc' \in Headers \cup {"get_header", "respond"}
         /\ pc' = "info_header" <=> ask.t = "SendObjectInfo"
         /\ pc' = "send_header" <=> ask.t = "SendObject"
         /\ pc' = "get_header" <=> ask.t \in {"GetObject", "GetPartialObject"}
         /\ rx' = <<>>
<1>1. pc = "loop" /\ status = OK /\ out # <<>> /\ rx' = <<>>
  BY DEF Loop, CanReceive
<1>2. ~ gone /\ ask # NoAsk /\ out \in Seq(Seq(Item))
  BY <1>1 DEF TransferInv, CancelInv, FlowInv
<1>3. in = <<>> /\ Comes(0)
  <2>1. pc \in Idle /\ pc \notin Headers \cup Reading
    BY <1>1 DEF Idle, Headers, Reading
  <2> QED BY <1>1, <1>2, <2>1 DEF TransferInv, FlowInv
<1>4. Head(out) = <<ask>>
  <2>1. 1 \in 1 .. Len(out) /\ Head(out) = out[1]
    BY <1>1, <1>2
  <2>2. out[1] = Part(0 + 1 - 1)
    BY <1>3, <2>1 DEF Comes
  <2> QED BY <2>1, <2>2 DEF Part
<1>5. ask \in Commands /\ ask.t \in Ops
  BY <1>2 DEF TransferInv, AskInv, Commands
<1>6. Len(Head(out)) = 1 /\ Head(out)[1] = ask
  BY <1>4
<1>7. /\ cmd' = ask /\ pos' = 0 /\ size' = 0
      /\ IF ask.t \in DOMAIN Handlers
           THEN pc' = Handlers[ask.t] /\ ret' = Response("ok", 0)
           ELSE pc' = "respond" /\ ret' = Response("unsupported", 0)
  BY <1>6 DEF Loop
<1>8. DOMAIN Handlers = Ops
  BY DEF Handlers, Ops
<1>9. pc' = Handlers[ask.t] /\ ret' = Response("ok", 0)
  BY <1>5, <1>7, <1>8
<1>10. /\ pc' \in Headers \cup {"get_header", "respond"}
       /\ pc' = "info_header" <=> ask.t = "SendObjectInfo"
       /\ pc' = "send_header" <=> ask.t = "SendObject"
       /\ pc' = "get_header" <=> ask.t \in {"GetObject", "GetPartialObject"}
  BY <1>5, <1>9 DEF Handlers, Ops, Headers
<1> QED BY <1>1, <1>2, <1>3, <1>4, <1>5, <1>7, <1>9, <1>10

(* A handler whose data phase is due gets its container first. *)
LEMMA TakesHeader ==
  ASSUME TransferInv, ReadHeader
  PROVE  /\ ask \in Commands /\ ask # NoAsk /\ ~ gone /\ Comes(1) /\ out # <<>>
         /\ Head(out) = Piece(Incoming(ask), 1) /\ Head(out)[1].t = "data"
         /\ \/ pc = "info_header" /\ pc' = "info" /\ ask.t = "SendObjectInfo"
            \/ pc = "send_header" /\ pc' = "send" /\ ask.t = "SendObject"
         /\ ret' = ret /\ pos' = 0
         /\ rx' \in Seq(Units)
         /\ Len(rx') + 1 = Lesser(Packet, Len(Incoming(ask)))
         /\ \A i \in 1 .. Len(rx') : rx'[i] = Incoming(ask)[1 + i]
         /\ size' \in Nat /\ size' + 1 = Len(Incoming(ask))
<1> DEFINE s == Incoming(ask)
           h == Head(out)
<1>1. pc \in Headers /\ status = OK /\ out # <<>>
  BY DEF ReadHeader, CanReceive, Headers
<1>2. ~ gone /\ ask # NoAsk /\ ask \in Commands
  BY <1>1, Now DEF Headers, Idle
<1>3. Comes(1) /\ out \in Seq(Seq(Item)) /\ pos = 0
  BY <1>1, <1>2 DEF TransferInv, FlowInv, ReceiveInv
<1>4. h = Piece(s, 1)
  <2>1. 1 \in 1 .. Len(out) /\ h = out[1]
    BY <1>1, <1>3
  <2>2. out[1] = Part(1 + 1 - 1)
    BY <1>3, <2>1 DEF Comes
  <2> QED BY <2>1, <2>2 DEF Part
<1>5. \/ ask.t = "SendObjectInfo" /\ pc = "info_header"
      \/ ask.t = "SendObject" /\ pc = "send_header"
  BY <1>1 DEF TransferInv, PcInv, Headers
<1>6. s \in Seq(Units) /\ Len(s) \in Nat /\ Len(s) > 0 /\ s[1].t = "data"
  <2>1. CASE ask.t = "SendObjectInfo"
    BY <1>2, <2>1, IncomingIs, Constants
  <2>2. CASE ask.t = "SendObject"
    <3>1. s \in Seq(Units) /\ Len(s) = ask.n + 1 /\ ask.n \in Nat /\ s[1] = Data(ask.n)
      BY <1>2, <2>2, IncomingIs
    <3>2. s[1].t = "data"
      BY <3>1 DEF Data
    <3> QED BY <3>1, <3>2
  <2> QED BY <1>5, <2>1, <2>2
<1>7. h \in Seq(Units) /\ Len(h) = Lesser(Packet, Len(s)) /\ \A j \in 1 .. Len(h) : h[j] = s[j]
  <2>1. (1 - 1) * Packet = 0 /\ 1 * Packet = Packet
    BY Constants
  <2>2. /\ Piece(s, 1) \in Seq(Units)
        /\ Len(Piece(s, 1)) = Lesser(Packet, Len(s)) - 0
        /\ \A j \in 1 .. Len(Piece(s, 1)) : Piece(s, 1)[j] = s[0 + j]
    <3>1. 1 \in Nat /\ 1 > 0 /\ (1 - 1) * Packet <= Len(s)
      BY <1>6, <2>1
    <3> QED BY <1>6, <2>1, <3>1, PieceIs
  <2>3. Lesser(Packet, Len(s)) - 0 = Lesser(Packet, Len(s))
    BY <1>6, Constants DEF Lesser
  <2> QED BY <1>4, <2>2, <2>3
<1>8. Len(h) > 0 /\ h # <<>> /\ h[1].t = "data"
  <2>1. Len(h) > 0
    BY <1>6, <1>7, Constants DEF Lesser
  <2> QED BY <1>6, <1>7, <2>1
<1>9. /\ rx' = Tail(h) /\ ret' = ret /\ pos' = pos
      /\ size' = IF pc = "info_header" THEN InfoLen ELSE h[1].v
      /\ pc' = IF pc = "info_header" THEN "info" ELSE "send"
  BY <1>8 DEF ReadHeader
<1>10. rx' \in Seq(Units) /\ Len(rx') + 1 = Len(h) /\ \A i \in 1 .. Len(rx') : rx'[i] = s[1 + i]
  <2>1. /\ Tail(h) \in Seq(Units) /\ Len(Tail(h)) = Len(h) - 1
        /\ \A i \in 1 .. Len(Tail(h)) : Tail(h)[i] = h[i + 1]
    BY <1>7, <1>8, HeadTailProperties
  <2>2. ASSUME NEW i \in 1 .. Len(Tail(h)) PROVE Tail(h)[i] = s[1 + i]
    <3>1. i + 1 \in 1 .. Len(h) /\ 1 + i = i + 1
      BY <1>7, <2>1
    <3> QED BY <1>7, <2>1, <3>1
  <2> QED BY <1>7, <1>9, <2>1, <2>2
<1>11. size' \in Nat /\ size' + 1 = Len(s)
  <2>1. CASE ask.t = "SendObjectInfo" /\ pc = "info_header"
    BY <1>2, <1>9, <2>1, IncomingIs, Constants
  <2>2. CASE ask.t = "SendObject" /\ pc = "send_header"
    <3>1. s[1] = Data(ask.n) /\ Len(s) = ask.n + 1 /\ ask.n \in Nat
      BY <1>2, <2>2, IncomingIs
    <3>2. h[1] = s[1]
      BY <1>7, <1>8
    <3> QED BY <1>9, <2>2, <3>1, <3>2 DEF Data
  <2> QED BY <1>5, <2>1, <2>2
<1>12. \/ pc = "info_header" /\ pc' = "info" /\ ask.t = "SendObjectInfo"
       \/ pc = "send_header" /\ pc' = "send" /\ ask.t = "SendObject"
  BY <1>5, <1>9
<1> QED BY <1>1, <1>2, <1>3, <1>4, <1>7, <1>8, <1>9, <1>10, <1>11, <1>12

(* The next packet of a data phase begins where the device is in it. *)
LEMMA TakesPacket ==
  ASSUME TransferInv, Receive
  PROVE  \E k \in Nat :
           /\ Comes(k + 1) /\ out # <<>> /\ ask # NoAsk /\ ~ gone /\ pc \in Reading
           /\ rx' \in Seq(Units)
           /\ Lesser((k + 1) * Packet, size + 1) = 1 + pos + Len(rx')
           /\ pos + Len(rx') <= size
           /\ \A i \in 1 .. Len(rx') : rx'[i] = Incoming(ask)[pos + 1 + i]
<1> DEFINE s == Incoming(ask)
<1>1. /\ pc \in Reading /\ status = OK /\ out # <<>> /\ rx = <<>> /\ pos < size
      /\ rx' = Head(out)
  BY DEF Receive, CanReceive, Reading
<1>2. ~ gone /\ ask # NoAsk /\ ask \in Commands
  BY <1>1, Now DEF Reading, Idle
<1>3. /\ out \in Seq(Seq(Item)) /\ pos \in Nat /\ size \in Nat
      /\ size + 1 = Len(s)
  BY <1>1 DEF TransferInv, FlowInv, ReceiveInv
<1>4. PICK k \in Nat : Comes(k + 1) /\ Lesser(k * Packet, size + 1) = 1 + pos + Len(rx)
  BY <1>1, <1>2 DEF TransferInv, FlowInv
<1>5. k * Packet \in Nat /\ (k + 1) * Packet = k * Packet + Packet /\ Packet \in Nat /\ Packet > 1
  BY Constants
<1>6. k * Packet = 1 + pos
  <2>1. Lesser(k * Packet, size + 1) = 1 + pos
    BY <1>1, <1>3, <1>4
  <2>2. 1 + pos # size + 1
    BY <1>1, <1>3
  <2> QED BY <2>1, <2>2 DEF Lesser
<1>7. rx' = Piece(s, k + 1)
  <2>1. 1 \in 1 .. Len(out) /\ Head(out) = out[1]
    BY <1>1, <1>3
  <2>2. out[1] = Part((k + 1) + 1 - 1)
    BY <1>4, <2>1 DEF Comes
  <2>3. (k + 1) + 1 - 1 = k + 1 /\ k + 1 # 0
    OBVIOUS
  <2> QED BY <1>1, <2>1, <2>2, <2>3 DEF Part
<1>8. s \in Seq(Units)
  BY <1>2, IncomingIs
<1>9. /\ rx' \in Seq(Units)
      /\ Len(rx') = Lesser((k + 1) * Packet, size + 1) - (1 + pos)
      /\ \A j \in 1 .. Len(rx') : rx'[j] = s[1 + pos + j]
  <2>1. k + 1 \in Nat /\ k + 1 > 0 /\ (k + 1) - 1 = k /\ k * Packet <= Len(s)
    BY <1>1, <1>3, <1>6
  <2>2. /\ Piece(s, k + 1) \in Seq(Units)
        /\ Len(Piece(s, k + 1)) = Lesser((k + 1) * Packet, Len(s)) - k * Packet
        /\ \A j \in 1 .. Len(Piece(s, k + 1)) : Piece(s, k + 1)[j] = s[k * Packet + j]
    BY <1>8, <2>1, PieceIs
  <2> QED BY <1>3, <1>6, <1>7, <2>2
<1>10. Lesser((k + 1) * Packet, size + 1) \in Nat /\ Lesser((k + 1) * Packet, size + 1) <= size + 1
  BY <1>3, <1>5 DEF Lesser
<1>11. /\ Lesser((k + 1) * Packet, size + 1) = 1 + pos + Len(rx')
       /\ pos + Len(rx') <= size
  <2> DEFINE l == Lesser((k + 1) * Packet, size + 1)
             r == Len(rx')
  <2>1. l \in Nat /\ l <= size + 1 /\ r = l - (1 + pos) /\ pos \in Nat /\ size \in Nat
    BY <1>3, <1>9, <1>10
  <2> HIDE DEF l, r
  <2>2. l = 1 + pos + r /\ pos + r <= size
    BY <2>1
  <2> QED BY <2>2 DEF l, r
<1>12. \A i \in 1 .. Len(rx') : rx'[i] = s[pos + 1 + i]
  <2>1. TAKE i \in 1 .. Len(rx')
  <2>2. pos + 1 + i = 1 + pos + i
    BY <1>3
  <2> QED BY <1>9, <2>2
<1> QED BY <1>1, <1>2, <1>4, <1>9, <1>11, <1>12

-----------------------------------------------------------------------------
(* Parts of the invariant that are about where the handlers are.           *)

LEMMA PcStep ==
  ASSUME TransferInv, Next
  PROVE  PcInv'
<1>1. PcInv /\ (ask = NoAsk => pc \in Idle) /\ (gone /\ status = OK => pc = "loop")
  BY DEF TransferInv, CancelInv
<1> USE DEF Idle, Headers, Reading, Sending, Getting, Ends
<1>2. ASSUME NEW c, NEW packets, HostAsks(c, packets) PROVE PcInv'
  <2>1. pc \in Idle /\ pc' = pc
    BY <1>1, <1>2 DEF HostAsks
  <2> QED BY <2>1 DEF PcInv
<1>3. CASE HostDone
  <2>1. pc \in Idle /\ pc' = pc
    BY <1>1, <1>3, Now DEF HostDone
  <2> QED BY <2>1 DEF PcInv
<1>4. CASE HostSends \/ HostStops \/ HostCancels
  <2>1. pc' = pc /\ ask' = ask /\ cmd' = cmd
    BY <1>4 DEF HostSends, HostStops, HostCancels, handler
  <2> QED BY <1>1, <2>1 DEF PcInv
<1>5. CASE Loop
  <2>1. ask' = ask
    BY <1>5 DEF Loop, HostKeeps
  <2> QED BY <1>5, <2>1, TakesCommand DEF PcInv
<1>6. CASE ReadHeader
  <2>1. ask' = ask /\ cmd' = cmd
    BY <1>6 DEF ReadHeader, HostKeeps
  <2> QED BY <1>1, <1>6, <2>1, TakesHeader DEF PcInv
<1>7. CASE LoopEnds \/ AbortGet \/ RespondFinish
  <2>1. pc' \in Idle
    BY <1>7 DEF LoopEnds, AbortGet, RespondFinish
  <2> QED BY <2>1 DEF PcInv
<1>8. ASSUME ask' = ask, cmd' = cmd, pc \notin Idle, pc' = pc \/ pc' \in Idle \cup Ends
      PROVE  PcInv'
  BY <1>1, <1>8 DEF PcInv
<1>9. CASE Respond \/ GetFinish
  BY <1>8, <1>9 DEF Respond, GetFinish, HostKeeps, handler
<1>10. CASE Receive \/ ReadInfo \/ CreateObject \/ WriteData \/ Drain \/ CloseObject
  BY <1>8, <1>10 DEF Receive, ReadInfo, CreateObject, WriteData, Drain, CloseObject,
     HostKeeps, handler
<1>11. CASE WriteFails
  <2>1. ask' = ask /\ cmd' = cmd /\ pc = "send" /\ pc' = "drain"
    BY <1>11 DEF WriteFails, hostVars
  <2> QED BY <1>1, <2>1 DEF PcInv
<1>12. CASE Timeout \/ Pause
  <2>1. ask' = ask /\ cmd' = cmd
    BY <1>12 DEF Timeout, Pause, HostKeeps, hostVars
  <2>2. \/ pc \in {"info_header", "info", "send_header"} /\ pc' = "respond"
        \/ pc = "send" /\ pc' = "drain"
        \/ pc = "drain" /\ pc' = "close"
    BY <1>12 DEF Timeout, Pause, GiveUp
  <2> QED BY <1>1, <2>1, <2>2 DEF PcInv
<1>13. CASE GetHeader \/ FillPacket \/ TransmitPacket
  <2>1. ask' = ask /\ cmd' = cmd /\ pc \in Getting /\ pc' \in Sending
    BY <1>13 DEF GetHeader, FillPacket, TransmitPacket, HostKeeps, handler
  <2> QED BY <1>1, <2>1 DEF PcInv
<1> QED BY <1>2, <1>3, <1>4, <1>5, <1>6, <1>7, <1>9, <1>10, <1>11, <1>12, <1>13
        DEF Next, Host, Device, AskGetObject, AskGetPartialObject, AskSendObjectInfo,
            AskSendObject, AskOther

LEMMA CancelStep ==
  ASSUME TransferInv, Next
  PROVE  CancelInv'
<1>1. CancelInv /\ (pc = "get_header" => in = <<>>)
  BY DEF TransferInv, AnswerInv
<1>2. ASSUME NEW c \in Commands, NEW packets, HostAsks(c, packets) PROVE CancelInv'
  <2>1. c # NoAsk
    BY DEF Commands, Ops, NoAsk, Command
  <2> QED BY <1>1, <1>2, <2>1 DEF HostAsks, CancelInv
<1>3. CASE HostDone
  <2>1. pc \in Idle /\ out = <<>> /\ rest = <<>> /\ status = OK
    <3>1. CASE gone
      BY <1>1, <1>3, <3>1 DEF HostDone, CancelInv, Idle
    <3>2. CASE ~ gone
      <4>1. pc \in Idle /\ in # <<>> /\ ask # NoAsk
        BY <1>3, <3>2, Now DEF HostDone, IsAnswered
      <4>2. pc \notin Headers \cup Reading
        BY <4>1 DEF Idle, Headers, Reading
      <4> QED BY <1>1, <3>2, <4>1, <4>2 DEF TransferInv, FlowInv, CancelInv
    <3> QED BY <3>1, <3>2
  <2> QED BY <1>1, <1>3, <2>1 DEF HostDone, CancelInv
<1>4. CASE HostSends \/ HostStops
  <2>1. ~ gone /\ ask # NoAsk
    BY <1>1, <1>4 DEF HostSends, HostStops, CancelInv
  <2> QED BY <1>1, <1>4, <2>1 DEF HostSends, HostStops, CancelInv
<1>5. CASE HostCancels
  <2>1. pc # "get_header"
    BY <1>1, <1>5 DEF HostCancels, HeaderWaits
  <2> QED BY <1>1, <1>5, <2>1 DEF HostCancels, CancelInv, OK, Cancelled
<1>6. CASE Loop \/ ReadHeader \/ Receive
  <2>1. ~ gone /\ ask # NoAsk
    BY <1>6, TakesCommand, TakesHeader, TakesPacket
  <2>2. gone' = gone /\ ask' = ask /\ status' = status
    BY <1>6 DEF Loop, ReadHeader, Receive, HostKeeps
  <2> QED BY <1>1, <2>1, <2>2 DEF CancelInv
<1>7. CASE LoopEnds
  <2>1. /\ gone' = gone /\ ask' = ask /\ out' = out /\ rest' = rest /\ in' = in
        /\ status' = OK /\ pc' = "loop"
    BY <1>7 DEF LoopEnds, HostKeeps, transmitter
  <2> QED BY <1>1, <2>1 DEF CancelInv, Idle
<1>8. CASE Respond \/ RespondFinish \/ Timeout \/ Pause \/ ReadInfo \/ CreateObject
             \/ WriteData \/ WriteFails \/ Drain \/ CloseObject
             \/ GetHeader \/ FillPacket \/ TransmitPacket \/ AbortGet \/ GetFinish
  <2>1. pc \notin Idle
    BY <1>8 DEF Respond, RespondFinish, Timeout, Pause, ReadInfo, CreateObject, WriteData,
       WriteFails, Drain, CloseObject, GetHeader, FillPacket, TransmitPacket, AbortGet, GetFinish, Idle
  <2>2. /\ gone' = gone /\ ask' = ask /\ status' = status /\ out' = out /\ rest' = rest
        /\ pc' # "get_header"
    <3>1. CASE Timeout \/ Pause
      BY <3>1 DEF Timeout, Pause, GiveUp, HostKeeps, hostVars
    <3>2. CASE Respond \/ RespondFinish \/ ReadInfo \/ CreateObject \/ WriteData \/ WriteFails
                 \/ Drain \/ CloseObject
      BY <3>2 DEF Respond, RespondFinish, ReadInfo, CreateObject, WriteData,
         WriteFails, Drain, CloseObject, HostKeeps, hostVars
    <3>3. CASE GetHeader \/ FillPacket \/ TransmitPacket \/ AbortGet \/ GetFinish
      BY <3>3 DEF GetHeader, FillPacket, TransmitPacket, AbortGet, GetFinish, HostKeeps
    <3> QED BY <1>8, <3>1, <3>2, <3>3
  <2>3. ask # NoAsk /\ ~ (gone /\ status = OK)
    BY <1>1, <2>1 DEF CancelInv, Idle
  <2> QED BY <1>1, <2>2, <2>3 DEF CancelInv
<1> QED BY <1>2, <1>3, <1>4, <1>5, <1>6, <1>7, <1>8, AsksCommand DEF Next, Host, Device

LEMMA AskStep ==
  ASSUME TransferInv, Next
  PROVE  AskInv'
<1>1. AskInv
  BY DEF TransferInv
<1>2. ASSUME AskGetObject \/ AskGetPartialObject \/ AskSendObjectInfo \/ AskSendObject \/ AskOther
      PROVE  AskInv'
  <2>1. PICK c \in Commands :
          /\ ask' = c
          /\ c.off \in Offsets \cup {0} /\ c.off <= c.n
          /\ c.t # "GetPartialObject" => c.off = 0
          /\ c.t = "SendObjectInfo" => c.n \in Sizes
          /\ c.t = "SendObject" => c.n \in granted
          /\ granted' = granted /\ trouble' = trouble
    BY <1>2, AsksCommand DEF HostAsks
  <2> QED BY <1>1, <2>1 DEF AskInv
<1>3. CASE HostDone
  <2>1. ask' = NoAsk /\ trouble' = trouble
    BY <1>3 DEF HostDone
  <2>2. granted' \subseteq granted \/ (ask.t = "SendObjectInfo" /\ granted' \subseteq {ask.n})
    BY <1>3 DEF HostDone
  <2>3. /\ NoAsk.t = "none" /\ NoAsk.off = 0 /\ NoAsk.n = 0
    BY DEF NoAsk, Command
  <2> QED BY <1>1, <2>1, <2>2, <2>3 DEF AskInv
<1>4. ASSUME ask' = ask, granted' = granted,
             trouble' = trouble \/ (trouble' = trouble + 1 /\ trouble < MaxTrouble)
      PROVE  AskInv'
  <2>1. trouble' \in 0 .. MaxTrouble
    BY <1>1, <1>4, Constants DEF AskInv
  <2> QED BY <1>1, <1>4, <2>1 DEF AskInv
<1>5. CASE HostSends \/ HostStops \/ HostCancels
  BY <1>4, <1>5 DEF HostSends, HostStops, HostCancels
<1>6. CASE Pause \/ WriteFails
  BY <1>4, <1>6 DEF Pause, WriteFails, hostVars
<1>7. ASSUME Device, ~ Pause, ~ WriteFails PROVE AskInv'
  <2>1. HostKeeps
    BY <1>7 DEF Device, Loop, LoopEnds, Respond, RespondFinish, ReadHeader, Receive, Timeout,
       ReadInfo, CreateObject, WriteData, Drain, CloseObject,
       GetHeader, FillPacket, TransmitPacket, AbortGet, GetFinish
  <2> QED BY <1>4, <2>1 DEF HostKeeps
<1> QED BY <1>2, <1>3, <1>5, <1>6, <1>7 DEF Next, Host, Device

-----------------------------------------------------------------------------
(* Parts of the invariant that are about what comes from the host.         *)

(* A handler that reads uses all of a packet at once. *)
LEMMA Consumes ==
  ASSUME TransferInv, ReadInfo \/ WriteData
  PROVE  /\ pc \in Reading /\ pc' = pc /\ size' = size
         /\ pos' = pos + Len(rx) /\ rx' = <<>>
         /\ WriteData => file' = file \o rx
<1>1. pc \in Reading /\ rx # <<>> /\ pos < size /\ pc' = pc /\ size' = size
  BY DEF ReadInfo, WriteData, Reading
<1>2. /\ rx \in Seq(Units) /\ Len(rx) \in Nat /\ pos \in Nat /\ size \in Nat
      /\ pos + Len(rx) <= size
  BY <1>1 DEF TransferInv, ReceiveInv
<1>3. Lesser(Len(rx), size - pos) = Len(rx) /\ Lesser(Len(rx), size) = Len(rx)
  BY <1>2 DEF Lesser
<1>4. SubSeq(rx, Len(rx) + 1, Len(rx)) = <<>> /\ SubSeq(rx, 1, Len(rx)) = rx
  BY <1>2, SubSeqEmpty, SubSeqFull
<1>5. CASE ReadInfo
  <2>1. pos' = pos + Len(rx) /\ rx' = SubSeq(rx, pos' - pos + 1, Len(rx))
    BY <1>3, <1>5 DEF ReadInfo
  <2>2. pos' - pos + 1 = Len(rx) + 1
    BY <1>2, <2>1
  <2>3. ~ WriteData
    BY <1>5 DEF ReadInfo, WriteData
  <2> QED BY <1>1, <1>4, <2>1, <2>2, <2>3
<1>6. CASE WriteData
  <2>1. pos' = pos + Len(rx) /\ rx' = SubSeq(rx, Len(rx) + 1, Len(rx))
        /\ file' = file \o SubSeq(rx, 1, Len(rx))
    BY <1>3, <1>6 DEF WriteData, Cut
  <2> QED BY <1>1, <1>4, <2>1
<1> QED BY <1>5, <1>6

(* A data phase that is read to its end has left nothing behind it. *)
LEMMA ReadToTheEnd ==
  ASSUME TransferInv, pc \in Reading, pos >= size
  PROVE  rx = <<>> /\ pos = size /\ (~ gone => out = <<>> /\ rest = <<>>)
<1>1. /\ rx \in Seq(Units) /\ Len(rx) \in Nat /\ pos \in Nat /\ size \in Nat
      /\ pos + Len(rx) <= size /\ size + 1 = Len(Incoming(ask))
  BY DEF TransferInv, ReceiveInv
<1>2. Len(rx) = 0 /\ pos = size
  BY <1>1
<1>3. rx = <<>>
  BY <1>1, <1>2
<1>4. ASSUME ~ gone PROVE out = <<>> /\ rest = <<>>
  <2>1. ask # NoAsk /\ ask \in Commands
    BY Now DEF Reading, Idle
  <2>2. out \in Seq(Seq(Item)) /\ rest \in Seq(Seq(Units))
    BY DEF TransferInv, FlowInv
  <2>3. PICK k \in Nat : Comes(k + 1) /\ Lesser(k * Packet, size + 1) = 1 + pos + Len(rx)
    BY <1>4, <2>1 DEF TransferInv, FlowInv
  <2> DEFINE q == Count(Incoming(ask))
  <2>4. q \in Nat /\ q * Packet < Len(Incoming(ask)) + Packet
    BY <2>1, IncomingIs, SentPacketsAre
  <2>5. k + 1 + Len(out) + Len(rest) <= q + 1
    BY <2>3 DEF Comes
  <2> HIDE DEF q
  <2>6. k * Packet \in Nat /\ Packet \in Nat /\ Packet > 1 /\ (k + 1) * Packet = k * Packet + Packet
    BY Constants
  <2>7. size + 1 <= k * Packet
    <3>1. Lesser(k * Packet, size + 1) = size + 1
      BY <1>1, <1>2, <2>3
    <3> QED BY <1>1, <2>6, <3>1 DEF Lesser
  <2>8. q <= k
    <3>1. SUFFICES ASSUME k + 1 <= q PROVE FALSE
      BY <2>4
    <3>2. (k + 1) * Packet <= q * Packet
      BY <2>4, <2>6, <3>1, TimesMonotonic
    <3>3. q * Packet \in Nat
      BY <2>4, <2>6
    <3> QED BY <1>1, <2>4, <2>6, <2>7, <3>2, <3>3
  <2>9. Len(out) = 0 /\ Len(rest) = 0
    <3>1. Len(out) \in Nat /\ Len(rest) \in Nat
      BY <2>2
    <3> QED BY <2>4, <2>5, <2>8, <3>1
  <2> QED BY <2>2, <2>9
<1> QED BY <1>2, <1>3, <1>4

LEMMA ReceiveStep ==
  ASSUME TransferInv, Next
  PROVE  ReceiveInv'
<1>1. /\ ReceiveInv /\ rx \in Seq(Units) /\ Len(rx) \in Nat /\ pos \in Nat /\ size \in Nat
      /\ pc \notin Reading => rx = <<>>
  BY DEF TransferInv, ReceiveInv
<1>2. ASSUME rx' = rx, pos' = pos, size' = size,
             rx = <<>>, pc' \notin Reading \cup Headers
      PROVE  ReceiveInv'
  BY <1>1, <1>2 DEF ReceiveInv
<1>3. ASSUME rx' = rx, pos' = pos, size' = size, pc' = pc, ask' = ask
      PROVE  ReceiveInv'
  BY <1>1, <1>3 DEF ReceiveInv
<1>4. CASE AskGetObject \/ AskGetPartialObject \/ AskSendObjectInfo \/ AskSendObject \/ AskOther
  <2>1. ask = NoAsk /\ rx' = rx /\ pos' = pos /\ size' = size /\ pc' = pc
    BY <1>4 DEF AskGetObject, AskGetPartialObject, AskSendObjectInfo, AskSendObject, AskOther,
       HostAsks, handler
  <2>2. pc \in Idle
    BY <2>1 DEF TransferInv, CancelInv
  <2>3. pc \notin Reading /\ pc \notin Headers
    BY <2>2 DEF Idle, Reading, Headers
  <2> QED BY <1>1, <1>2, <2>1, <2>3
<1>5. CASE HostDone
  <2>1. pc \in Idle /\ rx' = rx /\ pos' = pos /\ size' = size /\ pc' = pc
    BY <1>5, Now DEF HostDone, TransferInv, CancelInv, Idle, handler
  <2>2. pc \notin Reading /\ pc \notin Headers
    BY <2>1 DEF Idle, Reading, Headers
  <2> QED BY <1>1, <1>2, <2>1, <2>2
<1>6. CASE HostSends \/ HostStops \/ HostCancels
  BY <1>3, <1>6 DEF HostSends, HostStops, HostCancels, handler
<1>7. CASE Loop
  BY <1>7, TakesCommand DEF ReceiveInv, Headers, Reading
<1>8. CASE ReadHeader
  <2>1. ask' = ask
    BY <1>8 DEF ReadHeader, HostKeeps
  <2>2. /\ rx' \in Seq(Units) /\ pos' = 0 /\ size' \in Nat /\ pc' \in Reading
        /\ Len(rx') + 1 = Lesser(Packet, Len(Incoming(ask)))
        /\ \A i \in 1 .. Len(rx') : rx'[i] = Incoming(ask)[1 + i]
        /\ size' + 1 = Len(Incoming(ask))
    BY <1>8, TakesHeader DEF Reading
  <2>3. 0 + Len(rx') <= size' /\ Len(rx') \in Nat
    <3>1. ASSUME NEW m \in Nat, NEW l \in Nat, l + 1 = Lesser(Packet, m + 1) PROVE l <= m
      BY <3>1, Constants DEF Lesser
    <3>2. size' \in Nat /\ Len(rx') \in Nat
      BY <2>2
    <3>3. Len(rx') + 1 = Lesser(Packet, size' + 1)
      BY <2>2
    <3>4. Len(rx') <= size'
      BY <3>1, <3>2, <3>3
    <3> QED BY <3>2, <3>4
  <2>4. pc' \notin Headers
    BY <2>2 DEF Reading, Headers
  <2>5. 0 + 1 = 1 /\ 0 \in Nat
    OBVIOUS
  <2> QED BY <2>1, <2>2, <2>3, <2>4, <2>5 DEF ReceiveInv
<1>9. CASE Receive
  <2>1. ask' = ask /\ pos' = pos /\ size' = size /\ pc' = pc
    BY <1>9 DEF Receive, HostKeeps, handler
  <2>2. /\ pc \in Reading /\ rx' \in Seq(Units) /\ pos + Len(rx') <= size
        /\ \A i \in 1 .. Len(rx') : rx'[i] = Incoming(ask)[pos + 1 + i]
    BY <1>9, TakesPacket
  <2> QED BY <1>1, <2>1, <2>2 DEF ReceiveInv
<1>10. ASSUME pc \in Reading, pc' = pc, size' = size, ask' = ask, pos' = pos + Len(rx), rx' = <<>>
       PROVE  ReceiveInv'
  <2>1. pos + Len(rx) <= size /\ size + 1 = Len(Incoming(ask)) /\ pc \notin Headers
    BY <1>10 DEF TransferInv, ReceiveInv, Reading, Headers
  <2>2. pos' \in Nat /\ pos' + 0 <= size /\ Len(<<>>) = 0 /\ <<>> \in Seq(Units)
    BY <1>1, <1>10, <2>1
  <2>3. \A i \in 1 .. Len(rx') : rx'[i] = Incoming(ask)[pos' + 1 + i]
    BY <1>10
  <2> QED BY <1>1, <1>10, <2>1, <2>2, <2>3 DEF ReceiveInv
<1>11. CASE ReadInfo \/ WriteData
  <2>1. ask' = ask
    BY <1>11 DEF ReadInfo, WriteData, HostKeeps
  <2> QED BY <1>10, <1>11, <2>1, Consumes
<1>12. CASE Drain
  BY <1>10, <1>12 DEF Drain, HostKeeps, Reading
<1>13. ASSUME pc = "send", pc' = "drain", ask' = ask, pos' = pos, size' = size, rx' = rx
       PROVE  ReceiveInv'
  BY <1>1, <1>13 DEF ReceiveInv, Reading, Headers
<1>14. CASE WriteFails \/ Pause
  BY <1>13, <1>14 DEF WriteFails, Pause, GiveUp, hostVars
<1>15. CASE Timeout
  <2>1. ask' = ask /\ pos' = pos /\ size' = size /\ rx' = rx
    BY <1>15 DEF Timeout, HostKeeps
  <2>2. \/ pc = "send" /\ pc' = "drain"
        \/ pc' \in {"respond", "close"}
    BY <1>15 DEF Timeout, GiveUp
  <2>3. rx = <<>>
    <3>1. CASE pc \in Headers
      BY <1>1, <3>1 DEF Headers, Reading
    <3>2. CASE pc \notin Headers
      BY <1>15, <3>2 DEF Timeout, Headers
    <3> QED BY <3>1, <3>2
  <2> QED BY <1>2, <1>13, <2>1, <2>2, <2>3 DEF Reading, Headers
<1>16. CASE CreateObject \/ CloseObject
  <2>1. pos' = pos /\ size' = size /\ rx' = rx /\ pc' = "respond"
    BY <1>16 DEF CreateObject, CloseObject, handler
  <2>2. rx = <<>>
    <3>1. pc = "close" \/ (pc \in Reading /\ pos >= size)
      BY <1>16 DEF CreateObject, CloseObject, Reading
    <3>2. CASE pc = "close"
      BY <1>1, <3>2 DEF Reading
    <3> QED BY <3>1, <3>2, ReadToTheEnd
  <2> QED BY <1>2, <2>1, <2>2 DEF Reading, Headers
<1>17. CASE LoopEnds \/ Respond \/ RespondFinish \/ TransmitPacket \/ AbortGet \/ GetFinish
  <2>1. /\ pos' = pos /\ size' = size /\ rx' = rx
        /\ pc \notin Reading /\ pc' \notin Reading \cup Headers
    BY <1>17 DEF LoopEnds, Respond, RespondFinish, TransmitPacket, AbortGet, GetFinish,
       handler, Reading, Headers
  <2> QED BY <1>1, <1>2, <2>1
<1>18. CASE GetHeader
  <2>1. ask \in Commands /\ ask.off <= ask.n /\ cmd = ask
    BY <1>18, Now DEF GetHeader, TransferInv, PcInv, AskInv, Idle
  <2>2. ask.n \in Nat /\ ask.off \in Nat /\ ask.num \in Nat
    BY <2>1 DEF Commands
  <2>3. pos' = cmd.off /\ size' = ToSend /\ rx' = rx /\ pc = "get_header" /\ pc' = "get"
    BY <1>18 DEF GetHeader
  <2>4. pos' \in Nat /\ size' \in Nat
    BY <2>1, <2>2, <2>3 DEF ToSend, Lesser
  <2> QED BY <1>1, <2>3, <2>4 DEF ReceiveInv, Reading, Headers
<1>19. CASE FillPacket
  <2>1. pos' = pos + Fits /\ size' = size /\ rx' = rx /\ pc = "get" /\ pc' \in Sending /\ pos < size
    BY <1>19 DEF FillPacket, Sending
  <2>2. tx \in Seq(Units) /\ Len(tx) < Packet
    BY <2>1 DEF TransferInv, TransmitInv
  <2>3. Fits \in Nat
    BY <1>1, <2>1, <2>2, Constants DEF Fits, Lesser
  <2>4. pos' \in Nat
    BY <1>1, <2>1, <2>3
  <2> QED BY <1>1, <2>1, <2>4 DEF ReceiveInv, Reading, Headers, Sending
<1> QED BY <1>4, <1>5, <1>6, <1>7, <1>8, <1>9, <1>11, <1>12, <1>14, <1>15, <1>16, <1>17, <1>18, <1>19
        DEF Next, Host, Device

(* The packets under way, when one is taken, sent or given up. *)
LEMMA ComesOn ==
  ASSUME NEW k \in Nat, Comes(k), ask' = ask, ask \in Commands \cup {NoAsk},
         out \in Seq(Seq(Item)), rest \in Seq(Seq(Units))
  PROVE  /\ out # <<>> /\ out' = Tail(out) /\ rest' = rest => Comes(k + 1)'
         /\ rest # <<>> /\ rest' = Tail(rest) /\ out' = Append(out, Head(rest)) => Comes(k)'
         /\ rest' = <<>> /\ out' = out => Comes(k)'
         /\ rest' = rest /\ out' = out => Comes(k)'
<1> DEFINE q == Count(Incoming(ask)) + 1
           n == Len(out)
           m == Len(rest)
<1>1. /\ \A i \in 1 .. n : out[i] = Part(k + i - 1)
      /\ \A i \in 1 .. m : rest[i] = Part(k + n + i - 1)
      /\ k + n + m <= q /\ n \in Nat /\ m \in Nat
  BY DEF Comes
<1>2. \A i : Part(i)' = Part(i)
  BY DEF Part
<1>3. (Count(Incoming(ask)) + 1)' = q
  OBVIOUS
<1>4. ASSUME out # <<>>, out' = Tail(out), rest' = rest PROVE Comes(k + 1)'
  <2>1. /\ n > 0 /\ Len(out') = n - 1
        /\ \A i \in 1 .. n - 1 : out'[i] = out[i + 1]
    BY <1>1, <1>4, HeadTailProperties
  <2>2. \A i \in 1 .. Len(out') : out'[i] = Part((k + 1) + i - 1)
    <3>1. TAKE i \in 1 .. Len(out')
    <3>2. i + 1 \in 1 .. n /\ i \in 1 .. n - 1 /\ k + (i + 1) - 1 = (k + 1) + i - 1
      BY <1>1, <2>1
    <3> QED BY <1>1, <2>1, <3>2
  <2>3. \A i \in 1 .. m : rest[i] = Part((k + 1) + (n - 1) + i - 1)
    <3>1. TAKE i \in 1 .. m
    <3>2. k + n + i - 1 = (k + 1) + (n - 1) + i - 1
      BY <1>1
    <3> QED BY <1>1, <3>2
  <2>4. (k + 1) + (n - 1) + m <= q
    <3>1. (k + 1) + (n - 1) + m = k + n + m
      BY <1>1
    <3> QED BY <1>1, <3>1
  <2> QED BY <1>2, <1>3, <1>4, <2>1, <2>2, <2>3, <2>4 DEF Comes
<1>5. ASSUME rest # <<>>, rest' = Tail(rest), out' = Append(out, Head(rest)) PROVE Comes(k)'
  <2>1. /\ m > 0 /\ Len(rest') = m - 1 /\ Head(rest) = rest[1]
        /\ \A i \in 1 .. m - 1 : rest'[i] = rest[i + 1]
    BY <1>1, <1>5, HeadTailProperties
  <2>2. /\ Len(out') = n + 1 /\ out'[n + 1] = rest[1]
        /\ \A i \in 1 .. n : out'[i] = out[i]
    BY <1>5, <2>1
  <2>3. \A i \in 1 .. Len(out') : out'[i] = Part(k + i - 1)
    <3>1. TAKE i \in 1 .. Len(out')
    <3>2. CASE i \in 1 .. n
      BY <1>1, <2>2, <3>2
    <3>3. CASE i = n + 1
      <4>1. 1 \in 1 .. m /\ k + n + 1 - 1 = k + i - 1
        BY <1>1, <2>1, <3>3
      <4> QED BY <1>1, <2>2, <3>3, <4>1
    <3> QED BY <1>1, <2>2, <3>2, <3>3
  <2>4. \A i \in 1 .. Len(rest') : rest'[i] = Part(k + (n + 1) + i - 1)
    <3>1. TAKE i \in 1 .. Len(rest')
    <3>2. i + 1 \in 1 .. m /\ i \in 1 .. m - 1 /\ k + n + (i + 1) - 1 = k + (n + 1) + i - 1
      BY <1>1, <2>1
    <3> QED BY <1>1, <2>1, <3>2
  <2>5. k + (n + 1) + (m - 1) <= q
    <3>1. k + (n + 1) + (m - 1) = k + n + m
      BY <1>1
    <3> QED BY <1>1, <3>1
  <2> QED BY <1>2, <1>3, <2>1, <2>2, <2>3, <2>4, <2>5 DEF Comes
<1>6. ASSUME rest' = <<>>, out' = out PROVE Comes(k)'
  <2>1. Len(<<>>) = 0 /\ 1 .. 0 = {}
    OBVIOUS
  <2>3. k + n + 0 <= q
    <3>1. q \in Int
      <4>1. Incoming(ask) \in Seq(Units)
        BY IncomingIs
      <4>2. Count(Incoming(ask)) \in Nat
        BY <4>1, SentPacketsAre
      <4> QED BY <4>2
    <3> QED BY <1>1, <3>1
  <2> QED BY <1>1, <1>2, <1>3, <1>6, <2>1, <2>3 DEF Comes
<1>7. ASSUME rest' = rest, out' = out PROVE Comes(k)'
  BY <1>1, <1>2, <1>3, <1>7 DEF Comes
<1> QED BY <1>4, <1>5, <1>6, <1>7

LEMMA FlowStep ==
  ASSUME TransferInv, Next
  PROVE  FlowInv'
<1>1. /\ FlowInv /\ out \in Seq(Seq(Item)) /\ rest \in Seq(Seq(Units))
      /\ ask \in Commands \cup {NoAsk}
      /\ pos \in Nat /\ size \in Nat /\ rx \in Seq(Units) /\ Len(rx) \in Nat
      /\ pc \notin Reading => rx = <<>>
  BY DEF TransferInv, FlowInv, AskInv, ReceiveInv
<1>2. \A s \in Seq(Units) : s \in Seq(Item)
  BY SeqMonotonic DEF Item
<1>3. out # <<>> => Tail(out) \in Seq(Seq(Item))
  BY <1>1
<1>4. ASSUME out' = out, rest' = rest, ask' = ask, gone' = gone, pc \notin Reading \cup Headers,
             pc' = pc \/ (pc \notin Idle /\ pc' \notin Reading \cup Headers \cup Idle)
               \/ (pc \notin Idle /\ in' # <<>> /\ pc' \in Idle),
             pc \in Idle => in' = in
      PROVE  FlowInv'
  <2>1. ask # NoAsk /\ ~ gone /\ pc \in Idle /\ in = <<>> => Comes(0)'
    BY <1>1, <1>4, ComesOn DEF FlowInv
  <2>2. CASE pc \in Idle
    BY <1>1, <1>4, <2>1, <2>2 DEF FlowInv, Idle, Reading, Headers
  <2>3. CASE pc \notin Idle
    <3>1. ask # NoAsk /\ ~ gone => out = <<>> /\ rest = <<>>
      BY <1>1, <1>4, <2>3 DEF FlowInv
    <3>2. pc' \notin Reading \cup Headers
      BY <1>4, <2>3 DEF Reading, Headers, Idle
    <3>3. ~ (pc' \in Idle /\ in' = <<>>)
      BY <1>4, <2>3
    <3> QED BY <1>1, <1>4, <3>1, <3>2, <3>3 DEF FlowInv
  <2> QED BY <2>2, <2>3
<1>5. ASSUME out' \in Seq(Seq(Item)), rest' \in Seq(Seq(Units)), ask' = NoAsk \/ gone'
      PROVE  FlowInv'
  BY <1>5 DEF FlowInv
<1>6. CASE AskGetObject \/ AskGetPartialObject \/ AskSendObjectInfo \/ AskSendObject \/ AskOther
  <2>1. PICK c \in Commands, packets \in Seq(Seq(Units)) :
          /\ HostAsks(c, packets)
          /\ Len(packets) <= Count(Incoming(c))
          /\ \A i \in 1 .. Len(packets) : packets[i] = Piece(Incoming(c), i)
    BY <1>6, AsksCommand
  <2>2. /\ ask = NoAsk /\ ask' = c /\ rest' = packets /\ out' = Append(out, <<c>>)
        /\ pc' = pc /\ in' = in
    BY <2>1 DEF HostAsks, transmitter
  <2>3. pc \in Idle /\ out = <<>> /\ in = <<>>
    BY <2>2 DEF TransferInv, CancelInv
  <2>4. out' = << <<c>> >> /\ <<c>> \in Seq(Item)
    BY <2>2, <2>3 DEF Item
  <2>5. Part(0)' = <<c>> /\ \A i \in Nat \ {0} : Part(i)' = Piece(Incoming(c), i)
    BY <2>2 DEF Part
  <2>6. Comes(0)'
    <3>1. Len(out') = 1 /\ out'[1] = <<c>>
      BY <2>4
    <3>2. \A i \in 1 .. Len(out') : out'[i] = Part(0 + i - 1)'
      BY <2>5, <3>1
    <3>3. \A i \in 1 .. Len(rest') : rest'[i] = Part(0 + 1 + i - 1)'
      <4>1. TAKE i \in 1 .. Len(rest')
      <4>2. i \in Nat \ {0} /\ 0 + 1 + i - 1 = i
        OBVIOUS
      <4> QED BY <2>1, <2>2, <2>5, <4>2
    <3>4. 0 + 1 + Len(rest') <= Count(Incoming(c)) + 1
      <4>1. Incoming(c) \in Seq(Units)
        BY IncomingIs
      <4>2. Count(Incoming(c)) \in Nat
        BY <4>1, SentPacketsAre
      <4>3. packets \in Seq(Seq(Units)) /\ Len(packets) \in Nat
        OBVIOUS
      <4> QED BY <2>1, <2>2, <4>2, <4>3
    <3> QED BY <2>2, <3>1, <3>2, <3>3, <3>4 DEF Comes
  <2>7. out' \in Seq(Seq(Item)) /\ rest' \in Seq(Seq(Units))
    <3>1. << <<c>> >> \in Seq(Seq(Item))
      BY <2>4
    <3>2. packets \in Seq(Seq(Units))
      OBVIOUS
    <3> QED BY <2>2, <2>4, <3>1, <3>2
  <2> QED BY <2>2, <2>3, <2>6, <2>7 DEF FlowInv, Idle, Reading, Headers
<1>7. CASE HostSends \/ HostStops
  <2>1. /\ ask' = ask /\ gone' = gone /\ pc' = pc /\ in' = in /\ pos' = pos /\ size' = size
        /\ rx' = rx /\ rest # <<>>
        /\ \/ rest' = Tail(rest) /\ out' = Append(out, Head(rest))
           \/ rest' = <<>> /\ out' = out
    BY <1>7 DEF HostSends, HostStops, handler, transmitter
  <2>2. \A k \in Nat : Comes(k) => Comes(k)'
    BY <1>1, <2>1, ComesOn
  <2>3. out' \in Seq(Seq(Item)) /\ rest' \in Seq(Seq(Units))
    <3>1. Head(rest) \in Seq(Units) /\ Tail(rest) \in Seq(Seq(Units))
      BY <1>1, <2>1
    <3>2. Head(rest) \in Seq(Item)
      BY <1>2, <3>1
    <3>3. Append(out, Head(rest)) \in Seq(Seq(Item))
      BY <1>1, <3>2
    <3>4. <<>> \in Seq(Seq(Units))
      OBVIOUS
    <3>5. CASE rest' = Tail(rest) /\ out' = Append(out, Head(rest))
      BY <3>1, <3>3, <3>5
    <3>6. CASE rest' = <<>> /\ out' = out
      BY <1>1, <3>4, <3>6
    <3> QED BY <2>1, <3>5, <3>6
  <2>4. CASE ask # NoAsk /\ ~ gone
    <3>1. pc \in Reading \cup Headers \/ (pc \in Idle /\ in = <<>>)
      BY <1>1, <2>1, <2>4 DEF FlowInv
    <3>2. pc \in Idle /\ in = <<>> => Comes(0)'
      BY <1>1, <2>2, <2>4 DEF FlowInv
    <3>3. pc \in Headers => Comes(1)'
      BY <1>1, <2>2, <2>4 DEF FlowInv
    <3>4. pc \in Reading =>
            \E k \in Nat : Comes(k + 1)' /\ Lesser(k * Packet, size + 1) = 1 + pos + Len(rx)
      BY <1>1, <2>2, <2>4 DEF FlowInv
    <3> QED BY <2>1, <2>3, <2>4, <3>1, <3>2, <3>3, <3>4 DEF FlowInv
  <2>5. CASE ~ (ask # NoAsk /\ ~ gone)
    BY <1>5, <2>1, <2>3, <2>5
  <2> QED BY <2>4, <2>5
<1>8. CASE HostDone
  <2>1. out' = out /\ rest' = rest /\ ask' = NoAsk
    BY <1>8 DEF HostDone
  <2> QED BY <1>1, <1>5, <2>1
<1>9. CASE HostCancels
  <2>1. out' = <<>> /\ rest' = <<>> /\ gone'
    BY <1>9 DEF HostCancels
  <2> QED BY <1>5, <2>1
<1>10. CASE Loop
  <2>1. /\ ask' = ask /\ rest' = rest /\ out' = Tail(out) /\ ask # NoAsk
        /\ Comes(0) /\ out # <<>> /\ ask \in Commands
        /\ pc' \in Headers \cup {"get_header", "respond"}
        /\ pc' \notin Headers => ask.t \notin {"SendObjectInfo", "SendObject"}
    BY <1>10, TakesCommand DEF Loop, HostKeeps, Headers
  <2>2. Comes(0 + 1)'
    BY <1>1, <2>1, ComesOn
  <2>3. pc' \notin Headers => out' = <<>> /\ rest' = <<>>
    <3>1. SUFFICES ASSUME pc' \notin Headers PROVE out' = <<>> /\ rest' = <<>>
      OBVIOUS
    <3>2. Incoming(ask) = <<>> /\ <<>> \in Seq(Units) /\ Len(<<>>) = 0
      BY <2>1, <3>1, IncomingIs
    <3>3. Count(<<>>) = 0
      <4>1. Count(<<>>) \in Nat /\ Count(<<>>) * Packet < 0 + Packet /\ Packet \in Nat
        BY <3>2, SentPacketsAre, Constants
      <4>2. \A q \in Nat : q > 0 => q * Packet >= Packet
        <5>1. TAKE q \in Nat
        <5>2. q > 0 => 1 * Packet <= q * Packet
          BY <4>1, TimesMonotonic
        <5> QED BY <4>1, <5>2
      <4> QED BY <4>1, <4>2
    <3>4. Len(out) > 0 /\ Len(out) \in Nat /\ Len(rest) \in Nat
          /\ Len(Tail(out)) = Len(out) - 1 /\ Tail(out) \in Seq(Seq(Item))
      BY <1>1, <2>1
    <3>5. 0 + Len(out) + Len(rest) <= 0 + 1
      BY <2>1, <3>2, <3>3 DEF Comes
    <3>6. Len(Tail(out)) = 0 /\ Len(rest) = 0
      BY <3>4, <3>5
    <3> QED BY <1>1, <2>1, <3>4, <3>6
  <2>4. pc' \notin Reading /\ pc' \notin Idle /\ 0 + 1 = 1
    BY <2>1 DEF Reading, Idle, Headers
  <2>5. out' \in Seq(Seq(Item)) /\ rest' \in Seq(Seq(Units))
    BY <1>1, <1>3, <2>1
  <2> QED BY <2>2, <2>3, <2>4, <2>5 DEF FlowInv
<1>11. ASSUME NEW k \in Nat, Comes(k + 1), out # <<>>, out' = Tail(out), rest' = rest, ask' = ask,
              pc' \in Reading, Lesser((k + 1) * Packet, size' + 1) = 1 + pos' + Len(rx')
       PROVE  FlowInv'
  <2>1. Comes((k + 1) + 1)' /\ k + 1 \in Nat
    BY <1>1, <1>11, ComesOn
  <2>2. pc' \notin Headers \cup Idle
    BY <1>11 DEF Reading, Idle, Headers
  <2> QED BY <1>1, <1>3, <1>11, <2>1, <2>2 DEF FlowInv
<1>12. CASE ReadHeader
  <2>1. /\ out' = Tail(out) /\ rest' = rest /\ ask' = ask /\ Comes(0 + 1) /\ out # <<>>
        /\ pc' \in Reading /\ pos' = 0 /\ rx' \in Seq(Units)
        /\ Len(rx') + 1 = Lesser(Packet, size' + 1)
    BY <1>12, TakesHeader DEF ReadHeader, HostKeeps, Reading
  <2>2. (0 + 1) * Packet = Packet /\ Len(rx') \in Nat
    BY <2>1, Constants
  <2>3. Lesser((0 + 1) * Packet, size' + 1) = 1 + pos' + Len(rx')
    BY <2>1, <2>2
  <2> QED BY <1>11, <2>1, <2>3
<1>13. CASE Receive
  <2>1. /\ out' = Tail(out) /\ rest' = rest /\ ask' = ask /\ pc' = pc /\ size' = size /\ pos' = pos
    BY <1>13 DEF Receive, HostKeeps, handler
  <2>2. PICK k \in Nat :
          /\ Comes(k + 1) /\ out # <<>> /\ pc \in Reading
          /\ Lesser((k + 1) * Packet, size + 1) = 1 + pos + Len(rx')
    BY <1>13, TakesPacket
  <2> QED BY <1>11, <2>1, <2>2
<1>14. ASSUME pc \in Reading, pc' \in Reading, out' = out, rest' = rest, ask' = ask, gone' = gone,
              size' = size, 1 + pos' + Len(rx') = 1 + pos + Len(rx)
       PROVE  FlowInv'
  <2>1. CASE ask # NoAsk /\ ~ gone
    <3>1. PICK k \in Nat : Comes(k + 1) /\ Lesser(k * Packet, size + 1) = 1 + pos + Len(rx)
      BY <1>1, <1>14, <2>1 DEF FlowInv
    <3>2. Comes(k + 1)'
      BY <1>1, <1>14, <3>1, ComesOn
    <3>3. pc' \notin Headers \cup Idle
      BY <1>14 DEF Reading, Idle, Headers
    <3> QED BY <1>1, <1>14, <3>1, <3>2, <3>3 DEF FlowInv
  <2>2. CASE ~ (ask # NoAsk /\ ~ gone)
    BY <1>1, <1>5, <1>14, <2>2
  <2> QED BY <2>1, <2>2
<1>15. CASE ReadInfo \/ WriteData \/ Drain
  <2>1. out' = out /\ rest' = rest /\ ask' = ask /\ gone' = gone
    BY <1>15 DEF ReadInfo, WriteData, Drain, HostKeeps
  <2>2. pc \in Reading /\ pc' = pc /\ size' = size /\ pos' = pos + Len(rx) /\ rx' = <<>>
    BY <1>15, Consumes DEF Drain, Reading
  <2>3. 1 + pos' + Len(rx') = 1 + pos + Len(rx)
    <3>1. Len(rx') = 0
      BY <2>2
    <3> QED BY <1>1, <2>2, <3>1
  <2> QED BY <1>14, <2>1, <2>2, <2>3
<1>16. CASE WriteFails \/ Pause
  BY <1>14, <1>16 DEF WriteFails, Pause, GiveUp, hostVars, handler, Reading
<1>17. ASSUME out' = out, rest' = rest, ask' = ask, gone' = gone,
              gone \/ (out = <<>> /\ rest = <<>>), pc' \notin Headers \cup Reading \cup Idle
       PROVE  FlowInv'
  BY <1>1, <1>17 DEF FlowInv
<1>18. CASE Timeout
  <2>1. /\ out' = out /\ rest' = rest /\ ask' = ask /\ gone' = gone
        /\ size' = size /\ pos' = pos /\ rx' = rx
        /\ status # OK \/ HostSilent
    BY <1>18 DEF Timeout, HostKeeps
  <2>2. \/ pc = "send" /\ pc' = "drain"
        \/ pc' \in {"respond", "close"}
    BY <1>18 DEF Timeout, GiveUp
  <2>3. gone \/ (out = <<>> /\ rest = <<>>)
    BY <2>1, Now DEF HostSilent
  <2>4. CASE pc = "send" /\ pc' = "drain"
    BY <1>14, <2>1, <2>4 DEF Reading
  <2>5. CASE pc' \in {"respond", "close"}
    BY <1>17, <2>1, <2>3, <2>5 DEF Headers, Reading, Idle
  <2> QED BY <2>2, <2>4, <2>5
<1>19. CASE CreateObject \/ CloseObject
  <2>1. out' = out /\ rest' = rest /\ ask' = ask /\ gone' = gone /\ pc' = "respond"
    BY <1>19 DEF CreateObject, CloseObject, HostKeeps
  <2>2. gone \/ (out = <<>> /\ rest = <<>>)
    <3>1. pc = "close" \/ (pc \in Reading /\ pos >= size)
      BY <1>19 DEF CreateObject, CloseObject, Reading
    <3>2. CASE pc = "close"
      <4>1. pc \notin Headers \cup Reading \cup Idle
        BY <3>2 DEF Headers, Reading, Idle
      <4> QED BY <1>1, <4>1, Now DEF FlowInv
    <3> QED BY <3>1, <3>2, ReadToTheEnd
  <2> QED BY <1>17, <2>1, <2>2 DEF Headers, Reading, Idle
<1>20. CASE LoopEnds
  <2>1. /\ out' = out /\ rest' = rest /\ ask' = ask /\ gone' = gone /\ in' = in
        /\ pc \in Idle /\ pc' \in Idle /\ pc \notin Reading \cup Headers /\ pc' \notin Reading \cup Headers
    BY <1>20 DEF LoopEnds, HostKeeps, transmitter, Idle, Reading, Headers
  <2>2. ask # NoAsk /\ ~ gone /\ in = <<>> => Comes(0)'
    BY <1>1, <2>1, ComesOn DEF FlowInv
  <2> QED BY <1>1, <2>1, <2>2 DEF FlowInv
<1>21. CASE Respond \/ AbortGet \/ RespondFinish
  <2>1. out' = out /\ rest' = rest /\ ask' = ask /\ gone' = gone
    BY <1>21 DEF Respond, AbortGet, RespondFinish, HostKeeps
  <2>2. CASE gone
    BY <1>1, <1>5, <2>1, <2>2
  <2>3. CASE ~ gone
    <3>1. status = OK
      BY <2>3, Now
    <3>2. CASE Respond
      <4>1. pc = "respond" /\ pc' = "respond_finish"
        BY <3>1, <3>2 DEF Respond
      <4> QED BY <1>4, <2>1, <4>1 DEF Idle, Reading, Headers
    <3>3. CASE RespondFinish
      <4>1. pc = "respond_finish" /\ pc' = "reset"
        BY <3>3 DEF RespondFinish
      <4>2. in' # <<>>
        <5>1. tx # <<>>
          BY <4>1 DEF TransferInv, TransmitInv
        <5>2. in' = Append(in, tx)
          BY <3>1, <3>3, <5>1 DEF RespondFinish, WriteFinish, Transmit
        <5>3. in \in Seq(Seq(Units)) /\ tx \in Seq(Units)
          BY DEF TransferInv, AnswerInv, TransmitInv
        <5> QED BY <5>2, <5>3
      <4> QED BY <1>4, <2>1, <4>1, <4>2 DEF Idle, Reading, Headers
    <3>4. CASE AbortGet
      BY <3>1, <3>4 DEF AbortGet
    <3> QED BY <1>21, <3>2, <3>3, <3>4
  <2> QED BY <2>2, <2>3
<1>22. CASE GetHeader \/ FillPacket \/ TransmitPacket \/ GetFinish
  <2>1. out' = out /\ rest' = rest /\ ask' = ask /\ gone' = gone
    BY <1>22 DEF GetHeader, FillPacket, TransmitPacket, GetFinish, HostKeeps
  <2>2. pc \in Getting /\ pc' \in Sending \cup {"respond"}
    BY <1>22 DEF GetHeader, FillPacket, TransmitPacket, GetFinish, Getting, Sending
  <2> QED BY <1>4, <2>1, <2>2 DEF Getting, Sending, Idle, Reading, Headers
<1> QED BY <1>6, <1>7, <1>8, <1>9, <1>10, <1>12, <1>13, <1>15, <1>16, <1>18, <1>19, <1>20,
           <1>21, <1>22
        DEF Next, Host, Device

-----------------------------------------------------------------------------
(* Parts of the invariant that are about what goes to the host.            *)

(* The device does one of what concerns transmit_buffer, or leaves it. *)
LEMMA TransmitterKept ==
  ASSUME Loop \/ LoopEnds \/ ReadHeader \/ Receive \/ Timeout \/ Pause \/ ReadInfo \/ CreateObject
           \/ WriteData \/ WriteFails \/ Drain \/ CloseObject
  PROVE  /\ tx' = tx /\ open' = open /\ in' = in /\ ask' = ask /\ gone' = gone
         /\ pc \notin Sending \cup {"respond_finish", "get_header"}
         /\ pc' \notin Sending \cup {"respond_finish"}
         /\ pc' \in Idle => pc \in Idle
<1>1. CASE Loop
  <2>1. pc' \in {"reset", "respond", "info_header", "send_header", "get_header"} /\ pc = "loop"
    <3>1. \A t \in DOMAIN Handlers : Handlers[t] \in {"respond", "info_header", "send_header", "get_header"}
      BY DEF Handlers
    <3> QED BY <1>1, <3>1 DEF Loop
  <2> QED BY <1>1, <2>1 DEF Loop, HostKeeps, transmitter, Sending, Idle
<1>2. CASE LoopEnds \/ ReadHeader \/ Receive \/ ReadInfo \/ CreateObject
  BY <1>2 DEF LoopEnds, ReadHeader, Receive, ReadInfo, CreateObject, HostKeeps, transmitter,
     Sending, Idle
<1>3. CASE WriteData \/ WriteFails \/ Drain \/ CloseObject
  BY <1>3 DEF WriteData, WriteFails, Drain, CloseObject, HostKeeps, hostVars, transmitter, Sending, Idle
<1>4. CASE Timeout \/ Pause
  <2>1. \/ pc \in {"info_header", "info", "send_header"} /\ pc' = "respond"
        \/ pc = "send" /\ pc' = "drain"
        \/ pc = "drain" /\ pc' = "close"
    BY <1>4 DEF Timeout, Pause, GiveUp
  <2> QED BY <1>4, <2>1 DEF Timeout, Pause, HostKeeps, hostVars, transmitter, Sending, Idle
<1> QED BY <1>1, <1>2, <1>3, <1>4

(* A unit that is written to an empty buffer stays there. *)
LEMMA Writes ==
  ASSUME NEW u, Write(u), tx = <<>>
  PROVE  tx' = <<u>> /\ in' = in /\ open' = open
<1>1. Len(tx) + 1 < Packet
  BY Constants
<1> QED BY <1>1 DEF Write

(* transmit_bulk empties the buffer. *)
LEMMA Transmits ==
  ASSUME TransferInv, RespondFinish \/ TransmitPacket \/ GetFinish
  PROVE  /\ tx' = <<>> /\ open' \in BOOLEAN
         /\ ask' = ask /\ gone' = gone /\ pos' = pos /\ size' = size
         /\ \/ in' = in /\ (gone \/ (tx = <<>> /\ ~ open /\ GetFinish))
            \/ in' = Append(in, tx) /\ open' = (tx # <<>> /\ Len(tx) % Packet = 0) /\ ~ gone
<1>1. open \in BOOLEAN /\ pc \notin Idle
  BY DEF TransferInv, TransmitInv, RespondFinish, TransmitPacket, GetFinish, Idle
<1>2. gone' = gone /\ ask' = ask /\ pos' = pos /\ size' = size
  BY DEF RespondFinish, TransmitPacket, GetFinish, HostKeeps, handler
<1>3. status = OK <=> ~ gone
  BY <1>1, Now DEF Idle
<1>4. CASE Transmit(tx)
  BY <1>1, <1>2, <1>3, <1>4 DEF Transmit
<1>5. CASE ~ Transmit(tx)
  <2>1. tx = <<>> /\ ~ open /\ UNCHANGED transmitter
    BY <1>5 DEF RespondFinish, TransmitPacket, GetFinish, WriteFinish
  <2>2. ~ RespondFinish
    <3>1. RespondFinish => tx = <<ret>>
      BY DEF RespondFinish, TransferInv, TransmitInv
    <3> QED BY <2>1, <3>1
  <2>3. GetFinish
    BY <1>5, <2>2 DEF TransmitPacket
  <2> QED BY <1>1, <1>2, <2>1, <2>3 DEF transmitter
<1> QED BY <1>4, <1>5

(* What GetObject copies into its buffer: something, and as much as fits. *)
LEMMA Fills ==
  ASSUME TransferInv, FillPacket
  PROVE  /\ Fits \in Nat /\ Fits > 0
         /\ pc = "get" /\ pos' = pos + Fits /\ size' = size /\ in' = in /\ open' = open
         /\ ask' = ask /\ gone' = gone /\ ~ gone /\ pos' <= size
         /\ tx' \in Seq(Payload) /\ Len(tx') = Len(tx) + Fits /\ Len(tx') <= Packet
         /\ \A i \in 1 .. Len(tx) : tx'[i] = tx[i]
         /\ \A i \in 1 .. Fits : tx'[Len(tx) + i] = Byte(pos + i)
         /\ pos' < size => Len(tx') = Packet
         /\ pc' = IF Len(tx') >= Packet THEN "get_transmit" ELSE "get"
<1>1. /\ pc = "get" /\ pos < size /\ status = OK
      /\ tx' = tx \o SubSeq(Bytes(cmd.n), pos + 1, pos + Fits)
      /\ pos' = pos + Fits /\ size' = size /\ in' = in /\ open' = open /\ ask' = ask /\ gone' = gone
      /\ pc' = IF Len(tx') >= Packet THEN "get_transmit" ELSE "get"
  BY DEF FillPacket, HostKeeps
<1>2. /\ tx \in Seq(Payload) /\ Len(tx) \in Nat /\ Len(tx) < Packet /\ size = Amount(ask)
      /\ pos \in Nat /\ size \in Nat /\ Packet \in Nat
  BY <1>1, Constants DEF TransferInv, TransmitInv, ReceiveInv, Sending
<1>3. cmd = ask /\ ask \in Commands /\ ask.off <= ask.n /\ ~ gone
  BY <1>1, Now DEF TransferInv, PcInv, AskInv, Idle
<1>4. ask.n \in Nat /\ size <= ask.n
  BY <1>2, <1>3, AmountIs DEF Commands
<1>5. /\ Fits \in Nat /\ Fits > 0 /\ pos + Fits <= size /\ Len(tx) + Fits <= Packet
      /\ pos + Fits < size => Len(tx) + Fits = Packet
  <2>1. ASSUME NEW l \in Nat, NEW p \in Nat, NEW i \in Nat, NEW n \in Nat, NEW f \in Int,
               l < p, i < n, f = p - l \/ f = n - i, f <= p - l, f <= n - i
        PROVE  /\ f \in Nat /\ f > 0 /\ i + f <= n /\ l + f <= p
               /\ i + f < n => l + f = p
    BY ONLY <2>1
  <2>2. /\ Fits \in Int /\ Fits <= Packet - Len(tx) /\ Fits <= size - pos
        /\ Fits = Packet - Len(tx) \/ Fits = size - pos
    BY <1>2 DEF Fits, Lesser
  <2> QED BY <1>1, <1>2, <2>1, <2>2
<1> DEFINE f == Fits
           b == SubSeq(Bytes(ask.n), pos + 1, pos + f)
<1>6. f \in Nat
  BY <1>5
<1> HIDE DEF f
<1>7. b \in Seq(Payload) /\ Len(b) = f /\ \A i \in 1 .. f : b[i] = Byte(pos + i)
  <2>1. \A i \in pos + 1 .. pos + f : Bytes(ask.n)[i] = Byte(i) /\ Byte(i) \in Payload
    <3>1. TAKE i \in pos + 1 .. pos + f
    <3>2. i \in 1 .. ask.n /\ i \in Nat
      BY <1>2, <1>4, <1>5, <1>6 DEF f
    <3> QED BY <1>4, <3>2, StreamIs DEF Byte, Payload
  <2>2. /\ b \in Seq(Payload)
        /\ Len(b) = IF pos + 1 <= pos + f THEN (pos + f) - (pos + 1) + 1 ELSE 0
        /\ \A i \in 1 .. (pos + f) - (pos + 1) + 1 : b[i] = Bytes(ask.n)[(pos + 1) + i - 1]
    <3>1. pos + 1 \in Int /\ pos + f \in Int
      BY <1>2, <1>6
    <3> QED BY ONLY <2>1, <3>1, SubSeqProperties
  <2>3. Len(b) = f
    BY <1>2, <1>6, <2>2
  <2>4. \A i \in 1 .. f : b[i] = Byte(pos + i)
    <3>1. TAKE i \in 1 .. f
    <3>2. /\ i \in 1 .. (pos + f) - (pos + 1) + 1 /\ (pos + 1) + i - 1 = pos + i
          /\ pos + i \in pos + 1 .. pos + f
      BY <1>2, <1>6
    <3> QED BY <2>1, <2>2, <3>2
  <2> QED BY <2>2, <2>3, <2>4
<1>8. tx' = tx \o b
  BY <1>1, <1>3 DEF f
<1> HIDE DEF b
<1>9. /\ tx' \in Seq(Payload) /\ Len(tx') = Len(tx) + f
      /\ \A i \in 1 .. Len(tx) + f : tx'[i] = IF i <= Len(tx) THEN tx[i] ELSE b[i - Len(tx)]
  BY <1>2, <1>7, <1>8, ConcatProperties
<1>10. \A i \in 1 .. Len(tx) : tx'[i] = tx[i]
  BY <1>2, <1>6, <1>9
<1>11. \A i \in 1 .. f : tx'[Len(tx) + i] = Byte(pos + i)
  <2>1. TAKE i \in 1 .. f
  <2>2. /\ Len(tx) + i \in 1 .. Len(tx) + f /\ ~ (Len(tx) + i <= Len(tx))
        /\ (Len(tx) + i) - Len(tx) = i
    BY <1>2, <1>6
  <2> QED BY <1>7, <1>9, <2>2
<1> QED BY <1>1, <1>3, <1>5, <1>9, <1>10, <1>11 DEF f

LEMMA TransmitStep ==
  ASSUME TransferInv, Next
  PROVE  TransmitInv'
<1>1. /\ TransmitInv /\ tx \in Seq(Units) /\ open \in BOOLEAN
      /\ pc \notin Sending \cup {"respond_finish"} => tx = <<>>
  BY DEF TransferInv, TransmitInv
<1>2. ASSUME tx' = tx, open' = open,
             pc \notin Sending \cup {"respond_finish"}, pc' \notin Sending \cup {"respond_finish"}
      PROVE  TransmitInv'
  BY <1>1, <1>2 DEF TransmitInv, Sending
<1>3. ASSUME tx' = <<>>, open' \in BOOLEAN, pc' \notin Sending \cup {"respond_finish"}
      PROVE  TransmitInv'
  BY <1>3 DEF TransmitInv, Sending
<1>4. CASE AskGetObject \/ AskGetPartialObject \/ AskSendObjectInfo \/ AskSendObject \/ AskOther
  <2>1. ask = NoAsk /\ tx' = tx /\ open' = open /\ pc' = pc
    BY <1>4 DEF AskGetObject, AskGetPartialObject, AskSendObjectInfo, AskSendObject, AskOther,
       HostAsks, transmitter
  <2>2. pc \in Idle
    BY <2>1 DEF TransferInv, CancelInv
  <2> QED BY <1>2, <2>1, <2>2 DEF Idle, Sending
<1>5. CASE HostDone
  <2>1. pc \in Idle /\ tx' = tx /\ open' = open /\ pc' = pc
    BY <1>5, Now DEF HostDone, TransferInv, CancelInv, Idle
  <2> QED BY <1>2, <2>1 DEF Idle, Sending
<1>6. CASE HostSends \/ HostStops
  BY <1>1, <1>6 DEF HostSends, HostStops, handler, transmitter, TransmitInv, Amount
<1>7. CASE HostCancels
  <2>1. /\ tx' = tx /\ open' = open /\ pc' = pc /\ ret' = ret /\ size' = size /\ pos' = pos
        /\ in' = in /\ ask' = ask /\ ~ HeaderWaits
    BY <1>7 DEF HostCancels, handler, transmitter
  <2>2. pc = "get" /\ pos < size => tx = <<>>
    BY <1>1, <2>1 DEF HeaderWaits, TransmitInv
  <2> QED BY <1>1, <2>1, <2>2 DEF TransmitInv, Amount
<1>8. CASE Loop \/ LoopEnds \/ ReadHeader \/ Receive \/ Timeout \/ Pause \/ ReadInfo \/ CreateObject
             \/ WriteData \/ WriteFails \/ Drain \/ CloseObject
  BY <1>2, <1>8, TransmitterKept
<1>9. CASE Respond
  <2>1. tx = <<>> /\ ret \in Units
    BY <1>1, <1>9 DEF Respond, Sending, TransferInv, StoreInv, Units
  <2>2. CASE status = OK
    <3>1. tx' = <<ret>> /\ open' = open /\ pc' = "respond_finish" /\ ret' = ret
      BY <1>9, <2>1, <2>2, Writes DEF Respond, handler
    <3> QED BY <1>1, <2>1, <3>1 DEF TransmitInv, Sending
  <2>3. CASE status # OK
    <3>1. tx' = tx /\ open' = open /\ pc = "respond" /\ pc' = "reset"
      BY <1>9, <2>3 DEF Respond, transmitter
    <3> QED BY <1>2, <3>1 DEF Sending
  <2> QED BY <2>2, <2>3
<1>10. CASE RespondFinish \/ GetFinish
  BY <1>3, <1>10, Transmits DEF RespondFinish, GetFinish, Sending
<1>11. CASE TransmitPacket
  <2>1. size = Amount(ask) /\ pc' = "get"
    BY <1>1, <1>11 DEF TransmitPacket, TransmitInv, Sending
  <2>2. tx' = <<>> /\ open' \in BOOLEAN /\ size' = size /\ ask' = ask
    BY <1>11, Transmits
  <2>3. Len(<<>>) < Packet
    BY Constants
  <2> QED BY <2>1, <2>2, <2>3 DEF TransmitInv, Sending, Amount
<1>12. CASE GetHeader
  <2>1. tx = <<>> /\ in = <<>> /\ ~ gone /\ cmd = ask /\ ask \in Commands /\ ask.off <= ask.n
    BY <1>1, <1>12, Now DEF GetHeader, Sending, TransferInv, CancelInv, AnswerInv, PcInv, AskInv, Idle
  <2>2. tx' = <<Data(ToSend)>> /\ in' = in /\ open' = open
    BY <1>12, <2>1, Writes DEF GetHeader
  <2>3. pc' = "get" /\ size' = ToSend /\ ask' = ask /\ gone' = gone
    BY <1>12 DEF GetHeader, HostKeeps
  <2>4. ToSend = Amount(ask) /\ Amount(ask) \in Nat
    BY <2>1, AmountIs DEF ToSend, Amount, PartialSize
  <2>5. tx' \in Seq(Payload) /\ Len(tx') < Packet
    BY <2>2, <2>4, Constants DEF Data, Payload
  <2> QED BY <1>1, <2>1, <2>2, <2>3, <2>4, <2>5, PayloadIs DEF TransmitInv, Sending, Amount
<1>13. CASE FillPacket
  <2>1. /\ tx' \in Seq(Payload) /\ tx' \in Seq(Units) /\ Len(tx') \in Nat /\ Len(tx') <= Packet
        /\ open' = open /\ size' = size /\ ask' = ask
        /\ pc' = IF Len(tx') >= Packet THEN "get_transmit" ELSE "get"
        /\ pos' < size => Len(tx') = Packet
    BY <1>13, Fills, PayloadIs
  <2>2. size = Amount(ask)
    BY <1>1, <1>13, Fills DEF TransmitInv, Sending
  <2>3. \/ pc' = "get" /\ Len(tx') < Packet /\ ~ (pos' < size)
        \/ pc' = "get_transmit" /\ Len(tx') = Packet
    BY <2>1, Constants
  <2> QED BY <1>1, <2>1, <2>2, <2>3 DEF TransmitInv, Sending, Amount
<1>14. CASE AbortGet
  <2>1. tx' = tx /\ open' = open /\ pc = "get" /\ pos < size /\ pc' = "reset" /\ gone
    BY <1>14, Now DEF AbortGet, transmitter
  <2>2. tx = <<>>
    BY <1>1, <2>1 DEF TransmitInv
  <2> QED BY <1>1, <1>3, <2>1, <2>2 DEF Sending
<1> QED BY <1>4, <1>5, <1>6, <1>7, <1>8, <1>9, <1>10, <1>11, <1>12, <1>13, <1>14
        DEF Next, Host, Device

LEMMA AnswerStep ==
  ASSUME TransferInv, Next
  PROVE  AnswerInv'
<1>1. /\ in \in Seq(Seq(Units)) /\ (pc = "get_header" => in = <<>>)
      /\ IsAnswered => pc \in Idle /\ Answer.v <= ask.n /\ Kept(ask, Answer.t)
  BY DEF TransferInv, AnswerInv
<1>2. ASSUME in' = <<>> PROVE AnswerInv'
  <2>1. ~ IsAnswered'
    BY <1>2 DEF IsAnswered
  <2> QED BY <1>2, <2>1 DEF AnswerInv
<1>3. ASSUME in' = in, ask' = ask, file' = file, pc' = "get_header" => pc = "get_header",
             pc \in Idle => pc' \in Idle
      PROVE  AnswerInv'
  <2>1. IsAnswered' = IsAnswered /\ Answer' = Answer
    BY <1>3 DEF IsAnswered, Answer
  <2>2. Kept(ask, Answer.t) => Kept(ask, Answer.t)'
    BY <1>3 DEF Kept, Answer
  <2> QED BY <1>1, <1>3, <2>1, <2>2 DEF AnswerInv
<1>4. ASSUME in' = in, pc \notin Idle, pc' # "get_header"
      PROVE  AnswerInv'
  <2>1. ~ IsAnswered'
    BY <1>1, <1>4 DEF IsAnswered, Answer
  <2> QED BY <1>1, <1>4, <2>1 DEF AnswerInv
<1>5. ASSUME in' = Append(in, tx), tx \in Seq(Payload), pc' # "get_header"
      PROVE  AnswerInv'
  <2>1. in' \in Seq(Seq(Units)) /\ in'[Len(in')] = tx
    BY <1>1, <1>5, PayloadIs
  <2>2. ~ IsAnswered'
    <3>1. SUFFICES ASSUME tx # <<>> PROVE tx[1].t \notin Codes
      BY <2>1 DEF IsAnswered, Answer
    <3>2. tx[1] \in Payload
      BY <1>5, <3>1
    <3> QED BY <3>2, PayloadIs
  <2> QED BY <1>5, <2>1, <2>2 DEF AnswerInv
<1>6. CASE AskGetObject \/ AskGetPartialObject \/ AskSendObjectInfo \/ AskSendObject \/ AskOther
  <2>1. ask = NoAsk /\ in' = in
    BY <1>6 DEF AskGetObject, AskGetPartialObject, AskSendObjectInfo, AskSendObject, AskOther,
       HostAsks, transmitter
  <2> QED BY <1>2, <2>1 DEF TransferInv, CancelInv
<1>7. CASE HostDone
  BY <1>2, <1>7 DEF HostDone
<1>8. CASE HostSends \/ HostStops \/ HostCancels
  BY <1>3, <1>8 DEF HostSends, HostStops, HostCancels, transmitter, storeVars
<1>9. CASE Loop
  <2>1. in' = <<>>
    BY <1>9, TakesCommand DEF Loop, transmitter
  <2> QED BY <1>2, <2>1
<1>10. CASE LoopEnds
  BY <1>3, <1>10 DEF LoopEnds, HostKeeps, transmitter, storeVars, Idle
<1>11. CASE ReadHeader \/ Receive \/ Timeout \/ Pause \/ ReadInfo \/ CreateObject
             \/ WriteData \/ WriteFails \/ Drain \/ CloseObject
  <2>1. in' = in
    BY <1>11, TransmitterKept
  <2>2. pc \notin Idle
    BY <1>11 DEF ReadHeader, Receive, Timeout, Pause, ReadInfo, CreateObject,
       WriteData, WriteFails, Drain, CloseObject, Idle
  <2>3. pc' # "get_header"
    <3>1. CASE ReadHeader
      BY <3>1, TakesHeader
    <3>2. CASE Timeout \/ Pause
      BY <3>2 DEF Timeout, Pause, GiveUp
    <3>3. CASE Receive \/ ReadInfo \/ CreateObject \/ WriteData \/ WriteFails \/ Drain \/ CloseObject
      BY <3>3 DEF Receive, ReadInfo, CreateObject, WriteData, WriteFails, Drain, CloseObject, handler
    <3> QED BY <1>11, <3>1, <3>2, <3>3
  <2> QED BY <1>4, <2>1, <2>2, <2>3
<1>12. CASE Respond \/ GetHeader \/ FillPacket \/ AbortGet
  <2>1. pc \notin Idle /\ pc' # "get_header"
    BY <1>12 DEF Respond, GetHeader, FillPacket, AbortGet, Idle
  <2>2. in' = in
    <3>1. CASE Respond \/ GetHeader
      <4>1. tx = <<>>
        BY <3>1 DEF Respond, GetHeader, TransferInv, TransmitInv, Sending
      <4> QED BY <3>1, <4>1, Writes DEF Respond, GetHeader, transmitter
    <3>2. CASE FillPacket \/ AbortGet
      BY <3>2 DEF FillPacket, AbortGet, transmitter
    <3> QED BY <1>12, <3>1, <3>2
  <2> QED BY <1>4, <2>1, <2>2
<1>13. CASE TransmitPacket \/ GetFinish
  <2>1. pc \in Sending /\ pc \notin Idle /\ pc' # "get_header"
    BY <1>13 DEF TransmitPacket, GetFinish, Sending, Idle
  <2>2. tx \in Seq(Payload)
    BY <2>1 DEF TransferInv, TransmitInv
  <2> QED BY <1>4, <1>5, <1>13, <2>1, <2>2, Transmits
<1>14. CASE RespondFinish
  <2>1. /\ pc = "respond_finish" /\ pc \notin Idle /\ pc' = "reset" /\ ret' = ret /\ file' = file
        /\ ask' = ask
    BY <1>14 DEF RespondFinish, handler, storeVars, HostKeeps, Idle
  <2>2. /\ tx = <<ret>> /\ ret \in Units /\ ret.v <= ask.n /\ Kept(ask, ret.t)
    BY <2>1 DEF TransferInv, TransmitInv, StoreInv, Ends, Units
  <2>3. CASE in' = in
    BY <1>4, <2>1, <2>3
  <2>4. CASE in' = Append(in, tx)
    <3>1. in' \in Seq(Seq(Units)) /\ in'[Len(in')] = <<ret>>
      BY <1>1, <2>2, <2>4
    <3>2. Answer' = ret
      BY <3>1 DEF Answer
    <3>3. (Answer.v <= ask.n)' /\ Kept(ask, Answer.t)' /\ pc' \in Idle
      BY <2>1, <2>2, <3>2 DEF Kept, Idle
    <3> QED BY <2>1, <3>1, <3>3 DEF AnswerInv
  <2> QED BY <1>14, <2>3, <2>4, Transmits
<1> QED BY <1>6, <1>7, <1>8, <1>9, <1>10, <1>11, <1>12, <1>13, <1>14 DEF Next, Host, Device

LEMMA PrefixIs ==
  ASSUME NEW S, NEW s \in Seq(S), NEW t \in Seq(S), Len(s) <= Len(t),
         \A i \in 1 .. Len(s) : s[i] = t[i]
  PROVE  IsPrefixOf(s, t)
<1> DEFINE u == SubSeq(t, 1, Len(s))
<1>1. Len(s) \in Nat /\ Len(t) \in Nat /\ \A i \in 1 .. Len(s) : t[i] \in S
  OBVIOUS
<1>2. /\ u \in Seq(S)
      /\ Len(u) = IF 1 <= Len(s) THEN Len(s) - 1 + 1 ELSE 0
      /\ \A i \in 1 .. Len(s) - 1 + 1 : u[i] = t[1 + i - 1]
  BY <1>1, SubSeqProperties
<1> HIDE DEF u
<1>3. Len(u) = Len(s)
  BY <1>1, <1>2
<1>4. \A i \in 1 .. Len(s) : s[i] = u[i]
  <2>1. TAKE i \in 1 .. Len(s)
  <2>2. i \in 1 .. Len(s) - 1 + 1 /\ 1 + i - 1 = i
    BY <1>1
  <2> QED BY <1>2, <2>2
<1>5. s = u
  BY <1>2, <1>3, <1>4, SeqEqual
<1> QED BY <1>5 DEF IsPrefixOf, u

(* Nothing, and all, of what is expected. *)
LEMMA ExpectedPrefix ==
  ASSUME NEW c \in Commands, c.off = 0
  PROVE  IsPrefixOf(<<>>, Expected(c)) /\ IsPrefixOf(Expected(c), Expected(c))
<1>1. Expected(c) \in Seq(Seq(Units)) /\ Len(Expected(c)) \in Nat
  BY ExpectedIs
<1>2. <<>> \in Seq(Seq(Units)) /\ Len(<<>>) = 0 /\ 1 .. 0 = {}
  OBVIOUS
<1>3. IsPrefixOf(<<>>, Expected(c))
  <2>1. Len(<<>>) <= Len(Expected(c)) /\ \A i \in 1 .. Len(<<>>) : <<>>[i] = Expected(c)[i]
    BY <1>1, <1>2
  <2> QED BY <1>1, <1>2, <2>1, PrefixIs
<1>4. IsPrefixOf(Expected(c), Expected(c))
  BY <1>1, PrefixIs
<1> QED BY <1>3, <1>4

(* Full packets of an object are a beginning of its data phase. *)
LEMMA FullPackets ==
  ASSUME NEW n \in Nat, NEW s \in Seq(Seq(Units)), NEW l \in Nat, NEW p \in Nat, p <= n,
         Len(s) * Packet + l = p + 1,
         \A i \in 1 .. Len(s) : s[i] = Piece(Stream(n), i)
  PROVE  Len(s) <= (n + 1) \div Packet /\ IsPrefixOf(s, Packets(Stream(n)))
<1> DEFINE k == Len(s)
           q == (n + 1) \div Packet
           e == Packets(Stream(n))
<1>1. k \in Nat /\ Packet \in Nat \ {0} /\ k * Packet \in Nat /\ 0 \in 0 .. Packet - 1
  BY Constants
<1>2. k * Packet <= n + 1
  BY <1>1
<1>3. (k * Packet) \div Packet = k
  BY <1>1, DivUnique
<1>4. (k * Packet) \div Packet <= q
  <2> DEFINE x == k * Packet
             y == n + 1
  <2>1. x \in Nat /\ y \in Nat /\ x <= y
    BY <1>1, <1>2
  <2> HIDE DEF x, y
  <2>2. x \div Packet <= y \div Packet
    BY <1>1, <2>1, DivMonotonic
  <2> QED BY <2>2 DEF x, y
<1>5. k <= q
  BY <1>3, <1>4
<1>6. /\ e \in Seq(Seq(Units)) /\ q \in Nat /\ Len(e) = q + 1
      /\ \A i \in 1 .. Len(e) : e[i] = Piece(Stream(n), i)
  BY StreamPacketsAre
<1> HIDE DEF q, e
<1>7. Len(s) <= Len(e) /\ \A i \in 1 .. Len(s) : s[i] = e[i]
  BY <1>1, <1>5, <1>6
<1>8. IsPrefixOf(s, e)
  BY <1>6, <1>7, PrefixIs
<1> QED BY <1>5, <1>8 DEF q, e

LEMMA OrderStep ==
  ASSUME TransferInv, Next
  PROVE  OrderInv'
<1>1. /\ OrderInv /\ in \in Seq(Seq(Units)) /\ ask \in Commands \cup {NoAsk}
      /\ pos \in Nat /\ size \in Nat /\ tx \in Seq(Units) /\ Len(tx) \in Nat
  BY DEF TransferInv, AnswerInv, AskInv, ReceiveInv, TransmitInv
<1>2. Packet \in Nat /\ Packet > 1 /\ Len(in) \in Nat /\ Len(in) * Packet \in Nat
  BY <1>1, Constants
<1>3. ASSUME in' = in, ask' = ask, gone => gone',
             gone' \/ (pc \in Idle /\ pc' \in Idle)
               \/ (pc \notin Sending \cup Idle \cup {"get_header"}
                     /\ pc' \notin Sending \cup Idle \cup {"get_header"})
      PROVE  OrderInv'
  <2>1. Complete' = Complete
    BY <1>3 DEF Complete
  <2> QED BY <1>1, <1>3, <2>1 DEF OrderInv, Sending, Idle
<1>4. CASE AskGetObject \/ AskGetPartialObject \/ AskSendObjectInfo \/ AskSendObject \/ AskOther
  <2>1. PICK c \in Commands : ask' = c /\ ask = NoAsk /\ in' = in /\ pc' = pc
    BY <1>4, AsksCommand DEF HostAsks, transmitter
  <2>2. in' = <<>> /\ pc' \in Idle
    BY <2>1 DEF TransferInv, CancelInv
  <2>3. c.off = 0 => IsPrefixOf(<<>>, Expected(c))
    BY ExpectedPrefix
  <2> QED BY <2>1, <2>2, <2>3 DEF OrderInv, Idle, Sending
<1>5. CASE HostDone
  BY <1>5 DEF HostDone, OrderInv
<1>6. CASE HostSends \/ HostStops
  <2>1. /\ in' = in /\ ask' = ask /\ gone' = gone /\ pc' = pc /\ pos' = pos /\ size' = size
        /\ tx' = tx /\ open' = open
    BY <1>6 DEF HostSends, HostStops, handler, transmitter
  <2>2. Complete' = Complete /\ Shipped' = Shipped
    BY <2>1 DEF Complete, Shipped
  <2> QED BY <1>1, <2>1, <2>2 DEF OrderInv
<1>7. CASE HostCancels
  BY <1>3, <1>7 DEF HostCancels, transmitter
<1>8. CASE Loop
  <2>1. /\ ask # NoAsk /\ ask \in Commands /\ in' = <<>> /\ ask' = ask
        /\ pc' \in Headers \cup {"get_header", "respond"}
        /\ pc' = "get_header" <=> ask.t \in {"GetObject", "GetPartialObject"}
    BY <1>8, TakesCommand, TransmitterKept
  <2>2. ask.off = 0 => /\ IsPrefixOf(<<>>, Expected(ask))
                       /\ pc' # "get_header" => Expected(ask) = <<>>
    BY <2>1, ExpectedPrefix, ExpectedIs
  <2>3. pc' \notin Sending \cup Idle
    BY <2>1 DEF Sending, Idle, Headers
  <2> QED BY <2>1, <2>2, <2>3 DEF OrderInv, Sending, Idle
<1>9. CASE LoopEnds
  BY <1>3, <1>9 DEF LoopEnds, HostKeeps, transmitter, Idle
<1>10. CASE ReadHeader \/ Receive \/ Timeout \/ Pause \/ ReadInfo \/ CreateObject
             \/ WriteData \/ WriteFails \/ Drain \/ CloseObject
  <2>1. /\ in' = in /\ ask' = ask /\ gone' = gone
        /\ pc \notin Sending \cup {"get_header"} /\ pc' \notin Sending
    BY <1>10, TransmitterKept
  <2>2. pc \notin Idle
    BY <1>10 DEF ReadHeader, Receive, Timeout, Pause, ReadInfo, CreateObject,
       WriteData, WriteFails, Drain, CloseObject, Idle
  <2>3. pc' \notin Idle \cup {"get_header"}
    <3>1. CASE ReadHeader
      BY <3>1, TakesHeader DEF Idle
    <3>2. CASE Timeout \/ Pause
      BY <3>2 DEF Timeout, Pause, GiveUp, Idle
    <3>3. CASE Receive \/ ReadInfo \/ CreateObject \/ WriteData \/ WriteFails \/ Drain \/ CloseObject
      BY <3>3, <2>1, <2>2 DEF Receive, ReadInfo, CreateObject, WriteData, WriteFails, Drain,
         CloseObject, handler, Idle
    <3> QED BY <1>10, <3>1, <3>2, <3>3
  <2> QED BY <1>3, <2>1, <2>2, <2>3
<1>11. CASE Respond
  <2>1. ask' = ask /\ gone' = gone /\ pc = "respond"
    BY <1>11 DEF Respond, HostKeeps
  <2>2. in' = in
    <3>1. tx = <<>>
      BY <2>1 DEF TransferInv, TransmitInv, Sending
    <3> QED BY <1>11, <3>1, Writes DEF Respond, transmitter
  <2>3. gone' \/ pc' = "respond_finish"
    BY <1>11, <2>1, Now DEF Respond
  <2> QED BY <1>3, <2>1, <2>2, <2>3 DEF Sending, Idle
<1>12. CASE RespondFinish
  <2>1. pc = "respond_finish" /\ pc' = "reset" /\ ret' = ret
    BY <1>12 DEF RespondFinish, handler
  <2>2. /\ tx = <<ret>> /\ ret.t \in Codes /\ ret.v \in 0 .. ask.n /\ ret = Response(ret.t, ret.v)
    <3>1. tx = <<ret>> /\ ret \in [t : Codes, v : Nat] /\ ret.v <= ask.n /\ ask.n \in Nat
      <4>1. pc \notin Idle
        BY <2>1 DEF Idle
      <4> QED BY <2>1, <4>1, Now DEF TransferInv, TransmitInv, StoreInv, Ends
    <3> QED BY <3>1 DEF Response
  <2>3. ask' = ask /\ gone' = gone /\ ((in' = in /\ gone) \/ (in' = Append(in, tx) /\ ~ gone))
    BY <1>12, <2>2, Transmits
  <2>4. CASE gone
    BY <1>3, <2>3, <2>4
  <2>5. CASE ~ gone
    <3>1. ask # NoAsk /\ ask.off = 0 => in = Expected(ask)
      BY <1>1, <2>1, <2>5 DEF OrderInv, Sending, Idle
    <3>2. ask # NoAsk /\ ask.off = 0 => Complete'
      BY <2>2, <2>3, <2>5, <3>1 DEF Complete
    <3> QED BY <2>1, <2>3, <3>2 DEF OrderInv, Sending, Idle
  <2> QED BY <2>4, <2>5
<1>13. ASSUME ask' = ask, size' = size, pc' \in Sending, ask # NoAsk /\ ask.off = 0 => Shipped',
              in' \in Seq(Seq(Units)), pos' \in Nat, Len(tx') \in Nat, size = Amount(ask),
              ask.t \in {"GetObject", "GetPartialObject"}
       PROVE  OrderInv'
  <2>1. CASE ask # NoAsk /\ ask.off = 0
    <3>1. ask \in Commands /\ Expected(ask) = Packets(Stream(size))
      BY <1>1, <1>13, <2>1, ExpectedIs
    <3>2. /\ pos' <= size /\ Len(in') * Packet + Len(tx') = pos' + 1
          /\ \A i \in 1 .. Len(in') : in'[i] = Piece(Stream(size), i)
      BY <1>13, <2>1 DEF Shipped
    <3>3. IsPrefixOf(in', Packets(Stream(size)))
      BY <1>1, <1>13, <3>2, FullPackets
    <3> QED BY <1>13, <2>1, <3>1, <3>3 DEF OrderInv, Sending, Idle
  <2>2. CASE ~ (ask # NoAsk /\ ask.off = 0)
    BY <1>13, <2>2 DEF OrderInv
  <2> QED BY <2>1, <2>2
<1>14. CASE GetHeader
  <2>1. /\ tx = <<>> /\ in = <<>> /\ cmd = ask /\ ask \in Commands /\ ask.off <= ask.n
        /\ ask.t \in {"GetObject", "GetPartialObject"}
    BY <1>14, Now DEF GetHeader, Sending, Getting, TransferInv, TransmitInv, AnswerInv, PcInv, AskInv, Idle
  <2>2. tx' = <<Data(ToSend)>> /\ in' = <<>> /\ size' = ToSend /\ pos' = ask.off /\ pc' = "get" /\ ask' = ask
    BY <1>14, <2>1, Writes DEF GetHeader, HostKeeps
  <2>3. ToSend = Amount(ask) /\ Amount(ask) \in Nat
    BY <2>1, AmountIs DEF ToSend, Amount, PartialSize
  <2>4. ASSUME ask.off = 0 PROVE Shipped' /\ IsPrefixOf(in', Expected(ask))
    <3>1. Len(in') = 0 /\ Len(tx') = 1 /\ tx' # <<>> /\ 0 * Packet = 0 /\ tx'[1] = Data(size')
      BY <1>2, <2>2
    <3>2. Stream(size')[1] = Data(size') /\ size' \in Nat /\ pos' = 0 /\ pos' <= size'
      <4>1. size' \in Nat /\ pos' = 0
        BY <2>2, <2>3, <2>4
      <4>2. Stream(size')[1] = Data(size')
        BY <4>1, StreamIs
      <4> QED BY <4>1, <4>2
    <3>3. Len(in') * Packet + Len(tx') = pos' + 1
      BY <3>1, <3>2
    <3>4. \A i \in 1 .. Len(tx') : tx'[i] = Stream(size')[Len(in') * Packet + i]
      <4>1. TAKE i \in 1 .. Len(tx')
      <4>2. i = 1 /\ Len(in') * Packet + i = 1
        BY <3>1
      <4> QED BY <3>1, <3>2, <4>2
    <3>5. \A i \in 1 .. Len(in') : in'[i] = Piece(Stream(size'), i)
      BY <3>1
    <3> QED BY <2>1, <2>2, <2>4, <3>1, <3>2, <3>3, <3>4, <3>5, ExpectedPrefix DEF Shipped
  <2> QED BY <2>2, <2>4 DEF OrderInv, Sending, Idle
<1>15. pc \in Sending => /\ size = Amount(ask) /\ ask # NoAsk /\ ask.t \in {"GetObject", "GetPartialObject"}
                         /\ ask.off = 0 /\ ~ gone => Shipped
  BY <1>1, Now DEF TransferInv, TransmitInv, PcInv, OrderInv, Getting, Sending, Idle
<1>16. CASE FillPacket
  <2> DEFINE m == Len(in) * Packet
             l == Len(tx)
  <2>1. /\ Fits \in Nat /\ Fits > 0
        /\ pc = "get" /\ pos' = pos + Fits /\ size' = size /\ in' = in /\ open' = open
        /\ ask' = ask /\ ~ gone /\ pos' <= size
        /\ tx' \in Seq(Payload) /\ Len(tx') = l + Fits
        /\ \A i \in 1 .. l : tx'[i] = tx[i]
        /\ \A i \in 1 .. Fits : tx'[l + i] = Byte(pos + i)
        /\ pc' \in Sending
    BY <1>16, Fills DEF Sending
  <2>2. ASSUME ask.off = 0 PROVE Shipped'
    <3>1. /\ \A i \in 1 .. Len(in) : in[i] = Piece(Stream(size), i)
          /\ m + l = pos + 1
          /\ \A i \in 1 .. l : tx[i] = Stream(size)[m + i]
      BY <1>15, <2>1, <2>2 DEF Shipped, Sending
    <3>2. m \in Nat /\ l \in Nat
      BY <1>1, <1>2
    <3> DEFINE f == Fits
    <3>3. f \in Nat /\ f > 0 /\ pos + f <= size /\ Len(tx') = l + f
      BY <2>1
    <3>4. \A i \in 1 .. f : tx'[l + i] = Byte(pos + i)
      BY <2>1
    <3> HIDE DEF m, l, f
    <3>5. \A i \in 1 .. l + f : tx'[i] = Stream(size)[m + i]
      <4>1. TAKE i \in 1 .. l + f
      <4>2. CASE i <= l
        <5>1. i \in 1 .. l
          BY <3>2, <3>3, <4>2
        <5> QED BY <2>1, <3>1, <5>1
      <4>3. CASE ~ (i <= l)
        <5>1. PICK j \in 1 .. f : i = l + j
          <6>1. i - l \in 1 .. f /\ i = l + (i - l)
            BY <3>2, <3>3, <4>3
          <6> QED BY <6>1
        <5>2. m + i = (pos + j) + 1 /\ pos + j \in 1 .. size
          BY <1>1, <3>1, <3>2, <3>3, <5>1
        <5>3. Stream(size)[(pos + j) + 1] = Byte(pos + j)
          BY <1>1, <5>2, StreamIs
        <5> QED BY <3>4, <5>1, <5>2, <5>3
      <4> QED BY <4>2, <4>3
    <3>6. m + (l + f) = (pos + f) + 1 /\ l + f > 0
      BY <1>1, <3>1, <3>2, <3>3
    <3>7. pos' = pos + f
      BY <2>1 DEF f
    <3>8. tx' # <<>>
      BY <3>2, <3>3, <3>6
    <3> QED BY <2>1, <3>1, <3>3, <3>5, <3>6, <3>7, <3>8 DEF Shipped, m
  <2>3. pos' \in Nat /\ Len(tx') \in Nat /\ in' \in Seq(Seq(Units))
    BY <1>1, <2>1
  <2> QED BY <1>13, <1>15, <2>1, <2>2, <2>3 DEF Sending
<1>17. CASE TransmitPacket
  <2>1. pc = "get_transmit" /\ pc' = "get" /\ pc \in Sending /\ pc' \in Sending /\ Len(tx) = Packet
    BY <1>17 DEF TransmitPacket, TransferInv, TransmitInv, Sending
  <2>2. tx # <<>> /\ ~ GetFinish
    BY <1>2, <2>1 DEF GetFinish
  <2>3. /\ tx' = <<>> /\ ask' = ask /\ gone' = gone /\ pos' = pos /\ size' = size
        /\ \/ in' = in /\ gone
           \/ in' = Append(in, tx) /\ open' = (tx # <<>> /\ Len(tx) % Packet = 0) /\ ~ gone
    BY <1>17, <2>2, Transmits
  <2>4. CASE gone
    BY <1>3, <2>3, <2>4
  <2>5. CASE ~ gone
    <3>1. in' = Append(in, tx) /\ open' = (tx # <<>> /\ Len(tx) % Packet = 0)
      BY <2>3, <2>5
    <3>2. open'
      <4>1. Packet \in Nat \ {0} /\ 0 \in 0 .. Packet - 1 /\ 1 * Packet + 0 = Packet
        BY <1>2
      <4>2. (1 * Packet + 0) % Packet = 0
        BY <4>1, DivUnique
      <4>3. Packet % Packet = 0
        BY <4>1, <4>2
      <4> QED BY <2>1, <2>2, <3>1, <4>3
    <3>3. in' \in Seq(Seq(Units)) /\ Len(in') = Len(in) + 1 /\ in'[Len(in) + 1] = tx
          /\ \A i \in 1 .. Len(in) : in'[i] = in[i]
      BY <1>1, <3>1
    <3>4. ASSUME ask.off = 0 PROVE Shipped'
      <4> DEFINE k == Len(in)
      <4>1. /\ pos <= size
            /\ \A i \in 1 .. k : in[i] = Piece(Stream(size), i)
            /\ k * Packet + Packet = pos + 1
            /\ \A i \in 1 .. Packet : tx[i] = Stream(size)[k * Packet + i]
        BY <1>15, <2>1, <2>5, <3>4 DEF Shipped
      <4>2. k \in Nat /\ k * Packet \in Nat /\ (k + 1) * Packet = k * Packet + Packet
        BY <1>2
      <4>3. Stream(size) \in Seq(Units) /\ Len(Stream(size)) = size + 1
        BY <1>1, StreamIs, PayloadIs
      <4>4. Piece(Stream(size), k + 1) = tx
        <5>1. k + 1 \in Nat /\ k + 1 > 0 /\ (k + 1) - 1 = k /\ k * Packet <= size + 1
          BY <1>1, <1>2, <4>1, <4>2
        <5>2. /\ Piece(Stream(size), k + 1) \in Seq(Units)
              /\ Len(Piece(Stream(size), k + 1)) = Lesser((k + 1) * Packet, size + 1) - k * Packet
              /\ \A j \in 1 .. Len(Piece(Stream(size), k + 1)) :
                   Piece(Stream(size), k + 1)[j] = Stream(size)[k * Packet + j]
          BY <4>3, <5>1, PieceIs
        <5>3. (k + 1) * Packet = pos + 1 /\ pos + 1 <= size + 1
          BY <1>1, <4>1, <4>2
        <5>4. Lesser((k + 1) * Packet, size + 1) = pos + 1
          BY <1>1, <5>3 DEF Lesser
        <5>5. Len(Piece(Stream(size), k + 1)) = Packet
          BY <1>1, <1>2, <4>1, <4>2, <5>2, <5>4
        <5>6. \A j \in 1 .. Packet : Piece(Stream(size), k + 1)[j] = tx[j]
          BY <4>1, <5>2, <5>5
        <5> QED BY <1>1, <2>1, <5>2, <5>5, <5>6, SeqEqual
      <4>5. \A i \in 1 .. k + 1 : in'[i] = Piece(Stream(size), i)
        <5>1. TAKE i \in 1 .. k + 1
        <5>2. i \in 1 .. k \/ i = k + 1
          BY <4>2
        <5> QED BY <3>3, <4>1, <4>4, <5>2
      <4>6. (k + 1) * Packet + 0 = pos + 1 /\ Len(<<>>) = 0
        BY <1>1, <4>1, <4>2
      <4>7. \A i \in 1 .. Len(tx') : tx'[i] = Stream(size)[Len(in') * Packet + i]
        BY <2>3
      <4> QED BY <2>3, <3>2, <3>3, <4>1, <4>5, <4>6, <4>7 DEF Shipped
    <3>5. Len(tx') \in Nat
      BY <2>3
    <3> QED BY <1>1, <1>13, <1>15, <2>1, <2>3, <3>3, <3>4, <3>5
  <2> QED BY <2>4, <2>5
<1>18. CASE GetFinish
  <2>1. pc = "get" /\ pc' = "respond" /\ pc \in Sending /\ Len(tx) < Packet /\ pos >= size
    BY <1>18 DEF GetFinish, TransferInv, TransmitInv, Sending
  <2>2. /\ ask' = ask /\ gone' = gone
        /\ \/ in' = in /\ (gone \/ (tx = <<>> /\ ~ open))
           \/ in' = Append(in, tx) /\ ~ gone
    BY <1>18, Transmits
  <2>3. CASE gone
    BY <1>3, <2>2, <2>3
  <2>4. CASE ~ gone
    <3>1. ASSUME ask.off = 0 PROVE in' = Expected(ask)
      <4> DEFINE k == Len(in)
                 q == (size + 1) \div Packet
                 e == Packets(Stream(size))
      <4>1. /\ pos <= size
            /\ \A i \in 1 .. k : in[i] = Piece(Stream(size), i)
            /\ k * Packet + Len(tx) = pos + 1
            /\ \A i \in 1 .. Len(tx) : tx[i] = Stream(size)[k * Packet + i]
            /\ tx = <<>> => open
        BY <1>15, <2>1, <2>4, <3>1 DEF Shipped
      <4>2. pos = size /\ in' = Append(in, tx)
        BY <1>1, <2>1, <2>2, <2>4, <4>1
      <4>3. in' \in Seq(Seq(Units)) /\ Len(in') = k + 1 /\ in'[k + 1] = tx
            /\ \A i \in 1 .. k : in'[i] = in[i]
        BY <1>1, <4>2
      <4>4. k \in Nat /\ k * Packet \in Nat /\ (k + 1) * Packet = k * Packet + Packet
        BY <1>2
      <4>5. q = k
        <5>1. Packet \in Nat \ {0} /\ Len(tx) \in 0 .. Packet - 1 /\ size + 1 = k * Packet + Len(tx)
          BY <1>1, <1>2, <2>1, <4>1, <4>2, <4>4
        <5> QED BY <4>4, <5>1, DivUnique
      <4>6. Stream(size) \in Seq(Units) /\ Len(Stream(size)) = size + 1
        BY <1>1, StreamIs, PayloadIs
      <4>7. Piece(Stream(size), k + 1) = tx
        <5>1. k + 1 \in Nat /\ k + 1 > 0 /\ (k + 1) - 1 = k /\ k * Packet <= size + 1
          BY <1>1, <1>2, <4>1, <4>4
        <5>2. /\ Piece(Stream(size), k + 1) \in Seq(Units)
              /\ Len(Piece(Stream(size), k + 1)) = Lesser((k + 1) * Packet, size + 1) - k * Packet
              /\ \A j \in 1 .. Len(Piece(Stream(size), k + 1)) :
                   Piece(Stream(size), k + 1)[j] = Stream(size)[k * Packet + j]
          BY <4>6, <5>1, PieceIs
        <5>3. size + 1 <= (k + 1) * Packet
          BY <1>1, <1>2, <2>1, <4>1, <4>2, <4>4
        <5>4. Lesser((k + 1) * Packet, size + 1) = size + 1
          BY <1>1, <4>4, <5>3, <1>2 DEF Lesser
        <5>5. Len(Piece(Stream(size), k + 1)) = Len(tx)
          BY <1>1, <4>1, <4>2, <4>4, <5>2, <5>4
        <5>6. \A j \in 1 .. Len(tx) : Piece(Stream(size), k + 1)[j] = tx[j]
          BY <4>1, <5>2, <5>5
        <5> QED BY <1>1, <5>2, <5>5, <5>6, SeqEqual
      <4>8. /\ e \in Seq(Seq(Units)) /\ Len(e) = q + 1
            /\ \A i \in 1 .. Len(e) : e[i] = Piece(Stream(size), i)
        BY <1>1, StreamPacketsAre
      <4>9. \A i \in 1 .. k + 1 : in'[i] = Piece(Stream(size), i)
        <5>1. TAKE i \in 1 .. k + 1
        <5>2. i \in 1 .. k \/ i = k + 1
          BY <4>4
        <5> QED BY <4>1, <4>3, <4>7, <5>2
      <4>10. in' = e
        <5> HIDE DEF e, q
        <5>1. Len(in') = Len(e) /\ \A i \in 1 .. Len(in') : in'[i] = e[i]
          BY <4>3, <4>5, <4>8, <4>9
        <5> QED BY <4>3, <4>8, <5>1, SeqEqual
      <4>11. ask \in Commands /\ Expected(ask) = e
        BY <1>1, <1>15, <2>1, <3>1, ExpectedIs
      <4> QED BY <4>10, <4>11
    <3>2. ask # NoAsk /\ ask \in Commands
      BY <1>1, <1>15, <2>1
    <3> QED BY <2>1, <2>2, <3>1, <3>2, ExpectedPrefix DEF OrderInv, Sending, Idle
  <2> QED BY <2>3, <2>4
<1>19. CASE AbortGet
  BY <1>3, <1>19, Now DEF AbortGet, HostKeeps, transmitter
<1> QED BY <1>4, <1>5, <1>6, <1>7, <1>8, <1>9, <1>10, <1>11, <1>12, <1>14, <1>16, <1>17, <1>18, <1>19
        DEF Next, Host, Device

-----------------------------------------------------------------------------
(* The part of the invariant that is about the object on the store.        *)

(* SendObject reads as many units as the host promised. *)
LEMMA SendsAll ==
  ASSUME TransferInv, pc \in {"send", "drain"}
  PROVE  ask \in Commands /\ ask.t = "SendObject" /\ ask.n \in Nat /\ size = ask.n
<1>1. pc \in Reading /\ pc \notin Idle
  BY DEF Reading, Idle
<1>2. ask \in Commands /\ ask.t = "SendObject"
  BY <1>1, Now DEF TransferInv, PcInv
<1>3. size \in Nat /\ size + 1 = Len(Incoming(ask))
  BY <1>1 DEF TransferInv, ReceiveInv
<1>4. ask.n \in Nat /\ Len(Incoming(ask)) = ask.n + 1
  BY <1>2, IncomingIs
<1> QED BY <1>2, <1>3, <1>4

LEMMA StoreStep ==
  ASSUME TransferInv, Next
  PROVE  StoreInv'
<1>1. /\ id \in BOOLEAN /\ writing \in BOOLEAN /\ file \in Seq(Units)
      /\ ret \in [t : Codes, v : Nat]
      /\ pc \in Ends => ret.v <= ask.n /\ Kept(ask, ret.t)
      /\ \A n, m \in granted : n = m
      /\ pc \notin {"send", "drain", "close"} =>
           \A n \in granted : (writing => file = <<>>) /\ (n = 0 => file = <<>>)
  BY DEF TransferInv, StoreInv
<1>2. \A code \in Codes, v \in Nat :
        Response(code, v) \in [t : Codes, v : Nat] /\ Response(code, v).t = code /\ Response(code, v).v = v
  BY DEF Response
<1>3. "ok" \in Codes /\ "failed" \in Codes /\ "full" \in Codes /\ "unsupported" \in Codes
  BY DEF Codes
(* The object is as before, and no handler of SendObject is about it. *)
<1>4. ASSUME id' = id, file' = file, writing' = writing \/ writing' = FALSE, granted' = granted,
             pc \notin {"send", "drain", "close"}, pc' \notin {"send", "drain", "close"},
             ret' \in [t : Codes, v : Nat],
             pc' \in Ends => (ret.v <= ask.n)' /\ Kept(ask, ret.t)',
             pc' = "send_header" => ret' = Response("ok", 0)
      PROVE  StoreInv'
  <2>1. CASE writing' = writing
    BY <1>1, <1>4, <2>1 DEF StoreInv
  <2>2. CASE writing' = FALSE
    BY <1>1, <1>4, <2>2 DEF StoreInv
  <2> QED BY <1>4, <2>1, <2>2
<1>5. CASE AskGetObject \/ AskGetPartialObject \/ AskSendObjectInfo \/ AskSendObject \/ AskOther
  <2>1. ask = NoAsk /\ granted' = granted /\ pc' = pc /\ ret' = ret
        /\ id' = id /\ writing' = writing /\ file' = file
    BY <1>5 DEF AskGetObject, AskGetPartialObject, AskSendObjectInfo, AskSendObject, AskOther,
       HostAsks, handler, storeVars
  <2>2. pc \in Idle
    BY <2>1 DEF TransferInv, CancelInv
  <2> QED BY <1>1, <1>4, <2>1, <2>2 DEF Idle, Ends
<1>6. CASE HostDone
  <2>1. /\ pc \in Idle /\ pc' = pc /\ ret' = ret /\ id' = id /\ writing' = writing /\ file' = file
    BY <1>6, Now DEF HostDone, TransferInv, CancelInv, Idle, handler, storeVars
  <2>2. \/ granted' = {} \/ granted' = granted
        \/ granted' = {ask.n} /\ file = <<>>
    <3>1. CASE gone
      BY <1>6, <3>1 DEF HostDone
    <3>2. CASE ~ gone /\ ask.t = "SendObjectInfo"
      <4>1. IsAnswered /\ granted' = IF Answer.t = "ok" THEN {ask.n} ELSE {}
        BY <1>6, <3>2 DEF HostDone
      <4>2. Answer.t = "ok" => file = <<>>
        BY <3>2, <4>1 DEF TransferInv, AnswerInv, Kept
      <4> QED BY <4>1, <4>2
    <3>3. CASE ~ gone /\ ask.t # "SendObjectInfo"
      BY <1>6, <3>3 DEF HostDone
    <3> QED BY <3>1, <3>2, <3>3
  <2>3. pc \notin {"send", "drain", "close", "send_header"} \cup Ends
    BY <2>1 DEF Idle, Ends
  <2> QED BY <1>1, <2>1, <2>2, <2>3 DEF StoreInv
<1>7. CASE HostSends \/ HostStops \/ HostCancels \/ Receive
  <2>1. /\ granted' = granted /\ pc' = pc /\ ret' = ret /\ id' = id /\ writing' = writing
        /\ file' = file /\ pos' = pos /\ size' = size /\ ask' = ask
    BY <1>7 DEF HostSends, HostStops, HostCancels, Receive, HostKeeps, handler, storeVars
  <2> QED BY <1>1, <2>1 DEF TransferInv, StoreInv, Kept
<1>8. CASE Loop
  <2>1. /\ ask' = ask /\ granted' = granted /\ id' = id /\ writing' = writing /\ file' = file
        /\ pc = "loop" /\ ask \in Commands /\ ret' = Response("ok", 0)
        /\ pc' \in Headers \cup {"get_header", "respond"}
        /\ pc' = "info_header" <=> ask.t = "SendObjectInfo"
        /\ pc' = "send_header" <=> ask.t = "SendObject"
    BY <1>8, TakesCommand DEF Loop, HostKeeps, storeVars
  <2>2. ret' \in [t : Codes, v : Nat] /\ ret'.t = "ok" /\ ret'.v = 0 /\ ask.n \in Nat
    BY <1>2, <1>3, <2>1 DEF Commands
  <2>3. pc' \in Ends => (ret.v <= ask.n)' /\ Kept(ask, ret.t)'
    BY <2>1, <2>2 DEF Ends, Kept, Headers
  <2>4. pc' \notin {"send", "drain", "close"}
    BY <2>1 DEF Headers
  <2> QED BY <1>4, <2>1, <2>2, <2>3, <2>4
<1>9. CASE LoopEnds \/ AbortGet \/ RespondFinish \/ TransmitPacket \/ ReadInfo
  <2>1. /\ granted' = granted /\ ret' = ret /\ id' = id /\ writing' = writing /\ file' = file
        /\ pc \notin {"send", "drain", "close"}
        /\ pc' \notin {"send", "drain", "close", "send_header"} \cup Ends
    BY <1>9 DEF LoopEnds, AbortGet, RespondFinish, TransmitPacket, ReadInfo, HostKeeps,
       handler, storeVars, Ends
  <2> QED BY <1>1, <1>4, <2>1
<1>10. CASE Respond
  <2>1. /\ granted' = granted /\ ask' = ask /\ ret' = ret /\ id' = id /\ writing' = writing /\ file' = file
        /\ pc = "respond" /\ pc' \in {"respond_finish", "reset"}
    BY <1>10 DEF Respond, HostKeeps, handler, storeVars
  <2>2. (ret.v <= ask.n)' /\ Kept(ask, ret.t)'
    BY <1>1, <2>1 DEF Ends, Kept
  <2> QED BY <1>1, <1>4, <2>1, <2>2
<1>11. CASE GetHeader \/ FillPacket
  <2>1. /\ granted' = granted /\ ret' = ret /\ id' = id /\ (writing' = writing \/ writing' = FALSE)
        /\ file' = file
        /\ pc \notin {"send", "drain", "close"}
        /\ pc' \notin {"send", "drain", "close", "send_header"} \cup Ends
    BY <1>11 DEF GetHeader, FillPacket, HostKeeps, storeVars, Ends
  <2> QED BY <1>1, <1>4, <2>1
<1>12. CASE GetFinish
  <2>1. /\ granted' = granted /\ ask' = ask /\ id' = id /\ writing' = writing /\ file' = file
        /\ pc = "get" /\ pc' = "respond"
        /\ ret' = Response("ok", IF cmd.t = "GetPartialObject" THEN size ELSE 0)
    BY <1>12 DEF GetFinish, HostKeeps, storeVars
  <2>2. /\ ask \in Commands /\ ask.n \in Nat /\ size \in Nat /\ size <= ask.n
        /\ ask.t \in {"GetObject", "GetPartialObject"}
    <3>1. /\ ask \in Commands /\ ask.n \in Nat /\ ask.off <= ask.n /\ size = Amount(ask)
          /\ ask.t \in {"GetObject", "GetPartialObject"}
      BY <2>1, Now DEF TransferInv, TransmitInv, PcInv, AskInv, Getting, Sending, Idle
    <3> QED BY <3>1, AmountIs
  <2>3. /\ ret' \in [t : Codes, v : Nat] /\ ret'.v <= ask.n
    <3>1. CASE cmd.t = "GetPartialObject"
      BY <1>2, <1>3, <2>1, <2>2, <3>1
    <3>2. CASE cmd.t # "GetPartialObject"
      BY <1>2, <1>3, <2>1, <2>2, <3>2
    <3> QED BY <3>1, <3>2
  <2>4. (ret.v <= ask.n)' /\ Kept(ask, ret.t)'
    BY <2>1, <2>2, <2>3 DEF Kept
  <2> QED BY <1>4, <2>1, <2>3, <2>4
<1>13. CASE ReadHeader
  <2>1. /\ granted' = granted /\ id' = id /\ writing' = writing /\ file' = file /\ ret' = ret
        /\ ask \in Commands /\ pos' = 0 /\ size' \in Nat /\ size' + 1 = Len(Incoming(ask))
        /\ \/ pc = "info_header" /\ pc' = "info" /\ ask.t = "SendObjectInfo"
           \/ pc = "send_header" /\ pc' = "send" /\ ask.t = "SendObject"
    BY <1>13, TakesHeader DEF ReadHeader, HostKeeps, storeVars
  <2>2. CASE pc = "info_header" /\ pc' = "info"
    BY <1>1, <1>4, <2>1, <2>2 DEF Ends
  <2>3. CASE pc = "send_header" /\ pc' = "send" /\ ask.t = "SendObject"
    <3>1. size' = ask.n /\ ask.n \in granted
      <4>1. ask.n \in Nat /\ Len(Incoming(ask)) = ask.n + 1
        BY <2>1, <2>3, IncomingIs
      <4> QED BY <2>1, <2>3, <4>1 DEF TransferInv, AskInv
    <3>2. (writing => file = <<>>) /\ (size' = 0 => file = <<>>) /\ ret = Response("ok", 0)
      BY <1>1, <2>3, <3>1 DEF TransferInv, StoreInv
    <3>3. Bytes(0) = <<>>
      BY StreamIs
    <3> QED BY <1>1, <2>1, <2>3, <3>2, <3>3 DEF StoreInv, Ends
  <2> QED BY <2>1, <2>2, <2>3
<1>14. ASSUME granted' = granted, ask' = ask, id' = id, writing' = writing, file' = file,
              ret' = Response("failed", 0), pc' \in {"drain", "close"}, ask.n > 0
       PROVE  StoreInv'
  BY <1>1, <1>2, <1>3, <1>14 DEF StoreInv, Ends
<1>15. CASE WriteFails \/ Pause
  <2>1. /\ granted' = granted /\ ask' = ask /\ id' = id /\ writing' = writing /\ file' = file
        /\ ret' = Response("failed", 0) /\ pc = "send" /\ pc' = "drain" /\ pos < size
    BY <1>15 DEF WriteFails, Pause, GiveUp, hostVars, storeVars
  <2>2. ask.n > 0
    BY <2>1, SendsAll DEF TransferInv, ReceiveInv
  <2> QED BY <1>14, <2>1, <2>2
<1>16. CASE Timeout
  <2>1. /\ granted' = granted /\ ask' = ask /\ id' = id /\ writing' = writing /\ file' = file
        /\ ret' = Response("failed", 0)
    BY <1>16 DEF Timeout, GiveUp, HostKeeps, storeVars
  <2>2. \/ pc \in {"info_header", "info", "send_header"} /\ pc' = "respond"
        \/ pc = "send" /\ pc' = "drain" /\ pos < size
        \/ pc = "drain" /\ pc' = "close"
    BY <1>16 DEF Timeout, GiveUp
  <2>3. CASE pc \in {"info_header", "info", "send_header"} /\ pc' = "respond"
    <3>1. ask.n \in Nat
      BY <2>3, Now DEF Idle
    <3>2. ret' \in [t : Codes, v : Nat] /\ ret'.t = "failed" /\ ret'.v = 0
      BY <1>2, <1>3, <2>1
    <3>3. (ret.v <= ask.n)' /\ Kept(ask, ret.t)'
      BY <2>1, <3>1, <3>2 DEF Kept
    <3> QED BY <1>4, <2>1, <2>3, <3>2, <3>3
  <2>4. CASE pc = "send" /\ pc' = "drain" /\ pos < size
    <3>1. ask.n > 0
      BY <2>4, SendsAll DEF TransferInv, ReceiveInv
    <3> QED BY <1>14, <2>1, <2>4, <3>1
  <2>5. CASE pc = "drain" /\ pc' = "close"
    <3>1. ask.n > 0
      BY <2>5 DEF TransferInv, StoreInv
    <3> QED BY <1>14, <2>1, <2>5, <3>1
  <2> QED BY <2>2, <2>3, <2>4, <2>5
<1>17. CASE CreateObject
  <2>1. granted' = granted /\ ask' = ask /\ pc = "info" /\ pc' = "respond"
    BY <1>17 DEF CreateObject, HostKeeps
  <2>2. ask.t = "SendObjectInfo" /\ ask.n \in Nat
    BY <2>1, Now DEF TransferInv, PcInv, Idle
  <2>3. \/ ret' = Response("full", 0) /\ id' = id /\ writing' = writing /\ file' = file
        \/ /\ ret' = Response("unsupported", 0)
           /\ id' = FALSE /\ writing' \in {writing, FALSE} /\ file' = file
        \/ ret' = Response("ok", 0) /\ id' = TRUE /\ writing' = TRUE /\ file' = <<>>
    BY <1>17 DEF CreateObject, storeVars
  <2>4. CASE ret' = Response("full", 0) /\ id' = id /\ writing' = writing /\ file' = file
    <3>1. ret' \in [t : Codes, v : Nat] /\ ret'.t = "full" /\ ret'.v = 0
      BY <1>2, <1>3, <2>4
    <3> QED BY <1>4, <2>1, <2>2, <2>4, <3>1 DEF Kept
  <2>5. CASE ret' = Response("unsupported", 0) /\ id' = FALSE /\ writing' \in {writing, FALSE} /\ file' = file
    <3>1. ret' \in [t : Codes, v : Nat] /\ ret'.t = "unsupported" /\ ret'.v = 0
      BY <1>2, <1>3, <2>5
    <3>2. (ret.v <= ask.n)' /\ Kept(ask, ret.t)'
      BY <2>1, <2>2, <3>1 DEF Kept
    <3>3. CASE writing' = writing
      BY <1>1, <2>1, <2>5, <3>1, <3>2, <3>3 DEF StoreInv
    <3>4. CASE writing' = FALSE
      BY <1>1, <2>1, <2>5, <3>1, <3>2, <3>4 DEF StoreInv
    <3> QED BY <2>5, <3>3, <3>4
  <2>6. CASE ret' = Response("ok", 0) /\ id' = TRUE /\ writing' = TRUE /\ file' = <<>>
    <3>1. ret' \in [t : Codes, v : Nat] /\ ret'.t = "ok" /\ ret'.v = 0
      BY <1>2, <1>3, <2>6
    <3>2. (ret.v <= ask.n)' /\ Kept(ask, ret.t)'
      BY <2>1, <2>2, <2>6, <3>1 DEF Kept
    <3> QED BY <1>1, <2>1, <2>6, <3>1, <3>2 DEF StoreInv
  <2> QED BY <2>3, <2>4, <2>5, <2>6
<1>18. CASE WriteData
  <2>1. /\ granted' = granted /\ id' = id /\ writing' = writing /\ ret' = ret /\ size' = size
        /\ pc = "send" /\ pc' = "send" /\ writing /\ pos < size
    BY <1>18 DEF WriteData, HostKeeps
  <2>2. pos' = pos + Len(rx) /\ file' = file \o rx
    BY <1>18, Consumes
  <2>3. file = Bytes(pos) /\ ret = Response("ok", 0)
    BY <2>1 DEF TransferInv, StoreInv
  <2>4. /\ ask.n \in Nat /\ Incoming(ask) = Stream(ask.n) /\ size = ask.n
    BY <2>1, SendsAll, IncomingIs
  <2>5. /\ rx \in Seq(Units) /\ Len(rx) \in Nat /\ pos \in Nat /\ pos + Len(rx) <= size
        /\ \A i \in 1 .. Len(rx) : rx[i] = Incoming(ask)[pos + 1 + i]
    BY <2>1 DEF TransferInv, ReceiveInv, Reading
  <2>6. file' = Bytes(pos')
    <3> DEFINE l == Len(rx)
    <3>1. /\ Bytes(pos) \in Seq(Units) /\ Len(Bytes(pos)) = pos
          /\ \A i \in 1 .. pos : Bytes(pos)[i] = Byte(i)
      BY <2>5, StreamIs, PayloadIs
    <3>2. /\ pos + l \in Nat /\ Bytes(pos + l) \in Seq(Units) /\ Len(Bytes(pos + l)) = pos + l
          /\ \A i \in 1 .. pos + l : Bytes(pos + l)[i] = Byte(i)
      <4>1. pos + l \in Nat
        BY <2>5
      <4> QED BY <4>1, StreamIs, PayloadIs
    <3>3. \A i \in 1 .. l : rx[i] = Byte(pos + i)
      <4>1. TAKE i \in 1 .. l
      <4>2. pos + i \in 1 .. ask.n /\ pos + 1 + i = (pos + i) + 1
        BY <2>4, <2>5
      <4>3. Stream(ask.n)[(pos + i) + 1] = Byte(pos + i)
        BY <2>4, <4>2, StreamIs
      <4> QED BY <2>4, <2>5, <4>2, <4>3
    <3>4. /\ Bytes(pos) \o rx \in Seq(Units) /\ Len(Bytes(pos) \o rx) = Len(Bytes(pos)) + Len(rx)
          /\ \A i \in 1 .. Len(Bytes(pos)) + Len(rx) :
               (Bytes(pos) \o rx)[i] = IF i <= Len(Bytes(pos)) THEN Bytes(pos)[i] ELSE rx[i - Len(Bytes(pos))]
      BY <2>5, <3>1, ConcatProperties
    <3>5. \A i \in 1 .. pos + l : (Bytes(pos) \o rx)[i] = Bytes(pos + l)[i]
      <4>1. TAKE i \in 1 .. pos + l
      <4>2. CASE i <= pos
        <5>1. i \in 1 .. pos
          BY <2>5, <4>2
        <5> QED BY <3>1, <3>2, <3>4, <4>2, <5>1
      <4>3. CASE ~ (i <= pos)
        <5>1. i - pos \in 1 .. l /\ pos + (i - pos) = i
          BY <2>5, <4>3
        <5>2. rx[i - pos] = Byte(pos + (i - pos))
          BY <3>3, <5>1
        <5> QED BY <3>1, <3>2, <3>4, <4>3, <5>1, <5>2
      <4> QED BY <4>2, <4>3
    <3>6. Bytes(pos) \o rx = Bytes(pos + l)
      BY <3>1, <3>2, <3>4, <3>5, SeqEqual
    <3> QED BY <2>2, <2>3, <3>6
  <2>7. file' \in Seq(Units) /\ size # 0
    <3>1. pos' \in Nat /\ size # 0
      BY <2>1, <2>2, <2>4, <2>5
    <3> QED BY <2>6, <3>1, StreamIs, PayloadIs
  <2> QED BY <1>1, <2>1, <2>3, <2>6, <2>7 DEF StoreInv, Ends
<1>19. CASE Drain
  <2>1. /\ granted' = granted /\ ask' = ask /\ id' = id /\ writing' = writing /\ file' = file
        /\ ret' = ret /\ pc = "drain" /\ pc' = "drain"
    BY <1>19 DEF Drain, HostKeeps, storeVars
  <2> QED BY <1>1, <2>1 DEF TransferInv, StoreInv, Ends
<1>20. CASE CloseObject
  <2>1. /\ granted' = granted /\ ask' = ask /\ file' = file /\ ret' = ret /\ writing' = FALSE
        /\ id' = (id /\ ret.t # "ok") /\ pc' = "respond"
        /\ (pc = "close" \/ (pc \in {"send", "drain"} /\ pos >= size))
    BY <1>20 DEF CloseObject, HostKeeps, handler
  <2>2. ask.t = "SendObject" /\ ask.n \in Nat /\ ask.n \in granted
    BY <2>1, Now DEF TransferInv, PcInv, AskInv, Idle
  <2>3. CASE pc = "send" /\ pos >= size
    <3>1. size = ask.n /\ pos = size
      BY <2>3, SendsAll, ReadToTheEnd DEF Reading
    <3>2. /\ ret = Response("ok", 0)
          /\ writing \/ pos = 0
          /\ writing => file = Bytes(pos)
          /\ size = 0 => file = <<>>
      BY <2>3 DEF TransferInv, StoreInv
    <3>3. Bytes(0) = <<>>
      BY StreamIs
    <3>4. file = Bytes(ask.n) /\ (ask.n = 0 => file = <<>>)
      <4>1. CASE writing
        BY <3>1, <3>2, <4>1
      <4>2. CASE pos = 0
        BY <3>1, <3>2, <3>3, <4>2
      <4> QED BY <3>2, <4>1, <4>2, <3>1
    <3>5. \A n \in granted : n = 0 => file = <<>>
      BY <1>1, <2>2, <3>4
    <3>6. ret.t = "ok" /\ ret.v = 0 /\ ret \in [t : Codes, v : Nat]
      BY <1>2, <1>3, <3>2
    <3>7. (ret.v <= ask.n)' /\ Kept(ask, ret.t)'
      BY <2>1, <2>2, <3>4, <3>6 DEF Kept
    <3> QED BY <1>1, <2>1, <3>5, <3>6, <3>7 DEF StoreInv
  <2>4. CASE pc \in {"drain", "close"}
    <3>1. ret = Response("failed", 0) /\ ask.n > 0
      BY <2>4 DEF TransferInv, StoreInv
    <3>2. \A n \in granted : n # 0
      BY <1>1, <2>2, <3>1
    <3>3. ret.t = "failed" /\ ret.v = 0 /\ ret \in [t : Codes, v : Nat]
      BY <1>2, <1>3, <3>1
    <3>4. (ret.v <= ask.n)' /\ Kept(ask, ret.t)'
      BY <2>1, <2>2, <3>3 DEF Kept
    <3> QED BY <1>1, <2>1, <3>2, <3>3, <3>4 DEF StoreInv
  <2> QED BY <2>1, <2>3, <2>4
<1> QED BY <1>5, <1>6, <1>7, <1>8, <1>9, <1>10, <1>11, <1>12, <1>13, <1>15, <1>16, <1>17, <1>18,
           <1>19, <1>20
        DEF Next, Host, Device

-----------------------------------------------------------------------------
(* The theorems.                                                           *)

LEMMA InitTransfer == Init => TransferInv
<1> SUFFICES ASSUME Init PROVE TransferInv
  OBVIOUS
<1>1. /\ ask = NoAsk /\ rest = <<>> /\ gone = FALSE /\ granted = {}
      /\ out = <<>> /\ in = <<>> /\ status = OK
      /\ rx = <<>> /\ tx = <<>> /\ open = FALSE
      /\ pc = "loop" /\ cmd = NoAsk /\ pos = 0 /\ size = 0 /\ ret = Response("ok", 0)
      /\ id = FALSE /\ writing = FALSE /\ file = <<>>
      /\ trouble = 0
  BY DEF Init
<1>2. NoAsk.t = "none" /\ NoAsk.n = 0 /\ NoAsk.off = 0
  BY DEF NoAsk, Command
<1>3. PcInv
  BY <1>1 DEF PcInv, Idle, Headers, Reading, Getting, Sending
<1>4. AskInv
  BY <1>1, <1>2, Constants DEF AskInv
<1>5. CancelInv
  BY <1>1 DEF CancelInv, Idle
<1>6. FlowInv /\ ReceiveInv
  BY <1>1 DEF FlowInv, ReceiveInv, Reading, Headers
<1>7. TransmitInv
  <2>1. /\ pc \notin Sending /\ pc \notin {"respond_finish", "get", "get_transmit"}
    BY <1>1 DEF Sending
  <2>2. tx \in Seq(Units)
    BY <1>1
  <2>3. open \in BOOLEAN
    BY <1>1, Zenon
  <2> QED BY <1>1, <2>1, <2>2, <2>3 DEF TransmitInv
<1>8. AnswerInv
  BY <1>1 DEF AnswerInv, IsAnswered
<1>9. OrderInv
  BY <1>1 DEF OrderInv
<1>10. StoreInv
  <2>1. ret \in [t : Codes, v : Nat]
    BY <1>1 DEF Response, Codes
  <2>2. file \in Seq(Units)
    BY <1>1
  <2>3. writing \in BOOLEAN /\ id \in BOOLEAN
    BY <1>1, Zenon
  <2>4. /\ pc \notin {"send_header", "send", "drain", "close"} /\ pc \notin Ends
        /\ \A n \in granted : FALSE
    BY <1>1 DEF Ends
  <2> QED BY <2>1, <2>2, <2>3, <2>4 DEF StoreInv
<1> QED BY <1>3, <1>4, <1>5, <1>6, <1>7, <1>8, <1>9, <1>10 DEF TransferInv

LEMMA StutterTransfer ==
  ASSUME TransferInv, UNCHANGED vars
  PROVE  TransferInv'
<1>1. /\ ask' = ask /\ rest' = rest /\ gone' = gone /\ granted' = granted
      /\ out' = out /\ in' = in /\ status' = status
      /\ rx' = rx /\ tx' = tx /\ open' = open
      /\ pc' = pc /\ cmd' = cmd /\ pos' = pos /\ size' = size /\ ret' = ret
      /\ id' = id /\ writing' = writing /\ file' = file
      /\ trouble' = trouble
  BY DEF vars, hostVars, transmitter, handler, storeVars
<1>2. PcInv' /\ AskInv' /\ CancelInv'
  BY <1>1 DEF TransferInv, PcInv, AskInv, CancelInv
<1>3. FlowInv' /\ ReceiveInv'
  BY <1>1 DEF TransferInv, FlowInv, ReceiveInv, Comes, Part
<1>4. TransmitInv' /\ AnswerInv'
  BY <1>1 DEF TransferInv, TransmitInv, AnswerInv, IsAnswered, Answer, Kept, Amount
<1>5. OrderInv'
  BY <1>1 DEF TransferInv, OrderInv, Complete, Shipped
<1>6. StoreInv'
  BY <1>1 DEF TransferInv, StoreInv, Kept
<1> QED BY <1>2, <1>3, <1>4, <1>5, <1>6 DEF TransferInv

(* The inductive invariant, in every behaviour of host and device. *)
THEOREM TransferInvAlways == Spec => []TransferInv
<1>1. Init => TransferInv
  BY InitTransfer
<1>2. TransferInv /\ [Next]_vars => TransferInv'
  <2>1. ASSUME TransferInv, Next PROVE TransferInv'
    BY <2>1, PcStep, AskStep, CancelStep, FlowStep, ReceiveStep, TransmitStep, AnswerStep,
       OrderStep, StoreStep DEF TransferInv
  <2> QED BY <2>1, StutterTransfer
<1> QED BY <1>1, <1>2, PTL DEF Spec

(* Types: in particular transmit_buffer never holds more than a packet,    *)
(* and a full one is sent before anything else happens.                    *)
THEOREM TypeOKAlways == Spec => []TypeOK
<1>1. TransferInv => TypeOK
  <2> SUFFICES ASSUME TransferInv PROVE TypeOK
    OBVIOUS
  <2>1. /\ rest \in Seq(Seq(Units)) /\ in \in Seq(Seq(Units)) /\ rx \in Seq(Units)
        /\ pos \in Nat /\ size \in Nat
    BY DEF TransferInv, FlowInv, AnswerInv, ReceiveInv
  <2>2. /\ gone \in BOOLEAN /\ status \in {OK, Cancelled} /\ granted \subseteq Sizes
        /\ trouble \in 0 .. MaxTrouble
    BY DEF TransferInv, CancelInv, AskInv
  <2>3. /\ id \in BOOLEAN /\ writing \in BOOLEAN /\ file \in Seq(Units)
        /\ ret \in [t : Codes, v : Nat]
    BY DEF TransferInv, StoreInv
  <2>4. tx \in Seq(Units) /\ open \in BOOLEAN
    BY DEF TransferInv, TransmitInv
  <2>5. Len(tx) <= Packet /\ (Len(tx) = Packet => pc = "get_transmit")
    <3>1. CASE pc = "get"
      BY <2>4, <3>1, Constants DEF TransferInv, TransmitInv
    <3>2. CASE pc = "get_transmit"
      BY <2>4, <3>2, Constants DEF TransferInv, TransmitInv
    <3>3. CASE pc \notin Sending
      <4>1. tx = <<>> \/ tx = <<ret>>
        BY <3>3 DEF TransferInv, TransmitInv
      <4> QED BY <4>1, Constants
    <3> QED BY <3>1, <3>2, <3>3 DEF Sending
  <2> QED BY <2>1, <2>2, <2>3, <2>4, <2>5 DEF TypeOK
<1> QED BY <1>1, TransferInvAlways, PTL

(* A transaction leaves nothing behind it that a later one would take for  *)
(* its own: loop, the loops that read a data phase to its end, the aborts. *)
THEOREM NothingLeftAlways == Spec => []NothingLeft
<1>1. TransferInv => NothingLeft
  BY DEF TransferInv, CancelInv, ReceiveInv, TransmitInv, NothingLeft, Reading, Sending
<1> QED BY <1>1, TransferInvAlways, PTL

(* When the device calls a SendObject successful, the file has every byte  *)
(* of it, for any size, any cut into packets and any trouble (SendObject). *)
THEOREM SentIsStoredAlways == Spec => []SentIsStored
<1>1. TransferInv => SentIsStored
  BY DEF TransferInv, AnswerInv, SentIsStored, Kept
<1> QED BY <1>1, TransferInvAlways, PTL

(* What the host gets is a beginning of the data phase it expects, or all  *)
(* of it and one answer, as long as it asks for objects from their start:  *)
(* GetPartialObject with an offset sends less than it announces.           *)
THEOREM AnswerInOrderAlways ==
  ASSUME Offsets \subseteq {0}
  PROVE  Spec => []AnswerInOrder
<1>1. TransferInv => AnswerInOrder
  <2> SUFFICES ASSUME TransferInv PROVE AnswerInOrder
    OBVIOUS
  <2>1. ask.off = 0
    BY DEF TransferInv, AskInv
  <2>2. ask = NoAsk => in = <<>>
    BY DEF TransferInv, CancelInv
  <2> QED BY <2>1, <2>2 DEF TransferInv, OrderInv, Complete, AnswerInOrder
<1> QED BY <1>1, TransferInvAlways, PTL
=============================================================================
