----------------------------- MODULE MtpStrings -----------------------------
(***************************************************************************)
(* The strings of the protocol.  A host sends a name as a length byte and  *)
(* that many 16-bit units, the last one zero; readstring keeps it as UTF-8 *)
(* in a buffer of a fixed size.  Asked for the name, the device announces  *)
(* writestringlen bytes and writestring turns the UTF-8 back into units.   *)
(* A name may also come from a file system, which holds any bytes at all.  *)
(*                                                                         *)
(* One step is one turn of the loop in readstring or writestring.          *)
(***************************************************************************)
EXTENDS Integers, Sequences

CONSTANTS
  Units,         \* 16-bit units a host sends
  Bytes,         \* bytes other than zero in the names of a file system
  MaxString,     \* bound: units sent, and bytes in such a name
  BufferSize,    \* buffer_size
  LengthMod      \* the length byte counts modulo this

Most == 65535
Char16 == 0 .. Most
Byte == 0 .. 255

ASSUME UnitsAssumption == Units \subseteq Char16 /\ Bytes \subseteq Byte \ {0}
ASSUME BufferAssumption ==
  /\ BufferSize \in Nat /\ BufferSize > 4
  /\ MaxString \in Nat /\ LengthMod \in Nat \ {0}

VARIABLES
  pc,            \* "read", "write", "done", or "failed" when readstring returns false
  sent,          \* the units the host sent, or <<>>
  stored,        \* the bytes of the name in the file system, or <<>>
  string_index,
  buffer,
  buffer_index,
  room,          \* FALSE once buffer = nullptr
  next,          \* where writestring is in the buffer
  count,
  char16,
  len,           \* the length byte written
  written        \* the units written

reading == <<string_index, buffer, buffer_index, room>>
writing == <<next, count, char16, len, written>>
stringsVars == <<pc, sent, stored, reading, writing>>

Stale == 88       \* what an uninitialized byte may hold
Unset == [i \in 0 .. BufferSize - 1 |-> Stale]

-----------------------------------------------------------------------------
(* A character in UTF-8, by the unit's size.                               *)

Lead1(c) == <<c % 128>>
Lead2(c) == <<192 + ((c \div 64) % 32), 128 + (c % 64)>>
Lead3(c) == <<224 + ((c \div 4096) % 16), 128 + ((c \div 64) % 64), 128 + (c % 64)>>

\* What is stored for c: one, two or three bytes if they leave two for the
\* end, else nothing.  A unit that would need fewer bytes than are left takes
\* the branch of a longer form only if that has room, which it never has.
FaultyEncoded(c) ==          \* Mutant: 0x80 is taken for one byte
  CASE c <= 128  /\ buffer_index < BufferSize - 2 -> Lead1(c)
    [] c > 128 /\ c < 2048 /\ buffer_index < BufferSize - 3 -> Lead2(c)
    [] c >= 2048 /\ buffer_index < BufferSize - 4 -> Lead3(c)
    [] OTHER -> <<>>

Encoded(c) ==
  CASE c < 128  /\ buffer_index < BufferSize - 2 -> Lead1(c)
    [] c >= 128 /\ c < 2048 /\ buffer_index < BufferSize - 3 -> Lead2(c)
    [] c >= 2048 /\ buffer_index < BufferSize - 4 -> Lead3(c)
    [] OTHER -> <<>>

Put(bytes) == [i \in DOMAIN buffer |->
                 IF i - buffer_index + 1 \in DOMAIN bytes THEN bytes[i - buffer_index + 1] ELSE buffer[i]]

FaultyZeroed == buffer       \* Mutant: a name that is cut gets no end

Zeroed == [i \in DOMAIN buffer |-> IF i >= buffer_index THEN 0 ELSE buffer[i]]

\* The bytes up to the terminator, and past the buffer if there is none.
CString == LET ends == { i \in DOMAIN buffer : buffer[i] = 0 }
               end == IF ends = {} THEN BufferSize ELSE CHOOSE i \in ends : \A j \in ends : i <= j
           IN  [i \in 1 .. end |-> buffer[i - 1]]

\* utf8_strlen, a byte at a time: how many units a string stands for.
IsPlain(c) == c < 128
IsMore(c)  == c \div 64 = 2
IsLead2(c) == c \div 32 = 6
IsLead3(c) == c \div 16 = 14

Counted(c, seen) ==
  CASE IsPlain(c) -> [length |-> seen.length + 1, count |-> 0]
    [] IsMore(c) /\ seen.count > 0 ->
         [length |-> seen.length + (IF seen.count = 1 THEN 1 ELSE 0), count |-> seen.count - 1]
    [] IsLead2(c) -> [seen EXCEPT !.count = 1]
    [] IsLead3(c) -> [seen EXCEPT !.count = 2]
    [] OTHER -> [seen EXCEPT !.count = 0]

Nothing == [length |-> 0, count |-> 0]

\* Mutant: a byte that continues nothing is a character.
FaultyScanned(bytes) ==
  LET seen[n \in 0 .. Len(bytes)] ==
        IF n = 0 THEN Nothing
        ELSE IF IsMore(bytes[n]) /\ seen[n - 1].count = 0 THEN [seen[n - 1] EXCEPT !.length = @ + 1]
        ELSE Counted(bytes[n], seen[n - 1])
  IN  seen

\* What was counted when so many bytes were seen.
Scanned(bytes) ==
  LET seen[n \in 0 .. Len(bytes)] == IF n = 0 THEN Nothing ELSE Counted(bytes[n], seen[n - 1])
  IN  seen

utf8_strlen(bytes) == Scanned(bytes)[Len(bytes)].length

writestringlen(bytes) ==
  IF utf8_strlen(bytes) = 0 THEN 1 ELSE utf8_strlen(bytes) * 2 + 2 + 1

-----------------------------------------------------------------------------
FromHost ==
  /\ sent \in UNION { [1 .. n -> Units] : n \in 1 .. MaxString }
  /\ stored = <<>>
  /\ buffer = Unset
  /\ pc = "read"

FromFileSystem ==
  /\ sent = <<>>
  /\ stored \in UNION { [1 .. n -> Bytes] : n \in 0 .. MaxString }
  /\ Len(stored) < BufferSize
  /\ buffer = [i \in 0 .. BufferSize - 1 |->
                 IF i + 1 \in DOMAIN stored THEN stored[i + 1] ELSE IF i = Len(stored) THEN 0 ELSE Stale]
  /\ pc = "write"

StringsInit ==
  /\ FromHost \/ FromFileSystem
  /\ string_index = 0 /\ buffer_index = 0 /\ room = TRUE
  /\ next = 1 /\ count = 0 /\ char16 = 0 /\ len = -1 /\ written = <<>>

\* The last unit must be zero.
ReadRefused(c) ==
  /\ string_index = Len(sent) - 1 /\ c # 0
  /\ pc' = "failed"
  /\ UNCHANGED reading

ReadStored(c) ==
  /\ room => Encoded(c) # <<>>
  /\ buffer' = IF room THEN Put(Encoded(c)) ELSE buffer
  /\ buffer_index' = IF room THEN buffer_index + Len(Encoded(c)) ELSE buffer_index
  /\ string_index' = string_index + 1
  /\ UNCHANGED <<pc, room>>

\* What does not fit ends the string, and the rest is read and dropped.
ReadCut(c) ==
  /\ room /\ Encoded(c) = <<>>
  /\ buffer' = Zeroed
  /\ buffer_index' = BufferSize
  /\ room' = FALSE
  /\ string_index' = string_index + 1
  /\ UNCHANGED pc

readstring ==
  /\ pc = "read"
  /\ string_index < Len(sent)
  /\ LET c == sent[string_index + 1]
     IN  \/ ReadRefused(c)
         \/ ~(string_index = Len(sent) - 1 /\ c # 0) /\ (ReadStored(c) \/ ReadCut(c))
  /\ UNCHANGED <<sent, stored, writing>>

ReadEnds ==
  /\ pc = "read"
  /\ string_index = Len(sent)
  /\ buffer' = IF room THEN Put(<<0>>) ELSE buffer
  /\ pc' = "write"
  /\ UNCHANGED <<sent, stored, string_index, buffer_index, room, writing>>

\* The length byte, or a zero for a string that stands for no unit.
WriteStarts ==
  /\ pc = "write"
  /\ len = -1
  /\ LET n == utf8_strlen(CString)
     IN  IF n > 0 THEN len' = (n + 1) % LengthMod /\ UNCHANGED pc
                  ELSE len' = 0 /\ pc' = "done"
  /\ UNCHANGED <<sent, stored, reading, next, count, char16, written>>

WriteByte(c) ==
  \/ IsPlain(c) /\ written' = Append(written, c) /\ count' = 0 /\ UNCHANGED char16
  \/ /\ IsMore(c) /\ count > 0
     /\ char16' = (char16 * 64 + (c % 64)) % 65536
     /\ count' = count - 1
     /\ written' = IF count = 1 THEN Append(written, char16') ELSE written
  \/ IsLead2(c) /\ char16' = c % 32 /\ count' = 1 /\ UNCHANGED written
  \/ IsLead3(c) /\ char16' = c % 16 /\ count' = 2 /\ UNCHANGED written
  \/ /\ ~IsPlain(c) /\ ~(IsMore(c) /\ count > 0) /\ ~IsLead2(c) /\ ~IsLead3(c)
     /\ count' = 0
     /\ UNCHANGED <<char16, written>>

writestring ==
  /\ pc = "write"
  /\ len # -1
  /\ next <= Len(CString)
  /\ WriteByte(CString[next])
  /\ next' = next + 1
  /\ UNCHANGED <<pc, sent, stored, reading, len>>

WriteEnds ==
  /\ pc = "write"
  /\ len # -1
  /\ next > Len(CString)
  /\ written' = Append(written, 0)
  /\ pc' = "done"
  /\ UNCHANGED <<sent, stored, reading, next, count, char16, len>>

StringsNext == readstring \/ ReadEnds \/ WriteStarts \/ writestring \/ WriteEnds

StringsSpec == StringsInit /\ [][StringsNext]_stringsVars

-----------------------------------------------------------------------------
StringsTypeOK ==
  /\ pc \in {"read", "write", "done", "failed"}
  /\ sent \in Seq(Char16) /\ Len(sent) <= MaxString
  /\ string_index \in 0 .. Len(sent)
  /\ buffer \in [0 .. BufferSize - 1 -> Byte]
  /\ buffer_index \in 0 .. BufferSize
  /\ room \in BOOLEAN
  /\ room => buffer_index <= BufferSize - 2
  /\ next \in 1 .. BufferSize + 1 /\ count \in 0 .. 2 /\ char16 \in Char16
  /\ len \in -1 .. LengthMod - 1
  /\ written \in Seq(Char16)

(* Once readstring has returned, the buffer holds a string that ends in it *)
(* and nothing behind was written, whatever was sent.                      *)
Terminated == pc \in {"write", "done"} => \E i \in DOMAIN buffer : buffer[i] = 0

\* The units before the first zero, and the most of them that fit.
HostName == LET zeros == { i \in DOMAIN sent : sent[i] = 0 }
        IN  SubSeq(sent, 1, (CHOOSE i \in zeros : \A j \in zeros : i <= j) - 1)
Size(c) == IF c < 128 THEN 1 ELSE IF c < 2048 THEN 2 ELSE 3
Sizes(units) ==              \* the bytes so many of them take
  LET size[n \in 0 .. Len(units)] == IF n = 0 THEN 0 ELSE size[n - 1] + Size(units[n])
  IN  size
Kept == LET fitting == { n \in 0 .. Len(HostName) : Sizes(HostName)[n] <= BufferSize - 2 }
        IN  SubSeq(HostName, 1, CHOOSE n \in fitting : \A m \in fitting : m <= n)

(* A name comes back from the device as the host sent it; one that is too  *)
(* long comes back cut between two characters, as long as it can be.       *)
RoundTrip ==
  (pc = "done" /\ sent # <<>>) => written = (IF Kept = <<>> THEN <<>> ELSE Kept \o <<0>>)

(* The bytes announced are the bytes written, and the length byte says how *)
(* many units follow, if one byte can: for names from a file system too,    *)
(* valid UTF-8 or not.                                                     *)
LengthAgrees ==
  pc = "done" =>
    /\ writestringlen(CString) = 1 + 2 * Len(written)
    /\ Len(written) < LengthMod => len = Len(written)
=============================================================================
