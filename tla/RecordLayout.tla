--------------------------- MODULE RecordLayout ---------------------------
(***************************************************************************)
(* The bytes of one struct RecordBlock (src/src/MTP_Storage.h): records of *)
(* a fixed part and a name ended by a NUL, packed one after the other, each *)
(* found through its offset.  AppendIndexRecord packs, WriteIndexRecord    *)
(* writes over a record in place, ReadIndexRecord copies a record out.     *)
(*                                                                         *)
(* A byte is told apart by what it is a byte of and its position in that.  *)
(***************************************************************************)
EXTENDS Integers

CONSTANTS
  MaxRecords, \* MAX_RECORDS_PER_BLOCK
  Capacity,   \* BLOCK_SIZE_DATA
  Fudge,      \* BLOCK_SIZE_NAME_FUDGE
  Fixed,      \* sizeof(RecordFixed)
  Word,       \* names take whole words of so many bytes
  Field,      \* the fixed parts records may have
  Name,       \* the names
  NameLen     \* strlen of a name

ASSUME LayoutAssumption ==
  /\ MaxRecords \in Nat
  /\ Capacity \in Nat
  /\ Fudge \in Nat
  /\ Fixed \in Nat
  /\ Word \in Nat \ {0}
  /\ NameLen \in [Name -> Nat]

VARIABLES
  recordCount,
  offset,       \* recordOffsets[]
  nextFree,     \* dataIndexNextFree
  data,         \* data[]
  want          \* what was last put in each record

layout == <<recordCount, offset, nextFree, data, want>>

Position == 0 .. MaxRecords - 1
Address == 0 .. Capacity - 1
Nul == <<"NUL", 0>>

(* Room for the name and its NUL, rounded up. *)
FaultyNameRoom(n) == ((NameLen[n] + Word - 1) \div Word) * Word  \* none for the NUL
NameRoom(n) == ((NameLen[n] + Word) \div Word) * Word

(* What copying the fixed part f and then the name n to address p does. *)
Laid(d, p, f, n) ==
  [i \in Address |->
     IF i >= p /\ i < p + Fixed THEN <<f, i - p>>
     ELSE IF i >= p + Fixed /\ i < p + Fixed + NameLen[n] THEN <<n, i - p - Fixed>>
     ELSE IF i = p + Fixed + NameLen[n] THEN Nul
     ELSE d[i]]

LayoutInit ==
  /\ recordCount = 0
  /\ offset = [k \in Position |-> 0]
  /\ nextFree = 0
  /\ data = [i \in Address |-> Nul]
  /\ want = [k \in Position |-> <<>>]

FaultyAppendRecord(f, n) ==     \* the fudge is taken for all the room a name needs
  /\ recordCount < MaxRecords
  /\ nextFree + Fixed + Fudge <= Capacity
  /\ offset' = [offset EXCEPT ![recordCount] = nextFree]
  /\ data' = Laid(data, nextFree, f, n)
  /\ nextFree' = nextFree + Fixed + NameRoom(n)
  /\ recordCount' = recordCount + 1
  /\ want' = [want EXCEPT ![recordCount] = <<f, n>>]

(* AppendIndexRecord, in the block that has room enough. *)
AppendRecord(f, n) ==
  /\ recordCount < MaxRecords
  /\ nextFree + Fixed + NameRoom(n) + Fudge <= Capacity
  /\ offset' = [offset EXCEPT ![recordCount] = nextFree]
  /\ data' = Laid(data, nextFree, f, n)
  /\ nextFree' = nextFree + Fixed + NameRoom(n)
  /\ recordCount' = recordCount + 1
  /\ want' = [want EXCEPT ![recordCount] = <<f, n>>]

(* WriteIndexRecord.  size_new_name is subtracted from itself, so a name   *)
(* of any length is copied over the old one and nothing is moved.          *)
WriteRecord(k, f, n) ==
  /\ k < recordCount
  /\ data' = Laid(data, offset[k], f, n)
  /\ want' = [want EXCEPT ![k] = <<f, n>>]
  /\ UNCHANGED <<recordCount, offset, nextFree>>

(* Where the next record starts. *)
EndOf(k) == IF k + 1 < recordCount THEN offset[k + 1] ELSE nextFree
Fits(k, n) == offset[k] + Fixed + NameLen[n] + 1 <= EndOf(k)

LayoutNext ==
  \/ \E f \in Field, n \in Name : AppendRecord(f, n)
  \/ \E k \in Position, f \in Field, n \in Name : Fits(k, n) /\ WriteRecord(k, f, n)

LayoutSpec == LayoutInit /\ [][LayoutNext]_layout

(* The same with names longer than the one the record was appended with. *)
LongNext ==
  \/ LayoutNext
  \/ \E k \in Position, f \in Field, n \in Name : WriteRecord(k, f, n)
LongSpec == LayoutInit /\ [][LongNext]_layout

----------------------------------------------------------------------------
(* Properties *)

TypeOK ==
  /\ recordCount \in 0 .. MaxRecords
  /\ offset \in [Position -> 0 .. Capacity]
  /\ nextFree \in 0 .. Capacity
  /\ DOMAIN data = Address
  /\ want \in [Position -> {<<>>} \cup Field \X Name]

(* The fixed part f, the name n and its NUL are in d from address p on.    *)
LaidAt(d, p, f, n) ==
  /\ \A i \in 0 .. Fixed - 1 : d[p + i] = <<f, i>>
  /\ \A i \in 0 .. NameLen[n] - 1 : d[p + Fixed + i] = <<n, i>>
  /\ d[p + Fixed + NameLen[n]] = Nul

(* ReadIndexRecord finds in every record, byte for byte, what was last put *)
(* there, whatever was appended after it or written over its neighbours.   *)
Holds(k, f, n) == LaidAt(data, offset[k], f, n)
ReadsBack == \A k \in Position : k < recordCount => Holds(k, want[k][1], want[k][2])
============================================================================
