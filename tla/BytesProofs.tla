---------------------------- MODULE BytesProofs ----------------------------
(***************************************************************************)
(* Proofs that what is kept as bytes comes back.                           *)
(*                                                                         *)
(* RecordLayout, for every size of the block, of the fixed part and of the *)
(* words: records never overlap, so each reads back what was last put in   *)
(* it.  MemIndexFile, for any heap and any length: the file owns exactly   *)
(* the piece of memory it says, as long as it says, holds nothing that was *)
(* not written, and is the file IndexFile promises.  MtpStrings, for every *)
(* size of the buffer and every name: what readstring keeps is a string,   *)
(* writestring sends back the longest beginning of a host's name that      *)
(* fits, and utf8_strlen announces as many units as are sent, for any      *)
(* bytes.                                                                  *)
(*                                                                         *)
(* What is computed one byte or one unit after the other is computed by a  *)
(* recursive function.  Recursion shows that it exists, and a fact about   *)
(* all of its values is proved by the least number at which it would fail. *)
(***************************************************************************)
EXTENDS RecordLayout, MemIndexFile, MtpStrings, SequenceTheorems, WellFoundedInduction, TLAPS

-----------------------------------------------------------------------------
(* RecordLayout                                                            *)

(* Quotient and remainder by P rebuild the number. *)
LEMMA DivMod ==
  ASSUME NEW x \in Nat, NEW P \in Nat \ {0}
  PROVE  /\ x \div P \in Nat
         /\ x % P \in 0 .. P - 1
         /\ x = (x \div P) * P + (x % P)
OBVIOUS


(* The records that are there lie one after the other, each with the name  *)
(* it was last given and its NUL inside its own room.                      *)
Packed ==
  \A k \in Position : k < recordCount =>
    /\ want[k] \in Field \X Name
    /\ Fits(k, want[k][2])
    /\ EndOf(k) <= nextFree
    /\ \A j \in Position : j < k => EndOf(j) <= offset[k]

LayoutInv == TypeOK /\ Packed /\ ReadsBack

(* The room taken for a name holds it and its NUL: what the rounding in    *)
(* (strlen + 4) & 0xfffc is for.                                           *)
LEMMA NameRoomHoldsNul ==
  ASSUME NEW n \in Name
  PROVE  NameRoom(n) \in Nat /\ NameLen[n] + 1 <= NameRoom(n)
<1> DEFINE x == NameLen[n] + Word
           q == x \div Word
<1>1. x \in Nat /\ Word \in Nat \ {0} /\ NameLen[n] \in Nat
  BY LayoutAssumption
<1>2. q \in Nat /\ x % Word \in 0 .. Word - 1 /\ x = q * Word + (x % Word)
  BY <1>1, DivMod
<1>3. q * Word \in Nat
  BY <1>1, <1>2
<1>4. NameRoom(n) = q * Word
  BY DEF NameRoom
<1> HIDE DEF q
<1> QED BY <1>1, <1>2, <1>3, <1>4

(* Copying a record in puts its bytes and its NUL where Holds looks.       *)
LEMMA LaidRecord ==
  ASSUME NEW d, NEW p \in Nat, NEW f \in Field, NEW n \in Name,
         p + Fixed + NameLen[n] < Capacity
  PROVE  LaidAt(Laid(d, p, f, n), p, f, n)
<1>1. Fixed \in Nat /\ NameLen[n] \in Nat /\ Capacity \in Nat
  BY LayoutAssumption
<1>2. ASSUME NEW i \in 0 .. Fixed - 1
      PROVE  Laid(d, p, f, n)[p + i] = <<f, i>>
  <2>1. p + i \in Address /\ p + i >= p /\ p + i < p + Fixed /\ (p + i) - p = i
    BY <1>1 DEF Address
  <2> QED BY <2>1 DEF Laid
<1>3. ASSUME NEW i \in 0 .. NameLen[n] - 1
      PROVE  Laid(d, p, f, n)[p + Fixed + i] = <<n, i>>
  <2>1. /\ p + Fixed + i \in Address
        /\ ~(p + Fixed + i < p + Fixed)
        /\ p + Fixed + i >= p + Fixed
        /\ p + Fixed + i < p + Fixed + NameLen[n]
        /\ (p + Fixed + i) - p - Fixed = i
    BY <1>1 DEF Address
  <2> QED BY <2>1 DEF Laid
<1>4. Laid(d, p, f, n)[p + Fixed + NameLen[n]] = Nul
  <2>1. /\ p + Fixed + NameLen[n] \in Address
        /\ ~(p + Fixed + NameLen[n] < p + Fixed)
        /\ ~(p + Fixed + NameLen[n] < p + Fixed + NameLen[n])
    BY <1>1 DEF Address
  <2> QED BY <2>1 DEF Laid
<1> QED BY <1>2, <1>3, <1>4 DEF LaidAt

(* ... and changes no other byte.                                          *)
LEMMA LaidElsewhere ==
  ASSUME NEW d, NEW p \in Nat, NEW f \in Field, NEW n \in Name, NEW i \in Address,
         i < p \/ i > p + Fixed + NameLen[n]
  PROVE  Laid(d, p, f, n)[i] = d[i]
<1>1. Fixed \in Nat /\ NameLen[n] \in Nat /\ i \in Int
  BY LayoutAssumption DEF Address
<1>2. /\ ~(i >= p /\ i < p + Fixed)
      /\ ~(i >= p + Fixed /\ i < p + Fixed + NameLen[n])
      /\ i # p + Fixed + NameLen[n]
  BY <1>1
<1> QED BY <1>2 DEF Laid

(* A record whose bytes all lie before or all behind those being copied    *)
(* still holds what it held.                                               *)
LEMMA HoldsElsewhere ==
  ASSUME NEW p \in Nat, NEW f \in Field, NEW n \in Name,
         NEW k \in Position, NEW g \in Field, NEW m \in Name,
         offset[k] \in Nat, offset'[k] = offset[k],
         data' = Laid(data, p, f, n),
         Holds(k, g, m),
         offset[k] + Fixed + NameLen[m] < Capacity,
         \/ offset[k] + Fixed + NameLen[m] < p
         \/ offset[k] > p + Fixed + NameLen[n]
  PROVE  Holds(k, g, m)'
<1>1. Fixed \in Nat /\ NameLen[n] \in Nat /\ NameLen[m] \in Nat /\ Capacity \in Nat
  BY LayoutAssumption
<1>2. ASSUME NEW i \in Int, offset[k] <= i, i <= offset[k] + Fixed + NameLen[m]
      PROVE  data'[i] = data[i]
  <2>1. i \in Address /\ (i < p \/ i > p + Fixed + NameLen[n])
    BY <1>1, <1>2 DEF Address
  <2> QED BY <2>1, LaidElsewhere
<1>3. ASSUME NEW i \in 0 .. Fixed - 1 PROVE data'[offset[k] + i] = <<g, i>>
  <2>1. /\ offset[k] + i \in Int
        /\ offset[k] <= offset[k] + i
        /\ offset[k] + i <= offset[k] + Fixed + NameLen[m]
    BY <1>1
  <2>2. data[offset[k] + i] = <<g, i>>
    BY DEF Holds, LaidAt
  <2> QED BY <1>2, <2>1, <2>2
<1>4. ASSUME NEW i \in 0 .. NameLen[m] - 1
      PROVE  data'[offset[k] + Fixed + i] = <<m, i>>
  <2>1. /\ offset[k] + Fixed + i \in Int
        /\ offset[k] <= offset[k] + Fixed + i
        /\ offset[k] + Fixed + i <= offset[k] + Fixed + NameLen[m]
    BY <1>1
  <2>2. data[offset[k] + Fixed + i] = <<m, i>>
    BY DEF Holds, LaidAt
  <2> QED BY <1>2, <2>1, <2>2
<1>5. data'[offset[k] + Fixed + NameLen[m]] = Nul
  <2>1. data[offset[k] + Fixed + NameLen[m]] = Nul
    BY DEF Holds, LaidAt
  <2>2. /\ offset[k] + Fixed + NameLen[m] \in Int
        /\ offset[k] <= offset[k] + Fixed + NameLen[m]
    BY <1>1
  <2> QED BY <1>2, <2>1, <2>2
<1> QED BY <1>3, <1>4, <1>5 DEF Holds, LaidAt

LEMMA InvInit == LayoutInit => LayoutInv
<1> SUFFICES ASSUME LayoutInit PROVE LayoutInv
  OBVIOUS
<1>1. TypeOK
  BY LayoutAssumption DEF LayoutInit, TypeOK
<1>2. \A k \in Position : ~(k < recordCount)
  BY LayoutAssumption DEF LayoutInit, Position
<1> QED BY <1>1, <1>2 DEF LayoutInv, Packed, ReadsBack

(* What the invariant says of the record at position k, in numbers.        *)
LEMMA PackedRecord ==
  ASSUME LayoutInv, NEW k \in Position, k < recordCount
  PROVE  /\ k \in Nat /\ recordCount \in Nat /\ nextFree \in Nat /\ offset[k] \in Nat
         /\ EndOf(k) \in Nat /\ EndOf(k) <= nextFree /\ nextFree <= Capacity
         /\ want[k][1] \in Field /\ want[k][2] \in Name
         /\ NameLen[want[k][2]] \in Nat
         /\ offset[k] + Fixed + NameLen[want[k][2]] + 1 <= EndOf(k)
         /\ Holds(k, want[k][1], want[k][2])
<1>1. k \in Nat /\ recordCount \in Nat /\ recordCount <= MaxRecords /\ MaxRecords \in Nat
  BY LayoutAssumption DEF LayoutInv, TypeOK, Position
<1>2. nextFree \in Nat /\ nextFree <= Capacity /\ Capacity \in Nat
  BY LayoutAssumption DEF LayoutInv, TypeOK
<1>3. \A j \in Position : offset[j] \in Nat
  BY LayoutAssumption DEF LayoutInv, TypeOK
<1>4. EndOf(k) \in Nat
  <2>1. CASE k + 1 < recordCount
    <3>1. k + 1 \in Position
      BY <1>1, <2>1 DEF Position
    <3> QED BY <1>3, <2>1, <3>1 DEF EndOf
  <2>2. CASE ~(k + 1 < recordCount)
    BY <1>2, <2>2 DEF EndOf
  <2> QED BY <2>1, <2>2
<1>5. want[k] \in Field \X Name /\ Fits(k, want[k][2]) /\ EndOf(k) <= nextFree
  BY DEF LayoutInv, Packed
<1>6. want[k][1] \in Field /\ want[k][2] \in Name
  BY <1>5
<1>7. NameLen[want[k][2]] \in Nat
  BY <1>6, LayoutAssumption
<1>8. Holds(k, want[k][1], want[k][2])
  BY DEF LayoutInv, ReadsBack
<1> QED BY <1>1, <1>2, <1>3, <1>4, <1>5, <1>6, <1>7, <1>8 DEF Fits

(* Appending packs one more record behind the others. *)
LEMMA AppendKeepsInv ==
  ASSUME LayoutInv, NEW f \in Field, NEW n \in Name, AppendRecord(f, n)
  PROVE  LayoutInv'
<1>1. /\ MaxRecords \in Nat /\ Capacity \in Nat /\ Fudge \in Nat /\ Fixed \in Nat
      /\ NameLen[n] \in Nat
  BY LayoutAssumption
<1>2. NameRoom(n) \in Nat /\ NameLen[n] + 1 <= NameRoom(n)
  BY NameRoomHoldsNul
<1>3. /\ recordCount < MaxRecords
      /\ nextFree + Fixed + NameRoom(n) + Fudge <= Capacity
      /\ offset' = [offset EXCEPT ![recordCount] = nextFree]
      /\ data' = Laid(data, nextFree, f, n)
      /\ nextFree' = nextFree + Fixed + NameRoom(n)
      /\ recordCount' = recordCount + 1
      /\ want' = [want EXCEPT ![recordCount] = <<f, n>>]
  BY DEF AppendRecord
<1>4. /\ recordCount \in Nat /\ recordCount \in Position /\ nextFree \in Nat /\ nextFree <= Capacity
      /\ offset \in [Position -> 0 .. Capacity]
      /\ want \in [Position -> {<<>>} \cup Field \X Name]
  BY <1>1, <1>3 DEF LayoutInv, TypeOK, Position
<1>5. nextFree + Fixed + NameLen[n] + 1 <= nextFree' /\ nextFree' \in Nat /\ nextFree' <= Capacity
  <2>1. /\ nextFree' = nextFree + Fixed + NameRoom(n)
        /\ nextFree + Fixed + NameRoom(n) + Fudge <= Capacity
        /\ nextFree \in Nat
    BY <1>3, <1>4
  <2>2. NameLen[n] \in Nat /\ Fixed \in Nat /\ Fudge \in Nat /\ Capacity \in Nat
    BY <1>1
  <2> QED BY ONLY <1>2, <2>1, <2>2
<1>6. TypeOK'
  <2>1. recordCount' \in 0 .. MaxRecords
    BY <1>1, <1>3, <1>4
  <2>2. offset' \in [Position -> 0 .. Capacity]
    BY <1>1, <1>3, <1>4
  <2>3. nextFree' \in 0 .. Capacity
    BY <1>1, <1>5
  <2>4. DOMAIN data' = Address
    BY <1>3 DEF Laid
  <2>5. want' \in [Position -> {<<>>} \cup Field \X Name]
    BY <1>3, <1>4
  <2> QED BY <2>1, <2>2, <2>3, <2>4, <2>5 DEF TypeOK
<1>7. ASSUME NEW k \in Position, k < recordCount
      PROVE  offset'[k] = offset[k] /\ want'[k] = want[k] /\ EndOf(k)' = EndOf(k)
  <2>1. k \in Nat /\ k # recordCount
    BY <1>4, <1>7 DEF Position
  <2>2. offset'[k] = offset[k] /\ want'[k] = want[k]
    BY <1>3, <1>4, <2>1
  <2>3. CASE k + 1 < recordCount
    <3>1. k + 1 \in Position /\ k + 1 # recordCount /\ k + 1 < recordCount'
      BY <1>1, <1>3, <1>4, <2>1, <2>3 DEF Position
    <3>2. offset'[k + 1] = offset[k + 1]
      BY <1>3, <1>4, <3>1
    <3> QED BY <2>2, <2>3, <3>1, <3>2 DEF EndOf
  <2>4. CASE ~(k + 1 < recordCount)
    <3>1. k + 1 = recordCount /\ k + 1 < recordCount'
      BY <1>3, <1>4, <1>7, <2>1, <2>4
    <3>2. offset'[k + 1] = nextFree
      BY <1>3, <1>4, <3>1
    <3> QED BY <2>2, <2>4, <3>1, <3>2 DEF EndOf
  <2> QED BY <2>3, <2>4
<1>8. ASSUME NEW k \in Position, k = recordCount
      PROVE  /\ offset'[k] = nextFree
             /\ want'[k] = <<f, n>>
             /\ EndOf(k)' = nextFree'
  <2>1. ~(k + 1 < recordCount')
    BY <1>3, <1>4, <1>8
  <2> QED BY <1>3, <1>4, <1>8, <2>1 DEF EndOf
<1>9. ASSUME NEW k \in Position, k < recordCount'
      PROVE  k < recordCount \/ k = recordCount
  BY <1>3, <1>4, <1>9 DEF Position
<1>10. Packed'
  <2> SUFFICES ASSUME NEW k \in Position, k < recordCount'
               PROVE  /\ want'[k] \in Field \X Name
                      /\ Fits(k, want[k][2])'
                      /\ EndOf(k)' <= nextFree'
                      /\ \A j \in Position : j < k => EndOf(j)' <= offset'[k]
    BY DEF Packed
  <2>1. CASE k < recordCount
    <3>1. /\ want[k] \in Field \X Name
          /\ Fits(k, want[k][2])
          /\ EndOf(k) <= nextFree
          /\ \A j \in Position : j < k => EndOf(j) <= offset[k]
      BY <2>1 DEF LayoutInv, Packed
    <3>2. EndOf(k) \in Nat
      BY <2>1, PackedRecord
    <3>3. EndOf(k)' <= nextFree'
      BY <1>1, <1>2, <1>3, <1>4, <1>7, <2>1, <3>1, <3>2
    <3>4. ASSUME NEW j \in Position, j < k PROVE EndOf(j)' <= offset'[k]
      <4>1. j < recordCount
        BY <1>4, <2>1, <3>4 DEF Position
      <4> QED BY <1>7, <2>1, <3>1, <3>4, <4>1
    <3>5. Fits(k, want[k][2])'
      BY <1>7, <2>1, <3>1 DEF Fits
    <3> QED BY <1>7, <2>1, <3>1, <3>3, <3>4, <3>5
  <2>2. CASE k = recordCount
    <3>1. Fits(k, want[k][2])'
      BY <1>5, <1>8, <2>2 DEF Fits
    <3>2. ASSUME NEW j \in Position, j < k PROVE EndOf(j)' <= offset'[k]
      <4>1. EndOf(j) <= nextFree
        BY <2>2, <3>2, PackedRecord
      <4> QED BY <1>7, <1>8, <2>2, <3>2, <4>1
    <3> QED BY <1>5, <1>8, <2>2, <3>1, <3>2
  <2> QED BY <1>9, <2>1, <2>2
<1>11. ReadsBack'
  <2> SUFFICES ASSUME NEW k \in Position, k < recordCount'
               PROVE  Holds(k, want[k][1], want[k][2])'
    BY DEF ReadsBack
  <2>1. CASE k < recordCount
    <3>1. PICK g \in Field, m \in Name : g = want[k][1] /\ m = want[k][2]
      BY <2>1, PackedRecord
    <3>2. /\ offset[k] \in Nat /\ EndOf(k) \in Nat /\ EndOf(k) <= nextFree
          /\ NameLen[m] \in Nat
          /\ offset[k] + Fixed + NameLen[m] + 1 <= EndOf(k)
          /\ Holds(k, g, m)
      BY <2>1, <3>1, PackedRecord
    <3>3. /\ offset[k] + Fixed + NameLen[m] < Capacity
          /\ offset[k] + Fixed + NameLen[m] < nextFree
      BY <1>1, <1>4, <3>2
    <3>4. want'[k][1] = g /\ want'[k][2] = m /\ offset'[k] = offset[k]
      BY <1>7, <2>1, <3>1
    <3>5. Holds(k, g, m)'
      BY <1>3, <1>4, <3>2, <3>3, <3>4, HoldsElsewhere
    <3> QED BY <3>4, <3>5 DEF Holds, LaidAt
  <2>2. CASE k = recordCount
    <3>1. nextFree + Fixed + NameLen[n] < Capacity
      BY <1>1, <1>4, <1>5
    <3>2. LaidAt(data', nextFree, f, n)
      BY <1>3, <1>4, <3>1, LaidRecord
    <3>3. want'[k][1] = f /\ want'[k][2] = n /\ offset'[k] = nextFree
      BY <1>8, <2>2
    <3> QED BY <3>2, <3>3 DEF Holds, LaidAt
  <2> QED BY <1>9, <2>1, <2>2
<1> QED BY <1>6, <1>10, <1>11 DEF LayoutInv

(* Writing a record over with a name that fits leaves the others alone. *)
LEMMA WriteKeepsInv ==
  ASSUME LayoutInv, NEW k \in Position, NEW f \in Field, NEW n \in Name,
         Fits(k, n), WriteRecord(k, f, n)
  PROVE  LayoutInv'
<1>1. Capacity \in Nat /\ Fixed \in Nat /\ NameLen[n] \in Nat
  BY LayoutAssumption
<1>2. /\ k < recordCount
      /\ data' = Laid(data, offset[k], f, n)
      /\ want' = [want EXCEPT ![k] = <<f, n>>]
      /\ recordCount' = recordCount /\ offset' = offset /\ nextFree' = nextFree
  BY DEF WriteRecord
<1>3. \A j \in Position : EndOf(j)' = EndOf(j)
  BY <1>2 DEF EndOf
<1>4. want \in [Position -> {<<>>} \cup Field \X Name]
  BY DEF LayoutInv, TypeOK
<1>5. want'[k] = <<f, n>> /\ \A j \in Position \ {k} : want'[j] = want[j]
  BY <1>2, <1>4
<1>6. /\ offset[k] \in Nat /\ EndOf(k) \in Nat /\ EndOf(k) <= nextFree /\ nextFree <= Capacity
      /\ nextFree \in Nat
      /\ offset[k] + Fixed + NameLen[n] + 1 <= EndOf(k)
  BY <1>2, PackedRecord DEF Fits
<1>7. TypeOK'
  <2>1. want' \in [Position -> {<<>>} \cup Field \X Name]
    BY <1>2, <1>4
  <2>2. DOMAIN data' = Address
    BY <1>2 DEF Laid
  <2> QED BY <1>2, <2>1, <2>2 DEF LayoutInv, TypeOK
<1>8. Packed'
  <2> SUFFICES ASSUME NEW j \in Position, j < recordCount
               PROVE  /\ want'[j] \in Field \X Name
                      /\ Fits(j, want[j][2])'
                      /\ EndOf(j)' <= nextFree'
                      /\ \A i \in Position : i < j => EndOf(i)' <= offset'[j]
    BY <1>2 DEF Packed
  <2>1. /\ want[j] \in Field \X Name
        /\ Fits(j, want[j][2])
        /\ EndOf(j) <= nextFree
        /\ \A i \in Position : i < j => EndOf(i) <= offset[j]
    BY DEF LayoutInv, Packed
  <2>2. want'[j] \in Field \X Name
    BY <1>5, <2>1
  <2>3. Fits(j, want[j][2])'
    <3>1. CASE j = k
      BY <1>2, <1>3, <1>5, <3>1 DEF Fits
    <3>2. CASE j # k
      BY <1>2, <1>3, <1>5, <2>1, <3>2 DEF Fits
    <3> QED BY <3>1, <3>2
  <2> QED BY <1>2, <1>3, <2>1, <2>2, <2>3
<1>9. ReadsBack'
  <2> SUFFICES ASSUME NEW j \in Position, j < recordCount
               PROVE  Holds(j, want[j][1], want[j][2])'
    BY <1>2 DEF ReadsBack
  <2>1. CASE j = k
    <3>1. offset[k] + Fixed + NameLen[n] < Capacity
      BY <1>1, <1>6
    <3>2. LaidAt(data', offset[k], f, n)
      BY <1>2, <1>6, <3>1, LaidRecord
    <3>3. want'[j][1] = f /\ want'[j][2] = n /\ offset'[j] = offset[k]
      BY <1>2, <1>5, <2>1
    <3> QED BY <3>2, <3>3 DEF Holds, LaidAt
  <2>2. CASE j # k
    <3>1. PICK g \in Field, m \in Name : g = want[j][1] /\ m = want[j][2]
      BY PackedRecord
    <3>2. /\ j \in Nat /\ offset[j] \in Nat /\ EndOf(j) \in Nat /\ EndOf(j) <= nextFree
          /\ NameLen[m] \in Nat
          /\ offset[j] + Fixed + NameLen[m] + 1 <= EndOf(j)
          /\ Holds(j, g, m)
      BY <3>1, PackedRecord
    <3>3. want'[j][1] = g /\ want'[j][2] = m /\ offset'[j] = offset[j]
      BY <1>2, <1>5, <2>2, <3>1
    <3>4. offset[j] + Fixed + NameLen[m] < Capacity
      BY <1>1, <1>6, <3>2
    <3>5. \/ offset[j] + Fixed + NameLen[m] < offset[k]
          \/ offset[j] > offset[k] + Fixed + NameLen[n]
      <4>1. CASE j < k
        <5>1. EndOf(j) <= offset[k]
          BY <1>2, <4>1 DEF LayoutInv, Packed
        <5> QED BY <1>1, <1>6, <3>2, <5>1
      <4>2. CASE k < j
        <5>1. EndOf(k) <= offset[j]
          BY <4>2 DEF LayoutInv, Packed
        <5> QED BY <1>1, <1>6, <3>2, <5>1
      <4> QED BY <2>2, <4>1, <4>2 DEF Position
    <3>6. Holds(j, g, m)'
      BY <1>2, <1>6, <3>2, <3>3, <3>4, <3>5, HoldsElsewhere
    <3> QED BY <3>3, <3>6 DEF Holds, LaidAt
  <2> QED BY <2>1, <2>2
<1> QED BY <1>7, <1>8, <1>9 DEF LayoutInv

(* The invariant is inductive. *)
THEOREM LayoutInvAlways == LayoutSpec => []LayoutInv
<1>1. LayoutInit => LayoutInv
  BY InvInit
<1>2. LayoutInv /\ [LayoutNext]_layout => LayoutInv'
  <2> SUFFICES ASSUME LayoutInv, [LayoutNext]_layout PROVE LayoutInv'
    OBVIOUS
  <2>1. ASSUME NEW f \in Field, NEW n \in Name, AppendRecord(f, n) PROVE LayoutInv'
    BY <2>1, AppendKeepsInv
  <2>2. ASSUME NEW k \in Position, NEW f \in Field, NEW n \in Name,
               Fits(k, n), WriteRecord(k, f, n)
        PROVE  LayoutInv'
    BY <2>2, WriteKeepsInv
  <2>3. CASE UNCHANGED layout
    BY <2>3 DEF layout, LayoutInv, TypeOK, Packed, ReadsBack, Fits, EndOf, Holds, LaidAt
  <2> QED BY <2>1, <2>2, <2>3 DEF LayoutNext
<1> QED BY <1>1, <1>2, PTL DEF LayoutSpec

(* A block never holds more records than it has offsets for, nor data      *)
(* beyond its end.                                                         *)
THEOREM LayoutTypeCorrect == LayoutSpec => []TypeOK
<1>1. LayoutInv => TypeOK
  BY DEF LayoutInv
<1> QED BY <1>1, LayoutInvAlways, PTL

(* Every record reads back what was last put in it, as long as a record is *)
(* never given a name longer than its room.                                *)
THEOREM ReadsBackAlways == LayoutSpec => []ReadsBack
<1>1. LayoutInv => ReadsBack
  BY DEF LayoutInv
<1> QED BY <1>1, LayoutInvAlways, PTL

-----------------------------------------------------------------------------
(* MemIndexFile                                                            *)

(* The file is open to have a piece; the position is within the file, so   *)
(* that a write never leaves bytes behind it that nobody wrote.            *)
PlacesOK ==
  /\ _open \in BOOLEAN
  /\ _storage_ptr \in Pieces \cup {nullptr}
  /\ _storage_size \in 0 .. MaxLength
  /\ _current_file_index \in 0 .. _storage_size
  /\ ~_open => _storage_ptr = nullptr

HeapOK ==
  /\ heap \in [Pieces -> Seq(Unit)]
  /\ \A p \in Pieces : p # _storage_ptr => heap[p] = Free
  /\ IF _storage_ptr = nullptr
       THEN _storage_size = 0
       ELSE _storage_size > 0 /\ Len(heap[_storage_ptr]) = _storage_size

MemInv == PlacesOK /\ HeapOK

-----------------------------------------------------------------------------
(* Data that can be written. *)
LEMMA DataIs ==
  ASSUME NEW bytes \in Data
  PROVE  /\ bytes \in Seq(Unit) /\ Len(bytes) \in 1 .. MaxLength
         /\ DOMAIN bytes = 1 .. Len(bytes) /\ \A i \in 1 .. Len(bytes) : bytes[i] \in Unit
<1>1. PICK n \in 1 .. MaxLength : bytes \in [1 .. n -> Unit]
  BY DEF Data
<1>2. n \in Nat /\ MaxLength \in Nat
  BY SizesAssumption
<1> QED BY <1>1, <1>2

(* A place of the file after a write is one it had or one of the data. *)
LEMMA OldOrNew ==
  ASSUME NEW c \in Nat, NEW n \in Nat, NEW s \in Nat, NEW l \in Nat,
         c <= s, l = s \/ l = c + n
  PROVE  \A i \in 1 .. l : i \in c + 1 .. c + n \/ i \in 1 .. s
OBVIOUS

(* What write leaves in the piece of the file: a longer one if need be,    *)
(* with units in all places of it.                                         *)
LEMMA Written ==
  ASSUME MemInv, NEW bytes \in Data,
         NEW old \in Seq(Unit), NEW piece \in Seq(Unit \cup {Junk}),
         Len(old) = _storage_size,
         Len(piece) >= _current_file_index + Len(bytes),
         Len(piece) = _storage_size \/ Len(piece) = _current_file_index + Len(bytes),
         Len(piece) >= _storage_size,
         \A i \in 1 .. _storage_size : piece[i] = old[i]
  PROVE  /\ Copied(piece, bytes) \in Seq(Unit)
         /\ Len(Copied(piece, bytes)) = Len(piece)
         /\ Copied(piece, bytes) =
              [i \in 1 .. Len(piece) |->
                 IF i \in _current_file_index + 1 .. _current_file_index + Len(bytes)
                   THEN bytes[i - _current_file_index] ELSE old[i]]
<1> DEFINE c == _current_file_index
           new == Copied(piece, bytes)
<1>1. /\ Len(bytes) \in Nat /\ Len(bytes) > 0 /\ DOMAIN bytes = 1 .. Len(bytes)
      /\ \A i \in 1 .. Len(bytes) : bytes[i] \in Unit
  BY DataIs
<1>2. c \in Nat /\ _storage_size \in Nat /\ c <= _storage_size
  BY SizesAssumption DEF MemInv, PlacesOK
<1>3. Len(piece) \in Nat /\ DOMAIN piece = 1 .. Len(piece)
  OBVIOUS
<1>4. \A i \in 1 .. Len(piece) : i - c \in DOMAIN bytes <=> i \in c + 1 .. c + Len(bytes)
  <2>1. \A i \in Int : i - c \in 1 .. Len(bytes) <=> i \in c + 1 .. c + Len(bytes)
    BY <1>1, <1>2
  <2> HIDE DEF c
  <2> QED BY <1>1, <1>3, <2>1
<1>5. \A i \in 1 .. Len(piece) : i \in c + 1 .. c + Len(bytes) \/ (i \in 1 .. _storage_size)
  <2>1. Len(piece) = _storage_size \/ Len(piece) = c + Len(bytes)
    OBVIOUS
  <2> QED BY <1>1, <1>2, <1>3, <2>1, OldOrNew
<1>6. new = [i \in 1 .. Len(piece) |->
               IF i \in c + 1 .. c + Len(bytes) THEN bytes[i - c] ELSE old[i]]
  BY <1>3, <1>4, <1>5 DEF Copied
<1>7. \A i \in 1 .. Len(piece) : new[i] \in Unit
  <2>1. \A i \in c + 1 .. c + Len(bytes) : i - c \in 1 .. Len(bytes)
    BY <1>1, <1>2
  <2>2. \A i \in 1 .. _storage_size : old[i] \in Unit
    BY <1>2
  <2> QED BY <1>1, <1>5, <1>6, <2>1, <2>2
<1> HIDE DEF new
<1>8. new \in Seq(Unit) /\ Len(new) = Len(piece)
  <2>1. new \in [1 .. Len(piece) -> Unit]
    BY <1>6, <1>7
  <2> QED BY <1>3, <2>1
<1> QED BY <1>6, <1>8 DEF new

-----------------------------------------------------------------------------
(* The operations keep the invariant. *)

LEMMA Constants ==
  /\ nullptr \notin Pieces
  /\ MaxLength \in Nat
  /\ Free \in Seq(Unit) /\ Len(Free) = 0
  /\ \A n \in Nat : Fresh(n) \in Seq(Unit \cup {Junk}) /\ Len(Fresh(n)) = n
BY SizesAssumption DEF nullptr, Free, Fresh

(* What was allocated for n bytes begins with what the file had. *)
LEMMA AllocatedKeeps ==
  ASSUME MemInv, NEW n \in Nat, n > _storage_size, NEW new \in Allocated(n)
  PROVE  /\ new.ptr \in Pieces
         /\ new.heap \in [Pieces -> Seq(Unit \cup {Junk})]
         /\ Len(new.heap[new.ptr]) = n
         /\ \A p \in Pieces \ {new.ptr} : new.heap[p] = Free
         /\ _storage_ptr # nullptr =>
              \A i \in 1 .. _storage_size : new.heap[new.ptr][i] = heap[_storage_ptr][i]
<1>1. heap \in [Pieces -> Seq(Unit)] /\ _storage_size \in Nat
  BY Constants DEF MemInv, HeapOK, PlacesOK
<1>2. heap \in [Pieces -> Seq(Unit \cup {Junk})]
  <2>1. Seq(Unit) \subseteq Seq(Unit \cup {Junk})
    OBVIOUS
  <2> QED BY <1>1, <2>1
<1>3. CASE _storage_ptr = nullptr
  <2>1. PICK p \in Pieces : /\ heap[p] = Free
                            /\ new = [ptr |-> p, heap |-> [heap EXCEPT ![p] = Fresh(n)]]
    BY <1>3 DEF Allocated, malloc
  <2>2. new.ptr = p /\ new.heap = [heap EXCEPT ![p] = Fresh(n)]
    BY <2>1
  <2>3. \A q \in Pieces : heap[q] = Free
    BY <1>3, Constants DEF MemInv, HeapOK
  <2> QED BY <1>2, <1>3, <2>2, <2>3, Constants
<1>4. CASE _storage_ptr # nullptr
  <2> DEFINE old == heap[_storage_ptr]
             more == Resized(old, n)
  <2>1. _storage_ptr \in Pieces /\ Len(old) = _storage_size /\ old \in Seq(Unit)
    BY <1>1, <1>4 DEF MemInv, PlacesOK, HeapOK
  <2>2. PICK p \in Pieces :
          new = [ptr |-> p, heap |-> [heap EXCEPT ![_storage_ptr] = Free, ![p] = more]]
    BY <1>4 DEF Allocated, realloc
  <2>3. new.ptr = p /\ new.heap = [heap EXCEPT ![_storage_ptr] = Free, ![p] = more]
    BY <2>2
  <2>4. /\ more \in Seq(Unit \cup {Junk}) /\ Len(more) = n
        /\ \A i \in 1 .. _storage_size : more[i] = old[i]
    <3>1. more = [i \in 1 .. n |-> IF i <= _storage_size THEN old[i] ELSE Junk]
      BY <2>1 DEF Resized
    <3>2. \A i \in 1 .. n : i <= _storage_size => old[i] \in Unit
      BY <1>1, <2>1
    <3>3. \A i \in 1 .. _storage_size : i \in 1 .. n /\ i <= _storage_size
      BY <1>1
    <3> HIDE DEF more
    <3>4. more \in [1 .. n -> Unit \cup {Junk}]
      BY <3>1, <3>2
    <3> QED BY <3>1, <3>3, <3>4
  <2> HIDE DEF more
  <2>5. \A q \in Pieces : q # _storage_ptr => heap[q] = Free
    BY DEF MemInv, HeapOK
  <2>6. Free \in Seq(Unit \cup {Junk})
    BY DEF Free
  <2>7. new.heap \in [Pieces -> Seq(Unit \cup {Junk})]
    BY <1>2, <2>1, <2>3, <2>4, <2>6
  <2>8. new.heap[p] = more /\ \A q \in Pieces \ {p} : new.heap[q] = Free
    BY <1>1, <2>1, <2>3, <2>5
  <2> QED BY <1>4, <2>3, <2>4, <2>7, <2>8
<1> QED BY <1>3, <1>4

(* The bytes of the file, as IndexFile has them. *)
content == IF _storage_ptr = nullptr THEN <<>> ELSE heap[_storage_ptr]

LEMMA ContentIs ==
  ASSUME MemInv
  PROVE  content \in Seq(Unit) /\ Len(content) = _storage_size
BY Constants DEF MemInv, PlacesOK, HeapOK, content

(* A write that succeeds leaves the file longer by what goes beyond its    *)
(* end, with the data where they were to be and the rest as it was, in one *)
(* piece of the heap.                                                      *)
LEMMA WriteEffect ==
  ASSUME MemInv, NEW bytes \in Data, write(bytes)
  PROVE  /\ MemInv'
         /\ content' = [i \in 1 .. Len(content') |->
                          IF i \in _current_file_index + 1 .. _current_file_index + Len(bytes)
                            THEN bytes[i - _current_file_index] ELSE content[i]]
         /\ Len(content') = IF _storage_size > _current_file_index + Len(bytes)
                             THEN _storage_size ELSE _current_file_index + Len(bytes)
<1> DEFINE end == _current_file_index + Len(bytes)
<1>1. /\ Len(bytes) \in Nat /\ Len(bytes) > 0
      /\ _current_file_index \in Nat /\ _storage_size \in Nat
      /\ _current_file_index <= _storage_size
      /\ end \in Nat /\ end > 0 /\ end <= MaxLength /\ MaxLength \in Nat
      /\ _current_file_index' = end
  <2>1. Len(bytes) \in 1 .. MaxLength /\ MaxLength \in Nat
    BY DataIs, Constants
  <2>2. _storage_size \in 0 .. MaxLength /\ _current_file_index \in 0 .. _storage_size
    BY DEF MemInv, PlacesOK
  <2>3. end <= MaxLength /\ _current_file_index' = end
    BY DEF write
  <2> QED BY <2>1, <2>2, <2>3
<1>2. /\ content \in Seq(Unit) /\ Len(content) = _storage_size
      /\ heap \in [Pieces -> Seq(Unit)]
  BY ContentIs DEF MemInv, HeapOK
<1>3. CASE WriteWithin(bytes)
  <2>1. /\ end <= _storage_size /\ UNCHANGED <<_storage_ptr, _storage_size>>
        /\ heap' = [heap EXCEPT ![_storage_ptr] = Copied(@, bytes)]
    BY <1>3 DEF WriteWithin
  <2>2. _storage_ptr \in Pieces /\ _storage_ptr # nullptr /\ content = heap[_storage_ptr]
    BY <1>1, <2>1, Constants DEF MemInv, PlacesOK, HeapOK, content
  <2>3. content \in Seq(Unit \cup {Junk})
    BY <1>2
  <2>4. /\ Copied(content, bytes) \in Seq(Unit)
        /\ Len(Copied(content, bytes)) = _storage_size
        /\ Copied(content, bytes) =
             [i \in 1 .. _storage_size |->
                IF i \in _current_file_index + 1 .. _current_file_index + Len(bytes)
                  THEN bytes[i - _current_file_index] ELSE content[i]]
    <3>1. /\ Len(content) = _storage_size /\ Len(content) >= _storage_size
          /\ Len(content) >= _current_file_index + Len(bytes)
          /\ \A i \in 1 .. _storage_size : content[i] = content[i]
      BY <1>1, <1>2, <2>1
    <3> QED
      BY <1>2, <2>3, <3>1, Written
  <2>5. heap' = [heap EXCEPT ![_storage_ptr] = Copied(content, bytes)]
    BY <2>1, <2>2
  <2>6. content' = Copied(content, bytes)
    BY <1>2, <2>1, <2>2, <2>5 DEF content
  <2>7. PlacesOK'
    BY <1>1, <2>1, <2>2 DEF MemInv, PlacesOK, write
  <2>8. HeapOK'
    BY <1>1, <1>2, <2>1, <2>2, <2>4, <2>5 DEF MemInv, HeapOK
  <2> QED BY <1>1, <2>1, <2>4, <2>6, <2>7, <2>8 DEF MemInv
<1>4. CASE WriteBeyond(bytes)
  <2>1. end > _storage_size /\ _storage_size' = end
    BY <1>4 DEF WriteBeyond
  <2>2. PICK new \in Allocated(end) :
          /\ _storage_ptr' = new.ptr
          /\ heap' = [new.heap EXCEPT ![new.ptr] = Copied(@, bytes)]
    BY <1>4, <2>1 DEF WriteBeyond
  <2> DEFINE piece == new.heap[new.ptr]
  <2>3. /\ new.ptr \in Pieces
        /\ new.heap \in [Pieces -> Seq(Unit \cup {Junk})]
        /\ Len(piece) = end
        /\ \A p \in Pieces \ {new.ptr} : new.heap[p] = Free
        /\ _storage_ptr # nullptr =>
             \A i \in 1 .. _storage_size : piece[i] = heap[_storage_ptr][i]
    BY <1>1, <2>1, AllocatedKeeps
  <2>4. \A i \in 1 .. _storage_size : piece[i] = content[i]
    BY <2>3 DEF MemInv, HeapOK, content
  <2>5. piece \in Seq(Unit \cup {Junk})
    BY <2>3
  <2> HIDE DEF piece
  <2>6. /\ Copied(piece, bytes) \in Seq(Unit)
        /\ Len(Copied(piece, bytes)) = end
        /\ Copied(piece, bytes) =
             [i \in 1 .. end |->
                IF i \in _current_file_index + 1 .. _current_file_index + Len(bytes)
                  THEN bytes[i - _current_file_index] ELSE content[i]]
    <3>1. /\ Len(piece) >= end /\ Len(piece) >= _storage_size
          /\ Len(piece) = _storage_size \/ Len(piece) = end
      BY <1>1, <2>1, <2>3
    <3>2. Len(piece) = end
      BY <2>3
    <3> QED BY ONLY MemInv, bytes \in Data, <1>2, <2>4, <2>5, <3>1, <3>2, Written
  <2>7. heap' = [new.heap EXCEPT ![new.ptr] = Copied(piece, bytes)]
    BY <2>2 DEF piece
  <2>8. /\ heap'[new.ptr] = Copied(piece, bytes)
        /\ \A p \in Pieces : p # new.ptr => heap'[p] = Free
        /\ heap' \in [Pieces -> Seq(Unit)]
    <3>1. /\ heap'[new.ptr] = Copied(piece, bytes)
          /\ \A p \in Pieces : p # new.ptr => heap'[p] = Free
          /\ heap' = [p \in Pieces |-> heap'[p]]
      BY <2>3, <2>7
    <3> QED BY <2>6, <3>1, Constants
  <2>9. content' = Copied(piece, bytes)
    BY <2>2, <2>3, <2>8, Constants DEF content
  <2>10. PlacesOK'
    <3>1. _open' \in BOOLEAN /\ (~_open' => _storage_ptr' = nullptr)
      BY DEF MemInv, PlacesOK, write
    <3>2. /\ _storage_ptr' \in Pieces \cup {nullptr}
          /\ _storage_size' \in 0 .. MaxLength
          /\ _current_file_index' \in 0 .. _storage_size'
      BY <1>1, <2>1, <2>2, <2>3
    <3> QED BY <3>1, <3>2 DEF PlacesOK
  <2>11. HeapOK'
    BY <1>1, <2>1, <2>2, <2>3, <2>6, <2>8, Constants DEF HeapOK
  <2> QED BY <1>1, <2>1, <2>6, <2>9, <2>10, <2>11 DEF MemInv
<1> QED BY <1>3, <1>4 DEF write

-----------------------------------------------------------------------------
(* The file owns its memory. *)

(* A file without a piece, at the start and when it is closed. *)
LEMMA NoPiece ==
  ASSUME _open \in BOOLEAN, _storage_ptr = nullptr, _storage_size = 0,
         _current_file_index = 0, heap = [p \in Pieces |-> Free]
  PROVE  MemInv
<1>1. PlacesOK
  <2>1. 0 \in 0 .. MaxLength /\ 0 \in 0 .. 0
    BY Constants
  <2> QED BY <2>1 DEF PlacesOK
<1>2. HeapOK
  BY Constants DEF HeapOK
<1> QED BY <1>1, <1>2 DEF MemInv

LEMMA MemInit == Init => MemInv
BY NoPiece DEF Init

(* Closing gives the piece back: none is left. *)
LEMMA FreedIsFree ==
  ASSUME MemInv
  PROVE  Freed = [p \in Pieces |-> Free]
<1>1. heap \in [Pieces -> Seq(Unit)] /\ \A p \in Pieces : p # _storage_ptr => heap[p] = Free
  BY DEF MemInv, HeapOK
<1>2. CASE _storage_ptr = nullptr
  BY <1>1, <1>2, Constants DEF Freed
<1>3. CASE _storage_ptr # nullptr
  <2>1. Freed = [heap EXCEPT ![_storage_ptr] = Free]
    BY <1>3 DEF Freed
  <2> QED BY <1>1, <2>1
<1> QED BY <1>2, <1>3

LEMMA ReadEffect ==
  ASSUME MemInv, NEW n \in 1 .. MaxLength, read(n)
  PROVE  LET end == IF _current_file_index + n < _storage_size
                    THEN _current_file_index + n ELSE _storage_size
         IN /\ end \in 0 .. _storage_size
            /\ answer' = SubSeq(content, _current_file_index + 1, end)
            /\ _current_file_index' = end
            /\ UNCHANGED <<heap, _storage_ptr, _storage_size, _open>>
<1>1. /\ MaxLength \in Nat /\ n \in Nat /\ n > 0
      /\ _storage_size \in Nat /\ _current_file_index \in Nat
      /\ _current_file_index <= _storage_size
  BY Constants DEF MemInv, PlacesOK
<1>2. _current_file_index + Readable(n) = IF _current_file_index + n < _storage_size
                                          THEN _current_file_index + n ELSE _storage_size
  BY <1>1 DEF Readable
<1>3. CASE _storage_ptr = nullptr
  <2>1. /\ _storage_size = 0 /\ _current_file_index = 0 /\ content = <<>>
        /\ answer' = <<>> /\ _current_file_index' = _current_file_index
        /\ UNCHANGED <<heap, _storage_ptr, _storage_size, _open>>
    BY <1>1, <1>3 DEF MemInv, HeapOK, content, read
  <2>2. SubSeq(<<>>, 1, 0) = <<>>
    OBVIOUS
  <2>3. ~(_current_file_index + n < _storage_size)
    BY <1>1, <2>1
  <2> QED BY <1>1, <2>1, <2>2, <2>3
<1>4. CASE _storage_ptr # nullptr
  BY <1>1, <1>2, <1>4 DEF read, content
<1> QED BY <1>3, <1>4

LEMMA MemNext == MemInv /\ [Next]_vars => MemInv'
<1> SUFFICES ASSUME MemInv, [Next]_vars PROVE MemInv'
  OBVIOUS
<1>1. CASE open
  <2>1. _open' = TRUE /\ _storage_ptr' = nullptr /\ _storage_size' = 0
        /\ _current_file_index' = 0 /\ heap' = heap /\ ~_open
    BY <1>1 DEF open
  <2> QED BY <2>1, Constants DEF MemInv, PlacesOK, HeapOK
<1>2. CASE close
  <2>1. _open' = FALSE /\ _storage_ptr' = nullptr /\ _storage_size' = 0
        /\ _current_file_index' = 0 /\ heap' = [p \in Pieces |-> Free]
    BY <1>2, FreedIsFree DEF close
  <2>2. _open' \in BOOLEAN
    BY <2>1
  <2>3. PlacesOK'
    <3>1. 0 \in 0 .. MaxLength /\ 0 \in 0 .. 0
      BY Constants
    <3> QED BY <2>1, <2>2, <3>1 DEF PlacesOK
  <2> QED BY <2>1, <2>3, Constants DEF MemInv, HeapOK
<1>3. ASSUME NEW bytes \in Data, write(bytes) PROVE MemInv'
  BY <1>3, WriteEffect
<1>4. ASSUME NEW bytes \in Data, WriteFails(bytes) PROVE MemInv'
  BY <1>4 DEF WriteFails, vars, MemInv, PlacesOK, HeapOK
<1>5. ASSUME NEW n \in 1 .. MaxLength, read(n) PROVE MemInv'
  BY <1>5, ReadEffect DEF MemInv, PlacesOK, HeapOK
<1>6. ASSUME NEW p \in 0 .. MaxLength, seek(p) PROVE MemInv'
  <2>1. _current_file_index' = _current_file_index \/ (_current_file_index' = p /\ ~(p > _storage_size))
    BY <1>6 DEF seek
  <2>2. UNCHANGED <<heap, _storage_ptr, _storage_size, _open>>
    BY <1>6 DEF seek
  <2>3. _current_file_index' \in 0 .. _storage_size
    BY <2>1, Constants DEF MemInv, PlacesOK
  <2> QED BY <2>2, <2>3 DEF MemInv, PlacesOK, HeapOK
<1>7. CASE UNCHANGED vars
  BY <1>7 DEF vars, MemInv, PlacesOK, HeapOK
<1> QED BY <1>1, <1>2, <1>3, <1>4, <1>5, <1>6, <1>7 DEF Next

LEMMA MemInvAlways == Spec => []MemInv
BY MemInit, MemNext, PTL DEF Spec

(* Whatever is written, reallocated, closed and opened again, the heap     *)
(* holds the file's one piece and no other.                                *)
THEOREM OwnsItsMemoryAlways == Spec => []OwnsItsMemory
<1>1. MemInv => OwnsItsMemory
  <2> SUFFICES ASSUME MemInv PROVE OwnsItsMemory
    OBVIOUS
  <2>1. _storage_ptr # nullptr => /\ _storage_ptr \in Pieces
                                  /\ Len(heap[_storage_ptr]) = _storage_size
                                  /\ heap[_storage_ptr] # Free
    BY Constants DEF MemInv, PlacesOK, HeapOK
  <2>2. \A p \in Pieces : p # _storage_ptr => heap[p] = Free
    BY DEF MemInv, HeapOK
  <2> QED BY <2>1, <2>2, Constants DEF OwnsItsMemory
<1> QED BY <1>1, MemInvAlways, PTL

-----------------------------------------------------------------------------
(* The file is the one IndexFile promises. *)

LEMMA FileInit == Init => File!Init
BY DEF Init, File!Init

LEMMA FileStep ==
  ASSUME MemInv, [Next]_vars
  PROVE  [File!Next]_(File!vars)
<1>1. CASE open
  <2>1. /\ ~_open /\ _open' = TRUE /\ _storage_ptr = nullptr /\ _storage_ptr' = nullptr
        /\ _current_file_index' = 0 /\ _current_file_index = 0 /\ answer' = answer
    BY <1>1 DEF open, MemInv, PlacesOK, HeapOK
  <2>2. File!Open
    BY <2>1 DEF File!Open
  <2> QED BY <2>2 DEF File!Next
<1>2. CASE close
  <2>1. File!Close
    BY <1>2 DEF close, File!Close
  <2> QED BY <2>1 DEF File!Next
<1>3. ASSUME NEW bytes \in Data, write(bytes)
      PROVE  File!Next
  <2>1. /\ content' = [i \in 1 .. Len(content') |->
                          IF i \in _current_file_index + 1 .. _current_file_index + Len(bytes)
                            THEN bytes[i - _current_file_index] ELSE content[i]]
        /\ Len(content') = IF _storage_size > _current_file_index + Len(bytes)
                             THEN _storage_size ELSE _current_file_index + Len(bytes)
        /\ Len(content) = _storage_size
    BY <1>3, WriteEffect, ContentIs
  <2>2. content' = File!Overwritten(bytes)
    BY <2>1 DEF File!Overwritten, File!Longer, content
  <2>3. File!Write(bytes)
    BY <1>3, <2>2 DEF write, File!Write, content
  <2> QED BY <2>3 DEF File!Next, File!Data, Data
<1>4. ASSUME NEW bytes \in Data, WriteFails(bytes)
      PROVE  UNCHANGED File!vars
  BY <1>4 DEF WriteFails, vars, File!vars
<1>5. ASSUME NEW n \in 1 .. MaxLength, read(n)
      PROVE  File!Next
  <2> DEFINE end == IF _current_file_index + n < _storage_size
                    THEN _current_file_index + n ELSE _storage_size
  <2>1. /\ answer' = SubSeq(content, _current_file_index + 1, end)
        /\ _current_file_index' = end
        /\ UNCHANGED <<heap, _storage_ptr, _storage_size, _open>>
        /\ Len(content) = _storage_size
    BY <1>5, ReadEffect, ContentIs
  <2>2. File!Shorter(_current_file_index + n, Len(content)) = end
    BY <2>1 DEF File!Shorter
  <2>3. _open
    BY <1>5 DEF read
  <2> HIDE DEF end
  <2>4. File!Read(n)
    BY <2>1, <2>2, <2>3 DEF File!Read, content
  <2> QED BY <2>4 DEF File!Next
<1>6. ASSUME NEW p \in 0 .. MaxLength, seek(p)
      PROVE  File!Next \/ UNCHANGED File!vars
  <2>1. /\ UNCHANGED <<heap, _storage_ptr, _storage_size, _open, answer>> /\ _open
        /\ _current_file_index' = _current_file_index
             \/ (_current_file_index' = p /\ ~(p > _storage_size))
    BY <1>6 DEF seek
  <2>2. CASE _current_file_index' = _current_file_index
    BY <2>1, <2>2 DEF File!vars
  <2>3. CASE _current_file_index' = p /\ ~(p > _storage_size)
    <3>1. p <= Len(content)
      BY <2>3, ContentIs, Constants DEF MemInv, PlacesOK
    <3>2. File!Seek(p)
      BY <2>1, <2>3, <3>1 DEF File!Seek, content
    <3> QED BY <3>2 DEF File!Next
  <2> QED BY <2>1, <2>2, <2>3
<1>7. CASE UNCHANGED vars
  BY <1>7 DEF vars, File!vars
<1> QED BY <1>1, <1>2, <1>3, <1>4, <1>5, <1>6, <1>7 DEF Next

(* The memory behind it may move or be short: to the record store it is a  *)
(* file that keeps what is written to it, until it is closed.              *)
THEOREM MemoryImplementsFile == Spec => FileSpec
<1>1. Init => File!Init
  BY FileInit
<1>2. MemInv /\ [Next]_vars => [File!Next]_(File!vars)
  BY FileStep
<1> QED BY <1>1, <1>2, MemInvAlways, PTL DEF Spec, FileSpec, File!Spec

-----------------------------------------------------------------------------
(* MtpStrings                                                              *)

(***************************************************************************)
(* Induction.                                                              *)
(***************************************************************************)

(* A set of naturals that is not empty has a least member. *)
LEMMA LeastMember ==
  ASSUME NEW T, T \subseteq Nat, T # {}
  PROVE  \E x \in T : \A y \in T : x <= y
<1> DEFINE Below == OpToRel(<, Nat)
<1>1. IsWellFoundedOn(Below, Nat)
  BY NatLessThanWellFounded
<1>2. \A x, y \in Nat : <<x, y>> \in Below <=> x < y
  BY DEF OpToRel
<1> HIDE DEF Below
<1>3. PICK x \in T : \A y \in T : <<y, x>> \notin Below
  BY <1>1, WFMin, Zenon
<1>4. ASSUME NEW y \in T PROVE x <= y
  <2>1. <<y, x>> \notin Below
    BY <1>3
  <2>2. x \in Nat /\ y \in Nat
    OBVIOUS
  <2>3. ~(y < x)
    BY <1>2, <2>1, <2>2
  <2> QED
    BY <2>2, <2>3
<1> QED
  BY <1>4

Repeats(g, n, a, step) == g = [i \in 0 .. n |-> IF i = 0 THEN a ELSE step[i][g[i - 1]]]

(* A function may be defined by the value at 0 and a step from each value  *)
(* to the next.                                                            *)
LEMMA Recursion ==
  ASSUME NEW n \in Nat, NEW S, NEW a \in S, NEW step \in [1 .. n -> [S -> S]]
  PROVE  \E g \in [0 .. n -> S] : Repeats(g, n, a, step)
<1> DEFINE Obeys(k, g) == g[0] = a /\ \A i \in 1 .. k : g[i] = step[i][g[i - 1]]
           None == {k \in 0 .. n : ~\E g \in [0 .. k -> S] : Obeys(k, g)}
<1>1. None = {}
  <2> SUFFICES ASSUME None # {} PROVE FALSE
    OBVIOUS
  <2>1. None \subseteq Nat
    OBVIOUS
  <2>2. PICK k \in None : \A j \in None : k <= j
    BY <2>1, LeastMember
  <2>3. k \in 0 .. n /\ ~\E g \in [0 .. k -> S] : Obeys(k, g)
    OBVIOUS
  <2>4. k # 0
    <3>1. [i \in 0 .. 0 |-> a] \in [0 .. 0 -> S] /\ Obeys(0, [i \in 0 .. 0 |-> a])
      OBVIOUS
    <3> QED
      BY <3>1, <2>3
  <2>5. k - 1 \in 0 .. n /\ k - 1 \notin None
    <3>1. k - 1 \in 0 .. n
      BY <2>3, <2>4
    <3>2. ~(k <= k - 1)
      BY <2>3
    <3> HIDE DEF None
    <3> QED
      BY <2>2, <3>1, <3>2
  <2>6. PICK g \in [0 .. k - 1 -> S] : Obeys(k - 1, g)
    BY <2>5
  <2> DEFINE h == [i \in 0 .. k |-> IF i = k THEN step[k][g[k - 1]] ELSE g[i]]
  <2>7. k \in 1 .. n /\ k - 1 \in 0 .. k - 1
    BY <2>3, <2>4
  <2>8. g[k - 1] \in S /\ step[k] \in [S -> S]
    BY <2>7
  <2>9. h \in [0 .. k -> S]
    BY <2>7, <2>8
  <2>10. h[0] = a
    BY <2>6, <2>7
  <2>11. ASSUME NEW i \in 1 .. k PROVE h[i] = step[i][h[i - 1]]
    BY <2>6, <2>7
  <2> QED
    BY <2>3, <2>9, <2>10, <2>11
<1>2. PICK g \in [0 .. n -> S] : Obeys(n, g)
  BY <1>1
<1>3. Repeats(g, n, a, step)
  BY <1>2 DEF Repeats
<1> QED
  BY <1>3

(***************************************************************************)
(* The walk that counts.                                                   *)
(***************************************************************************)
Progress == [length : Nat, count : 0 .. 2]

(* Counting a byte gives a count.                                          *)
LEMMA CountedType ==
  ASSUME NEW c \in 0 .. 255, NEW seen \in Progress
  PROVE  Counted(c, seen) \in Progress
BY DEF Counted, Progress

(* What is counted after a byte is what that byte makes of the count before *)
(* it: the loop of utf8_strlen.                                            *)
LEMMA ScannedIs ==
  ASSUME NEW bytes \in Seq(0 .. 255)
  PROVE  /\ Scanned(bytes) \in [0 .. Len(bytes) -> Progress]
         /\ Scanned(bytes)[0] = Nothing
         /\ \A n \in 1 .. Len(bytes) : Scanned(bytes)[n] = Counted(bytes[n], Scanned(bytes)[n - 1])
<1>1. Len(bytes) \in Nat /\ \A n \in 1 .. Len(bytes) : bytes[n] \in 0 .. 255
  <2> HIDE DEF Scanned
  <2> QED
    BY LenProperties, ElementOfSeq
<1> DEFINE step == [n \in 1 .. Len(bytes) |-> [s \in Progress |-> Counted(bytes[n], s)]]
           Obeys(g) == g = [n \in 0 .. Len(bytes) |->
                              IF n = 0 THEN Nothing ELSE Counted(bytes[n], g[n - 1])]
<1>2. step \in [1 .. Len(bytes) -> [Progress -> Progress]]
  BY <1>1, CountedType
<1>3. Nothing \in Progress
  BY DEF Nothing, Progress
<1>4. PICK g \in [0 .. Len(bytes) -> Progress] : Repeats(g, Len(bytes), Nothing, step)
  <2> HIDE DEF step
  <2> QED
    BY <1>1, <1>2, <1>3, Recursion, Zenon
<1>5. Obeys(g)
  <2>1. ASSUME NEW n \in 0 .. Len(bytes)
        PROVE  g[n] = IF n = 0 THEN Nothing ELSE Counted(bytes[n], g[n - 1])
    <3>1. CASE n = 0
      BY <1>1, <1>4, <3>1 DEF Repeats
    <3>2. CASE n # 0
      <4>1. n \in 1 .. Len(bytes) /\ n - 1 \in 0 .. Len(bytes)
        BY <1>1, <3>2
      <4>2. g[n] = step[n][g[n - 1]]
        <5> HIDE DEF step
        <5> QED
          BY <1>4, <3>2, <4>1 DEF Repeats
      <4>3. g[n - 1] \in Progress
        BY <4>1
      <4> QED
        BY <3>2, <4>1, <4>2, <4>3
    <3> QED
      BY <3>1, <3>2
  <2> QED
    BY <1>4, <2>1 DEF Repeats
<1>6. Scanned(bytes) = CHOOSE h : Obeys(h)
  BY DEF Scanned
<1> HIDE DEF Obeys
<1>7. Obeys(Scanned(bytes))
  BY <1>5, <1>6
<1> USE DEF Obeys
<1>8. \A n \in 1 .. Len(bytes) : Scanned(bytes)[n] = Counted(bytes[n], Scanned(bytes)[n - 1])
  BY <1>7, <1>1
<1>9. Scanned(bytes)[0] = Nothing
  BY <1>7, <1>1
<1>10. Scanned(bytes) \in [0 .. Len(bytes) -> Progress]
  <2>1. Scanned(bytes) = [n \in 0 .. Len(bytes) |->
                            IF n = 0 THEN Nothing ELSE Counted(bytes[n], Scanned(bytes)[n - 1])]
    BY <1>7
  <2>2. \A n \in 0 .. Len(bytes) : Scanned(bytes)[n] \in Progress
    <3> DEFINE wrong == {n \in 0 .. Len(bytes) : Scanned(bytes)[n] \notin Progress}
    <3>1. SUFFICES ASSUME wrong # {} PROVE FALSE
      OBVIOUS
    <3>2. PICK n \in wrong : \A k \in wrong : n <= k
      <4>1. wrong \subseteq Nat
        BY <1>1
      <4> HIDE DEF wrong
      <4> QED
        BY <3>1, <4>1, LeastMember, Zenon
    <3>3. CASE n = 0
      BY <1>3, <1>9, <3>3
    <3>4. CASE n # 0
      <4>1. n \in 1 .. Len(bytes) /\ n - 1 \in 0 .. Len(bytes) /\ n - 1 < n
        BY <1>1, <3>4
      <4>2. Scanned(bytes)[n - 1] \in Progress
        BY <3>2, <4>1
      <4>3. bytes[n] \in 0 .. 255
        BY <1>1, <4>1
      <4>4. Scanned(bytes)[n] = Counted(bytes[n], Scanned(bytes)[n - 1])
        BY <1>8, <4>1
      <4>5. Scanned(bytes)[n] \in Progress
        <5> HIDE DEF Obeys
        <5> QED
          BY <4>2, <4>3, <4>4, CountedType, Zenon
      <4> QED
        BY <4>5
    <3> QED
      BY <3>3, <3>4
  <2> QED
    BY <2>1, <2>2, Zenon
<1> QED
  BY <1>8, <1>9, <1>10

(***************************************************************************)
(* A unit and its bytes.                                                   *)
(***************************************************************************)
LEMMA MostIs == Most \in Nat /\ Most + 1 = 65536
BY DEF Most

Utf8(c) == IF c < 128 THEN Lead1(c) ELSE IF c < 2048 THEN Lead2(c) ELSE Lead3(c)

(* Six bits more, and six bits less. *)
LEMMA SixBits ==
  ASSUME NEW x \in Nat
  PROVE  /\ x \div 64 \in Nat /\ x % 64 \in 0 .. 63
         /\ x = (x \div 64) * 64 + (x % 64)
OBVIOUS

(* A byte that goes on a character is known as one, and gives back its six *)
(* bits.                                                                   *)
LEMMA MoreByte ==
  ASSUME NEW x \in Nat
  PROVE  LET b == 128 + (x % 64)
         IN  /\ b \in 1 .. 255
             /\ ~IsPlain(b) /\ IsMore(b) /\ b % 64 = x % 64
<1> DEFINE r == x % 64
<1>1. r \in 0 .. 63
  OBVIOUS
<1> HIDE DEF r
<1>2. 128 + r \in 1 .. 255 /\ ~(128 + r < 128) /\ (128 + r) \div 64 = 2 /\ (128 + r) % 64 = r
  BY <1>1
<1> QED
  BY <1>2 DEF r, IsPlain, IsMore

(* So is a byte that begins one of two bytes,                              *)
LEMMA LeadByte2 ==
  ASSUME NEW q \in 2 .. 31
  PROVE  LET b == 192 + (q % 32)
         IN  /\ b \in 1 .. 255
             /\ ~IsPlain(b) /\ ~IsMore(b) /\ IsLead2(b) /\ b % 32 = q
<1>1. q % 32 = q
  OBVIOUS
<1>2. 192 + q \in 1 .. 255 /\ ~(192 + q < 128) /\ (192 + q) \div 64 = 3 /\ (192 + q) \div 32 = 6 /\ (192 + q) % 32 = q
  OBVIOUS
<1> QED
  BY <1>1, <1>2 DEF IsPlain, IsMore, IsLead2

(* and one that begins one of three.                                       *)
LEMMA LeadByte3 ==
  ASSUME NEW q \in 0 .. 15
  PROVE  LET b == 224 + (q % 16)
         IN  /\ b \in 1 .. 255
             /\ ~IsPlain(b) /\ ~IsMore(b) /\ ~IsLead2(b) /\ IsLead3(b) /\ b % 16 = q
<1>1. q % 16 = q
  OBVIOUS
<1>2. 224 + q \in 1 .. 255 /\ ~(224 + q < 128) /\ (224 + q) \div 64 = 3 /\ (224 + q) \div 32 = 7
      /\ (224 + q) \div 16 = 14 /\ (224 + q) % 16 = q
  OBVIOUS
<1> QED
  BY <1>1, <1>2 DEF IsPlain, IsMore, IsLead2, IsLead3

(* A unit below 0x80 is its own byte.                                      *)
LEMMA OneByte ==
  ASSUME NEW c \in Nat, c < 128
  PROVE  Utf8(c) = <<c>> /\ IsPlain(c)
<1>1. c % 128 = c
  OBVIOUS
<1> QED
  BY <1>1 DEF Utf8, Lead1, IsPlain

(* What a unit is, in numbers the provers reckon with,                     *)
LEMMA UnitIs ==
  ASSUME NEW c \in Char16
  PROVE  c \in Nat /\ c < 65536
BY MostIs DEF Char16

(* and back.                                                               *)
LEMMA IsUnit ==
  ASSUME NEW c \in Nat, c < 65536
  PROVE  c \in Char16
BY MostIs DEF Char16

(* char16 is cut to 16 bits,                                               *)
LEMMA Mod16 ==
  ASSUME NEW x \in Nat
  PROVE  x % 65536 \in Char16
<1>1. x % 65536 \in Nat /\ x % 65536 < 65536
  OBVIOUS
<1> QED
  BY <1>1, IsUnit

(* which changes no unit.                                                  *)
LEMMA Fits16 ==
  ASSUME NEW x \in Nat, x < 65536
  PROVE  x % 65536 = x
OBVIOUS

FirstOf2(c) == 192 + ((c \div 64) % 32)
FirstOf3(c) == 224 + ((c \div 4096) % 16)
Middle(c) == 128 + ((c \div 64) % 64)
Final(c) == 128 + (c % 64)

(* A unit from 0x80 on is stored as two bytes, which writestring puts      *)
(* together again;                                                         *)
LEMMA TwoBytes ==
  ASSUME NEW c \in Nat, c >= 128, c < 2048
  PROVE  /\ Utf8(c) = <<FirstOf2(c), Final(c)>>
         /\ FirstOf2(c) \in 1 .. 255 /\ Final(c) \in 1 .. 255
         /\ ~IsPlain(FirstOf2(c)) /\ ~IsMore(FirstOf2(c)) /\ IsLead2(FirstOf2(c))
         /\ FirstOf2(c) % 32 = c \div 64
         /\ ~IsPlain(Final(c)) /\ IsMore(Final(c))
         /\ ((c \div 64) * 64 + (Final(c) % 64)) % 65536 = c
<1> DEFINE q == c \div 64
           b1 == 192 + (q % 32)
           b2 == 128 + (c % 64)
<1>1. q \in 2 .. 31 /\ ~(c < 128)
  OBVIOUS
<1>2. Utf8(c) = Lead2(c)
  BY <1>1 DEF Utf8
<1>3. Utf8(c) = <<b1, b2>>
  BY <1>2 DEF Lead2
<1> HIDE DEF q
<1>4. b1 \in 1 .. 255 /\ ~IsPlain(b1) /\ ~IsMore(b1) /\ IsLead2(b1) /\ b1 % 32 = q
  BY <1>1, LeadByte2
<1>5. b2 \in 1 .. 255 /\ ~IsPlain(b2) /\ IsMore(b2) /\ b2 % 64 = c % 64
  BY MoreByte
<1>6. q * 64 + (c % 64) = c
  BY SixBits DEF q
<1>7. c % 65536 = c
  BY Fits16
<1>8. (q * 64 + (b2 % 64)) % 65536 = c
  BY <1>5, <1>6, <1>7
<1> HIDE DEF b1, b2
<1>9. /\ Utf8(c) = <<b1, b2>> /\ b1 \in 1 .. 255 /\ b2 \in 1 .. 255
      /\ ~IsPlain(b1) /\ ~IsMore(b1) /\ IsLead2(b1) /\ b1 % 32 = q
      /\ ~IsPlain(b2) /\ IsMore(b2)
      /\ (q * 64 + (b2 % 64)) % 65536 = c
  BY <1>3, <1>4, <1>5, <1>8
<1> QED
  BY <1>9 DEF q, b1, b2, FirstOf2, Final

(* one from 0x800 on is stored as three.                                   *)
LEMMA ThreeBytes ==
  ASSUME NEW c \in Nat, c >= 2048, c < 65536
  PROVE  /\ Utf8(c) = <<FirstOf3(c), Middle(c), Final(c)>>
         /\ FirstOf3(c) \in 1 .. 255 /\ Middle(c) \in 1 .. 255 /\ Final(c) \in 1 .. 255
         /\ ~IsPlain(FirstOf3(c)) /\ ~IsMore(FirstOf3(c)) /\ ~IsLead2(FirstOf3(c)) /\ IsLead3(FirstOf3(c))
         /\ FirstOf3(c) % 16 = c \div 4096
         /\ ~IsPlain(Middle(c)) /\ IsMore(Middle(c))
         /\ ((c \div 4096) * 64 + (Middle(c) % 64)) % 65536 = c \div 64
         /\ ~IsPlain(Final(c)) /\ IsMore(Final(c))
         /\ ((c \div 64) * 64 + (Final(c) % 64)) % 65536 = c
<1> DEFINE p == c \div 4096
           q == c \div 64
           b1 == 224 + (p % 16)
           b2 == 128 + (q % 64)
           b3 == 128 + (c % 64)
<1>1. p \in 0 .. 15 /\ ~(c < 128) /\ ~(c < 2048)
  OBVIOUS
<1>2. q \in Nat /\ q < 65536 /\ q \div 64 = p
  OBVIOUS
<1>3. Utf8(c) = Lead3(c)
  BY <1>1 DEF Utf8
<1>4. Utf8(c) = <<b1, b2, b3>>
  BY <1>3 DEF Lead3
<1>5. q * 64 + (c % 64) = c
  BY SixBits DEF q
<1> HIDE DEF p, q
<1>6. b1 \in 1 .. 255 /\ ~IsPlain(b1) /\ ~IsMore(b1) /\ ~IsLead2(b1) /\ IsLead3(b1) /\ b1 % 16 = p
  BY <1>1, LeadByte3
<1>7. b2 \in 1 .. 255 /\ ~IsPlain(b2) /\ IsMore(b2) /\ b2 % 64 = q % 64
  BY <1>2, MoreByte
<1>8. b3 \in 1 .. 255 /\ ~IsPlain(b3) /\ IsMore(b3) /\ b3 % 64 = c % 64
  BY MoreByte
<1>9. p * 64 + (q % 64) = q
  BY <1>2, SixBits
<1>10. c % 65536 = c /\ q % 65536 = q
  BY <1>2, Fits16
<1>11. (p * 64 + (b2 % 64)) % 65536 = q /\ (q * 64 + (b3 % 64)) % 65536 = c
  BY <1>5, <1>7, <1>8, <1>9, <1>10
<1> HIDE DEF b1, b2, b3
<1>12. /\ Utf8(c) = <<b1, b2, b3>>
       /\ b1 \in 1 .. 255 /\ b2 \in 1 .. 255 /\ b3 \in 1 .. 255
       /\ ~IsPlain(b1) /\ ~IsMore(b1) /\ ~IsLead2(b1) /\ IsLead3(b1) /\ b1 % 16 = p
       /\ ~IsPlain(b2) /\ IsMore(b2) /\ (p * 64 + (b2 % 64)) % 65536 = q
       /\ ~IsPlain(b3) /\ IsMore(b3) /\ (q * 64 + (b3 % 64)) % 65536 = c
  BY <1>4, <1>6, <1>7, <1>8, <1>11
<1> QED
  BY <1>12 DEF p, q, b1, b2, b3, FirstOf3, Middle, Final

(* Every unit takes one to three bytes, and only the zero has a zero among *)
(* them.                                                                   *)
LEMMA Utf8Type ==
  ASSUME NEW c \in Char16
  PROVE  /\ Size(c) \in 1 .. 3
         /\ Len(Utf8(c)) = Size(c)
         /\ DOMAIN Utf8(c) = 1 .. Size(c)
         /\ \A i \in 1 .. Size(c) : Utf8(c)[i] \in Byte /\ (c # 0 => Utf8(c)[i] # 0)
<1>1. c \in Nat /\ c < 65536
  BY UnitIs
<1>2. CASE c < 128
  <2>1. Utf8(c) = <<c>> /\ Size(c) = 1
    BY <1>1, <1>2, OneByte DEF Size
  <2> QED
    BY <1>1, <1>2, <2>1 DEF Byte
<1>3. CASE c >= 128 /\ c < 2048
  <2>1. Utf8(c) = <<FirstOf2(c), Final(c)>> /\ FirstOf2(c) \in 1 .. 255 /\ Final(c) \in 1 .. 255
    BY <1>1, <1>3, TwoBytes
  <2>2. Size(c) = 2
    BY <1>1, <1>3 DEF Size
  <2> QED
    BY <2>1, <2>2 DEF Byte
<1>4. CASE c >= 2048
  <2>1. /\ Utf8(c) = <<FirstOf3(c), Middle(c), Final(c)>>
        /\ FirstOf3(c) \in 1 .. 255 /\ Middle(c) \in 1 .. 255 /\ Final(c) \in 1 .. 255
    BY <1>1, <1>4, ThreeBytes
  <2>2. Size(c) = 3
    BY <1>1, <1>4 DEF Size
  <2> QED
    BY <2>1, <2>2 DEF Byte
<1> QED
  BY <1>1, <1>2, <1>3, <1>4

(* What fits is stored whole, and what does not fit not at all.            *)
LEMMA EncodedIs ==
  ASSUME NEW c \in Char16, buffer_index \in Nat
  PROVE  Encoded(c) = IF buffer_index + Size(c) <= BufferSize - 2 THEN Utf8(c) ELSE <<>>
<1>1. c \in Nat /\ BufferSize \in Nat
  BY UnitIs, BufferAssumption
<1>2. CASE c < 128
  BY <1>1, <1>2 DEF Encoded, Utf8, Size
<1>3. CASE c >= 128 /\ c < 2048
  BY <1>1, <1>3 DEF Encoded, Utf8, Size
<1>4. CASE c >= 2048
  BY <1>1, <1>4 DEF Encoded, Utf8, Size
<1> QED
  BY <1>1, <1>2, <1>3, <1>4


(***************************************************************************)
(* Where the bytes of a unit begin.                                        *)
(***************************************************************************)
LEMMA SizesIs ==
  ASSUME NEW u \in Seq(Char16)
  PROVE  /\ Sizes(u) \in [0 .. Len(u) -> Nat]
         /\ Sizes(u)[0] = 0
         /\ \A n \in 1 .. Len(u) : Sizes(u)[n] = Sizes(u)[n - 1] + Size(u[n])
<1>1. Len(u) \in Nat /\ \A n \in 1 .. Len(u) : u[n] \in Char16 /\ Size(u[n]) \in 1 .. 3
  BY LenProperties, ElementOfSeq, Utf8Type
<1> DEFINE step == [n \in 1 .. Len(u) |-> [s \in Nat |-> s + Size(u[n])]]
           Obeys(g) == g = [n \in 0 .. Len(u) |-> IF n = 0 THEN 0 ELSE g[n - 1] + Size(u[n])]
<1>2. step \in [1 .. Len(u) -> [Nat -> Nat]]
  BY <1>1
<1>3. PICK g \in [0 .. Len(u) -> Nat] : Repeats(g, Len(u), 0, step)
  <2> HIDE DEF step
  <2> QED
    BY <1>1, <1>2, Recursion, Zenon
<1>4. Obeys(g)
  <2>1. ASSUME NEW n \in 0 .. Len(u)
        PROVE  g[n] = IF n = 0 THEN 0 ELSE g[n - 1] + Size(u[n])
    <3>1. CASE n = 0
      BY <1>1, <1>3, <3>1 DEF Repeats
    <3>2. CASE n # 0
      <4>1. n \in 1 .. Len(u) /\ n - 1 \in 0 .. Len(u)
        BY <1>1, <3>2
      <4>2. g[n] = step[n][g[n - 1]]
        <5> HIDE DEF step
        <5> QED
          BY <1>3, <3>2, <4>1 DEF Repeats
      <4>3. g[n - 1] \in Nat
        BY <4>1
      <4> QED
        BY <3>2, <4>1, <4>2, <4>3
    <3> QED
      BY <3>1, <3>2
  <2> QED
    BY <1>3, <2>1 DEF Repeats
<1>5. Sizes(u) = CHOOSE h : Obeys(h)
  BY DEF Sizes
<1> HIDE DEF Obeys
<1>6. Obeys(Sizes(u))
  BY <1>4, <1>5
<1> USE DEF Obeys
<1>7. \A n \in 1 .. Len(u) : Sizes(u)[n] = Sizes(u)[n - 1] + Size(u[n])
  BY <1>6, <1>1
<1>8. Sizes(u)[0] = 0
  BY <1>6, <1>1
<1>9. Sizes(u) \in [0 .. Len(u) -> Nat]
  <2> DEFINE Wrong == {n \in 0 .. Len(u) : Sizes(u)[n] \notin Nat}
  <2>1. Wrong = {}
    <3> SUFFICES ASSUME Wrong # {} PROVE FALSE
      OBVIOUS
    <3>1. Wrong \subseteq Nat
      OBVIOUS
    <3>2. PICK n \in Wrong : \A i \in Wrong : n <= i
      BY <3>1, LeastMember
    <3>3. n \in 0 .. Len(u) /\ Sizes(u)[n] \notin Nat
      OBVIOUS
    <3>4. n # 0
      BY <1>8, <3>3
    <3>5. n - 1 \in 0 .. Len(u) /\ n - 1 \notin Wrong
      <4>1. n - 1 \in 0 .. Len(u) /\ ~(n <= n - 1)
        BY <3>3, <3>4
      <4> HIDE DEF Wrong
      <4> QED
        BY <3>2, <4>1
    <3>6. Sizes(u)[n - 1] \in Nat /\ n \in 1 .. Len(u)
      BY <3>3, <3>4, <3>5
    <3>7. Sizes(u)[n] = Sizes(u)[n - 1] + Size(u[n]) /\ Size(u[n]) \in 1 .. 3
      BY <1>1, <1>7, <3>6
    <3> QED
      BY <3>3, <3>6, <3>7
  <2>2. \A n \in 0 .. Len(u) : Sizes(u)[n] \in Nat
    BY <2>1
  <2>3. Sizes(u) = [n \in 0 .. Len(u) |-> Sizes(u)[n]]
    BY <1>6
  <2> QED
    BY <2>2, <2>3
<1> QED
  BY <1>7, <1>8, <1>9

(* More units take more bytes. *)
LEMMA SizesGrow ==
  ASSUME NEW u \in Seq(Char16), NEW m \in 0 .. Len(u), NEW n \in 0 .. Len(u), m < n
  PROVE  Sizes(u)[m] < Sizes(u)[n]
<1>1. Len(u) \in Nat /\ \A i \in 1 .. Len(u) : u[i] \in Char16 /\ Size(u[i]) \in 1 .. 3
  BY LenProperties, ElementOfSeq, Utf8Type
<1> DEFINE Wrong == {k \in m + 1 .. Len(u) : ~(Sizes(u)[m] < Sizes(u)[k])}
<1>2. Wrong = {}
  <2> SUFFICES ASSUME Wrong # {} PROVE FALSE
    OBVIOUS
  <2>1. Wrong \subseteq Nat
    OBVIOUS
  <2>2. PICK k \in Wrong : \A i \in Wrong : k <= i
    BY <2>1, LeastMember
  <2>3. k \in m + 1 .. Len(u) /\ ~(Sizes(u)[m] < Sizes(u)[k])
    OBVIOUS
  <2>4. k \in 1 .. Len(u) /\ k - 1 \in 0 .. Len(u) /\ ~(k <= k - 1)
    BY <1>1, <2>3
  <2>5. Sizes(u)[k] = Sizes(u)[k - 1] + Size(u[k]) /\ Size(u[k]) \in 1 .. 3
    BY <1>1, <2>4, SizesIs
  <2>6. Sizes(u)[k - 1] \in Nat /\ Sizes(u)[m] \in Nat
    BY <2>4, SizesIs
  <2>7. k # m + 1
    BY <2>3, <2>5, <2>6
  <2>8. k - 1 \notin Wrong
    <3> HIDE DEF Wrong
    <3> QED
      BY <2>2, <2>4
  <2>9. k - 1 \in m + 1 .. Len(u)
    BY <2>3, <2>7
  <2>10. Sizes(u)[m] < Sizes(u)[k - 1]
    BY <2>8, <2>9
  <2> QED
    BY <2>3, <2>5, <2>6, <2>10
<1> QED
  BY <1>1, <1>2

(* The first units take what they take in a longer string. *)
LEMMA SizesOfStart ==
  ASSUME NEW u \in Seq(Char16), NEW k \in 0 .. Len(u), NEW n \in 0 .. k
  PROVE  Sizes(SubSeq(u, 1, k))[n] = Sizes(u)[n]
<1> DEFINE v == SubSeq(u, 1, k)
<1>1. Len(u) \in Nat
  BY LenProperties
<1>2. v \in Seq(Char16) /\ Len(v) = k /\ \A i \in 1 .. k : v[i] = u[i]
  BY <1>1, SubSeqProperties
<1> HIDE DEF v
<1> DEFINE Wrong == {i \in 0 .. k : Sizes(v)[i] # Sizes(u)[i]}
<1>3. Wrong = {}
  <2> SUFFICES ASSUME Wrong # {} PROVE FALSE
    OBVIOUS
  <2>1. Wrong \subseteq Nat
    OBVIOUS
  <2>2. PICK i \in Wrong : \A j \in Wrong : i <= j
    BY <2>1, LeastMember
  <2>3. i \in 0 .. k /\ Sizes(v)[i] # Sizes(u)[i]
    OBVIOUS
  <2>4. i # 0
    BY <2>3, <1>2, SizesIs
  <2>5. i \in 1 .. k /\ i \in 1 .. Len(u) /\ i - 1 \in 0 .. k /\ ~(i <= i - 1)
    BY <1>1, <2>3, <2>4
  <2>6. i - 1 \notin Wrong
    <3> HIDE DEF Wrong
    <3> QED
      BY <2>2, <2>5
  <2>7. Sizes(v)[i - 1] = Sizes(u)[i - 1]
    BY <2>5, <2>6
  <2>8. Sizes(v)[i] = Sizes(v)[i - 1] + Size(v[i]) /\ Sizes(u)[i] = Sizes(u)[i - 1] + Size(u[i])
    BY <1>2, <2>5, SizesIs
  <2> QED
    BY <1>2, <2>3, <2>5, <2>7, <2>8
<1> QED
  BY <1>3 DEF v

(***************************************************************************)
(* What the buffer holds.                                                  *)
(***************************************************************************)
Buffer == [0 .. BufferSize - 1 -> Byte]

(* The bytes of the first e units of u, one after the other.               *)
Stored(b, u, e) ==
  \A j \in 1 .. e : \A i \in 1 .. Size(u[j]) : b[Sizes(u)[j - 1] + i - 1] = Utf8(u[j])[i]

(* The units that were kept, and the end after them: they are all of u, or *)
(* there was no room for one more.                                         *)
EndsAt(b, u, e) ==
  /\ Stored(b, u, e)
  /\ Sizes(u)[e] <= BufferSize - 2
  /\ b[Sizes(u)[e]] = 0
  /\ e < Len(u) => Sizes(u)[e + 1] > BufferSize - 2

(* Bytes that fit are put behind what is there and change nothing before   *)
(* it.                                                                     *)
LEMMA PutIs ==
  ASSUME NEW n \in Nat, NEW bytes, DOMAIN bytes = 1 .. n, \A i \in 1 .. n : bytes[i] \in Byte,
         buffer \in Buffer, buffer_index \in Nat, buffer_index + n <= BufferSize
  PROVE  /\ Put(bytes) \in Buffer
         /\ \A i \in 1 .. n : Put(bytes)[buffer_index + i - 1] = bytes[i]
         /\ \A i \in 0 .. buffer_index - 1 : Put(bytes)[i] = buffer[i]
<1>1. BufferSize \in Nat /\ DOMAIN buffer = 0 .. BufferSize - 1
  BY BufferAssumption DEF Buffer
<1>2. ASSUME NEW i \in 0 .. BufferSize - 1
      PROVE  (IF i - buffer_index + 1 \in DOMAIN bytes THEN bytes[i - buffer_index + 1] ELSE buffer[i]) \in Byte
  BY DEF Buffer
<1>3. Put(bytes) \in Buffer
  BY <1>1, <1>2 DEF Put, Buffer
<1>4. ASSUME NEW i \in 1 .. n PROVE Put(bytes)[buffer_index + i - 1] = bytes[i]
  <2> DEFINE k == buffer_index + i - 1
  <2>1. k \in 0 .. BufferSize - 1 /\ k - buffer_index + 1 = i
    BY <1>1
  <2> HIDE DEF k
  <2>2. Put(bytes)[k] = bytes[i]
    BY <1>1, <2>1 DEF Put
  <2> QED
    BY <2>2 DEF k
<1>5. ASSUME NEW i \in 0 .. buffer_index - 1 PROVE Put(bytes)[i] = buffer[i]
  <2>1. i \in 0 .. BufferSize - 1 /\ i - buffer_index + 1 \notin 1 .. n
    BY <1>1
  <2> QED
    BY <1>1, <2>1 DEF Put
<1> QED
  BY <1>3, <1>4, <1>5

(* A name that is cut is ended by zeros, with what is before left alone.   *)
LEMMA ZeroedIs ==
  ASSUME buffer \in Buffer, buffer_index \in Nat
  PROVE  /\ Zeroed \in Buffer
         /\ \A i \in buffer_index .. BufferSize - 1 : Zeroed[i] = 0
         /\ \A i \in 0 .. buffer_index - 1 : i <= BufferSize - 1 => Zeroed[i] = buffer[i]
<1>1. BufferSize \in Nat /\ DOMAIN buffer = 0 .. BufferSize - 1
  BY BufferAssumption DEF Buffer
<1>2. ASSUME NEW i \in 0 .. BufferSize - 1
      PROVE  (IF i >= buffer_index THEN 0 ELSE buffer[i]) \in Byte
  <2>1. 0 \in Byte
    BY DEF Byte
  <2>2. buffer[i] \in Byte
    BY DEF Buffer
  <2> QED
    BY <2>1, <2>2
<1>3. Zeroed \in Buffer
  BY <1>1, <1>2 DEF Zeroed, Buffer
<1>4. ASSUME NEW i \in buffer_index .. BufferSize - 1 PROVE Zeroed[i] = 0
  BY <1>1 DEF Zeroed
<1>5. ASSUME NEW i \in 0 .. buffer_index - 1, i <= BufferSize - 1 PROVE Zeroed[i] = buffer[i]
  BY <1>1, <1>5 DEF Zeroed
<1> QED
  BY <1>3, <1>4, <1>5

(* Each place belongs to one of the units. *)
LEMMA PlaceOfUnit ==
  ASSUME NEW u \in Seq(Char16), NEW e \in 0 .. Len(u), NEW at \in 0 .. Sizes(u)[e] - 1
  PROVE  \E j \in 1 .. e : \E i \in 1 .. Size(u[j]) : at = Sizes(u)[j - 1] + i - 1
<1>1. Len(u) \in Nat /\ \A j \in 1 .. Len(u) : u[j] \in Char16 /\ Size(u[j]) \in 1 .. 3
  BY LenProperties, ElementOfSeq, Utf8Type
<1>2. \A n \in 0 .. Len(u) : Sizes(u)[n] \in Nat
  BY SizesIs
<1> DEFINE Beyond == {n \in 0 .. e : at < Sizes(u)[n]}
<1>3. Beyond \subseteq Nat /\ e \in Beyond
  BY <1>1, <1>2
<1>4. PICK j \in Beyond : \A n \in Beyond : j <= n
  <2> HIDE DEF Beyond
  <2> QED
    BY <1>3, LeastMember
<1>5. j \in 0 .. e /\ at < Sizes(u)[j]
  OBVIOUS
<1>6. j # 0
  BY <1>5, SizesIs
<1>7. j \in 1 .. e /\ j \in 1 .. Len(u) /\ j - 1 \in 0 .. e /\ j - 1 \in 0 .. Len(u) /\ ~(j <= j - 1)
  BY <1>1, <1>5, <1>6
<1>8. j - 1 \notin Beyond
  <2> HIDE DEF Beyond
  <2> QED
    BY <1>4, <1>7
<1>9. /\ Sizes(u)[j - 1] \in Nat /\ Sizes(u)[j - 1] <= at
      /\ Sizes(u)[j] = Sizes(u)[j - 1] + Size(u[j]) /\ Size(u[j]) \in 1 .. 3
  BY <1>1, <1>2, <1>7, <1>8, SizesIs
<1> DEFINE i == at - Sizes(u)[j - 1] + 1
<1>10. i \in 1 .. Size(u[j]) /\ at = Sizes(u)[j - 1] + i - 1
  <2>1. \A a, s, k \in Int : s <= a /\ a < s + k => a - s + 1 \in 1 .. k /\ a = s + (a - s + 1) - 1
    OBVIOUS
  <2>2. at \in Int /\ Size(u[j]) \in Int /\ Sizes(u)[j - 1] \in Int
    BY <1>2, <1>9
  <2>3. at < Sizes(u)[j - 1] + Size(u[j])
    BY <1>5, <1>9
  <2> QED
    BY <1>9, <2>1, <2>2, <2>3
<1> HIDE DEF i
<1> QED
  BY <1>7, <1>10

(* What is stored stays if nothing before its end is changed. *)
LEMMA StoredStays ==
  ASSUME NEW u \in Seq(Char16), NEW e \in 0 .. Len(u), NEW b, NEW c,
         Stored(b, u, e), \A i \in 0 .. Sizes(u)[e] - 1 : c[i] = b[i]
  PROVE  Stored(c, u, e)
<1>1. Len(u) \in Nat /\ \A i \in 1 .. Len(u) : u[i] \in Char16 /\ Size(u[i]) \in 1 .. 3
  BY LenProperties, ElementOfSeq, Utf8Type
<1>2. ASSUME NEW j \in 1 .. e, NEW i \in 1 .. Size(u[j])
      PROVE  c[Sizes(u)[j - 1] + i - 1] = Utf8(u[j])[i]
  <2>1. j \in 1 .. Len(u) /\ j - 1 \in 0 .. Len(u) /\ j \in 0 .. Len(u)
    BY <1>1
  <2>2. /\ Sizes(u)[j] = Sizes(u)[j - 1] + Size(u[j]) /\ Size(u[j]) \in 1 .. 3
        /\ Sizes(u)[j - 1] \in Nat /\ Sizes(u)[j] \in Nat /\ Sizes(u)[e] \in Nat
    BY <1>1, <2>1, SizesIs
  <2>3. Sizes(u)[j] <= Sizes(u)[e]
    <3>1. CASE j = e
      BY <3>1, <2>2
    <3>2. CASE j < e
      BY <3>2, <2>1, <2>2, SizesGrow
    <3> QED
      BY <1>1, <3>1, <3>2
  <2>4. Sizes(u)[j - 1] + i - 1 \in 0 .. Sizes(u)[e] - 1
    <3>1. i \in Nat /\ 1 <= i /\ i <= Size(u[j])
      BY <2>2
    <3> DEFINE from == Sizes(u)[j - 1]
               to == Sizes(u)[j]
               end == Sizes(u)[e]
               size == Size(u[j])
    <3>2. from \in Nat /\ to \in Nat /\ end \in Nat /\ size \in Nat /\ to = from + size /\ to <= end
      BY <2>2, <2>3
    <3>3. i <= size
      BY <3>1
    <3> HIDE DEF from, to, end, size
    <3>4. from + i - 1 \in 0 .. end - 1
      BY <3>1, <3>2, <3>3
    <3> QED
      BY <3>4 DEF from, end
  <2>5. b[Sizes(u)[j - 1] + i - 1] = Utf8(u[j])[i]
    BY DEF Stored
  <2> QED
    BY <2>4, <2>5
<1> QED
  BY <1>2 DEF Stored

(* One more unit. *)
LEMMA StoredMore ==
  ASSUME NEW u \in Seq(Char16), NEW e \in 0 .. Len(u) - 1,
         buffer \in Buffer, buffer_index = Sizes(u)[e],
         Stored(buffer, u, e), Sizes(u)[e + 1] <= BufferSize - 2
  PROVE  Put(Utf8(u[e + 1])) \in Buffer /\ Stored(Put(Utf8(u[e + 1])), u, e + 1)
<1> DEFINE c == u[e + 1]
           b == Put(Utf8(c))
<1>1. Len(u) \in Nat /\ e \in 0 .. Len(u) /\ e + 1 \in 1 .. Len(u)
  BY LenProperties
<1>2. c \in Char16
  BY <1>1, ElementOfSeq
<1>3. /\ Size(c) \in 1 .. 3 /\ DOMAIN Utf8(c) = 1 .. Size(c)
      /\ \A i \in 1 .. Size(c) : Utf8(c)[i] \in Byte
  BY <1>2, Utf8Type
<1>4. Sizes(u)[e] \in Nat /\ Sizes(u)[e + 1] = Sizes(u)[e] + Size(c)
  BY <1>1, SizesIs
<1>5. BufferSize \in Nat /\ Size(c) \in Nat /\ Sizes(u)[e] + Size(c) <= BufferSize
  BY <1>3, <1>4, BufferAssumption
<1> HIDE DEF c
<1>6. /\ b \in Buffer
      /\ \A i \in 1 .. Size(c) : b[Sizes(u)[e] + i - 1] = Utf8(c)[i]
      /\ \A i \in 0 .. Sizes(u)[e] - 1 : b[i] = buffer[i]
  BY <1>3, <1>4, <1>5, PutIs
<1> HIDE DEF b
<1>7. Stored(b, u, e)
  BY <1>1, <1>6, StoredStays
<1>8. ASSUME NEW j \in 1 .. e + 1, NEW i \in 1 .. Size(u[j])
      PROVE  b[Sizes(u)[j - 1] + i - 1] = Utf8(u[j])[i]
  <2>1. CASE j = e + 1
    BY <2>1, <1>1, <1>6 DEF c
  <2>2. CASE j \in 1 .. e
    BY <2>2, <1>7 DEF Stored
  <2> QED
    BY <1>1, <2>1, <2>2
<1>9. Stored(b, u, e + 1)
  BY <1>8 DEF Stored
<1> QED
  BY <1>6, <1>9 DEF b, c

(***************************************************************************)
(* The string in the buffer.                                               *)
(***************************************************************************)

(* The string is what is before the first zero. *)
LEMMA CStringIs ==
  ASSUME buffer \in Buffer, NEW z \in 0 .. BufferSize - 1, buffer[z] = 0,
         \A i \in 0 .. z - 1 : buffer[i] # 0
  PROVE  CString = [i \in 1 .. z |-> buffer[i - 1]]
<1> DEFINE ends == {i \in DOMAIN buffer : buffer[i] = 0}
           least == CHOOSE i \in ends : \A j \in ends : i <= j
<1>1. BufferSize \in Nat /\ DOMAIN buffer = 0 .. BufferSize - 1
  BY BufferAssumption DEF Buffer
<1>2. z \in ends /\ \A j \in ends : z <= j
  BY <1>1
<1>3. \A i \in ends : i \in Int
  BY <1>1
<1> HIDE DEF ends
<1>4. least \in ends /\ \A j \in ends : least <= j
  BY <1>2
<1>5. least = z
  <2> HIDE DEF least
  <2>1. least \in Int /\ z \in Int
    BY <1>3, <1>4
  <2> QED
    BY <1>2, <1>4, <2>1
<1>6. ends # {}
  BY <1>2
<1>7. CString = [i \in 1 .. (IF ends = {} THEN BufferSize ELSE least) |-> buffer[i - 1]]
  BY DEF CString, ends
<1> HIDE DEF least
<1> QED
  BY <1>5, <1>6, <1>7

(* The string is of bytes, no more than the buffer has.                    *)
LEMMA CStringType ==
  ASSUME buffer \in Buffer
  PROVE  CString \in Seq(Byte) /\ Len(CString) \in 0 .. BufferSize
<1> DEFINE ends == {i \in DOMAIN buffer : buffer[i] = 0}
           least == CHOOSE i \in ends : \A j \in ends : i <= j
           end == IF ends = {} THEN BufferSize ELSE least
<1>1. BufferSize \in Nat /\ DOMAIN buffer = 0 .. BufferSize - 1
  BY BufferAssumption DEF Buffer
<1>2. end \in 0 .. BufferSize
  <2>1. CASE ends = {}
    BY <1>1, <2>1
  <2>2. CASE ends # {}
    <3>1. ends \subseteq Nat /\ ends \subseteq 0 .. BufferSize - 1
      BY <1>1
    <3> HIDE DEF ends
    <3>2. \E i \in ends : \A j \in ends : i <= j
      BY <2>2, <3>1, LeastMember
    <3>3. least \in ends
      BY <3>2
    <3> HIDE DEF least
    <3> QED
      BY <1>1, <2>2, <3>1, <3>3
  <2> QED
    BY <2>1, <2>2
<1>3. CString = [i \in 1 .. end |-> buffer[i - 1]]
  BY DEF CString
<1> HIDE DEF end
<1>4. ASSUME NEW i \in 1 .. end PROVE buffer[i - 1] \in Byte
  <2>1. i - 1 \in 0 .. BufferSize - 1
    BY <1>1, <1>2
  <2> QED
    BY <2>1 DEF Buffer
<1>5. end \in Nat
  BY <1>1, <1>2
<1>6. CString \in [1 .. end -> Byte]
  BY <1>3, <1>4
<1>7. CString \in Seq(Byte) /\ Len(CString) = end
  BY <1>5, <1>6
<1> QED
  BY <1>2, <1>7

(* Of a name that was read, what is kept is what the string holds.         *)
KeptIsString(u, str, kept) ==
  /\ kept \in Seq(Char16) /\ Len(kept) <= Len(u)
  /\ \A j \in 1 .. Len(kept) : kept[j] = u[j] /\ kept[j] # 0
  /\ str \in Seq(Byte) /\ Len(str) = Sizes(u)[Len(kept)]
  /\ \A j \in 1 .. Len(kept) : \A i \in 1 .. Size(kept[j]) : str[Sizes(u)[j - 1] + i] = Utf8(kept[j])[i]

(* Of a name that was read to its end, the string holds the units before   *)
(* the first zero, as many as fit, and Kept is those.                      *)
LEMMA KeptIs ==
  ASSUME sent \in Seq(Char16), sent # <<>>, sent[Len(sent)] = 0,
         buffer \in Buffer, NEW e \in 0 .. Len(sent), EndsAt(buffer, sent, e)
  PROVE  KeptIsString(sent, CString, Kept)
<1>1. /\ Len(sent) \in Nat \ {0}
      /\ \A j \in 1 .. Len(sent) : sent[j] \in Char16 /\ Size(sent[j]) \in 1 .. 3
  BY LenProperties, ElementOfSeq, Utf8Type
<1>2. BufferSize \in Nat /\ BufferSize > 4
  BY BufferAssumption
<1> DEFINE zeros == {i \in DOMAIN sent : sent[i] = 0}
           zero == CHOOSE i \in zeros : \A j \in zeros : i <= j
<1>3. zero \in 1 .. Len(sent) /\ sent[zero] = 0 /\ \A j \in 1 .. zero - 1 : sent[j] # 0
  <2>1. DOMAIN sent = 1 .. Len(sent)
    BY LenProperties
  <2>2. zeros \subseteq Nat /\ Len(sent) \in zeros
    BY <1>1, <2>1
  <2>3. \E i \in zeros : \A j \in zeros : i <= j
    <3> HIDE DEF zeros
    <3> QED
      BY <2>2, LeastMember
  <2>4. zero \in zeros /\ \A j \in zeros : zero <= j
    <3> HIDE DEF zeros
    <3> QED
      BY <2>3
  <2>5. zero \in 1 .. Len(sent) /\ sent[zero] = 0
    <3> HIDE DEF zero
    <3> QED
      BY <2>1, <2>4
  <2>6. ASSUME NEW j \in 1 .. zero - 1 PROVE sent[j] # 0
    <3>1. j \in 1 .. Len(sent) /\ ~(zero <= j)
      <4> HIDE DEF zero
      <4> QED
        BY <1>1, <2>5
    <3>2. j \notin zeros
      <4> HIDE DEF zero, zeros
      <4> QED
        BY <2>4, <3>1
    <3> QED
      BY <2>1, <3>1, <3>2
  <2> HIDE DEF zero
  <2> QED
    BY <2>5, <2>6
<1>4. HostName = SubSeq(sent, 1, zero - 1)
  BY DEF HostName
<1> HIDE DEF zero
<1>5. HostName \in Seq(Char16) /\ Len(HostName) = zero - 1 /\ \A j \in 1 .. Len(HostName) : HostName[j] = sent[j]
  BY <1>1, <1>3, <1>4, SubSeqProperties
<1>6. \A n \in 0 .. Len(HostName) : Sizes(HostName)[n] = Sizes(sent)[n]
  BY <1>1, <1>3, <1>4, <1>5, SizesOfStart
<1> DEFINE K == IF zero - 1 <= e THEN zero - 1 ELSE e
           fitting == {n \in 0 .. Len(HostName) : Sizes(HostName)[n] <= BufferSize - 2}
           most == CHOOSE n \in fitting : \A m \in fitting : m <= n
<1>7. K \in 0 .. Len(HostName) /\ K \in 0 .. e /\ K \in 0 .. Len(sent) /\ K \in Nat /\ Len(HostName) <= Len(sent)
  BY <1>1, <1>3, <1>5
<1>8. \A n \in 0 .. Len(sent) : Sizes(sent)[n] \in Nat
  BY SizesIs
<1>9. Sizes(sent)[K] <= BufferSize - 2
  <2>1. Sizes(sent)[e] <= BufferSize - 2
    BY DEF EndsAt
  <2>2. CASE K = e
    BY <2>1, <2>2
  <2>3. CASE K < e
    <3>1. Sizes(sent)[K] < Sizes(sent)[e]
      <4> HIDE DEF K
      <4> QED
        BY <1>7, <2>3, SizesGrow
    <3> HIDE DEF K
    <3> QED
      BY <1>2, <1>7, <1>8, <2>1, <3>1
  <2> HIDE DEF K
  <2> QED
    BY <1>7, <2>2, <2>3
<1>10. K \in fitting
  <2> HIDE DEF K
  <2> QED
    BY <1>6, <1>7, <1>9
<1>11. ASSUME NEW m \in fitting PROVE m <= K
  <2>1. m \in 0 .. Len(HostName) /\ m \in 0 .. Len(sent) /\ Sizes(sent)[m] <= BufferSize - 2
    BY <1>6, <1>7
  <2>2. CASE zero - 1 <= e
    BY <2>1, <2>2, <1>5
  <2>3. CASE ~(zero - 1 <= e) /\ m > e
    <3>1. e < Len(sent) /\ e + 1 \in 0 .. Len(sent)
      BY <1>1, <1>3, <2>3
    <3>2. Sizes(sent)[e + 1] > BufferSize - 2
      BY <3>1 DEF EndsAt
    <3>3. CASE m = e + 1
      BY <1>2, <1>8, <2>1, <3>1, <3>2, <3>3
    <3>4. CASE e + 1 < m
      <4>1. Sizes(sent)[e + 1] < Sizes(sent)[m]
        BY <2>1, <3>1, <3>4, SizesGrow
      <4> QED
        BY <1>2, <1>8, <2>1, <3>1, <3>2, <4>1
    <3> QED
      BY <2>1, <2>3, <3>3, <3>4
  <2> QED
    BY <1>1, <1>3, <2>1, <2>2, <2>3
<1>12. most = K
  <2>1. \A n \in fitting : n \in Int
    OBVIOUS
  <2> HIDE DEF fitting, K
  <2>2. most \in fitting /\ \A m \in fitting : m <= most
    BY <1>10, <1>11
  <2> HIDE DEF most
  <2> QED
    BY <1>10, <1>11, <2>1, <2>2
<1>13. Kept = SubSeq(HostName, 1, K)
  <2>1. Kept = SubSeq(HostName, 1, most)
    BY DEF Kept
  <2> HIDE DEF most, K
  <2> QED
    BY <1>12, <2>1
<1>14. Kept \in Seq(Char16) /\ Len(Kept) = K /\ \A j \in 1 .. K : Kept[j] = sent[j] /\ Kept[j] # 0
  <2>1. \A j \in 1 .. K : HostName[j] \in Char16 /\ HostName[j] = sent[j] /\ sent[j] # 0
    BY <1>1, <1>3, <1>5, <1>7
  <2> HIDE DEF K
  <2> QED
    BY <1>7, <1>13, <2>1, SubSeqProperties
<1> DEFINE z == Sizes(sent)[K]
<1>15. z \in 0 .. BufferSize - 1
  <2> HIDE DEF K
  <2> QED
    BY <1>2, <1>7, <1>8, <1>9
<1>16. buffer[z] = 0
  <2>1. CASE K = e
    BY <2>1 DEF EndsAt
  <2>2. CASE K # e
    <3>1. K = zero - 1 /\ zero <= e /\ zero \in 1 .. e
      BY <1>1, <1>3, <1>7, <2>2
    <3>2. zero - 1 = K
      BY <3>1
    <3>3. Utf8(sent[zero]) = <<0>> /\ Size(sent[zero]) = 1
      BY <1>3, OneByte DEF Size
    <3>4. buffer[Sizes(sent)[zero - 1] + 1 - 1] = Utf8(sent[zero])[1]
      <4>1. 1 \in 1 .. Size(sent[zero])
        BY <3>3
      <4> HIDE DEF K
      <4> QED
        BY <3>1, <4>1 DEF EndsAt, Stored
    <3>5. Sizes(sent)[zero - 1] + 1 - 1 = z
      <4> HIDE DEF K
      <4> QED
        BY <1>7, <1>8, <3>2
    <3> HIDE DEF K, z
    <3> QED
      BY <3>3, <3>4, <3>5
  <2> QED
    BY <2>1, <2>2
<1>17. ASSUME NEW j \in 1 .. K, NEW i \in 1 .. Size(Kept[j])
       PROVE  buffer[Sizes(sent)[j - 1] + i - 1] = Utf8(Kept[j])[i]
  <2>1. j \in 1 .. e /\ Kept[j] = sent[j]
    <3> HIDE DEF K
    <3> QED
      BY <1>7, <1>14
  <2> QED
    BY <2>1 DEF EndsAt, Stored
<1> HIDE DEF K
<1>18. \A j \in 1 .. K : Size(Kept[j]) = Size(sent[j]) /\ Kept[j] \in Char16 /\ Kept[j] # 0
  BY <1>1, <1>7, <1>14
<1>19. ASSUME NEW at \in 0 .. z - 1 PROVE buffer[at] # 0
  <2>1. PICK j \in 1 .. K : \E i \in 1 .. Size(sent[j]) : at = Sizes(sent)[j - 1] + i - 1
    BY <1>7, PlaceOfUnit
  <2>2. PICK i \in 1 .. Size(sent[j]) : at = Sizes(sent)[j - 1] + i - 1
    BY <2>1
  <2>3. i \in 1 .. Size(Kept[j])
    BY <1>18
  <2>4. buffer[at] = Utf8(Kept[j])[i]
    BY <1>17, <2>2, <2>3
  <2>5. Utf8(Kept[j])[i] # 0
    BY <1>18, <2>3, Utf8Type
  <2> QED
    BY <2>4, <2>5
<1>20. CString = [i \in 1 .. z |-> buffer[i - 1]]
  <2> HIDE DEF z
  <2> QED
    BY <1>15, <1>16, <1>19, CStringIs
<1>21. Len(CString) = z /\ CString \in Seq(Byte)
  <2> HIDE DEF z
  <2>1. z \in Nat
    BY <1>15
  <2> QED
    BY <1>20, <2>1, CStringType
<1>22. ASSUME NEW j \in 1 .. K, NEW i \in 1 .. Size(Kept[j])
       PROVE  CString[Sizes(sent)[j - 1] + i] = Utf8(Kept[j])[i]
  <2>1. j \in 1 .. Len(sent) /\ j - 1 \in 0 .. Len(sent) /\ j \in 0 .. Len(sent)
    BY <1>1, <1>7
  <2> DEFINE from == Sizes(sent)[j - 1]
             to == Sizes(sent)[j]
  <2>2. from \in Nat /\ to \in Nat /\ to = from + Size(Kept[j]) /\ Size(Kept[j]) \in 1 .. 3
    BY <1>1, <1>8, <1>18, <2>1, SizesIs
  <2>3. to <= z
    <3>1. CASE j = K
      BY <2>2, <3>1
    <3>2. CASE j < K
      <4>1. to < z
        BY <1>7, <2>1, <3>2, SizesGrow
      <4> QED
        BY <1>15, <2>2, <4>1
    <3> QED
      BY <1>7, <3>1, <3>2
  <2>4. i \in Nat /\ 1 <= i /\ i <= Size(Kept[j])
    BY <2>2
  <2>5. buffer[from + i - 1] = Utf8(Kept[j])[i]
    BY <1>17
  <2> HIDE DEF from, to, z
  <2>6. from + i \in 1 .. z
    BY <1>15, <2>2, <2>3, <2>4
  <2>7. CString[from + i] = buffer[from + i - 1]
    <3> DEFINE at == from + i
    <3> HIDE DEF at
    <3>1. CString[at] = buffer[at - 1]
      BY <1>20, <2>6 DEF at
    <3> QED
      BY <2>2, <2>4, <3>1 DEF at
  <2> QED
    BY <2>5, <2>7 DEF from
<1> QED
  BY <1>7, <1>14, <1>21, <1>22 DEF KeptIsString

(***************************************************************************)
(* Counting and writing take the same turns.                               *)
(***************************************************************************)
Seen(n, k) == [length |-> n, count |-> k]

(* A byte is of one kind at most. *)
LEMMA Kinds ==
  ASSUME NEW c \in Byte
  PROVE  /\ IsPlain(c) => ~IsMore(c) /\ ~IsLead2(c) /\ ~IsLead3(c)
         /\ IsMore(c) => ~IsLead2(c) /\ ~IsLead3(c)
         /\ IsLead2(c) => ~IsLead3(c)
BY DEF Byte, IsPlain, IsMore, IsLead2, IsLead3

(* What a byte of each kind makes of the count.                            *)
LEMMA CountedIs ==
  ASSUME NEW c \in Byte, NEW n \in Nat, NEW k \in 0 .. 2
  PROVE  /\ IsPlain(c) => Counted(c, Seen(n, k)) = Seen(n + 1, 0)
         /\ IsMore(c) /\ k > 0 => Counted(c, Seen(n, k)) = Seen(IF k = 1 THEN n + 1 ELSE n, k - 1)
         /\ IsLead2(c) => Counted(c, Seen(n, k)) = Seen(n, 1)
         /\ IsLead3(c) => Counted(c, Seen(n, k)) = Seen(n, 2)
         /\ ~IsPlain(c) /\ ~(IsMore(c) /\ k > 0) /\ ~IsLead2(c) /\ ~IsLead3(c) =>
              Counted(c, Seen(n, k)) = Seen(n, 0)
<1>1. /\ IsPlain(c) => ~IsMore(c) /\ ~IsLead2(c) /\ ~IsLead3(c)
      /\ IsMore(c) => ~IsLead2(c) /\ ~IsLead3(c)
      /\ IsLead2(c) => ~IsLead3(c)
  BY Kinds
<1>2. /\ Seen(n, k).length = n /\ Seen(n, k).count = k
      /\ \A i : [Seen(n, k) EXCEPT !.count = i] = Seen(n, i)
  BY DEF Seen
<1>3. CASE IsPlain(c)
  BY <1>1, <1>2, <1>3 DEF Counted, Seen
<1>4. CASE IsMore(c) /\ k > 0
  <2>1. ~IsPlain(c)
    BY <1>1, <1>4
  <2>2. Counted(c, Seen(n, k)) = [length |-> n + (IF k = 1 THEN 1 ELSE 0), count |-> k - 1]
    BY <1>1, <1>2, <1>4, <2>1 DEF Counted
  <2> QED
    BY <1>1, <1>4, <2>1, <2>2 DEF Seen
<1>5. CASE IsLead2(c)
  BY <1>1, <1>2, <1>5 DEF Counted
<1>6. CASE IsLead3(c)
  BY <1>1, <1>2, <1>6 DEF Counted
<1>7. CASE ~IsPlain(c) /\ ~(IsMore(c) /\ k > 0) /\ ~IsLead2(c) /\ ~IsLead3(c)
  BY <1>1, <1>2, <1>7 DEF Counted
<1> QED
  BY <1>3, <1>4, <1>5, <1>6, <1>7

(* Each turn of writestring adds what the same turn of utf8_strlen counts. *)
LEMMA WriteCounts ==
  ASSUME NEW c \in Byte, count \in 0 .. 2, written \in Seq(Char16), char16 \in Char16, WriteByte(c)
  PROVE  /\ written' \in Seq(Char16) /\ count' \in 0 .. 2 /\ char16' \in Char16
         /\ Seen(Len(written'), count') = Counted(c, Seen(Len(written), count))
<1>1. /\ IsPlain(c) => ~IsMore(c) /\ ~IsLead2(c) /\ ~IsLead3(c)
      /\ IsMore(c) => ~IsLead2(c) /\ ~IsLead3(c)
      /\ IsLead2(c) => ~IsLead3(c)
  BY Kinds
<1>2. Len(written) \in Nat
  BY LenProperties
<1>3. ASSUME NEW x \in Char16
      PROVE  Append(written, x) \in Seq(Char16) /\ Len(Append(written, x)) = Len(written) + 1
  BY AppendProperties
<1>4. c \in Char16 /\ c \in Nat /\ c % 32 \in Char16 /\ c % 16 \in Char16
  <2>1. c \in Nat /\ c < 256 /\ c % 32 \in 0 .. 31 /\ c % 16 \in 0 .. 15
    BY DEF Byte
  <2> QED
    BY <2>1, IsUnit
<1>5. CASE IsPlain(c) /\ written' = Append(written, c) /\ count' = 0 /\ UNCHANGED char16
  <2>1. written' \in Seq(Char16) /\ Len(written') = Len(written) + 1
    BY <1>3, <1>4, <1>5
  <2> QED
    BY <1>2, <1>5, <2>1, CountedIs
<1>6. CASE /\ IsMore(c) /\ count > 0
           /\ char16' = (char16 * 64 + (c % 64)) % 65536
           /\ count' = count - 1
           /\ written' = IF count = 1 THEN Append(written, char16') ELSE written
  <2>1. char16' \in Char16
    <3> DEFINE x == char16 * 64 + (c % 64)
    <3>1. char16 \in Nat /\ c % 64 \in Nat
      BY <1>4, UnitIs
    <3>2. x \in Nat
      BY <3>1
    <3>3. char16' = x % 65536
      BY <1>6
    <3> HIDE DEF x
    <3> QED
      BY <3>2, <3>3, Mod16
  <2>2. written' \in Seq(Char16) /\ Len(written') = IF count = 1 THEN Len(written) + 1 ELSE Len(written)
    BY <1>3, <1>6, <2>1
  <2>3. count' \in 0 .. 2
    BY <1>6
  <2>4. Counted(c, Seen(Len(written), count)) = Seen(IF count = 1 THEN Len(written) + 1 ELSE Len(written), count - 1)
    <3> DEFINE n == Len(written)
    <3>1. n \in Nat /\ IsMore(c) /\ count > 0
      BY <1>2, <1>6
    <3> HIDE DEF n
    <3>2. Counted(c, Seen(n, count)) = Seen(IF count = 1 THEN n + 1 ELSE n, count - 1)
      BY <3>1, CountedIs
    <3> QED
      BY <3>2 DEF n
  <2> QED
    BY <1>6, <2>1, <2>2, <2>3, <2>4
<1>7. CASE IsLead2(c) /\ char16' = c % 32 /\ count' = 1 /\ UNCHANGED written
  BY <1>2, <1>4, <1>7, CountedIs
<1>8. CASE IsLead3(c) /\ char16' = c % 16 /\ count' = 2 /\ UNCHANGED written
  BY <1>2, <1>4, <1>8, CountedIs
<1>9. CASE /\ ~IsPlain(c) /\ ~(IsMore(c) /\ count > 0) /\ ~IsLead2(c) /\ ~IsLead3(c)
           /\ count' = 0
           /\ UNCHANGED <<char16, written>>
  BY <1>2, <1>9, CountedIs
<1> QED
  BY <1>5, <1>6, <1>7, <1>8, <1>9 DEF WriteByte

(* The walk over a name that was read is through one unit after the other. *)
Spells(str, at, c) == \A i \in 1 .. Size(c) : str[at + i] = Utf8(c)[i]
Walks(seen, str, at, n) ==
  \A i \in 1 .. n : seen[at + i] = Counted(str[at + i], seen[at + i - 1])

(* The bytes of one unit count as one.                                     *)
LEMMA UnitCounts ==
  ASSUME NEW c \in Char16, NEW n \in Nat, NEW str, NEW at \in Nat, NEW seen,
         Spells(str, at, c), Walks(seen, str, at, Size(c)), seen[at] = Seen(n, 0)
  PROVE  seen[at + Size(c)] = Seen(n + 1, 0)
<1> USE DEF Spells, Walks
<1>1. c \in Nat /\ c < 65536
  BY UnitIs
<1>2. CASE c < 128
  <2>1. Utf8(c)[1] = c /\ IsPlain(c) /\ Size(c) = 1 /\ c \in Byte
    BY <1>1, <1>2, OneByte DEF Size, Byte
  <2>2. seen[at + 1] = Counted(c, seen[at])
    BY <2>1
  <2> QED
    BY <2>1, <2>2, CountedIs
<1>3. CASE c >= 128 /\ c < 2048
  <2>1. /\ Utf8(c) = <<FirstOf2(c), Final(c)>> /\ IsLead2(FirstOf2(c)) /\ IsMore(Final(c))
        /\ FirstOf2(c) \in Byte /\ Final(c) \in Byte
    BY <1>1, <1>3, TwoBytes DEF Byte
  <2>2. Size(c) = 2
    BY <1>1, <1>3 DEF Size
  <2>3. seen[at + 1] = Counted(FirstOf2(c), seen[at])
    BY <2>1, <2>2
  <2>4. seen[at + 1] = Seen(n, 1)
    BY <2>1, <2>3, CountedIs
  <2>5. seen[at + 2] = Counted(Final(c), seen[at + 1])
    BY <2>1, <2>2
  <2>6. seen[at + 2] = Seen(n + 1, 0)
    BY <2>1, <2>4, <2>5, CountedIs
  <2> QED
    BY <2>2, <2>6
<1>4. CASE c >= 2048
  <2>1. /\ Utf8(c) = <<FirstOf3(c), Middle(c), Final(c)>>
        /\ IsLead3(FirstOf3(c)) /\ IsMore(Middle(c)) /\ IsMore(Final(c))
        /\ FirstOf3(c) \in Byte /\ Middle(c) \in Byte /\ Final(c) \in Byte
    BY <1>1, <1>4, ThreeBytes DEF Byte
  <2>2. Size(c) = 3
    BY <1>1, <1>4 DEF Size
  <2>3. seen[at + 1] = Counted(FirstOf3(c), seen[at])
    BY <2>1, <2>2
  <2>4. seen[at + 1] = Seen(n, 2)
    BY <2>1, <2>3, CountedIs
  <2>5. seen[at + 2] = Counted(Middle(c), seen[at + 1])
    BY <2>1, <2>2
  <2>6. seen[at + 2] = Seen(n, 1)
    BY <2>1, <2>4, <2>5, CountedIs
  <2>7. seen[at + 3] = Counted(Final(c), seen[at + 2])
    BY <2>1, <2>2
  <2>8. seen[at + 3] = Seen(n + 1, 0)
    BY <2>1, <2>6, <2>7, CountedIs
  <2> QED
    BY <2>2, <2>8
<1> QED
  BY <1>1, <1>2, <1>3, <1>4

(* As many units are counted as were kept, after the bytes of each.        *)
LEMMA KeptCounts ==
  ASSUME NEW u \in Seq(Char16), NEW str, NEW kept, KeptIsString(u, str, kept),
         NEW n \in 0 .. Len(kept)
  PROVE  Scanned(str)[Sizes(u)[n]] = Seen(n, 0)
<1>1. /\ Len(u) \in Nat /\ Len(kept) \in Nat /\ Len(kept) <= Len(u)
      /\ str \in Seq(Byte) /\ Len(str) = Sizes(u)[Len(kept)]
      /\ \A j \in 1 .. Len(kept) : kept[j] \in Char16 /\ u[j] = kept[j] /\ Size(kept[j]) \in 1 .. 3
  BY LenProperties, ElementOfSeq, Utf8Type DEF KeptIsString
<1>2. \A m \in 0 .. Len(u) : Sizes(u)[m] \in Nat
  BY SizesIs
<1>3. /\ Scanned(str)[0] = Seen(0, 0)
      /\ \A i \in 1 .. Len(str) : Scanned(str)[i] = Counted(str[i], Scanned(str)[i - 1])
  BY <1>1, ScannedIs DEF Seen, Nothing, Byte
<1> DEFINE Wrong == {m \in 0 .. Len(kept) : Scanned(str)[Sizes(u)[m]] # Seen(m, 0)}
<1>4. Wrong = {}
  <2> SUFFICES ASSUME Wrong # {} PROVE FALSE
    OBVIOUS
  <2>1. Wrong \subseteq Nat
    OBVIOUS
  <2>2. PICK m \in Wrong : \A j \in Wrong : m <= j
    BY <2>1, LeastMember
  <2>3. m \in 0 .. Len(kept) /\ Scanned(str)[Sizes(u)[m]] # Seen(m, 0)
    OBVIOUS
  <2>4. m # 0
    BY <1>3, <2>3, SizesIs
  <2>5. /\ m \in 1 .. Len(kept) /\ m - 1 \in 0 .. Len(kept) /\ ~(m <= m - 1)
        /\ m \in 1 .. Len(u) /\ m - 1 \in 0 .. Len(u) /\ m \in 0 .. Len(u)
    BY <1>1, <2>3, <2>4
  <2>6. m - 1 \notin Wrong
    <3> HIDE DEF Wrong
    <3> QED
      BY <2>2, <2>5
  <2>7. Scanned(str)[Sizes(u)[m - 1]] = Seen(m - 1, 0)
    BY <2>5, <2>6
  <2> DEFINE at == Sizes(u)[m - 1]
             to == Sizes(u)[m]
             c == kept[m]
  <2>8. at \in Nat /\ to = at + Size(c) /\ c \in Char16 /\ Size(c) \in 1 .. 3
    BY <1>1, <1>2, <2>5, SizesIs
  <2>9. to <= Len(str)
    <3>1. CASE m = Len(kept)
      BY <1>1, <1>2, <2>5, <3>1
    <3>2. CASE m < Len(kept)
      <4>1. to < Sizes(u)[Len(kept)]
        BY <1>1, <2>5, <3>2, SizesGrow
      <4>2. Len(kept) \in 0 .. Len(u)
        BY <1>1
      <4> HIDE DEF to
      <4> QED
        BY <1>1, <1>2, <2>8, <4>1, <4>2
    <3> QED
      BY <1>1, <2>5, <3>1, <3>2
  <2>10. \A i \in 1 .. Size(c) : str[at + i] = Utf8(c)[i]
    BY <2>5 DEF KeptIsString
  <2> HIDE DEF at, to, c
  <2>11. ASSUME NEW i \in 1 .. Size(c)
         PROVE  Scanned(str)[at + i] = Counted(str[at + i], Scanned(str)[at + i - 1])
    <3>1. Len(str) \in Nat
      BY <1>1, LenProperties
    <3>2. at + i \in 1 .. Len(str)
      BY <2>8, <2>9, <3>1
    <3> DEFINE place == at + i
    <3> HIDE DEF place
    <3>3. Scanned(str)[place] = Counted(str[place], Scanned(str)[place - 1])
      BY <1>3, <3>2 DEF place
    <3>4. at + i - 1 = place - 1
      BY <2>8 DEF place
    <3> QED
      BY <3>3, <3>4 DEF place
  <2>14. Spells(str, at, c) /\ Walks(Scanned(str), str, at, Size(c))
    BY <2>10, <2>11 DEF Spells, Walks
  <2>12. Scanned(str)[at] = Seen(m - 1, 0) /\ m - 1 \in Nat /\ (m - 1) + 1 = m
    BY <2>5, <2>7 DEF at
  <2>13. Scanned(str)[at + Size(c)] = Seen(m, 0)
    <3> DEFINE before == m - 1
    <3>1. Scanned(str)[at] = Seen(before, 0) /\ before \in Nat /\ before + 1 = m
      BY <2>12
    <3> HIDE DEF before
    <3>2. Scanned(str)[at + Size(c)] = Seen(before + 1, 0)
      BY <2>8, <2>14, <3>1, UnitCounts
    <3> QED
      BY <3>1, <3>2
  <2> QED
    BY <2>3, <2>8, <2>13 DEF to
<1> QED
  BY <1>4

(***************************************************************************)
(* The inductive invariant.                                                *)
(***************************************************************************)

NotWritten == next = 1 /\ count = 0 /\ written = <<>>

(* While a name is read, the buffer holds what was read of it, or as much  *)
(* as fits and its end.                                                    *)
Reads ==
  pc = "read" =>
    /\ NotWritten /\ len = -1
    /\ sent # <<>>
    /\ room => buffer_index = Sizes(sent)[string_index] /\ Stored(buffer, sent, string_index)
    /\ ~room => \E e \in 0 .. string_index - 1 : EndsAt(buffer, sent, e)
    /\ string_index = Len(sent) => sent[Len(sent)] = 0

(* What was read ends in the buffer, and is the name or as much as fits.   *)
KeepsName ==
  pc \in {"write", "done"} =>
    /\ \E z \in 0 .. BufferSize - 1 : buffer[z] = 0
    /\ sent # <<>> => sent[Len(sent)] = 0 /\ \E e \in 0 .. Len(sent) : EndsAt(buffer, sent, e)

(* What is written is as long as what utf8_strlen counted.                 *)
Announced == utf8_strlen(CString) > 0 /\ len = (utf8_strlen(CString) + 1) % LengthMod

Counts ==
  /\ pc = "write" /\ len = -1 => NotWritten
  /\ pc = "write" /\ len # -1 =>
       /\ Announced
       /\ next \in 1 .. Len(CString) + 1
       /\ Scanned(CString)[next - 1] = Seen(Len(written), count)
  /\ pc = "done" =>
       \/ utf8_strlen(CString) = 0 /\ len = 0 /\ written = <<>>
       \/ Announced /\ Len(written) = utf8_strlen(CString) + 1

(* j units are written, and r bytes of the next one are seen.              *)
Decoded(j, r) ==
  /\ written = SubSeq(Kept, 1, j)
  /\ next = Sizes(sent)[j] + r + 1
  /\ r = 0 => count = 0
  /\ r > 0 => /\ j < Len(Kept) /\ r < Size(Kept[j + 1])
              /\ count = Size(Kept[j + 1]) - r
              /\ char16 = IF count = 1 THEN Kept[j + 1] \div 64 ELSE Kept[j + 1] \div 4096

(* What is written so far is how the name begins.                          *)
Decodes ==
  /\ pc = "write" /\ len # -1 /\ sent # <<>> => \E j \in 0 .. Len(Kept) : \E r \in 0 .. 2 : Decoded(j, r)
  /\ RoundTrip

StringsInv == StringsTypeOK /\ Reads /\ KeepsName /\ Counts /\ Decodes

(***************************************************************************)
(* The initial states.                                                     *)
(***************************************************************************)
(* A name to be read, or a string a file system has. *)
LEMMA InitStrings == StringsInit => StringsInv
<1> SUFFICES ASSUME StringsInit PROVE StringsInv
  OBVIOUS
<1>1. /\ string_index = 0 /\ buffer_index = 0 /\ room = TRUE
      /\ next = 1 /\ count = 0 /\ char16 = 0 /\ len = -1 /\ written = <<>>
  BY DEF StringsInit
<1>2. BufferSize \in Nat /\ BufferSize > 4 /\ MaxString \in Nat /\ LengthMod \in Nat \ {0}
  BY BufferAssumption
<1>3. 0 \in Char16
  BY IsUnit
<1>4. written \in Seq(Char16)
  BY <1>1
<1>5. CASE FromHost
  <2>1. pc = "read" /\ buffer = Unset
    BY <1>5 DEF FromHost
  <2>2. buffer \in Buffer
    <3>1. Stale \in Byte
      BY DEF Stale, Byte
    <3> QED
      BY <2>1, <3>1 DEF Buffer, Unset
  <2>3. PICK n \in 1 .. MaxString : sent \in [1 .. n -> Units]
    BY <1>5 DEF FromHost
  <2>4. sent \in Seq(Char16) /\ Len(sent) = n /\ n \in Nat /\ n > 0
    <3>1. n \in Nat /\ n > 0
      BY <1>2
    <3>2. sent \in [1 .. n -> Char16]
      BY <2>3, UnitsAssumption
    <3> QED
      BY <3>1, <3>2
  <2>5. sent # <<>>
    BY <2>4
  <2>6. StringsTypeOK
    BY <1>1, <1>2, <1>3, <1>4, <2>1, <2>2, <2>3, <2>4 DEF StringsTypeOK, Buffer
  <2>7. Stored(buffer, sent, string_index)
    BY <1>1 DEF Stored
  <2>8. Sizes(sent)[0] = 0
    BY <2>4, SizesIs
  <2>9. Reads
    BY <1>1, <1>2, <2>4, <2>5, <2>7, <2>8 DEF Reads, NotWritten
  <2> QED
    BY <2>1, <2>6, <2>9 DEF StringsInv, KeepsName, Counts, Decodes, RoundTrip
<1>6. CASE FromFileSystem
  <2>1. /\ pc = "write" /\ sent = <<>> /\ Len(stored) < BufferSize
        /\ buffer = [i \in 0 .. BufferSize - 1 |->
                 IF i + 1 \in DOMAIN stored THEN stored[i + 1] ELSE IF i = Len(stored) THEN 0 ELSE Stale]
    BY <1>6 DEF FromFileSystem
  <2>2. PICK n \in 0 .. MaxString : stored \in [1 .. n -> Bytes]
    BY <1>6 DEF FromFileSystem
  <2>3. n \in Nat /\ Len(stored) = n /\ DOMAIN stored = 1 .. n /\ \A i \in 1 .. n : stored[i] \in 1 .. 255
    <3>1. n \in Nat
      BY <1>2
    <3>2. stored \in [1 .. n -> 1 .. 255]
      <4>1. Bytes \subseteq 1 .. 255
        BY UnitsAssumption DEF Byte
      <4> QED
        BY <2>2, <4>1
    <3>3. stored \in Seq(1 .. 255)
      BY <3>1, <3>2, SeqDef
    <3>4. Len(stored) = n
      BY <3>1, <3>2, <3>3, LenProperties
    <3> QED
      BY <3>1, <3>2, <3>4
  <2>4. Stale \in Byte /\ 0 \in Byte /\ \A i \in 1 .. n : stored[i] \in Byte
    BY <2>3 DEF Stale, Byte
  <2>5. buffer \in Buffer
    BY <2>1, <2>3, <2>4 DEF Buffer
  <2>6. buffer[n] = 0 /\ n \in 0 .. BufferSize - 1
    BY <1>2, <2>1, <2>3
  <2>7. sent \in Seq(Char16)
    BY <2>1
  <2>8. StringsTypeOK
    BY <1>1, <1>2, <1>3, <1>4, <2>1, <2>5, <2>7 DEF StringsTypeOK, Buffer
  <2> QED
    BY <1>1, <2>1, <2>6, <2>8 DEF StringsInv, Reads, KeepsName, Counts, NotWritten, Decodes, RoundTrip
<1> QED
  BY <1>5, <1>6 DEF StringsInit

(***************************************************************************)
(* Reading.                                                                *)
(***************************************************************************)
(* One turn of readstring stores a unit, drops it, or ends the string.     *)
LEMMA ReadKeeps == StringsInv /\ readstring => StringsInv'
<1> SUFFICES ASSUME StringsInv, readstring PROVE StringsInv'
  OBVIOUS
<1> DEFINE c == sent[string_index + 1]
<1>1. /\ pc = "read" /\ string_index < Len(sent)
      /\ UNCHANGED <<sent, stored, next, count, char16, len, written>>
  BY DEF readstring, writing
<1>2. /\ ReadRefused(c) \/ ReadStored(c) \/ ReadCut(c)
      /\ ~ReadRefused(c) => ~(string_index = Len(sent) - 1 /\ c # 0)
  BY DEF readstring
<1>3. /\ sent \in Seq(Char16) /\ string_index \in Nat /\ buffer \in Buffer /\ buffer_index \in Nat /\ room \in BOOLEAN
      /\ buffer_index \in 0 .. BufferSize /\ Len(sent) <= MaxString
      /\ NotWritten /\ len = -1 /\ sent # <<>> /\ string_index \in 0 .. Len(sent)
      /\ room => /\ buffer_index = Sizes(sent)[string_index] /\ buffer_index <= BufferSize - 2
                 /\ Stored(buffer, sent, string_index)
      /\ ~room => \E e \in 0 .. string_index - 1 : EndsAt(buffer, sent, e)
  <2>1. Len(sent) \in Nat /\ BufferSize \in Nat
    BY LenProperties, BufferAssumption DEF StringsInv, StringsTypeOK
  <2> QED
    BY <1>1, <2>1 DEF StringsInv, StringsTypeOK, Buffer, Reads
<1>4. Len(sent) \in Nat /\ string_index + 1 \in 1 .. Len(sent) /\ string_index \in 0 .. Len(sent) - 1
  BY <1>1, <1>3, LenProperties
<1>5. c \in Char16
  BY <1>3, <1>4, ElementOfSeq
<1>6. BufferSize \in Nat /\ BufferSize > 4
  BY BufferAssumption
<1>7. Sizes(sent)[string_index + 1] = Sizes(sent)[string_index] + Size(c) /\ Size(c) \in 1 .. 3
      /\ Sizes(sent)[string_index] \in Nat
  <2> DEFINE n == string_index + 1
  <2>1. n - 1 = string_index /\ n \in 1 .. Len(sent)
    BY <1>3, <1>4
  <2> HIDE DEF n
  <2>2. Sizes(sent)[n] = Sizes(sent)[n - 1] + Size(sent[n]) /\ Sizes(sent)[string_index] \in Nat
    BY <1>3, <2>1, SizesIs
  <2>3. Size(c) \in 1 .. 3
    BY <1>5, Utf8Type
  <2> QED
    BY <2>1, <2>2, <2>3 DEF n
<1>8. Encoded(c) = IF buffer_index + Size(c) <= BufferSize - 2 THEN Utf8(c) ELSE <<>>
  BY <1>3, <1>5, EncodedIs
<1>9. NotWritten' /\ len' = -1 /\ sent' # <<>>
  BY <1>1, <1>3 DEF NotWritten
<1>10. string_index + 1 = Len(sent) => string_index = Len(sent) - 1 /\ c = sent[Len(sent)]
  BY <1>4
<1>11. Len(Utf8(c)) = Size(c)
  BY <1>5, Utf8Type
<1> HIDE DEF c
<1>12. CASE ReadRefused(c)
  <2>1. pc' = "failed" /\ UNCHANGED <<string_index, buffer, buffer_index, room>>
    BY <1>12 DEF ReadRefused, reading
  <2>2. StringsTypeOK'
    BY <1>1, <2>1 DEF StringsInv, StringsTypeOK, Buffer
  <2> QED
    BY <2>1, <2>2 DEF StringsInv, Reads, KeepsName, Counts, Decodes, RoundTrip
<1>13. ASSUME pc' = "read", string_index' = string_index + 1, StringsTypeOK',
              room' => /\ buffer_index' = Sizes(sent)[string_index + 1] /\ buffer_index' <= BufferSize - 2
                       /\ Stored(buffer', sent, string_index + 1),
              ~room' => \E e \in 0 .. string_index : EndsAt(buffer', sent, e),
              ~(string_index = Len(sent) - 1 /\ c # 0)
       PROVE  StringsInv'
  <2>1. sent' = sent /\ (string_index + 1) - 1 = string_index /\ string_index + 1 \in 0 .. Len(sent)
    BY <1>1, <1>4
  <2>2. room' => Stored(buffer', sent', string_index')
    BY <1>13, <2>1
  <2>3. ~room' => \E e \in 0 .. string_index' - 1 : EndsAt(buffer', sent', e)
    BY <1>13, <2>1
  <2>4. Reads'
    BY <1>9, <1>10, <1>13, <2>1, <2>2, <2>3 DEF Reads
  <2> QED
    BY <1>13, <2>4 DEF StringsInv, KeepsName, Counts, Decodes, RoundTrip
<1>14. CASE ReadStored(c) /\ room
  <2>1. Encoded(c) # <<>>
    BY <1>14 DEF ReadStored
  <2>2. buffer_index + Size(c) <= BufferSize - 2 /\ Encoded(c) = Utf8(c)
    BY <1>8, <2>1
  <2>3. /\ buffer' = Put(Utf8(c)) /\ buffer_index' = buffer_index + Size(c)
        /\ string_index' = string_index + 1 /\ pc' = pc /\ room' = room
    BY <1>11, <1>14, <2>2 DEF ReadStored
  <2>4. Sizes(sent)[string_index + 1] <= BufferSize - 2 /\ buffer_index' = Sizes(sent)[string_index + 1]
    BY <1>3, <1>7, <1>14, <2>2, <2>3
  <2>5. buffer' \in Buffer /\ Stored(buffer', sent, string_index + 1)
    BY <1>3, <1>4, <1>14, <2>3, <2>4, StoredMore DEF c
  <2>6. StringsTypeOK'
    BY <1>1, <1>3, <1>4, <1>6, <1>7, <2>2, <2>3, <2>5 DEF StringsInv, StringsTypeOK, Buffer
  <2>7. ~ReadRefused(c)
    BY <1>1, <2>3 DEF ReadRefused
  <2> QED
    BY <1>1, <1>2, <1>13, <1>14, <2>3, <2>4, <2>5, <2>6, <2>7
<1>15. CASE ReadStored(c) /\ ~room
  <2>1. UNCHANGED <<buffer, buffer_index, pc, room>> /\ string_index' = string_index + 1
    BY <1>15 DEF ReadStored
  <2>2. StringsTypeOK'
    BY <1>1, <1>3, <1>4, <2>1 DEF StringsInv, StringsTypeOK, Buffer
  <2>3. \E e \in 0 .. string_index : EndsAt(buffer', sent, e)
    BY <1>3, <1>15, <2>1
  <2>4. ~ReadRefused(c)
    BY <1>1, <2>1 DEF ReadRefused
  <2> QED
    BY <1>1, <1>2, <1>13, <1>15, <2>1, <2>2, <2>3, <2>4
<1>16. CASE ReadCut(c)
  <2>1. /\ room /\ Encoded(c) = <<>> /\ buffer' = Zeroed /\ buffer_index' = BufferSize /\ room' = FALSE
        /\ string_index' = string_index + 1 /\ pc' = pc
    BY <1>16 DEF ReadCut
  <2>2. buffer_index + Size(c) > BufferSize - 2
    <3>1. Utf8(c) # <<>>
      BY <1>7, <1>11
    <3> QED
      BY <1>3, <1>6, <1>7, <1>8, <2>1, <3>1
  <2>3. /\ buffer' \in Buffer
        /\ \A i \in buffer_index .. BufferSize - 1 : buffer'[i] = 0
        /\ \A i \in 0 .. buffer_index - 1 : i <= BufferSize - 1 => buffer'[i] = buffer[i]
    BY <1>3, <2>1, ZeroedIs
  <2>4. Stored(buffer', sent, string_index)
    <3>1. \A i \in 0 .. Sizes(sent)[string_index] - 1 : buffer'[i] = buffer[i]
      BY <1>3, <1>6, <2>1, <2>3
    <3> QED
      BY <1>3, <2>1, <3>1, StoredStays
  <2>5. buffer'[Sizes(sent)[string_index]] = 0
    BY <1>3, <1>6, <2>1, <2>3
  <2>6. EndsAt(buffer', sent, string_index)
    BY <1>3, <1>7, <2>1, <2>2, <2>4, <2>5 DEF EndsAt
  <2>7. \E e \in 0 .. string_index : EndsAt(buffer', sent, e)
    BY <1>3, <2>6
  <2>8. StringsTypeOK'
    <3>1. string_index' \in 0 .. Len(sent)
      BY <1>4, <2>1
    <3>2. buffer_index' \in 0 .. BufferSize
      BY <1>6, <2>1
    <3>3. room' = FALSE /\ pc' = "read"
      BY <1>1, <2>1
    <3> QED
      BY <1>1, <2>3, <3>1, <3>2, <3>3 DEF StringsInv, StringsTypeOK, Buffer
  <2>9. ~ReadRefused(c)
    BY <1>1, <2>1 DEF ReadRefused
  <2> QED
    BY <1>1, <1>2, <1>13, <2>1, <2>7, <2>8, <2>9
<1> QED
  BY <1>2, <1>3, <1>12, <1>14, <1>15, <1>16

(* readstring puts the end if nothing was cut.                             *)
LEMMA ReadEndsKeeps == StringsInv /\ ReadEnds => StringsInv'
<1> SUFFICES ASSUME StringsInv, ReadEnds PROVE StringsInv'
  OBVIOUS
<1>1. /\ pc = "read" /\ string_index = Len(sent) /\ pc' = "write"
      /\ buffer' = IF room THEN Put(<<0>>) ELSE buffer
      /\ UNCHANGED <<sent, stored, string_index, buffer_index, room, next, count, char16, len, written>>
  BY DEF ReadEnds, writing
<1>2. /\ sent \in Seq(Char16) /\ buffer \in Buffer /\ buffer_index \in 0 .. BufferSize /\ room \in BOOLEAN
      /\ room => buffer_index <= BufferSize - 2
  BY DEF StringsInv, StringsTypeOK, Buffer
<1>3. Len(sent) \in Nat /\ BufferSize \in Nat /\ BufferSize > 4
  BY <1>2, LenProperties, BufferAssumption
<1>4. /\ NotWritten /\ len = -1 /\ sent[Len(sent)] = 0
      /\ room => buffer_index = Sizes(sent)[Len(sent)] /\ Stored(buffer, sent, Len(sent))
      /\ ~room => \E e \in 0 .. Len(sent) - 1 : EndsAt(buffer, sent, e)
  BY <1>1 DEF StringsInv, Reads
<1>5. buffer' \in Buffer /\ \E e \in 0 .. Len(sent) : EndsAt(buffer', sent, e)
  <2>1. CASE room
    <3> DEFINE end == <<0>>
    <3>1. /\ 1 \in Nat /\ DOMAIN end = 1 .. 1 /\ \A i \in 1 .. 1 : end[i] \in Byte
          /\ buffer_index \in Nat /\ buffer_index + 1 <= BufferSize /\ end[1] = 0
      BY <1>2, <1>3, <2>1 DEF Byte
    <3> HIDE DEF end
    <3>2. /\ Put(end) \in Buffer
          /\ \A i \in 1 .. 1 : Put(end)[buffer_index + i - 1] = end[i]
          /\ \A i \in 0 .. buffer_index - 1 : Put(end)[i] = buffer[i]
      BY <1>2, <3>1, PutIs
    <3>3. buffer' = Put(end)
      BY <1>1, <2>1 DEF end
    <3>4. buffer_index + 1 - 1 = buffer_index
      BY <3>1
    <3>5. Put(end)[buffer_index + 1 - 1] = end[1]
      BY <3>2
    <3>6. buffer'[buffer_index] = 0
      BY <3>1, <3>3, <3>4, <3>5
    <3>7. Len(sent) \in 0 .. Len(sent)
      BY <1>3
    <3>8. Stored(buffer', sent, Len(sent))
      BY <1>2, <1>4, <2>1, <3>2, <3>3, <3>7, StoredStays
    <3>9. EndsAt(buffer', sent, Len(sent))
      BY <1>2, <1>3, <1>4, <2>1, <3>6, <3>8 DEF EndsAt
    <3> QED
      BY <3>2, <3>3, <3>7, <3>9
  <2>2. CASE ~room
    <3>1. PICK e \in 0 .. Len(sent) - 1 : EndsAt(buffer, sent, e)
      BY <1>4, <2>2
    <3>2. e \in 0 .. Len(sent) /\ buffer' = buffer
      BY <1>1, <1>3, <2>2
    <3> QED
      BY <1>2, <3>1, <3>2
  <2> QED
    BY <2>1, <2>2
<1>6. \E z \in 0 .. BufferSize - 1 : buffer'[z] = 0
  <2>1. PICK e \in 0 .. Len(sent) : EndsAt(buffer', sent, e)
    BY <1>5
  <2>2. Sizes(sent)[e] \in Nat /\ Sizes(sent)[e] <= BufferSize - 2 /\ buffer'[Sizes(sent)[e]] = 0
    BY <1>2, <2>1, SizesIs DEF EndsAt
  <2>3. Sizes(sent)[e] \in 0 .. BufferSize - 1
    BY <1>3, <2>2
  <2> QED
    BY <2>2, <2>3
<1>7. StringsTypeOK'
  BY <1>1, <1>5 DEF StringsInv, StringsTypeOK, Buffer
<1>8. KeepsName'
  BY <1>1, <1>4, <1>5, <1>6 DEF KeepsName
<1>9. Counts'
  BY <1>1, <1>4 DEF Counts, NotWritten
<1> QED
  BY <1>1, <1>4, <1>7, <1>8, <1>9 DEF StringsInv, Reads, Decodes, RoundTrip

(***************************************************************************)
(* Writing.                                                                *)
(***************************************************************************)

(* What is kept and what the buffer holds do not change while it is        *)
(* written.                                                                *)
LEMMA SameName ==
  ASSUME UNCHANGED <<sent, buffer>>
  PROVE  Kept' = Kept /\ CString' = CString /\ (KeepsName /\ pc = "write" => KeepsName')
BY DEF Kept, HostName, CString, KeepsName

(* What was read is what the string holds. *)
LEMMA HeldIsKept ==
  ASSUME StringsInv, pc \in {"write", "done"}, sent # <<>>
  PROVE  KeptIsString(sent, CString, Kept)
<1>1. sent \in Seq(Char16) /\ buffer \in Buffer
  BY DEF StringsInv, StringsTypeOK, Buffer
<1>2. PICK e \in 0 .. Len(sent) : EndsAt(buffer, sent, e)
  BY DEF StringsInv, KeepsName
<1>3. sent[Len(sent)] = 0
  BY DEF StringsInv, KeepsName
<1> QED
  BY <1>1, <1>2, <1>3, KeptIs

(* As many units are counted in it as are kept. *)
LEMMA KeptLength ==
  ASSUME StringsInv, pc \in {"write", "done"}, sent # <<>>
  PROVE  utf8_strlen(CString) = Len(Kept)
<1>1. KeptIsString(sent, CString, Kept) /\ sent \in Seq(Char16)
  BY HeldIsKept DEF StringsInv, StringsTypeOK
<1>2. Len(Kept) \in Nat /\ Len(CString) = Sizes(sent)[Len(Kept)]
  BY <1>1, LenProperties DEF KeptIsString
<1>3. Len(Kept) \in 0 .. Len(Kept)
  BY <1>2
<1>4. Scanned(CString)[Sizes(sent)[Len(Kept)]] = Seen(Len(Kept), 0)
  BY <1>1, <1>3, KeptCounts
<1> QED
  BY <1>2, <1>4 DEF utf8_strlen, Seen

(* The types of what is counted in the string.                             *)
LEMMA StringLength ==
  ASSUME StringsInv
  PROVE  /\ CString \in Seq(Byte) /\ Len(CString) \in 0 .. BufferSize
         /\ utf8_strlen(CString) \in Nat
         /\ Scanned(CString)[0] = Seen(0, 0)
         /\ Scanned(CString)[Len(CString)] = Seen(utf8_strlen(CString), Scanned(CString)[Len(CString)].count)
<1>1. buffer \in Buffer
  BY DEF StringsInv, StringsTypeOK, Buffer
<1>2. CString \in Seq(Byte) /\ Len(CString) \in 0 .. BufferSize
  BY <1>1, CStringType
<1>3. Scanned(CString) \in [0 .. Len(CString) -> Progress] /\ Scanned(CString)[0] = Nothing
  BY <1>2, ScannedIs DEF Byte
<1>4. Len(CString) \in 0 .. Len(CString)
  BY <1>2, BufferAssumption
<1>5. Scanned(CString)[Len(CString)] \in Progress
  BY <1>3, <1>4
<1> QED
  BY <1>2, <1>3, <1>5 DEF utf8_strlen, Progress, Seen, Nothing

(* The length byte is written, or all of an empty string.                  *)
LEMMA WriteStartsKeeps == StringsInv /\ WriteStarts => StringsInv'
<1> SUFFICES ASSUME StringsInv, WriteStarts PROVE StringsInv'
  OBVIOUS
<1> DEFINE n == utf8_strlen(CString)
<1>1. /\ pc = "write" /\ len = -1
      /\ UNCHANGED <<sent, stored, string_index, buffer, buffer_index, room, next, count, char16, written>>
      /\ IF n > 0 THEN len' = (n + 1) % LengthMod /\ UNCHANGED pc ELSE len' = 0 /\ pc' = "done"
  BY DEF WriteStarts, reading
<1>2. CString' = CString /\ Kept' = Kept /\ KeepsName'
  BY <1>1, SameName DEF StringsInv, KeepsName
<1>3. n \in Nat /\ Scanned(CString)[0] = Seen(0, 0) /\ Len(CString) \in Nat
  BY StringLength, BufferAssumption
<1>4. NotWritten
  BY <1>1 DEF StringsInv, Counts
<1>5. sent \in Seq(Char16)
  BY DEF StringsInv, StringsTypeOK
<1> HIDE DEF n
<1>6. len' \in -1 .. LengthMod - 1 /\ pc' \in {"write", "done"}
  <2>1. LengthMod \in Nat \ {0}
    BY BufferAssumption
  <2>2. (n + 1) % LengthMod \in 0 .. LengthMod - 1
    BY <1>3, <2>1
  <2> QED
    BY <1>1, <2>1, <2>2
<1>7. StringsTypeOK'
  BY <1>1, <1>6 DEF StringsInv, StringsTypeOK
<1>8. CASE n > 0
  <2>1. pc' = "write" /\ len' = (n + 1) % LengthMod /\ len' # -1
    <3>1. (n + 1) % LengthMod \in Nat
      BY <1>3, BufferAssumption
    <3> QED
      BY <1>1, <1>8, <3>1
  <2>2. Counts'
    <3>1. next' = 1 /\ count' = 0 /\ written' = <<>>
      BY <1>1, <1>4 DEF NotWritten
    <3>2. next' \in 1 .. Len(CString') + 1 /\ Scanned(CString')[next' - 1] = Seen(Len(written'), count')
      BY <1>2, <1>3, <3>1
    <3>3. Announced'
      BY <1>2, <1>8, <2>1 DEF Announced, n
    <3> QED
      BY <2>1, <3>2, <3>3 DEF Counts
  <2>3. ASSUME sent # <<>> PROVE Decoded(0, 0)'
    <3>1. SubSeq(Kept, 1, 0) = <<>>
      BY SubSeqEmpty
    <3>2. Sizes(sent)[0] = 0
      BY <1>5, SizesIs
    <3> QED
      BY <1>1, <1>2, <1>4, <3>1, <3>2 DEF Decoded, NotWritten
  <2>4. sent # <<>> => 0 \in 0 .. Len(Kept)
    <3>1. ASSUME sent # <<>> PROVE Len(Kept) \in Nat
      BY <1>1, <3>1, HeldIsKept, LenProperties DEF KeptIsString
    <3> QED
      BY <3>1
  <2>5. Decodes'
    BY <1>1, <1>2, <2>1, <2>3, <2>4 DEF Decodes, RoundTrip
  <2> QED
    BY <1>2, <1>7, <2>1, <2>2, <2>5 DEF StringsInv, Reads
<1>9. CASE ~(n > 0)
  <2>1. n = 0 /\ pc' = "done" /\ len' = 0 /\ written' = <<>>
    BY <1>1, <1>3, <1>4, <1>9 DEF NotWritten
  <2>2. Counts'
    BY <1>2, <2>1 DEF Counts, n
  <2>3. ASSUME sent # <<>> PROVE Kept = <<>>
    <3>1. Len(Kept) = 0 /\ Kept \in Seq(Char16)
      BY <1>1, <2>1, <2>3, HeldIsKept, KeptLength DEF KeptIsString, n
    <3> QED
      BY <3>1, EmptySeq
  <2>4. Decodes'
    BY <1>1, <1>2, <2>1, <2>3 DEF Decodes, RoundTrip
  <2> QED
    BY <1>2, <1>7, <2>1, <2>2, <2>4 DEF StringsInv, Reads
<1> QED
  BY <1>8, <1>9

(* One more unit of a sequence.                                            *)
LEMMA SubSeqMore ==
  ASSUME NEW u \in Seq(Char16), NEW j \in Nat, j < Len(u)
  PROVE  Append(SubSeq(u, 1, j), u[j + 1]) = SubSeq(u, 1, j + 1)
<1>1. Len(u) \in Nat /\ 1 \in 1 .. Len(u) /\ j + 1 \in 1 .. Len(u) /\ (j + 1) - 1 = j
  BY LenProperties
<1>2. u[j + 1] \in Char16 /\ \A i \in 1 .. j : u[i] \in Char16
  BY <1>1, ElementOfSeq
<1>3. SubSeq(u, 1, j) \in Seq(Char16)
  BY <1>2, SubSeqProperties
<1> DEFINE n == j + 1
<1>4. n \in 1 .. Len(u) /\ n - 1 = j
  BY <1>1
<1> HIDE DEF n
<1>5. SubSeq(u, 1, n) = SubSeq(u, 1, n - 1) \o <<u[n]>>
  BY <1>1, <1>4, SubSeqRecursiveSecond
<1>6. Append(SubSeq(u, 1, j), u[j + 1]) = SubSeq(u, 1, j) \o <<u[j + 1]>>
  BY <1>2, <1>3, AppendIsConcat
<1> QED
  BY <1>4, <1>5, <1>6 DEF n

(* Each turn of writestring takes one byte of the unit that is next; with  *)
(* the last of them the unit is written.                                   *)
Turn(c, r) ==
  IF r + 1 = Size(c)
  THEN written' = Append(written, c) /\ count' = 0
  ELSE /\ written' = written /\ count' = Size(c) - (r + 1)
       /\ char16' = IF count' = 1 THEN c \div 64 ELSE c \div 4096

(* With r bytes of the unit c seen, the next byte is the turn of c.        *)
LEMMA WriteTurn ==
  ASSUME NEW c \in Char16, NEW r \in 0 .. Size(c) - 1,
         r = 0 => count = 0,
         r > 0 => count = Size(c) - r /\ char16 = IF count = 1 THEN c \div 64 ELSE c \div 4096,
         WriteByte(Utf8(c)[r + 1])
  PROVE  Turn(c, r)
<1> DEFINE b == Utf8(c)[r + 1]
<1>1. c \in Nat /\ c < 65536
  BY UnitIs
<1>2. b \in Byte
  <2>1. Size(c) \in 1 .. 3 /\ \A i \in 1 .. Size(c) : Utf8(c)[i] \in Byte
    BY Utf8Type
  <2>2. r + 1 \in 1 .. Size(c)
    BY <2>1
  <2> QED
    BY <2>1, <2>2
<1>3. /\ IsPlain(b) => ~IsMore(b) /\ ~IsLead2(b) /\ ~IsLead3(b)
      /\ IsMore(b) => ~IsLead2(b) /\ ~IsLead3(b)
      /\ IsLead2(b) => ~IsLead3(b)
  <2> HIDE DEF b
  <2> QED
    BY <1>2, Kinds
<1>4. CASE c < 128
  <2>1. Utf8(c) = <<c>> /\ IsPlain(c) /\ Size(c) = 1 /\ r = 0
    BY <1>1, <1>4, OneByte DEF Size
  <2>2. b = c
    BY <2>1
  <2> HIDE DEF b
  <2>3. written' = Append(written, c) /\ count' = 0
    BY <1>3, <2>1, <2>2 DEF WriteByte, b
  <2> QED
    BY <2>1, <2>3 DEF Turn
<1>5. CASE c >= 128 /\ c < 2048
  <2>1. /\ Utf8(c) = <<FirstOf2(c), Final(c)>> /\ IsLead2(FirstOf2(c)) /\ IsMore(Final(c))
        /\ FirstOf2(c) % 32 = c \div 64
        /\ ((c \div 64) * 64 + (Final(c) % 64)) % 65536 = c
    BY <1>1, <1>5, TwoBytes
  <2>2. Size(c) = 2
    BY <1>1, <1>5 DEF Size
  <2>3. CASE r = 0
    <3>1. b = FirstOf2(c)
      BY <2>1, <2>3
    <3> HIDE DEF b
    <3>2. written' = written /\ count' = 1 /\ char16' = c \div 64
      BY <1>3, <2>1, <3>1 DEF WriteByte, b
    <3> QED
      BY <2>2, <2>3, <3>2 DEF Turn
  <2>4. CASE r = 1
    <3>1. b = Final(c) /\ count = 1 /\ char16 = c \div 64
      BY <2>1, <2>2, <2>4
    <3> HIDE DEF b
    <3>2. char16' = (char16 * 64 + (b % 64)) % 65536 /\ count' = count - 1 /\ written' = Append(written, char16')
      BY <1>3, <2>1, <3>1 DEF WriteByte, b
    <3>3. char16' = c /\ count' = 0
      BY <2>1, <3>1, <3>2
    <3> QED
      BY <2>2, <2>4, <3>2, <3>3 DEF Turn
  <2> QED
    BY <2>2, <2>3, <2>4
<1>6. CASE c >= 2048
  <2>1. /\ Utf8(c) = <<FirstOf3(c), Middle(c), Final(c)>>
        /\ IsLead3(FirstOf3(c)) /\ IsMore(Middle(c)) /\ IsMore(Final(c))
        /\ FirstOf3(c) % 16 = c \div 4096
        /\ ((c \div 4096) * 64 + (Middle(c) % 64)) % 65536 = c \div 64
        /\ ((c \div 64) * 64 + (Final(c) % 64)) % 65536 = c
    BY <1>1, <1>6, ThreeBytes
  <2>2. Size(c) = 3
    BY <1>1, <1>6 DEF Size
  <2>3. CASE r = 0
    <3>1. b = FirstOf3(c)
      BY <2>1, <2>3
    <3> HIDE DEF b
    <3>2. written' = written /\ count' = 2 /\ char16' = c \div 4096
      BY <1>3, <2>1, <3>1 DEF WriteByte, b
    <3> QED
      BY <2>2, <2>3, <3>2 DEF Turn
  <2>4. CASE r = 1
    <3>1. b = Middle(c) /\ count = 2 /\ char16 = c \div 4096
      BY <2>1, <2>2, <2>4
    <3> HIDE DEF b
    <3>2. char16' = (char16 * 64 + (b % 64)) % 65536 /\ count' = count - 1 /\ written' = written
      BY <1>3, <2>1, <3>1 DEF WriteByte, b
    <3>3. char16' = c \div 64 /\ count' = 1
      BY <2>1, <3>1, <3>2
    <3> QED
      BY <2>2, <2>4, <3>2, <3>3 DEF Turn
  <2>5. CASE r = 2
    <3>1. b = Final(c) /\ count = 1 /\ char16 = c \div 64
      BY <2>1, <2>2, <2>5
    <3> HIDE DEF b
    <3>2. char16' = (char16 * 64 + (b % 64)) % 65536 /\ count' = count - 1 /\ written' = Append(written, char16')
      BY <1>3, <2>1, <3>1 DEF WriteByte, b
    <3>3. char16' = c /\ count' = 0
      BY <2>1, <3>1, <3>2
    <3> QED
      BY <2>2, <2>5, <3>2, <3>3 DEF Turn
  <2> QED
    BY <2>2, <2>3, <2>4, <2>5
<1> QED
  BY <1>1, <1>4, <1>5, <1>6

(* Where writestring is in the string: in a unit, or after the last one.   *)
LEMMA WherePlaced ==
  ASSUME sent \in Seq(Char16), KeptIsString(sent, CString, Kept),
         NEW j \in 0 .. Len(Kept), NEW r \in 0 .. 2, Decoded(j, r)
  PROVE  /\ next <= Len(CString) =>
              /\ j < Len(Kept) /\ Kept[j + 1] \in Char16 /\ r \in 0 .. Size(Kept[j + 1]) - 1
              /\ CString[next] = Utf8(Kept[j + 1])[r + 1]
              /\ Sizes(sent)[j + 1] = Sizes(sent)[j] + Size(Kept[j + 1])
         /\ next > Len(CString) => j = Len(Kept) /\ r = 0
<1>1. /\ Kept \in Seq(Char16) /\ Len(Kept) <= Len(sent) /\ Len(CString) = Sizes(sent)[Len(Kept)]
      /\ \A i \in 1 .. Len(Kept) : Kept[i] = sent[i] /\ Kept[i] # 0
      /\ \A m \in 1 .. Len(Kept) : \A i \in 1 .. Size(Kept[m]) : CString[Sizes(sent)[m - 1] + i] = Utf8(Kept[m])[i]
  BY DEF KeptIsString
<1>2. Len(Kept) \in Nat /\ Len(sent) \in Nat
  BY <1>1, LenProperties
<1>3. \A m \in 0 .. Len(sent) : Sizes(sent)[m] \in Nat
  BY SizesIs
<1>4. j \in 0 .. Len(sent) /\ Len(Kept) \in 0 .. Len(sent) /\ j \in Nat
  BY <1>1, <1>2
<1>5. next = Sizes(sent)[j] + r + 1 /\ (r > 0 => j < Len(Kept) /\ r < Size(Kept[j + 1]))
  BY DEF Decoded
<1>6. ASSUME j < Len(Kept)
      PROVE  /\ Kept[j + 1] \in Char16 /\ Size(Kept[j + 1]) \in 1 .. 3
             /\ Sizes(sent)[j + 1] = Sizes(sent)[j] + Size(Kept[j + 1])
             /\ \A i \in 1 .. Size(Kept[j + 1]) : CString[Sizes(sent)[j] + i] = Utf8(Kept[j + 1])[i]
             /\ Sizes(sent)[j + 1] <= Len(CString)
  <2> DEFINE m == j + 1
  <2>1. m \in 1 .. Len(Kept) /\ m \in 1 .. Len(sent) /\ m - 1 = j /\ m \in 0 .. Len(sent)
    BY <1>1, <1>2, <1>6
  <2> HIDE DEF m
  <2>2. Kept[m] \in Char16 /\ Size(Kept[m]) \in 1 .. 3
    BY <1>1, <2>1, ElementOfSeq, Utf8Type
  <2>3. Sizes(sent)[m] = Sizes(sent)[m - 1] + Size(Kept[m])
    BY <1>1, <2>1, SizesIs
  <2>4. Sizes(sent)[m] <= Len(CString)
    <3>1. CASE m = Len(Kept)
      BY <1>1, <1>3, <1>4, <3>1
    <3>2. CASE m < Len(Kept)
      <4>1. Sizes(sent)[m] < Sizes(sent)[Len(Kept)]
        BY <1>4, <2>1, <3>2, SizesGrow
      <4> QED
        BY <1>1, <1>3, <1>4, <2>1, <4>1
    <3> QED
      BY <1>2, <2>1, <3>1, <3>2
  <2>5. \A i \in 1 .. Size(Kept[m]) : CString[Sizes(sent)[m - 1] + i] = Utf8(Kept[m])[i]
    BY <1>1, <2>1
  <2> QED
    BY <2>1, <2>2, <2>3, <2>4, <2>5 DEF m
<1>7. ASSUME next <= Len(CString)
      PROVE  /\ j < Len(Kept) /\ Kept[j + 1] \in Char16 /\ r \in 0 .. Size(Kept[j + 1]) - 1
             /\ CString[next] = Utf8(Kept[j + 1])[r + 1]
             /\ Sizes(sent)[j + 1] = Sizes(sent)[j] + Size(Kept[j + 1])
  <2>1. j < Len(Kept)
    <3>1. j # Len(Kept)
      BY <1>1, <1>3, <1>4, <1>5, <1>7
    <3> QED
      BY <1>2, <3>1
  <2>2. r \in 0 .. Size(Kept[j + 1]) - 1
    BY <1>5, <1>6, <2>1
  <2> DEFINE s == Size(Kept[j + 1])
             at == Sizes(sent)[j]
             i == r + 1
  <2>3. i \in 1 .. s /\ next = at + i
    <3>1. s \in 1 .. 3 /\ at \in Nat /\ next = at + r + 1 /\ r \in 0 .. s - 1
      BY <1>3, <1>4, <1>5, <1>6, <2>1, <2>2
    <3> HIDE DEF s, at
    <3> QED
      BY <3>1
  <2> HIDE DEF i
  <2>4. CString[at + i] = Utf8(Kept[j + 1])[i]
    BY <1>6, <2>1, <2>3
  <2> QED
    BY <1>6, <2>1, <2>2, <2>3, <2>4 DEF i
<1>8. ASSUME next > Len(CString) PROVE j = Len(Kept) /\ r = 0
  <2>1. ~(j < Len(Kept))
    <3> SUFFICES ASSUME j < Len(Kept) PROVE FALSE
      OBVIOUS
    <3> DEFINE s == Size(Kept[j + 1])
               at == Sizes(sent)[j]
               end == Len(CString)
    <3>1. s \in 1 .. 3 /\ at \in Nat /\ at + s <= end /\ end \in Nat
      BY <1>1, <1>3, <1>4, <1>6
    <3>2. next = at + r + 1 /\ (r > 0 => r < s) /\ next > end
      BY <1>5, <1>8
    <3> HIDE DEF s, at, end
    <3> QED
      BY <3>1, <3>2
  <2> QED
    BY <1>2, <1>5, <2>1
<1> QED
  BY <1>7, <1>8

(* A turn of writestring goes on in the unit, or from it to the next.      *)
LEMMA WriteKeeps == StringsInv /\ writestring => StringsInv'
<1> SUFFICES ASSUME StringsInv, writestring PROVE StringsInv'
  OBVIOUS
<1> DEFINE c == CString[next]
<1>1. /\ pc = "write" /\ len # -1 /\ next <= Len(CString) /\ WriteByte(c) /\ next' = next + 1
      /\ UNCHANGED <<pc, sent, stored, string_index, buffer, buffer_index, room, len>>
  BY DEF writestring, reading
<1>2. CString' = CString /\ Kept' = Kept /\ KeepsName'
  BY <1>1, SameName DEF StringsInv, KeepsName
<1>3. /\ sent \in Seq(Char16) /\ count \in 0 .. 2 /\ char16 \in Char16 /\ written \in Seq(Char16)
      /\ next \in 1 .. BufferSize + 1
  BY DEF StringsInv, StringsTypeOK
<1>4. CString \in Seq(Byte) /\ Len(CString) \in 0 .. BufferSize /\ BufferSize \in Nat
  BY StringLength, BufferAssumption
<1>5. Len(CString) \in Nat /\ next \in 1 .. Len(CString) /\ next + 1 \in 1 .. BufferSize + 1
  BY <1>1, <1>3, <1>4
<1>6. c \in Byte
  BY <1>4, <1>5, ElementOfSeq
<1>7. /\ Announced /\ Scanned(CString)[next - 1] = Seen(Len(written), count)
  BY <1>1 DEF StringsInv, Counts
<1>8. Scanned(CString)[next] = Counted(c, Scanned(CString)[next - 1])
  BY <1>4, <1>5, ScannedIs DEF Byte
<1> HIDE DEF c
<1>9. /\ written' \in Seq(Char16) /\ count' \in 0 .. 2 /\ char16' \in Char16
      /\ Seen(Len(written'), count') = Counted(c, Seen(Len(written), count))
  BY <1>1, <1>3, <1>6, WriteCounts
<1>10. StringsTypeOK'
  BY <1>1, <1>5, <1>9 DEF StringsInv, StringsTypeOK
<1>11. Counts'
  <2>1. next' \in 1 .. Len(CString) + 1 /\ next' - 1 = next
    BY <1>1, <1>5
  <2>2. Scanned(CString')[next' - 1] = Seen(Len(written'), count')
    BY <1>2, <1>7, <1>8, <1>9, <2>1
  <2>3. Announced'
    BY <1>1, <1>2, <1>7 DEF Announced
  <2> QED
    BY <1>1, <1>2, <2>1, <2>2, <2>3 DEF Counts
<1>12. ASSUME sent # <<>> PROVE \E j \in 0 .. Len(Kept) : \E r \in 0 .. 2 : Decoded(j, r)'
  <2>1. KeptIsString(sent, CString, Kept) /\ Kept \in Seq(Char16)
    BY <1>1, <1>12, HeldIsKept DEF KeptIsString
  <2>2. PICK j \in 0 .. Len(Kept), r \in 0 .. 2 : Decoded(j, r)
    BY <1>1, <1>12 DEF StringsInv, Decodes
  <2> DEFINE k == Kept[j + 1]
  <2>3. /\ j < Len(Kept) /\ k \in Char16 /\ r \in 0 .. Size(k) - 1
        /\ c = Utf8(k)[r + 1]
        /\ Sizes(sent)[j + 1] = Sizes(sent)[j] + Size(k)
    BY <1>1, <1>3, <2>1, <2>2, WherePlaced DEF c
  <2>4. /\ written = SubSeq(Kept, 1, j) /\ next = Sizes(sent)[j] + r + 1
        /\ r = 0 => count = 0
        /\ r > 0 => count = Size(k) - r /\ char16 = IF count = 1 THEN k \div 64 ELSE k \div 4096
    BY <2>2 DEF Decoded
  <2>5. Append(SubSeq(Kept, 1, j), k) = SubSeq(Kept, 1, j + 1)
    <3>1. j \in Nat
      OBVIOUS
    <3> QED
      BY <2>1, <2>3, <3>1, SubSeqMore
  <2>6. Sizes(sent)[j] \in Nat /\ Len(Kept) \in Nat
    <3>1. j \in 0 .. Len(sent)
      BY <2>1, LenProperties, <1>3 DEF KeptIsString
    <3> QED
      BY <1>3, <2>1, <3>1, SizesIs, LenProperties
  <2>7. Size(k) \in 1 .. 3
    BY <2>3, Utf8Type
  <2>8. Turn(k, r)
    <3> HIDE DEF k
    <3> QED
      BY <1>1, <2>3, <2>4, WriteTurn
  <2> DEFINE size == Size(k)
             at == Sizes(sent)[j]
             more == j + 1
  <2>9. CASE r + 1 = size
    <3>1. written' = SubSeq(Kept, 1, more) /\ count' = 0
      <4>1. written' = Append(written, k) /\ count' = 0
        <5> HIDE DEF k
        <5> QED
          BY <2>8, <2>9 DEF Turn
      <4> HIDE DEF k
      <4> QED
        BY <2>4, <2>5, <4>1
    <3>2. more \in 0 .. Len(Kept)
      BY <2>3, <2>6
    <3>3. Sizes(sent)[more] = at + size
      BY <2>3
    <3>4. at \in Nat /\ size \in 1 .. 3 /\ next = at + r + 1
      BY <2>4, <2>6, <2>7
    <3> HIDE DEF more, at, size
    <3>5. next' = at + size + 0 + 1
      BY <1>1, <2>9, <3>4
    <3>6. Decoded(more, 0)'
      BY <1>1, <1>2, <3>1, <3>3, <3>5 DEF Decoded
    <3> QED
      BY <3>2, <3>6
  <2>10. CASE r + 1 # size
    <3> DEFINE s == r + 1
    <3>1. /\ written' = written /\ count' = size - s
          /\ char16' = IF count' = 1 THEN k \div 64 ELSE k \div 4096
      BY <2>8, <2>10 DEF Turn
    <3>2. s \in 1 .. 2 /\ s < size
      BY <2>3, <2>7, <2>10
    <3>3. next' = at + s + 1
      BY <1>1, <2>4, <2>6
    <3> HIDE DEF s, at
    <3>4. written' = SubSeq(Kept, 1, j)
      BY <2>4, <3>1
    <3>5. s > 0 /\ s # 0
      BY <3>2
    <3>6. Decoded(j, s)'
      BY <1>1, <1>2, <2>3, <3>1, <3>2, <3>3, <3>4, <3>5 DEF Decoded, at
    <3> QED
      BY <3>2, <3>6
  <2> QED
    BY <2>9, <2>10
<1>13. Decodes'
  <2>1. sent' # <<>> => \E j \in 0 .. Len(Kept') : \E r \in 0 .. 2 : Decoded(j, r)'
    BY <1>1, <1>2, <1>12
  <2> QED
    BY <1>1, <2>1 DEF Decodes, RoundTrip
<1> QED
  BY <1>1, <1>2, <1>10, <1>11, <1>13 DEF StringsInv, Reads

(* The string is at its end when all units that were kept are written.     *)
LEMMA WriteEndsKeeps == StringsInv /\ WriteEnds => StringsInv'
<1> SUFFICES ASSUME StringsInv, WriteEnds PROVE StringsInv'
  OBVIOUS
<1>1. /\ pc = "write" /\ len # -1 /\ next > Len(CString) /\ written' = Append(written, 0) /\ pc' = "done"
      /\ UNCHANGED <<sent, stored, string_index, buffer, buffer_index, room, next, count, char16, len>>
  BY DEF WriteEnds, reading
<1>2. CString' = CString /\ Kept' = Kept /\ KeepsName'
  BY <1>1, SameName DEF StringsInv, KeepsName
<1>3. sent \in Seq(Char16) /\ written \in Seq(Char16)
  BY DEF StringsInv, StringsTypeOK
<1>4. written' \in Seq(Char16) /\ Len(written') = Len(written) + 1 /\ Len(written) \in Nat
      /\ written' = written \o <<0>>
  <2>1. 0 \in Char16
    BY IsUnit
  <2> QED
    BY <1>1, <1>3, <2>1, AppendProperties, AppendIsConcat, LenProperties
<1>5. StringsTypeOK'
  BY <1>1, <1>4 DEF StringsInv, StringsTypeOK
<1>6. Announced /\ next \in 1 .. Len(CString) + 1 /\ Scanned(CString)[next - 1] = Seen(Len(written), count)
  BY <1>1 DEF StringsInv, Counts
<1>7. Len(CString) \in Nat
  BY StringLength, BufferAssumption
<1>8. Len(written) = utf8_strlen(CString)
  <2>1. next - 1 = Len(CString)
    BY <1>1, <1>6, <1>7
  <2> QED
    BY <1>6, <2>1 DEF utf8_strlen, Seen
<1>9. Announced'
  BY <1>1, <1>2, <1>6 DEF Announced
<1>10. Counts'
  BY <1>1, <1>2, <1>4, <1>8, <1>9 DEF Counts
<1>11. ASSUME sent # <<>> PROVE written' = IF Kept = <<>> THEN <<>> ELSE Kept \o <<0>>
  <2>1. KeptIsString(sent, CString, Kept) /\ Kept \in Seq(Char16)
    BY <1>1, <1>11, HeldIsKept DEF KeptIsString
  <2>2. PICK j \in 0 .. Len(Kept), r \in 0 .. 2 : Decoded(j, r)
    BY <1>1, <1>11 DEF StringsInv, Decodes
  <2>3. j = Len(Kept)
    BY <1>1, <1>3, <2>1, <2>2, WherePlaced
  <2>4. written = Kept
    BY <2>1, <2>2, <2>3, SubSeqFull DEF Decoded
  <2>5. Kept # <<>>
    <3>1. Len(Kept) > 0
      BY <1>1, <1>6, <1>11, KeptLength DEF Announced
    <3> QED
      BY <3>1
  <2> QED
    BY <1>4, <2>4, <2>5
<1>12. Decodes'
  BY <1>1, <1>2, <1>11 DEF Decodes, RoundTrip
<1> QED
  BY <1>1, <1>2, <1>5, <1>10, <1>12 DEF StringsInv, Reads

(***************************************************************************)
(* The theorems.                                                           *)
(***************************************************************************)
(* The invariant holds initially and every step keeps it.                  *)
LEMMA StringsStays == StringsSpec => []StringsInv
<1>1. StringsInv /\ [StringsNext]_stringsVars => StringsInv'
  <2> SUFFICES ASSUME StringsInv, [StringsNext]_stringsVars PROVE StringsInv'
    OBVIOUS
  <2>1. CASE UNCHANGED stringsVars
    <3>1. UNCHANGED <<pc, sent, string_index, buffer, buffer_index, room, next, count, char16, len, written>>
      BY <2>1 DEF stringsVars, reading, writing
    <3>2. Kept' = Kept /\ CString' = CString
      BY <3>1, SameName
    <3>3. StringsTypeOK'
      BY <3>1 DEF StringsInv, StringsTypeOK
    <3>4. Reads'
      BY <3>1 DEF StringsInv, Reads, NotWritten
    <3>5. KeepsName'
      BY <3>1 DEF StringsInv, KeepsName
    <3>6. Counts'
      BY <3>1, <3>2 DEF StringsInv, Counts, Announced, NotWritten
    <3>7. Decodes'
      BY <3>1, <3>2 DEF StringsInv, Decodes, Decoded, RoundTrip
    <3> QED
      BY <3>3, <3>4, <3>5, <3>6, <3>7 DEF StringsInv
  <2> QED
    BY <2>1, ReadKeeps, ReadEndsKeeps, WriteStartsKeeps, WriteKeeps, WriteEndsKeeps DEF StringsNext
<1> QED
  BY <1>1, InitStrings, PTL DEF StringsSpec

(* Every variable stays in its range. *)
LEMMA StringsTypeCorrect == StringsSpec => []StringsTypeOK
<1>1. StringsInv => StringsTypeOK
  BY DEF StringsInv
<1> QED
  BY <1>1, StringsStays, PTL

(* The buffer of a name that was read ends in a zero, for every size of it *)
(* and every name (readstring).                                            *)
THEOREM TerminatedAlways == StringsSpec => []Terminated
<1>1. StringsInv => Terminated
  <2> SUFFICES ASSUME StringsInv, pc \in {"write", "done"} PROVE \E i \in DOMAIN buffer : buffer[i] = 0
    BY DEF Terminated
  <2>1. DOMAIN buffer = 0 .. BufferSize - 1
    BY DEF StringsInv, StringsTypeOK
  <2> QED
    BY <2>1 DEF StringsInv, KeepsName
<1> QED
  BY <1>1, StringsStays, PTL

(* What readstring keeps of a name is what writestring sends: the longest  *)
(* beginning of it whose bytes fit, for every size of the buffer.          *)
THEOREM RoundTripAlways == StringsSpec => []RoundTrip
<1>1. StringsInv => RoundTrip
  BY DEF StringsInv, Decodes
<1> QED
  BY <1>1, StringsStays, PTL

(* utf8_strlen announces what writestring sends, for every string of bytes. *)
THEOREM LengthAgreesAlways == StringsSpec => []LengthAgrees
<1>1. StringsInv => LengthAgrees
  <2> SUFFICES ASSUME StringsInv, pc = "done"
               PROVE  /\ writestringlen(CString) = 1 + 2 * Len(written)
                      /\ Len(written) < LengthMod => len = Len(written)
    BY DEF LengthAgrees
  <2> DEFINE n == utf8_strlen(CString)
  <2>1. n \in Nat
    BY StringLength
  <2>2. \/ n = 0 /\ len = 0 /\ written = <<>>
        \/ n > 0 /\ len = (n + 1) % LengthMod /\ Len(written) = n + 1
    BY DEF StringsInv, Counts, Announced
  <2>3. writestringlen(CString) = IF n = 0 THEN 1 ELSE n * 2 + 2 + 1
    BY DEF writestringlen
  <2>4. LengthMod \in Nat \ {0}
    BY BufferAssumption
  <2> HIDE DEF n
  <2>5. CASE n = 0 /\ len = 0 /\ written = <<>>
    BY <2>3, <2>5
  <2>6. CASE n > 0 /\ len = (n + 1) % LengthMod /\ Len(written) = n + 1
    <3>1. writestringlen(CString) = 1 + 2 * Len(written)
      BY <2>1, <2>3, <2>6
    <3>2. n + 1 < LengthMod => (n + 1) % LengthMod = n + 1
      BY <2>1, <2>4
    <3> QED
      BY <2>6, <3>1, <3>2
  <2> QED
    BY <2>2, <2>5, <2>6
<1> QED
  BY <1>1, StringsStays, PTL
=============================================================================
