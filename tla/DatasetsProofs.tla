--------------------------- MODULE DatasetsProofs ---------------------------
(***************************************************************************)
(* Proofs about Datasets: nothing waits in transmit_buffer when the device *)
(* is at rest, and Datasets implements DataPhase, whatever the lengths of  *)
(* names and lists and whenever the host cancels.                          *)
(***************************************************************************)
EXTENDS Datasets, TLAPS

(* The pair of quotient and remainder is unique. *)
LEMMA DivUnique ==
  ASSUME NEW q \in Nat, NEW P \in Nat \ {0}, NEW k \in 0 .. P - 1
  PROVE  /\ q * P + k \in Nat
         /\ (q * P + k) \div P = q
         /\ (q * P + k) % P = k
OBVIOUS

-----------------------------------------------------------------------------
(* Lengths that add up: f[i] is the sum of those behind the i-th.          *)

Lengths == 1 .. 64

AddsUp(w, f, n, total) ==
  /\ f \in [0 .. n -> Nat]
  /\ f[0] = total /\ f[n] = 0
  /\ \A i \in 1 .. n : f[i - 1] = f[i] + w[i]

Makes(w, total) == w \in Seq(Lengths) /\ \E f : AddsUp(w, f, Len(w), total)

(* A list of lengths that are given by position makes a total.             *)
LEMMA MakesList ==
  ASSUME NEW w \in Seq(Lengths), NEW n \in Nat, Len(w) = n, NEW f, NEW t, AddsUp(w, f, n, t)
  PROVE  Makes(w, t)
BY DEF Makes

LEMMA MakesNone == Makes(<<>>, 0)
<1> DEFINE f == [i \in 0 .. 0 |-> 0]
<1>1. AddsUp(<<>>, f, 0, 0)
  BY DEF AddsUp
<1> HIDE DEF f
<1>2. <<>> \in Seq(Lengths) /\ Len(<<>>) = 0
  OBVIOUS
<1> QED BY <1>1, <1>2, MakesList

LEMMA MakesTimes ==
  ASSUME NEW n \in Nat, NEW x \in Lengths
  PROVE  Makes(Times(n, x), n * x)
<1> DEFINE w == Times(n, x)
           f == [i \in 0 .. n |-> (n - i) * x]
<1>1. w \in Seq(Lengths) /\ Len(w) = n /\ \A i \in 1 .. n : w[i] = x
  BY DEF Times
<1>2. x \in Nat /\ \A i \in 0 .. n : (n - i) * x \in Nat
  BY DEF Lengths
<1>3. \A i \in 1 .. n : (n - (i - 1)) * x = (n - i) * x + x
  BY <1>2
<1>4. f \in [0 .. n -> Nat] /\ f[0] = n * x /\ f[n] = 0
  BY <1>2
<1>5. \A i \in 1 .. n : f[i - 1] = f[i] + x
  BY <1>3
<1> HIDE DEF f, w
<1>6. AddsUp(w, f, n, n * x)
  BY <1>1, <1>4, <1>5 DEF AddsUp
<1> QED BY <1>1, <1>6, MakesList DEF w

LEMMA MakesBoth ==
  ASSUME NEW v, NEW s, Makes(v, s), NEW w, NEW t, Makes(w, t)
  PROVE  Makes(v \o w, s + t)
<1>1. v \in Seq(Lengths) /\ w \in Seq(Lengths)
  BY DEF Makes
<1>2. PICK m \in Nat, n \in Nat : m = Len(v) /\ n = Len(w)
  BY <1>1
<1>3. PICK f, g : AddsUp(v, f, m, s) /\ AddsUp(w, g, n, t)
  BY <1>2 DEF Makes
<1>4. /\ f \in [0 .. m -> Nat] /\ f[0] = s /\ f[m] = 0 /\ s \in Nat
      /\ \A i \in 1 .. m : f[i - 1] = f[i] + v[i]
  BY <1>3 DEF AddsUp
<1>5. /\ g \in [0 .. n -> Nat] /\ g[0] = t /\ g[n] = 0 /\ t \in Nat
      /\ \A i \in 1 .. n : g[i - 1] = g[i] + w[i]
  BY <1>3 DEF AddsUp
<1> DEFINE u == v \o w
           h == [i \in 0 .. m + n |-> IF i <= m THEN f[i] + t ELSE g[i - m]]
<1>6. /\ u \in Seq(Lengths) /\ Len(u) = m + n
      /\ \A i \in 1 .. m : u[i] = v[i]
      /\ \A i \in m + 1 .. m + n : u[i] = w[i - m]
  BY <1>1, <1>2
<1>7. /\ \A i \in 0 .. m : h[i] = f[i] + t
      /\ \A i \in m .. m + n : h[i] = g[i - m]
  <2>1. \A i \in 0 .. m : h[i] = f[i] + t
    OBVIOUS
  <2>2. h[m] = t /\ g[m - m] = t
    BY <1>4, <1>5
  <2>3. \A i \in m + 1 .. m + n : h[i] = g[i - m]
    OBVIOUS
  <2> QED BY <2>1, <2>2, <2>3
<1>8. h \in [0 .. m + n -> Nat]
  <2>1. \A i \in 0 .. m : f[i] + t \in Nat
    BY <1>4, <1>5
  <2>2. \A i \in m .. m + n : i - m \in 0 .. n /\ g[i - m] \in Nat
    BY <1>5
  <2> QED BY <2>1, <2>2
<1> HIDE DEF u, h
<1>9. \A i \in 1 .. m + n : h[i - 1] = h[i] + u[i]
  <2>1. TAKE i \in 1 .. m + n
  <2>2. CASE i <= m
    <3>1. i \in 1 .. m /\ i - 1 \in 0 .. m /\ i \in 0 .. m
      BY <2>2
    <3>2. f[i - 1] = f[i] + v[i] /\ f[i] \in Nat
      BY <1>4, <3>1
    <3>3. v[i] \in Lengths
      BY <1>1, <1>2, <3>1
    <3>4. h[i - 1] = f[i - 1] + t /\ h[i] = f[i] + t /\ u[i] = v[i]
      BY <1>6, <1>7, <3>1
    <3>5. v[i] \in Nat
      BY ONLY <3>3 DEF Lengths
    <3>6. f[i] + v[i] + t = f[i] + t + v[i]
      BY <1>5, <3>2, <3>5
    <3> QED BY ONLY <3>2, <3>4, <3>6
  <2>3. CASE i > m
    <3>1. i - m \in 1 .. n /\ i - 1 \in m .. m + n /\ i \in m .. m + n /\ i - 1 - m = (i - m) - 1
      BY <2>3
    <3>2. g[(i - m) - 1] = g[i - m] + w[i - m]
      BY <1>5, <3>1
    <3>3. u[i] = w[i - m]
      BY <1>6, <2>3
    <3> QED BY <1>7, <3>1, <3>2, <3>3
  <2> QED BY <2>2, <2>3
<1>10. h[0] = s + t /\ h[m + n] = 0
  BY <1>4, <1>5, <1>7
<1>11. AddsUp(u, h, m + n, s + t)
  BY <1>8, <1>9, <1>10 DEF AddsUp
<1>12. m + n \in Nat
  OBVIOUS
<1>13. Makes(u, s + t)
  BY <1>6, <1>11, <1>12, MakesList
<1> QED BY <1>13 DEF u

LEMMA MakesOne ==
  ASSUME NEW n \in Lengths
  PROVE  Makes(<<n>>, n)
<1> DEFINE f == [i \in 0 .. 1 |-> IF i = 0 THEN n ELSE 0]
<1>1. n \in Nat /\ <<n>> \in Seq(Lengths) /\ Len(<<n>>) = 1 /\ <<n>>[1] = n
  BY DEF Lengths
<1>2. AddsUp(<<n>>, f, 1, n)
  BY <1>1 DEF AddsUp
<1> HIDE DEF f
<1> QED BY <1>1, <1>2, MakesList

LEMMA MakesRest ==
  ASSUME NEW w, NEW t, Makes(w, t), w # <<>>
  PROVE  /\ Head(w) \in Lengths /\ t - Head(w) \in Nat
         /\ Makes(Tail(w), t - Head(w))
<1>1. w \in Seq(Lengths)
  BY DEF Makes
<1> DEFINE u == Tail(w)
           x == Head(w)
<1>2. PICK n \in Nat : Len(w) = n + 1 /\ Len(u) = n
  BY <1>1
<1>3. /\ u \in Seq(Lengths) /\ x \in Lengths /\ x = w[1]
      /\ \A i \in 1 .. n : u[i] = w[i + 1]
  BY <1>1, <1>2
<1>4. PICK f : AddsUp(w, f, n + 1, t)
  BY <1>2 DEF Makes
<1>5. /\ f \in [0 .. n + 1 -> Nat] /\ f[0] = t /\ f[n + 1] = 0
      /\ \A i \in 1 .. n + 1 : f[i - 1] = f[i] + w[i]
  BY <1>4 DEF AddsUp
<1> HIDE DEF u, x
<1> DEFINE g == [i \in 0 .. n |-> f[i + 1]]
<1>6. g \in [0 .. n -> Nat] /\ g[0] = f[1] /\ g[n] = 0
  BY <1>5
<1>7. f[0] = f[1] + w[1] /\ f[1] \in Nat
  BY <1>5
<1>8. t - x = f[1] /\ t - x \in Nat
  BY <1>3, <1>5, <1>7 DEF Lengths
<1>9. \A i \in 1 .. n : g[i - 1] = g[i] + u[i]
  BY <1>3, <1>5
<1> HIDE DEF g
<1>10. AddsUp(u, g, n, t - x)
  BY <1>6, <1>8, <1>9 DEF AddsUp
<1> QED BY <1>2, <1>3, <1>8, <1>10, MakesList DEF u, x

LEMMA MakesNothing ==
  ASSUME NEW t, Makes(<<>>, t)
  PROVE  t = 0
<1>1. PICK f : AddsUp(<<>>, f, Len(<<>>), t)
  BY DEF Makes
<1>2. Len(<<>>) = 0
  OBVIOUS
<1> QED BY <1>1, <1>2 DEF AddsUp

(* Lists of a few lengths, as the datasets have them: rest[i] is the sum of *)
(* the i-th and those behind it.                                           *)
Totals(w, n, rest, t) ==
  /\ n \in Nat
  /\ w \in Seq(Lengths) /\ Len(w) = n
  /\ rest \in [1 .. n + 1 -> Nat] /\ rest[1] = t /\ rest[n + 1] = 0
  /\ \A i \in 1 .. n : rest[i] = rest[i + 1] + w[i]

LEMMA MakesThese ==
  ASSUME NEW w, NEW n, NEW rest, NEW t, Totals(w, n, rest, t)
  PROVE  Makes(w, t)
<1> USE DEF Totals
<1> DEFINE f == [i \in 0 .. n |-> rest[i + 1]]
<1>1. \A i \in 0 .. n : rest[i + 1] \in Nat
  OBVIOUS
<1>2. f \in [0 .. n -> Nat] /\ f[0] = t /\ f[n] = 0
  BY <1>1
<1>3. \A i \in 1 .. n : f[i - 1] = rest[i] /\ f[i] = rest[i + 1]
  OBVIOUS
<1> HIDE DEF f
<1>4. AddsUp(w, f, n, t)
  BY <1>2, <1>3 DEF AddsUp
<1> QED BY <1>4, MakesList

LEMMA Made ==
  /\ Makes(<<1>>, 1) /\ Makes(<<2>>, 2) /\ Makes(<<4>>, 4) /\ Makes(<<8>>, 8)
  /\ Makes(<<4, 4>>, 8) /\ Makes(<<4, 20>>, 24) /\ Makes(<<2, 2, 1>>, 5) /\ Makes(<<2, 4, 2>>, 8)
  /\ Makes(<<4, 4, 4, 4>>, 16)
  /\ Makes(<<2, 2, 1, 4, 4, 1>>, 14) /\ Makes(<<2, 2, 1, 2, 4, 1>>, 12)
  /\ Makes(<<2, 2, 1, 8, 4, 1>>, 18) /\ Makes(<<2, 2, 1, 1, 4, 1>>, 11)
  /\ Makes(<<2, 2, 2, 8, 8, 4>>, 26) /\ Makes(<<2, 2, 1, 8, 8, 4, 1>>, 26)
  /\ Makes(<<2, 4, 42, 4, 18, 4, 2, 4, 4, 2, 2>>, 88)
  /\ Makes(<<4, 2, 2, 4, 2, 4, 4, 4, 4, 4, 4, 4, 2, 4, 4>>, 52)
<1>1. Makes(<<1>>, 1) /\ Makes(<<2>>, 2) /\ Makes(<<4>>, 4) /\ Makes(<<8>>, 8)
  BY MakesOne DEF Lengths
<1>2. Totals(<<4, 4>>, 2, <<8, 4, 0>>, 8)
  BY DEF Totals, Lengths
<1>3. Totals(<<4, 20>>, 2, <<24, 20, 0>>, 24)
  BY DEF Totals, Lengths
<1>4. Totals(<<2, 2, 1>>, 3, <<5, 3, 1, 0>>, 5)
  BY DEF Totals, Lengths
<1>5. Totals(<<2, 4, 2>>, 3, <<8, 6, 2, 0>>, 8)
  BY DEF Totals, Lengths
<1>6. Totals(<<4, 4, 4, 4>>, 4, <<16, 12, 8, 4, 0>>, 16)
  BY DEF Totals, Lengths
<1>7. Totals(<<2, 2, 1, 4, 4, 1>>, 6, <<14, 12, 10, 9, 5, 1, 0>>, 14)
  BY DEF Totals, Lengths
<1>8. Totals(<<2, 2, 1, 2, 4, 1>>, 6, <<12, 10, 8, 7, 5, 1, 0>>, 12)
  BY DEF Totals, Lengths
<1>9. Totals(<<2, 2, 1, 8, 4, 1>>, 6, <<18, 16, 14, 13, 5, 1, 0>>, 18)
  BY DEF Totals, Lengths
<1>10. Totals(<<2, 2, 1, 1, 4, 1>>, 6, <<11, 9, 7, 6, 5, 1, 0>>, 11)
  BY DEF Totals, Lengths
<1>11. Totals(<<2, 2, 2, 8, 8, 4>>, 6, <<26, 24, 22, 20, 12, 4, 0>>, 26)
  BY DEF Totals, Lengths
<1>12. Totals(<<2, 2, 1, 8, 8, 4, 1>>, 7, <<26, 24, 22, 21, 13, 5, 1, 0>>, 26)
  BY DEF Totals, Lengths
<1>13. Totals(<<2, 4, 42, 4, 18, 4, 2, 4, 4, 2, 2>>, 11, <<88, 86, 82, 40, 36, 18, 14, 12, 8, 4, 2, 0>>, 88)
  BY DEF Totals, Lengths
<1>14. Totals(<<4, 2, 2, 4, 2, 4, 4, 4, 4, 4, 4, 4, 2, 4, 4>>, 15, <<52, 48, 46, 44, 40, 38, 34, 30, 26, 22, 18, 14, 10, 8, 4, 0>>, 52)
  BY DEF Totals, Lengths
<1> QED BY <1>1, <1>2, <1>3, <1>4, <1>5, <1>6, <1>7, <1>8, <1>9, <1>10, <1>11, <1>12, <1>13,
           <1>14, MakesThese

LEMMA StringMakes ==
  ASSUME NEW n \in Nat
  PROVE  writestringlen(n) \in Nat /\ Makes(writestring(n), writestringlen(n))
<1>1. CASE n = 0
  BY <1>1, Made DEF writestring, writestringlen
<1>2. CASE n # 0
  <2>1. Makes(Times(n + 1, 2), (n + 1) * 2)
    BY MakesTimes DEF Lengths
  <2>2. Makes(<<1>> \o Times(n + 1, 2), 1 + (n + 1) * 2)
    BY <2>1, Made, MakesBoth
  <2> QED BY <1>2, <2>2 DEF writestring, writestringlen
<1> QED BY <1>1, <1>2

(* What a handler writes adds up to what it announced.                     *)
Agrees(d) ==
  /\ d.params \in {0, 1} /\ d.size \in Int
  /\ d.size >= 0 => Makes(d.writes, d.size)

LEMMA CommandIs ==
  ASSUME NEW c \in Commands
  PROVE  /\ c.list \in Nat /\ c.name \in Nat /\ c.created \in Nat /\ c.modified \in Nat
         /\ c.op # "none"
BY LengthsAssumption DEF Commands, Command, Plain, DateLengths

LEMMA NoDatasetAgrees ==
  ASSUME NEW n \in {0, 1}
  PROVE  Agrees(NoDataset(n))
BY DEF NoDataset, Agrees

LEMMA DatasetAgrees ==
  ASSUME NEW n \in Nat, NEW w, Makes(w, n)
  PROVE  Agrees(Dataset(n, w))
BY DEF Dataset, Agrees

LEMMA ListAgrees ==
  ASSUME NEW n \in Nat
  PROVE  Agrees(Dataset(4 + n * 4, <<4>> \o Times(n, 4)))
<1>1. Makes(Times(n, 4), n * 4) /\ 4 + n * 4 \in Nat
  BY MakesTimes DEF Lengths
<1>2. Makes(<<4>> \o Times(n, 4), 4 + n * 4)
  BY <1>1, Made, MakesBoth
<1> QED BY <1>1, <1>2, DatasetAgrees

LEMMA ObjectInfoAgrees ==
  ASSUME NEW c \in Commands
  PROVE  Agrees(GetObjectInfo(c))
<1> DEFINE first == <<4, 2, 2, 4, 2, 4, 4, 4, 4, 4, 4, 4, 2, 4, 4>>
           a == writestring(c.name)
           b == writestring(c.created)
           d == writestring(c.modified)
           e == writestring(0)
           la == writestringlen(c.name)
           lb == writestringlen(c.created)
           ld == writestringlen(c.modified)
           le == writestringlen(0)
<1>1. la \in Nat /\ lb \in Nat /\ ld \in Nat /\ le \in Nat
  BY CommandIs, StringMakes
<1>2. Makes(first, 52) /\ Makes(a, la) /\ Makes(b, lb) /\ Makes(d, ld) /\ Makes(e, le)
  BY CommandIs, StringMakes, Made
<1> DEFINE w == first \o a \o b \o d \o e
<1>3. GetObjectInfo(c) = Dataset(52 + la + lb + ld + le, w)
  BY <1>1 DEF GetObjectInfo
<1> HIDE DEF first, a, b, d, e, la, lb, ld, le
<1>4. Makes(first \o a, 52 + la)
  BY <1>2, MakesBoth
<1>5. Makes(first \o a \o b, 52 + la + lb)
  BY <1>2, <1>4, MakesBoth
<1>6. Makes(first \o a \o b \o d, 52 + la + lb + ld)
  BY <1>2, <1>5, MakesBoth
<1>7. Makes(w, 52 + la + lb + ld + le)
  BY <1>2, <1>6, MakesBoth
<1> HIDE DEF w
<1> QED BY <1>1, <1>3, <1>7, DatasetAgrees

LEMMA StorageInfoAgrees ==
  ASSUME NEW c \in Commands
  PROVE  Agrees(GetStorageInfo(c))
<1> DEFINE first == <<2, 2, 2, 8, 8, 4>>
           a == writestring(c.name)
           e == writestring(0)
           la == writestringlen(c.name)
           le == writestringlen(0)
<1>1. la \in Nat /\ le \in Nat
  BY CommandIs, StringMakes
<1>2. Makes(first, 26) /\ Makes(a, la) /\ Makes(e, le)
  BY CommandIs, StringMakes, Made
<1> DEFINE w == first \o a \o e
<1>3. GetStorageInfo(c) = IF c.list = 0 THEN NoDataset(0) ELSE Dataset(26 + la + le, w)
  BY <1>1 DEF GetStorageInfo
<1> HIDE DEF first, a, e, la, le
<1>4. Makes(first \o a, 26 + la)
  BY <1>2, MakesBoth
<1>5. Makes(w, 26 + la + le)
  BY <1>2, <1>4, MakesBoth
<1> HIDE DEF w
<1> QED BY <1>1, <1>3, <1>5, DatasetAgrees, NoDatasetAgrees

LEMMA DeviceInfoAgrees == Agrees(GetDeviceInfo)
<1> DEFINE first == <<2, 4, 2>>
           second == <<2, 4, 42, 4, 18, 4, 2, 4, 4, 2, 2>>
           a == writestring(19)
           b == writestring(MTP_MANUF)
           d == writestring(MTP_MODEL)
           e == writestring(Version)
           f == writestring(SerialNumber)
           la == writestringlen(19)
           lb == writestringlen(MTP_MANUF)
           ld == writestringlen(MTP_MODEL)
           le == writestringlen(Version)
           lf == writestringlen(SerialNumber)
<1>1. la \in Nat /\ lb \in Nat /\ ld \in Nat /\ le \in Nat /\ lf \in Nat
  BY StringMakes DEF MTP_MANUF, MTP_MODEL, Version, SerialNumber
<1>2. /\ Makes(first, 8) /\ Makes(a, la) /\ Makes(second, 88) /\ Makes(b, lb) /\ Makes(d, ld)
      /\ Makes(e, le) /\ Makes(f, lf)
  BY StringMakes, Made DEF MTP_MANUF, MTP_MODEL, Version, SerialNumber
<1> DEFINE w == first \o a \o second \o b \o d \o e \o f
<1>3. GetDeviceInfo = Dataset(8 + la + 88 + lb + ld + le + lf, w)
  BY <1>1 DEF GetDeviceInfo
<1> HIDE DEF first, second, a, b, d, e, f, la, lb, ld, le, lf
<1>4. Makes(first \o a, 8 + la)
  BY <1>2, MakesBoth
<1>5. Makes(first \o a \o second, 8 + la + 88)
  BY <1>2, <1>4, MakesBoth
<1>6. Makes(first \o a \o second \o b, 8 + la + 88 + lb)
  BY <1>2, <1>5, MakesBoth
<1>7. Makes(first \o a \o second \o b \o d, 8 + la + 88 + lb + ld)
  BY <1>2, <1>6, MakesBoth
<1>8. Makes(first \o a \o second \o b \o d \o e, 8 + la + 88 + lb + ld + le)
  BY <1>2, <1>7, MakesBoth
<1>9. Makes(w, 8 + la + 88 + lb + ld + le + lf)
  BY <1>2, <1>8, MakesBoth
<1> HIDE DEF w
<1> QED BY <1>1, <1>3, <1>9, DatasetAgrees

LEMMA PropertiesAgree ==
  ASSUME NEW c \in Commands
  PROVE  /\ Agrees(GetDevicePropValue(c)) /\ Agrees(GetDevicePropDesc(c))
         /\ Agrees(GetObjectPropDesc(c)) /\ Agrees(GetObjectPropValue(c))
         /\ Agrees(GetObjectPropsSupported)
<1> DEFINE a == writestring(MTP_NAME)
           la == writestringlen(MTP_NAME)
<1>1. la \in Nat /\ Makes(a, la)
  BY StringMakes DEF MTP_NAME
<1>2. Agrees(Dataset(0, <<>>))
  BY MakesNone, DatasetAgrees
<1>3. Agrees(Dataset(la, a))
  BY <1>1, DatasetAgrees
<1>4. Agrees(GetDevicePropValue(c))
  <2> HIDE DEF a, la
  <2>1. GetDevicePropValue(c) \in {Dataset(la, a), Dataset(0, <<>>)}
    BY DEF GetDevicePropValue, a, la
  <2> QED BY <1>2, <1>3, <2>1
<1>5. Agrees(GetDevicePropDesc(c))
  <2> DEFINE first == <<2, 2, 1>>
             last == <<1>>
             w == first \o a \o a \o last
  <2>1. GetDevicePropDesc(c) \in {Dataset(5 + la * 2 + 1, w), Dataset(0, <<>>)}
    BY DEF GetDevicePropDesc
  <2> HIDE DEF a, la
  <2>2. Makes(first, 5) /\ Makes(last, 1)
    BY Made
  <2> HIDE DEF first, last
  <2>3. Makes(first \o a, 5 + la)
    BY <1>1, <2>2, MakesBoth
  <2>4. Makes(first \o a \o a, 5 + la + la)
    BY <1>1, <2>3, MakesBoth
  <2>5. Makes(w, 5 + la + la + 1)
    BY <2>2, <2>4, MakesBoth
  <2> HIDE DEF w
  <2>6. 5 + la * 2 + 1 = 5 + la + la + 1 /\ 5 + la * 2 + 1 \in Nat
    BY <1>1
  <2>7. Agrees(Dataset(5 + la * 2 + 1, w))
    BY <2>5, <2>6, DatasetAgrees
  <2> QED BY <1>2, <2>1, <2>7
<1>6. Agrees(GetObjectPropDesc(c))
  <2>1. GetObjectPropDesc(c) \in
          {Dataset(14, <<2, 2, 1, 4, 4, 1>>), Dataset(12, <<2, 2, 1, 2, 4, 1>>),
           Dataset(18, <<2, 2, 1, 8, 4, 1>>), Dataset(11, <<2, 2, 1, 1, 4, 1>>),
           Dataset(26, <<2, 2, 1, 8, 8, 4, 1>>), Dataset(0, <<>>)}
    BY DEF GetObjectPropDesc
  <2> QED BY <1>2, <2>1, Made, DatasetAgrees
<1>7. Agrees(GetObjectPropValue(c))
  <2>1. GetObjectPropValue(c) \in
          {Dataset(4, <<4>>), Dataset(2, <<2>>), Dataset(8, <<4, 4>>), Dataset(16, <<4, 4, 4, 4>>),
           Dataset(0, <<>>), Dataset(writestringlen(c.name), writestring(c.name)),
           Dataset(writestringlen(c.created), writestring(c.created)),
           Dataset(writestringlen(c.modified), writestring(c.modified))}
    BY DEF GetObjectPropValue
  <2>2. ASSUME NEW n \in Nat
        PROVE  Agrees(Dataset(writestringlen(n), writestring(n)))
    BY StringMakes, DatasetAgrees
  <2> QED BY <1>2, <2>1, <2>2, Made, DatasetAgrees, CommandIs
<1>8. Agrees(GetObjectPropsSupported)
  BY Made, DatasetAgrees DEF GetObjectPropsSupported
<1> QED BY <1>4, <1>5, <1>6, <1>7, <1>8

LEMMA HandledAgrees ==
  ASSUME NEW c \in Commands
  PROVE  Agrees(Handled(c))
<1>1. Agrees(NoDataset(0)) /\ Agrees(NoDataset(1))
  BY NoDatasetAgrees
<1>2. Agrees(GetObjectHandles(c))
  <2>1. Agrees(Dataset(4, <<4>>))
    BY Made, DatasetAgrees
  <2> QED BY <2>1, CommandIs, ListAgrees DEF GetObjectHandles
<1>3. Agrees(GetNumObjects(c))
  BY <1>1 DEF GetNumObjects
<1>4. Agrees(GetStorageIDs(c))
  BY CommandIs, ListAgrees DEF GetStorageIDs
<1>5. Answered(c) \in
        {GetDeviceInfo, GetObjectPropsSupported, GetObjectInfo(c), GetObjectHandles(c),
         GetNumObjects(c), GetStorageIDs(c), GetStorageInfo(c), GetDevicePropValue(c),
         GetDevicePropDesc(c), GetObjectPropDesc(c), GetObjectPropValue(c), NoDataset(0)}
  BY DEF Answered
<1>6. Agrees(Answered(c))
  BY <1>1, <1>2, <1>3, <1>4, <1>5, ObjectInfoAgrees, StorageInfoAgrees, DeviceInfoAgrees,
     PropertiesAgree
<1> QED BY <1>1, <1>6 DEF Handled

-----------------------------------------------------------------------------
(* What the host got, as operators of its packets s, of the number k of    *)
(* its command and of the length t announced.                              *)

Datum(p, k) == p.parts = {<<"data", k>>} \/ p = NoBuffer
Full(s, n, k) == \A i \in 1 .. n : s[i].len = Packet /\ Datum(s[i], k)
Came(s, n, k, t) ==
  IF t = 0 THEN n = 0
  ELSE /\ n > 0 /\ Full(s, n - 1, k) /\ Datum(s[n], k) /\ s[n].len < Packet
       /\ Packet * (n - 1) + s[n].len = t
Responds(s, k) == s # <<>> /\ <<"response", k>> \in s[Len(s)].parts
IsAnswer(s, k, t) ==
  \/ Len(s) = 1 /\ t = HeaderSize
  \/ s[Len(s)].parts = {<<"response", k>>} /\ Came(s, Len(s) - 1, k, t)

LEMMA OneMore ==
  ASSUME NEW s \in Seq(Packets), NEW p \in Packets, NEW r, r = Append(s, p),
         NEW k, NEW t \in Nat
  PROVE  /\ r \in Seq(Packets) /\ Len(r) = Len(s) + 1 /\ Len(s) \in Nat /\ r # <<>> /\ r[Len(r)] = p
         /\ Full(s, Len(s), k) /\ p.len = Packet /\ Datum(p, k) => Full(r, Len(r), k)
         /\ Full(s, Len(s), k) /\ p.len < Packet /\ Datum(p, k) /\ t > 0 /\ t = Packet * Len(s) + p.len
            => Came(r, Len(r), k, t)
         /\ Came(s, Len(s), k, t) => Came(r, Len(r) - 1, k, t)
<1>1. PICK n \in Nat : n = Len(s)
  OBVIOUS
<1>2. /\ r \in Seq(Packets) /\ Len(r) = n + 1 /\ r # <<>> /\ r[n + 1] = p
      /\ \A i \in 1 .. n : r[i] = s[i]
  BY <1>1
<1>3. Full(s, n, k) => Full(r, n, k)
  BY <1>2 DEF Full
<1>4. Full(s, n, k) /\ p.len = Packet /\ Datum(p, k) => Full(r, n + 1, k)
  BY <1>2 DEF Full
<1>5. Full(s, n, k) /\ p.len < Packet /\ Datum(p, k) /\ t > 0 /\ t = Packet * n + p.len
        => Came(r, n + 1, k, t)
  BY <1>2, <1>3 DEF Came
<1>6. ASSUME Came(s, n, k, t) PROVE Came(r, n, k, t)
  <2>1. CASE t = 0
    BY <1>6, <2>1 DEF Came
  <2>2. CASE t # 0
    <3>1. n > 0 /\ Full(s, n - 1, k) /\ n \in 1 .. n
      BY <1>6, <2>2 DEF Came
    <3>2. Full(r, n - 1, k)
      BY <1>2, <3>1 DEF Full
    <3> QED BY <1>2, <1>6, <2>2, <3>1, <3>2 DEF Came
  <2> QED BY <2>1, <2>2
<1>7. Len(r) - 1 = n /\ r[Len(r)] = p /\ Len(s) \in Nat /\ Len(r) = Len(s) + 1
  BY <1>1, <1>2
<1>8. Full(s, Len(s), k) /\ p.len = Packet /\ Datum(p, k) => Full(r, Len(r), k)
  BY <1>1, <1>4, <1>7
<1>9. ASSUME Full(s, Len(s), k), p.len < Packet, Datum(p, k), t > 0, t = Packet * Len(s) + p.len
      PROVE  Came(r, Len(r), k, t)
  <2>1. Full(s, n, k) /\ t = Packet * n + p.len
    BY <1>1, <1>9
  <2>2. Came(r, n + 1, k, t)
    BY <1>5, <1>9, <2>1
  <2> QED BY <1>1, <1>7, <2>2
<1>10. Came(s, Len(s), k, t) => Came(r, Len(r) - 1, k, t)
  BY <1>1, <1>6, <1>7
<1> QED BY <1>2, <1>7, <1>8, <1>9, <1>10

LEMMA NoResponseYet ==
  ASSUME NEW s \in Seq(Packets), NEW k, NEW t \in Nat,
         Full(s, Len(s), k) \/ Came(s, Len(s), k, t)
  PROVE  ~Responds(s, k)
<1>1. SUFFICES ASSUME s # <<>>, <<"response", k>> \in s[Len(s)].parts PROVE FALSE
  BY DEF Responds
<1>2. Len(s) \in Nat \ {0} /\ Len(s) \in 1 .. Len(s)
  BY <1>1
<1>3. Datum(s[Len(s)], k)
  BY <1>2 DEF Full, Came
<1> QED BY <1>1, <1>3 DEF Datum, NoBuffer

LEMMA NotYetCame ==
  ASSUME PacketAssumption, NEW s \in Seq(Packets), NEW k, NEW t \in Nat, t > 0, Full(s, Len(s), k)
  PROVE  ~Came(s, Len(s), k, t)
<1>1. Packet \in Nat /\ Len(s) \in Nat
  BY DEF PacketAssumption
<1> QED BY <1>1 DEF Full, Came

(* The phase and what is left, of a host that asked a with number k.       *)
PhaseAt(a, g, t, s, k) ==
  IF a = NoAsk THEN "idle"
  ELSE IF g THEN "cancelled"
  ELSE IF t = Untaken THEN "asked"
  ELSE IF Responds(s, k) THEN IF IsAnswer(s, k, t) THEN "answered" ELSE "garbled"
  ELSE IF Came(s, Len(s), k, t) THEN "response"
  ELSE IF Full(s, Len(s), k) THEN "data" ELSE "garbled"
LeftAt(a, g, t, s, k) ==
  IF PhaseAt(a, g, t, s, k) = "data" THEN t - Packet * Len(s) ELSE 0

LEMMA PhaseIs == Phase = PhaseAt(ask, gone, announced, in, asks)
<1>1. \A n : FullData(n) <=> Full(in, n, asks)
  BY DEF FullData, Full, OfData, Datum, Part
<1>2. \A n : DataCame(n) <=> Came(in, n, asks, announced)
  BY <1>1 DEF DataCame, Came, LastData, OfData, Datum, Part
<1>3. HasResponse <=> Responds(in, asks)
  BY DEF HasResponse, IsResponse, Responds, Part, Last
<1>4. Joined \/ (Alone(Last(in)) /\ DataCame(Len(in) - 1)) <=> IsAnswer(in, asks, announced)
  BY <1>2 DEF Joined, Alone, IsAnswer, Part, Last
<1> QED BY <1>1, <1>2, <1>3, <1>4 DEF Phase, PhaseAt

LEMMA LeftIs == Left = LeftAt(ask, gone, announced, in, asks)
BY PhaseIs DEF Left, LeftAt

-----------------------------------------------------------------------------
(* The invariant.                                                          *)

Type ==
  /\ ask \in Commands \cup {NoAsk} /\ gone \in BOOLEAN /\ asks \in Nat
  /\ status \in {OK, Cancelled} /\ looping \in BOOLEAN
  /\ pc \in {"idle", "write", "respond", "finish", "reset"}
  /\ announced \in Nat \cup {Untaken} /\ fields \in Seq(Lengths)
  /\ tx \in Packets /\ tx.len < Packet
  /\ open \in BOOLEAN
  /\ in \in Seq(Packets)

(* Where the device may be while the host waits, has cancelled or rests.   *)
WhoInv ==
  /\ ask = NoAsk => ~gone /\ in = <<>> /\ pc \in {"idle", "reset"}
  /\ announced = Untaken => in = <<>> /\ pc \in {"idle", "reset"}
  /\ gone => in = <<>>
  /\ gone /\ status = OK => pc = "idle"
  /\ ~gone => status = OK
  /\ ~looping => pc \in {"idle", "write", "respond"}

(* What is in transmit_buffer: parts of this command's answer only, and    *)
(* nothing between two commands.                                           *)
HeaderOnly == [len |-> HeaderSize, parts |-> {Part("data")}]
Mixed == [len |-> HeaderSize + HeaderSize, parts |-> {Part("data"), Part("response")}]

BufferInv ==
  /\ pc \in {"idle", "reset"} => tx = NoBuffer
  /\ pc = "write" => tx.parts = IF tx.len = 0 THEN {} ELSE {Part("data")}
  /\ pc = "respond" => tx = NoBuffer \/ (tx = HeaderOnly /\ Unfinished(ask) /\ ~gone)
  /\ pc = "finish" => tx = Mixed \/ (Alone(tx) /\ tx.len \in {HeaderSize, HeaderSize + 4})

(* How far the answer is that the host gets.                               *)
Taken == ask # NoAsk /\ ~gone /\ announced # Untaken
Header == in = <<>> /\ announced = HeaderSize

FlowInv ==
  Taken =>
    /\ pc = "write" =>
         /\ announced > 0 /\ Full(in, Len(in), asks)
         /\ tx = NoBuffer => open
         /\ Makes(fields, announced - Packet * Len(in) - tx.len)
    /\ pc = "respond" => \/ tx = NoBuffer /\ Came(in, Len(in), asks, announced)
                         \/ tx = HeaderOnly /\ Header
    /\ pc = "finish" => \/ Alone(tx) /\ Came(in, Len(in), asks, announced)
                        \/ tx = Mixed /\ Header
    /\ pc \in {"idle", "reset"} =>
         Responds(in, asks) /\ IsAnswer(in, asks, announced)

DatasetsInv == Type /\ WhoInv /\ BufferInv /\ FlowInv

-----------------------------------------------------------------------------
(* What the bulk functions do.                                             *)

LEMMA Consts ==
  /\ Packet \in Nat /\ Packet >= 64 /\ HeaderSize = 12 /\ Untaken = -1 /\ OK # Cancelled
  /\ NoBuffer \in Packets /\ NoBuffer.len = 0 /\ NoBuffer.parts = {}
  /\ NoAsk \notin Commands
BY PacketAssumption, CommandIs DEF HeaderSize, Untaken, OK, Cancelled, NoBuffer, Packets, NoAsk, Plain,
   Command

LEMMA PartIs ==
  ASSUME Type, NEW kind \in {"data", "response"}
  PROVE  {Part(kind)} \in SUBSET ({"data", "response"} \X Nat)
BY DEF Type, Part

LEMMA EmptyIs ==
  ASSUME NEW p \in Packets, p.len = 0, p.parts = {}
  PROVE  p = NoBuffer
BY DEF Packets, NoBuffer

LEMMA TransmitIs ==
  ASSUME Type, NEW p \in Packets, Transmit(<<p>>)
  PROVE  tx' = NoBuffer /\ (IF status = OK THEN in' = Append(in, p) ELSE in' = in)
         /\ open' \in BOOLEAN
<1>1. in \o <<p>> = Append(in, p)
  BY DEF Type
<1> QED BY <1>1 DEF Transmit, Sent, Type

LEMMA FinishIs ==
  ASSUME Type, WriteFinish
  PROVE  /\ tx' = NoBuffer /\ open' \in BOOLEAN
         /\ IF status = OK /\ (tx # NoBuffer \/ open) THEN in' = Append(in, tx) ELSE in' = in
<1>1. CASE tx = NoBuffer /\ ~open
  BY <1>1 DEF WriteFinish, transmitter, Type
<1>2. CASE ~(tx = NoBuffer /\ ~open)
  <2>1. Transmit(<<tx>>)
    BY <1>2 DEF WriteFinish
  <2> QED BY <1>2, <2>1, TransmitIs DEF Type
<1> QED BY <1>1, <1>2

LEMMA QuotientIs ==
  ASSUME NEW m \in Nat, NEW n \in Nat \ {0}, m < n + n
  PROVE  /\ m < n => m \div n = 0 /\ m % n = m
         /\ m >= n => m \div n = 1 /\ m % n = m - n
<1>1. CASE m < n
  BY <1>1
<1>2. CASE m >= n
  <2>1. m - n \in 0 .. n - 1 /\ m = 1 * n + (m - n)
    BY <1>2
  <2> QED BY <2>1, DivUnique
<1> QED BY <1>1, <1>2

(* A few bytes: behind what is there, or one packet is full.               *)
LEMMA WriteIs ==
  ASSUME Type, NEW kind \in {"data", "response"}, NEW n \in Lengths, Write(kind, n),
         NEW filled, filled = [len |-> Packet, parts |-> tx.parts \cup {Part(kind)}],
         NEW rest, rest = tx.len + n - Packet
  PROVE  IF rest < 0
         THEN /\ tx' = [len |-> tx.len + n, parts |-> tx.parts \cup {Part(kind)}]
              /\ in' = in /\ open' = open
         ELSE /\ tx' = IF rest = 0 THEN NoBuffer ELSE [len |-> rest, parts |-> {Part(kind)}]
              /\ filled \in Packets
              /\ IF status = OK THEN in' = Append(in, filled) /\ open' = TRUE
                 ELSE in' = in /\ open' = open
<1>1. /\ tx.len \in Nat /\ n \in Nat /\ tx.len < Packet /\ n <= Packet /\ Packet \in Nat
      /\ Packet > 0 /\ tx.len + n \in Nat /\ rest \in Int
  <2>1. tx.len \in 0 .. Packet /\ tx.len < Packet
    BY DEF Type, Packets
  <2>2. n \in Nat /\ n <= 64
    BY DEF Lengths
  <2> QED BY <2>1, <2>2, Consts
<1>2. filled \in Packets
  BY PartIs, <1>1 DEF Type, Packets
<1>3. PICK m \in Nat : m = tx.len + n
  BY <1>1
<1>4. CASE rest < 0
  <2>1. m < Packet /\ m < Packet + Packet /\ Packet \in Nat \ {0}
    BY <1>1, <1>3, <1>4
  <2>2. m \div Packet = 0
    BY <2>1, QuotientIs
  <2> QED BY <1>3, <1>4, <2>2 DEF Write
<1>5. CASE rest >= 0
  <2>1. m >= Packet /\ m < Packet + Packet /\ Packet \in Nat \ {0} /\ rest = m - Packet
    BY <1>1, <1>3, <1>5
  <2>2. m \div Packet = 1 /\ m % Packet = rest
    BY <2>1, QuotientIs
  <2> DEFINE sent == [i \in 1 .. m \div Packet |-> [len |-> Packet,
                        parts |-> IF i = 1 THEN tx.parts \cup {Part(kind)} ELSE {Part(kind)}]]
  <2>3. /\ tx' = IF rest = 0 THEN NoBuffer ELSE [len |-> rest, parts |-> {Part(kind)}]
        /\ Sent(sent)
    BY <1>3, <2>2 DEF Write
  <2>4. sent = <<filled>>
    <3>1. DOMAIN sent = 1 .. 1 /\ sent[1] = filled
      BY <2>2
    <3>2. sent = [i \in 1 .. 1 |-> sent[i]]
      BY <2>2
    <3> HIDE DEF sent
    <3>3. sent = [i \in 1 .. 1 |-> filled]
      BY <3>1, <3>2
    <3> QED BY <3>3
  <2>5. Sent(<<filled>>)
    BY <2>3, <2>4
  <2>6. in \o <<filled>> = Append(in, filled)
    BY <1>2 DEF Type
  <2>7. Packet % Packet = 0
    BY <1>1
  <2>8. IF status = OK THEN in' = Append(in, filled) /\ open' = TRUE ELSE in' = in /\ open' = open
    <3>1. Last(<<filled>>) = filled
      BY DEF Last
    <3>2. filled.len = Packet
      OBVIOUS
    <3> QED BY <1>1, <2>5, <2>6, <2>7, <3>1, <3>2 DEF Sent
  <2> QED BY <1>1, <1>2, <1>5, <2>3, <2>8
<1>6. rest < 0 \/ rest >= 0
  BY <1>1
<1> QED BY <1>4, <1>5, <1>6

-----------------------------------------------------------------------------
(* What the state says of the phase, and so the next state of the next.    *)

PhaseFacts ==
  /\ ask = NoAsk => Phase = "idle" /\ Left = 0
  /\ ask # NoAsk /\ gone => Phase = "cancelled" /\ Left = 0
  /\ ask # NoAsk /\ ~gone /\ announced = Untaken => Phase = "asked" /\ Left = 0
  /\ Taken /\ announced \in Nat /\ in \in Seq(Packets) =>
       /\ announced > 0 /\ Full(in, Len(in), asks) =>
            Phase = "data" /\ Left = announced - Packet * Len(in)
       /\ Came(in, Len(in), asks, announced) => Phase = "response" /\ Left = 0
       /\ Responds(in, asks) /\ IsAnswer(in, asks, announced) => Phase = "answered" /\ Left = 0

LEMMA PhaseWhen == PhaseFacts
<1> USE PhaseIs, LeftIs
<1>1. /\ ask = NoAsk => Phase = "idle" /\ Left = 0
      /\ ask # NoAsk /\ gone => Phase = "cancelled" /\ Left = 0
      /\ ask # NoAsk /\ ~gone /\ announced = Untaken => Phase = "asked" /\ Left = 0
  BY DEF PhaseAt, LeftAt
<1>2. ASSUME Taken, announced \in Nat, in \in Seq(Packets)
      PROVE  /\ announced > 0 /\ Full(in, Len(in), asks) =>
                  Phase = "data" /\ Left = announced - Packet * Len(in)
             /\ Came(in, Len(in), asks, announced) => Phase = "response" /\ Left = 0
             /\ Responds(in, asks) /\ IsAnswer(in, asks, announced) => Phase = "answered" /\ Left = 0
  <2>1. ask # NoAsk /\ ~gone /\ announced # Untaken
    BY <1>2 DEF Taken
  <2>2. ASSUME announced > 0, Full(in, Len(in), asks)
        PROVE  Phase = "data" /\ Left = announced - Packet * Len(in)
    <3>1. ~Responds(in, asks)
      BY <1>2, <2>2, NoResponseYet
    <3>2. ~Came(in, Len(in), asks, announced)
      BY <1>2, <2>2, NotYetCame, PacketAssumption
    <3> QED BY <2>1, <2>2, <3>1, <3>2 DEF PhaseAt, LeftAt
  <2>3. ASSUME Came(in, Len(in), asks, announced)
        PROVE  Phase = "response" /\ Left = 0
    <3>1. ~Responds(in, asks)
      BY <1>2, <2>3, NoResponseYet
    <3> QED BY <2>1, <2>3, <3>1 DEF PhaseAt, LeftAt
  <2>4. ASSUME Responds(in, asks), IsAnswer(in, asks, announced)
        PROVE  Phase = "answered" /\ Left = 0
    BY <2>1, <2>4 DEF PhaseAt, LeftAt
  <2> QED BY <2>2, <2>3, <2>4
<1> QED BY <1>1, <1>2 DEF PhaseFacts

LEMMA PhaseThen == PhaseFacts'
BY PhaseWhen, PTL

LEMMA EmptyIn ==
  ASSUME NEW s, s = <<>>
  PROVE  s \in Seq(Packets) /\ Len(s) = 0 /\ Packet * Len(s) = 0
<1>1. s \in Seq(Packets) /\ Len(s) = 0
  OBVIOUS
<1> QED BY <1>1, Consts

(* Where the device is says what the host has.                             *)
LEMMA PhaseNow ==
  ASSUME DatasetsInv
  PROVE  /\ ask = NoAsk => Phase = "idle" /\ Left = 0
         /\ ask # NoAsk /\ gone => Phase = "cancelled" /\ Left = 0
         /\ ask # NoAsk /\ ~gone /\ announced = Untaken => Phase = "asked" /\ Left = 0
         /\ Taken /\ pc = "write" => Phase = "data" /\ Left = announced - Packet * Len(in)
         /\ Taken /\ Header => Phase = "data" /\ Left = HeaderSize
         /\ Taken /\ Came(in, Len(in), asks, announced) => Phase = "response" /\ Left = 0
         /\ Taken /\ pc \in {"idle", "reset"} => Phase = "answered" /\ Left = 0
<1>1. in \in Seq(Packets) /\ (announced # Untaken => announced \in Nat)
  BY DEF DatasetsInv, Type
<1>2. ASSUME Taken
      PROVE  announced \in Nat
  BY <1>1, <1>2 DEF Taken
<1>3. ASSUME Taken, pc = "write"
      PROVE  announced > 0 /\ Full(in, Len(in), asks)
  BY <1>3 DEF DatasetsInv, FlowInv
<1>4. ASSUME Header
      PROVE  announced > 0 /\ Full(in, Len(in), asks) /\ announced - Packet * Len(in) = HeaderSize
  <2>1. in = <<>> /\ announced = HeaderSize /\ HeaderSize = 12
    BY <1>4, Consts DEF Header
  <2>2. Packet * Len(in) = 0 /\ Len(in) = 0
    BY <2>1, EmptyIn
  <2> QED BY <2>1, <2>2 DEF Full
<1>5. ASSUME Taken, pc \in {"idle", "reset"}
      PROVE  Responds(in, asks) /\ IsAnswer(in, asks, announced)
  BY <1>5 DEF DatasetsInv, FlowInv
<1> QED BY <1>1, <1>2, <1>3, <1>4, <1>5, PhaseWhen DEF PhaseFacts

Moves == Phases!Next \/ UNCHANGED <<Phase, Left>>

(* A step that the host does not see.                                      *)
LEMMA Unseen ==
  ASSUME ask' = ask, gone' = gone, announced' = announced, in' = in, asks' = asks
  PROVE  Moves
<1>1. /\ (Phase = PhaseAt(ask, gone, announced, in, asks))'
      /\ (Left = LeftAt(ask, gone, announced, in, asks))'
  BY PhaseIs, LeftIs, PTL
<1>2. /\ Phase' = PhaseAt(ask', gone', announced', in', asks')
      /\ Left' = LeftAt(ask', gone', announced', in', asks')
  BY <1>1
<1> QED BY <1>2, PhaseIs, LeftIs DEF Moves

-----------------------------------------------------------------------------
(* Each step keeps the invariant and is one of DataPhase's, or none.       *)

LEMMA AskStep == DatasetsInv /\ HostAsks => DatasetsInv' /\ Moves
<1> SUFFICES ASSUME DatasetsInv, HostAsks PROVE DatasetsInv' /\ Moves
  OBVIOUS
<1> USE DEF HostAsks, transmitter
<1>1. /\ ask = NoAsk /\ ask' \in Commands /\ ask' # NoAsk /\ announced' = Untaken /\ ~gone'
      /\ in = <<>> /\ pc \in {"idle", "reset"}
  BY Consts DEF DatasetsInv, WhoInv
<1>2. Type'
  BY <1>1 DEF DatasetsInv, Type
<1>3. WhoInv'
  BY <1>1 DEF DatasetsInv, WhoInv
<1>4. BufferInv'
  BY <1>1 DEF DatasetsInv, BufferInv
<1>5. FlowInv'
  BY <1>1 DEF FlowInv, Taken
<1>6. Phase = "idle" /\ Left = 0
  BY <1>1, PhaseNow
<1>7. Phase' = "asked" /\ Left' = 0
  BY <1>1, PhaseThen DEF PhaseFacts
<1>8. Moves
  BY <1>6, <1>7 DEF Moves, Phases!Next, Phases!Ask
<1> QED BY <1>2, <1>3, <1>4, <1>5, <1>8 DEF DatasetsInv

LEMMA CancelStep == DatasetsInv /\ HostCancels => DatasetsInv' /\ Moves
<1> SUFFICES ASSUME DatasetsInv, HostCancels PROVE DatasetsInv' /\ Moves
  OBVIOUS
<1> USE DEF HostCancels, device
<1>1. ask # NoAsk /\ ~gone /\ gone' = TRUE /\ in' = <<>> /\ status' = Cancelled /\ ~Unfinished(ask)
  OBVIOUS
<1>2. Type'
  BY <1>1 DEF DatasetsInv, Type
<1>3. WhoInv'
  BY <1>1, Consts DEF DatasetsInv, WhoInv
<1>4. BufferInv'
  <2>1. pc = "respond" => tx = NoBuffer
    BY <1>1 DEF DatasetsInv, BufferInv
  <2> QED BY <1>1, <2>1 DEF DatasetsInv, BufferInv, Part, Alone, Mixed, HeaderOnly
<1>5. FlowInv'
  BY <1>1 DEF FlowInv, Taken
<1>6. Phase \in {"asked", "data", "response", "answered"}
  <2>1. CASE announced = Untaken
    BY <1>1, <2>1, PhaseNow
  <2>2. CASE announced # Untaken
    <3>1. Taken /\ pc \in {"idle", "write", "respond", "finish", "reset"}
      BY <1>1, <2>2 DEF Taken, DatasetsInv, Type
    <3> QED BY <3>1, PhaseNow DEF DatasetsInv, FlowInv
  <2> QED BY <2>1, <2>2
<1>7. Phase' = "cancelled" /\ Left' = 0
  BY <1>1, PhaseThen DEF PhaseFacts
<1>8. Moves
  BY <1>6, <1>7 DEF Moves, Phases!Next, Phases!Cancel
<1> QED BY <1>2, <1>3, <1>4, <1>5, <1>8 DEF DatasetsInv

LEMMA DoneStep == DatasetsInv /\ HostDone => DatasetsInv' /\ Moves
<1> SUFFICES ASSUME DatasetsInv, HostDone PROVE DatasetsInv' /\ Moves
  OBVIOUS
<1> USE DEF HostDone, device
<1>1. ask # NoAsk /\ ask' = NoAsk /\ gone' = FALSE /\ in' = <<>>
  OBVIOUS
<1>2. status = OK
  BY DEF DatasetsInv, WhoInv
<1>3. ASSUME ~gone
      PROVE  Taken /\ pc \in {"idle", "reset"}
  <2>1. Responds(in, asks)
    BY <1>3 DEF HasResponse, IsResponse, Responds, Part, Last
  <2>2. Taken /\ announced \in Nat /\ in \in Seq(Packets)
    BY <1>1, <1>3, <2>1 DEF Taken, DatasetsInv, WhoInv, Type, Responds
  <2>3. ~Full(in, Len(in), asks) /\ ~Came(in, Len(in), asks, announced) /\ ~Header
    BY <2>1, <2>2, NoResponseYet DEF Header, Responds
  <2> QED BY <2>2, <2>3 DEF DatasetsInv, FlowInv, Type
<1>4. pc \in {"idle", "reset"}
  BY <1>2, <1>3 DEF DatasetsInv, WhoInv, Type
<1>5. Type'
  <2>1. in' \in Seq(Packets) /\ ask' \in Commands \cup {NoAsk} /\ gone' \in BOOLEAN
    BY <1>1, EmptyIn
  <2> QED BY <2>1 DEF DatasetsInv, Type
<1>6. WhoInv'
  BY <1>1, <1>2, <1>4 DEF DatasetsInv, WhoInv
<1>7. BufferInv'
  BY <1>4 DEF DatasetsInv, BufferInv
<1>8. FlowInv'
  BY <1>1 DEF FlowInv, Taken
<1>9. Phase \in {"cancelled", "answered"} /\ Left = 0
  BY <1>1, <1>3, PhaseNow DEF DatasetsInv, Type
<1>10. Phase' = "idle" /\ Left' = 0
  BY <1>1, PhaseThen DEF PhaseFacts
<1>11. Moves
  BY <1>9, <1>10 DEF Moves, Phases!Next, Phases!Done
<1> QED BY <1>5, <1>6, <1>7, <1>8, <1>11 DEF DatasetsInv

LEMMA StartStep == DatasetsInv /\ StartLoop => DatasetsInv' /\ Moves
<1> SUFFICES ASSUME DatasetsInv, StartLoop PROVE DatasetsInv' /\ Moves
  OBVIOUS
<1> USE DEF StartLoop, host, transmitter
<1>1. Type' /\ WhoInv'
  BY DEF DatasetsInv, Type, WhoInv
<1>2. BufferInv' /\ FlowInv'
  BY DEF DatasetsInv, BufferInv, FlowInv, Taken
<1> QED BY <1>1, <1>2, Unseen DEF DatasetsInv

LEMMA EndStep == DatasetsInv /\ LoopEnds => DatasetsInv' /\ Moves
<1> SUFFICES ASSUME DatasetsInv, LoopEnds PROVE DatasetsInv' /\ Moves
  OBVIOUS
<1> USE DEF LoopEnds, host, transmitter
<1>1. pc \in {"idle", "reset"} /\ pc' = "idle" /\ status' = OK
  OBVIOUS
<1>2. Type' /\ WhoInv'
  BY <1>1 DEF DatasetsInv, Type, WhoInv
<1>3. BufferInv' /\ FlowInv'
  BY <1>1 DEF DatasetsInv, BufferInv, FlowInv, Taken
<1> QED BY <1>2, <1>3, Unseen DEF DatasetsInv

(* While the device works on a command, the host waits for it or has gone. *)
LEMMA Working ==
  ASSUME DatasetsInv, pc \in {"write", "respond", "finish"}
  PROVE  /\ ask # NoAsk /\ ask \in Commands /\ announced \in Nat /\ announced # Untaken
         /\ ~gone => Taken /\ status = OK
         /\ gone => status # OK /\ in = <<>> /\ ~Taken
         /\ status = OK => ~gone
<1>1. ask # NoAsk /\ announced # Untaken
  BY DEF DatasetsInv, WhoInv
<1>2. ask \in Commands /\ announced \in Nat
  BY <1>1 DEF DatasetsInv, Type
<1>3. ~gone => status = OK
  BY DEF DatasetsInv, WhoInv
<1>4. gone => status # OK /\ in = <<>>
  BY DEF DatasetsInv, WhoInv
<1> QED BY <1>1, <1>2, <1>3, <1>4 DEF Taken

LEMMA UnfinishedIs ==
  ASSUME NEW c \in Commands, Unfinished(c)
  PROVE  Handled(c).size = 0 /\ Handled(c).params = 0
BY DEF Unfinished, Handled, Answered, GetDevicePropValue, GetDevicePropDesc, Dataset, NoDataset

LEMMA ReceiveStep == DatasetsInv /\ Receive => DatasetsInv' /\ Moves
<1> SUFFICES ASSUME DatasetsInv, Receive PROVE DatasetsInv' /\ Moves
  OBVIOUS
<1> DEFINE d == Handled(ask)
<1>1. /\ pc = "idle" /\ status = OK /\ ask # NoAsk /\ ~gone /\ announced = Untaken
      /\ ask' = ask /\ gone' = gone /\ asks' = asks /\ looping' = looping /\ status' = status
  BY DEF Receive, Waiting, host
<1>2. ask \in Commands /\ in = <<>> /\ tx = NoBuffer /\ Type
  BY <1>1 DEF DatasetsInv, Type, WhoInv, BufferInv
<1>3. Agrees(d)
  BY <1>2, HandledAgrees
<1>4. Phase = "asked" /\ Left = 0
  BY <1>1, PhaseNow
<1>5. in \in Seq(Packets) /\ Len(in) = 0 /\ Packet * Len(in) = 0 /\ Packet \in Nat
  BY <1>2, EmptyIn, Consts
<1>6. CASE d.size < 0
  <2>1. /\ pc' = "respond" /\ announced' = 0 /\ fields' = <<>>
        /\ tx' = NoBuffer /\ open' = open /\ in' = <<>>
    BY <1>2, <1>6 DEF Receive, transmitter
  <2>2. Type'
    <3>1. fields' \in Seq(Lengths) /\ announced' \in Nat
      BY <2>1
    <3> QED BY <1>1, <1>2, <2>1, <3>1 DEF Type
  <2>3. WhoInv'
    BY <1>1, <2>1, Consts DEF DatasetsInv, WhoInv
  <2>4. BufferInv'
    BY <2>1 DEF BufferInv
  <2>5. Came(in, Len(in), asks, announced') /\ in' = in
    BY <1>2, <1>5, <2>1 DEF Came
  <2>6. FlowInv'
    BY <1>1, <2>1, <2>5 DEF FlowInv
  <2>7. Phase' = "response" /\ Left' = 0
    <3>1. announced' \in Nat /\ Taken'
      BY <1>1, <2>1, Consts DEF Taken
    <3> QED BY <1>1, <1>5, <2>5, <3>1, PhaseThen DEF PhaseFacts
  <2>8. Moves
    BY <1>4, <2>7 DEF Moves, Phases!Next, Phases!Take
  <2> QED BY <2>2, <2>3, <2>4, <2>6, <2>8 DEF DatasetsInv
<1>7. CASE ~(d.size < 0)
  <2>1. /\ Write("data", HeaderSize) /\ announced' = HeaderSize + d.size /\ fields' = d.writes
        /\ pc' = IF Unfinished(ask) THEN "respond" ELSE "write"
    BY <1>7 DEF Receive
  <2>2. d.size \in Nat /\ Makes(d.writes, d.size) /\ d.writes \in Seq(Lengths)
    BY <1>3, <1>7 DEF Agrees, Makes
  <2>3. tx' = HeaderOnly' /\ in' = <<>> /\ open' = open /\ tx' = [len |-> HeaderSize, parts |-> {Part("data")}]
    <3>1. HeaderSize \in Lengths /\ tx.len + HeaderSize - Packet < 0 /\ tx.len + HeaderSize = HeaderSize
      BY <1>2, Consts DEF Lengths
    <3>2. tx' = [len |-> tx.len + HeaderSize, parts |-> tx.parts \cup {Part("data")}]
          /\ in' = in /\ open' = open
      BY <1>2, <2>1, <3>1, WriteIs
    <3>3. tx.parts \cup {Part("data")} = {Part("data")}
      BY <1>2, Consts
    <3> QED BY <1>1, <1>2, <3>1, <3>2, <3>3 DEF HeaderOnly, Part
  <2>4. announced' \in Nat /\ announced' >= HeaderSize /\ announced' > 0 /\ announced' - HeaderSize = d.size
    BY <2>1, <2>2, Consts
  <2>5. Type'
    <3>1. tx' \in Packets /\ tx'.len < Packet
      BY <1>2, <2>3, PartIs, Consts DEF Packets
    <3> QED BY <1>1, <1>2, <2>1, <2>2, <2>3, <2>4, <3>1 DEF Type
  <2>6. WhoInv'
    BY <1>1, <2>1, <2>3, <2>4, Consts DEF DatasetsInv, WhoInv
  <2>7. Unfinished(ask)' <=> Unfinished(ask)
    BY <1>1 DEF Unfinished, Handled
  <2>8. BufferInv'
    <3>1. tx'.len # 0 /\ tx'.parts = {Part("data")'}
      BY <1>1, <2>3, Consts DEF Part
    <3> QED BY <1>1, <2>1, <2>3, <2>7, <3>1 DEF BufferInv
  <2>9. Full(in, Len(in), asks) /\ in' = in
    BY <1>2, <1>5, <2>3 DEF Full
  <2>10. FlowInv'
    <3>1. CASE Unfinished(ask)
      <4>1. announced' = HeaderSize
        BY <1>2, <2>1, <3>1, UnfinishedIs, Consts
      <4> QED BY <2>1, <2>3, <3>1, <4>1 DEF FlowInv, Header
    <3>2. CASE ~Unfinished(ask)
      <4>1. pc' = "write" /\ tx' # NoBuffer
        BY <2>1, <2>3, <3>2, Consts
      <4>2. Full(in', Len(in'), asks')
        BY <1>1, <2>9
      <4>3. announced' - Packet * Len(in') - tx'.len = d.size
        <5>1. Packet * Len(in') = 0 /\ tx'.len = HeaderSize /\ HeaderSize \in Nat
          BY <1>5, <2>3, <2>9, Consts
        <5> QED BY <2>4, <5>1
      <4> QED BY <2>1, <2>2, <2>4, <4>1, <4>2, <4>3 DEF FlowInv
    <3> QED BY <3>1, <3>2
  <2>11. Phase' = "data" /\ Left' = announced'
    <3>1. Packet * Len(in') = 0
      BY <1>5, <2>9
    <3>2. announced' - Packet * Len(in') = announced'
      BY <2>4, <3>1
    <3>3. announced' # Untaken
      BY <2>4, Consts
    <3>4. Taken'
      BY <1>1, <3>3 DEF Taken
    <3> QED BY <1>1, <1>5, <2>4, <2>9, <3>2, <3>4, PhaseThen DEF PhaseFacts
  <2>12. Moves
    BY <1>4, <2>4, <2>11 DEF Moves, Phases!Next, Phases!Take
  <2> QED BY <2>5, <2>6, <2>8, <2>10, <2>12 DEF DatasetsInv
<1> QED BY <1>6, <1>7

LEMMA WriteFieldStep == DatasetsInv /\ WriteField => DatasetsInv' /\ Moves
<1> SUFFICES ASSUME DatasetsInv, WriteField PROVE DatasetsInv' /\ Moves
  OBVIOUS
<1>1. /\ pc = "write" /\ pc' = "write" /\ fields # <<>> /\ fields' = Tail(fields) /\ announced' = announced
      /\ ask' = ask /\ gone' = gone /\ asks' = asks /\ looping' = looping /\ status' = status
  BY DEF WriteField, host
<1>2. Type /\ Taken' = Taken /\ Part("data")' = Part("data")
  BY <1>1 DEF DatasetsInv, Taken, Part
<1>3. PICK n : n = Head(fields) /\ n \in Lengths /\ Write("data", n)
  BY <1>1 DEF WriteField, DatasetsInv, Type
<1>4. PICK p, rest : /\ p = [len |-> Packet, parts |-> tx.parts \cup {Part("data")}]
                     /\ rest = tx.len + n - Packet
  OBVIOUS
<1>5. /\ tx.len \in Nat /\ n \in Nat \ {0} /\ rest \in Int /\ rest < Packet /\ tx.len < Packet
      /\ fields' \in Seq(Lengths) /\ in \in Seq(Packets) /\ tx \in Packets
  <2>1. tx.len \in 0 .. Packet /\ tx.len < Packet
    BY <1>2 DEF Type, Packets
  <2>2. n \in Nat \ {0} /\ n <= 64
    BY <1>3 DEF Lengths
  <2>3. fields' \in Seq(Lengths)
    BY <1>1, <1>2 DEF Type
  <2> QED BY <1>2, <1>4, <2>1, <2>2, <2>3, Consts DEF Type
<1>6. tx.parts \cup {Part("data")} = {Part("data")}
  BY <1>1 DEF DatasetsInv, BufferInv
<1>7. IF rest < 0
      THEN tx' = [len |-> tx.len + n, parts |-> {Part("data")}] /\ in' = in /\ open' = open
      ELSE /\ tx' = IF rest = 0 THEN NoBuffer ELSE [len |-> rest, parts |-> {Part("data")}]
           /\ p \in Packets
           /\ IF status = OK THEN in' = Append(in, p) /\ open' = TRUE
              ELSE in' = in /\ open' = open
  BY <1>2, <1>3, <1>4, <1>6, WriteIs
<1>8. /\ tx'.len = IF rest < 0 THEN tx.len + n ELSE rest
      /\ tx'.len \in 0 .. Packet /\ tx'.len < Packet /\ tx'.len \in Nat
      /\ tx'.parts = IF tx'.len = 0 THEN {} ELSE {Part("data")}
      /\ tx' \in Packets
  <2>1. CASE rest < 0
    BY <1>2, <1>4, <1>5, <1>7, <2>1, PartIs, Consts DEF Packets
  <2>2. CASE rest = 0
    <3>1. tx' = NoBuffer /\ ~(rest < 0) /\ 0 \in 0 .. Packet
      BY <1>7, <2>2, Consts
    <3> QED BY <2>2, <3>1, Consts
  <2>3. CASE rest > 0
    <3>1. tx' = [len |-> rest, parts |-> {Part("data")}] /\ ~(rest < 0) /\ rest # 0
      BY <1>5, <1>7, <2>3
    <3>2. rest \in 0 .. Packet /\ rest < Packet /\ rest \in Nat
      BY <1>5, <2>3, Consts
    <3>3. {Part("data")} \in SUBSET ({"data", "response"} \X Nat)
      BY <1>2, PartIs
    <3>4. tx' \in Packets
      BY <3>1, <3>2, <3>3 DEF Packets
    <3> QED BY <3>1, <3>2, <3>4
  <2> QED BY <1>5, <2>1, <2>2, <2>3
<1>9. in' \in Seq(Packets) /\ open' \in BOOLEAN
  <2>1. open \in BOOLEAN
    BY <1>2 DEF Type
  <2>2. ASSUME p \in Packets
        PROVE  Append(in, p) \in Seq(Packets)
    BY <1>5, <2>2
  <2>3. \/ in' = in /\ open' = open
        \/ in' = Append(in, p) /\ open' = TRUE /\ p \in Packets
    BY <1>7
  <2>4. TRUE \in BOOLEAN
    OBVIOUS
  <2> QED BY <1>5, <2>1, <2>2, <2>3, <2>4
<1>10. Type'
  BY <1>1, <1>2, <1>5, <1>8, <1>9 DEF Type
<1>11. BufferInv'
  BY <1>1, <1>2, <1>8 DEF BufferInv
<1>12. CASE gone
  <2>1. in' = in /\ in = <<>> /\ ~Taken
    BY <1>1, <1>7, <1>12, Working
  <2>2. WhoInv'
    BY <1>1, <2>1 DEF DatasetsInv, WhoInv
  <2>3. FlowInv'
    BY <1>2, <2>1 DEF FlowInv
  <2> QED BY <1>1, <1>10, <1>11, <2>1, <2>2, <2>3, Unseen DEF DatasetsInv
<1>13. CASE ~gone
  <2>1. Taken /\ status = OK /\ announced \in Nat /\ announced # Untaken /\ ask # NoAsk
    BY <1>1, <1>13, Working
  <2> DEFINE total == announced - Packet * Len(in) - tx.len
  <2>2. announced > 0 /\ Full(in, Len(in), asks) /\ (tx = NoBuffer => open) /\ Makes(fields, total)
    BY <1>1, <2>1 DEF DatasetsInv, FlowInv
  <2>3. total - n \in Nat /\ Makes(Tail(fields), total - n)
    BY <1>1, <1>3, <2>2, MakesRest
  <2>4. WhoInv'
    BY <1>1, <1>13, <2>1 DEF DatasetsInv, WhoInv
  <2>5. CASE rest < 0
    <3>1. in' = in /\ announced' - Packet * Len(in') - tx'.len = total - n /\ tx' # NoBuffer
      BY <1>1, <1>5, <1>7, <1>8, <2>1, <2>5, Consts
    <3>2. FlowInv'
      BY <1>1, <1>7, <2>2, <2>3, <3>1 DEF FlowInv
    <3> QED BY <1>1, <1>10, <1>11, <2>4, <3>1, <3>2, Unseen DEF DatasetsInv
  <2>6. CASE ~(rest < 0)
    <3>1. in' = Append(in, p) /\ open' = TRUE /\ p \in Packets /\ tx'.len = rest
      BY <1>7, <1>8, <2>1, <2>6
    <3>2. p.len = Packet /\ Datum(p, asks)
      BY <1>4, <1>6 DEF Datum, Part
    <3>3. Full(in', Len(in'), asks) /\ Len(in') = Len(in) + 1 /\ Len(in) \in Nat
      BY <1>5, <2>1, <2>2, <3>1, <3>2, OneMore
    <3>4. announced' - Packet * Len(in') - tx'.len = total - n
      <4>1. PICK k \in Nat, m \in Nat : k = Len(in) /\ m = Packet * k
        BY <3>3, Consts
      <4>2. Packet * Len(in') = m + Packet
        BY <3>3, <4>1, Consts
      <4>3. tx'.len = tx.len + n - Packet
        BY <1>4, <3>1
      <4>4. total = announced - m - tx.len
        BY <4>1
      <4> HIDE DEF total
      <4> QED BY <1>1, <1>5, <2>1, <4>2, <4>3, <4>4, Consts
    <3>5. FlowInv'
      BY <1>1, <2>2, <2>3, <3>1, <3>3, <3>4 DEF FlowInv
    <3>6. Phase = "data" /\ Left = announced - Packet * Len(in)
      BY <1>1, <2>1, PhaseNow
    <3>7. Phase' = "data" /\ Left' = announced - Packet * Len(in')
      <4>1. Taken' /\ announced' \in Nat /\ announced' > 0 /\ Full(in', Len(in'), asks')
        BY <1>1, <1>2, <2>1, <2>2, <3>3
      <4> QED BY <1>1, <1>9, <4>1, PhaseThen DEF PhaseFacts
    <3>8. Left >= Packet /\ Left' = Left - Packet
      <4>1. PICK k \in Nat, m \in Nat : k = Len(in) /\ m = Packet * k
        BY <3>3, Consts
      <4>2. Packet * Len(in') = m + Packet
        BY <3>3, <4>1, Consts
      <4>3. total = announced - m - tx.len /\ Left = announced - m
        BY <3>6, <4>1
      <4> HIDE DEF total
      <4>4. Left = (total - n) + rest + Packet
        <5>1. rest = tx.len + n - Packet
          BY <1>4
        <5>2. tx.len \in Nat /\ n \in Nat /\ announced \in Nat /\ m \in Nat /\ Packet \in Nat
          BY <1>5, <2>1, <4>1, Consts
        <5>3. announced - m = (announced - m - tx.len - n) + (tx.len + n - Packet) + Packet
          BY ONLY <5>2
        <5> QED BY <4>3, <5>1, <5>3
      <4>5. Left' = Left - Packet
        BY <2>1, <3>7, <4>1, <4>2, <4>3, Consts
      <4> QED BY <1>5, <2>3, <2>6, <4>4, <4>5, Consts
    <3>9. Moves
      BY <3>6, <3>7, <3>8 DEF Moves, Phases!Next, Phases!FullPacket
    <3> QED BY <1>10, <1>11, <2>4, <3>5, <3>9 DEF DatasetsInv
  <2> QED BY <2>5, <2>6
<1> QED BY <1>12, <1>13

LEMMA FinishDatasetStep == DatasetsInv /\ FinishDataset => DatasetsInv' /\ Moves
<1> SUFFICES ASSUME DatasetsInv, FinishDataset PROVE DatasetsInv' /\ Moves
  OBVIOUS
<1>1. /\ pc = "write" /\ pc' = "respond" /\ fields = <<>> /\ fields' = fields /\ announced' = announced
      /\ ask' = ask /\ gone' = gone /\ asks' = asks /\ looping' = looping /\ status' = status
  BY DEF FinishDataset, host
<1>2. Type /\ Taken' = Taken
  BY <1>1 DEF DatasetsInv, Taken
<1>3. /\ tx' = NoBuffer /\ open' \in BOOLEAN
      /\ IF status = OK /\ (tx # NoBuffer \/ open) THEN in' = Append(in, tx) ELSE in' = in
  BY <1>2, FinishIs DEF FinishDataset
<1>4. in \in Seq(Packets) /\ tx \in Packets /\ tx.len < Packet
  BY <1>2 DEF Type
<1>5. in' \in Seq(Packets)
  <2>1. Append(in, tx) \in Seq(Packets)
    BY <1>4
  <2> QED BY <1>3, <1>4, <2>1
<1>6. Type'
  BY <1>1, <1>2, <1>3, <1>5, Consts DEF Type
<1>7. BufferInv'
  BY <1>1, <1>3 DEF BufferInv
<1>8. CASE gone
  <2>1. in' = in /\ in = <<>> /\ ~Taken
    BY <1>1, <1>3, <1>8, Working
  <2>2. WhoInv'
    BY <1>1, <1>8, <2>1, Working DEF DatasetsInv, WhoInv
  <2>3. FlowInv'
    BY <1>2, <2>1 DEF FlowInv
  <2> QED BY <1>1, <1>6, <1>7, <2>1, <2>2, <2>3, Unseen DEF DatasetsInv
<1>9. CASE ~gone
  <2>1. Taken /\ status = OK /\ announced \in Nat /\ announced # Untaken /\ ask # NoAsk
    BY <1>1, <1>9, Working
  <2>2. /\ announced > 0 /\ Full(in, Len(in), asks) /\ (tx = NoBuffer => open)
        /\ announced - Packet * Len(in) - tx.len = 0
    <3>1. Makes(<<>>, announced - Packet * Len(in) - tx.len)
      BY <1>1, <2>1 DEF DatasetsInv, FlowInv
    <3> QED BY <1>1, <2>1, <3>1, MakesNothing DEF DatasetsInv, FlowInv
  <2>3. in' = Append(in, tx)
    BY <1>3, <2>1, <2>2
  <2>4. Datum(tx, asks)
    <3>1. tx.parts = IF tx.len = 0 THEN {} ELSE {Part("data")}
      BY <1>1 DEF DatasetsInv, BufferInv
    <3> QED BY <1>4, <3>1, EmptyIs DEF Datum, Part
  <2>5. announced = Packet * Len(in) + tx.len /\ announced - Packet * Len(in) < Packet
    <3>1. PICK k \in Nat, m \in Nat : k = Len(in) /\ m = Packet * k
      BY <1>4, Consts
    <3>2. tx.len \in Nat
      BY <1>4 DEF Packets
    <3> QED BY <1>4, <2>1, <2>2, <3>1, <3>2, Consts
  <2>6. Came(in', Len(in'), asks, announced)
    BY <1>4, <2>1, <2>2, <2>3, <2>4, <2>5, OneMore
  <2>7. WhoInv'
    BY <1>1, <1>9, <2>1 DEF DatasetsInv, WhoInv
  <2>8. FlowInv'
    BY <1>1, <1>3, <2>6 DEF FlowInv
  <2>9. Phase = "data" /\ Left < Packet
    BY <1>1, <2>1, <2>5, PhaseNow
  <2>10. Phase' = "response" /\ Left' = 0
    BY <1>1, <1>2, <1>5, <2>1, <2>6, PhaseThen DEF PhaseFacts
  <2>11. Moves
    BY <2>9, <2>10 DEF Moves, Phases!Next, Phases!LastPacket
  <2> QED BY <1>6, <1>7, <2>7, <2>8, <2>11 DEF DatasetsInv
<1> QED BY <1>8, <1>9

LEMMA RespondStep == DatasetsInv /\ Respond => DatasetsInv' /\ Moves
<1> SUFFICES ASSUME DatasetsInv, Respond PROVE DatasetsInv' /\ Moves
  OBVIOUS
<1>1. /\ pc = "respond" /\ looping /\ fields' = fields /\ announced' = announced
      /\ ask' = ask /\ gone' = gone /\ asks' = asks /\ looping' = looping /\ status' = status
  BY DEF Respond, host
<1>2. Type /\ Taken' = Taken /\ (Part("response") = Part("response")')
  BY <1>1 DEF DatasetsInv, Taken, Part
<1>3. CASE status # OK
  <2>1. pc' = "reset" /\ tx' = tx /\ open' = open /\ in' = in
    BY <1>3 DEF Respond, transmitter
  <2>2. gone /\ in = <<>> /\ ~Taken
    BY <1>1, <1>3, Working
  <2>3. tx = NoBuffer
    BY <1>1, <2>2 DEF DatasetsInv, BufferInv
  <2>4. Type' /\ WhoInv'
    BY <1>1, <1>3, <2>1 DEF DatasetsInv, Type, WhoInv
  <2>5. BufferInv' /\ FlowInv'
    BY <1>2, <2>1, <2>2, <2>3 DEF BufferInv, FlowInv
  <2> QED BY <1>1, <2>1, <2>4, <2>5, Unseen DEF DatasetsInv
<1>4. CASE status = OK
  <2>1. /\ ~gone /\ Taken /\ ask \in Commands /\ announced \in Nat /\ announced # Untaken
    BY <1>1, <1>4, Working
  <2>2. PICK n : n = HeaderSize + 4 * Handled(ask).params
    OBVIOUS
  <2>3. Write("response", n) /\ pc' = "finish"
    BY <1>4, <2>2 DEF Respond
  <2>4. n \in {HeaderSize, HeaderSize + 4} /\ n \in Lengths /\ n \in Nat
        /\ (Handled(ask).params = 0 => n = HeaderSize)
    <3>1. Handled(ask).params \in {0, 1}
      BY <2>1, HandledAgrees DEF Agrees
    <3> QED BY <2>2, <3>1, Consts DEF Lengths
  <2>5. tx.len \in {0, HeaderSize} /\ tx.len + n - Packet < 0
    <3>1. tx.len \in {0, HeaderSize}
      BY <1>1, Consts DEF DatasetsInv, BufferInv, HeaderOnly
    <3> QED BY <2>4, <3>1, Consts
  <2>6. /\ tx' = [len |-> tx.len + n, parts |-> tx.parts \cup {Part("response")}]
        /\ in' = in /\ open' = open
    BY <1>2, <2>3, <2>4, <2>5, WriteIs
  <2>7. Type'
    <3>1. tx.parts \cup {Part("response")} \in SUBSET ({"data", "response"} \X Nat)
      BY <1>2, PartIs DEF Type, Packets
    <3>2. tx.len + n \in 0 .. Packet /\ tx.len + n < Packet
      BY <2>4, <2>5, Consts
    <3>3. tx' \in Packets /\ tx'.len < Packet
      BY <2>6, <3>1, <3>2 DEF Packets
    <3> QED BY <1>1, <1>2, <2>3, <2>6, <3>3 DEF Type
  <2>8. WhoInv'
    BY <1>1, <2>1, <2>3, <2>6 DEF DatasetsInv, WhoInv
  <2>9. \/ Alone(tx)' /\ tx'.len \in {HeaderSize, HeaderSize + 4}
           /\ Came(in', Len(in'), asks', announced')
        \/ tx' = Mixed' /\ Header'
    <3>1. CASE tx = NoBuffer
      <4>1. tx.parts \cup {Part("response")} = {Part("response")} /\ tx.len + n = n
        BY <2>4, <3>1, Consts
      <4>2. Alone(tx)' /\ tx'.len \in {HeaderSize, HeaderSize + 4}
        BY <1>2, <2>4, <2>6, <4>1 DEF Alone
      <4>3. ~(tx = HeaderOnly)
        BY <3>1, Consts DEF HeaderOnly
      <4> QED BY <1>1, <2>1, <2>6, <4>2, <4>3 DEF DatasetsInv, FlowInv
    <3>2. CASE tx # NoBuffer
      <4>1. tx = HeaderOnly /\ Unfinished(ask)
        BY <1>1, <3>2 DEF DatasetsInv, BufferInv
      <4>2. n = HeaderSize
        BY <2>1, <2>4, <4>1, UnfinishedIs
      <4>3. Header
        BY <1>1, <2>1, <3>2 DEF DatasetsInv, FlowInv
      <4>4. tx' = Mixed'
        <5>1. /\ tx.len = HeaderSize /\ tx.parts = {Part("data")}
              /\ {Part("data")} \cup {Part("response")} = {Part("data"), Part("response")}
          BY <4>1 DEF HeaderOnly
        <5>2. tx' = [len |-> HeaderSize + HeaderSize, parts |-> {Part("data"), Part("response")}]
          BY <2>6, <4>2, <5>1
        <5> QED BY <1>1, <5>2 DEF Mixed, Part
      <4>5. Header'
        BY <1>1, <2>6, <4>3 DEF Header
      <4> QED BY <4>4, <4>5
    <3> QED BY <3>1, <3>2
  <2>10. BufferInv' /\ FlowInv'
    BY <2>3, <2>9 DEF BufferInv, FlowInv
  <2> QED BY <1>1, <2>6, <2>7, <2>8, <2>10, Unseen DEF DatasetsInv
<1> QED BY <1>3, <1>4

(* The packet p with the response goes out: it ends what the host waits    *)
(* for, be it behind a whole data phase or in one packet with its header.  *)
LEMMA AnswerOut ==
  ASSUME DatasetsInv, NEW p \in Packets, pc \in {"respond", "finish"},
         Part("response") \in p.parts, tx' = NoBuffer, open' \in BOOLEAN,
         IF status = OK THEN in' = Append(in, p) ELSE in' = in,
         ask' = ask, gone' = gone, asks' = asks, announced' = announced, fields' = fields,
         status' = status, looping' = looping,
         pc' = IF looping THEN "reset" ELSE "idle",
         Taken => Header \/ (Alone(p) /\ Came(in, Len(in), asks, announced))
  PROVE  DatasetsInv' /\ Moves
<1>1. Type /\ Taken' = Taken /\ in \in Seq(Packets) /\ looping \in BOOLEAN
  BY DEF DatasetsInv, Type, Taken
<1>2. Append(in, p) \in Seq(Packets)
  BY <1>1
<1>3. in' \in Seq(Packets) /\ pc' \in {"idle", "reset"}
  BY <1>1, <1>2
<1>4. Type'
  BY <1>1, <1>3, Consts DEF Type
<1>5. BufferInv'
  BY <1>3 DEF BufferInv
<1>6. CASE gone
  <2>1. in' = in /\ in = <<>> /\ ~Taken /\ status # OK
    BY <1>6, Working
  <2>2. WhoInv'
    BY <1>1, <1>3, <1>6, <2>1, Working DEF DatasetsInv, WhoInv
  <2>3. FlowInv'
    BY <1>1, <2>1 DEF FlowInv
  <2> QED BY <1>4, <1>5, <2>1, <2>2, <2>3, Unseen DEF DatasetsInv
<1>7. CASE ~gone
  <2>1. Taken /\ status = OK /\ announced \in Nat /\ announced # Untaken /\ ask # NoAsk
    BY <1>7, Working
  <2>2. PICK r : r = Append(in, p) /\ r = in'
    BY <2>1
  <2>3. /\ Len(r) = Len(in) + 1 /\ Len(in) \in Nat /\ r # <<>> /\ r[Len(r)] = p
        /\ Came(in, Len(in), asks, announced) => Came(r, Len(r) - 1, asks, announced)
    BY <1>1, <2>1, <2>2, OneMore
  <2>4. Responds(r, asks)
    BY <2>3 DEF Responds, Part
  <2>5. IsAnswer(r, asks, announced)
    <3>1. CASE Header
      <4>1. Len(in) = 0
        BY <3>1, EmptyIn DEF Header
      <4> QED BY <2>3, <3>1, <4>1 DEF Header, IsAnswer
    <3>2. CASE Alone(p) /\ Came(in, Len(in), asks, announced)
      BY <2>3, <3>2 DEF IsAnswer, Alone, Part
    <3> QED BY <2>1, <3>1, <3>2
  <2>6. WhoInv'
    BY <1>1, <1>3, <1>7, <2>1 DEF DatasetsInv, WhoInv
  <2>7. FlowInv'
    BY <1>3, <2>2, <2>4, <2>5 DEF FlowInv
  <2>8. Phase' = "answered" /\ Left' = 0
    BY <1>1, <1>3, <2>1, <2>2, <2>4, <2>5, PhaseThen DEF PhaseFacts
  <2>9. (Phase = "data" /\ Left = HeaderSize) \/ (Phase = "response" /\ Left = 0)
    BY <2>1, PhaseNow
  <2>10. Moves
    BY <2>8, <2>9 DEF Moves, Phases!Next, Phases!JoinedAnswer, Phases!Answer
  <2> QED BY <1>4, <1>5, <2>6, <2>7, <2>10 DEF DatasetsInv
<1> QED BY <1>6, <1>7

LEMMA RespondFinishStep == DatasetsInv /\ RespondFinish => DatasetsInv' /\ Moves
<1> SUFFICES ASSUME DatasetsInv, RespondFinish PROVE DatasetsInv' /\ Moves
  OBVIOUS
<1>1. /\ pc = "finish" /\ pc' = "reset" /\ fields' = fields /\ announced' = announced
      /\ ask' = ask /\ gone' = gone /\ asks' = asks /\ looping' = looping /\ status' = status
  BY DEF RespondFinish, host
<1>2. Type /\ tx \in Packets /\ looping
  BY <1>1 DEF DatasetsInv, Type, WhoInv
<1>3. Part("response") \in tx.parts
  BY <1>1 DEF DatasetsInv, BufferInv, Alone, Mixed
<1>4. tx # NoBuffer
  BY <1>3, Consts
<1>5. /\ tx' = NoBuffer /\ open' \in BOOLEAN
      /\ IF status = OK THEN in' = Append(in, tx) ELSE in' = in
  BY <1>2, <1>4, FinishIs DEF RespondFinish
<1>6. Taken => Header \/ (Alone(tx) /\ Came(in, Len(in), asks, announced))
  BY <1>1 DEF DatasetsInv, FlowInv
<1> QED BY <1>1, <1>2, <1>3, <1>5, <1>6, AnswerOut

LEMMA TimerRespondsStep == DatasetsInv /\ TimerResponds => DatasetsInv' /\ Moves
<1> SUFFICES ASSUME DatasetsInv, TimerResponds PROVE DatasetsInv' /\ Moves
  OBVIOUS
<1>1. /\ pc = "respond" /\ pc' = "idle" /\ ~looping /\ fields' = fields /\ announced' = announced
      /\ ask' = ask /\ gone' = gone /\ asks' = asks /\ looping' = looping /\ status' = status
  BY DEF TimerResponds, host
<1>2. PICK p : p = [len |-> HeaderSize, parts |-> {Part("response")}]
  OBVIOUS
<1>3. Type /\ p \in Packets /\ Part("response") \in p.parts /\ Alone(p)
  <2>1. Type
    BY DEF DatasetsInv
  <2>2. HeaderSize \in 0 .. Packet
    BY Consts
  <2> QED BY <1>2, <2>1, <2>2, PartIs DEF Packets, Alone
<1>4. /\ tx' = NoBuffer /\ open' \in BOOLEAN
      /\ IF status = OK THEN in' = Append(in, p) ELSE in' = in
  BY <1>2, <1>3, TransmitIs DEF TimerResponds
<1>5. Taken => Header \/ (Alone(p) /\ Came(in, Len(in), asks, announced))
  BY <1>1, <1>3 DEF DatasetsInv, FlowInv
<1> QED BY <1>1, <1>3, <1>4, <1>5, AnswerOut

-----------------------------------------------------------------------------
LEMMA InvInit == Init => DatasetsInv /\ Phases!Init
<1> SUFFICES ASSUME Init PROVE DatasetsInv /\ Phases!Init
  OBVIOUS
<1>1. Type
  <2>1. in \in Seq(Packets)
    BY EmptyIn DEF Init
  <2>2. fields \in Seq(Lengths) /\ NoBuffer.len < Packet
    BY Consts DEF Init
  <2> QED BY <2>1, <2>2, Consts DEF Init, Type
<1>2. WhoInv /\ BufferInv /\ FlowInv
  BY DEF Init, WhoInv, BufferInv, FlowInv, Taken
<1>3. Phase = "idle" /\ Left = 0
  BY PhaseWhen DEF Init, PhaseFacts
<1> QED BY <1>1, <1>2, <1>3 DEF DatasetsInv, Phases!Init

LEMMA InvNext == DatasetsInv /\ [Next]_vars => DatasetsInv' /\ [Phases!Next]_<<Phase, Left>>
<1> SUFFICES ASSUME DatasetsInv, [Next]_vars PROVE DatasetsInv' /\ Moves
  BY DEF Moves
<1>1. CASE Next
  BY <1>1, AskStep, CancelStep, DoneStep, StartStep, ReceiveStep, WriteFieldStep,
     FinishDatasetStep, RespondStep, RespondFinishStep, TimerRespondsStep, EndStep DEF Next
<1>2. CASE UNCHANGED vars
  <2>1. /\ ask' = ask /\ gone' = gone /\ asks' = asks /\ announced' = announced /\ in' = in
        /\ looping' = looping /\ pc' = pc /\ fields' = fields /\ tx' = tx /\ open' = open
        /\ status' = status
    BY <1>2 DEF vars, host, device, transmitter
  <2>2. Type' /\ WhoInv'
    BY <2>1 DEF DatasetsInv, Type, WhoInv
  <2>3. BufferInv' /\ FlowInv'
    BY <2>1 DEF DatasetsInv, BufferInv, FlowInv, Taken, Header, HeaderOnly, Mixed, Alone, Part,
       Unfinished, Handled
  <2> QED BY <2>1, <2>2, <2>3, Unseen DEF DatasetsInv
<1> QED BY <1>1, <1>2

(* The inductive invariant, in every behaviour of host and device.         *)
THEOREM DatasetsInvAlways == Spec => []DatasetsInv
BY InvInit, InvNext, PTL DEF Spec

LEMMA SeqOfMore ==
  ASSUME NEW S, NEW T, S \subseteq T, NEW s \in Seq(S)
  PROVE  s \in Seq(T)
<1>1. PICK n \in Nat : n = Len(s)
  OBVIOUS
<1>2. s \in [1 .. n -> S]
  BY <1>1
<1>3. s \in [1 .. n -> T]
  BY <1>2
<1> QED BY <1>3

(* Types: in particular transmit_buffer never holds a full packet, which   *)
(* write would have transmitted, and no field is longer than a packet.     *)
THEOREM TypeOKAlways == Spec => []TypeOK
<1>1. DatasetsInv => TypeOK
  <2>1. SUFFICES ASSUME Type PROVE TypeOK
    BY DEF DatasetsInv
  <2>2. Lengths \subseteq 1 .. Packet
    BY Consts DEF Lengths
  <2>3. fields \in Seq(1 .. Packet)
    BY <2>1, <2>2, SeqOfMore DEF Type
  <2> QED BY <2>1, <2>3 DEF Type, TypeOK
<1> QED BY <1>1, DatasetsInvAlways, PTL

(* At rest nothing waits in transmit_buffer for the next answer, with loop *)
(* or the timer, and however the host cancels (loop, write_finish and      *)
(* transmit_bulk).                                                         *)
THEOREM NothingLeftAlways == Spec => []NothingLeft
<1>1. DatasetsInv => NothingLeft
  BY DEF DatasetsInv, BufferInv, NothingLeft
<1> QED BY <1>1, DatasetsInvAlways, PTL

(* Every dataset comes to the host as its header announces it, whatever    *)
(* the lengths of names and lists, and its response behind it (the         *)
(* handlers, write, write_finish, loop and the timer).                     *)
THEOREM DatasetsImplementAnswers == Spec => AnswerSpec
BY InvInit, InvNext, PTL DEF Spec, AnswerSpec, Phases!Spec, Phases!vars

=============================================================================
