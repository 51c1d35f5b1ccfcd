------------------------------ MODULE ObjectIndexLemmas ------------------------------
(***************************************************************************)
(* The tree that the records of ObjectIndex and the stores agree on, and   *)
(* what the operations on records, lists and stores do to it: opening and  *)
(* closing files, GenerateIndex, ScanFolder and ScanAll, DeleteObject,     *)
(* rename and move, and the record that Create writes.                     *)
(*                                                                         *)
(* P maps each object of the tree, and each root, to its place; rk orders  *)
(* the children of a directory, the older ones lower.  Shape(x, P, rk)     *)
(* says that the machine x holds the tree P; a lemma named ...Keeps says   *)
(* that an operation of the store leaves one.                              *)
(***************************************************************************)
EXTENDS ObjectIndex, SequenceTheorems, FiniteSetTheorems, WellFoundedInduction, TLAPS

(* A set of naturals that is not empty has a least member. *)
LEMMA LeastMember ==
  ASSUME NEW T, T \subseteq Nat, T # {}
  PROVE  \E x \in T : \A y \in T : x <= y
<1> DEFINE Below == OpToRel(<, Nat)
<1>1. IsWellFoundedOn(Below, Nat)
  BY NatLessThanWellFounded
<1>2. \A x, y \in Nat : <<x, y>> \in Below <=> x < y
  BY DEF OpToRel
<1> HIDE DEF Below
<1>3. PICK x \in T : \A y \in T : <<y, x>> \notin Below
  BY <1>1, WFMin, Zenon
<1>4. ASSUME NEW y \in T PROVE x <= y
  <2>1. <<y, x>> \notin Below
    BY <1>3
  <2>2. x \in Nat /\ y \in Nat
    OBVIOUS
  <2>3. ~(y < x)
    BY <1>2, <2>1, <2>2
  <2> QED
    BY <2>2, <2>3
<1> QED
  BY <1>4

(* g is what n steps make of a, one after the other. *)
Repeats(g, n, a, step) == g = [i \in 0 .. n |-> IF i = 0 THEN a ELSE step[i][g[i - 1]]]

(* A function may be defined by the value at 0 and a step from each value  *)
(* to the next.                                                            *)
LEMMA Recursion ==
  ASSUME NEW n \in Nat, NEW S, NEW a \in S, NEW step \in [1 .. n -> [S -> S]]
  PROVE  \E g \in [0 .. n -> S] : Repeats(g, n, a, step)
<1> DEFINE Obeys(k, g) == g[0] = a /\ \A i \in 1 .. k : g[i] = step[i][g[i - 1]]
           None == {k \in 0 .. n : ~\E g \in [0 .. k -> S] : Obeys(k, g)}
<1>1. None = {}
  <2> SUFFICES ASSUME None # {} PROVE FALSE
    OBVIOUS
  <2>1. None \subseteq Nat
    OBVIOUS
  <2>2. PICK k \in None : \A j \in None : k <= j
    BY <2>1, LeastMember
  <2>3. k \in 0 .. n /\ ~\E g \in [0 .. k -> S] : Obeys(k, g)
    OBVIOUS
  <2>4. k # 0
    <3>1. [i \in 0 .. 0 |-> a] \in [0 .. 0 -> S] /\ Obeys(0, [i \in 0 .. 0 |-> a])
      OBVIOUS
    <3> QED
      BY <3>1, <2>3
  <2>5. k - 1 \in 0 .. n /\ k - 1 \notin None
    <3>1. k - 1 \in 0 .. n
      BY <2>3, <2>4
    <3>2. ~(k <= k - 1)
      BY <2>3
    <3> HIDE DEF None
    <3> QED
      BY <2>2, <3>1, <3>2
  <2>6. PICK g \in [0 .. k - 1 -> S] : Obeys(k - 1, g)
    BY <2>5
  <2> DEFINE h == [i \in 0 .. k |-> IF i = k THEN step[k][g[k - 1]] ELSE g[i]]
  <2>7. k \in 1 .. n /\ k - 1 \in 0 .. k - 1
    BY <2>3, <2>4
  <2>8. g[k - 1] \in S /\ step[k] \in [S -> S]
    BY <2>7
  <2>9. h \in [0 .. k -> S]
    BY <2>7, <2>8
  <2>10. h[0] = a
    BY <2>6, <2>7
  <2>11. ASSUME NEW i \in 1 .. k PROVE h[i] = step[i][h[i - 1]]
    BY <2>6, <2>7
  <2>12. Obeys(k, h)
    BY <2>10, <2>11
  <2> HIDE DEF h, Obeys
  <2> QED
    BY <2>4, <2>9, <2>12
<1>2. \E g \in [0 .. n -> S] : Obeys(n, g)
  <2> HIDE DEF Obeys
  <2>1. n \in 0 .. n
    OBVIOUS
  <2> QED
    BY <1>1, <2>1
<1>3. PICK g \in [0 .. n -> S] : Obeys(n, g)
  <2> HIDE DEF Obeys
  <2> QED
    BY <1>2, Zenon
<1>4. Repeats(g, n, a, step)
  BY <1>3 DEF Repeats
<1> HIDE DEF Obeys, None
<1> QED
  BY <1>4, Zenon


(***************************************************************************)
(* Places.                                                                 *)
(***************************************************************************)

(* All but the last element of a sequence, and the last. *)
LEMMA FrontLast ==
  ASSUME NEW S, NEW q \in Seq(S), Len(q) > 0
  PROVE  /\ Front(q) \in Seq(S) /\ Len(Front(q)) = Len(q) - 1 /\ Last(q) \in S
         /\ q = Append(Front(q), Last(q))
<1>1. Len(q) \in Nat /\ Len(q) \in 1 .. Len(q) /\ Last(q) = q[Len(q)]
  BY LenProperties DEF Last
<1>2. \A i \in 1 .. Len(q) : q[i] \in S
  BY ElementOfSeq
<1>3. /\ Front(q) \in Seq(S) /\ Len(Front(q)) = Len(q) - 1
      /\ \A i \in 1 .. Len(q) - 1 : Front(q)[i] = q[i]
  <2>1. Len(q) - 1 \in Int /\ 1 \in Int /\ \A i \in 1 .. Len(q) - 1 : q[i] \in S
    BY <1>1, <1>2
  <2>2. /\ SubSeq(q, 1, Len(q) - 1) \in Seq(S)
        /\ Len(SubSeq(q, 1, Len(q) - 1)) = IF 1 <= Len(q) - 1 THEN (Len(q) - 1) - 1 + 1 ELSE 0
        /\ \A i \in 1 .. (Len(q) - 1) - 1 + 1 : SubSeq(q, 1, Len(q) - 1)[i] = q[1 + i - 1]
    <3> DEFINE k == Len(q) - 1
    <3>1. k \in Int /\ \A i \in 1 .. k : q[i] \in S
      BY <2>1
    <3> HIDE DEF k
    <3>2. /\ SubSeq(q, 1, k) \in Seq(S)
          /\ Len(SubSeq(q, 1, k)) = IF 1 <= k THEN k - 1 + 1 ELSE 0
          /\ \A i \in 1 .. k - 1 + 1 : SubSeq(q, 1, k)[i] = q[1 + i - 1]
      BY <2>1, <3>1, SubSeqProperties, Z3
    <3> QED
      BY <3>2 DEF k
  <2> DEFINE f == SubSeq(q, 1, Len(q) - 1)
             k == Len(q)
  <2>3. Front(q) = f
    BY DEF Front
  <2>4. /\ f \in Seq(S) /\ Len(f) = IF 1 <= k - 1 THEN (k - 1) - 1 + 1 ELSE 0
        /\ \A i \in 1 .. (k - 1) - 1 + 1 : f[i] = q[1 + i - 1]
    BY <2>2
  <2>5. k \in Nat /\ k > 0
    BY <1>1
  <2> HIDE DEF f, k
  <2>6. f \in Seq(S) /\ Len(f) = k - 1
    BY <2>4, <2>5
  <2>7. ASSUME NEW i \in 1 .. k - 1 PROVE f[i] = q[i]
    <3>1. i \in 1 .. (k - 1) - 1 + 1 /\ 1 + i - 1 = i
      BY <2>5
    <3> QED
      BY <2>4, <3>1
  <2>8. /\ Front(q) \in Seq(S) /\ Len(Front(q)) = k - 1
        /\ \A i \in 1 .. k - 1 : Front(q)[i] = q[i]
    BY <2>3, <2>6, <2>7, Zenon
  <2> QED
    BY <2>8 DEF k
<1>4. Last(q) \in S
  BY <1>1, <1>2
<1>5. /\ Append(Front(q), Last(q)) \in Seq(S) /\ Len(Append(Front(q), Last(q))) = Len(q)
      /\ \A i \in 1 .. Len(q) - 1 : Append(Front(q), Last(q))[i] = q[i]
      /\ Append(Front(q), Last(q))[Len(q)] = q[Len(q)]
  BY <1>1, <1>3, <1>4, AppendProperties, Z3
<1>6. \A i \in 1 .. Len(q) : Append(Front(q), Last(q))[i] = q[i]
  BY <1>1, <1>5
<1> QED
  BY <1>3, <1>4, <1>5, <1>6, SeqEqual

(* Behind what is appended is what was there. *)
LEMMA FrontOfAppend ==
  ASSUME NEW S, NEW q \in Seq(S), NEW e \in S
  PROVE  /\ Append(q, e) \in Seq(S) /\ Len(Append(q, e)) = Len(q) + 1 /\ Len(q) \in Nat
         /\ Front(Append(q, e)) = q /\ Last(Append(q, e)) = e
         /\ \A i \in 1 .. Len(q) : Append(q, e)[i] = q[i]
         /\ Append(q, e)[Len(q) + 1] = e
<1>1. /\ Append(q, e) \in Seq(S) /\ Len(Append(q, e)) = Len(q) + 1 /\ Len(q) \in Nat
      /\ \A i \in 1 .. Len(q) : Append(q, e)[i] = q[i]
      /\ Append(q, e)[Len(q) + 1] = e
  BY AppendProperties, LenProperties
<1>2. Append(q, e) = Append(Front(Append(q, e)), Last(Append(q, e)))
      /\ Front(Append(q, e)) \in Seq(S) /\ Last(Append(q, e)) \in S
  <2> DEFINE a == Append(q, e)
  <2>1. a \in Seq(S) /\ Len(a) > 0
    BY <1>1
  <2> HIDE DEF a
  <2>2. a = Append(Front(a), Last(a)) /\ Front(a) \in Seq(S) /\ Last(a) \in S
    BY <2>1, FrontLast
  <2> QED
    BY <2>2 DEF a
<1>3. Front(Append(q, e)) = q /\ Last(Append(q, e)) = e
  BY <1>2, AppendInjective
<1> QED
  BY <1>1, <1>3

(* One sequence is the beginning of another. *)
LEMMA PrefixIs ==
  ASSUME NEW S, NEW p \in Seq(S), NEW q \in Seq(S)
  PROVE  IsPrefix(p, q) <=> Len(p) <= Len(q) /\ \A i \in 1 .. Len(p) : p[i] = q[i]
<1>1. Len(p) \in Nat /\ Len(q) \in Nat
  BY LenProperties
<1>2. (\A i \in 1 .. Len(p) : p[i] \in S) /\ (\A i \in 1 .. Len(q) : q[i] \in S)
  BY ElementOfSeq
<1>3. SubSeq(p, 1, Len(p)) = p
  BY SubSeqFull
<1>4. ASSUME Len(p) <= Len(q)
      PROVE  SubSeq(p, 1, Len(p)) = SubSeq(q, 1, Len(p)) <=> \A i \in 1 .. Len(p) : p[i] = q[i]
  <2>1. /\ SubSeq(q, 1, Len(p)) \in Seq(S) /\ Len(SubSeq(q, 1, Len(p))) = Len(p)
        /\ \A i \in 1 .. Len(p) : SubSeq(q, 1, Len(p))[i] = q[i]
    <3>1. \A i \in 1 .. Len(p) : q[i] \in S
      BY <1>1, <1>2, <1>4
    <3> QED
      BY <1>1, <3>1, SubSeqProperties, Z3
  <2> QED
    BY <1>3, <2>1, SeqEqual
<1> QED
  BY <1>4 DEF IsPrefix

(* What begins with a place is that place or goes on behind it. *)
LEMMA PrefixOfAppend ==
  ASSUME NEW S, NEW p \in Seq(S), NEW q \in Seq(S), NEW e \in S
  PROVE  IsPrefix(p, Append(q, e)) <=> IsPrefix(p, q) \/ p = Append(q, e)
<1>1. /\ Append(q, e) \in Seq(S) /\ Len(Append(q, e)) = Len(q) + 1 /\ Len(q) \in Nat
      /\ \A i \in 1 .. Len(q) : Append(q, e)[i] = q[i]
  BY FrontOfAppend
<1>2. Len(p) \in Nat
  BY LenProperties
<1>3. IsPrefix(p, Append(q, e)) <=> Len(p) <= Len(q) + 1 /\ \A i \in 1 .. Len(p) : p[i] = Append(q, e)[i]
  <2> DEFINE a == Append(q, e)
  <2>1. a \in Seq(S) /\ Len(a) = Len(q) + 1
    BY <1>1
  <2> HIDE DEF a
  <2>2. IsPrefix(p, a) <=> Len(p) <= Len(q) + 1 /\ \A i \in 1 .. Len(p) : p[i] = a[i]
    BY <2>1, PrefixIs
  <2> QED
    BY <2>2 DEF a
<1>4. IsPrefix(p, q) <=> Len(p) <= Len(q) /\ \A i \in 1 .. Len(p) : p[i] = q[i]
  BY PrefixIs
<1>5. CASE Len(p) <= Len(q)
  <2>1. p # Append(q, e)
    BY <1>1, <1>2, <1>5
  <2>2. \A i \in 1 .. Len(p) : Append(q, e)[i] = q[i]
    BY <1>1, <1>2, <1>5
  <2> QED
    BY <1>1, <1>2, <1>3, <1>4, <1>5, <2>1, <2>2
<1>6. CASE Len(p) = Len(q) + 1
  <2>1. (\A i \in 1 .. Len(p) : p[i] = Append(q, e)[i]) <=> p = Append(q, e)
    BY <1>1, <1>6, SeqEqual
  <2> QED
    BY <1>1, <1>2, <1>3, <1>4, <1>6, <2>1
<1>7. CASE Len(p) > Len(q) + 1
  <2>1. p # Append(q, e)
    BY <1>1, <1>7
  <2> QED
    BY <1>1, <1>2, <1>3, <1>4, <1>7, <2>1
<1> QED
  BY <1>1, <1>2, <1>5, <1>6, <1>7

(* A place is its own prefix, a prefix is no longer than what it is a      *)
(* prefix of, and two places that are prefixes of each other are one.      *)
LEMMA PrefixFacts ==
  ASSUME NEW S, NEW p \in Seq(S)
  PROVE  /\ IsPrefix(p, p)
         /\ \A q \in Seq(S) : IsPrefix(p, q) => Len(p) <= Len(q)
         /\ \A q \in Seq(S) : IsPrefix(p, q) /\ Len(p) = Len(q) => p = q
         /\ \A q \in Seq(S) : IsPrefix(p, q) /\ IsPrefix(q, p) => p = q
<1>1. Len(p) \in Nat
  BY LenProperties
<1>2. IsPrefix(p, p)
  BY <1>1, PrefixIs
<1>3. ASSUME NEW q \in Seq(S), IsPrefix(p, q), Len(p) = Len(q) PROVE p = q
  BY <1>3, PrefixIs, SeqEqual
<1>4. \A q \in Seq(S) : IsPrefix(p, q) => Len(p) <= Len(q)
  BY PrefixIs
<1>5. ASSUME NEW q \in Seq(S), IsPrefix(p, q), IsPrefix(q, p) PROVE p = q
  <2>1. Len(q) \in Nat /\ Len(p) <= Len(q) /\ Len(q) <= Len(p)
    BY <1>5, PrefixIs, LenProperties
  <2> QED
    BY <1>1, <1>3, <1>5, <2>1
<1> QED
  BY <1>2, <1>3, <1>4, <1>5


(* A place under one that is called something else from now on. *)
Shifted(r, q, p, to) ==
  /\ Len(r) = Len(to) + (Len(q) - Len(p))
  /\ \A i \in 1 .. Len(r) : r[i] = IF i <= Len(to) THEN to[i] ELSE q[i - Len(to) + Len(p)]
  /\ Len(p) \in Nat /\ Len(to) \in Nat /\ Len(q) \in Nat /\ Len(p) <= Len(q)
  /\ \A i \in 1 .. Len(p) : p[i] = q[i]

(* What Renamed makes of a place under p: the names of to, then those      *)
(* the place had after p.                                                  *)
LEMMA RenamedIs ==
  ASSUME NEW S, NEW p \in Seq(S), NEW to \in Seq(S), NEW q \in Seq(S), IsPrefix(p, q)
  PROVE  Renamed(q, p, to) \in Seq(S) /\ Shifted(Renamed(q, p, to), q, p, to)
<1> DEFINE a == Len(p)
           b == Len(q)
           c == Len(to)
           rest == SubSeq(q, Len(p) + 1, Len(q))
           r == to \o rest
<1>1. /\ a \in Nat /\ b \in Nat /\ c \in Nat /\ a <= b
      /\ \A i \in 1 .. Len(p) : p[i] = q[i]
      /\ \A i \in 1 .. b : q[i] \in S
  BY LenProperties, PrefixIs, ElementOfSeq
<1>2. /\ rest \in Seq(S) /\ Len(rest) = IF a + 1 <= b THEN b - (a + 1) + 1 ELSE 0
      /\ \A i \in 1 .. b - (a + 1) + 1 : rest[i] = q[(a + 1) + i - 1]
  <2> DEFINE j == Len(p) + 1
             k == Len(q)
  <2>1. j \in Int /\ k \in Int /\ \A i \in j .. k : q[i] \in S
    BY <1>1
  <2> HIDE DEF j, k
  <2>2. /\ SubSeq(q, j, k) \in Seq(S) /\ Len(SubSeq(q, j, k)) = IF j <= k THEN k - j + 1 ELSE 0
        /\ \A i \in 1 .. k - j + 1 : SubSeq(q, j, k)[i] = q[j + i - 1]
    BY <2>1, SubSeqProperties, Z3
  <2> QED
    BY <2>2 DEF j, k
<1>3. Renamed(q, p, to) = r
  BY DEF Renamed
<1> HIDE DEF rest
<1>4. /\ r \in Seq(S) /\ Len(r) = c + Len(rest)
      /\ \A i \in 1 .. c + Len(rest) : r[i] = IF i <= c THEN to[i] ELSE rest[i - c]
  BY <1>2, ConcatProperties
<1> HIDE DEF r, a, b, c
<1>5. Len(rest) = b - a /\ \A i \in 1 .. b - a : rest[i] = q[a + i]
  <2>1. Len(rest) = b - a
    BY <1>1, <1>2
  <2>2. ASSUME NEW i \in 1 .. b - a PROVE rest[i] = q[a + i]
    <3>1. i \in 1 .. b - (a + 1) + 1 /\ (a + 1) + i - 1 = a + i
      BY <1>1
    <3> QED
      BY <1>2, <3>1
  <2> QED
    BY <2>1, <2>2
<1>6. /\ Len(r) = c + (b - a)
      /\ \A i \in 1 .. c + (b - a) : r[i] = IF i <= c THEN to[i] ELSE q[i - c + a]
  <2>1. ASSUME NEW i \in 1 .. c + (b - a), ~(i <= c) PROVE r[i] = q[i - c + a]
    <3>1. i - c \in 1 .. b - a /\ a + (i - c) = i - c + a
      BY <1>1, <2>1
    <3> QED
      BY <1>4, <1>5, <2>1, <3>1
  <2> QED
    BY <1>4, <1>5, <2>1
<1>7. Shifted(r, q, p, to)
  BY <1>1, <1>6 DEF a, b, c, Shifted
<1> QED
  BY <1>3, <1>4, <1>7

(* The place itself, and what is in a directory under it. *)
LEMMA RenamedFacts ==
  ASSUME NEW S, NEW p \in Seq(S), NEW to \in Seq(S)
  PROVE  /\ Renamed(p, p, to) = to
         /\ \A q \in Seq(S) : Renamed(q, p, to) \in Seq(S)
         /\ \A q \in Seq(S) : ~IsPrefix(p, q) => Renamed(q, p, to) = q
         /\ \A q \in Seq(S) : IsPrefix(p, q) => IsPrefix(to, Renamed(q, p, to))
         /\ \A q \in Seq(S), e \in S :
              IsPrefix(p, q) => Renamed(Append(q, e), p, to) = Append(Renamed(q, p, to), e)
         /\ \A q1, q2 \in Seq(S) :
              IsPrefix(p, q1) /\ IsPrefix(p, q2) /\ Renamed(q1, p, to) = Renamed(q2, p, to) => q1 = q2
<1>1. Renamed(p, p, to) = to
  <2>1. IsPrefix(p, p)
    BY PrefixFacts
  <2>2. Renamed(p, p, to) \in Seq(S) /\ Shifted(Renamed(p, p, to), p, p, to)
    BY <2>1, RenamedIs
  <2>3. Len(Renamed(p, p, to)) = Len(to) /\ \A i \in 1 .. Len(to) : Renamed(p, p, to)[i] = to[i]
    BY <2>2 DEF Shifted
  <2> QED
    BY <2>2, <2>3, SeqEqual
<1>2. ASSUME NEW q \in Seq(S), ~IsPrefix(p, q) PROVE Renamed(q, p, to) = q
  BY <1>2 DEF Renamed
<1>3. ASSUME NEW q \in Seq(S) PROVE Renamed(q, p, to) \in Seq(S)
  <2>1. CASE IsPrefix(p, q)
    BY <2>1, RenamedIs, Zenon
  <2>2. CASE ~IsPrefix(p, q)
    BY <2>2, <1>2
  <2> QED
    BY <2>1, <2>2
<1>4. ASSUME NEW q \in Seq(S), IsPrefix(p, q) PROVE IsPrefix(to, Renamed(q, p, to))
  <2> DEFINE r == Renamed(q, p, to)
  <2>1. r \in Seq(S) /\ Shifted(r, q, p, to)
    BY <1>4, RenamedIs
  <2> HIDE DEF r
  <2>2. Len(to) <= Len(r) /\ \A i \in 1 .. Len(to) : r[i] = to[i]
    BY <2>1 DEF Shifted
  <2>3. IsPrefix(to, r)
    BY <2>1, <2>2, PrefixIs
  <2> QED
    BY <2>3 DEF r
<1>5. ASSUME NEW q \in Seq(S), NEW e \in S, IsPrefix(p, q)
      PROVE  Renamed(Append(q, e), p, to) = Append(Renamed(q, p, to), e)
  <2>1. /\ Append(q, e) \in Seq(S) /\ Len(Append(q, e)) = Len(q) + 1 /\ Len(q) \in Nat
        /\ (\A i \in 1 .. Len(q) : Append(q, e)[i] = q[i]) /\ Append(q, e)[Len(q) + 1] = e
    BY FrontOfAppend
  <2>2. IsPrefix(p, Append(q, e))
    BY <1>5, PrefixOfAppend
  <2>3. PICK g \in Seq(S) : g = Append(q, e)
    BY <2>1
  <2>4. PICK r \in Seq(S) : r = Renamed(q, p, to)
    BY <1>3
  <2>5. PICK w \in Seq(S) : w = Renamed(g, p, to)
    BY <1>3
  <2>6. PICK v \in Seq(S) : v = Append(r, e)
    BY FrontOfAppend
  <2> DEFINE a == Len(p)
             b == Len(q)
             c == Len(to)
  <2>7. /\ Len(r) = c + (b - a)
        /\ \A i \in 1 .. Len(r) : r[i] = IF i <= c THEN to[i] ELSE q[i - c + a]
        /\ a \in Nat /\ c \in Nat /\ b \in Nat /\ a <= b
    <3>1. Shifted(r, q, p, to)
      BY <1>5, <2>4, RenamedIs
    <3> QED
      BY <3>1 DEF Shifted
  <2>8. /\ Len(v) = Len(r) + 1 /\ (\A i \in 1 .. Len(r) : v[i] = r[i]) /\ v[Len(r) + 1] = e
    <3>1. /\ Len(Append(r, e)) = Len(r) + 1 /\ (\A i \in 1 .. Len(r) : Append(r, e)[i] = r[i])
          /\ Append(r, e)[Len(r) + 1] = e
      BY FrontOfAppend
    <3> QED
      BY <2>6, <3>1, Zenon
  <2>9. /\ Len(w) = c + (Len(g) - a)
        /\ \A i \in 1 .. Len(w) : w[i] = IF i <= c THEN to[i] ELSE g[i - c + a]
    <3>1. Shifted(w, g, p, to)
      BY <2>2, <2>3, <2>5, RenamedIs
    <3> QED
      BY <3>1 DEF Shifted
  <2>10. Len(g) = b + 1 /\ (\A i \in 1 .. b : g[i] = q[i]) /\ g[b + 1] = e
    BY <2>1, <2>3
  <2> HIDE DEF a, b, c
  <2>11. Len(w) = Len(v) /\ Len(w) = c + (b - a) + 1
    BY <2>7, <2>8, <2>9, <2>10
  <2>12. ASSUME NEW i \in 1 .. Len(w) PROVE w[i] = v[i]
    <3>1. i \in 1 .. Len(w) /\ i \in Nat /\ (i \in 1 .. Len(r) \/ i = Len(r) + 1)
      BY <2>7, <2>9, <2>11
    <3>2. CASE i <= c
      <4>1. i \in 1 .. Len(r)
        BY <2>7, <3>1, <3>2
      <4> QED
        BY <4>1, <3>1, <3>2, <2>7, <2>8, <2>9
    <3>3. CASE i > c /\ i \in 1 .. Len(r)
      <4>1. i - c + a \in 1 .. b /\ ~(i <= c)
        BY <2>7, <3>1, <3>3
      <4>2. w[i] = g[i - c + a]
        BY <2>9, <3>1, <4>1
      <4>3. v[i] = q[i - c + a]
        BY <2>7, <2>8, <3>3, <4>1
      <4> QED
        BY <4>1, <4>2, <4>3, <2>10
    <3>4. CASE i > c /\ i = Len(r) + 1
      <4>1. i - c + a = b + 1 /\ ~(i <= c)
        BY <2>7, <3>4
      <4>2. w[i] = g[i - c + a]
        BY <2>9, <3>1, <4>1
      <4> QED
        BY <4>1, <4>2, <2>8, <2>10, <3>4
    <3> QED
      BY <2>7, <3>1, <3>2, <3>3, <3>4
  <2>13. w = v
    BY <2>11, <2>12, SeqEqual
  <2> QED
    BY <2>3, <2>4, <2>5, <2>6, <2>13
<1>6. ASSUME NEW q1 \in Seq(S), NEW q2 \in Seq(S), IsPrefix(p, q1), IsPrefix(p, q2),
             Renamed(q1, p, to) = Renamed(q2, p, to)
      PROVE  q1 = q2
  <2> DEFINE a == Len(p)
             b == Len(q1)
             c == Len(to)
  <2>1. PICK r \in Seq(S) : r = Renamed(q1, p, to)
    BY <1>3
  <2>2. /\ Len(r) = c + (b - a)
        /\ \A i \in 1 .. Len(r) : r[i] = IF i <= c THEN to[i] ELSE q1[i - c + a]
        /\ a \in Nat /\ c \in Nat /\ b \in Nat /\ a <= b
        /\ \A i \in 1 .. a : p[i] = q1[i]
    <3>1. Shifted(r, q1, p, to)
      BY <1>6, <2>1, RenamedIs
    <3> QED
      BY <3>1 DEF Shifted
  <2>3. /\ Len(r) = c + (Len(q2) - a)
        /\ \A i \in 1 .. Len(r) : r[i] = IF i <= c THEN to[i] ELSE q2[i - c + a]
        /\ Len(q2) \in Nat /\ \A i \in 1 .. a : p[i] = q2[i]
    <3>1. Shifted(r, q2, p, to)
      BY <1>6, <2>1, RenamedIs
    <3> QED
      BY <3>1 DEF Shifted
  <2> HIDE DEF a, b, c
  <2>n. Len(r) = c + (b - a) /\ a \in Nat /\ b \in Nat /\ c \in Nat /\ a <= b
    BY <2>2
  <2>4. Len(q2) = b
    BY <2>2, <2>3
  <2>5. ASSUME NEW i \in 1 .. b PROVE q1[i] = q2[i]
    <3>1. CASE i <= a
      <4>1. i \in 1 .. a
        BY <2>2, <3>1
      <4> QED
        BY <4>1, <2>2, <2>3
    <3>2. CASE i > a
      <4> DEFINE j == i - a + c
      <4>1. j \in 1 .. Len(r) /\ ~(j <= c) /\ j - c + a = i
        BY <2>n, <3>2
      <4> HIDE DEF j
      <4>2. r[j] = q1[j - c + a] /\ r[j] = q2[j - c + a]
        BY <2>2, <2>3, <2>4, <4>1
      <4> QED
        BY <4>1, <4>2
    <3> QED
      BY <2>2, <3>1, <3>2
  <2> QED
    BY <2>4, <2>5, SeqEqual DEF b
<1> QED
  BY <1>1, <1>2, <1>3, <1>4, <1>5, <1>6

(* What a place is made of: a store, then names; the record of a store     *)
(* is called "/" instead.                                                  *)
Elem == StoreId \cup Names \cup {"/"}
Where == Seq(Elem)

(* Whatever is on a store is in directories all the way up. *)
LEMMA PrefixStored ==
  ASSUME NEW d, WellFormed(d), DOMAIN d \subseteq Where,
         NEW p \in Where, NEW q \in DOMAIN d, IsPrefix(p, q), Len(p) > 0
  PROVE  p \in DOMAIN d /\ (p # q => d[p] = Dir)
<1>1. CASE p = q
  BY <1>1
<1>2. CASE p # q
  <2> DEFINE Deeper == {g \in DOMAIN d : IsPrefix(p, g) /\ p # g}
             Lengths == {Len(g) : g \in Deeper}
  <2>1. Lengths \subseteq Nat /\ Len(q) \in Lengths
    BY <1>2, LenProperties DEF Where
  <2> HIDE DEF Lengths
  <2>2. PICK k \in Lengths : \A j \in Lengths : k <= j
    BY <2>1, LeastMember
  <2> USE DEF Lengths
  <2>3. PICK g \in Deeper : Len(g) = k
    OBVIOUS
  <2>4. g \in Seq(Elem) /\ p \in Seq(Elem) /\ Len(p) \in Nat /\ Len(g) \in Nat
    BY LenProperties DEF Where
  <2>5. Len(p) <= Len(g) /\ Len(p) # Len(g)
    BY <2>3, <2>4, PrefixFacts
  <2>6. Len(g) > 1
    BY <2>4, <2>5
  <2>7. \A s \in StoreId : Len(<<s>>) = 1
    OBVIOUS
  <2>8. Last(g) \in Names /\ Front(g) \in DOMAIN d /\ d[Front(g)] = Dir
    <3>1. g \in DOMAIN d
      OBVIOUS
    <3>2. (\E s \in StoreId : g = <<s>>)
          \/ (Last(g) \in Names /\ Front(g) \in DOMAIN d /\ d[Front(g)] = Dir)
      BY <3>1, Zenon DEF WellFormed
    <3>3. ASSUME NEW s \in StoreId, g = <<s>> PROVE FALSE
      <4>1. Len(g) = 1
        BY <3>3, Zenon, <2>7
      <4> QED
        BY <2>6, <4>1
    <3> QED
      BY <3>2, <3>3
  <2>9. g = Append(Front(g), Last(g)) /\ Front(g) \in Seq(Elem) /\ Last(g) \in Elem /\ Len(Front(g)) = Len(g) - 1
    BY <2>4, <2>6, FrontLast
  <2>10. IsPrefix(p, Front(g))
    <3>1. IsPrefix(p, Append(Front(g), Last(g))) <=> IsPrefix(p, Front(g)) \/ p = Append(Front(g), Last(g))
      BY <2>4, <2>9, PrefixOfAppend
    <3> QED
      BY <3>1, <2>9
  <2>11. p = Front(g)
    <3> SUFFICES ASSUME p # Front(g) PROVE FALSE
      OBVIOUS
    <3>1. Front(g) \in Deeper
      BY <2>8, <2>10
    <3>2. Len(Front(g)) \in Lengths
      BY <3>1
    <3>3. k <= Len(Front(g))
      <4> HIDE DEF Lengths
      <4> QED
        BY <2>2, <3>2
    <3> QED
      BY <2>3, <2>4, <2>9, <3>3
  <2> QED
    BY <2>8, <2>11
<1> QED
  BY <1>1, <1>2


(* What holds for 0 and goes on from each number to the next. *)
LEMMA Induct ==
  ASSUME NEW n \in Nat, NEW T, 0 \in T, \A i \in 1 .. n : i - 1 \in T => i \in T
  PROVE  0 .. n \subseteq T
<1> DEFINE Rest == {i \in 0 .. n : i \notin T}
<1>1. SUFFICES ASSUME Rest # {} PROVE FALSE
  OBVIOUS
<1>2. Rest \subseteq Nat
  OBVIOUS
<1> HIDE DEF Rest
<1>3. PICK i \in Rest : \A j \in Rest : i <= j
  BY <1>1, <1>2, LeastMember
<1> USE DEF Rest
<1>4. i \in 1 .. n
  OBVIOUS
<1>5. i - 1 \in 0 .. n /\ ~(i <= i - 1)
  BY <1>4
<1>6. i - 1 \notin Rest
  <2> HIDE DEF Rest
  <2> QED
    BY <1>3, <1>5
<1> QED
  BY <1>4, <1>5, <1>6

(***************************************************************************)
(* The machine and its index.                                              *)
(***************************************************************************)
Rec == [store : StoreId, parent : Int, sibling : Int, child : Int, isdir : BOOLEAN,
        scanned : BOOLEAN, name : Names \cup {NoName, "/"}]
(* The index file: as many records as handles were given out. *)
Index == UNION {[0 .. n - 1 -> Rec] : n \in Nat}
(* The stores: a size for every file, Dir for every directory. *)
Discs == UNION {[D -> Content \cup {Dir}] : D \in SUBSET Where}
(* What the device keeps: the stores, the index, whether it was listed     *)
(* as a whole, and the open file.                                          *)
Machine == [disk : Discs, recs : Index, all : BOOLEAN, file : Where, mode : {"read", "write"},
            open : Int, hung : BOOLEAN]

(* The handles of the records are the first ones. *)
LEMMA IndexSize ==
  ASSUME NEW x \in Machine
  PROVE  /\ NextHandle(x) \in Nat /\ x.recs \in [0 .. NextHandle(x) - 1 -> Rec]
         /\ DOMAIN x.recs = 0 .. NextHandle(x) - 1
<1>1. PICK n \in Nat : x.recs \in [0 .. n - 1 -> Rec]
  BY DEF Machine, Index
<1>2. DOMAIN x.recs = 0 .. n - 1
  BY <1>1
<1>3. Cardinality(0 .. n - 1) = n
  <2>1. 0 \in Int /\ n - 1 \in Int
    OBVIOUS
  <2>2. Cardinality(0 .. n - 1) = IF 0 > n - 1 THEN 0 ELSE (n - 1) - 0 + 1
    BY <2>1, FS_Interval, Zenon
  <2> QED
    BY <2>2
<1>4. NextHandle(x) = n
  BY <1>2, <1>3 DEF NextHandle
<1> QED
  BY <1>1, <1>2, <1>4

(* Every store has a record that is no child of any, and every other       *)
(* record is the child of one.                                             *)
Indexed(x) ==
  /\ DOMAIN x.recs # {} => StoreId \subseteq DOMAIN x.recs
  /\ \A s \in StoreId \cap DOMAIN x.recs :
       x.recs[s].parent = NoParent /\ x.recs[s].sibling = 0 /\ x.recs[s].store = s /\ x.recs[s].isdir
  /\ \A h \in DOMAIN x.recs \ StoreId : x.recs[h].parent \in DOMAIN x.recs

(* P is where the objects are that the host may know.  The others are       *)
(* deleted, or in a directory that is.                                      *)
Known(x, P) ==
  /\ P \in [DOMAIN P -> Where] /\ DOMAIN P \subseteq DOMAIN x.recs
  /\ StoreId \cap DOMAIN x.recs \subseteq DOMAIN P
  /\ \A h \in DOMAIN P : x.recs[h].store = P[h][1]
  /\ \A s \in StoreId \cap DOMAIN P : P[s] = <<s>>
  /\ \A h \in DOMAIN P \ StoreId :
       /\ x.recs[h].parent \in DOMAIN P /\ x.recs[x.recs[h].parent].isdir
       /\ x.recs[h].name \in Names
       /\ P[h] = Append(P[x.recs[h].parent], x.recs[h].name)
  /\ \A h \in DOMAIN x.recs \ DOMAIN P : x.recs[h].name = NoName \/ x.recs[h].parent \notin DOMAIN P

(* An object's place is its directory's and its name. *)
LEMMA KnownIs ==
  ASSUME NEW x \in Machine, NEW P, Known(x, P)
  PROVE  /\ \A h \in DOMAIN P :
              /\ h \in DOMAIN x.recs /\ P[h] \in Seq(Elem) /\ P[h] \in Where
              /\ Len(P[h]) \in Nat /\ Len(P[h]) >= 1
              /\ x.recs[h].store = P[h][1]
         /\ \A s \in StoreId \cap DOMAIN P : P[s] = <<s>> /\ Len(P[s]) = 1
         /\ \A h \in DOMAIN P \ StoreId :
              /\ x.recs[h].parent \in DOMAIN P /\ x.recs[h].name \in Names
              /\ x.recs[h].name \in Elem
              /\ P[h] = Append(P[x.recs[h].parent], x.recs[h].name)
              /\ Len(P[h]) = Len(P[x.recs[h].parent]) + 1 /\ Len(P[h]) > 1
              /\ P[h][1] = P[x.recs[h].parent][1]
<1>1. \A h \in DOMAIN P : h \in DOMAIN x.recs /\ P[h] \in Seq(Elem) /\ Len(P[h]) \in Nat /\ x.recs[h].store = P[h][1]
  <2>1. P \in [DOMAIN P -> Where]
    BY DEF Known
  <2>2. \A h \in DOMAIN P : P[h] \in Seq(Elem)
    BY <2>1 DEF Where
  <2> QED
    BY <2>2, LenProperties DEF Known
<1>2. ASSUME NEW s \in StoreId \cap DOMAIN P PROVE P[s] = <<s>> /\ Len(P[s]) = 1
  BY DEF Known
<1>3. ASSUME NEW h \in DOMAIN P \ StoreId
      PROVE  /\ x.recs[h].parent \in DOMAIN P /\ x.recs[h].name \in Names /\ x.recs[h].name \in Elem
             /\ P[h] = Append(P[x.recs[h].parent], x.recs[h].name)
             /\ Len(P[h]) = Len(P[x.recs[h].parent]) + 1
             /\ \A i \in 1 .. Len(P[x.recs[h].parent]) : P[h][i] = P[x.recs[h].parent][i]
  <2>1. /\ x.recs[h].parent \in DOMAIN P /\ x.recs[h].name \in Names
        /\ P[h] = Append(P[x.recs[h].parent], x.recs[h].name)
    BY DEF Known
  <2>2. x.recs[h].name \in Elem
    BY <2>1 DEF Elem
  <2>3. PICK q \in Seq(Elem) : q = P[x.recs[h].parent]
    BY <1>1, <2>1
  <2>4. PICK e \in Elem : e = x.recs[h].name
    BY <2>2
  <2>5. Len(Append(q, e)) = Len(q) + 1 /\ \A i \in 1 .. Len(q) : Append(q, e)[i] = q[i]
    BY FrontOfAppend
  <2> QED
    BY <2>1, <2>2, <2>3, <2>4, <2>5
<1>4. ASSUME NEW h \in DOMAIN P PROVE Len(P[h]) >= 1
  <2>1. CASE h \in StoreId
    <3>1. h \in StoreId \cap DOMAIN P
      BY <2>1
    <3>2. Len(P[h]) = 1
      BY <3>1, <1>2
    <3> QED
      BY <3>2
  <2>2. CASE h \notin StoreId
    BY <2>2, <1>1, <1>3
  <2> QED
    BY <2>1, <2>2
<1>5. ASSUME NEW h \in DOMAIN P \ StoreId PROVE Len(P[h]) > 1 /\ P[h][1] = P[x.recs[h].parent][1]
  <2>1. x.recs[h].parent \in DOMAIN P
    BY <1>3
  <2>2. Len(P[x.recs[h].parent]) \in Nat /\ Len(P[x.recs[h].parent]) >= 1
    BY <2>1, <1>1, <1>4
  <2>3. 1 \in 1 .. Len(P[x.recs[h].parent])
    BY <2>2
  <2> QED
    BY <1>3, <2>2, <2>3
<1> QED
  BY <1>1, <1>2, <1>3, <1>4, <1>5 DEF Where

(* No object is deeper than there are records. *)
LEMMA DepthBound ==
  ASSUME NEW x \in Machine, NEW P, Known(x, P), NEW h \in DOMAIN P
  PROVE  Len(P[h]) <= NextHandle(x)
<1> DEFINE T == {Len(P[g]) : g \in DOMAIN P}
           N == NextHandle(x)
           L == Len(P[h])
<1>1. T \subseteq Nat /\ L \in T /\ L \in Nat
  BY KnownIs
<1>2. ASSUME NEW k \in T, k > 1 PROVE k - 1 \in T
  <2>1. PICK g \in DOMAIN P : k = Len(P[g])
    OBVIOUS
  <2>2. g \notin StoreId
    <3> SUFFICES ASSUME g \in StoreId PROVE FALSE
      OBVIOUS
    <3>1. g \in StoreId \cap DOMAIN P
      BY <2>1
    <3>2. Len(P[g]) = 1
      BY <3>1, KnownIs
    <3> QED
      BY <1>2, <2>1, <3>2
  <2>3. x.recs[g].parent \in DOMAIN P /\ k = Len(P[x.recs[g].parent]) + 1 /\ Len(P[x.recs[g].parent]) \in Nat
    BY <2>1, <2>2, KnownIs
  <2> QED
    BY <2>3
<1> HIDE DEF T, L
<1>3. ASSUME NEW k \in 1 .. L PROVE k \in T
  <2> SUFFICES ASSUME k \notin T PROVE FALSE
    OBVIOUS
  <2> DEFINE Above == {j \in T : j > k}
  <2>1. Above \subseteq Nat /\ L \in Above
    <3>1. L # k /\ L > k
      BY <1>1
    <3> QED
      BY <1>1, <3>1
  <2> HIDE DEF Above
  <2>2. PICK j \in Above : \A i \in Above : j <= i
    BY <2>1, LeastMember
  <2> USE DEF Above
  <2>3. j \in T /\ j > k /\ j \in Nat /\ j > 1 /\ k \in Nat
    BY <1>1
  <2>4. j - 1 \in T /\ j - 1 # k
    BY <1>2, <2>3
  <2>5. j - 1 > k /\ ~(j <= j - 1)
    BY <2>3, <2>4
  <2>6. j - 1 \in Above
    BY <2>4, <2>5
  <2> HIDE DEF Above
  <2> QED
    BY <2>2, <2>5, <2>6
<1> USE DEF T
<1> DEFINE f == [k \in 1 .. L |-> CHOOSE g \in DOMAIN P : Len(P[g]) = k]
<1>4. ASSUME NEW k \in 1 .. L PROVE f[k] \in DOMAIN P /\ Len(P[f[k]]) = k
  <2>1. \E g \in DOMAIN P : Len(P[g]) = k
    BY <1>3
  <2> QED
    BY <2>1
<1>5. DOMAIN P \subseteq 0 .. N - 1 /\ N \in Nat
  BY IndexSize DEF Known
<1> HIDE DEF f, T, N
<1>6. f \in Injection(1 .. L, 0 .. N - 1)
  <2>1. f \in [1 .. L -> 0 .. N - 1]
    <3>1. \A k \in 1 .. L : f[k] \in 0 .. N - 1
      BY <1>4, <1>5
    <3> QED
      BY <3>1 DEF f
  <2>2. ASSUME NEW i \in 1 .. L, NEW j \in 1 .. L, f[i] = f[j] PROVE i = j
    BY <1>4, <2>2
  <2> QED
    BY <2>1, <2>2 DEF Injection, IsInjective
<1>7. IsFiniteSet(0 .. N - 1) /\ Cardinality(0 .. N - 1) = N
  <2>1. 0 \in Int /\ N - 1 \in Int
    BY <1>5
  <2>2. IsFiniteSet(0 .. N - 1) /\ Cardinality(0 .. N - 1) = IF 0 > N - 1 THEN 0 ELSE (N - 1) - 0 + 1
    BY <2>1, FS_Interval, Zenon
  <2> QED
    BY <2>2, <1>5
<1>8. Cardinality(1 .. L) = L
  <2>1. 1 \in Int /\ L \in Int
    BY <1>1
  <2>2. Cardinality(1 .. L) = IF 1 > L THEN 0 ELSE L - 1 + 1
    BY <2>1, FS_Interval, Zenon
  <2> QED
    BY <2>2, <1>1
<1>9. Cardinality(1 .. L) <= Cardinality(0 .. N - 1)
  BY <1>6, <1>7, FS_Injection, Zenon
<1> QED
  BY <1>7, <1>8, <1>9 DEF L, N


(* A sequence of one element, and of none. *)
LEMMA Single ==
  ASSUME NEW S, NEW e \in S
  PROVE  /\ <<e>> \in Seq(S) /\ Len(<<e>>) = 1 /\ <<e>>[1] = e
         /\ <<>> \in Seq(S) /\ Len(<<>>) = 0
OBVIOUS

(* One more directory on the way up from an object. *)
Upward(x, f) ==
  [g \in DOMAIN x.recs |->
     IF x.recs[g].parent = NoParent THEN <<>>
     ELSE f[x.recs[g].parent]
            \o IF x.recs[g].name = NoName THEN <<>> ELSE <<x.recs[g].name>>]

(* One more directory on the way up makes a place of every place. *)
LEMMA UpwardIs ==
  ASSUME NEW x \in Machine, Indexed(x), NEW f \in [DOMAIN x.recs -> Where]
  PROVE  Upward(x, f) \in [DOMAIN x.recs -> Where]
<1>1. ASSUME NEW g \in DOMAIN x.recs PROVE Upward(x, f)[g] \in Where
  <2>1. x.recs[g].name \in Names \cup {NoName, "/"}
    BY IndexSize DEF Rec
  <2>2. CASE x.recs[g].parent = NoParent
    <3>1. Upward(x, f)[g] = <<>>
      BY <2>2 DEF Upward
    <3> QED
      BY <3>1 DEF Where
  <2>3. CASE x.recs[g].parent # NoParent
    <3>1. x.recs[g].parent \in DOMAIN x.recs
      BY <2>3 DEF Indexed
    <3>2. PICK u \in Seq(Elem) : u = f[x.recs[g].parent]
      BY <3>1 DEF Where
    <3>3. PICK w \in Seq(Elem) : w = IF x.recs[g].name = NoName THEN <<>> ELSE <<x.recs[g].name>>
      <4>1. x.recs[g].name # NoName => x.recs[g].name \in Elem
        BY <2>1 DEF Elem
      <4>2. <<>> \in Seq(Elem)
        BY EmptySeq
      <4>3. x.recs[g].name # NoName => <<x.recs[g].name>> \in Seq(Elem)
        BY <4>1, Single
      <4> QED
        BY <4>2, <4>3
    <3>4. Upward(x, f)[g] = u \o w
      BY <2>3, <3>2, <3>3, Zenon DEF Upward
    <3>5. u \o w \in Seq(Elem)
      BY ConcatProperties
    <3> QED
      BY <3>4, <3>5 DEF Where
  <2> QED
    BY <2>2, <2>3
<1> QED
  BY <1>1 DEF Upward

(* The function that ConstructFilename's calls of itself make. *)
Paths(x, h) == h = [n \in 0 .. NextHandle(x) |->
        [g \in DOMAIN x.recs |->
           IF n = 0 \/ x.recs[g].parent = NoParent THEN <<>>
           ELSE h[n - 1][x.recs[g].parent]
                  \o IF x.recs[g].name = NoName THEN <<>> ELSE <<x.recs[g].name>>]]

(* ConstructFilename goes up by one directory in each call of itself. *)
LEMMA PathsAre ==
  ASSUME NEW x \in Machine, Indexed(x), NEW h \in DOMAIN x.recs
  PROVE  \E f : /\ \A n \in 0 .. NextHandle(x) : f[n] \in [DOMAIN x.recs -> Where]
                /\ \A g \in DOMAIN x.recs : f[0][g] = <<>>
                /\ \A n \in 1 .. NextHandle(x) : f[n] = Upward(x, f[n - 1])
                /\ Path(x, h) = f[NextHandle(x)][h]
<1> DEFINE N == NextHandle(x)
           S == [DOMAIN x.recs -> Where]
           nowhere == [g \in DOMAIN x.recs |-> <<>>]
           step == [n \in 1 .. N |-> [f \in S |-> Upward(x, f)]]
<1>1. N \in Nat
  BY IndexSize
<1>2. nowhere \in S
  BY DEF Where
<1>3. step \in [1 .. N -> [S -> S]]
  <2>1. \A f \in S : Upward(x, f) \in S
    BY UpwardIs
  <2> HIDE DEF S
  <2> QED
    BY <2>1
<1>4. PICK g \in [0 .. N -> S] : Repeats(g, N, nowhere, step)
  <2> HIDE DEF step, nowhere, S
  <2> QED
    BY <1>1, <1>2, <1>3, Recursion, Zenon
<1>5. \A n \in 1 .. N : g[n] = Upward(x, g[n - 1])
  <2> SUFFICES ASSUME NEW n \in 1 .. N PROVE g[n] = Upward(x, g[n - 1])
    OBVIOUS
  <2>1. n \in 0 .. N /\ n - 1 \in 0 .. N /\ n # 0
    BY <1>1
  <2>2. g[n - 1] \in S
    BY <2>1
  <2>3. g[n] = step[n][g[n - 1]]
    <3> HIDE DEF step, S
    <3> QED
      BY <1>4, <2>1 DEF Repeats
  <2> HIDE DEF S
  <2> QED
    BY <2>2, <2>3
<1>6. g[0] = nowhere
  <2>1. 0 \in 0 .. N
    BY <1>1
  <2> HIDE DEF step, nowhere, S
  <2> QED
    BY <1>4, <2>1 DEF Repeats
<1>7. Paths(x, g)
  <2> DEFINE row(n) == [a \in DOMAIN x.recs |->
           IF n = 0 \/ x.recs[a].parent = NoParent THEN <<>>
           ELSE g[n - 1][x.recs[a].parent]
                  \o IF x.recs[a].name = NoName THEN <<>> ELSE <<x.recs[a].name>>]
  <2>1. ASSUME NEW n \in 0 .. N PROVE g[n] = row(n)
    <3>1. CASE n = 0
      BY <1>6, <3>1
    <3>2. CASE n # 0
      <4>1. n \in 1 .. N
        BY <1>1, <3>2
      <4> HIDE DEF step, nowhere, S, N
      <4> QED
        BY <1>5, <4>1, <3>2, Zenon DEF Upward
    <3> QED
      BY <3>1, <3>2
  <2>2. g = [n \in 0 .. N |-> row(n)]
    <3> HIDE DEF row, step, nowhere, S
    <3> QED
      BY <2>1
  <2> QED
    BY <2>2 DEF Paths
<1>8. PICK f : f = CHOOSE k : Paths(x, k)
  OBVIOUS
<1>9. Path(x, h) = f[N][h]
  BY <1>8 DEF Path, Paths
<1>10. Paths(x, f)
  <2> HIDE DEF step, nowhere, S, N
  <2> QED
    BY <1>7, <1>8, Zenon
<1>11. \A a \in DOMAIN x.recs : f[0][a] = <<>>
  <2>1. 0 \in 0 .. N
    BY <1>1
  <2>2. f[0] = [a \in DOMAIN x.recs |->
                  IF 0 = 0 \/ x.recs[a].parent = NoParent THEN <<>>
                  ELSE f[0 - 1][x.recs[a].parent]
                         \o IF x.recs[a].name = NoName THEN <<>> ELSE <<x.recs[a].name>>]
    BY <1>10, <2>1 DEF Paths
  <2> QED
    BY <2>2
<1>12. \A n \in 1 .. N : f[n] = Upward(x, f[n - 1])
  <2> SUFFICES ASSUME NEW n \in 1 .. N PROVE f[n] = Upward(x, f[n - 1])
    OBVIOUS
  <2>1. n \in 0 .. N /\ n # 0
    BY <1>1
  <2>2. f[n] = [a \in DOMAIN x.recs |->
           IF n = 0 \/ x.recs[a].parent = NoParent THEN <<>>
           ELSE f[n - 1][x.recs[a].parent]
                  \o IF x.recs[a].name = NoName THEN <<>> ELSE <<x.recs[a].name>>]
    <3> HIDE DEF step, nowhere, S
    <3> QED
      BY <1>10, <2>1, Zenon DEF Paths
  <2> HIDE DEF step, nowhere, S, N
  <2> QED
    BY <2>1, <2>2 DEF Upward
<1>13. \A n \in 0 .. N : f[n] \in S
  <2> DEFINE T == {n \in 0 .. N : f[n] \in S}
  <2>1. 0 \in T
    <3>1. 0 \in 0 .. N
      BY <1>1
    <3>2. f[0] = [a \in DOMAIN x.recs |-> <<>>]
      <4>1. f[0] = [a \in DOMAIN x.recs |->
           IF 0 = 0 \/ x.recs[a].parent = NoParent THEN <<>>
           ELSE f[0 - 1][x.recs[a].parent]
                  \o IF x.recs[a].name = NoName THEN <<>> ELSE <<x.recs[a].name>>]
        <5> HIDE DEF step, nowhere, S
        <5> QED
          BY <1>10, <3>1, Zenon DEF Paths
      <4> HIDE DEF step, nowhere, S, N
      <4> QED
        BY <4>1
    <3> QED
      BY <3>1, <3>2, <1>2
  <2>2. ASSUME NEW n \in 1 .. N, n - 1 \in T PROVE n \in T
    <3>1. Upward(x, f[n - 1]) \in S /\ n \in 0 .. N
      BY <1>1, <2>2, UpwardIs
    <3> QED
      BY <3>1, <1>12
  <2> HIDE DEF T
  <2>3. 0 .. N \subseteq T
    BY <1>1, <2>1, <2>2, Induct
  <2> USE DEF T
  <2> QED
    BY <2>3
<1> HIDE DEF step, nowhere
<1> QED
  BY <1>9, <1>11, <1>12, <1>13

(* A path is one, whatever the record. *)
LEMMA PathType ==
  ASSUME NEW x \in Machine, Indexed(x), NEW h
  PROVE  Path(x, h) \in Where
<1>1. CASE h \in DOMAIN x.recs
  <2>1. NextHandle(x) \in 0 .. NextHandle(x)
    BY IndexSize
  <2>2. PICK f : /\ \A n \in 0 .. NextHandle(x) : f[n] \in [DOMAIN x.recs -> Where]
                 /\ Path(x, h) = f[NextHandle(x)][h]
    BY <1>1, PathsAre
  <2>3. f[NextHandle(x)] \in [DOMAIN x.recs -> Where]
    BY <2>1, <2>2
  <2> QED
    BY <1>1, <2>2, <2>3
<1>2. CASE h \notin DOMAIN x.recs
  <2>1. Path(x, h) = <<>>
    BY <1>2, Zenon DEF Path
  <2> QED
    BY <2>1, EmptySeq DEF Where
<1> QED
  BY <1>1, <1>2

(* Where an object of the index is. *)
LEMMA PlaceIs ==
  ASSUME NEW x \in Machine, Indexed(x), NEW P, Known(x, P), NEW h \in DOMAIN P
  PROVE  <<x.recs[h].store>> \o Path(x, h) = P[h] /\ PlaceOf(x, h) = P[h]
<1> DEFINE N == NextHandle(x)
<1>1. h \in DOMAIN x.recs /\ N \in Nat
  BY KnownIs, IndexSize
<1>2. PICK f : /\ \A n \in 0 .. N : f[n] \in [DOMAIN x.recs -> Where]
               /\ \A g \in DOMAIN x.recs : f[0][g] = <<>>
               /\ \A n \in 1 .. N : f[n] = Upward(x, f[n - 1])
               /\ Path(x, h) = f[N][h]
  BY <1>1, PathsAre
<1> DEFINE Reach(n) == \A g \in DOMAIN P : Len(P[g]) <= n + 1 => <<x.recs[g].store>> \o f[n][g] = P[g]
           T == {n \in 0 .. N : Reach(n)}
<1>3. ASSUME NEW g \in StoreId \cap DOMAIN P PROVE <<x.recs[g].store>> \o <<>> = P[g]
  <2>1. P[g] = <<g>> /\ x.recs[g].store = g
    BY <1>3, KnownIs DEF Known, Indexed
  <2>2. <<g>> \o <<>> = <<g>>
    BY ConcatEmptySeq
  <2> QED
    BY <2>1, <2>2
<1>4. 0 \in T
  <2>1. ASSUME NEW g \in DOMAIN P, Len(P[g]) <= 1 PROVE <<x.recs[g].store>> \o f[0][g] = P[g]
    <3>1. g \in StoreId
      BY <2>1, KnownIs
    <3>2. g \in DOMAIN x.recs
      BY KnownIs
    <3> QED
      BY <3>1, <3>2, <1>2, <1>3
  <2> QED
    BY <2>1, <1>1
<1>5. ASSUME NEW n \in 1 .. N, n - 1 \in T PROVE n \in T
  <2>1. ASSUME NEW g \in DOMAIN P, Len(P[g]) <= n + 1 PROVE <<x.recs[g].store>> \o f[n][g] = P[g]
    <3>1. g \in DOMAIN x.recs /\ f[n][g] = Upward(x, f[n - 1])[g]
      BY KnownIs, <1>2
    <3>2. CASE g \in StoreId
      <4>1. x.recs[g].parent = NoParent
        BY <3>1, <3>2 DEF Indexed
      <4>2. f[n][g] = <<>>
        BY <3>1, <4>1 DEF Upward
      <4> QED
        BY <2>1, <3>2, <4>2, <1>3
    <3>3. CASE g \notin StoreId
      <4>1. g \in DOMAIN P \ StoreId
        BY <3>3
      <4> DEFINE p == x.recs[g].parent
                 e == x.recs[g].name
      <4>2. /\ p \in DOMAIN P /\ e \in Names /\ e \in Elem /\ P[g] = Append(P[p], e)
            /\ Len(P[g]) = Len(P[p]) + 1 /\ P[g][1] = P[p][1] /\ Len(P[p]) \in Nat
            /\ x.recs[g].store = P[g][1] /\ x.recs[p].store = P[p][1] /\ p \in DOMAIN x.recs
        BY <4>1, KnownIs
      <4>3. Len(P[p]) <= (n - 1) + 1
        BY <2>1, <4>2
      <4>4. <<x.recs[p].store>> \o f[n - 1][p] = P[p]
        BY <1>5, <4>2, <4>3
      <4>5. PICK u \in Seq(Elem) : u = f[n - 1][p]
        <5>1. n - 1 \in 0 .. N
          BY <1>1
        <5> QED
          BY <1>2, <4>2, <5>1 DEF Where
      <4>6. p # NoParent /\ e # NoName
        <5>1. p # NoParent
          BY <4>2, IndexSize DEF NoParent
        <5>2. e # NoName
          BY <4>2, NamesAssumption
        <5> QED
          BY <5>1, <5>2
      <4>7. f[n][g] = u \o <<e>>
        BY <3>1, <4>5, <4>6, ZenonT(60) DEF Upward
      <4>8. PICK s \in Seq(Elem) : s = <<x.recs[g].store>>
        <5>1. x.recs[g].store \in StoreId
          BY <3>1, IndexSize DEF Rec
        <5>2. x.recs[g].store \in Elem
          BY <5>1 DEF Elem
        <5> QED
          BY <5>2, Single
      <4>9. PICK t \in Seq(Elem) : t = <<e>>
        BY <4>2, Single
      <4>10. s \o (u \o t) = (s \o u) \o t
        BY ConcatAssociative, SMTT(20)
      <4>11. s \o u = P[p] /\ P[p] \in Seq(Elem)
        <5>1. P[p] \in Seq(Elem)
          BY <4>2, KnownIs
        <5>2. x.recs[g].store = x.recs[p].store
          BY <4>2, Zenon
        <5> QED
          BY <4>4, <4>5, <4>8, <5>1, <5>2, Zenon
      <4>12. Append(P[p], e) = P[p] \o <<e>>
        BY <4>2, <4>11, AppendIsConcat
      <4> QED
        BY <4>2, <4>7, <4>8, <4>9, <4>10, <4>11, <4>12
    <3> QED
      BY <3>2, <3>3
  <2>2. n \in 0 .. N
    BY <1>1
  <2> QED
    BY <2>1, <2>2
<1> HIDE DEF T, N
<1>6. 0 .. N \subseteq T
  BY <1>1, <1>4, <1>5, Induct
<1> USE DEF T, N
<1>7. N \in T
  BY <1>1, <1>6
<1>8. Len(P[h]) <= N /\ Len(P[h]) \in Nat
  BY DepthBound, KnownIs
<1>9. <<x.recs[h].store>> \o Path(x, h) = P[h]
  BY <1>1, <1>2, <1>7, <1>8
<1> QED
  BY <1>1, <1>9 DEF PlaceOf, Read


(* One more directory on the way up to a root. *)
Rootward(x, f) ==
  [g \in DOMAIN x.recs |->
     IF g \in StoreId THEN g
     ELSE IF x.recs[g].name = NoName THEN Bad
     ELSE f[x.recs[g].parent]]

(* The function that the climb to a root makes. *)
Roots(x, h) == h = [n \in 0 .. NextHandle(x) |->
        [g \in DOMAIN x.recs |->
           IF g \in StoreId THEN g
           ELSE IF n = 0 \/ x.recs[g].name = NoName THEN Bad
           ELSE h[n - 1][x.recs[g].parent]]]

(* Root goes up by one directory in each step, and stays at a root. *)
LEMMA RootsAre ==
  ASSUME NEW x \in Machine, Indexed(x)
  PROVE  \E f : /\ \A n \in 0 .. NextHandle(x) : f[n] \in [DOMAIN x.recs -> Int]
                /\ \A g \in DOMAIN x.recs : f[0][g] = IF g \in StoreId THEN g ELSE Bad
                /\ \A n \in 1 .. NextHandle(x) : f[n] = Rootward(x, f[n - 1])
                /\ \A h : Root(x, h) = f[NextHandle(x)][h]
<1> DEFINE N == NextHandle(x)
           S == [DOMAIN x.recs -> Int]
           first == [g \in DOMAIN x.recs |-> IF g \in StoreId THEN g ELSE Bad]
           step == [n \in 1 .. N |-> [f \in S |-> Rootward(x, f)]]
<1>1. N \in Nat /\ DOMAIN x.recs \subseteq Int
  BY IndexSize
<1>2. first \in S
  BY <1>1 DEF Bad
<1>3. \A f \in S : Rootward(x, f) \in S
  <2> SUFFICES ASSUME NEW f \in S PROVE Rootward(x, f) \in S
    OBVIOUS
  <2>1. ASSUME NEW g \in DOMAIN x.recs PROVE Rootward(x, f)[g] \in Int
    <3>1. g \notin StoreId => x.recs[g].parent \in DOMAIN x.recs
      BY DEF Indexed
    <3> QED
      BY <1>1, <3>1 DEF Rootward, Bad
  <2> QED
    BY <2>1 DEF Rootward
<1>4. step \in [1 .. N -> [S -> S]]
  <2> HIDE DEF S
  <2> QED
    BY <1>3
<1>5. PICK g \in [0 .. N -> S] : Repeats(g, N, first, step)
  <2> HIDE DEF step, first, S
  <2> QED
    BY <1>1, <1>2, <1>4, Recursion, Zenon
<1>6. \A n \in 1 .. N : g[n] = Rootward(x, g[n - 1])
  <2> SUFFICES ASSUME NEW n \in 1 .. N PROVE g[n] = Rootward(x, g[n - 1])
    OBVIOUS
  <2>1. n \in 0 .. N /\ n - 1 \in 0 .. N /\ n # 0
    BY <1>1
  <2>2. g[n - 1] \in S
    BY <2>1
  <2>3. g[n] = step[n][g[n - 1]]
    <3> HIDE DEF step, S
    <3> QED
      BY <1>5, <2>1 DEF Repeats
  <2> HIDE DEF S
  <2> QED
    BY <2>2, <2>3
<1>7. g[0] = first
  <2>1. 0 \in 0 .. N
    BY <1>1
  <2> HIDE DEF step, first, S
  <2> QED
    BY <1>5, <2>1 DEF Repeats
<1>8. Roots(x, g)
  <2> DEFINE row(n) == [a \in DOMAIN x.recs |->
           IF a \in StoreId THEN a
           ELSE IF n = 0 \/ x.recs[a].name = NoName THEN Bad
           ELSE g[n - 1][x.recs[a].parent]]
  <2>1. ASSUME NEW n \in 0 .. N PROVE g[n] = row(n)
    <3>1. CASE n = 0
      BY <1>7, <3>1
    <3>2. CASE n # 0
      <4>1. n \in 1 .. N
        BY <1>1, <3>2
      <4> HIDE DEF step, first, S, N
      <4> QED
        BY <1>6, <4>1, <3>2, Zenon DEF Rootward
    <3> QED
      BY <3>1, <3>2
  <2>2. g = [n \in 0 .. N |-> row(n)]
    <3> HIDE DEF row, step, first, S
    <3> QED
      BY <2>1
  <2> QED
    BY <2>2 DEF Roots
<1>9. PICK f : f = CHOOSE k : Roots(x, k)
  OBVIOUS
<1>10. \A h : Root(x, h) = f[N][h]
  BY <1>9 DEF Root, Roots
<1>11. Roots(x, f)
  <2> HIDE DEF step, first, S, N
  <2> QED
    BY <1>8, <1>9
<1>12. \A n \in 0 .. N : f[n] = [a \in DOMAIN x.recs |->
           IF a \in StoreId THEN a
           ELSE IF n = 0 \/ x.recs[a].name = NoName THEN Bad
           ELSE f[n - 1][x.recs[a].parent]]
  <2> HIDE DEF step, first, S
  <2> QED
    BY <1>11, Zenon DEF Roots
<1> HIDE DEF step
<1>13. f[0] = first
  <2>1. 0 \in 0 .. N
    BY <1>1
  <2> HIDE DEF S, N
  <2> QED
    BY <1>12, <2>1
<1>14. \A n \in 1 .. N : f[n] = Rootward(x, f[n - 1])
  <2> SUFFICES ASSUME NEW n \in 1 .. N PROVE f[n] = Rootward(x, f[n - 1])
    OBVIOUS
  <2>1. n \in 0 .. N /\ n # 0
    BY <1>1
  <2> HIDE DEF S, N
  <2> QED
    BY <1>12, <2>1 DEF Rootward
<1>15. \A n \in 0 .. N : f[n] \in S
  <2> DEFINE T == {n \in 0 .. N : f[n] \in S}
  <2>1. 0 \in T
    BY <1>1, <1>2, <1>13
  <2>2. ASSUME NEW n \in 1 .. N, n - 1 \in T PROVE n \in T
    <3>1. Rootward(x, f[n - 1]) \in S /\ n \in 0 .. N
      BY <1>1, <2>2, <1>3
    <3> QED
      BY <3>1, <1>14
  <2> HIDE DEF T
  <2>3. 0 .. N \subseteq T
    BY <1>1, <2>1, <2>2, Induct
  <2> USE DEF T
  <2> QED
    BY <2>3
<1> QED
  BY <1>10, <1>13, <1>14, <1>15

(* The objects that have a place are those the host may know. *)
LEMMA LiveIs ==
  ASSUME NEW x \in Machine, Indexed(x), NEW P, Known(x, P)
  PROVE  Live(x) = DOMAIN P
<1> DEFINE N == NextHandle(x)
<1>1. N \in Nat /\ DOMAIN P \subseteq DOMAIN x.recs
  BY KnownIs, IndexSize
<1>2. PICK f : /\ \A n \in 0 .. N : f[n] \in [DOMAIN x.recs -> Int]
               /\ \A g \in DOMAIN x.recs : f[0][g] = IF g \in StoreId THEN g ELSE Bad
               /\ \A n \in 1 .. N : f[n] = Rootward(x, f[n - 1])
               /\ \A h : Root(x, h) = f[N][h]
  BY RootsAre
<1>3. \A s \in StoreId : s # Bad
  BY BoundsAssumption DEF StoreId, Bad
<1> DEFINE T == {n \in 0 .. N : \A g \in DOMAIN P : Len(P[g]) <= n + 1 => f[n][g] # Bad}
           R == {n \in 0 .. N : \A g \in DOMAIN x.recs : f[n][g] # Bad => g \in DOMAIN P}
<1>4. 0 \in T
  <2>1. ASSUME NEW g \in DOMAIN P, Len(P[g]) <= 1 PROVE f[0][g] # Bad
    <3>1. g \in StoreId
      BY <2>1, KnownIs
    <3> QED
      BY <3>1, <1>1, <1>2, <1>3
  <2> QED
    BY <2>1, <1>1
<1>5. ASSUME NEW n \in 1 .. N, n - 1 \in T PROVE n \in T
  <2>1. ASSUME NEW g \in DOMAIN P, Len(P[g]) <= n + 1 PROVE f[n][g] # Bad
    <3>1. g \in DOMAIN x.recs /\ f[n][g] = Rootward(x, f[n - 1])[g]
      BY <1>1, <1>2
    <3>2. CASE g \in StoreId
      BY <3>1, <3>2, <1>3 DEF Rootward
    <3>3. CASE g \notin StoreId
      <4>1. g \in DOMAIN P \ StoreId
        BY <3>3
      <4>2. /\ x.recs[g].parent \in DOMAIN P /\ x.recs[g].name \in Names
            /\ Len(P[g]) = Len(P[x.recs[g].parent]) + 1 /\ Len(P[x.recs[g].parent]) \in Nat
        BY <4>1, KnownIs
      <4>3. Len(P[x.recs[g].parent]) <= (n - 1) + 1
        BY <2>1, <4>2
      <4>4. f[n - 1][x.recs[g].parent] # Bad
        BY <1>5, <4>2, <4>3
      <4>5. x.recs[g].name # NoName
        BY <4>2, NamesAssumption
      <4> QED
        BY <3>1, <3>3, <4>4, <4>5 DEF Rootward
    <3> QED
      BY <3>2, <3>3
  <2>2. n \in 0 .. N
    BY <1>1
  <2> QED
    BY <2>1, <2>2
<1>6. 0 \in R
  BY <1>1, <1>2 DEF Known
<1>7. ASSUME NEW n \in 1 .. N, n - 1 \in R PROVE n \in R
  <2>1. ASSUME NEW g \in DOMAIN x.recs, f[n][g] # Bad PROVE g \in DOMAIN P
    <3>1. f[n][g] = Rootward(x, f[n - 1])[g]
      BY <1>2
    <3>2. CASE g \in StoreId
      BY <3>2 DEF Known
    <3>3. CASE g \notin StoreId
      <4>1. x.recs[g].name # NoName /\ f[n - 1][x.recs[g].parent] # Bad /\ x.recs[g].parent \in DOMAIN x.recs
        BY <2>1, <3>1, <3>3 DEF Rootward, Indexed
      <4>2. x.recs[g].parent \in DOMAIN P
        BY <1>7, <4>1
      <4> QED
        BY <4>1, <4>2 DEF Known
    <3> QED
      BY <3>2, <3>3
  <2>2. n \in 0 .. N
    BY <1>1
  <2> QED
    BY <2>1, <2>2
<1> HIDE DEF T, R, N
<1>8. 0 .. N \subseteq T
  BY <1>1, <1>4, <1>5, Induct
<1>9. 0 .. N \subseteq R
  BY <1>1, <1>6, <1>7, Induct
<1> USE DEF T, R, N
<1>10. N \in T /\ N \in R
  BY <1>1, <1>8, <1>9
<1>11. \A h \in DOMAIN P : Len(P[h]) <= N + 1
  BY DepthBound, KnownIs, <1>1
<1>12. \A h \in DOMAIN x.recs : Root(x, h) # Bad <=> h \in DOMAIN P
  BY <1>1, <1>2, <1>10, <1>11
<1> QED
  BY <1>1, <1>12 DEF Live


(* Among some of the first numbers is one of the greatest value. *)
LEMMA Greatest ==
  ASSUME NEW n \in Nat, NEW T, T \subseteq 0 .. n, T # {}, NEW v, \A k \in T : v[k] \in Nat
  PROVE  \E k \in T : \A j \in T : v[j] <= v[k]
<1> DEFINE Tops(i, k) == k \in T /\ \A j \in T : j <= i => v[j] <= v[k]
           Done == {i \in 0 .. n : (\A j \in T : ~(j <= i)) \/ \E k \in T : Tops(i, k)}
<1>1. 0 \in Done
  <2>1. CASE 0 \in T
    <3>1. Tops(0, 0)
      BY <2>1
    <3> QED
      BY <3>1
  <2>2. CASE 0 \notin T
    BY <2>2
  <2> QED
    BY <2>1, <2>2
<1>2. ASSUME NEW i \in 1 .. n, i - 1 \in Done PROVE i \in Done
  <2>1. \A j \in T : j <= i <=> j <= i - 1 \/ j = i
    OBVIOUS
  <2>2. CASE i \notin T
    <3>1. \A j \in T : j <= i <=> j <= i - 1
      BY <2>1, <2>2
    <3> QED
      BY <1>2, <3>1
  <2>3. CASE i \in T
    <3>1. CASE \A j \in T : ~(j <= i - 1)
      <4>1. Tops(i, i)
        BY <2>1, <2>3, <3>1
      <4> QED
        BY <2>3, <4>1
    <3>2. CASE \E k \in T : Tops(i - 1, k)
      <4>1. PICK k \in T : Tops(i - 1, k)
        BY <3>2
      <4>2. CASE v[i] <= v[k]
        <5>1. Tops(i, k)
          BY <2>1, <4>1, <4>2
        <5> QED
          BY <5>1
      <4>3. CASE ~(v[i] <= v[k])
        <5>1. Tops(i, i)
          BY <2>1, <2>3, <4>1, <4>3
        <5> QED
          BY <2>3, <5>1
      <4> QED
        BY <4>2, <4>3
    <3> QED
      BY <1>2, <3>1, <3>2
  <2> QED
    BY <2>2, <2>3
<1> HIDE DEF Done
<1>3. 0 .. n \subseteq Done
  BY <1>1, <1>2, Induct
<1>4. n \in Done /\ \A j \in T : j <= n
  BY <1>3
<1> USE DEF Done
<1>5. PICK k \in T : Tops(n, k)
  BY <1>4
<1> QED
  BY <1>4, <1>5

(***************************************************************************)
(* The lists of children.                                                  *)
(***************************************************************************)

(* The objects O are in lists of the directories D: each is the successor  *)
(* of its directory or of one other object, and the rank rk falls along a  *)
(* list.                                                                   *)
Chain(x, D, O, rk) ==
  /\ D \subseteq DOMAIN x.recs /\ O \subseteq DOMAIN x.recs \ StoreId
  /\ \A k \in O : rk[k] \in Nat /\ x.recs[k].parent \in D /\ x.recs[x.recs[k].parent].isdir
  /\ \A d \in D : x.recs[d].isdir /\ x.recs[d].child # 0 =>
       x.recs[d].child \in O /\ x.recs[x.recs[d].child].parent = d
  /\ \A k \in O : x.recs[k].sibling # 0 =>
       /\ x.recs[k].sibling \in O
       /\ x.recs[x.recs[k].sibling].parent = x.recs[k].parent
       /\ rk[x.recs[k].sibling] < rk[k]
       /\ x.recs[x.recs[k].parent].child # x.recs[k].sibling
  /\ \A k \in O : \/ x.recs[x.recs[k].parent].child = k
                  \/ \E j \in O : x.recs[j].sibling = k
  /\ \A j, k \in O : x.recs[j].sibling = x.recs[k].sibling /\ x.recs[j].sibling # 0 => j = k

(* The objects whose parent is d. *)
Kids(x, O, d) == {h \in O : x.recs[h].parent = d}

(* A walk down the list of d. *)
Walk(x, O, rk, d, s) ==
  /\ s \in Seq(Int)
  /\ \A i \in 1 .. Len(s) : s[i] \in O /\ x.recs[s[i]].parent = d
  /\ \A i, j \in 1 .. Len(s) : i < j => rk[s[j]] < rk[s[i]]
  /\ s # <<>> => s[1] = x.recs[d].child
  /\ \A i \in 1 .. Len(s) : i + 1 \in 1 .. Len(s) => x.recs[s[i]].sibling = s[i + 1]

(* ReadIndexRecord gives the record of a handle that is in the index,      *)
(* and an empty one otherwise.                                             *)
LEMMA ReadIs ==
  ASSUME NEW x \in Machine, NEW h
  PROVE  /\ h \in DOMAIN x.recs => Read(x, h) = x.recs[h] /\ x.recs[h] \in Rec
         /\ h \notin DOMAIN x.recs => Read(x, h) = ZeroRec
         /\ Read(x, h) \in Rec
<1>1. h \in DOMAIN x.recs => x.recs[h] \in Rec
  BY IndexSize
<1>2. ZeroRec \in Rec
  BY BoundsAssumption DEF ZeroRec, Rec, StoreId
<1> QED
  BY <1>1, <1>2 DEF Read

(* A sequence and the set of its members. *)
LEMMA InSeq ==
  ASSUME NEW S, NEW s \in Seq(S)
  PROVE  /\ Len(s) \in Nat /\ DOMAIN s = 1 .. Len(s)
         /\ \A i \in 1 .. Len(s) : s[i] \in S
         /\ \A e : e \in ToSet(s) <=> \E i \in 1 .. Len(s) : s[i] = e
         /\ s = <<>> <=> Len(s) = 0
         /\ Last(s) = s[Len(s)]
<1>1. Len(s) \in Nat /\ DOMAIN s = 1 .. Len(s) /\ \A i \in 1 .. Len(s) : s[i] \in S
  BY LenProperties, ElementOfSeq
<1>2. \A e : e \in ToSet(s) <=> \E i \in 1 .. Len(s) : s[i] = e
  BY <1>1 DEF ToSet
<1>3. s = <<>> <=> Len(s) = 0
  BY EmptySeq, SeqEqual, <1>1
<1> QED
  BY <1>1, <1>2, <1>3 DEF Last

(* The next of a walk is one more object of the list, or there is none.    *)
LEMMA WalkOn ==
  ASSUME NEW x \in Machine, NEW D, NEW O, NEW rk, Chain(x, D, O, rk), 0 \in StoreId,
         NEW d \in D, x.recs[d].isdir, NEW s, Walk(x, O, rk, d, s)
  PROVE  /\ Walk(x, O, rk, d, Longer(x, d, s))
         /\ NextOf(x, d, s) = 0 => Longer(x, d, s) = s
         /\ NextOf(x, d, s) # 0 => Len(Longer(x, d, s)) = Len(s) + 1
<1>1. /\ s \in Seq(Int) /\ Len(s) \in Nat /\ DOMAIN s = 1 .. Len(s)
      /\ s = <<>> <=> Len(s) = 0
      /\ Last(s) = s[Len(s)]
      /\ \A e : e \in ToSet(s) <=> \E i \in 1 .. Len(s) : s[i] = e
  BY InSeq DEF Walk
<1> DEFINE e == NextOf(x, d, s)
<1>2. d \in DOMAIN x.recs
  BY DEF Chain
<1>3. s = <<>> => e = x.recs[d].child
  BY <1>2, ReadIs DEF NextOf
<1>4. s # <<>> => Len(s) \in 1 .. Len(s) /\ s[Len(s)] \in O /\ s[Len(s)] \in DOMAIN x.recs /\ e = x.recs[s[Len(s)]].sibling
  <2>1. s # <<>> => Len(s) \in 1 .. Len(s) /\ s[Len(s)] \in O /\ s[Len(s)] \in DOMAIN x.recs
    BY <1>1 DEF Walk, Chain
  <2> QED
    BY <2>1, <1>1, ReadIs DEF NextOf
<1>5. CASE e = 0
  <2>1. Longer(x, d, s) = s
    BY <1>5 DEF Longer
  <2> QED
    BY <1>5, <2>1
<1>6. CASE e # 0
  <2>1. e \in O /\ x.recs[e].parent = d
    <3>1. CASE s = <<>>
      BY <1>3, <1>6, <3>1 DEF Chain
    <3>2. CASE s # <<>>
      BY <1>4, <1>6, <3>2 DEF Chain, Walk
    <3> QED
      BY <3>1, <3>2
  <2>2. ASSUME NEW i \in 1 .. Len(s) PROVE rk[e] < rk[s[i]]
    <3>1. s # <<>> /\ s[i] \in O /\ rk[e] \in Nat /\ rk[s[i]] \in Nat /\ rk[s[Len(s)]] \in Nat
      BY <1>1, <1>4, <2>1 DEF Walk, Chain
    <3>2. rk[e] < rk[s[Len(s)]]
      BY <1>4, <1>6, <3>1 DEF Chain
    <3>3. i = Len(s) \/ rk[s[Len(s)]] < rk[s[i]]
      <4>1. i # Len(s) => i < Len(s)
        <5>1. Len(s) \in Nat
          BY <1>1
        <5> QED
          BY <5>1
      <4>2. \A a, b \in 1 .. Len(s) : a < b => rk[s[b]] < rk[s[a]]
        BY DEF Walk
      <4> QED
        BY <1>4, <3>1, <4>1, <4>2
    <3> QED
      BY <3>1, <3>2, <3>3
  <2>3. e \notin ToSet(s)
    <3>1. \A i \in 1 .. Len(s) : s[i] \in O /\ rk[s[i]] \in Nat
      BY DEF Walk, Chain
    <3> QED
      BY <2>2, <3>1, <1>1
  <2>4. e \in Int
    BY <2>1, IndexSize DEF Chain
  <2>5. Longer(x, d, s) = Append(s, e)
    BY <1>6, <2>3 DEF Longer
  <2> HIDE DEF e
  <2>6. PICK t : t = Append(s, e)
    OBVIOUS
  <2>7. /\ t \in Seq(Int) /\ Len(t) = Len(s) + 1 /\ \A i \in 1 .. Len(s) : t[i] = s[i]
        /\ t[Len(s) + 1] = e
    BY <1>1, <2>4, <2>6, FrontOfAppend
  <2>8. \A i \in 1 .. Len(t) : (i \in 1 .. Len(s) /\ t[i] = s[i]) \/ (i = Len(s) + 1 /\ t[i] = e)
    BY <1>1, <2>7
  <2>9. \A i \in 1 .. Len(t) : t[i] \in O /\ x.recs[t[i]].parent = d
    BY <2>1, <2>8 DEF Walk
  <2>10. ASSUME NEW i \in 1 .. Len(t), NEW j \in 1 .. Len(t), i < j PROVE rk[t[j]] < rk[t[i]]
    <3>1. i \in 1 .. Len(s)
      BY <1>1, <2>7, <2>10
    <3> QED
      BY <2>2, <2>7, <2>8, <2>10, <3>1 DEF Walk
  <2>11. t[1] = x.recs[d].child
    <3>1. CASE s = <<>>
      <4>1. Len(s) = 0 /\ e = x.recs[d].child
        BY <1>1, <1>3, <3>1 DEF e
      <4> QED
        BY <2>7, <4>1
    <3>2. CASE s # <<>>
      <4>1. 1 \in 1 .. Len(s)
        BY <1>1, <3>2
      <4> QED
        BY <2>7, <3>2, <4>1 DEF Walk
    <3> QED
      BY <3>1, <3>2
  <2>12. ASSUME NEW i \in 1 .. Len(t), i + 1 \in 1 .. Len(t) PROVE x.recs[t[i]].sibling = t[i + 1]
    <3>1. i \in 1 .. Len(s) /\ (i + 1 \in 1 .. Len(s) \/ i = Len(s))
      <4>1. Len(s) \in Nat /\ Len(t) = Len(s) + 1
        BY <1>1, <2>7
      <4> QED
        BY <4>1, <2>12
    <3>2. CASE i + 1 \in 1 .. Len(s)
      BY <2>7, <3>1, <3>2 DEF Walk
    <3>3. CASE i = Len(s)
      <4>1. s # <<>>
        <5>1. Len(s) # 0
          BY <3>1
        <5> QED
          BY <1>1, <5>1
      <4> QED
        BY <1>4, <2>7, <3>1, <3>3, <4>1 DEF e
    <3> QED
      BY <3>1, <3>2, <3>3
  <2>13. Walk(x, O, rk, d, t)
    BY <2>7, <2>9, <2>10, <2>11, <2>12 DEF Walk
  <2> QED
    BY <1>6, <2>5, <2>6, <2>7, <2>13 DEF e
<1> QED
  BY <1>5, <1>6


(* The function that following the siblings makes. *)
Follows(x, d, h) == h = [n \in 0 .. NextHandle(x) |-> IF n = 0 THEN <<>> ELSE Longer(x, d, h[n - 1])]

(* The first store has the number 0: no object does, and 0 ends the list   *)
(* of children.                                                            *)
LEMMA ZeroIsStore == 0 \in StoreId
BY BoundsAssumption DEF StoreId

(* The walk goes down to the end of the list. *)
LEMMA WalkEnds ==
  ASSUME NEW x \in Machine, NEW D, NEW O, NEW rk, Chain(x, D, O, rk),
         NEW d \in D, x.recs[d].isdir
  PROVE  Walk(x, O, rk, d, Children(x, d)) /\ NextOf(x, d, Children(x, d)) = 0
<1> DEFINE N == NextHandle(x)
           S == {s \in Seq(Int) : Walk(x, O, rk, d, s)}
           step == [n \in 1 .. N |-> [s \in S |-> Longer(x, d, s)]]
<1>1. N \in Nat /\ DOMAIN x.recs = 0 .. N - 1
  BY IndexSize
<1>2. <<>> \in S
  BY EmptySeq DEF Walk
<1>3. \A s \in S : Longer(x, d, s) \in S
  <2>1. ASSUME NEW s \in S PROVE Walk(x, O, rk, d, Longer(x, d, s))
    BY <2>1, WalkOn, ZeroIsStore
  <2>2. ASSUME NEW s \in S PROVE Longer(x, d, s) \in Seq(Int)
    BY <2>1 DEF Walk
  <2> QED
    BY <2>1, <2>2
<1>4. step \in [1 .. N -> [S -> S]]
  <2> HIDE DEF S
  <2> QED
    BY <1>3
<1>5. PICK g \in [0 .. N -> S] : Repeats(g, N, <<>>, step)
  <2> HIDE DEF step, S
  <2> QED
    BY <1>1, <1>2, <1>4, Recursion, Zenon
<1>6. Follows(x, d, g)
  <2>1. ASSUME NEW n \in 0 .. N PROVE g[n] = IF n = 0 THEN <<>> ELSE Longer(x, d, g[n - 1])
    <3>1. CASE n = 0
      <4> HIDE DEF step, S
      <4> QED
        BY <1>1, <1>5, <3>1 DEF Repeats
    <3>2. CASE n # 0
      <4>1. n \in 1 .. N /\ n - 1 \in 0 .. N
        BY <1>1, <3>2
      <4>2. g[n - 1] \in S
        BY <4>1
      <4>3. g[n] = step[n][g[n - 1]]
        <5> HIDE DEF step, S
        <5> QED
          BY <1>5, <3>2, <4>1 DEF Repeats
      <4> HIDE DEF S
      <4> QED
        BY <3>2, <4>1, <4>2, <4>3
    <3> QED
      BY <3>1, <3>2
  <2> HIDE DEF step, S
  <2> QED
    BY <1>5, <2>1 DEF Follows
<1>7. PICK f : f = CHOOSE h : Follows(x, d, h)
  OBVIOUS
<1>8. Children(x, d) = f[N]
  BY <1>7 DEF Children, Follows
<1>9. Follows(x, d, f)
  <2> HIDE DEF step, S, N
  <2> QED
    BY <1>6, <1>7
<1>10. \A n \in 0 .. N : f[n] = IF n = 0 THEN <<>> ELSE Longer(x, d, f[n - 1])
  <2> HIDE DEF step, S
  <2> QED
    BY <1>9, Zenon DEF Follows
<1> HIDE DEF step
<1> DEFINE T == {n \in 0 .. N : /\ f[n] \in S
                                /\ Len(f[n]) = n \/ NextOf(x, d, f[n]) = 0}
<1>11. 0 \in T
  <2>1. 0 \in 0 .. N /\ Len(<<>>) = 0
    BY <1>1
  <2>2. f[0] = <<>>
    BY <1>10, <2>1
  <2> HIDE DEF S
  <2> QED
    BY <1>2, <2>1, <2>2
<1>12. ASSUME NEW n \in 1 .. N, n - 1 \in T PROVE n \in T
  <2>1. n \in 0 .. N /\ n # 0
    BY <1>1
  <2>2. PICK s : s = f[n - 1]
    OBVIOUS
  <2>3. f[n] = Longer(x, d, s)
    BY <1>10, <2>1, <2>2
  <2>4. s \in S /\ (Len(s) = n - 1 \/ NextOf(x, d, s) = 0)
    BY <1>12, <2>2
  <2>5. /\ NextOf(x, d, s) = 0 => Longer(x, d, s) = s
        /\ NextOf(x, d, s) # 0 => Len(Longer(x, d, s)) = Len(s) + 1
    BY <2>4, WalkOn, ZeroIsStore
  <2>6. f[n] \in S
    <3> HIDE DEF S
    <3> QED
      BY <2>3, <2>4, <1>3
  <2>7. Len(f[n]) = n \/ NextOf(x, d, f[n]) = 0
    <3>1. CASE NextOf(x, d, s) = 0
      BY <2>3, <2>5, <3>1
    <3>2. CASE NextOf(x, d, s) # 0
      BY <2>3, <2>4, <2>5, <3>2
    <3> QED
      BY <3>1, <3>2
  <2> HIDE DEF S
  <2> QED
    BY <2>1, <2>6, <2>7
<1> HIDE DEF T, N
<1>13. 0 .. N \subseteq T
  BY <1>1, <1>11, <1>12, Induct
<1>14. N \in T
  BY <1>1, <1>13
<1>15. PICK s : s = Children(x, d)
  OBVIOUS
<1>16. Walk(x, O, rk, d, s) /\ (Len(s) = N \/ NextOf(x, d, s) = 0)
  BY <1>8, <1>14, <1>15 DEF T, S
<1>17. Len(s) # N
  <2>1. s \in Seq(Int) /\ Len(s) \in Nat /\ DOMAIN s = 1 .. Len(s)
    BY <1>16, InSeq DEF Walk
  <2>2. ASSUME NEW i \in 1 .. Len(s) PROVE s[i] \in 1 .. N - 1
    <3>1. s[i] \in O /\ s[i] \in DOMAIN x.recs /\ s[i] # 0
      BY <1>16, ZeroIsStore DEF Walk, Chain
    <3> QED
      BY <1>1, <3>1
  <2>3. ASSUME NEW i \in 1 .. Len(s), NEW j \in 1 .. Len(s), s[i] = s[j] PROVE i = j
    <3>1. rk[s[i]] \in Nat /\ rk[s[j]] \in Nat
      BY <1>16 DEF Walk, Chain
    <3>2. i < j => rk[s[j]] < rk[s[i]]
      BY <1>16 DEF Walk
    <3>3. j < i => rk[s[i]] < rk[s[j]]
      BY <1>16 DEF Walk
    <3> QED
      BY <2>3, <3>1, <3>2, <3>3
  <2>4. s \in Injection(1 .. Len(s), 1 .. N - 1)
    <3>1. s \in [1 .. Len(s) -> 1 .. N - 1]
      BY <2>1, <2>2
    <3> QED
      BY <2>3, <3>1 DEF Injection, IsInjective
  <2>5. \A k \in Nat : IsFiniteSet(1 .. k) /\ Cardinality(1 .. k) = k
    <3>1. ASSUME NEW k \in Nat PROVE IsFiniteSet(1 .. k) /\ Cardinality(1 .. k) = k
      <4>1. 1 \in Int /\ k \in Int
        OBVIOUS
      <4>2. IsFiniteSet(1 .. k) /\ Cardinality(1 .. k) = IF 1 > k THEN 0 ELSE k - 1 + 1
        BY <4>1, FS_Interval, Zenon
      <4> QED
        BY <4>2
    <3> QED
      BY <3>1
  <2>6. N - 1 \in Nat
    <3>1. d \in 0 .. N - 1
      BY <1>1 DEF Chain
    <3> QED
      BY <1>1, <3>1
  <2>7. IsFiniteSet(1 .. N - 1) /\ Cardinality(1 .. N - 1) = N - 1 /\ Cardinality(1 .. Len(s)) = Len(s)
    BY <2>1, <2>5, <2>6
  <2>8. Cardinality(1 .. Len(s)) <= Cardinality(1 .. N - 1)
    BY <2>4, <2>7, FS_Injection, Zenon
  <2> QED
    BY <1>1, <2>6, <2>7, <2>8
<1> QED
  BY <1>15, <1>16, <1>17

(* The list of a directory is of its objects, each once, and ends.         *)
LEMMA ChildrenAre ==
  ASSUME NEW x \in Machine, NEW D, NEW O, NEW rk, Chain(x, D, O, rk),
         NEW d \in D, x.recs[d].isdir
  PROVE  /\ Children(x, d) \in Seq(Int)
         /\ Children(x, d) \in Seq(Kids(x, O, d))
         /\ ToSet(Children(x, d)) = Kids(x, O, d)
         /\ \A i, j \in 1 .. Len(Children(x, d)) : Children(x, d)[i] = Children(x, d)[j] => i = j
         /\ Children(x, d) # <<>> => x.recs[Last(Children(x, d))].sibling = 0
         /\ Children(x, d) = <<>> <=> x.recs[d].child = 0
<1>1. PICK s : s = Children(x, d)
  OBVIOUS
<1>2. Walk(x, O, rk, d, s) /\ NextOf(x, d, s) = 0
  BY <1>1, WalkEnds
<1>3. /\ s \in Seq(Int) /\ Len(s) \in Nat /\ DOMAIN s = 1 .. Len(s)
      /\ s = <<>> <=> Len(s) = 0
      /\ Last(s) = s[Len(s)]
      /\ \A e : e \in ToSet(s) <=> \E i \in 1 .. Len(s) : s[i] = e
  BY <1>2, InSeq DEF Walk
<1>4. d \in DOMAIN x.recs
  BY DEF Chain
<1>5. s = <<>> => x.recs[d].child = 0
  BY <1>2, <1>4, ReadIs DEF NextOf
<1>6. s # <<>> => 1 \in 1 .. Len(s) /\ s[1] = x.recs[d].child /\ s[1] # 0
  <2>1. s # <<>> => 1 \in 1 .. Len(s)
    BY <1>3
  <2>2. 0 \notin O
    BY ZeroIsStore DEF Chain
  <2> QED
    BY <1>2, <2>1, <2>2 DEF Walk
<1>7. s # <<>> => Len(s) \in 1 .. Len(s) /\ x.recs[Last(s)].sibling = 0
  <2>1. s # <<>> => Len(s) \in 1 .. Len(s)
    BY <1>3
  <2>2. s # <<>> => Last(s) \in DOMAIN x.recs
    BY <1>2, <1>3, <2>1 DEF Walk, Chain
  <2> QED
    BY <1>2, <2>1, <2>2, ReadIs DEF NextOf
<1>8. ASSUME NEW k \in ToSet(s), x.recs[k].sibling # 0 PROVE x.recs[k].sibling \in ToSet(s)
  <2>1. PICK i \in 1 .. Len(s) : s[i] = k
    BY <1>3
  <2>2. s # <<>> /\ i # Len(s)
    <3>1. Len(s) \in Nat /\ (s = <<>> => Len(s) = 0)
      BY <1>3
    <3>2. s # <<>>
      <4> SUFFICES ASSUME s = <<>> PROVE FALSE
        OBVIOUS
      <4>1. Len(s) = 0
        BY <3>1
      <4> QED
        BY <2>1, <4>1
    <3> QED
      BY <1>3, <1>7, <1>8, <2>1, <3>2
  <2>3. i + 1 \in 1 .. Len(s)
    <3>1. Len(s) \in Nat
      BY <1>3
    <3> QED
      BY <2>2, <3>1
  <2>4. x.recs[k].sibling = s[i + 1]
    BY <1>2, <2>1, <2>3 DEF Walk
  <2> QED
    BY <1>3, <2>3, <2>4
<1>9. ToSet(s) \subseteq Kids(x, O, d)
  BY <1>2, <1>3 DEF Walk, Kids
<1>10. Kids(x, O, d) \subseteq ToSet(s)
  <2> DEFINE Missed == Kids(x, O, d) \ ToSet(s)
  <2>1. SUFFICES ASSUME Missed # {} PROVE FALSE
    OBVIOUS
  <2>2. Missed \subseteq 0 .. NextHandle(x) /\ NextHandle(x) \in Nat /\ \A k \in Missed : rk[k] \in Nat
    BY IndexSize DEF Kids, Chain
  <2> HIDE DEF Missed
  <2>3. PICK k \in Missed : \A j \in Missed : rk[j] <= rk[k]
    BY <2>1, <2>2, Greatest
  <2> USE DEF Missed
  <2>4. k \in O /\ x.recs[k].parent = d /\ k \notin ToSet(s) /\ k # 0
    BY ZeroIsStore DEF Kids, Chain
  <2>5. x.recs[d].child # k
    <3>1. CASE s = <<>>
      BY <1>5, <2>4, <3>1
    <3>2. CASE s # <<>>
      BY <1>3, <1>6, <2>4, <3>2
    <3> QED
      BY <3>1, <3>2
  <2>6. PICK j \in O : x.recs[j].sibling = k
    BY <2>4, <2>5 DEF Chain
  <2>7. x.recs[j].parent = d /\ rk[k] < rk[j] /\ rk[k] \in Nat /\ rk[j] \in Nat
    BY <2>4, <2>6 DEF Chain
  <2>8. j \in Missed
    BY <1>8, <2>4, <2>6, <2>7 DEF Kids
  <2> HIDE DEF Missed
  <2> QED
    BY <2>3, <2>7, <2>8
<1>11. s \in Seq(Kids(x, O, d))
  <2>1. \A i \in 1 .. Len(s) : s[i] \in Kids(x, O, d)
    BY <1>3, <1>9
  <2> QED
    BY <1>3, <2>1
<1>12. ASSUME NEW i \in 1 .. Len(s), NEW j \in 1 .. Len(s), s[i] = s[j] PROVE i = j
  <2>1. rk[s[i]] \in Nat /\ rk[s[j]] \in Nat
    BY <1>2 DEF Walk, Chain
  <2>2. i < j => rk[s[j]] < rk[s[i]]
    BY <1>2 DEF Walk
  <2>3. j < i => rk[s[i]] < rk[s[j]]
    BY <1>2 DEF Walk
  <2> QED
    BY <1>12, <2>1, <2>2, <2>3
<1> QED
  BY <1>1, <1>3, <1>5, <1>6, <1>7, <1>9, <1>10, <1>11, <1>12


(* What else there is in two machines is the same. *)
Beside(x, y) ==
  /\ y.disk = x.disk /\ y.all = x.all /\ y.file = x.file
  /\ y.mode = x.mode /\ y.open = x.open /\ y.hung = x.hung

(* What a record put in the index leaves of the one before. *)
PutTo(x, y, h, r) ==
  /\ y \in Machine /\ DOMAIN y.recs = DOMAIN x.recs /\ Beside(x, y)
  /\ \A g \in DOMAIN x.recs : g # h => y.recs[g] = x.recs[g]
  /\ y.recs[h].child = r.child /\ y.recs[h].scanned = r.scanned
  /\ h \notin StoreId => y.recs[h] = r
  /\ h \in StoreId =>
       /\ y.recs[h].store = x.recs[h].store /\ y.recs[h].parent = x.recs[h].parent
       /\ y.recs[h].sibling = x.recs[h].sibling /\ y.recs[h].isdir = x.recs[h].isdir
       /\ y.recs[h].name = x.recs[h].name

(* WriteIndexRecord: the record of an object is replaced; of a root only   *)
(* the first child and the scanned flag.                                   *)
LEMMA PutFields ==
  ASSUME NEW x \in Machine, NEW h \in DOMAIN x.recs, NEW r \in Rec
  PROVE  PutTo(x, Put(x, h, r), h, r)
<1> DEFINE N == NextHandle(x)
           b == x.recs[h]
           new == IF h \in StoreId THEN [b EXCEPT !.child = r.child, !.scanned = r.scanned] ELSE r
           recs == [x.recs EXCEPT ![h] = new]
<1>1. x.recs \in [0 .. N - 1 -> Rec] /\ N \in Nat /\ DOMAIN x.recs = 0 .. N - 1 /\ b \in Rec
  BY IndexSize
<1>2. Put(x, h, r) = [x EXCEPT !.recs = recs]
  BY DEF Put
<1> HIDE DEF b
<1>3. /\ new \in Rec /\ new.child = r.child /\ new.scanned = r.scanned
      /\ h \notin StoreId => new = r
      /\ h \in StoreId => /\ new.store = b.store /\ new.parent = b.parent
                          /\ new.sibling = b.sibling /\ new.isdir = b.isdir
                          /\ new.name = b.name
  BY <1>1 DEF Rec
<1> HIDE DEF new
<1>4. recs \in [0 .. N - 1 -> Rec]
  BY <1>1, <1>3
<1>5. recs \in Index
  BY <1>1, <1>4 DEF Index
<1>6. \A g \in DOMAIN x.recs : recs[g] = IF g = h THEN new ELSE x.recs[g]
  BY <1>1
<1>7. DOMAIN recs = DOMAIN x.recs
  BY <1>1
<1> HIDE DEF recs
<1>8. Put(x, h, r) \in Machine /\ Put(x, h, r).recs = recs /\ Beside(x, Put(x, h, r))
  BY <1>2, <1>5 DEF Machine, Beside
<1> QED
  BY <1>3, <1>6, <1>7, <1>8 DEF PutTo, b

(* A record of no handle is put nowhere. *)
LEMMA PutNowhere ==
  ASSUME NEW x \in Machine, NEW h, h \notin DOMAIN x.recs, NEW r
  PROVE  Put(x, h, r) = x
<1> DEFINE new == IF h \in StoreId THEN [x.recs[h] EXCEPT !.child = r.child, !.scanned = r.scanned] ELSE r
<1>1. Put(x, h, r) = [x EXCEPT !.recs = [x.recs EXCEPT ![h] = new]]
  BY DEF Put
<1> HIDE DEF new
<1>2. x.recs \in [DOMAIN x.recs -> Rec]
  BY IndexSize
<1>3. [x.recs EXCEPT ![h] = new] = x.recs
  BY <1>2
<1> QED
  BY <1>1, <1>3 DEF Machine

(* A record is added to the index. *)
LEMMA AddIs ==
  ASSUME NEW x \in Machine, NEW r \in Rec
  PROVE  /\ Add(x, r) \in Machine /\ DOMAIN Add(x, r).recs = DOMAIN x.recs \cup {NextHandle(x)}
         /\ NextHandle(x) \notin DOMAIN x.recs /\ NextHandle(x) \in Nat
         /\ Beside(x, Add(x, r))
         /\ \A g \in DOMAIN x.recs : Add(x, r).recs[g] = x.recs[g]
         /\ Add(x, r).recs[NextHandle(x)] = r
<1> DEFINE N == NextHandle(x)
           recs == [h \in 0 .. N |-> IF h = N THEN r ELSE x.recs[h]]
<1>1. x.recs \in [0 .. N - 1 -> Rec] /\ N \in Nat /\ DOMAIN x.recs = 0 .. N - 1
  BY IndexSize
<1>2. Add(x, r) = [x EXCEPT !.recs = recs]
  BY DEF Add
<1>3. recs \in [0 .. (N + 1) - 1 -> Rec]
  BY <1>1
<1>4. N + 1 \in Nat /\ recs \in Index
  BY <1>1, <1>3 DEF Index
<1>5. DOMAIN recs = 0 .. N /\ 0 .. N = DOMAIN x.recs \cup {N} /\ N \notin DOMAIN x.recs
  BY <1>1
<1>6. \A g \in 0 .. N : recs[g] = IF g = N THEN r ELSE x.recs[g]
  OBVIOUS
<1> HIDE DEF recs, N
<1>7. Add(x, r) \in Machine /\ Add(x, r).recs = recs /\ Beside(x, Add(x, r))
  BY <1>2, <1>4 DEF Machine, Beside
<1>8. \A g \in DOMAIN x.recs : recs[g] = x.recs[g]
  BY <1>5, <1>6
<1>9. recs[N] = r
  BY <1>1, <1>6
<1> QED
  BY <1>1, <1>5, <1>7, <1>8, <1>9 DEF N

(* First gives the element at one of the positions, or 0 when there is     *)
(* none.                                                                   *)
LEMMA FirstIs ==
  ASSUME NEW S, NEW s \in Seq(S), NEW I, I \subseteq DOMAIN s
  PROVE  /\ I = {} => First(s, I) = 0
         /\ I # {} => \E i \in I : First(s, I) = s[i]
<1>1. I \subseteq Nat
  BY LenProperties
<1>2. I # {} => \E i \in I : \A j \in I : i <= j
  BY <1>1, LeastMember
<1>3. I # {} => First(s, I) = s[CHOOSE i \in I : \A j \in I : i <= j]
  BY DEF First
<1>4. I # {} => (CHOOSE i \in I : \A j \in I : i <= j) \in I
  BY <1>2
<1>5. I = {} => First(s, I) = 0
  BY DEF First
<1> QED
  BY <1>3, <1>4, <1>5

(* The search for a name finds the child that has it. *)
LEMMA ChildNamedIs ==
  ASSUME NEW x \in Machine, NEW D, NEW O, NEW rk, Chain(x, D, O, rk),
         NEW d \in D, x.recs[d].isdir, NEW name
  PROVE  /\ ChildNamed(x, d, name) = 0 => \A h \in O : x.recs[h].parent = d => x.recs[h].name # name
         /\ ChildNamed(x, d, name) # 0 =>
              /\ ChildNamed(x, d, name) \in O
              /\ x.recs[ChildNamed(x, d, name)].parent = d
              /\ x.recs[ChildNamed(x, d, name)].name = name
<1>1. PICK s : s = Children(x, d)
  OBVIOUS
<1>2. s \in Seq(Int) /\ ToSet(s) = Kids(x, O, d)
  BY <1>1, ChildrenAre
<1>3. DOMAIN s = 1 .. Len(s) /\ \A e : e \in ToSet(s) <=> \E i \in 1 .. Len(s) : s[i] = e
  BY <1>2, InSeq
<1> DEFINE I == {i \in DOMAIN s : Read(x, s[i]).name = name}
           c == ChildNamed(x, d, name)
<1>4. c = First(s, I)
  BY <1>1 DEF ChildNamed
<1>5. (I = {} => c = 0) /\ (I # {} => \E i \in I : c = s[i])
  <2> HIDE DEF c
  <2>1. I \subseteq DOMAIN s
    OBVIOUS
  <2> HIDE DEF I
  <2>2. (I = {} => First(s, I) = 0) /\ (I # {} => \E i \in I : First(s, I) = s[i])
    BY <1>2, <2>1, FirstIs
  <2> QED
    BY <1>4, <2>2
<1>6. \A h \in Kids(x, O, d) : h \in O /\ h \in DOMAIN x.recs /\ h # 0 /\ Read(x, h) = x.recs[h] /\ x.recs[h].parent = d
  BY ReadIs, ZeroIsStore DEF Kids, Chain
<1>7. \A i \in I : s[i] \in Kids(x, O, d) /\ x.recs[s[i]].name = name
  BY <1>2, <1>3, <1>6
<1>8. \A h \in Kids(x, O, d) : x.recs[h].name = name => \E i \in I : s[i] = h
  BY <1>2, <1>3, <1>6
<1>9. I # {} => c \in Kids(x, O, d) /\ x.recs[c].name = name
  <2> HIDE DEF c, I
  <2> QED
    BY <1>5, <1>7
<1>10. I = {} => \A h \in O : x.recs[h].parent = d => x.recs[h].name # name
  <2> HIDE DEF c, I
  <2> QED
    BY <1>8 DEF Kids
<1> HIDE DEF I
<1> QED
  BY <1>5, <1>6, <1>9, <1>10

(* The search for the younger sibling finds it. *)
LEMMA YoungerIs ==
  ASSUME NEW x \in Machine, NEW D, NEW O, NEW rk, Chain(x, D, O, rk), NEW h \in O,
         x.recs[x.recs[h].parent].child # h
  PROVE  /\ Younger(x, x.recs[h].parent, h) \in O
         /\ x.recs[Younger(x, x.recs[h].parent, h)].sibling = h
         /\ x.recs[Younger(x, x.recs[h].parent, h)].parent = x.recs[h].parent
<1>1. PICK d \in D : d = x.recs[h].parent /\ x.recs[d].isdir
  BY DEF Chain
<1>2. PICK s : s = Children(x, d)
  OBVIOUS
<1>3. s \in Seq(Int) /\ ToSet(s) = Kids(x, O, d)
  BY <1>1, <1>2, ChildrenAre
<1>4. DOMAIN s = 1 .. Len(s) /\ \A e : e \in ToSet(s) <=> \E i \in 1 .. Len(s) : s[i] = e
  BY <1>3, InSeq
<1> DEFINE I == {i \in DOMAIN s : Read(x, s[i]).sibling = h}
           c == Younger(x, d, h)
<1>5. c = First(s, I)
  BY <1>2 DEF Younger
<1>6. I # {} => \E i \in I : c = s[i]
  <2> HIDE DEF c
  <2>1. I \subseteq DOMAIN s
    OBVIOUS
  <2> HIDE DEF I
  <2>2. I # {} => \E i \in I : First(s, I) = s[i]
    BY <1>3, <2>1, FirstIs
  <2> QED
    BY <1>5, <2>2
<1>7. \A k \in Kids(x, O, d) : k \in O /\ Read(x, k) = x.recs[k] /\ x.recs[k].parent = d
  BY ReadIs DEF Kids, Chain
<1>8. h # 0
  BY ZeroIsStore DEF Chain
<1>9. PICK j \in O : x.recs[j].sibling = h
  BY <1>1 DEF Chain
<1>10. x.recs[j].parent = d
  BY <1>1, <1>8, <1>9 DEF Chain
<1>11. j \in Kids(x, O, d)
  BY <1>10 DEF Kids
<1>12. I # {}
  BY <1>3, <1>4, <1>7, <1>9, <1>11
<1>13. \A i \in I : s[i] \in Kids(x, O, d) /\ x.recs[s[i]].sibling = h
  BY <1>3, <1>4, <1>7
<1>14. c \in Kids(x, O, d) /\ x.recs[c].sibling = h
  <2> HIDE DEF c, I
  <2> QED
    BY <1>6, <1>12, <1>13
<1> HIDE DEF I
<1> QED
  BY <1>1, <1>7, <1>14


(* Only lists of children were changed. *)
Relinked(x, y) ==
  /\ y \in Machine /\ DOMAIN y.recs = DOMAIN x.recs /\ Beside(x, y)
  /\ \A g \in DOMAIN x.recs :
       /\ y.recs[g].store = x.recs[g].store /\ y.recs[g].parent = x.recs[g].parent
       /\ y.recs[g].isdir = x.recs[g].isdir /\ y.recs[g].scanned = x.recs[g].scanned
       /\ y.recs[g].name = x.recs[g].name
       /\ ~x.recs[g].isdir => y.recs[g].child = x.recs[g].child
       /\ g \in StoreId => y.recs[g].sibling = x.recs[g].sibling

(* Only the first child of d may have changed. *)
Elsewhere(x, y, d) == \A g \in DOMAIN x.recs : g # d => y.recs[g].child = x.recs[g].child

(* An object leaves the list it is in, and the search for the one before   *)
(* it ends.                                                                *)
LEMMA UnlinkIs ==
  ASSUME NEW x \in Machine, NEW D, NEW O, NEW rk, Chain(x, D, O, rk), NEW h \in O
  PROVE  /\ Relinked(x, Unlink(x, h, x.recs[h].parent, x.recs[h].sibling))
         /\ Chain(Unlink(x, h, x.recs[h].parent, x.recs[h].sibling), D, O \ {h}, rk)
         /\ Elsewhere(x, Unlink(x, h, x.recs[h].parent, x.recs[h].sibling), x.recs[h].parent)
<1> DEFINE p == x.recs[h].parent
           n == x.recs[h].sibling
           y == Unlink(x, h, p, n)
           j == Younger(x, p, h)
<1>1. /\ h \in DOMAIN x.recs /\ p \in D /\ p \in DOMAIN x.recs /\ x.recs[p].isdir /\ h # 0
      /\ D \subseteq DOMAIN x.recs /\ O \subseteq DOMAIN x.recs /\ 0 \notin O
      /\ \A g \in DOMAIN x.recs : x.recs[g] \in Rec
      /\ O \cap StoreId = {}
  BY ZeroIsStore, IndexSize DEF Chain
<1>2. n \in Int
  BY <1>1 DEF Rec
<1> DEFINE First1 == x.recs[p].child = h
<1>3. Read(x, p) = x.recs[p]
  BY <1>1, ReadIs
<1>4. ~First1 => j \in O /\ x.recs[j].sibling = h /\ x.recs[j].parent = p
  BY YoungerIs
<1>5. ~First1 => j # 0 /\ j \in DOMAIN x.recs /\ j \notin StoreId /\ Read(x, j) = x.recs[j]
  BY <1>1, <1>4, ReadIs
<1>6. y = IF First1 THEN Put(x, p, [x.recs[p] EXCEPT !.child = n])
          ELSE Put(x, j, [x.recs[j] EXCEPT !.sibling = n])
  <2> HIDE DEF p, n, j
  <2>1. CASE First1
    BY <1>3, <2>1 DEF Unlink
  <2>2. CASE ~First1
    BY <1>3, <1>5, <2>2 DEF Unlink, Relink, j
  <2> QED
    BY <2>1, <2>2
<1> HIDE DEF y, j, n, p
<1>7. /\ y \in Machine /\ DOMAIN y.recs = DOMAIN x.recs /\ Beside(x, y)
      /\ \A g \in DOMAIN x.recs :
           /\ y.recs[g].store = x.recs[g].store /\ y.recs[g].parent = x.recs[g].parent
           /\ y.recs[g].isdir = x.recs[g].isdir /\ y.recs[g].scanned = x.recs[g].scanned
           /\ y.recs[g].name = x.recs[g].name
           /\ y.recs[g].child = IF First1 /\ g = p THEN n ELSE x.recs[g].child
           /\ y.recs[g].sibling = IF ~First1 /\ g = j THEN n ELSE x.recs[g].sibling
  <2>1. CASE First1
    <3> DEFINE r == [x.recs[p] EXCEPT !.child = n]
    <3>1. r \in Rec
      BY <1>1, <1>2 DEF Rec
    <3>2. y = Put(x, p, r)
      BY <1>6, <2>1
    <3>3. /\ r.store = x.recs[p].store /\ r.parent = x.recs[p].parent /\ r.isdir = x.recs[p].isdir
          /\ r.scanned = x.recs[p].scanned /\ r.name = x.recs[p].name /\ r.child = n
          /\ r.sibling = x.recs[p].sibling
      BY <1>1 DEF Rec
    <3> HIDE DEF r
    <3>4. PutTo(x, y, p, r)
      BY <1>1, <3>1, <3>2, PutFields, Zenon
    <3> QED
      BY <1>1, <2>1, <3>3, <3>4 DEF PutTo
  <2>2. CASE ~First1
    <3> DEFINE r == [x.recs[j] EXCEPT !.sibling = n]
    <3>1. r \in Rec
      BY <1>1, <1>2, <1>5, <2>2 DEF Rec
    <3>2. y = Put(x, j, r)
      BY <1>6, <2>2
    <3>3. /\ r.store = x.recs[j].store /\ r.parent = x.recs[j].parent /\ r.isdir = x.recs[j].isdir
          /\ r.scanned = x.recs[j].scanned /\ r.name = x.recs[j].name /\ r.sibling = n
          /\ r.child = x.recs[j].child
      BY <1>1, <1>5, <2>2 DEF Rec
    <3> HIDE DEF r
    <3>4. PutTo(x, y, j, r)
      BY <1>5, <2>2, <3>1, <3>2, PutFields, Zenon
    <3> QED
      BY <1>5, <2>2, <3>3, <3>4 DEF PutTo
  <2> QED
    BY <2>1, <2>2
<1>8. \A g \in DOMAIN x.recs :
       /\ ~x.recs[g].isdir => y.recs[g].child = x.recs[g].child
       /\ g \in StoreId => y.recs[g].sibling = x.recs[g].sibling
  BY <1>1, <1>5, <1>7
<1>9. Relinked(x, y)
  BY <1>7, <1>8 DEF Relinked
<1> DEFINE Q == O \ {h}
<1>10. n # 0 => n \in Q /\ x.recs[n].parent = p /\ rk[n] < rk[h] /\ rk[n] \in Nat /\ rk[h] \in Nat /\ x.recs[p].child # n
  BY <1>1 DEF Chain, p, n
<1>11. D \subseteq DOMAIN y.recs /\ Q \subseteq DOMAIN y.recs \ StoreId
  BY <1>1, <1>7
<1>12. \A k \in Q : rk[k] \in Nat /\ y.recs[k].parent \in D /\ y.recs[y.recs[k].parent].isdir
  BY <1>1, <1>7 DEF Chain
<1>13. ASSUME NEW d \in D, y.recs[d].isdir, y.recs[d].child # 0
       PROVE  y.recs[d].child \in Q /\ y.recs[y.recs[d].child].parent = d
  <2>1. d \in DOMAIN x.recs /\ x.recs[d].isdir
    BY <1>1, <1>7, <1>13
  <2>2. CASE First1 /\ d = p
    <3>1. y.recs[d].child = n
      BY <1>7, <2>1, <2>2
    <3> QED
      BY <1>1, <1>7, <1>10, <1>13, <2>2, <3>1
  <2>3. CASE ~(First1 /\ d = p)
    <3>1. y.recs[d].child = x.recs[d].child
      BY <1>7, <2>1, <2>3
    <3>2. x.recs[d].child \in O /\ x.recs[x.recs[d].child].parent = d
      BY <1>13, <2>1, <3>1 DEF Chain
    <3>3. x.recs[d].child # h
      BY <2>3, <3>2 DEF p
    <3> QED
      BY <1>1, <1>7, <3>1, <3>2, <3>3
  <2> QED
    BY <2>2, <2>3
<1>14. ASSUME NEW k \in Q, y.recs[k].sibling # 0
       PROVE  /\ y.recs[k].sibling \in Q
              /\ y.recs[y.recs[k].sibling].parent = y.recs[k].parent
              /\ rk[y.recs[k].sibling] < rk[k]
              /\ y.recs[y.recs[k].parent].child # y.recs[k].sibling
  <2>1. /\ k \in O /\ k # h /\ k \in DOMAIN x.recs /\ rk[k] \in Nat
        /\ y.recs[k].parent = x.recs[k].parent
        /\ x.recs[k].parent \in DOMAIN x.recs
    BY <1>1, <1>7 DEF Chain
  <2>2. CASE ~First1 /\ k = j
    <3>1. y.recs[k].sibling = n /\ x.recs[k].sibling = h /\ x.recs[k].parent = p
      BY <1>4, <1>7, <2>1, <2>2
    <3>2. rk[h] < rk[k] /\ x.recs[p].child # n /\ y.recs[p].child = x.recs[p].child
      BY <1>1, <1>7, <1>10, <1>14, <2>1, <2>2, <3>1 DEF Chain
    <3>3. n \in Q /\ n \in DOMAIN x.recs /\ x.recs[n].parent = p /\ rk[n] < rk[h] /\ rk[n] \in Nat /\ rk[h] \in Nat
      BY <1>1, <1>10, <1>14, <3>1
    <3>4. rk[n] < rk[k]
      BY <2>1, <3>2, <3>3
    <3> QED
      BY <1>7, <2>1, <3>1, <3>2, <3>3, <3>4
  <2>3. CASE ~(~First1 /\ k = j)
    <3> DEFINE l == x.recs[k].sibling
    <3>1. y.recs[k].sibling = l
      BY <1>7, <2>1, <2>3
    <3>2. l \in O /\ x.recs[l].parent = x.recs[k].parent /\ rk[l] < rk[k] /\ x.recs[x.recs[k].parent].child # l
      BY <1>14, <2>1, <3>1 DEF Chain
    <3>3. l # h
      <4> SUFFICES ASSUME l = h PROVE FALSE
        OBVIOUS
      <4>1. x.recs[k].parent = p
        BY <3>2 DEF p
      <4>2. ~First1
        BY <3>2, <4>1
      <4>3. j \in O /\ x.recs[j].sibling = x.recs[k].sibling /\ x.recs[j].sibling # 0
        BY <1>1, <1>4, <4>2
      <4>4. j = k
        BY <2>1, <4>3 DEF Chain
      <4> QED
        BY <2>3, <4>2, <4>4
    <3>4. y.recs[x.recs[k].parent].child # l
      <4>1. CASE First1 /\ x.recs[k].parent = p
        <5>1. y.recs[p].child = n
          BY <1>1, <1>7, <4>1
        <5>2. ASSUME n = l PROVE FALSE
          <6>1. x.recs[h].sibling = x.recs[k].sibling /\ x.recs[h].sibling # 0
            BY <5>2, <1>14, <3>1 DEF n
          <6> QED
            BY <6>1, <2>1 DEF Chain
        <5> QED
          BY <4>1, <5>1, <5>2
      <4>2. CASE ~(First1 /\ x.recs[k].parent = p)
        BY <1>7, <2>1, <3>2, <4>2
      <4> QED
        BY <4>1, <4>2
    <3>5. l \in DOMAIN x.recs
      BY <1>1, <3>2
    <3> QED
      BY <1>7, <2>1, <3>1, <3>2, <3>3, <3>4, <3>5
  <2> QED
    BY <2>2, <2>3
<1>15. ASSUME NEW k \in Q
       PROVE  y.recs[y.recs[k].parent].child = k \/ \E i \in Q : y.recs[i].sibling = k
  <2>1. /\ k \in O /\ k # h /\ k \in DOMAIN x.recs /\ y.recs[k].parent = x.recs[k].parent
        /\ x.recs[k].parent \in DOMAIN x.recs /\ k # 0
    BY <1>1, <1>7 DEF Chain
  <2>2. CASE n = k
    <3>1. x.recs[k].parent = p
      BY <1>10, <2>1, <2>2
    <3>2. First1 => y.recs[p].child = k
      BY <1>1, <1>7, <2>2
    <3>3. ~First1 => j \in Q /\ y.recs[j].sibling = k
      <4>1. ~First1 => j # h
        <5> SUFFICES ASSUME ~First1, j = h PROVE FALSE
          OBVIOUS
        <5>1. rk[h] < rk[h] /\ rk[h] \in Nat
          BY <1>1, <1>4 DEF Chain
        <5> QED
          BY <5>1
      <4> QED
        BY <1>4, <1>5, <1>7, <2>2, <4>1
    <3> QED
      BY <2>1, <3>1, <3>2, <3>3
  <2>3. CASE n # k
    <3>1. CASE x.recs[x.recs[k].parent].child = k
      <4>1. ~(First1 /\ x.recs[k].parent = p)
        BY <2>1, <3>1
      <4> QED
        BY <1>7, <2>1, <3>1, <4>1
    <3>2. CASE \E i \in O : x.recs[i].sibling = k
      <4>1. PICK i \in O : x.recs[i].sibling = k
        BY <3>2
      <4>2. i # h
        BY <2>3, <4>1 DEF n
      <4>3. ~First1 => i # j
        BY <1>4, <2>1, <4>1
      <4>4. i \in Q /\ i \in DOMAIN x.recs
        BY <1>1, <4>2
      <4>5. y.recs[i].sibling = k
        BY <1>7, <4>1, <4>3, <4>4
      <4> QED
        BY <4>4, <4>5
    <3> QED
      BY <2>1, <3>1, <3>2 DEF Chain
  <2> QED
    BY <2>2, <2>3
<1>16. ASSUME NEW i \in Q, NEW k \in Q, y.recs[i].sibling = y.recs[k].sibling, y.recs[i].sibling # 0
       PROVE  i = k
  <2>1. i \in O /\ k \in O /\ i # h /\ k # h /\ i \in DOMAIN x.recs /\ k \in DOMAIN x.recs
    BY <1>1
  <2>2. \A a, b \in O : x.recs[a].sibling = x.recs[b].sibling /\ x.recs[a].sibling # 0 => a = b
    BY DEF Chain
  <2>3. CASE First1
    BY <1>7, <1>16, <2>1, <2>2, <2>3
  <2>4. CASE ~First1
    <3>1. ASSUME NEW a \in Q, NEW b \in Q, a = j, b # j, n = x.recs[b].sibling, n # 0 PROVE FALSE
      BY <2>2, <3>1 DEF n
    <3> QED
      BY <1>7, <1>16, <2>1, <2>2, <2>4, <3>1
  <2> QED
    BY <2>3, <2>4
<1> HIDE DEF Q
<1>17. Chain(y, D, Q, rk)
  BY <1>11, <1>12, <1>13, <1>14, <1>15, <1>16 DEF Chain
<1>18. \A g \in DOMAIN x.recs : g # p => y.recs[g].child = x.recs[g].child
  BY <1>7
<1> QED
  BY <1>9, <1>17, <1>18 DEF y, Q, p, n, Elsewhere


(* The lists of some of the directories, all else in the records being     *)
(* something else.                                                         *)
LEMMA ChainLike ==
  ASSUME NEW x, NEW D, NEW O, NEW rk, Chain(x, D, O, rk),
         NEW y, NEW D2 \in SUBSET D, NEW O2 \in SUBSET O,
         \A k \in O : k \in O2 <=> x.recs[k].parent \in D2,
         D2 \subseteq DOMAIN y.recs, O2 \subseteq DOMAIN y.recs, O2 \subseteq D2,
         \A g \in D2 :
           /\ y.recs[g].parent = x.recs[g].parent /\ y.recs[g].sibling = x.recs[g].sibling
           /\ y.recs[g].isdir = x.recs[g].isdir
           /\ x.recs[g].isdir => y.recs[g].child = x.recs[g].child
  PROVE  Chain(y, D2, O2, rk)
<1>1. O2 \subseteq DOMAIN y.recs \ StoreId
  BY DEF Chain
<1>2. ASSUME NEW k \in O2
      PROVE  rk[k] \in Nat /\ y.recs[k].parent \in D2 /\ y.recs[y.recs[k].parent].isdir
  BY DEF Chain
<1>3. ASSUME NEW d \in D2, y.recs[d].isdir, y.recs[d].child # 0
      PROVE  y.recs[d].child \in O2 /\ y.recs[y.recs[d].child].parent = d
  <2>1. x.recs[d].isdir /\ y.recs[d].child = x.recs[d].child
    BY <1>3
  <2>2. x.recs[d].child \in O /\ x.recs[x.recs[d].child].parent = d
    BY <1>3, <2>1 DEF Chain
  <2> QED
    BY <2>1, <2>2
<1>4. ASSUME NEW k \in O2, y.recs[k].sibling # 0
      PROVE  /\ y.recs[k].sibling \in O2
             /\ y.recs[y.recs[k].sibling].parent = y.recs[k].parent
             /\ rk[y.recs[k].sibling] < rk[k]
             /\ y.recs[y.recs[k].parent].child # y.recs[k].sibling
  <2>1. x.recs[k].sibling # 0 /\ y.recs[k].sibling = x.recs[k].sibling /\ y.recs[k].parent = x.recs[k].parent
    BY <1>4
  <2>2. /\ x.recs[k].sibling \in O /\ x.recs[x.recs[k].sibling].parent = x.recs[k].parent
        /\ rk[x.recs[k].sibling] < rk[k] /\ x.recs[x.recs[k].parent].child # x.recs[k].sibling
        /\ x.recs[x.recs[k].parent].isdir /\ x.recs[k].parent \in D2
    BY <2>1 DEF Chain
  <2> QED
    BY <2>1, <2>2
<1>5. ASSUME NEW k \in O2
      PROVE  y.recs[y.recs[k].parent].child = k \/ \E j \in O2 : y.recs[j].sibling = k
  <2>1. y.recs[k].parent = x.recs[k].parent /\ x.recs[k].parent \in D2 /\ x.recs[x.recs[k].parent].isdir
    BY DEF Chain
  <2>2. CASE x.recs[x.recs[k].parent].child = k
    BY <2>1, <2>2
  <2>3. CASE \E j \in O : x.recs[j].sibling = k
    <3>1. PICK j \in O : x.recs[j].sibling = k
      BY <2>3
    <3>2. CASE k = 0
      <4>1. x.recs[x.recs[k].parent].child = k \/ \E i \in O : x.recs[i].sibling = k
        BY <2>3
      <4>2. k \notin StoreId
        BY DEF Chain
      <4> QED
        BY <3>2, <4>2, BoundsAssumption DEF StoreId
    <3>3. CASE k # 0
      <4>1. x.recs[k].parent = x.recs[j].parent
        BY <3>1, <3>3 DEF Chain
      <4>2. j \in O2
        BY <2>1, <4>1
      <4> QED
        BY <3>1, <4>2
    <3> QED
      BY <3>2, <3>3
  <2> QED
    BY <2>2, <2>3 DEF Chain
<1>6. ASSUME NEW j \in O2, NEW k \in O2, y.recs[j].sibling = y.recs[k].sibling,
             y.recs[j].sibling # 0
      PROVE  j = k
  BY <1>6 DEF Chain
<1> QED
  BY <1>1, <1>2, <1>3, <1>4, <1>5, <1>6 DEF Chain

(* An object becomes the first of a list. *)
LEMMA LinkFirst ==
  ASSUME NEW x \in Machine, NEW D, NEW O, NEW rk, Chain(x, D, O, rk), NEW y, NEW h, NEW d \in D,
         h \notin O, h \notin StoreId, h # d, x.recs[d].isdir,
         D \cup {h} \subseteq DOMAIN y.recs,
         y.recs[h].parent = d, y.recs[h].sibling = x.recs[d].child, y.recs[d].child = h,
         h \in D => y.recs[h].isdir = x.recs[h].isdir /\ (x.recs[h].isdir => y.recs[h].child = x.recs[h].child),
         h \notin D => y.recs[h].child = 0 \/ ~y.recs[h].isdir,
         \A g \in D \ {h} :
           /\ y.recs[g].parent = x.recs[g].parent /\ y.recs[g].sibling = x.recs[g].sibling
           /\ y.recs[g].isdir = x.recs[g].isdir
           /\ g # d /\ x.recs[g].isdir => y.recs[g].child = x.recs[g].child,
         O \subseteq D
  PROVE  \E r : Chain(y, D \cup {h}, O \cup {h}, r)
<1> DEFINE c == x.recs[d].child
           r == [k \in O \cup {h} |-> IF k # h THEN rk[k] ELSE IF c = 0 THEN 0 ELSE rk[c] + 1]
           D2 == D \cup {h}
           O2 == O \cup {h}
<1>1. c # 0 => c \in O /\ x.recs[c].parent = d /\ rk[c] \in Nat /\ c # h
  BY DEF Chain
<1>2. h # 0 /\ \A k \in O : k # 0 /\ k # h /\ k \in D
  BY ZeroIsStore DEF Chain
<1>3. \A k \in O : r[k] = rk[k] /\ rk[k] \in Nat
  BY <1>2 DEF Chain
<1>4. r[h] = (IF c = 0 THEN 0 ELSE rk[c] + 1) /\ r[h] \in Nat
  BY <1>1
<1> HIDE DEF r, c
<1>5. O2 \subseteq DOMAIN y.recs \ StoreId /\ D2 \subseteq DOMAIN y.recs
  BY DEF Chain
<1>6. ASSUME NEW k \in O2
      PROVE r[k] \in Nat /\ y.recs[k].parent \in D2 /\ y.recs[y.recs[k].parent].isdir
  <2>1. CASE k = h
    BY <1>4, <2>1
  <2>2. CASE k \in O
    <3>1. x.recs[k].parent \in D /\ x.recs[x.recs[k].parent].isdir /\ y.recs[k].parent = x.recs[k].parent
      BY <1>2, <2>2 DEF Chain
    <3> QED
      BY <1>3, <2>2, <3>1
  <2> QED
    BY <2>1, <2>2
<1>7. ASSUME NEW g \in D2, y.recs[g].isdir, y.recs[g].child # 0
      PROVE  y.recs[g].child \in O2 /\ y.recs[y.recs[g].child].parent = g
  <2>1. CASE g = d
    BY <2>1
  <2>2. CASE g # d
    <3>1. g \in D /\ x.recs[g].isdir /\ y.recs[g].child = x.recs[g].child
      BY <1>7, <2>2
    <3>2. x.recs[g].child \in O /\ x.recs[x.recs[g].child].parent = g
      BY <1>7, <3>1 DEF Chain
    <3> QED
      BY <1>2, <3>1, <3>2
  <2> QED
    BY <2>1, <2>2
<1>8. ASSUME NEW k \in O2, y.recs[k].sibling # 0
      PROVE  /\ y.recs[k].sibling \in O2
             /\ y.recs[y.recs[k].sibling].parent = y.recs[k].parent
             /\ r[y.recs[k].sibling] < r[k]
             /\ y.recs[y.recs[k].parent].child # y.recs[k].sibling
  <2>1. CASE k = h
    <3>1. y.recs[h].sibling = c /\ c # 0
      BY <1>8, <2>1 DEF c
    <3>2. r[c] < r[h]
      BY <1>1, <1>3, <1>4, <3>1
    <3>3. y.recs[c].parent = d
      BY <1>1, <1>2, <3>1
    <3> QED
      BY <1>1, <2>1, <3>1, <3>2, <3>3
  <2>2. CASE k \in O
    <3> DEFINE l == x.recs[k].sibling
    <3>1. y.recs[k].sibling = l /\ y.recs[k].parent = x.recs[k].parent
      BY <1>2, <2>2
    <3>2. /\ l \in O /\ x.recs[l].parent = x.recs[k].parent /\ rk[l] < rk[k]
          /\ x.recs[x.recs[k].parent].child # l /\ x.recs[k].parent \in D
          /\ x.recs[x.recs[k].parent].isdir
      BY <1>8, <2>2, <3>1 DEF Chain
    <3>3. y.recs[x.recs[k].parent].child # l
      <4>1. CASE x.recs[k].parent = d
        BY <1>2, <3>2, <4>1
      <4>2. CASE x.recs[k].parent # d
        BY <3>2, <4>2
      <4> QED
        BY <4>1, <4>2
    <3> QED
      BY <1>2, <1>3, <2>2, <3>1, <3>2, <3>3
  <2> QED
    BY <2>1, <2>2
<1>9. ASSUME NEW k \in O2
      PROVE  y.recs[y.recs[k].parent].child = k \/ \E j \in O2 : y.recs[j].sibling = k
  <2>1. CASE k = h
    BY <2>1
  <2>2. CASE k \in O
    <3>1. /\ y.recs[k].parent = x.recs[k].parent /\ x.recs[k].parent \in D
          /\ x.recs[x.recs[k].parent].isdir
      BY <1>2, <2>2 DEF Chain
    <3>2. CASE x.recs[x.recs[k].parent].child = k
      <4>1. CASE x.recs[k].parent = d
        <5>1. y.recs[h].sibling = k
          BY <3>2, <4>1
        <5> QED
          BY <5>1
      <4>2. CASE x.recs[k].parent # d
        BY <3>1, <3>2, <4>2
      <4> QED
        BY <4>1, <4>2
    <3>3. CASE \E j \in O : x.recs[j].sibling = k
      BY <1>2, <3>3
    <3> QED
      BY <2>2, <3>2, <3>3 DEF Chain
  <2> QED
    BY <2>1, <2>2
<1>10. ASSUME NEW j \in O2, NEW k \in O2, y.recs[j].sibling = y.recs[k].sibling,
              y.recs[j].sibling # 0
       PROVE  j = k
  <2>1. ASSUME NEW i \in O, y.recs[i].sibling = y.recs[h].sibling, y.recs[h].sibling # 0 PROVE FALSE
    <3>1. x.recs[i].sibling = c /\ c # 0
      BY <1>2, <2>1 DEF c
    <3>2. x.recs[c].parent = x.recs[i].parent /\ x.recs[x.recs[i].parent].child # c
      BY <3>1 DEF Chain
    <3> QED
      BY <1>1, <3>1, <3>2 DEF c
  <2>2. \A a, b \in O : x.recs[a].sibling = x.recs[b].sibling /\ x.recs[a].sibling # 0 => a = b
    BY DEF Chain
  <2> QED
    BY <1>2, <1>10, <2>1, <2>2
<1> HIDE DEF D2, O2
<1>11. Chain(y, D2, O2, r)
  BY <1>5, <1>6, <1>7, <1>8, <1>9, <1>10 DEF Chain
<1> QED
  BY <1>11 DEF D2, O2


(* The objects: what has a place and is no root. *)
Objs(P) == DOMAIN P \ StoreId

(* No two objects are in one place; each is on its store as its record     *)
(* says; a directory that was scanned has an object for whatever is in it, *)
(* and one that was not has none.                                          *)
Apart(P) == \A h, g \in DOMAIN P : P[h] = P[g] => h = g
(* What is at the place of h is what its record says: a directory, or a    *)
(* file of that size.                                                      *)
OnDisk(x, P, h) ==
  /\ P[h] \in DOMAIN x.disk
  /\ x.recs[h].isdir <=> x.disk[P[h]] = Dir
  /\ ~x.recs[h].isdir => x.recs[h].child = x.disk[P[h]]
(* A directory that was scanned has an object for everything in it. *)
Full(x, P, d) ==
  x.recs[d].isdir =>
    IF x.recs[d].scanned
    THEN \A n \in Names : Append(P[d], n) \in DOMAIN x.disk =>
           \E h \in DOMAIN P : P[h] = Append(P[d], n)
    ELSE \A h \in Objs(P) : x.recs[h].parent # d

(* file_ is open at the place of open_file_, if that is still an object.   *)
Opened(x, P) ==
  /\ x.open \in DOMAIN x.recs \cup {Orphan}
  /\ x.file # NoFile /\ x.open \in DOMAIN P => x.file = P[x.open]

(* P is the tree the records and the stores agree on, and rk orders its    *)
(* lists of children.                                                      *)
Shape(x, P, rk) ==
  /\ x \in Machine /\ WellFormed(x.disk) /\ ~x.hung
  /\ Indexed(x) /\ Known(x, P) /\ Chain(x, DOMAIN P, Objs(P), rk)
  /\ Apart(P)
  /\ \A h \in DOMAIN P : OnDisk(x, P, h)
  /\ \A d \in DOMAIN P : Full(x, P, d)
  /\ Opened(x, P)

(* The file that is open is of no matter to the tree. *)
LEMMA Reopened ==
  ASSUME NEW x, NEW P, NEW rk, Shape(x, P, rk), NEW y \in Machine,
         y.recs = x.recs, y.disk = x.disk, y.hung = x.hung, Opened(y, P)
  PROVE  Shape(y, P, rk)
<1>1. Indexed(y)
  BY DEF Shape, Indexed
<1>2. Known(y, P)
  BY DEF Shape, Known
<1>3. Chain(y, DOMAIN P, Objs(P), rk)
  BY DEF Shape, Chain
<1>4. \A h \in DOMAIN P : OnDisk(y, P, h)
  BY DEF Shape, OnDisk
<1>5. \A h \in DOMAIN P : Full(y, P, h)
  BY DEF Shape, Full
<1> QED
  BY <1>1, <1>2, <1>3, <1>4, <1>5 DEF Shape

(* The parts of the device's state have their types. *)
LEMMA MachineFields ==
  ASSUME NEW x \in Machine
  PROVE  /\ x.recs \in Index /\ x.disk \in Discs /\ x.all \in BOOLEAN /\ x.file \in Where
         /\ x.mode \in {"read", "write"} /\ x.open \in Int /\ x.hung \in BOOLEAN
         /\ DOMAIN x.disk \subseteq Where
         /\ \A q \in DOMAIN x.disk : x.disk[q] \in Content \cup {Dir} /\ x.disk[q] \in Int
<1>1. /\ x.recs \in Index /\ x.disk \in Discs /\ x.all \in BOOLEAN /\ x.file \in Where
      /\ x.mode \in {"read", "write"} /\ x.open \in Int /\ x.hung \in BOOLEAN
  BY DEF Machine
<1>2. PICK D \in SUBSET Where : x.disk \in [D -> Content \cup {Dir}]
  BY <1>1 DEF Discs
<1>3. Content \cup {Dir} \subseteq Int
  BY SizeAssumption DEF Dir
<1> QED
  BY <1>1, <1>2, <1>3

(* close() leaves no file open. *)
LEMMA CloseFileIs ==
  ASSUME NEW x \in Machine
  PROVE  /\ CloseFile(x) \in Machine /\ CloseFile(x).recs = x.recs /\ CloseFile(x).disk = x.disk
         /\ CloseFile(x).all = x.all /\ CloseFile(x).hung = x.hung
         /\ CloseFile(x).file = NoFile /\ CloseFile(x).open = Orphan
<1>1. NoFile \in Where
  BY EmptySeq DEF Where, NoFile
<1>2. Orphan \in Int
  BY DEF Orphan
<1>3. PICK y : y = CloseFile(x)
  OBVIOUS
<1>4. y = [x EXCEPT !.file = NoFile, !.open = Orphan]
  BY <1>3 DEF CloseFile
<1>5. /\ y \in Machine /\ y.recs = x.recs /\ y.disk = x.disk /\ y.all = x.all /\ y.hung = x.hung
      /\ y.file = NoFile /\ y.open = Orphan
  BY <1>1, <1>2, <1>4 DEF Machine
<1> QED
  BY <1>3, <1>5

(* file_.close() leaves the tree as it is. *)
LEMMA CloseKeeps ==
  ASSUME NEW x, NEW P, NEW rk, Shape(x, P, rk)
  PROVE  Shape(CloseFile(x), P, rk)
<1>1. PICK y : y = CloseFile(x)
  OBVIOUS
<1>2. y \in Machine /\ y.recs = x.recs /\ y.disk = x.disk /\ y.hung = x.hung /\ y.file = NoFile /\ y.open = Orphan
  BY <1>1, CloseFileIs DEF Shape
<1>3. Opened(y, P)
  BY <1>2 DEF Opened
<1> QED
  BY <1>1, <1>2, <1>3, Reopened

(* Opening a file changes nothing in the index or on the stores. *)
LEMMA OpenedAtIs ==
  ASSUME NEW x \in Machine, NEW h \in Int, NEW p \in Where, NEW mode \in {"read", "write"}
  PROVE  /\ OpenedAt(x, h, p, mode) \in Machine /\ OpenedAt(x, h, p, mode).recs = x.recs
         /\ OpenedAt(x, h, p, mode).disk = x.disk /\ OpenedAt(x, h, p, mode).all = x.all
         /\ OpenedAt(x, h, p, mode).hung = x.hung /\ OpenedAt(x, h, p, mode).mode = mode
         /\ OpenedAt(x, h, p, mode).file = p /\ OpenedAt(x, h, p, mode).open = h
BY DEF OpenedAt, Machine

(* ConstructFilename gives a place, and never the one that stands for no   *)
(* file.                                                                   *)
LEMMA PlaceType ==
  ASSUME NEW x \in Machine, Indexed(x), NEW h
  PROVE  PlaceOf(x, h) \in Where /\ Len(PlaceOf(x, h)) >= 1 /\ PlaceOf(x, h) # NoFile
<1>1. PICK q \in Seq(Elem) : q = Path(x, h)
  BY PathType DEF Where
<1>2. Read(x, h).store \in StoreId
  BY ReadIs DEF Rec
<1>3. Read(x, h).store \in Elem
  BY <1>2 DEF Elem
<1>4. PICK s \in Seq(Elem) : s = <<Read(x, h).store>> /\ Len(s) = 1
  BY <1>3, Single
<1>5. s \o q \in Seq(Elem) /\ Len(s \o q) = 1 + Len(q) /\ Len(q) \in Nat
  BY <1>4, ConcatProperties, LenProperties
<1>6. PlaceOf(x, h) = s \o q
  BY <1>1, <1>4 DEF PlaceOf
<1>7. Len(NoFile) = 0
  BY EmptySeq DEF NoFile
<1> QED
  BY <1>5, <1>6, <1>7 DEF Where

(* Opening for reading creates nothing, and finds what is in its place. *)
LEMMA OpenRead ==
  ASSUME NEW x, NEW P, NEW rk, Shape(x, P, rk), NEW h \in DOMAIN x.recs, NEW room
  PROVE  /\ Shape(OpenFileByIndex(x, h, "read", room), P, rk)
         /\ OpenFileByIndex(x, h, "read", room).recs = x.recs
         /\ OpenFileByIndex(x, h, "read", room).disk = x.disk
         /\ OpenFileByIndex(x, h, "read", room).all = x.all
         /\ OpenFileByIndex(x, h, "read", room).open = h \/ OpenFileByIndex(x, h, "read", room).file = NoFile
         /\ OpenFileByIndex(x, h, "read", room).file = NoFile => OpenFileByIndex(x, h, "read", room).open = Orphan
         /\ h \in DOMAIN P =>
              /\ OpenFileByIndex(x, h, "read", room).file = P[h]
              /\ OpenFileByIndex(x, h, "read", room).file # NoFile
              /\ OpenFileByIndex(x, h, "read", room).open = h
<1> DEFINE p == PlaceOf(x, h)
<1>1. PICK y : y = OpenFileByIndex(x, h, "read", room)
  OBVIOUS
<1>2. /\ x \in Machine /\ Indexed(x) /\ Known(x, P) /\ Opened(x, P) /\ h \in Int
      /\ p \in Where /\ p # NoFile
  BY PlaceType, IndexSize DEF Shape
<1>3. h \in DOMAIN P => p = P[h] /\ P[h] \in DOMAIN x.disk /\ P[h] # NoFile
  <2>1. h \in DOMAIN P => p = P[h]
    BY <1>2, PlaceIs
  <2>2. h \in DOMAIN P => P[h] \in DOMAIN x.disk
    BY DEF Shape, OnDisk
  <2> QED
    BY <1>2, <2>1, <2>2
<1>4. CASE x.file # NoFile /\ x.open = h /\ x.mode = "read"
  <2>1. y = x
    BY <1>1, <1>4 DEF OpenFileByIndex
  <2>2. h \in DOMAIN P => x.file = P[h]
    BY <1>2, <1>4 DEF Opened
  <2> QED
    BY <1>1, <1>4, <2>1, <2>2
<1>5. CASE ~(x.file # NoFile /\ x.open = h /\ x.mode = "read")
  <2>1. y = OpenAt(x, h, p, "read", room)
    BY <1>1, <1>5 DEF OpenFileByIndex
  <2>2. CASE p \in DOMAIN x.disk
    <3>1. y = OpenedAt(x, h, p, "read")
      BY <2>1, <2>2 DEF OpenAt, CanOpen
    <3>2. /\ y \in Machine /\ y.recs = x.recs /\ y.disk = x.disk /\ y.all = x.all /\ y.hung = x.hung
          /\ y.file = p /\ y.open = h
      BY <1>2, <3>1, OpenedAtIs
    <3>3. Opened(y, P)
      BY <1>3, <3>2 DEF Opened
    <3>4. Shape(y, P, rk)
      BY <3>2, <3>3, Reopened
    <3> QED
      BY <1>1, <1>2, <1>3, <3>2, <3>4
  <2>3. CASE p \notin DOMAIN x.disk
    <3>1. y = CloseFile(x)
      BY <2>1, <2>3 DEF OpenAt, CanOpen, CanCreate
    <3>2. Shape(y, P, rk) /\ y.recs = x.recs /\ y.disk = x.disk /\ y.all = x.all /\ y.file = NoFile /\ y.open = Orphan
      BY <1>2, <3>1, CloseKeeps, CloseFileIs
    <3> QED
      BY <1>1, <1>3, <2>3, <3>2
  <2> QED
    BY <2>2, <2>3
<1> QED
  BY <1>4, <1>5

(* An index of the roots alone, or of nothing. *)
LEMMA NoRecs ==
  ASSUME NEW x \in Machine, WellFormed(x.disk), ~x.hung, DOMAIN x.recs = {}, x.open = Orphan
  PROVE  Shape(x, [h \in {} |-> <<>>], [h \in {} |-> 0])
<1> DEFINE P == [h \in {} |-> <<>>]
<1>1. DOMAIN P = {} /\ P \in [DOMAIN P -> Where]
  OBVIOUS
<1> HIDE DEF P
<1>2. Indexed(x) /\ Known(x, P) /\ Chain(x, DOMAIN P, Objs(P), [h \in {} |-> 0]) /\ Apart(P) /\ Opened(x, P)
  BY <1>1 DEF Indexed, Known, Chain, Apart, Opened, Objs
<1>3. Shape(x, P, [h \in {} |-> 0])
  BY <1>1, <1>2 DEF Shape
<1> QED
  BY <1>3 DEF P

(* GenerateIndex: a root for every store when the index was empty, and     *)
(* the tree as it was otherwise.                                           *)
LEMMA GenerateKeeps ==
  ASSUME NEW x, NEW P, NEW rk, Shape(x, P, rk)
  PROVE  \E Q, r : /\ Shape(GenerateIndex(x), Q, r) /\ StoreId \subseteq DOMAIN Q
                   /\ GenerateIndex(x).disk = x.disk
<1>1. CASE Generated(x)
  <2>1. GenerateIndex(x) = x
    BY <1>1 DEF GenerateIndex
  <2>2. StoreId \subseteq DOMAIN P
    BY <1>1 DEF Generated, Shape, Indexed, Known
  <2> QED
    BY <2>1, <2>2
<1>2. CASE ~Generated(x)
  <2> DEFINE Q == [s \in StoreId |-> <<s>>]
             r == [s \in StoreId |-> 0]
             recs == [s \in StoreId |-> RootRec(s)]
  <2>1. PICK y : y = GenerateIndex(x)
    OBVIOUS
  <2>2. y = [x EXCEPT !.recs = recs]
    BY <1>2, <2>1 DEF GenerateIndex
  <2>3. \A s \in StoreId : RootRec(s) \in Rec /\ s \in Elem
    BY DEF RootRec, Rec, NoParent, Elem
  <2>4. MaxFS \in Nat /\ recs \in [0 .. MaxFS - 1 -> Rec]
    BY <2>3, BoundsAssumption DEF StoreId
  <2>5. recs \in Index
    BY <2>4 DEF Index
  <2>6. /\ DOMAIN recs = StoreId
        /\ \A s \in StoreId : /\ recs[s].store = s /\ recs[s].parent = NoParent /\ recs[s].sibling = 0
                              /\ recs[s].child = 0 /\ recs[s].isdir /\ ~recs[s].scanned
    BY DEF RootRec
  <2> HIDE DEF recs
  <2>7. x \in Machine /\ DOMAIN x.recs = {}
    BY <1>2 DEF Shape, Generated
  <2>8. /\ y \in Machine /\ y.recs = recs /\ y.disk = x.disk /\ y.hung = x.hung /\ y.file = x.file
        /\ y.open = x.open
    BY <2>2, <2>5, <2>7 DEF Machine
  <2>9. x.open = Orphan /\ Orphan \notin StoreId
    BY <2>7, BoundsAssumption DEF Shape, Opened, StoreId, Orphan
  <2>10. /\ DOMAIN Q = StoreId /\ Q \in [DOMAIN Q -> Where] /\ Objs(Q) = {}
         /\ \A s \in StoreId : Q[s] = <<s>> /\ Q[s][1] = s
    BY <2>3, Single DEF Where, Objs
  <2> HIDE DEF Q
  <2>11. Indexed(y)
    BY <2>6, <2>8 DEF Indexed
  <2>12. Known(y, Q)
    BY <2>6, <2>8, <2>10 DEF Known
  <2>13. Chain(y, DOMAIN Q, Objs(Q), r)
    BY <2>6, <2>8, <2>10 DEF Chain
  <2>14. Apart(Q)
    BY <2>10 DEF Apart
  <2>15. ASSUME NEW s \in DOMAIN Q PROVE OnDisk(y, Q, s)
    <3>1. <<s>> \in DOMAIN x.disk /\ x.disk[<<s>>] = Dir
      BY <2>10 DEF Shape, WellFormed
    <3> QED
      BY <2>6, <2>8, <2>10, <3>1 DEF OnDisk
  <2>16. \A s \in DOMAIN Q : Full(y, Q, s)
    BY <2>6, <2>8, <2>10 DEF Full
  <2>17. Opened(y, Q)
    BY <2>8, <2>9, <2>10 DEF Opened
  <2>18. WellFormed(y.disk) /\ ~y.hung
    BY <2>8 DEF Shape
  <2>19. Shape(y, Q, r)
    <3> HIDE DEF r
    <3> QED
      BY <2>8, <2>11, <2>12, <2>13, <2>14, <2>15, <2>16, <2>17, <2>18 DEF Shape
  <2>20. StoreId \subseteq DOMAIN Q /\ y.disk = x.disk
    BY <2>8, <2>10
  <2> QED
    BY <2>1, <2>19, <2>20
<1> QED
  BY <1>1, <1>2


(* A set in the order of a sequence. *)
LEMMA InOrder ==
  ASSUME NEW S, IsFiniteSet(S)
  PROVE  /\ SetToSeq(S) \in Seq(S) /\ Len(SetToSeq(S)) = Cardinality(S)
         /\ \A i, j \in 1 .. Len(SetToSeq(S)) : SetToSeq(S)[i] = SetToSeq(S)[j] => i = j
         /\ \A e \in S : \E i \in 1 .. Len(SetToSeq(S)) : SetToSeq(S)[i] = e
<1> DEFINE c == Cardinality(S)
<1>1. c \in Nat /\ ExistsBijection(1 .. c, S)
  BY FS_CardinalityType
<1>2. PICK s : s = SetToSeq(S)
  OBVIOUS
<1>3. \E f \in [1 .. c -> S] : IsInjective(f)
  BY <1>1 DEF ExistsBijection, Bijection, Injection
<1>4. s \in [1 .. c -> S] /\ IsInjective(s)
  BY <1>2, <1>3 DEF SetToSeq
<1>5. IsFiniteSet(1 .. c) /\ Cardinality(1 .. c) = c
  <2>1. 1 \in Int /\ c \in Int
    BY <1>1
  <2>2. IsFiniteSet(1 .. c) /\ Cardinality(1 .. c) = IF 1 > c THEN 0 ELSE c - 1 + 1
    BY <2>1, FS_Interval, Zenon
  <2> QED
    BY <1>1, <2>2
<1>6. s \in Injection(1 .. c, S)
  BY <1>4 DEF Injection
<1>7. s \in Surjection(1 .. c, S)
  <2>1. Cardinality(1 .. c) = Cardinality(S) <=> s \in Surjection(1 .. c, S)
    BY <1>6, FS_Injection, Zenon
  <2> QED
    BY <1>5, <2>1
<1>8. s \in Seq(S) /\ Len(s) = c
  BY <1>1, <1>4
<1>9. \A i, j \in 1 .. Len(s) : s[i] = s[j] => i = j
  BY <1>4, <1>8 DEF IsInjective
<1>10. \A e \in S : \E i \in 1 .. Len(s) : s[i] = e
  BY <1>7, <1>8 DEF Surjection
<1> QED
  BY <1>2, <1>8, <1>9, <1>10

(* What is listed of a directory: what is one name longer. *)
LEMMA EntryIs ==
  ASSUME NEW d, WellFormed(d), DOMAIN d \subseteq Where, NEW f \in Where, Len(f) >= 1
  PROVE  /\ IsFiniteSet(Entries(d, f))
         /\ \A q \in Entries(d, f) : q \in DOMAIN d /\ q = Append(f, Last(q)) /\ Last(q) \in Names
         /\ \A e \in Names : Append(f, e) \in DOMAIN d => Append(f, e) \in Entries(d, f)
<1>1. f \in Seq(Elem) /\ Len(f) \in Nat
  BY LenProperties DEF Where
<1>2. IsFiniteSet(Entries(d, f))
  <2>1. IsFiniteSet(DOMAIN d) /\ Entries(d, f) \in SUBSET DOMAIN d
    BY DEF WellFormed, Entries
  <2> QED
    BY <2>1, FS_Subset
<1>3. ASSUME NEW q \in Entries(d, f)
      PROVE q \in DOMAIN d /\ q = Append(f, Last(q)) /\ Last(q) \in Names
  <2>1. q \in DOMAIN d /\ q \in Seq(Elem) /\ Len(q) = Len(f) + 1 /\ Front(q) = f
    BY DEF Entries, Where
  <2>2. Len(q) > 1
    BY <1>1, <2>1
  <2>3. q = Append(Front(q), Last(q))
    BY <2>1, <2>2, FrontLast
  <2>4. \A s \in StoreId : q # <<s>>
    <3>1. ASSUME NEW s \in StoreId, q = <<s>> PROVE FALSE
      <4>1. Len(<<s>>) = 1
        OBVIOUS
      <4> QED
        BY <2>2, <3>1, <4>1
    <3> QED
      BY <3>1
  <2>5. Last(q) \in Names
    BY <2>1, <2>4 DEF WellFormed
  <2> QED
    BY <2>1, <2>3, <2>5
<1>4. ASSUME NEW e \in Names, Append(f, e) \in DOMAIN d PROVE Append(f, e) \in Entries(d, f)
  <2>1. e \in Elem
    BY DEF Elem
  <2>2. Len(Append(f, e)) = Len(f) + 1 /\ Front(Append(f, e)) = f
    BY <1>1, <2>1, FrontOfAppend
  <2> QED
    BY <1>4, <2>2 DEF Entries
<1> QED
  BY <1>2, <1>3, <1>4

(* The records n .. l are those of the entries at[n] .. at[l] of f, which  *)
(* were not in the index.                                                  *)
ScanTo(x, y, d, f, n, l, at) ==
  /\ n \in Nat /\ l \in Int /\ n <= l + 1
  /\ DOMAIN x.recs = 0 .. n - 1 /\ DOMAIN y.recs = 0 .. l
  /\ y \in Machine /\ Beside(x, y)
  /\ \A g \in 0 .. n - 1 : g # d => y.recs[g] = x.recs[g]
  /\ y.recs[d].store = x.recs[d].store /\ y.recs[d].parent = x.recs[d].parent
  /\ y.recs[d].sibling = x.recs[d].sibling /\ y.recs[d].isdir = x.recs[d].isdir
  /\ y.recs[d].name = x.recs[d].name
  /\ y.recs[d].scanned /\ y.recs[d].child = IF l < n THEN 0 ELSE l
  /\ \A h \in n .. l :
       /\ at[h] \in DOMAIN x.disk /\ at[h] = Append(f, y.recs[h].name) /\ y.recs[h].name \in Names
       /\ y.recs[h].store = x.recs[d].store /\ y.recs[h].parent = d
       /\ y.recs[h].sibling = IF h = n THEN 0 ELSE h - 1
       /\ y.recs[h].isdir <=> x.disk[at[h]] = Dir
       /\ y.recs[h].child = IF x.disk[at[h]] = Dir THEN 0 ELSE x.disk[at[h]]
       /\ ~y.recs[h].scanned
  /\ \A g, h \in n .. l : at[g] = at[h] => g = h
  /\ \A e \in Names : Append(f, e) \in DOMAIN x.disk => \E h \in n .. l : at[h] = Append(f, e)

(* ScanFolder's loop over the entries appends one record for each, the     *)
(* last one first in the list.                                             *)
LEMMA ScannedIs ==
  ASSUME NEW x \in Machine, WellFormed(x.disk), Indexed(x), NEW d \in DOMAIN x.recs,
         Len(x.file) >= 1
  PROVE  \E n, l, at :
           ScanTo(x, Scanned(x, d, NextHandle(x), SetToSeq(Entries(x.disk, x.file))), d, x.file, n, l, at)
<1> DEFINE n == NextHandle(x)
           f == x.file
<1>1. PICK found : found = SetToSeq(Entries(x.disk, f))
  OBVIOUS
<1>2. /\ DOMAIN x.disk \subseteq Where /\ f \in Where /\ x.recs \in [0 .. n - 1 -> Rec] /\ n \in Nat
      /\ DOMAIN x.recs = 0 .. n - 1 /\ x.recs[d] \in Rec /\ Read(x, d) = x.recs[d]
      /\ \A q \in DOMAIN x.disk : x.disk[q] \in Int
  BY MachineFields, IndexSize, ReadIs
<1>3. /\ found \in Seq(Entries(x.disk, f)) /\ Len(found) \in Nat
      /\ \A i, j \in 1 .. Len(found) : found[i] = found[j] => i = j
      /\ \A e \in Entries(x.disk, f) : \E i \in 1 .. Len(found) : found[i] = e
      /\ \A i \in 1 .. Len(found) : found[i] \in Entries(x.disk, f)
      /\ found = <<>> <=> Len(found) = 0
  <2>1. IsFiniteSet(Entries(x.disk, f))
    BY <1>2, EntryIs
  <2>2. /\ found \in Seq(Entries(x.disk, f))
        /\ \A i, j \in 1 .. Len(found) : found[i] = found[j] => i = j
        /\ \A e \in Entries(x.disk, f) : \E i \in 1 .. Len(found) : found[i] = e
    BY <1>1, <2>1, InOrder
  <2> QED
    BY <2>2, InSeq
<1> DEFINE k == Len(found)
           l == n + k - 1
           at == [h \in n .. l |-> found[h - n + 1]]
           new(h) == Entry(x, d, found[h - n + 1], IF h = n THEN 0 ELSE h - 1)
           recs == [h \in 0 .. l |-> IF h < n THEN x.recs[h] ELSE new(h)]
           z == Entered(x, d, n, found)
           r == [Read(x, d) EXCEPT !.scanned = TRUE, !.child = IF found = <<>> THEN 0 ELSE n + k - 1]
<1>4. ASSUME NEW h \in n .. l
      PROVE  /\ h - n + 1 \in 1 .. k /\ at[h] = found[h - n + 1] /\ at[h] \in Entries(x.disk, f)
             /\ at[h] \in DOMAIN x.disk /\ at[h] = Append(f, Last(at[h])) /\ Last(at[h]) \in Names
  <2>1. h - n + 1 \in 1 .. k
    <3>1. n \in Nat /\ k \in Nat
      BY <1>2, <1>3
    <3> HIDE DEF n, k
    <3> QED
      BY <3>1
  <2>2. at[h] = found[h - n + 1] /\ at[h] \in Entries(x.disk, f)
    BY <1>3, <2>1
  <2> QED
    BY <2>1, <2>2, <1>2, EntryIs
<1>5. ASSUME NEW h \in n .. l
      PROVE  /\ new(h) \in Rec
             /\ new(h).store = x.recs[d].store /\ new(h).parent = d
             /\ new(h).sibling = IF h = n THEN 0 ELSE h - 1
             /\ new(h).isdir <=> x.disk[at[h]] = Dir
             /\ new(h).child = IF x.disk[at[h]] = Dir THEN 0 ELSE x.disk[at[h]]
             /\ ~new(h).scanned /\ new(h).name = Last(at[h])
  <2>1. PICK q \in DOMAIN x.disk : q = at[h] /\ q = found[h - n + 1] /\ Last(q) \in Names
    BY <1>4
  <2>2. new(h) = [store |-> x.recs[d].store, parent |-> d, sibling |-> IF h = n THEN 0 ELSE h - 1,
                  child |-> IF x.disk[q] = Dir THEN 0 ELSE x.disk[q], isdir |-> x.disk[q] = Dir,
                  scanned |-> FALSE, name |-> Last(q)]
    BY <1>2, <2>1 DEF Entry
  <2>3. d \in Int /\ (IF h = n THEN 0 ELSE h - 1) \in Int /\ x.disk[q] \in Int /\ x.recs[d].store \in StoreId
    <3>1. d \in Int /\ x.recs[d].store \in StoreId
      BY <1>2 DEF Rec
    <3>2. h \in Int /\ x.disk[q] \in Int
      BY <1>2, <2>1
    <3> QED
      BY <3>1, <3>2
  <2>4. PICK i \in Int : i = IF h = n THEN 0 ELSE h - 1
    BY <2>3
  <2>5. PICK c \in Int : c = IF x.disk[q] = Dir THEN 0 ELSE x.disk[q]
    BY <2>3
  <2>6. PICK b \in BOOLEAN : b = (x.disk[q] = Dir)
    OBVIOUS
  <2>7. new(h) = [store |-> x.recs[d].store, parent |-> d, sibling |-> i,
                  child |-> c, isdir |-> b, scanned |-> FALSE, name |-> Last(q)]
    <3> HIDE DEF new, at
    <3> QED
      BY <2>2, <2>4, <2>5, <2>6
  <2> HIDE DEF new, at
  <2>8. /\ new(h) \in Rec /\ new(h).store = x.recs[d].store /\ new(h).parent = d
        /\ new(h).sibling = i /\ new(h).isdir = b /\ new(h).child = c /\ ~new(h).scanned
        /\ new(h).name = Last(q)
    BY <2>1, <2>3, <2>7 DEF Rec
  <2> QED
    BY <2>1, <2>4, <2>5, <2>6, <2>8
<1>6. z = [x EXCEPT !.recs = recs]
  BY DEF Entered
<1>7. l \in Int /\ n <= l + 1 /\ l + 1 \in Nat /\ (l < n <=> found = <<>>) /\ (l + 1) - 1 = l /\ n + k - 1 = l
  <2>1. n \in Nat /\ k \in Nat /\ (found = <<>> <=> k = 0)
    BY <1>2, <1>3
  <2> HIDE DEF n, k
  <2> QED
    BY <2>1
<1> HIDE DEF new, at, l, k
<1>8. recs \in [0 .. (l + 1) - 1 -> Rec]
  <2>1. \A h \in 0 .. l : h < n => h \in 0 .. n - 1
    BY <1>2
  <2>2. \A h \in 0 .. l : ~(h < n) => h \in n .. l
    BY <1>2, <1>7
  <2>3. \A h \in 0 .. l : recs[h] \in Rec
    BY <1>2, <1>5, <2>1, <2>2
  <2> QED
    BY <1>7, <2>3
<1>9. recs \in Index
  BY <1>7, <1>8 DEF Index
<1>10. /\ DOMAIN recs = 0 .. l
       /\ \A h \in 0 .. n - 1 : recs[h] = x.recs[h]
       /\ \A h \in n .. l : recs[h] = new(h)
  BY <1>2, <1>7
<1> HIDE DEF recs
<1>11. z \in Machine /\ z.recs = recs /\ Beside(x, z)
  BY <1>6, <1>9 DEF Machine, Beside
<1> HIDE DEF z
<1>12. /\ r \in Rec /\ r.store = x.recs[d].store /\ r.parent = x.recs[d].parent
       /\ r.sibling = x.recs[d].sibling /\ r.isdir = x.recs[d].isdir /\ r.name = x.recs[d].name
       /\ r.scanned /\ r.child = IF l < n THEN 0 ELSE l
  <2>1. r = [x.recs[d] EXCEPT !.scanned = TRUE, !.child = IF l < n THEN 0 ELSE l]
    BY <1>2, <1>7
  <2>2. PICK b \in Rec : b = x.recs[d]
    BY <1>2
  <2>3. (IF l < n THEN 0 ELSE l) \in Int
    BY <1>7
  <2> HIDE DEF r
  <2> QED
    BY <2>1, <2>2, <2>3 DEF Rec
<1>13. d \in DOMAIN z.recs
  BY <1>2, <1>7, <1>10, <1>11
<1>14. PICK y : y = Put(z, d, r)
  OBVIOUS
<1> HIDE DEF r
<1>15. PutTo(z, y, d, r)
  BY <1>11, <1>12, <1>13, <1>14, PutFields, Zenon
<1>16. y = Scanned(x, d, n, found)
  BY <1>14 DEF Scanned, z, r, k
<1>17. z.recs[d] = x.recs[d] /\ d \in 0 .. n - 1
  BY <1>2, <1>10, <1>11
<1>18. y \in Machine /\ Beside(x, y) /\ DOMAIN y.recs = 0 .. l
  BY <1>10, <1>11, <1>15 DEF PutTo, Beside
<1>19. \A g \in 0 .. n - 1 : g # d => y.recs[g] = x.recs[g]
  <2>1. \A g \in 0 .. n - 1 : g \in 0 .. l
    BY <1>2, <1>7
  <2> HIDE DEF n
  <2> QED
    BY <2>1, <1>10, <1>11, <1>15 DEF PutTo
<1>20. /\ y.recs[d].store = x.recs[d].store /\ y.recs[d].parent = x.recs[d].parent
       /\ y.recs[d].sibling = x.recs[d].sibling /\ y.recs[d].isdir = x.recs[d].isdir
       /\ y.recs[d].name = x.recs[d].name
       /\ y.recs[d].scanned /\ y.recs[d].child = IF l < n THEN 0 ELSE l
  <2>1. CASE d \in StoreId
    BY <2>1, <1>12, <1>15, <1>17 DEF PutTo
  <2>2. CASE d \notin StoreId
    BY <2>2, <1>12, <1>15 DEF PutTo
  <2> QED
    BY <2>1, <2>2
<1>21. \A h \in n .. l : y.recs[h] = new(h)
  <2>1. \A h \in n .. l : h # d /\ h \in DOMAIN z.recs
    BY <1>2, <1>7, <1>10, <1>11, <1>17
  <2> QED
    BY <2>1, <1>10, <1>11, <1>15 DEF PutTo
<1>22. \A g, h \in n .. l : at[g] = at[h] => g = h
  <2>1. \A g \in n .. l : g - n + 1 \in 1 .. k /\ at[g] = found[g - n + 1]
    BY <1>4
  <2>2. \A i, j \in 1 .. k : found[i] = found[j] => i = j
    BY <1>3 DEF k
  <2> SUFFICES ASSUME NEW g \in n .. l, NEW h \in n .. l, at[g] = at[h] PROVE g = h
    OBVIOUS
  <2>3. g - n + 1 = h - n + 1
    BY <2>1, <2>2
  <2> QED
    BY <1>2, <1>7, <2>3
<1>23. ASSUME NEW e \in Names,
              Append(f, e) \in DOMAIN x.disk PROVE \E h \in n .. l : at[h] = Append(f, e)
  <2>1. Append(f, e) \in Entries(x.disk, f)
    BY <1>2, <1>23, EntryIs
  <2>2. PICK i \in 1 .. k : found[i] = Append(f, e)
    BY <1>3, <2>1 DEF k
  <2>3. i + n - 1 \in n .. l /\ (i + n - 1) - n + 1 = i
    <3>1. n \in Nat /\ l = n + k - 1 /\ k \in Nat
      BY <1>2, <1>3, <1>7 DEF k
    <3> QED
      BY <3>1
  <2>4. at[i + n - 1] = Append(f, e)
    BY <1>4, <2>2, <2>3
  <2> QED
    BY <2>3, <2>4
<1>24. ScanTo(x, y, d, f, n, l, at)
  <2> HIDE DEF n, f
  <2>1. \A h \in n .. l :
       /\ at[h] \in DOMAIN x.disk /\ at[h] = Append(f, y.recs[h].name) /\ y.recs[h].name \in Names
       /\ y.recs[h].store = x.recs[d].store /\ y.recs[h].parent = d
       /\ y.recs[h].sibling = IF h = n THEN 0 ELSE h - 1
       /\ y.recs[h].isdir <=> x.disk[at[h]] = Dir
       /\ y.recs[h].child = IF x.disk[at[h]] = Dir THEN 0 ELSE x.disk[at[h]]
       /\ ~y.recs[h].scanned
    BY <1>4, <1>5, <1>21
  <2> QED
    BY <1>2, <1>7, <1>18, <1>19, <1>20, <1>22, <1>23, <2>1 DEF ScanTo
<1> QED
  BY <1>1, <1>16, <1>24 DEF n, f


(* A directory of which nothing was in the index is scanned: all that is in *)
(* it is an object then.                                                    *)
NewPlace(P, n, l, at) == [h \in DOMAIN P \cup (n .. l) |-> IF h \in n .. l THEN at[h] ELSE P[h]]

(* A directory that was not scanned has no objects; with the ones          *)
(* ScanFolder adds the index agrees with the store.                        *)
LEMMA ScanLive ==
  ASSUME NEW x, NEW P, NEW rk, Shape(x, P, rk), NEW d \in DOMAIN P,
         x.recs[d].isdir, ~x.recs[d].scanned,
         NEW y, NEW n, NEW l, NEW at, ScanTo(x, y, d, P[d], n, l, at)
  PROVE  \E r : /\ Indexed(y) /\ Known(y, NewPlace(P, n, l, at))
                /\ Chain(y, DOMAIN NewPlace(P, n, l, at), Objs(NewPlace(P, n, l, at)), r)
                /\ Apart(NewPlace(P, n, l, at))
                /\ \A h \in DOMAIN NewPlace(P, n, l, at) : OnDisk(y, NewPlace(P, n, l, at), h)
                /\ \A h \in DOMAIN NewPlace(P, n, l, at) : Full(y, NewPlace(P, n, l, at), h)
<1> DEFINE Q == NewPlace(P, n, l, at)
           N == n .. l
           r == [h \in Objs(P) \cup N |-> IF h \in N THEN h ELSE rk[h]]
<1>1. /\ x \in Machine /\ Indexed(x) /\ Known(x, P) /\ Chain(x, DOMAIN P, Objs(P), rk) /\ Apart(P)
      /\ n \in Nat /\ l \in Int /\ n <= l + 1
      /\ DOMAIN x.recs = 0 .. n - 1 /\ DOMAIN y.recs = 0 .. l
      /\ y.disk = x.disk
  BY DEF Shape, ScanTo, Beside
<1>2. /\ DOMAIN y.recs = DOMAIN x.recs \cup N /\ \A h \in N : h \notin DOMAIN x.recs /\ h \in Nat
  BY <1>1
<1>3. /\ StoreId \subseteq DOMAIN x.recs /\ DOMAIN P \subseteq DOMAIN x.recs /\ d \in DOMAIN x.recs
      /\ Objs(P) \subseteq DOMAIN x.recs /\ 0 \in StoreId /\ 0 \in DOMAIN x.recs
  BY ZeroIsStore DEF Shape, Indexed, Known, Objs
<1>4. \A h \in N : h \notin DOMAIN P /\ h \notin StoreId /\ h # 0 /\ h # d /\ h \notin Objs(P)
  BY <1>2, <1>3 DEF Objs
<1>5. /\ DOMAIN Q = DOMAIN P \cup N
      /\ \A h \in DOMAIN P : Q[h] = P[h]
      /\ \A h \in N : Q[h] = at[h]
      /\ Objs(Q) = Objs(P) \cup N
  BY <1>4 DEF NewPlace, Objs
<1>6. \A h \in Objs(P) : r[h] = rk[h]
  BY <1>4
<1>7. \A h \in N : r[h] = h
  OBVIOUS
<1> HIDE DEF Q, r
<1>8. \A g \in DOMAIN x.recs :
       /\ y.recs[g].store = x.recs[g].store /\ y.recs[g].parent = x.recs[g].parent
       /\ y.recs[g].sibling = x.recs[g].sibling /\ y.recs[g].isdir = x.recs[g].isdir
       /\ y.recs[g].name = x.recs[g].name
       /\ g # d => y.recs[g] = x.recs[g]
  BY <1>1 DEF ScanTo
<1>9. y.recs[d].scanned /\ y.recs[d].child = IF l < n THEN 0 ELSE l
  BY DEF ScanTo
<1>10. \A h \in N :
       /\ at[h] \in DOMAIN x.disk /\ at[h] = Append(P[d], y.recs[h].name)
       /\ y.recs[h].name \in Names
       /\ y.recs[h].store = x.recs[d].store /\ y.recs[h].parent = d
       /\ y.recs[h].sibling = IF h = n THEN 0 ELSE h - 1
       /\ y.recs[h].isdir <=> x.disk[at[h]] = Dir
       /\ y.recs[h].child = IF x.disk[at[h]] = Dir THEN 0 ELSE x.disk[at[h]]
       /\ ~y.recs[h].scanned
  BY DEF ScanTo
<1>11. \A h \in Objs(P) : x.recs[h].parent # d
  BY DEF Shape, Full
<1>12. P \in [DOMAIN P -> Where] /\ DOMAIN x.disk \subseteq Where
  BY <1>1, MachineFields DEF Known
<1>13. Indexed(y)
  <2>1. DOMAIN y.recs \ StoreId = (DOMAIN x.recs \ StoreId) \cup N /\ StoreId \cap DOMAIN y.recs = StoreId \cap DOMAIN x.recs
    BY <1>2, <1>4
  <2> QED
    <3>1. StoreId \subseteq DOMAIN y.recs
      BY <1>2, <1>3
    <3>2. \A s \in StoreId \cap DOMAIN y.recs :
            y.recs[s].parent = NoParent /\ y.recs[s].sibling = 0 /\ y.recs[s].store = s /\ y.recs[s].isdir
      BY <1>1, <1>8, <2>1 DEF Indexed
    <3>3. ASSUME NEW h \in DOMAIN y.recs \ StoreId PROVE y.recs[h].parent \in DOMAIN y.recs
      <4>1. CASE h \in N
        BY <1>2, <1>3, <1>10, <4>1
      <4>2. CASE h \in DOMAIN x.recs \ StoreId
        <5>1. x.recs[h].parent \in DOMAIN x.recs /\ y.recs[h].parent = x.recs[h].parent
          BY <1>1, <1>8, <4>2 DEF Indexed
        <5> QED
          BY <1>2, <5>1
      <4> QED
        BY <2>1, <4>1, <4>2
    <3> QED
      BY <3>1, <3>2, <3>3 DEF Indexed
<1>14. Known(y, Q)
  <2>1. Q \in [DOMAIN Q -> Where]
    <3>1. \A h \in DOMAIN Q : Q[h] \in Where
      BY <1>5, <1>10, <1>12
    <3>2. Q = [h \in DOMAIN Q |-> Q[h]]
      BY DEF Q, NewPlace
    <3> QED
      BY <3>1, <3>2
  <2>2. DOMAIN Q \subseteq DOMAIN y.recs /\ StoreId \cap DOMAIN y.recs \subseteq DOMAIN Q
    BY <1>1, <1>2, <1>3, <1>4, <1>5 DEF Known
  <2>3. ASSUME NEW h \in DOMAIN Q PROVE y.recs[h].store = Q[h][1]
    <3>1. CASE h \in DOMAIN P
      BY <1>1, <1>3, <1>5, <1>8, <3>1 DEF Known
    <3>2. CASE h \in N
      <4>1. PICK p \in Seq(Elem) : p = P[d] /\ Len(p) >= 1 /\ x.recs[d].store = p[1] /\ Len(p) \in Nat
        BY <1>1, KnownIs
      <4>2. PICK e \in Elem : e = y.recs[h].name
        BY <1>10, <3>2 DEF Elem
      <4>3. Append(p, e)[1] = p[1]
        BY <4>1, FrontOfAppend
      <4> QED
        BY <1>5, <1>10, <3>2, <4>1, <4>2, <4>3
    <3> QED
      BY <1>5, <3>1, <3>2
  <2>4. \A s \in StoreId \cap DOMAIN y.recs : Q[s] = <<s>>
    BY <1>1, <1>2, <1>3, <1>4, <1>5 DEF Known
  <2>5. ASSUME NEW h \in DOMAIN Q \ StoreId
        PROVE  /\ y.recs[h].parent \in DOMAIN Q /\ y.recs[y.recs[h].parent].isdir
               /\ y.recs[h].name \in Names
               /\ Q[h] = Append(Q[y.recs[h].parent], y.recs[h].name)
    <3>1. CASE h \in DOMAIN P
      <4>1. /\ x.recs[h].parent \in DOMAIN P /\ x.recs[x.recs[h].parent].isdir
            /\ x.recs[h].name \in Names
            /\ P[h] = Append(P[x.recs[h].parent], x.recs[h].name)
        BY <1>1, <3>1 DEF Known
      <4>2. /\ y.recs[h].parent = x.recs[h].parent /\ y.recs[h].name = x.recs[h].name
            /\ Q[h] = P[h]
        BY <1>3, <1>5, <1>8, <3>1
      <4>3. x.recs[h].parent \in DOMAIN Q /\ Q[x.recs[h].parent] = P[x.recs[h].parent]
        BY <1>5, <4>1
      <4>4. y.recs[x.recs[h].parent].isdir
        BY <1>3, <1>8, <4>1
      <4> QED
        BY <4>1, <4>2, <4>3, <4>4
    <3>2. CASE h \in N
      <4>1. /\ y.recs[h].parent = d /\ y.recs[h].name \in Names
            /\ Q[h] = Append(P[d], y.recs[h].name)
        BY <1>5, <1>10, <3>2
      <4>2. d \in DOMAIN Q /\ Q[d] = P[d]
        BY <1>5
      <4>3. y.recs[d].isdir
        BY <1>3, <1>8
      <4> QED
        BY <4>1, <4>2, <4>3
    <3> QED
      BY <1>5, <3>1, <3>2
  <2>6. ASSUME NEW h \in DOMAIN y.recs \ DOMAIN Q
        PROVE y.recs[h].name = NoName \/ y.recs[h].parent \notin DOMAIN Q
    <3>1. h \in DOMAIN x.recs /\ h \notin DOMAIN P /\ h \notin StoreId
      BY <1>1, <1>2, <1>5 DEF Known
    <3>2. x.recs[h].name = NoName \/ x.recs[h].parent \notin DOMAIN P
      BY <1>1, <3>1 DEF Known
    <3>3. x.recs[h].parent \in DOMAIN x.recs
      BY <1>1, <3>1 DEF Indexed
    <3> QED
      BY <1>2, <1>5, <1>8, <3>1, <3>2, <3>3
  <2> QED
    BY <2>1, <2>2, <2>3, <2>4, <2>5, <2>6 DEF Known
<1>15. Chain(y, DOMAIN Q, Objs(Q), r)
  <2>1. DOMAIN Q \subseteq DOMAIN y.recs /\ Objs(Q) \subseteq DOMAIN y.recs \ StoreId
    BY <1>14 DEF Known, Objs
  <2>2. ASSUME NEW k \in Objs(Q)
        PROVE  r[k] \in Nat /\ y.recs[k].parent \in DOMAIN Q /\ y.recs[y.recs[k].parent].isdir
    <3>1. r[k] \in Nat
      BY <1>1, <1>2, <1>5, <1>6, <1>7 DEF Chain
    <3>2. k \in DOMAIN Q \ StoreId
      BY DEF Objs
    <3> QED
      BY <3>1, <3>2, <1>14 DEF Known
  <2>3. ASSUME NEW g \in DOMAIN Q, y.recs[g].isdir, y.recs[g].child # 0
        PROVE  y.recs[g].child \in Objs(Q) /\ y.recs[y.recs[g].child].parent = g
    <3>1. CASE g = d
      <4>1. y.recs[g].child = l /\ l \in N
        BY <1>1, <1>9, <2>3, <3>1
      <4> QED
        BY <1>5, <1>10, <3>1, <4>1
    <3>2. CASE g \in DOMAIN P /\ g # d
      <4>1. x.recs[g].isdir /\ y.recs[g].child = x.recs[g].child /\ x.recs[g].child # 0
        BY <1>3, <1>8, <2>3, <3>2
      <4>2. x.recs[g].child \in Objs(P) /\ x.recs[x.recs[g].child].parent = g
        BY <1>1, <3>2, <4>1 DEF Chain
      <4> QED
        BY <1>3, <1>5, <1>8, <4>1, <4>2
    <3>3. CASE g \in N
      BY <1>10, <2>3, <3>3
    <3> QED
      BY <1>5, <3>1, <3>2, <3>3
  <2>4. ASSUME NEW k \in Objs(Q), y.recs[k].sibling # 0
        PROVE  /\ y.recs[k].sibling \in Objs(Q)
               /\ y.recs[y.recs[k].sibling].parent = y.recs[k].parent
               /\ r[y.recs[k].sibling] < r[k]
               /\ y.recs[y.recs[k].parent].child # y.recs[k].sibling
    <3>1. CASE k \in Objs(P)
      <4>1. y.recs[k].sibling = x.recs[k].sibling /\ y.recs[k].parent = x.recs[k].parent
        BY <1>3, <1>8, <3>1
      <4>2. /\ x.recs[k].sibling \in Objs(P)
            /\ x.recs[x.recs[k].sibling].parent = x.recs[k].parent
            /\ rk[x.recs[k].sibling] < rk[k]
            /\ x.recs[x.recs[k].parent].child # x.recs[k].sibling
            /\ x.recs[k].parent \in DOMAIN P
        BY <1>1, <2>4, <3>1, <4>1 DEF Chain
      <4>3. x.recs[k].parent # d
        BY <1>11, <3>1
      <4>4. y.recs[x.recs[k].parent] = x.recs[x.recs[k].parent]
        BY <1>3, <1>8, <4>2, <4>3
      <4> QED
        BY <1>3, <1>5, <1>6, <1>8, <3>1, <4>1, <4>2, <4>4
    <3>2. CASE k \in N
      <4>1. k # n /\ y.recs[k].sibling = k - 1 /\ y.recs[k].parent = d
        BY <1>10, <2>4, <3>2
      <4>2. k - 1 \in N /\ l # k - 1 /\ ~(l < n) /\ k - 1 < k
        BY <1>1, <3>2, <4>1
      <4>3. y.recs[k - 1].parent = d /\ r[k - 1] = k - 1 /\ r[k] = k
        BY <1>7, <1>10, <3>2, <4>2
      <4> QED
        BY <1>5, <1>9, <4>1, <4>2, <4>3
    <3> QED
      BY <1>5, <3>1, <3>2
  <2>5. ASSUME NEW k \in Objs(Q)
        PROVE  y.recs[y.recs[k].parent].child = k \/ \E j \in Objs(Q) : y.recs[j].sibling = k
    <3>1. CASE k \in Objs(P)
      <4>1. /\ x.recs[x.recs[k].parent].child = k \/ \E j \in Objs(P) : x.recs[j].sibling = k
            /\ x.recs[k].parent \in DOMAIN P
        BY <1>1, <3>1 DEF Chain
      <4>2. y.recs[k].parent = x.recs[k].parent /\ y.recs[x.recs[k].parent] = x.recs[x.recs[k].parent]
        BY <1>3, <1>8, <1>11, <3>1, <4>1
      <4> QED
        BY <1>3, <1>5, <1>8, <4>1, <4>2
    <3>2. CASE k \in N /\ k = l
      <4>1. y.recs[d].child = k
        BY <1>1, <1>9, <3>2
      <4> QED
        BY <1>10, <3>2, <4>1
    <3>3. CASE k \in N /\ k # l
      <4>1. k + 1 \in N /\ k + 1 # n /\ (k + 1) - 1 = k
        BY <1>1, <3>3
      <4>2. y.recs[k + 1].sibling = k
        BY <1>10, <4>1
      <4> QED
        BY <1>5, <4>1, <4>2
    <3> QED
      BY <1>5, <3>1, <3>2, <3>3
  <2>6. ASSUME NEW j \in Objs(Q), NEW k \in Objs(Q), y.recs[j].sibling = y.recs[k].sibling,
               y.recs[j].sibling # 0
        PROVE  j = k
    <3>1. \A i \in Objs(P) : y.recs[i].sibling # 0 =>
            y.recs[i].sibling = x.recs[i].sibling /\ y.recs[i].sibling \in DOMAIN x.recs
      BY <1>1, <1>3, <1>8 DEF Chain
    <3>2. \A i \in N : y.recs[i].sibling # 0 => y.recs[i].sibling = i - 1 /\ y.recs[i].sibling \in N /\ i \in Int
      BY <1>1, <1>10
    <3>3. CASE j \in Objs(P) /\ k \in Objs(P)
      <4>1. x.recs[j].sibling = x.recs[k].sibling /\ x.recs[j].sibling # 0
        BY <2>6, <3>1, <3>3
      <4> QED
        BY <1>1, <3>3, <4>1 DEF Chain
    <3>4. CASE j \in N /\ k \in N
      BY <2>6, <3>2, <3>4
    <3>5. CASE (j \in Objs(P) /\ k \in N) \/ (j \in N /\ k \in Objs(P))
      BY <1>2, <2>6, <3>1, <3>2, <3>5
    <3> QED
      BY <1>5, <3>3, <3>4, <3>5
  <2> QED
    BY <2>1, <2>2, <2>3, <2>4, <2>5, <2>6 DEF Chain
<1>16. Apart(Q)
  <2>1. ASSUME NEW h \in N, NEW g \in DOMAIN P PROVE at[h] # P[g]
    <3>1. SUFFICES ASSUME at[h] = P[g] PROVE FALSE
      OBVIOUS
    <3>2. PICK p \in Seq(Elem) : p = P[d] /\ Len(p) >= 1 /\ Len(p) \in Nat
      BY <1>1, KnownIs
    <3>3. PICK e \in Elem : e = y.recs[h].name
      BY <1>10 DEF Elem
    <3>4. P[g] = Append(p, e) /\ Front(Append(p, e)) = p /\ Len(Append(p, e)) = Len(p) + 1
      BY <1>10, <3>1, <3>2, <3>3, FrontOfAppend
    <3>5. g \notin StoreId
      <4>1. g \in StoreId => Len(P[g]) = 1
        BY <1>1, KnownIs
      <4> QED
        BY <3>2, <3>4, <4>1
    <3>6. PICK pp \in Seq(Elem), pe \in Elem :
             pp = P[x.recs[g].parent] /\ pe = x.recs[g].name /\ P[g] = Append(pp, pe) /\ x.recs[g].parent \in DOMAIN P
      <4>1. g \in DOMAIN P \ StoreId
        BY <3>5
      <4>2. /\ x.recs[g].parent \in DOMAIN P /\ x.recs[g].name \in Elem
            /\ P[g] = Append(P[x.recs[g].parent], x.recs[g].name)
        BY <1>1, <4>1, KnownIs
      <4>3. P[x.recs[g].parent] \in Seq(Elem)
        BY <1>1, <4>2, KnownIs
      <4> QED
        BY <4>2, <4>3
    <3>7. Front(Append(pp, pe)) = pp
      BY FrontOfAppend
    <3>8. x.recs[g].parent = d
      BY <1>1, <3>2, <3>4, <3>6, <3>7 DEF Apart
    <3> QED
      BY <1>11, <3>5, <3>8 DEF Objs
  <2>2. \A g, h \in N : at[g] = at[h] => g = h
    BY DEF ScanTo
  <2> SUFFICES ASSUME NEW g \in DOMAIN Q, NEW h \in DOMAIN Q, Q[g] = Q[h] PROVE g = h
    BY DEF Apart
  <2>3. CASE g \in DOMAIN P /\ h \in DOMAIN P
    BY <1>1, <1>5, <2>3 DEF Apart
  <2>4. CASE g \in N /\ h \in N
    BY <1>5, <2>2, <2>4
  <2>5. CASE g \in N /\ h \in DOMAIN P
    BY <1>5, <2>1, <2>5
  <2>6. CASE g \in DOMAIN P /\ h \in N
    BY <1>5, <2>1, <2>6
  <2> QED
    BY <1>5, <2>3, <2>4, <2>5, <2>6
<1>17. ASSUME NEW h \in DOMAIN Q PROVE OnDisk(y, Q, h)
  <2>1. CASE h \in N
    <3>1. Q[h] = at[h] /\ at[h] \in DOMAIN x.disk /\ (y.recs[h].isdir <=> x.disk[at[h]] = Dir)
      BY <1>5, <1>10, <2>1
    <3>2. ~y.recs[h].isdir => y.recs[h].child = x.disk[at[h]]
      BY <1>10, <2>1
    <3> QED
      BY <1>1, <3>1, <3>2 DEF OnDisk
  <2>2. CASE h \in DOMAIN P
    <3>1. OnDisk(x, P, h)
      BY <2>2 DEF Shape
    <3>2. y.recs[h].isdir = x.recs[h].isdir /\ (~x.recs[h].isdir => y.recs[h].child = x.recs[h].child)
      BY <1>3, <1>8, <2>2
    <3> QED
      BY <1>1, <1>5, <2>2, <3>1, <3>2 DEF OnDisk
  <2> QED
    BY <1>5, <2>1, <2>2
<1>18. ASSUME NEW g \in DOMAIN Q PROVE Full(y, Q, g)
  <2>1. \A h \in Objs(Q) : y.recs[h].parent = d \/ (h \in Objs(P) /\ y.recs[h].parent = x.recs[h].parent /\ x.recs[h].parent \in DOMAIN P)
    BY <1>1, <1>3, <1>5, <1>8, <1>10 DEF Chain
  <2>2. CASE g \in N
    BY <1>4, <1>10, <2>1, <2>2 DEF Full
  <2>3. CASE g = d
    <3>1. \A e \in Names : Append(P[d], e) \in DOMAIN x.disk => \E h \in N : at[h] = Append(P[d], e)
      BY DEF ScanTo
    <3> QED
      BY <1>1, <1>5, <1>9, <2>3, <3>1 DEF Full
  <2>4. CASE g \in DOMAIN P /\ g # d
    <3>1. Full(x, P, g) /\ y.recs[g] = x.recs[g]
      BY <1>3, <1>8, <2>4 DEF Shape
    <3> QED
      BY <1>1, <1>5, <2>1, <2>4, <3>1 DEF Full
  <2> QED
    BY <1>5, <2>2, <2>3, <2>4
<1> QED
  BY <1>13, <1>14, <1>15, <1>16, <1>17, <1>18 DEF Q


(* A directory that was deleted, or is in one, may be scanned too, if it   *)
(* has a namesake; what is entered then is of no object.                   *)
LEMMA ScanDead ==
  ASSUME NEW x, NEW P, NEW rk, Shape(x, P, rk), NEW d \in DOMAIN x.recs \ DOMAIN P,
         NEW y, NEW f, NEW n, NEW l, NEW at, ScanTo(x, y, d, f, n, l, at)
  PROVE  /\ Indexed(y) /\ Known(y, P)
         /\ Chain(y, DOMAIN P, Objs(P), rk)
         /\ \A h \in DOMAIN P : OnDisk(y, P, h)
         /\ \A h \in DOMAIN P : Full(y, P, h)
<1> DEFINE N == n .. l
<1>1. /\ x \in Machine /\ Indexed(x) /\ Known(x, P) /\ Chain(x, DOMAIN P, Objs(P), rk)
      /\ n \in Nat /\ l \in Int /\ n <= l + 1
      /\ DOMAIN x.recs = 0 .. n - 1 /\ DOMAIN y.recs = 0 .. l
      /\ y.disk = x.disk
  BY DEF Shape, ScanTo, Beside
<1>2. /\ DOMAIN y.recs = DOMAIN x.recs \cup N /\ \A h \in N : h \notin DOMAIN x.recs /\ h \in Nat
  BY <1>1
<1>3. /\ StoreId \subseteq DOMAIN x.recs /\ DOMAIN P \subseteq DOMAIN x.recs /\ d \notin StoreId
      /\ Objs(P) \subseteq DOMAIN P /\ StoreId \subseteq DOMAIN P
  BY DEF Shape, Indexed, Known, Objs
<1>4. \A h \in N : h \notin DOMAIN P /\ h \notin StoreId /\ h # d
  BY <1>2, <1>3
<1>5. \A g \in DOMAIN x.recs :
       /\ y.recs[g].store = x.recs[g].store /\ y.recs[g].parent = x.recs[g].parent
       /\ y.recs[g].sibling = x.recs[g].sibling /\ y.recs[g].isdir = x.recs[g].isdir
       /\ y.recs[g].name = x.recs[g].name
       /\ g # d => y.recs[g] = x.recs[g]
  BY <1>1 DEF ScanTo
<1>6. \A g \in DOMAIN P : y.recs[g] = x.recs[g]
  BY <1>3, <1>5
<1>7. \A h \in N : y.recs[h].parent = d
  BY DEF ScanTo
<1>8. Indexed(y)
  <2>1. DOMAIN y.recs \ StoreId = (DOMAIN x.recs \ StoreId) \cup N /\ StoreId \cap DOMAIN y.recs = StoreId \cap DOMAIN x.recs
    BY <1>2, <1>4
  <2>2. StoreId \subseteq DOMAIN y.recs
    BY <1>2, <1>3
  <2>3. \A s \in StoreId \cap DOMAIN y.recs :
          y.recs[s].parent = NoParent /\ y.recs[s].sibling = 0 /\ y.recs[s].store = s /\ y.recs[s].isdir
    BY <1>1, <1>5, <2>1 DEF Indexed
  <2>4. ASSUME NEW h \in DOMAIN y.recs \ StoreId PROVE y.recs[h].parent \in DOMAIN y.recs
    <3>1. CASE h \in N
      BY <1>2, <1>7, <3>1
    <3>2. CASE h \in DOMAIN x.recs \ StoreId
      <4>1. x.recs[h].parent \in DOMAIN x.recs /\ y.recs[h].parent = x.recs[h].parent
        BY <1>1, <1>5, <3>2 DEF Indexed
      <4> QED
        BY <1>2, <4>1
    <3> QED
      BY <2>1, <3>1, <3>2
  <2> QED
    BY <2>2, <2>3, <2>4 DEF Indexed
<1>9. Known(y, P)
  <2>1. ASSUME NEW h \in DOMAIN y.recs \ DOMAIN P
        PROVE y.recs[h].name = NoName \/ y.recs[h].parent \notin DOMAIN P
    <3>1. CASE h \in N
      BY <1>7, <3>1
    <3>2. CASE h \in DOMAIN x.recs
      <4>1. x.recs[h].name = NoName \/ x.recs[h].parent \notin DOMAIN P
        BY <1>1, <3>2 DEF Known
      <4> QED
        BY <1>5, <3>2, <4>1
    <3> QED
      BY <1>2, <3>1, <3>2
  <2>2. \A h \in DOMAIN P \ StoreId : x.recs[h].parent \in DOMAIN P
    BY <1>1 DEF Known
  <2>3. P \in [DOMAIN P -> Where] /\ DOMAIN P \subseteq DOMAIN y.recs /\ StoreId \cap DOMAIN y.recs \subseteq DOMAIN P
    BY <1>1, <1>2, <1>3 DEF Known
  <2>4. \A h \in DOMAIN P : y.recs[h].store = P[h][1]
    BY <1>1, <1>6 DEF Known
  <2>5. \A s \in StoreId \cap DOMAIN y.recs : P[s] = <<s>>
    BY <1>1, <1>3 DEF Known
  <2>6. ASSUME NEW h \in DOMAIN P \ StoreId
        PROVE  /\ y.recs[h].parent \in DOMAIN P /\ y.recs[y.recs[h].parent].isdir
               /\ y.recs[h].name \in Names
               /\ P[h] = Append(P[y.recs[h].parent], y.recs[h].name)
    <3>1. /\ x.recs[h].parent \in DOMAIN P /\ x.recs[x.recs[h].parent].isdir
          /\ x.recs[h].name \in Names
          /\ P[h] = Append(P[x.recs[h].parent], x.recs[h].name)
      BY <1>1 DEF Known
    <3>2. y.recs[h] = x.recs[h] /\ y.recs[x.recs[h].parent] = x.recs[x.recs[h].parent]
      BY <1>6, <3>1
    <3> QED
      BY <3>1, <3>2
  <2> QED
    BY <2>1, <2>3, <2>4, <2>5, <2>6 DEF Known
<1>10. Chain(y, DOMAIN P, Objs(P), rk)
  <2>1. \A k \in Objs(P) : k \in Objs(P) <=> x.recs[k].parent \in DOMAIN P
    BY <1>1 DEF Chain
  <2>2. DOMAIN P \subseteq DOMAIN y.recs
    BY <1>2, <1>3
  <2> QED
    BY <1>1, <1>3, <1>6, <2>1, <2>2, ChainLike
<1>11. ASSUME NEW h \in DOMAIN P PROVE OnDisk(y, P, h)
  BY <1>1, <1>6 DEF Shape, OnDisk
<1>12. ASSUME NEW g \in DOMAIN P PROVE Full(y, P, g)
  <2>1. Full(x, P, g)
    BY DEF Shape
  <2> QED
    BY <1>1, <1>3, <1>6, <2>1 DEF Full
<1> QED
  BY <1>8, <1>9, <1>10, <1>11, <1>12

(* Records are added; of the old ones only the list and the scanned bit of  *)
(* the directories E change, and those that were scanned stay so.           *)
Grown(x, y, P, Q, E) ==
  /\ DOMAIN x.recs \subseteq DOMAIN y.recs
  /\ \A g \in DOMAIN x.recs :
       /\ y.recs[g].store = x.recs[g].store /\ y.recs[g].parent = x.recs[g].parent
       /\ y.recs[g].sibling = x.recs[g].sibling /\ y.recs[g].isdir = x.recs[g].isdir
       /\ y.recs[g].name = x.recs[g].name
       /\ x.recs[g].scanned => y.recs[g].scanned
       /\ g \notin E \/ ~x.recs[g].isdir => y.recs[g] = x.recs[g]
  /\ DOMAIN P \subseteq DOMAIN Q /\ \A h \in DOMAIN P : Q[h] = P[h]

(* An index that did not change has grown by nothing. *)
LEMMA GrownSame ==
  ASSUME NEW x, NEW y, NEW P, NEW E, y.recs = x.recs
  PROVE  Grown(x, y, P, P, E)
BY DEF Grown

(* An index that grows twice has grown. *)
LEMMA GrownOn ==
  ASSUME NEW x, NEW y, NEW z, NEW P, NEW Q, NEW R, NEW E, Grown(x, y, P, Q, E), Grown(y, z, Q, R, E)
  PROVE  Grown(x, z, P, R, E)
<1>1. ASSUME NEW g \in DOMAIN x.recs
      PROVE  /\ z.recs[g].store = x.recs[g].store /\ z.recs[g].parent = x.recs[g].parent
             /\ z.recs[g].sibling = x.recs[g].sibling /\ z.recs[g].isdir = x.recs[g].isdir
             /\ z.recs[g].name = x.recs[g].name
             /\ x.recs[g].scanned => z.recs[g].scanned
             /\ g \notin E \/ ~x.recs[g].isdir => z.recs[g] = x.recs[g]
  BY DEF Grown
<1> QED
  BY <1>1 DEF Grown

(* Unscanned(x, d): d is a directory that was not scanned. *)
Unscanned(x, d) == d \in DOMAIN x.recs /\ x.recs[d].isdir /\ ~x.recs[d].scanned

(* scan: nothing is lost, and no file stays open. *)
LEMMA ScanKeeps ==
  ASSUME NEW x, NEW P, NEW rk, Shape(x, P, rk), NEW d
  PROVE  \E Q, r : /\ Shape(ScanFolder(x, d), Q, r)
                   /\ Grown(x, ScanFolder(x, d), P, Q, {h \in {d} : Unscanned(x, h)})
                   /\ ScanFolder(x, d).disk = x.disk
                   /\ ScanFolder(x, d).file = NoFile /\ ScanFolder(x, d).open = Orphan
                   /\ d \in DOMAIN P /\ x.recs[d].isdir => ScanFolder(x, d).recs[d].scanned
<1> DEFINE E == {h \in {d} : Unscanned(x, h)}
<1>1. x \in Machine /\ (d \in DOMAIN x.recs => Read(x, d) = x.recs[d]) /\ (d \notin DOMAIN x.recs => Read(x, d) = ZeroRec)
      /\ DOMAIN P \subseteq DOMAIN x.recs
  BY ReadIs DEF Shape, Known
<1>2. CASE ~Unscanned(x, d)
  <2>1. PICK y : y = ScanFolder(x, d)
    OBVIOUS
  <2>2. y = CloseFile(x)
    <3>1. ~(Read(x, d).isdir /\ ~Read(x, d).scanned)
      <4>1. CASE d \in DOMAIN x.recs
        BY <1>1, <1>2, <4>1 DEF Unscanned
      <4>2. CASE d \notin DOMAIN x.recs
        BY <1>1, <4>2 DEF ZeroRec
      <4> QED
        BY <4>1, <4>2
    <3> QED
      BY <2>1, <3>1 DEF ScanFolder
  <2>3. Shape(y, P, rk) /\ y.recs = x.recs /\ y.disk = x.disk /\ y.file = NoFile /\ y.open = Orphan
    BY <1>1, <2>2, CloseKeeps, CloseFileIs
  <2>4. Grown(x, y, P, P, E)
    BY <2>3, GrownSame
  <2>5. d \in DOMAIN P /\ x.recs[d].isdir => y.recs[d].scanned
    BY <1>1, <1>2, <2>3 DEF Unscanned
  <2> QED
    BY <2>1, <2>3, <2>4, <2>5
<1>3. CASE Unscanned(x, d)
  <2>1. PICK z : z = OpenFileByIndex(x, d, "read", TRUE)
    OBVIOUS
  <2>2. /\ Shape(z, P, rk) /\ z.recs = x.recs /\ z.disk = x.disk /\ (z.file = NoFile => z.open = Orphan)
        /\ d \in DOMAIN P => z.file = P[d] /\ z.file # NoFile
    <3>1. d \in DOMAIN x.recs
      BY <1>3 DEF Unscanned
    <3>2. PICK room : room = TRUE
      OBVIOUS
    <3>3. /\ Shape(OpenFileByIndex(x, d, "read", room), P, rk)
          /\ OpenFileByIndex(x, d, "read", room).recs = x.recs
          /\ OpenFileByIndex(x, d, "read", room).disk = x.disk
          /\ OpenFileByIndex(x, d, "read", room).file = NoFile => OpenFileByIndex(x, d, "read", room).open = Orphan
          /\ d \in DOMAIN P =>
               /\ OpenFileByIndex(x, d, "read", room).file = P[d]
               /\ OpenFileByIndex(x, d, "read", room).file # NoFile
      BY <3>1, OpenRead
    <3> QED
      BY <2>1, <3>2, <3>3
  <2>3. PICK y : y = ScanFolder(x, d)
    OBVIOUS
  <2>4. y = ScanFile(z, d)
    BY <1>1, <1>3, <2>1, <2>3 DEF ScanFolder, Unscanned
  <2>5. CASE z.file = NoFile
    <3>1. y = z
      BY <2>4, <2>5 DEF ScanFile
    <3>2. Grown(x, y, P, P, E)
      BY <2>2, <3>1, GrownSame
    <3> QED
      BY <2>2, <2>3, <2>5, <3>1, <3>2
  <2>6. CASE z.file # NoFile
    <3>1. z \in Machine /\ WellFormed(z.disk) /\ Indexed(z) /\ d \in DOMAIN z.recs
      BY <1>3, <2>2 DEF Shape, Unscanned
    <3>2. Len(z.file) >= 1
      <4>1. PICK s \in Seq(Elem) : s = z.file
        BY <3>1, MachineFields DEF Where
      <4>2. Len(s) \in Nat /\ (Len(s) = 0 => s = <<>>)
        BY EmptySeq, LenProperties
      <4> QED
        BY <2>6, <4>1, <4>2 DEF NoFile
    <3>3. PICK w : w = Scanned(z, d, NextHandle(z), SetToSeq(Entries(z.disk, z.file)))
      OBVIOUS
    <3>4. PICK n, l, at : ScanTo(z, w, d, z.file, n, l, at)
      BY <3>1, <3>2, <3>3, ScannedIs
    <3>5. y = CloseFile(w)
      BY <2>4, <2>6, <3>3 DEF ScanFile
    <3>6. w \in Machine /\ Beside(z, w) /\ w.recs[d].scanned
      BY <3>4 DEF ScanTo
    <3>7. /\ y \in Machine /\ y.recs = w.recs /\ y.disk = w.disk /\ y.hung = w.hung
          /\ y.file = NoFile /\ y.open = Orphan
      BY <3>5, <3>6, CloseFileIs
    <3>8. /\ DOMAIN x.recs \subseteq DOMAIN w.recs
          /\ \A g \in DOMAIN x.recs :
               /\ w.recs[g].store = x.recs[g].store /\ w.recs[g].parent = x.recs[g].parent
               /\ w.recs[g].sibling = x.recs[g].sibling /\ w.recs[g].isdir = x.recs[g].isdir
               /\ w.recs[g].name = x.recs[g].name
               /\ x.recs[g].scanned => w.recs[g].scanned
               /\ g # d => w.recs[g] = x.recs[g]
      <4>1. DOMAIN x.recs = 0 .. n - 1 /\ DOMAIN w.recs = 0 .. l /\ n \in Nat /\ l \in Int /\ n <= l + 1
        BY <2>2, <3>4 DEF ScanTo
      <4>2. DOMAIN x.recs \subseteq DOMAIN w.recs
        BY <4>1
      <4> QED
        BY <2>2, <3>4, <4>1, <4>2 DEF ScanTo
    <3>9. d \in E /\ x.recs[d].isdir
      BY <1>3 DEF Unscanned
    <3>10. ASSUME NEW Q, NEW r, Indexed(w), Known(w, Q), Chain(w, DOMAIN Q, Objs(Q), r), Apart(Q),
                  \A h \in DOMAIN Q : OnDisk(w, Q, h), \A h \in DOMAIN Q : Full(w, Q, h),
                  DOMAIN P \subseteq DOMAIN Q, \A h \in DOMAIN P : Q[h] = P[h]
           PROVE  Shape(y, Q, r) /\ Grown(x, y, P, Q, E)
      <4>1. Opened(y, Q)
        BY <3>7 DEF Opened
      <4>2. WellFormed(y.disk) /\ ~y.hung
        BY <2>2, <3>6, <3>7 DEF Shape, Beside
      <4>3. Indexed(y)
        BY <3>7, <3>10 DEF Indexed
      <4>4. Known(y, Q)
        BY <3>7, <3>10 DEF Known
      <4>5. Chain(y, DOMAIN Q, Objs(Q), r)
        BY <3>7, <3>10 DEF Chain
      <4>6. \A h \in DOMAIN Q : OnDisk(y, Q, h)
        BY <3>7, <3>10 DEF OnDisk
      <4>7. \A h \in DOMAIN Q : Full(y, Q, h)
        BY <3>7, <3>10 DEF Full
      <4>8. Shape(y, Q, r)
        BY <3>7, <3>10, <4>1, <4>2, <4>3, <4>4, <4>5, <4>6, <4>7 DEF Shape
      <4>9. Grown(x, y, P, Q, E)
        <5> HIDE DEF E
        <5>1. ASSUME NEW g \in DOMAIN x.recs,
                     g \notin E \/ ~x.recs[g].isdir PROVE y.recs[g] = x.recs[g]
          BY <3>7, <3>8, <3>9, <5>1
        <5> QED
          BY <3>7, <3>8, <3>10, <5>1 DEF Grown
      <4> QED
        BY <4>8, <4>9
    <3>11. \E Q, r : Shape(y, Q, r) /\ Grown(x, y, P, Q, E)
      <4>1. CASE d \in DOMAIN P
        <5>1. ScanTo(z, w, d, P[d], n, l, at)
          BY <2>2, <3>4, <4>1
        <5>2. z.recs[d].isdir /\ ~z.recs[d].scanned
          BY <1>3, <2>2 DEF Unscanned
        <5>3. PICK Q : Q = NewPlace(P, n, l, at)
          OBVIOUS
        <5>4. PICK r : /\ Indexed(w) /\ Known(w, Q) /\ Chain(w, DOMAIN Q, Objs(Q), r) /\ Apart(Q)
                       /\ \A h \in DOMAIN Q : OnDisk(w, Q, h)
                       /\ \A h \in DOMAIN Q : Full(w, Q, h)
          BY <2>2, <4>1, <5>1, <5>2, <5>3, ScanLive
        <5>5. DOMAIN P \subseteq DOMAIN Q /\ \A h \in DOMAIN P : Q[h] = P[h]
          <6>1. DOMAIN P \subseteq 0 .. n - 1 /\ n \in Nat
            BY <1>1, <2>2, <3>4 DEF ScanTo
          <6>2. \A h \in DOMAIN P : h \notin n .. l
            BY <6>1
          <6> QED
            BY <5>3, <6>2 DEF NewPlace
        <5> QED
          BY <3>10, <5>4, <5>5
      <4>2. CASE d \notin DOMAIN P
        <5>1. d \in DOMAIN z.recs \ DOMAIN P
          BY <3>1, <4>2
        <5>2. /\ Indexed(w) /\ Known(w, P) /\ Chain(w, DOMAIN P, Objs(P), rk)
              /\ \A h \in DOMAIN P : OnDisk(w, P, h)
              /\ \A h \in DOMAIN P : Full(w, P, h)
          BY <2>2, <3>4, <5>1, ScanDead
        <5>3. Apart(P)
          BY DEF Shape
        <5> QED
          BY <3>10, <5>2, <5>3
      <4> QED
        BY <4>1, <4>2
    <3>12. y.disk = x.disk
      BY <2>2, <3>6, <3>7 DEF Beside
    <3> QED
      BY <2>3, <3>6, <3>7, <3>11, <3>12
  <2> QED
    BY <2>5, <2>6
<1> QED
  BY <1>2, <1>3


(* The machines that hold a tree with every store in it. *)
Shaped == {y \in Machine : \E Q, r : Shape(y, Q, r) /\ StoreId \subseteq DOMAIN Q}
(* The function that the loop of ScanAll makes. *)
Scans(x, store, h) == h = [n \in 0 .. MaxHandle + 1 |->
  IF n = 0 THEN [x EXCEPT !.all = TRUE] ELSE ScanNext(h[n - 1], store, n - 1)]

(* One step of ScanAll scans a directory or passes over a record: a tree   *)
(* is left in either case.                                                 *)
LEMMA ScanNextKeeps ==
  ASSUME NEW x \in Shaped, NEW store, NEW h
  PROVE  ScanNext(x, store, h) \in Shaped
<1>1. PICK P, rk : Shape(x, P, rk) /\ StoreId \subseteq DOMAIN P
  BY DEF Shaped
<1>2. CASE h < NextHandle(x)
  <2>1. PICK d : d = Folder(store, h)
    OBVIOUS
  <2>2. PICK y : y = ScanFolder(x, d)
    OBVIOUS
  <2>3. ScanNext(x, store, h) = y
    BY <1>2, <2>1, <2>2 DEF ScanNext, ScanDir
  <2>4. PICK Q, r : Shape(y, Q, r) /\ Grown(x, y, P, Q, {g \in {d} : Unscanned(x, g)})
    BY <1>1, <2>2, ScanKeeps
  <2>5. y \in Machine /\ StoreId \subseteq DOMAIN Q
    BY <1>1, <2>4 DEF Shape, Grown
  <2> QED
    BY <2>3, <2>4, <2>5 DEF Shaped
<1>3. CASE ~(h < NextHandle(x))
  BY <1>3 DEF ScanNext
<1> QED
  BY <1>2, <1>3

(* A listing of a whole store goes through all records. *)
LEMMA ScanAllKeeps ==
  ASSUME NEW x \in Shaped, NEW store
  PROVE  ScanAll(x, store) \in Shaped
<1> DEFINE N == MaxHandle + 1
           a == [x EXCEPT !.all = TRUE]
           step == [n \in 1 .. N |-> [s \in Shaped |-> ScanNext(s, store, n - 1)]]
<1>1. N \in Nat
  BY BoundsAssumption
<1>2. a \in Shaped
  <2>1. PICK P, rk : x \in Machine /\ Shape(x, P, rk) /\ StoreId \subseteq DOMAIN P
    BY DEF Shaped
  <2>2. PICK y : y = a
    OBVIOUS
  <2>3. /\ y \in Machine /\ y.recs = x.recs /\ y.disk = x.disk /\ y.hung = x.hung
        /\ y.file = x.file /\ y.open = x.open
    BY <2>1, <2>2 DEF Machine
  <2>4. Opened(y, P)
    BY <2>1, <2>3 DEF Shape, Opened
  <2>5. Shape(y, P, rk)
    BY <2>1, <2>3, <2>4, Reopened
  <2> QED
    BY <2>1, <2>2, <2>3, <2>5 DEF Shaped
<1>3. step \in [1 .. N -> [Shaped -> Shaped]]
  BY ScanNextKeeps
<1> HIDE DEF a
<1>4. PICK g \in [0 .. N -> Shaped] : Repeats(g, N, a, step)
  <2> HIDE DEF step, N
  <2> QED
    BY <1>1, <1>2, <1>3, Recursion, Zenon
<1>5. Scans(x, store, g)
  <2>1. ASSUME NEW n \in 0 .. N PROVE g[n] = IF n = 0 THEN a ELSE ScanNext(g[n - 1], store, n - 1)
    <3>1. CASE n = 0
      <4> HIDE DEF step
      <4> QED
        BY <1>1, <1>4, <3>1 DEF Repeats
    <3>2. CASE n # 0
      <4>1. n \in 1 .. N /\ n - 1 \in 0 .. N
        BY <1>1, <3>2
      <4>2. g[n - 1] \in Shaped
        BY <4>1
      <4>3. g[n] = step[n][g[n - 1]]
        <5> HIDE DEF step
        <5> QED
          BY <1>4, <3>2, <4>1 DEF Repeats
      <4> QED
        BY <3>2, <4>1, <4>2, <4>3
    <3> QED
      BY <3>1, <3>2
  <2> HIDE DEF step
  <2> QED
    BY <1>4, <2>1 DEF Scans, a
<1> HIDE DEF step
<1>6. PICK f : f = CHOOSE h : Scans(x, store, h)
  OBVIOUS
<1>7. ScanAll(x, store) = IF x.all THEN x ELSE f[N]
  BY <1>6 DEF ScanAll, Scans
<1>8. Scans(x, store, f)
  <2> HIDE DEF N
  <2> QED
    BY <1>5, <1>6
<1>9. \A n \in 0 .. N : f[n] = IF n = 0 THEN a ELSE ScanNext(f[n - 1], store, n - 1)
  BY <1>8, Zenon DEF Scans, a
<1> DEFINE T == {n \in 0 .. N : f[n] \in Shaped}
<1>10. 0 \in T
  BY <1>1, <1>2, <1>9
<1>11. \A n \in 1 .. N : n - 1 \in T => n \in T
  <2> SUFFICES ASSUME NEW n \in 1 .. N, n - 1 \in T PROVE n \in T
    OBVIOUS
  <2>1. n \in 0 .. N /\ n # 0
    BY <1>1
  <2>2. f[n] = ScanNext(f[n - 1], store, n - 1)
    BY <1>9, <2>1
  <2> QED
    BY <2>1, <2>2, ScanNextKeeps
<1>12. N \in T
  <2>1. 0 .. N \subseteq T
    <3> HIDE DEF T, N
    <3> QED
      BY <1>1, <1>10, <1>11, Induct, Zenon
  <2> QED
    BY <1>1, <2>1
<1> QED
  BY <1>7, <1>12

(* What is on a store when p is called to there. *)
LEMMA RelocatedIs ==
  ASSUME NEW d \in Discs, WellFormed(d), NEW p \in DOMAIN d, Len(p) > 1,
         NEW to \in Where, Len(to) > 1, Last(to) \in Names, CanRename(d, p, to)
  PROVE  /\ Relocated(d, p, to) \in Discs /\ WellFormed(Relocated(d, p, to))
         /\ \A q \in DOMAIN d : /\ Renamed(q, p, to) \in DOMAIN Relocated(d, p, to)
                                /\ Relocated(d, p, to)[Renamed(q, p, to)] = d[q]
         /\ \A z \in DOMAIN Relocated(d, p, to) : \E q \in DOMAIN d : Renamed(q, p, to) = z
         /\ \A q, s \in DOMAIN d : Renamed(q, p, to) = Renamed(s, p, to) => q = s
         /\ \A q \in DOMAIN d : q # p /\ Len(q) > 1 =>
              /\ Front(q) \in DOMAIN d
              /\ Renamed(q, p, to) = Append(Renamed(Front(q), p, to), Last(q))
<1> DEFINE ren == [q \in DOMAIN d |-> Renamed(q, p, to)]
           R == Relocated(d, p, to)
<1>1. DOMAIN d \subseteq Where /\ p \in Where /\ (\A q \in DOMAIN d : d[q] \in Content \cup {Dir})
  <2>1. PICK D \in SUBSET Where : d \in [D -> Content \cup {Dir}]
    BY DEF Discs
  <2> QED
    BY <2>1
<1>2. /\ p \in Seq(Elem) /\ to \in Seq(Elem) /\ DOMAIN d \subseteq Seq(Elem)
  BY <1>1 DEF Where
<1>3. /\ Renamed(p, p, to) = to
      /\ \A q \in Seq(Elem) : Renamed(q, p, to) \in Seq(Elem)
      /\ \A q \in Seq(Elem) : ~IsPrefix(p, q) => Renamed(q, p, to) = q
      /\ \A q \in Seq(Elem) : IsPrefix(p, q) => IsPrefix(to, Renamed(q, p, to))
      /\ \A q \in Seq(Elem), e \in Elem :
           IsPrefix(p, q) => Renamed(Append(q, e), p, to) = Append(Renamed(q, p, to), e)
      /\ \A q1, q2 \in Seq(Elem) :
           IsPrefix(p, q1) /\ IsPrefix(p, q2) /\ Renamed(q1, p, to) = Renamed(q2, p, to) => q1 = q2
  BY <1>2, RenamedFacts
<1>4. to \notin DOMAIN d /\ Front(to) \in DOMAIN d /\ d[Front(to)] = Dir /\ ~IsPrefix(p, to)
  BY DEF CanRename, CanHold
<1>5. \A q \in DOMAIN d : ~IsPrefix(to, q)
  <2>1. Len(to) > 0
    <3>1. Len(to) \in Nat
      BY <1>2, LenProperties
    <3> QED
      BY <3>1
  <2> QED
    BY <1>1, <1>4, <2>1, PrefixStored
<1>6. ASSUME NEW q \in DOMAIN d, NEW s \in DOMAIN d,
             Renamed(q, p, to) = Renamed(s, p, to) PROVE q = s
  <2>1. CASE IsPrefix(p, q) /\ IsPrefix(p, s)
    BY <1>2, <1>3, <1>6, <2>1
  <2>2. CASE ~IsPrefix(p, q) /\ ~IsPrefix(p, s)
    BY <1>2, <1>3, <1>6, <2>2
  <2>3. CASE IsPrefix(p, q) /\ ~IsPrefix(p, s)
    BY <1>2, <1>3, <1>5, <1>6, <2>3
  <2>4. CASE ~IsPrefix(p, q) /\ IsPrefix(p, s)
    BY <1>2, <1>3, <1>5, <1>6, <2>4
  <2> QED
    BY <2>1, <2>2, <2>3, <2>4
<1>7. /\ DOMAIN R = {Renamed(q, p, to) : q \in DOMAIN d}
      /\ \A z \in DOMAIN R : R[z] = d[CHOOSE q \in DOMAIN d : Renamed(q, p, to) = z]
  BY Zenon DEF Relocated
<1>8. R = [z \in DOMAIN R |-> R[z]]
  <2> DEFINE S == {Renamed(q, p, to) : q \in DOMAIN d}
             e == [z \in S |-> d[CHOOSE x \in DOMAIN d : Renamed(x, p, to) = z]]
  <2>1. R = e
    BY DEF Relocated
  <2>2. e = [z \in DOMAIN e |-> e[z]]
    <3> HIDE DEF S
    <3> QED
      OBVIOUS
  <2> HIDE DEF e, R
  <2> QED
    BY <2>1, <2>2
<1> HIDE DEF R
<1>9. ASSUME NEW q \in DOMAIN d PROVE Renamed(q, p, to) \in DOMAIN R /\ R[Renamed(q, p, to)] = d[q]
  <2>1. Renamed(q, p, to) \in DOMAIN R
    BY <1>7
  <2>2. PICK s : s = CHOOSE u \in DOMAIN d : Renamed(u, p, to) = Renamed(q, p, to)
    OBVIOUS
  <2>3. s \in DOMAIN d /\ Renamed(s, p, to) = Renamed(q, p, to)
    BY <2>2
  <2>4. s = q
    BY <1>6, <2>3
  <2>5. R[Renamed(q, p, to)] = d[s]
    BY <1>7, <2>1, <2>2
  <2> QED
    BY <2>1, <2>4, <2>5
<1>10. \A z \in DOMAIN R : \E q \in DOMAIN d : Renamed(q, p, to) = z
  BY <1>7
<1>11. ASSUME NEW q \in DOMAIN d, q # p, Len(q) > 1
       PROVE  /\ Front(q) \in DOMAIN d /\ d[Front(q)] = Dir /\ Last(q) \in Names
              /\ Renamed(q, p, to) = Append(Renamed(Front(q), p, to), Last(q))
  <2>1. \A s \in StoreId : q # <<s>>
    <3>1. ASSUME NEW s \in StoreId, q = <<s>> PROVE FALSE
      <4>1. Len(<<s>>) = 1
        OBVIOUS
      <4> QED
        BY <1>11, <3>1, <4>1
    <3> QED
      BY <3>1
  <2>2. Front(q) \in DOMAIN d /\ d[Front(q)] = Dir /\ Last(q) \in Names
    BY <2>1 DEF WellFormed
  <2>3. PICK f \in Seq(Elem), e \in Elem : f = Front(q) /\ e = Last(q)
    BY <1>2, <2>2 DEF Elem
  <2>4. q = Append(f, e)
    <3>1. Len(q) \in Nat /\ q \in Seq(Elem)
      BY <1>2, LenProperties
    <3>2. Len(q) > 0
      BY <1>11, <3>1
    <3> QED
      BY <2>3, <3>1, <3>2, FrontLast
  <2>5. IsPrefix(p, q) <=> IsPrefix(p, f)
    BY <1>2, <1>11, <2>4, PrefixOfAppend
  <2>6. CASE IsPrefix(p, q)
    BY <1>3, <2>2, <2>3, <2>4, <2>5, <2>6
  <2>7. CASE ~IsPrefix(p, q)
    BY <1>2, <1>3, <2>2, <2>3, <2>4, <2>5, <2>7
  <2> QED
    BY <2>6, <2>7
<1>12. DOMAIN R \subseteq Where /\ \A z \in DOMAIN R : R[z] \in Content \cup {Dir}
  <2> SUFFICES ASSUME NEW z \in DOMAIN R PROVE z \in Where /\ R[z] \in Content \cup {Dir}
    OBVIOUS
  <2>1. PICK q \in DOMAIN d : Renamed(q, p, to) = z
    BY <1>10
  <2> QED
    BY <1>1, <1>2, <1>3, <1>9, <2>1 DEF Where
<1>13. R \in [DOMAIN R -> Content \cup {Dir}]
  BY <1>8, <1>12
<1>14. R \in Discs
  BY <1>12, <1>13 DEF Discs
<1>15. WellFormed(R)
  <2>1. IsFiniteSet(DOMAIN R)
    <3>1. IsFiniteSet(DOMAIN d)
      BY DEF WellFormed
    <3>2. ren \in Surjection(DOMAIN d, DOMAIN R)
      <4>1. ren \in [DOMAIN d -> DOMAIN R]
        BY <1>9
      <4>2. \A z \in DOMAIN R : \E q \in DOMAIN d : ren[q] = z
        BY <1>10
      <4> QED
        BY <4>1, <4>2, Zenon DEF Surjection
    <3> HIDE DEF ren
    <3> QED
      BY <3>1, <3>2, FS_Surjection, Zenon
  <2>2. ASSUME NEW s \in StoreId PROVE <<s>> \in DOMAIN R /\ R[<<s>>] = Dir
    <3>1. <<s>> \in DOMAIN d /\ d[<<s>>] = Dir
      BY DEF WellFormed
    <3>2. PICK q \in Seq(Elem) : q = <<s>> /\ Len(q) = 1
      <4>1. s \in Elem
        BY DEF Elem
      <4> QED
        BY <4>1, Single
    <3>3. ~IsPrefix(p, q)
      <4>1. Len(p) \in Nat
        BY <1>2, LenProperties
      <4>2. IsPrefix(p, q) => Len(p) <= Len(q)
        BY <1>2, PrefixFacts
      <4> QED
        BY <3>2, <4>1, <4>2
    <3>4. Renamed(q, p, to) = q
      BY <1>3, <3>3
    <3> QED
      BY <1>9, <3>1, <3>2, <3>4
  <2>3. ASSUME NEW z \in DOMAIN R
        PROVE  \/ \E s \in StoreId : z = <<s>>
               \/ Len(z) > 1 /\ Last(z) \in Names /\ Front(z) \in DOMAIN R /\ R[Front(z)] = Dir
    <3>1. PICK q \in DOMAIN d : Renamed(q, p, to) = z
      BY <1>10
    <3>2. CASE q = p
      <4>1. z = to
        BY <1>3, <3>1, <3>2
      <4>2. ~IsPrefix(p, Front(to))
        <5>1. PICK f \in Seq(Elem), e \in Elem : f = Front(to) /\ e = Last(to)
          BY <1>2, <1>4 DEF Elem
        <5>2. to = Append(f, e)
          <6>1. Len(to) \in Nat
            BY <1>2, LenProperties
          <6>2. Len(to) > 0
            BY <6>1
          <6> QED
            BY <1>2, <5>1, <6>2, FrontLast
        <5>3. IsPrefix(p, Append(f, e)) <=> IsPrefix(p, f) \/ p = Append(f, e)
          BY <1>2, PrefixOfAppend
        <5> QED
          BY <1>4, <5>1, <5>2, <5>3
      <4>3. Renamed(Front(to), p, to) = Front(to)
        BY <1>2, <1>3, <1>4, <4>2
      <4>4. Front(to) \in DOMAIN R /\ R[Front(to)] = Dir
        BY <1>4, <1>9, <4>3
      <4> QED
        BY <4>1, <4>4
    <3>3. CASE q # p /\ Len(q) > 1
      <4>1. /\ Front(q) \in DOMAIN d /\ d[Front(q)] = Dir /\ Last(q) \in Names
            /\ z = Append(Renamed(Front(q), p, to), Last(q))
        BY <1>11, <3>1, <3>3
      <4>2. PICK g \in Seq(Elem), e \in Elem : g = Renamed(Front(q), p, to) /\ e = Last(q)
        BY <1>2, <1>3, <4>1 DEF Elem
      <4>3. Front(z) = g /\ Last(z) = e /\ Len(z) = Len(g) + 1 /\ Len(g) \in Nat
        BY <4>1, <4>2, FrontOfAppend
      <4>4. g \in DOMAIN R /\ R[g] = Dir
        BY <1>9, <4>1, <4>2
      <4>5. Len(g) >= 1
        <5>1. Len(Front(q)) >= 1
          <6>1. \A v \in StoreId : Len(<<v>>) = 1
            OBVIOUS
          <6>2. Len(Front(q)) > 1 \/ \E v \in StoreId : Front(q) = <<v>>
            BY <4>1 DEF WellFormed
          <6>3. PICK k \in Nat : k = Len(Front(q))
            BY <1>2, <4>1, LenProperties
          <6>4. k > 1 \/ k = 1
            BY <6>1, <6>2, <6>3
          <6> QED
            BY <6>3, <6>4
        <5>2. CASE IsPrefix(p, Front(q))
          <6>1. IsPrefix(to, g)
            BY <1>2, <1>3, <4>1, <4>2, <5>2
          <6>2. Len(to) <= Len(g)
            BY <1>2, <6>1, PrefixFacts
          <6>3. Len(to) \in Nat
            BY <1>2, LenProperties
          <6> QED
            BY <4>3, <6>2, <6>3
        <5>3. CASE ~IsPrefix(p, Front(q))
          <6>1. g = Front(q)
            BY <1>2, <1>3, <4>1, <4>2, <5>3
          <6> QED
            BY <5>1, <6>1
        <5> QED
          BY <5>2, <5>3
      <4>6. Len(z) > 1
        BY <4>3, <4>5
      <4> QED
        BY <4>1, <4>2, <4>3, <4>4, <4>6
    <3>4. CASE ~(Len(q) > 1)
      <4>1. PICK s \in StoreId : q = <<s>>
        BY <3>4 DEF WellFormed
      <4>2. PICK u \in Seq(Elem) : u = <<s>> /\ Len(u) = 1
        <5>1. s \in Elem
          BY DEF Elem
        <5> QED
          BY <5>1, Single
      <4>3. ~IsPrefix(p, u)
        <5>1. Len(p) \in Nat
          BY <1>2, LenProperties
        <5>2. IsPrefix(p, u) => Len(p) <= Len(u)
          BY <1>2, PrefixFacts
        <5> QED
          BY <4>2, <5>1, <5>2
      <4>4. z = u
        BY <1>3, <3>1, <4>1, <4>2, <4>3
      <4> QED
        BY <4>2, <4>4
    <3> QED
      BY <3>2, <3>3, <3>4
  <2> QED
    BY <1>13, <2>1, <2>2, <2>3 DEF WellFormed
<1>16. \A q \in DOMAIN d : q # p /\ Len(q) > 1 =>
         Front(q) \in DOMAIN d /\ Renamed(q, p, to) = Append(Renamed(Front(q), p, to), Last(q))
  BY <1>11
<1> QED
  BY <1>6, <1>9, <1>10, <1>14, <1>15, <1>16 DEF R


(* The stores have places, each with a size or Dir. *)
LEMMA DiscIs ==
  ASSUME NEW d \in Discs
  PROVE  /\ DOMAIN d \subseteq Where /\ d \in [DOMAIN d -> Content \cup {Dir}]
         /\ \A q \in DOMAIN d : d[q] \in Content \cup {Dir}
<1>1. PICK D \in SUBSET Where : d \in [D -> Content \cup {Dir}]
  BY DEF Discs
<1> QED
  BY <1>1

(* Making a file or a directory in a directory, or writing a file,         *)
(* changes what is at that place and nothing else.                         *)
LEMMA FilledIs ==
  ASSUME NEW d \in Discs, WellFormed(d), NEW p \in Where, NEW c \in Content \cup {Dir},
         \/ Len(p) > 1 /\ Last(p) \in Names /\ CanHold(d, p)
         \/ p \in DOMAIN d /\ d[p] # Dir /\ c # Dir
  PROVE  /\ Filled(d, p, c) \in Discs /\ WellFormed(Filled(d, p, c))
         /\ DOMAIN Filled(d, p, c) = DOMAIN d \cup {p} /\ Filled(d, p, c)[p] = c
         /\ \A q \in DOMAIN d \ {p} : Filled(d, p, c)[q] = d[q]
<1> DEFINE R == Filled(d, p, c)
<1>1. /\ DOMAIN R = DOMAIN d \cup {p} /\ R[p] = c
      /\ \A q \in DOMAIN d \ {p} : R[q] = d[q]
      /\ R = [q \in DOMAIN R |-> R[q]]
  BY DEF Filled
<1>2. DOMAIN d \subseteq Where /\ \A q \in DOMAIN d : d[q] \in Content \cup {Dir}
  BY DiscIs
<1> HIDE DEF R
<1>3. DOMAIN R \subseteq Where /\ \A q \in DOMAIN R : R[q] \in Content \cup {Dir}
  BY <1>1, <1>2
<1>4. R \in [DOMAIN R -> Content \cup {Dir}]
  BY <1>1, <1>3
<1>5. R \in Discs
  BY <1>3, <1>4 DEF Discs
<1>6. IsFiniteSet(DOMAIN R)
  <2>1. IsFiniteSet(DOMAIN d)
    BY DEF WellFormed
  <2> QED
    BY <1>1, <2>1, FS_AddElement
<1>7. \A q \in DOMAIN d : d[q] = Dir => R[q] = Dir
  BY <1>1 DEF CanHold
<1>8. ASSUME NEW q \in DOMAIN R
      PROVE  \/ \E s \in StoreId : q = <<s>>
             \/ Len(q) > 1 /\ Last(q) \in Names /\ Front(q) \in DOMAIN R /\ R[Front(q)] = Dir
  <2>1. CASE q \in DOMAIN d
    BY <1>1, <1>7, <2>1 DEF WellFormed
  <2>2. CASE q = p /\ q \notin DOMAIN d
    BY <1>1, <1>7, <2>2 DEF CanHold
  <2> QED
    BY <1>1, <2>1, <2>2
<1>9. \A s \in StoreId : <<s>> \in DOMAIN R /\ R[<<s>>] = Dir
  BY <1>1, <1>7 DEF WellFormed
<1>10. WellFormed(R)
  BY <1>4, <1>6, <1>8, <1>9 DEF WellFormed
<1> QED
  BY <1>1, <1>5, <1>10 DEF R

(* Removing a place removes what is under it and nothing else. *)
LEMMA EmptiedIs ==
  ASSUME NEW d \in Discs, WellFormed(d), NEW p \in Where, Len(p) > 1
  PROVE  /\ Emptied(d, p) \in Discs /\ WellFormed(Emptied(d, p))
         /\ DOMAIN Emptied(d, p) = {q \in DOMAIN d : ~IsPrefix(p, q)}
         /\ \A q \in DOMAIN Emptied(d, p) : Emptied(d, p)[q] = d[q]
<1> DEFINE R == Emptied(d, p)
           D == {q \in DOMAIN d : ~IsPrefix(p, q)}
<1>1. DOMAIN d \subseteq Where /\ \A q \in DOMAIN d : d[q] \in Content \cup {Dir}
  BY DiscIs
<1>2. p \in Seq(Elem) /\ DOMAIN d \subseteq Seq(Elem) /\ Len(p) \in Nat
  BY <1>1, LenProperties DEF Where
<1>3. ASSUME NEW q \in DOMAIN d, Len(q) = 1 PROVE ~IsPrefix(p, q)
  <2>1. IsPrefix(p, q) => Len(p) <= Len(q)
    BY <1>2, PrefixFacts
  <2> QED
    BY <1>2, <1>3, <2>1
<1>4. {q \in DOMAIN d : ~IsPrefix(p, q) \/ Len(q) = 1} = D
  BY <1>3
<1>5. R = [q \in D |-> d[q]]
  <2> HIDE DEF D
  <2> QED
    BY <1>4 DEF Emptied
<1>6. /\ DOMAIN R = D /\ \A q \in D : R[q] = d[q]
  <2> HIDE DEF R, D
  <2> QED
    BY <1>5
<1> HIDE DEF R
<1>7. R \in [DOMAIN R -> Content \cup {Dir}]
  BY <1>1, <1>5, <1>6
<1>8. R \in Discs
  <2>1. DOMAIN R \in SUBSET Where
    BY <1>1, <1>6
  <2> QED
    BY <1>7, <2>1 DEF Discs
<1>9. IsFiniteSet(DOMAIN R)
  <2>1. IsFiniteSet(DOMAIN d) /\ DOMAIN R \in SUBSET DOMAIN d
    BY <1>6 DEF WellFormed
  <2> QED
    BY <2>1, FS_Subset
<1>10. ASSUME NEW s \in StoreId PROVE <<s>> \in DOMAIN R /\ R[<<s>>] = Dir
  <2>1. <<s>> \in DOMAIN d /\ d[<<s>>] = Dir
    BY DEF WellFormed
  <2>2. Len(<<s>>) = 1
    OBVIOUS
  <2> QED
    BY <1>3, <1>6, <2>1, <2>2
<1>11. ASSUME NEW q \in DOMAIN R, \A s \in StoreId : q # <<s>>
       PROVE  Len(q) > 1 /\ Last(q) \in Names /\ Front(q) \in DOMAIN R /\ R[Front(q)] = Dir
  <2>1. q \in DOMAIN d /\ ~IsPrefix(p, q)
    BY <1>6
  <2>2. Len(q) > 1 /\ Last(q) \in Names /\ Front(q) \in DOMAIN d /\ d[Front(q)] = Dir
    BY <1>11, <2>1 DEF WellFormed
  <2>3. PICK f \in Seq(Elem), e \in Elem : f = Front(q) /\ e = Last(q)
    BY <1>2, <2>2 DEF Elem
  <2>4. q = Append(f, e)
    <3>1. q \in Seq(Elem) /\ Len(q) \in Nat
      BY <1>2, <2>1, LenProperties
    <3>2. Len(q) > 0
      BY <2>2, <3>1
    <3> QED
      BY <2>3, <3>1, <3>2, FrontLast
  <2>5. ~IsPrefix(p, f)
    BY <1>2, <2>1, <2>4, PrefixOfAppend
  <2> QED
    BY <1>6, <2>2, <2>3, <2>5
<1>12. WellFormed(R)
  BY <1>7, <1>9, <1>10, <1>11 DEF WellFormed
<1> QED
  BY <1>6, <1>8, <1>12 DEF R

(* The record of h has another name. *)
NamedTo(x, y, h, name) ==
  /\ y \in Machine /\ DOMAIN y.recs = DOMAIN x.recs /\ Beside(x, y)
  /\ \A g \in DOMAIN x.recs :
       /\ y.recs[g].store = x.recs[g].store /\ y.recs[g].parent = x.recs[g].parent
       /\ y.recs[g].sibling = x.recs[g].sibling /\ y.recs[g].child = x.recs[g].child
       /\ y.recs[g].isdir = x.recs[g].isdir /\ y.recs[g].scanned = x.recs[g].scanned
       /\ g # h => y.recs[g].name = x.recs[g].name
  /\ y.recs[h].name = name

(* Writing the record with another name changes that name only. *)
LEMMA NamedIs ==
  ASSUME NEW x \in Machine, NEW h \in DOMAIN x.recs \ StoreId, NEW name \in Names \cup {NoName}
  PROVE  NamedTo(x, Named(x, h, name), h, name)
<1>1. PICK b \in Rec : b = x.recs[h] /\ b = Read(x, h)
  BY ReadIs
<1>2. PICK r : r = [b EXCEPT !.name = name]
  OBVIOUS
<1>3. /\ r \in Rec /\ r.store = b.store /\ r.parent = b.parent /\ r.sibling = b.sibling
      /\ r.child = b.child /\ r.isdir = b.isdir /\ r.scanned = b.scanned /\ r.name = name
  BY <1>2 DEF Rec
<1>4. PICK y : y = Named(x, h, name)
  OBVIOUS
<1>5. y = Put(x, h, r)
  BY <1>1, <1>2, <1>4 DEF Named
<1>6. PutTo(x, y, h, r)
  BY <1>3, <1>5, PutFields
<1>7. y.recs[h] = r
  BY <1>6 DEF PutTo
<1> QED
  BY <1>1, <1>2, <1>3, <1>4, <1>6, <1>7 DEF PutTo, NamedTo

(* The tree but for the object h, which need not be on its store. *)
ShapeBut(x, P, rk, h) ==
  /\ x \in Machine /\ WellFormed(x.disk) /\ ~x.hung
  /\ Indexed(x) /\ Known(x, P) /\ Chain(x, DOMAIN P, Objs(P), rk)
  /\ Apart(P)
  /\ \A g \in DOMAIN P \ {h} : OnDisk(x, P, g)
  /\ \A g \in DOMAIN P : Full(x, P, g)
  /\ Opened(x, P)

(* The tree without what is under p. *)
Without(P, p) == [g \in {g \in DOMAIN P : ~IsPrefix(p, P[g])} |-> P[g]]

(* removeFile and the index: what is left is a tree again. *)
LEMMA DeletedIs ==
  ASSUME NEW x, NEW P, NEW rk, NEW h \in Objs(P), ShapeBut(x, P, rk, h)
  PROVE  /\ Shape(Deleted(x, h), Without(P, P[h]), rk)
         /\ Deleted(x, h).disk = Emptied(x.disk, P[h])
         /\ Deleted(x, h).file = x.file /\ Deleted(x, h).open = x.open
         /\ DOMAIN Deleted(x, h).recs = DOMAIN x.recs
<1> DEFINE p == P[h]
           Q == Without(P, p)
<1>1. /\ x \in Machine /\ WellFormed(x.disk) /\ ~x.hung /\ Indexed(x) /\ Known(x, P)
      /\ Chain(x, DOMAIN P, Objs(P), rk) /\ Apart(P) /\ Opened(x, P)
  BY DEF ShapeBut
<1>2. /\ h \in DOMAIN P \ StoreId /\ h \in DOMAIN x.recs \ StoreId
      /\ DOMAIN P \subseteq DOMAIN x.recs
      /\ p \in Where /\ p \in Seq(Elem) /\ Len(p) > 1 /\ Len(p) \in Nat /\ x.disk \in Discs
      /\ P \in [DOMAIN P -> Where] /\ x.recs \in Index
      /\ \A g \in DOMAIN P : P[g] \in Seq(Elem)
  <2>1. h \in DOMAIN P \ StoreId
    BY DEF Objs
  <2>2. /\ p \in Where /\ p \in Seq(Elem) /\ Len(p) > 1 /\ Len(p) \in Nat
        /\ \A g \in DOMAIN P : P[g] \in Seq(Elem)
    BY <1>1, <2>1, KnownIs
  <2>3. x.disk \in Discs /\ x.recs \in Index
    BY <1>1, MachineFields
  <2> QED
    BY <1>1, <2>1, <2>2, <2>3 DEF Known
<1>3. PICK d : /\ d = Emptied(x.disk, p) /\ d \in Discs /\ WellFormed(d)
               /\ DOMAIN d = {q \in DOMAIN x.disk : ~IsPrefix(p, q)}
               /\ \A q \in DOMAIN d : d[q] = x.disk[q]
  BY <1>1, <1>2, EmptiedIs
<1>4. PlaceOf(x, h) = p
  BY <1>1, <1>2, PlaceIs
<1>5. PICK u : u = [x EXCEPT !.disk = Emptied(@, PlaceOf(x, h))]
  OBVIOUS
<1>6. u = [x EXCEPT !.disk = d]
  <2> HIDE DEF p
  <2> QED
    BY <1>3, <1>4, <1>5
<1>7. /\ u \in Machine /\ u.recs = x.recs /\ u.disk = d /\ u.all = x.all /\ u.file = x.file
      /\ u.mode = x.mode /\ u.open = x.open /\ u.hung = x.hung
  BY <1>1, <1>3, <1>6 DEF Machine
<1> DEFINE none == NoName
<1> HIDE DEF none
<1>8. PICK v : v = Named(u, h, none)
  OBVIOUS
<1>9. /\ v \in Machine /\ DOMAIN v.recs = DOMAIN x.recs /\ Beside(u, v)
      /\ \A g \in DOMAIN x.recs :
           /\ v.recs[g].store = x.recs[g].store /\ v.recs[g].parent = x.recs[g].parent
           /\ v.recs[g].sibling = x.recs[g].sibling /\ v.recs[g].child = x.recs[g].child
           /\ v.recs[g].isdir = x.recs[g].isdir /\ v.recs[g].scanned = x.recs[g].scanned
           /\ g # h => v.recs[g].name = x.recs[g].name
      /\ v.recs[h].name = NoName
  <2>1. h \in DOMAIN u.recs \ StoreId /\ none \in Names \cup {NoName}
    BY <1>2, <1>7 DEF none
  <2>2. NamedTo(u, v, h, none)
    BY <1>7, <1>8, <2>1, NamedIs
  <2> QED
    BY <1>7, <2>2 DEF NamedTo, none
<1>10. Chain(v, DOMAIN P, Objs(P), rk)
  <2>1. \A k \in Objs(P) : k \in Objs(P) <=> x.recs[k].parent \in DOMAIN P
    BY <1>1 DEF Chain
  <2>2. Objs(P) \subseteq DOMAIN P
    BY DEF Objs
  <2> QED
    BY <1>1, <1>2, <1>9, <2>1, <2>2, ChainLike, SMTT(20)
<1>11. Read(x, h) = x.recs[h]
  BY <1>1, <1>2, ReadIs
<1>12. PICK y : y = Deleted(x, h)
  OBVIOUS
<1>13. y = Unlink(v, h, v.recs[h].parent, v.recs[h].sibling)
  <2> HIDE DEF p
  <2>1. Named([x EXCEPT !.disk = Emptied(@, PlaceOf(x, h))], h, NoName) = v
    BY <1>5, <1>8 DEF none
  <2>2. Read(x, h).parent = v.recs[h].parent /\ Read(x, h).sibling = v.recs[h].sibling
    BY <1>2, <1>9, <1>11
  <2> QED
    BY <1>12, <2>1, <2>2, Zenon DEF Deleted
<1>14. Relinked(v, y) /\ Chain(y, DOMAIN P, Objs(P) \ {h}, rk)
  BY <1>9, <1>10, <1>13, UnlinkIs
<1>15. /\ y \in Machine /\ DOMAIN y.recs = DOMAIN x.recs
       /\ y.disk = d /\ y.file = x.file /\ y.open = x.open /\ ~y.hung
       /\ \A g \in DOMAIN x.recs :
            /\ y.recs[g].store = x.recs[g].store /\ y.recs[g].parent = x.recs[g].parent
            /\ y.recs[g].isdir = x.recs[g].isdir /\ y.recs[g].scanned = x.recs[g].scanned
            /\ ~x.recs[g].isdir => y.recs[g].child = x.recs[g].child
            /\ g # h => y.recs[g].name = x.recs[g].name
            /\ g \in StoreId => y.recs[g].sibling = x.recs[g].sibling
       /\ y.recs[h].name = NoName
  BY <1>1, <1>2, <1>7, <1>9, <1>14 DEF Relinked, Beside
<1>16. /\ DOMAIN Q = {g \in DOMAIN P : ~IsPrefix(p, P[g])} /\ \A g \in DOMAIN Q : Q[g] = P[g]
       /\ Q = [g \in DOMAIN Q |-> Q[g]]
  BY DEF Without
<1> HIDE DEF Q
<1>17. ASSUME NEW g \in DOMAIN P \ StoreId
       PROVE  /\ x.recs[g].parent \in DOMAIN P
              /\ IsPrefix(p, P[g]) <=> IsPrefix(p, P[x.recs[g].parent]) \/ g = h
  <2>1. /\ x.recs[g].parent \in DOMAIN P /\ x.recs[g].name \in Elem
        /\ P[g] = Append(P[x.recs[g].parent], x.recs[g].name)
    BY <1>1, KnownIs
  <2>2. PICK q \in Seq(Elem), e \in Elem : q = P[x.recs[g].parent] /\ e = x.recs[g].name
    BY <1>2, <2>1
  <2>3. IsPrefix(p, Append(q, e)) <=> IsPrefix(p, q) \/ p = Append(q, e)
    BY <1>2, PrefixOfAppend
  <2>4. p = P[g] <=> g = h
    BY <1>1, <1>2 DEF Apart
  <2> QED
    BY <2>1, <2>2, <2>3, <2>4
<1>18. \A s \in StoreId \cap DOMAIN P : s \in DOMAIN Q
  <2>1. ASSUME NEW s \in StoreId \cap DOMAIN P PROVE ~IsPrefix(p, P[s])
    <3>1. Len(P[s]) = 1 /\ P[s] \in Seq(Elem)
      BY <1>1, <1>2, KnownIs
    <3>2. IsPrefix(p, P[s]) => Len(p) <= Len(P[s])
      BY <1>2, <3>1, PrefixFacts
    <3> QED
      BY <1>2, <3>1, <3>2
  <2> QED
    BY <1>16, <2>1
<1>19. h \notin DOMAIN Q
  <2>1. IsPrefix(p, p)
    BY <1>2, PrefixFacts
  <2> QED
    BY <1>16, <2>1
<1>20. Indexed(y)
  BY <1>1, <1>15 DEF Indexed
<1>21. Known(y, Q)
  <2>1. Q \in [DOMAIN Q -> Where] /\ DOMAIN Q \subseteq DOMAIN y.recs
    BY <1>2, <1>15, <1>16
  <2>2. StoreId \cap DOMAIN y.recs \subseteq DOMAIN Q
    BY <1>1, <1>15, <1>18 DEF Known
  <2>3. \A g \in DOMAIN Q : y.recs[g].store = Q[g][1]
    BY <1>1, <1>2, <1>15, <1>16 DEF Known
  <2>4. \A s \in StoreId \cap DOMAIN y.recs : Q[s] = <<s>>
    BY <1>1, <1>15, <1>16, <2>2 DEF Known
  <2>5. ASSUME NEW g \in DOMAIN Q \ StoreId
        PROVE  /\ y.recs[g].parent \in DOMAIN Q /\ y.recs[y.recs[g].parent].isdir
               /\ y.recs[g].name \in Names
               /\ Q[g] = Append(Q[y.recs[g].parent], y.recs[g].name)
    <3>1. g \in DOMAIN P \ StoreId /\ g \in DOMAIN x.recs /\ g # h
      BY <1>2, <1>16, <1>19
    <3>2. /\ x.recs[g].parent \in DOMAIN P /\ x.recs[x.recs[g].parent].isdir
          /\ x.recs[g].name \in Names
          /\ P[g] = Append(P[x.recs[g].parent], x.recs[g].name)
      BY <1>1, <3>1 DEF Known
    <3>3. x.recs[g].parent \in DOMAIN Q
      BY <1>16, <1>17, <3>1
    <3> QED
      BY <1>2, <1>15, <1>16, <3>1, <3>2, <3>3, ZenonT(60)
  <2>6. ASSUME NEW g \in DOMAIN y.recs \ DOMAIN Q
        PROVE y.recs[g].name = NoName \/ y.recs[g].parent \notin DOMAIN Q
    <3>1. CASE g = h
      BY <1>15, <3>1
    <3>2. CASE g # h /\ g \in DOMAIN P
      <4>1. g \notin StoreId /\ IsPrefix(p, P[g])
        BY <1>16, <1>18, <3>2
      <4>2. IsPrefix(p, P[x.recs[g].parent])
        BY <1>17, <3>2, <4>1
      <4> QED
        BY <1>2, <1>15, <1>16, <3>2, <4>2
    <3>3. CASE g \notin DOMAIN P
      <4>1. x.recs[g].name = NoName \/ x.recs[g].parent \notin DOMAIN P
        BY <1>1, <1>15, <3>3 DEF Known
      <4> QED
        BY <1>2, <1>15, <1>16, <3>3, <4>1
    <3> QED
      BY <3>1, <3>2, <3>3
  <2> QED
    BY <2>1, <2>2, <2>3, <2>4, <2>5, <2>6 DEF Known
<1>22. Chain(y, DOMAIN Q, Objs(Q), rk)
  <2>1. Objs(Q) \in SUBSET (Objs(P) \ {h}) /\ DOMAIN Q \in SUBSET DOMAIN P /\ Objs(Q) \subseteq DOMAIN Q
    BY <1>16, <1>19 DEF Objs
  <2>2. ASSUME NEW k \in Objs(P) \ {h} PROVE k \in Objs(Q) <=> y.recs[k].parent \in DOMAIN Q
    <3>1. k \in DOMAIN P \ StoreId /\ k \in DOMAIN x.recs
      BY <1>2 DEF Objs
    <3>2. y.recs[k].parent = x.recs[k].parent /\ x.recs[k].parent \in DOMAIN P
      BY <1>15, <1>17, <3>1
    <3> QED
      BY <1>16, <1>17, <3>1, <3>2 DEF Objs
  <2>3. DOMAIN Q \subseteq DOMAIN y.recs
    BY <1>21 DEF Known
  <2> QED
    BY <1>14, <2>1, <2>2, <2>3, ChainLike
<1>23. Apart(Q)
  BY <1>1, <1>16 DEF Apart
<1>24. ASSUME NEW g \in DOMAIN Q PROVE OnDisk(y, Q, g)
  <2>1. g \in DOMAIN P /\ g # h /\ g \in DOMAIN x.recs /\ ~IsPrefix(p, P[g]) /\ Q[g] = P[g]
    BY <1>2, <1>16, <1>19
  <2>2. OnDisk(x, P, g)
    BY <2>1 DEF ShapeBut
  <2> QED
    BY <1>3, <1>15, <2>1, <2>2 DEF OnDisk
<1>25. ASSUME NEW g \in DOMAIN Q PROVE Full(y, Q, g)
  <2>1. g \in DOMAIN P /\ g \in DOMAIN x.recs /\ Q[g] = P[g] /\ Full(x, P, g)
    BY <1>2, <1>16 DEF ShapeBut
  <2>2. y.recs[g].isdir = x.recs[g].isdir /\ y.recs[g].scanned = x.recs[g].scanned
    BY <1>15, <2>1
  <2>3. CASE x.recs[g].isdir /\ x.recs[g].scanned
    <3>1. ASSUME NEW n \in Names,
                 Append(Q[g], n) \in DOMAIN d PROVE \E k \in DOMAIN Q : Q[k] = Append(Q[g], n)
      <4>1. PICK k \in DOMAIN P : P[k] = Append(P[g], n)
        BY <1>3, <2>1, <2>3, <3>1 DEF Full
      <4>2. ~IsPrefix(p, P[k])
        BY <1>3, <2>1, <3>1, <4>1
      <4> QED
        BY <1>16, <2>1, <4>1, <4>2
    <3> QED
      BY <1>15, <2>2, <2>3, <3>1 DEF Full
  <2>4. CASE x.recs[g].isdir /\ ~x.recs[g].scanned
    <3>1. \A k \in Objs(Q) : k \in Objs(P) /\ k \in DOMAIN x.recs
      BY <1>2, <1>16 DEF Objs
    <3>2. \A k \in Objs(P) : x.recs[k].parent # g
      BY <2>1, <2>4 DEF Full
    <3> QED
      BY <1>15, <2>2, <2>4, <3>1, <3>2 DEF Full
  <2>5. CASE ~x.recs[g].isdir
    BY <2>2, <2>5 DEF Full
  <2> QED
    BY <2>3, <2>4, <2>5
<1>26. Opened(y, Q)
  BY <1>1, <1>15, <1>16 DEF Opened
<1>27. Shape(y, Q, rk)
  <2> HIDE DEF p
  <2> QED
    BY <1>3, <1>15, <1>20, <1>21, <1>22, <1>23, <1>24, <1>25, <1>26 DEF Shape
<1> QED
  BY <1>3, <1>12, <1>15, <1>27 DEF Q


(* The tree with what was under p under q. *)
Carrying(P, p, q) == [g \in DOMAIN P |-> Renamed(P[g], p, q)]

(* What is on the stores is carried along, with the objects of it.         *)
LEMMA CarriedTree ==
  ASSUME NEW x, NEW P, NEW rk, Shape(x, P, rk), NEW h \in Objs(P), NEW q \in Where, Len(q) > 1,
         Last(q) \in Names, CanRename(x.disk, P[h], q), NEW y,
         DOMAIN y.recs = DOMAIN x.recs, y.disk = Relocated(x.disk, P[h], q),
         \A g \in DOMAIN x.recs :
           /\ y.recs[g].isdir = x.recs[g].isdir /\ y.recs[g].scanned = x.recs[g].scanned
           /\ ~x.recs[g].isdir => y.recs[g].child = x.recs[g].child,
         \A k \in Objs(P) : y.recs[k].parent = x.recs[k].parent \/ y.recs[y.recs[k].parent].scanned
  PROVE  /\ y.disk \in Discs /\ WellFormed(y.disk) /\ Apart(Carrying(P, P[h], q))
         /\ \A g \in DOMAIN P : OnDisk(y, Carrying(P, P[h], q), g)
         /\ \A g \in DOMAIN P : Full(y, Carrying(P, P[h], q), g)
<1> DEFINE p == P[h]
           d == x.disk
           Q == Carrying(P, p, q)
           R == y.disk
<1>1. /\ x \in Machine /\ WellFormed(d) /\ Known(x, P) /\ Apart(P) /\ d \in Discs
      /\ DOMAIN P \subseteq DOMAIN x.recs /\ h \in DOMAIN P \ StoreId /\ Objs(P) \subseteq DOMAIN P
  BY MachineFields DEF Shape, Known, Objs
<1>2. Len(p) > 1 /\ p \in DOMAIN d /\ DOMAIN d \subseteq Seq(Elem)
  <2>1. Len(p) > 1
    BY <1>1, KnownIs
  <2>2. p \in DOMAIN d
    BY <1>1 DEF Shape, OnDisk
  <2> QED
    BY <1>1, <2>1, <2>2, DiscIs DEF Where
<1>3. /\ R \in Discs /\ WellFormed(R)
      /\ \A z \in DOMAIN d : Renamed(z, p, q) \in DOMAIN R /\ R[Renamed(z, p, q)] = d[z]
      /\ \A z \in DOMAIN R : \E s \in DOMAIN d : Renamed(s, p, q) = z
      /\ \A z, s \in DOMAIN d : Renamed(z, p, q) = Renamed(s, p, q) => z = s
      /\ \A z \in DOMAIN d : z # p /\ Len(z) > 1 =>
           Front(z) \in DOMAIN d /\ Renamed(z, p, q) = Append(Renamed(Front(z), p, q), Last(z))
  BY <1>1, <1>2, RelocatedIs
<1>4. DOMAIN Q = DOMAIN P /\ \A g \in DOMAIN P : Q[g] = Renamed(P[g], p, q)
  BY DEF Carrying
<1>5. \A g \in DOMAIN P : P[g] \in DOMAIN d /\ P[g] \in Seq(Elem)
  BY <1>2 DEF Shape, OnDisk
<1> HIDE DEF Q, R, d, p
<1>6. Apart(Q)
  BY <1>1, <1>3, <1>4, <1>5 DEF Apart
<1>7. ASSUME NEW g \in DOMAIN P PROVE OnDisk(y, Q, g)
  <2>1. OnDisk(x, P, g)
    BY DEF Shape
  <2> QED
    BY <1>1, <1>3, <1>4, <1>5, <2>1 DEF OnDisk, d, R
<1>8. ASSUME NEW g \in DOMAIN P PROVE Full(y, Q, g)
  <2>1. Full(x, P, g) /\ g \in DOMAIN x.recs
    BY <1>1 DEF Shape
  <2>2. y.recs[g].isdir = x.recs[g].isdir /\ y.recs[g].scanned = x.recs[g].scanned
    BY <2>1
  <2>3. CASE x.recs[g].isdir /\ x.recs[g].scanned
    <3>1. ASSUME NEW n \in Names,
                 Append(Q[g], n) \in DOMAIN R PROVE \E k \in DOMAIN Q : Q[k] = Append(Q[g], n)
      <4>1. PICK z \in DOMAIN d : Renamed(z, p, q) = Append(Q[g], n)
        BY <1>3, <3>1
      <4>2. CASE z = p
        BY <1>1, <1>4, <4>1, <4>2 DEF p
      <4>3. CASE z # p
        <5>1. PICK w \in Seq(Elem) : w = Q[g]
          <6>1. \A s \in Seq(Elem) : Renamed(s, p, q) \in Seq(Elem)
            BY <1>2, RenamedFacts DEF Where
          <6> QED
            BY <1>4, <1>5, <6>1
        <5>2. n \in Elem
          BY DEF Elem
        <5>3. Front(Append(w, n)) = w /\ Last(Append(w, n)) = n
          BY <5>1, <5>2, FrontOfAppend
        <5>4. Len(z) > 1
          <6>1. SUFFICES ASSUME ~(Len(z) > 1) PROVE FALSE
            OBVIOUS
          <6>2. PICK s \in StoreId : z = <<s>>
            BY <1>1, <6>1 DEF WellFormed, d
          <6>3. PICK u \in Seq(Elem) : u = z /\ Len(u) = 1
            <7>1. s \in Elem
              BY DEF Elem
            <7> QED
              BY <6>2, <7>1, Single
          <6>4. ~IsPrefix(p, u)
            <7>1. p \in Seq(Elem) /\ Len(p) \in Nat
              BY <1>2, LenProperties
            <7>2. IsPrefix(p, u) => Len(p) <= Len(u)
              BY <7>1, <6>3, PrefixFacts
            <7> QED
              BY <1>2, <6>3, <7>1, <7>2
          <6>5. u = Append(w, n)
            <7>1. Renamed(u, p, q) = u
              BY <1>2, <6>3, <6>4, RenamedFacts DEF Where
            <7> QED
              BY <4>1, <5>1, <6>3, <7>1
          <6>6. Len(Append(w, n)) = Len(w) + 1 /\ Len(w) \in Nat
            BY <5>1, <5>2, FrontOfAppend
          <6>7. w = <<>>
            <7>1. Len(w) = 0
              BY <6>3, <6>5, <6>6
            <7> QED
              BY <5>1, <7>1, EmptySeq
          <6>8. Len(P[g]) >= 1 /\ P[g] \in Seq(Elem)
            BY <1>1, KnownIs
          <6>9. CASE IsPrefix(p, P[g])
            <7>1. IsPrefix(q, w)
              BY <1>2, <1>4, <5>1, <6>8, <6>9, RenamedFacts DEF Where
            <7>2. Len(q) <= Len(w) /\ Len(q) \in Nat
              BY <5>1, <7>1, PrefixFacts, LenProperties DEF Where
            <7> QED
              BY <6>3, <6>5, <6>6, <7>2
          <6>10. CASE ~IsPrefix(p, P[g])
            <7>1. w = P[g]
              BY <1>2, <1>4, <5>1, <6>8, <6>10, RenamedFacts DEF Where
            <7> QED
              BY <6>3, <6>5, <6>6, <6>8, <7>1
          <6> QED
            BY <6>9, <6>10
        <5>5. Front(z) \in DOMAIN d /\ Renamed(z, p, q) = Append(Renamed(Front(z), p, q), Last(z))
          BY <1>3, <4>3, <5>4
        <5>6. PICK f \in Seq(Elem), e \in Elem : f = Renamed(Front(z), p, q) /\ e = Last(z) /\ e \in Names
          <6>1. \A s \in Seq(Elem) : Renamed(s, p, q) \in Seq(Elem)
            BY <1>2, RenamedFacts DEF Where
          <6>2. Renamed(Front(z), p, q) \in Seq(Elem)
            BY <1>2, <5>5, <6>1
          <6>3. Last(z) \in Names
            <7>1. \A s \in StoreId : Len(<<s>>) = 1
              OBVIOUS
            <7>2. ASSUME NEW s \in StoreId PROVE z # <<s>>
              <8>1. SUFFICES ASSUME z = <<s>> PROVE FALSE
                OBVIOUS
              <8>2. Len(z) = 1
                BY <8>1
              <8> QED
                BY <5>4, <8>2
            <7> QED
              BY <1>1, <7>2 DEF WellFormed, d
          <6> QED
            BY <6>2, <6>3 DEF Elem
        <5>7. Front(Append(f, e)) = f /\ Last(Append(f, e)) = e
          BY FrontOfAppend
        <5>8. f = w /\ e = n
          BY <4>1, <5>1, <5>3, <5>5, <5>6, <5>7
        <5>9. Front(z) = P[g]
          <6>1. P[g] \in DOMAIN d /\ Renamed(P[g], p, q) = Renamed(Front(z), p, q)
            BY <1>4, <1>5, <5>1, <5>6, <5>8
          <6>2. \A a, b \in DOMAIN d : Renamed(a, p, q) = Renamed(b, p, q) => a = b
            BY <1>3
          <6> QED
            BY <5>5, <6>1, <6>2
        <5>10. z = Append(P[g], n)
          <6>1. z \in Seq(Elem) /\ Len(z) \in Nat
            BY <1>2, LenProperties
          <6>2. Len(z) > 0
            BY <5>4, <6>1
          <6> QED
            BY <5>6, <5>8, <5>9, <6>1, <6>2, FrontLast
        <5>11. PICK k \in DOMAIN P : P[k] = Append(P[g], n)
          BY <2>1, <2>3, <5>10 DEF Full, d
        <5> QED
          BY <1>4, <4>1, <5>10, <5>11
      <4> QED
        BY <4>2, <4>3
    <3> QED
      BY <2>2, <2>3, <3>1 DEF Full, R
  <2>4. CASE x.recs[g].isdir /\ ~x.recs[g].scanned
    <3>1. ASSUME NEW k \in Objs(Q) PROVE y.recs[k].parent # g
      <4>1. k \in Objs(P)
        BY <1>4 DEF Objs
      <4>2. x.recs[k].parent # g
        BY <2>1, <2>4, <4>1 DEF Full
      <4> QED
        BY <2>2, <2>4, <4>1, <4>2
    <3> QED
      BY <2>2, <2>4, <3>1 DEF Full
  <2>5. CASE ~x.recs[g].isdir
    BY <2>2, <2>5 DEF Full
  <2> QED
    BY <2>3, <2>4, <2>5
<1> QED
  BY <1>3, <1>6, <1>7, <1>8 DEF Q, R, p

(* An object h gets another name or another directory, and what is in it   *)
(* stays in it.                                                            *)
Rehomed(x, y, P, h, d, name, q) ==
  /\ d \in DOMAIN P /\ x.recs[d].isdir /\ name \in Names
  /\ q = Append(P[d], name) /\ ~IsPrefix(P[h], P[d])
  /\ q[1] = P[h][1] \/ \A g \in DOMAIN P : IsPrefix(P[h], P[g]) => g = h
  /\ DOMAIN y.recs = DOMAIN x.recs
  /\ y.recs[h].store = x.recs[d].store /\ y.recs[h].parent = d /\ y.recs[h].name = name
  /\ \A g \in DOMAIN x.recs :
       /\ y.recs[g].isdir = x.recs[g].isdir
       /\ g # h => /\ y.recs[g].store = x.recs[g].store /\ y.recs[g].parent = x.recs[g].parent
                   /\ y.recs[g].name = x.recs[g].name

(* The record of h has a new parent and a new name: everything under it    *)
(* has the places it has after the rename on the store.                    *)
LEMMA CarriedKnown ==
  ASSUME NEW x \in Machine, NEW P, Known(x, P), Apart(P), NEW h \in Objs(P), NEW d, NEW name,
         NEW y, NEW q, Rehomed(x, y, P, h, d, name, q)
  PROVE  /\ Known(y, Carrying(P, P[h], q)) /\ Carrying(P, P[h], q)[h] = q
         /\ q \in Where /\ Len(q) > 1 /\ Last(q) \in Names /\ Front(q) = P[d]
         /\ q[1] = x.recs[d].store
<1> DEFINE p == P[h]
           Q == Carrying(P, p, q)
<1>1. /\ h \in DOMAIN P \ StoreId /\ DOMAIN P \subseteq DOMAIN x.recs /\ p \in Seq(Elem)
      /\ Len(p) > 1 /\ Len(p) \in Nat
      /\ \A g \in DOMAIN P : P[g] \in Seq(Elem) /\ Len(P[g]) >= 1 /\ Len(P[g]) \in Nat /\ P[g][1] = x.recs[g].store
      /\ name \in Elem /\ name \in Names /\ d \in DOMAIN P
  <2>1. h \in DOMAIN P \ StoreId /\ name \in Elem /\ DOMAIN P \subseteq DOMAIN x.recs /\ d \in DOMAIN P /\ name \in Names
    BY DEF Objs, Elem, Known, Rehomed
  <2> QED
    BY <2>1, KnownIs
<1>2. PICK pd \in Seq(Elem) : pd = P[d] /\ Len(pd) >= 1 /\ Len(pd) \in Nat /\ pd[1] = x.recs[d].store
  BY <1>1
<1>3. /\ q \in Seq(Elem) /\ Len(q) = Len(pd) + 1 /\ Front(q) = pd /\ Last(q) = name /\ q[1] = pd[1]
  <2>1. q = Append(pd, name)
    BY <1>2 DEF Rehomed
  <2>2. /\ q \in Seq(Elem) /\ Len(q) = Len(pd) + 1 /\ Front(q) = pd /\ Last(q) = name
        /\ \A i \in 1 .. Len(pd) : q[i] = pd[i]
    BY <1>1, <2>1, FrontOfAppend
  <2>3. 1 \in 1 .. Len(pd)
    BY <1>2
  <2> QED
    BY <2>2, <2>3
<1>4. Len(q) > 1
  BY <1>2, <1>3
<1>5. /\ Renamed(p, p, q) = q
      /\ \A s \in Seq(Elem) : Renamed(s, p, q) \in Seq(Elem)
      /\ \A s \in Seq(Elem) : ~IsPrefix(p, s) => Renamed(s, p, q) = s
      /\ \A s \in Seq(Elem) : IsPrefix(p, s) => IsPrefix(q, Renamed(s, p, q))
      /\ \A s \in Seq(Elem), e \in Elem :
           IsPrefix(p, s) => Renamed(Append(s, e), p, q) = Append(Renamed(s, p, q), e)
  <2> HIDE DEF p
  <2> QED
    BY <1>1, <1>3, RenamedFacts
<1>6. DOMAIN Q = DOMAIN P /\ (\A g \in DOMAIN P : Q[g] = Renamed(P[g], p, q)) /\ Q = [g \in DOMAIN Q |-> Q[g]]
  BY DEF Carrying
<1> HIDE DEF Q, p
<1>7. Q[h] = q /\ Q[d] = P[d]
  BY <1>1, <1>5, <1>6 DEF p, Rehomed
<1>8. ASSUME NEW g \in DOMAIN P, ~IsPrefix(p, P[g]) PROVE Q[g] = P[g]
  BY <1>1, <1>5, <1>6, <1>8
<1>9. \A g \in DOMAIN P : Q[g] \in Where
  BY <1>1, <1>5, <1>6 DEF Where
<1>10. ASSUME NEW s \in StoreId \cap DOMAIN P PROVE Q[s] = <<s>>
  <2>1. P[s] = <<s>> /\ Len(P[s]) = 1
    BY KnownIs
  <2>2. IsPrefix(p, P[s]) => Len(p) <= Len(P[s])
    BY <1>1, PrefixFacts
  <2> QED
    BY <1>1, <1>8, <2>1, <2>2
<1>11. ASSUME NEW g \in DOMAIN P PROVE y.recs[g].store = Q[g][1]
  <2>1. CASE g = h
    BY <1>2, <1>3, <1>7, <2>1 DEF Rehomed
  <2>2. CASE g # h /\ ~IsPrefix(p, P[g])
    BY <1>1, <1>8, <2>2 DEF Rehomed
  <2>3. CASE g # h /\ IsPrefix(p, P[g])
    <3>1. q[1] = p[1]
      BY <2>3 DEF p, Rehomed
    <3>2. IsPrefix(q, Q[g]) /\ Q[g] \in Seq(Elem)
      BY <1>1, <1>5, <1>6, <2>3
    <3>3. q[1] = Q[g][1]
      <4>1. PICK s \in Seq(Elem) : s = Q[g]
        BY <3>2
      <4>2. \A i \in 1 .. Len(q) : q[i] = s[i]
        BY <1>3, <3>2, <4>1, PrefixIs
      <4>3. 1 \in 1 .. Len(q)
        BY <1>2, <1>3
      <4> QED
        BY <4>1, <4>2, <4>3
    <3>4. p[1] = P[g][1]
      <4>1. \A i \in 1 .. Len(p) : p[i] = P[g][i]
        BY <1>1, <2>3, PrefixIs
      <4>2. 1 \in 1 .. Len(p)
        BY <1>1
      <4> QED
        BY <4>1, <4>2
    <3> QED
      BY <1>1, <2>3, <3>1, <3>3, <3>4 DEF Rehomed
  <2> QED
    BY <2>1, <2>2, <2>3
<1>12. ASSUME NEW g \in DOMAIN Q \ StoreId
       PROVE  /\ y.recs[g].parent \in DOMAIN Q /\ y.recs[y.recs[g].parent].isdir
              /\ y.recs[g].name \in Names
              /\ Q[g] = Append(Q[y.recs[g].parent], y.recs[g].name)
  <2>1. CASE g = h
    BY <1>1, <1>6, <1>7, <2>1 DEF Rehomed
  <2>2. CASE g # h
    <3>1. /\ g \in DOMAIN P \ StoreId /\ x.recs[g].parent \in DOMAIN P
          /\ x.recs[x.recs[g].parent].isdir
          /\ x.recs[g].name \in Names /\ x.recs[g].name \in Elem
          /\ P[g] = Append(P[x.recs[g].parent], x.recs[g].name)
      <4>1. g \in DOMAIN P \ StoreId
        BY <1>6
      <4> QED
        BY <4>1, KnownIs DEF Known
    <3>2. PICK pp \in Seq(Elem), e \in Elem : pp = P[x.recs[g].parent] /\ e = x.recs[g].name /\ P[g] = Append(pp, e)
      BY <1>1, <3>1
    <3>3. IsPrefix(p, P[g]) <=> IsPrefix(p, pp) \/ p = P[g]
      <4>1. IsPrefix(p, Append(pp, e)) <=> IsPrefix(p, pp) \/ p = Append(pp, e)
        BY <1>1, PrefixOfAppend
      <4> QED
        BY <3>2, <4>1
    <3>4. p # P[g]
      BY <1>1, <2>2, <3>1 DEF Apart, p
    <3>5. Q[g] = Append(Q[x.recs[g].parent], e)
      <4>1. CASE IsPrefix(p, pp)
        <5>1. Renamed(Append(pp, e), p, q) = Append(Renamed(pp, p, q), e)
          BY <1>5, <4>1
        <5>2. Q[g] = Renamed(P[g], p, q) /\ Q[x.recs[g].parent] = Renamed(P[x.recs[g].parent], p, q)
          BY <1>6, <3>1
        <5> QED
          BY <3>2, <5>1, <5>2
      <4>2. CASE ~IsPrefix(p, pp)
        BY <1>1, <1>8, <3>1, <3>2, <3>3, <3>4, <4>2
      <4> QED
        BY <4>1, <4>2
    <3> QED
      BY <1>1, <1>6, <2>2, <3>1, <3>2, <3>5 DEF Rehomed
  <2> QED
    BY <2>1, <2>2
<1>13. Known(y, Q)
  <2>1. Q \in [DOMAIN Q -> Where] /\ DOMAIN Q \subseteq DOMAIN y.recs
    BY <1>1, <1>6, <1>9 DEF Rehomed
  <2>2. StoreId \cap DOMAIN y.recs \subseteq DOMAIN Q
    BY <1>6 DEF Known, Rehomed
  <2>3. ASSUME NEW g \in DOMAIN y.recs \ DOMAIN Q
        PROVE y.recs[g].name = NoName \/ y.recs[g].parent \notin DOMAIN Q
    <3>1. g \in DOMAIN x.recs \ DOMAIN P /\ g # h
      BY <1>1, <1>6 DEF Rehomed
    <3> QED
      BY <1>6, <3>1 DEF Known, Rehomed
  <2> QED
    BY <1>6, <1>10, <1>11, <1>12, <2>1, <2>2, <2>3 DEF Known
<1> QED
  <2>1. q \in Where /\ Last(q) \in Names /\ Front(q) = P[d] /\ q[1] = x.recs[d].store
    BY <1>1, <1>2, <1>3 DEF Where
  <2>2. Known(y, Carrying(P, P[h], q)) /\ Carrying(P, P[h], q)[h] = q
    BY <1>7, <1>13 DEF Q, p
  <2> QED
    BY <1>4, <2>1, <2>2

(* What the store and the open file become. *)
LEMMA CarriedIs ==
  ASSUME NEW x \in Machine, NEW p \in Where, NEW q \in Where, Relocated(x.disk, p, q) \in Discs
  PROVE  /\ Carried(x, p, q) \in Machine /\ Carried(x, p, q).recs = x.recs
         /\ Carried(x, p, q).disk = Relocated(x.disk, p, q)
         /\ Carried(x, p, q).open = x.open /\ Carried(x, p, q).hung = x.hung
         /\ Carried(x, p, q).file = IF x.file = NoFile THEN NoFile ELSE Renamed(x.file, p, q)
<1> DEFINE f == IF x.file = NoFile THEN NoFile ELSE Renamed(x.file, p, q)
           R == Relocated(x.disk, p, q)
<1>1. f \in Where
  <2>1. x.file \in Seq(Elem) /\ p \in Seq(Elem) /\ q \in Seq(Elem) /\ NoFile \in Seq(Elem)
    BY MachineFields, EmptySeq DEF Where, NoFile
  <2>2. Renamed(x.file, p, q) \in Seq(Elem)
    BY <2>1, RenamedFacts
  <2> QED
    BY <2>1, <2>2 DEF Where
<1>2. PICK y : y = Carried(x, p, q)
  OBVIOUS
<1>3. y = [x EXCEPT !.disk = R, !.file = f]
  BY <1>2 DEF Carried
<1> HIDE DEF f, R
<1>4. R \in Discs
  BY DEF R
<1>5. /\ y \in Machine /\ y.recs = x.recs /\ y.disk = R /\ y.open = x.open /\ y.hung = x.hung
      /\ y.file = f
  BY <1>1, <1>3, <1>4 DEF Machine
<1> QED
  BY <1>2, <1>5 DEF R, f


(* Records are the same if their fields are. *)
LEMMA SameRecs ==
  ASSUME NEW x \in Machine, NEW y \in Machine, DOMAIN y.recs = DOMAIN x.recs,
         \A g \in DOMAIN x.recs :
           /\ y.recs[g].store = x.recs[g].store /\ y.recs[g].parent = x.recs[g].parent
           /\ y.recs[g].sibling = x.recs[g].sibling /\ y.recs[g].child = x.recs[g].child
           /\ y.recs[g].isdir = x.recs[g].isdir /\ y.recs[g].scanned = x.recs[g].scanned
           /\ y.recs[g].name = x.recs[g].name
  PROVE  y.recs = x.recs
<1>1. \A a, b \in Rec :
        /\ a.store = b.store /\ a.parent = b.parent /\ a.sibling = b.sibling /\ a.child = b.child
        /\ a.isdir = b.isdir /\ a.scanned = b.scanned /\ a.name = b.name
        => a = b
  BY DEF Rec
<1>2. /\ NextHandle(x) \in Nat /\ x.recs \in [0 .. NextHandle(x) - 1 -> Rec]
      /\ DOMAIN x.recs = 0 .. NextHandle(x) - 1
  BY IndexSize
<1>3. /\ NextHandle(y) \in Nat /\ y.recs \in [0 .. NextHandle(y) - 1 -> Rec]
      /\ DOMAIN y.recs = 0 .. NextHandle(y) - 1
  BY IndexSize
<1>4. PICK D : D = DOMAIN x.recs
  OBVIOUS
<1>5. x.recs \in [D -> Rec] /\ y.recs \in [D -> Rec]
  BY <1>2, <1>3, <1>4
<1>6. ASSUME NEW g \in D PROVE y.recs[g] = x.recs[g]
  <2>1. y.recs[g] \in Rec /\ x.recs[g] \in Rec
    BY <1>5
  <2> QED
    BY <1>1, <1>4, <2>1
<1> QED
  BY <1>5, <1>6

(* rename: the index follows the store, and is put back if that refuses. *)
LEMMA RenameKeeps ==
  ASSUME NEW x, NEW P, NEW rk, Shape(x, P, rk), NEW h \in Objs(P), NEW name \in Names
  PROVE  \E Q : Shape(Rename(x, h, name), Q, rk)
<1> DEFINE p == P[h]
           d == x.recs[h].parent
           q == Append(P[d], name)
           Q == Carrying(P, p, q)
<1>1. /\ x \in Machine /\ Indexed(x) /\ Known(x, P) /\ Apart(P) /\ ~x.hung /\ Opened(x, P)
      /\ Chain(x, DOMAIN P, Objs(P), rk) /\ WellFormed(x.disk) /\ x.disk \in Discs
      /\ DOMAIN P \subseteq DOMAIN x.recs /\ h \in DOMAIN P \ StoreId
      /\ h \in DOMAIN x.recs \ StoreId
      /\ P \in [DOMAIN P -> Where] /\ Objs(P) \subseteq DOMAIN P
  BY MachineFields DEF Shape, Known, Objs
<1>2. /\ d \in DOMAIN P /\ x.recs[d].isdir /\ x.recs[h].name \in Names
      /\ p \in Where /\ p \in Seq(Elem) /\ Len(p) \in Nat /\ Len(p) = Len(P[d]) + 1 /\ Len(p) > 1
      /\ p[1] = P[d][1]
      /\ P[d] \in Seq(Elem) /\ Len(P[d]) \in Nat /\ Len(P[d]) >= 1
      /\ x.recs[h].store = P[h][1] /\ x.recs[d].store = P[d][1]
      /\ p \in DOMAIN x.disk
  <2>1. d \in DOMAIN P /\ x.recs[d].isdir /\ x.recs[h].name \in Names
    BY <1>1 DEF Known
  <2>2. p \in DOMAIN x.disk
    BY <1>1 DEF Shape, OnDisk
  <2> QED
    BY <1>1, <2>1, <2>2, KnownIs
<1>3. PICK v : v = Named(x, h, name)
  OBVIOUS
<1>4. NamedTo(x, v, h, name)
  BY <1>1, <1>3, NamedIs
<1> HIDE DEF p, d, q, Q
<1>5. Rehomed(x, v, P, h, d, name, q)
  <2>1. ~IsPrefix(P[h], P[d])
    <3>1. IsPrefix(p, P[d]) => Len(p) <= Len(P[d])
      BY <1>2, PrefixFacts
    <3> QED
      BY <1>2, <3>1 DEF p
  <2>2. q[1] = P[h][1]
    <3>1. PICK pd \in Seq(Elem) : pd = P[d] /\ Len(pd) >= 1 /\ Len(pd) \in Nat /\ name \in Elem
      BY <1>2 DEF Elem
    <3>2. \A i \in 1 .. Len(pd) : Append(pd, name)[i] = pd[i]
      BY <3>1, FrontOfAppend
    <3>3. 1 \in 1 .. Len(pd)
      BY <3>1
    <3>4. Append(pd, name)[1] = pd[1]
      BY <3>2, <3>3
    <3> QED
      BY <1>2, <3>1, <3>4 DEF q, p
  <2>3. v.recs[h].store = x.recs[d].store /\ v.recs[h].parent = d /\ v.recs[h].name = name /\ DOMAIN v.recs = DOMAIN x.recs
    BY <1>1, <1>2, <1>4 DEF NamedTo, d, p
  <2>4. \A g \in DOMAIN x.recs :
       /\ v.recs[g].isdir = x.recs[g].isdir
       /\ g # h => /\ v.recs[g].store = x.recs[g].store /\ v.recs[g].parent = x.recs[g].parent
                   /\ v.recs[g].name = x.recs[g].name
    BY <1>4 DEF NamedTo
  <2> QED
    BY <1>2, <2>1, <2>2, <2>3, <2>4 DEF Rehomed, q
<1>6. /\ Known(v, Q) /\ Q[h] = q /\ q \in Where /\ Len(q) > 1 /\ Last(q) \in Names
  BY <1>1, <1>5, CarriedKnown DEF Q, p
<1>7. v \in Machine /\ Indexed(v) /\ v.disk = x.disk /\ v.file = x.file /\ v.open = x.open /\ v.hung = x.hung
      /\ DOMAIN v.recs = DOMAIN x.recs
  <2>1. v \in Machine /\ Beside(x, v) /\ DOMAIN v.recs = DOMAIN x.recs
    BY <1>4 DEF NamedTo
  <2>2. Indexed(v)
    BY <1>1, <1>4 DEF Indexed, NamedTo
  <2> QED
    BY <2>1, <2>2 DEF Beside
<1>8. DOMAIN Q = DOMAIN P /\ Objs(Q) = Objs(P) /\ \A g \in DOMAIN P : Q[g] = Renamed(P[g], p, q)
  BY DEF Q, Carrying, Objs
<1>9. PlaceOf(v, h) = q /\ PlaceOf(x, h) = p
  <2>1. h \in DOMAIN Q
    BY <1>1, <1>8
  <2>2. PlaceOf(v, h) = Q[h]
    BY <1>6, <1>7, <2>1, PlaceIs
  <2>3. PlaceOf(x, h) = P[h]
    BY <1>1, PlaceIs
  <2> QED
    BY <1>6, <2>2, <2>3 DEF p
<1>10. PICK y : y = Rename(x, h, name)
  OBVIOUS
<1>11. y = RenamedTo(x, h, name, p, q)
  BY <1>3, <1>9, <1>10 DEF Rename
<1>12. CASE CanRename(x.disk, p, q)
  <2>1. y = Carried(v, p, q)
    BY <1>3, <1>11, <1>12 DEF RenamedTo
  <2>2. Relocated(x.disk, p, q) \in Discs
    BY <1>1, <1>2, <1>6, <1>12, RelocatedIs
  <2>3. /\ y \in Machine /\ y.recs = v.recs /\ y.disk = Relocated(x.disk, p, q)
        /\ y.open = x.open /\ y.hung = x.hung
        /\ y.file = IF x.file = NoFile THEN NoFile ELSE Renamed(x.file, p, q)
    BY <1>2, <1>6, <1>7, <2>1, <2>2, CarriedIs
  <2>4. \A g \in DOMAIN x.recs :
          /\ y.recs[g].isdir = x.recs[g].isdir /\ y.recs[g].scanned = x.recs[g].scanned
          /\ y.recs[g].child = x.recs[g].child /\ y.recs[g].parent = x.recs[g].parent
          /\ y.recs[g].sibling = x.recs[g].sibling
    BY <1>4, <2>3 DEF NamedTo
  <2>5. /\ WellFormed(y.disk) /\ Apart(Q)
        /\ \A g \in DOMAIN P : OnDisk(y, Q, g)
        /\ \A g \in DOMAIN P : Full(y, Q, g)
    <3>1. \A k \in Objs(P) : y.recs[k].parent = x.recs[k].parent \/ y.recs[y.recs[k].parent].scanned
      BY <1>1, <2>4
    <3>2. DOMAIN y.recs = DOMAIN x.recs /\ y.disk = Relocated(x.disk, P[h], q) /\ CanRename(x.disk, P[h], q)
      BY <1>7, <1>12, <2>3 DEF p
    <3>3. /\ WellFormed(y.disk) /\ Apart(Carrying(P, P[h], q))
          /\ \A g \in DOMAIN P : OnDisk(y, Carrying(P, P[h], q), g)
          /\ \A g \in DOMAIN P : Full(y, Carrying(P, P[h], q), g)
      BY <1>6, <2>4, <3>1, <3>2, CarriedTree
    <3> QED
      BY <3>3 DEF Q, p
  <2>6. Chain(y, DOMAIN Q, Objs(Q), rk)
    <3>1. \A k \in Objs(P) : k \in Objs(P) <=> x.recs[k].parent \in DOMAIN P
      BY <1>1 DEF Chain
    <3>2. DOMAIN P \subseteq DOMAIN y.recs
      BY <1>1, <1>7, <2>3
    <3>3. Chain(y, DOMAIN P, Objs(P), rk)
      BY <1>1, <2>4, <3>1, <3>2, ChainLike
    <3> QED
      BY <1>8, <3>3
  <2>7. Opened(y, Q)
    BY <1>1, <1>7, <1>8, <2>3 DEF Opened
  <2>8. Known(y, Q) /\ Indexed(y)
    BY <1>6, <1>7, <2>3 DEF Known, Indexed
  <2>9. Shape(y, Q, rk)
    BY <1>1, <1>8, <2>3, <2>5, <2>6, <2>7, <2>8 DEF Shape
  <2> QED
    BY <1>10, <2>9
<1>13. CASE ~CanRename(x.disk, p, q)
  <2>1. PICK old \in Names \cup {NoName} : old = x.recs[h].name /\ old = Read(x, h).name
    BY <1>1, <1>2, ReadIs
  <2>2. y = Named(v, h, old)
    BY <1>3, <1>11, <1>13, <2>1 DEF RenamedTo
  <2>3. h \in DOMAIN v.recs \ StoreId
    BY <1>1, <1>7
  <2>4. NamedTo(v, y, h, old)
    BY <1>7, <2>2, <2>3, NamedIs
  <2>5. y \in Machine /\ DOMAIN y.recs = DOMAIN x.recs /\ Beside(v, y)
    BY <1>7, <2>4 DEF NamedTo
  <2>6. \A g \in DOMAIN x.recs :
           /\ y.recs[g].store = x.recs[g].store /\ y.recs[g].parent = x.recs[g].parent
           /\ y.recs[g].sibling = x.recs[g].sibling /\ y.recs[g].child = x.recs[g].child
           /\ y.recs[g].isdir = x.recs[g].isdir /\ y.recs[g].scanned = x.recs[g].scanned
           /\ y.recs[g].name = x.recs[g].name
    <3> SUFFICES ASSUME NEW g \in DOMAIN x.recs
                 PROVE  /\ y.recs[g].store = x.recs[g].store /\ y.recs[g].parent = x.recs[g].parent
                        /\ y.recs[g].sibling = x.recs[g].sibling
                        /\ y.recs[g].child = x.recs[g].child
                        /\ y.recs[g].isdir = x.recs[g].isdir
                        /\ y.recs[g].scanned = x.recs[g].scanned
                        /\ y.recs[g].name = x.recs[g].name
      OBVIOUS
    <3> HIDE DEF p, d, q, Q
    <3>1. CASE g = h
      BY <1>4, <1>7, <2>1, <2>4, <3>1, ZenonT(60) DEF NamedTo
    <3>2. CASE g # h
      BY <1>4, <1>7, <2>4, <3>2 DEF NamedTo
    <3> QED
      BY <3>1, <3>2
  <2>7. y.recs = x.recs
    BY <1>1, <2>5, <2>6, SameRecs
  <2>8. y.disk = x.disk /\ y.hung = x.hung /\ y.file = x.file /\ y.open = x.open
    BY <1>7, <2>5 DEF Beside
  <2>9. Opened(y, P)
    BY <1>1, <2>7, <2>8 DEF Opened
  <2>10. Shape(y, P, rk)
    BY <2>5, <2>7, <2>8, <2>9, Reopened
  <2> QED
    BY <1>10, <2>10
<1> QED
  BY <1>12, <1>13

(* The store and the index agree that h is in d now. *)
Moving(x, P, h, r, d, q) ==
  /\ h \in Objs(P) /\ d \in DOMAIN P /\ x.recs[d].isdir /\ x.recs[d].scanned
  /\ h # d => r = x.recs[h]
  /\ q = Append(P[d], x.recs[h].name)
  /\ x.recs[d].store # x.recs[h].store => ~x.recs[h].isdir /\ x.recs[h].child # 0

(* Linking the moved object to its new directory, and moving it on its     *)
(* store, leaves a tree.                                                   *)
LEMMA MoveKeeps ==
  ASSUME NEW x, NEW P, NEW rk, Shape(x, P, rk), NEW h, NEW r, NEW d, NEW q,
         Moving(x, P, h, r, d, q),
         NEW room
  PROVE  \E Q, s : Shape(MoveTo(x, h, r, d, P[h], q, room), Q, s)
<1> DEFINE p == P[h]
           Q == Carrying(P, p, q)
           name == x.recs[h].name
<1>1. /\ x \in Machine /\ Indexed(x) /\ Known(x, P) /\ Apart(P) /\ ~x.hung /\ Opened(x, P)
      /\ Chain(x, DOMAIN P, Objs(P), rk) /\ WellFormed(x.disk) /\ x.disk \in Discs
      /\ DOMAIN P \subseteq DOMAIN x.recs /\ h \in DOMAIN P \ StoreId
      /\ h \in DOMAIN x.recs \ StoreId
      /\ P \in [DOMAIN P -> Where] /\ Objs(P) \subseteq DOMAIN P
      /\ h \in Objs(P) /\ d \in DOMAIN P /\ x.recs[d].isdir /\ x.recs[d].scanned
  BY MachineFields DEF Shape, Known, Objs, Moving
<1>2. /\ name \in Names /\ name \in Elem /\ p \in Where /\ p \in Seq(Elem) /\ Len(p) \in Nat
      /\ Len(p) > 1
      /\ p \in DOMAIN x.disk /\ x.recs[h].store = p[1]
      /\ P[d] \in Seq(Elem) /\ Len(P[d]) \in Nat /\ Len(P[d]) >= 1 /\ x.recs[d].store = P[d][1]
      /\ x.recs[h].parent \in DOMAIN P /\ x.recs[h].parent # h
      /\ \A g \in DOMAIN P : P[g] \in Seq(Elem)
  <2>1. p \in DOMAIN x.disk
    BY <1>1 DEF Shape, OnDisk
  <2>2. /\ name \in Names /\ name \in Elem /\ x.recs[h].parent \in DOMAIN P /\ Len(p) > 1
        /\ Len(p) = Len(P[x.recs[h].parent]) + 1
    BY <1>1, KnownIs
  <2>3. \A g \in DOMAIN P : P[g] \in Seq(Elem) /\ P[g] \in Where /\ Len(P[g]) \in Nat /\ Len(P[g]) >= 1 /\ x.recs[g].store = P[g][1]
    BY <1>1, KnownIs
  <2>4. x.recs[h].parent # h
    BY <1>1, <2>2, <2>3
  <2> QED
    BY <1>1, <2>1, <2>2, <2>3, <2>4
<1>3. q \in Seq(Elem) /\ q[1] = P[d][1] /\ \A z \in Seq(Elem) : IsPrefix(z, P[d]) => IsPrefix(z, q)
  <2>1. PICK pd \in Seq(Elem) : pd = P[d] /\ Len(pd) >= 1 /\ Len(pd) \in Nat
    BY <1>2
  <2>2. q = Append(pd, name)
    BY <2>1 DEF Moving
  <2> HIDE DEF name, p
  <2>3. q \in Seq(Elem) /\ \A i \in 1 .. Len(pd) : q[i] = pd[i]
    BY <1>2, <2>1, <2>2, FrontOfAppend
  <2>4. 1 \in 1 .. Len(pd)
    BY <2>1
  <2>5. \A z \in Seq(Elem) : IsPrefix(z, pd) => IsPrefix(z, Append(pd, name))
    BY <1>2, <2>1, PrefixOfAppend
  <2> QED
    BY <2>1, <2>2, <2>3, <2>4, <2>5
<1>4. PICK y : y = MoveTo(x, h, r, d, p, q, room)
  OBVIOUS
<1>5. CASE ~CanCarry(x, p, q, room)
  <2>1. y = x
    BY <1>4, <1>5 DEF MoveTo
  <2> QED
    BY <1>4, <2>1
<1>6. CASE CanCarry(x, p, q, room)
  <2> HIDE DEF p, Q, name
  <2>1. CanRename(x.disk, p, q)
    <3>1. CASE p[1] = q[1]
      BY <1>6, <3>1 DEF CanCarry
    <3>2. CASE p[1] # q[1]
      <4>1. ~IsPrefix(p, q)
        <5>1. SUFFICES ASSUME IsPrefix(p, q) PROVE FALSE
          OBVIOUS
        <5>2. \A i \in 1 .. Len(p) : p[i] = q[i]
          BY <1>2, <1>3, <5>1, PrefixIs
        <5>3. 1 \in 1 .. Len(p)
          BY <1>2
        <5> QED
          BY <3>2, <5>2, <5>3
      <4> QED
        BY <1>2, <1>6, <3>2, <4>1 DEF CanRename, CanCarry
    <3> QED
      BY <3>1, <3>2
  <2>2. ~IsPrefix(p, P[d]) /\ h # d
    <3>1. ~IsPrefix(p, P[d])
      BY <1>2, <1>3, <2>1 DEF CanRename
    <3>2. IsPrefix(p, p)
      BY <1>2, PrefixFacts
    <3> QED
      BY <3>1, <3>2 DEF p
  <2>3. q[1] = P[h][1] \/ \A g \in DOMAIN P : IsPrefix(P[h], P[g]) => g = h
    <3>1. SUFFICES ASSUME q[1] # P[h][1], NEW g \in DOMAIN P, IsPrefix(p, P[g]), g # h PROVE FALSE
      BY DEF p
    <3>2. ~x.recs[h].isdir
      BY <1>2, <1>3, <3>1 DEF p, Moving
    <3>3. x.disk[p] # Dir
      BY <1>1, <3>2 DEF Shape, OnDisk, p
    <3>4. P[g] \in DOMAIN x.disk /\ p # P[g]
      BY <1>1, <3>1 DEF Shape, OnDisk, Apart, p
    <3>5. Len(p) > 0 /\ DOMAIN x.disk \subseteq Where
      BY <1>1, <1>2, DiscIs
    <3> QED
      BY <1>1, <1>2, <3>1, <3>3, <3>4, <3>5, PrefixStored
  <2>4. r = x.recs[h] /\ r \in Rec
    BY <1>1, <2>2, ReadIs DEF Moving
  <2>5. PICK u : u = Carried(x, p, q)
    OBVIOUS
  <2>6. q \in Where
    BY <1>3 DEF Where
  <2>7. Len(q) > 1 /\ Last(q) \in Names
    <3>1. PICK pd \in Seq(Elem) : pd = P[d] /\ Len(pd) >= 1 /\ Len(pd) \in Nat
      BY <1>2
    <3>2. q = Append(pd, name)
      BY <3>1 DEF name, Moving
    <3>3. Len(q) = Len(pd) + 1 /\ Last(q) = name
      BY <1>2, <3>1, <3>2, FrontOfAppend
    <3> QED
      BY <1>2, <3>1, <3>3
  <2>8. Relocated(x.disk, p, q) \in Discs
    BY <1>1, <1>2, <2>1, <2>6, <2>7, RelocatedIs
  <2>9. /\ u \in Machine /\ u.recs = x.recs /\ u.disk = Relocated(x.disk, p, q)
        /\ u.open = x.open /\ u.hung = x.hung
        /\ u.file = IF x.file = NoFile THEN NoFile ELSE Renamed(x.file, p, q)
    BY <1>1, <1>2, <2>5, <2>6, <2>8, CarriedIs
  <2>10. PICK w : w = Unlink(u, h, u.recs[h].parent, u.recs[h].sibling)
    OBVIOUS
  <2>11. Chain(u, DOMAIN P, Objs(P), rk)
    BY <1>1, <2>9 DEF Chain
  <2>12. /\ Relinked(u, w) /\ Chain(w, DOMAIN P, Objs(P) \ {h}, rk)
         /\ \A g \in DOMAIN u.recs : g # u.recs[h].parent => w.recs[g].child = u.recs[g].child
    <3>1. PICK D, O : D = DOMAIN P /\ O = Objs(P)
      OBVIOUS
    <3>2. u \in Machine /\ Chain(u, D, O, rk) /\ h \in O
      BY <1>1, <2>9, <2>11, <3>1
    <3>3. /\ Relinked(u, Unlink(u, h, u.recs[h].parent, u.recs[h].sibling))
          /\ Chain(Unlink(u, h, u.recs[h].parent, u.recs[h].sibling), D, O \ {h}, rk)
          /\ Elsewhere(u, Unlink(u, h, u.recs[h].parent, u.recs[h].sibling), u.recs[h].parent)
      BY <3>2, UnlinkIs
    <3>4. Relinked(u, w) /\ Chain(w, D, O \ {h}, rk) /\ Elsewhere(u, w, u.recs[h].parent)
      BY <2>10, <3>3, Zenon
    <3> QED
      BY <3>1, <3>4 DEF Elsewhere
  <2>13. /\ w \in Machine /\ DOMAIN w.recs = DOMAIN x.recs /\ w.disk = u.disk /\ w.open = x.open
         /\ w.file = u.file /\ w.hung = x.hung
         /\ \A g \in DOMAIN x.recs :
              /\ w.recs[g].store = x.recs[g].store /\ w.recs[g].parent = x.recs[g].parent
              /\ w.recs[g].isdir = x.recs[g].isdir /\ w.recs[g].scanned = x.recs[g].scanned
              /\ w.recs[g].name = x.recs[g].name
              /\ ~x.recs[g].isdir => w.recs[g].child = x.recs[g].child
              /\ g \in StoreId => w.recs[g].sibling = x.recs[g].sibling
         /\ w.recs[h].child = x.recs[h].child
    BY <1>1, <1>2, <2>9, <2>12 DEF Relinked, Beside
  <2>14. PICK e \in Rec : e = w.recs[d] /\ e = Read(w, d)
    BY <1>1, <2>13, ReadIs
  <2>15. PICK r2 : r2 = [r EXCEPT !.parent = d, !.store = e.store, !.sibling = e.child]
    OBVIOUS
  <2>16. d \in Int
    BY <1>1, IndexSize
  <2>17. /\ r2 \in Rec /\ r2.store = e.store /\ r2.parent = d /\ r2.sibling = e.child
         /\ r2.child = r.child /\ r2.isdir = r.isdir /\ r2.scanned = r.scanned /\ r2.name = r.name
    BY <2>4, <2>14, <2>15, <2>16 DEF Rec
  <2>18. PICK r3 : r3 = [e EXCEPT !.child = h]
    OBVIOUS
  <2>19. h \in Int
    BY <1>1, IndexSize
  <2>20. /\ r3 \in Rec /\ r3.store = e.store /\ r3.parent = e.parent /\ r3.sibling = e.sibling
         /\ r3.child = h /\ r3.isdir = e.isdir /\ r3.scanned = e.scanned /\ r3.name = e.name
    BY <2>18, <2>19 DEF Rec
  <2>21. PICK z : z = Put(w, h, r2)
    OBVIOUS
  <2>22. PutTo(w, z, h, r2)
    <3>1. h \in DOMAIN w.recs
      BY <1>1, <2>13
    <3> QED
      BY <2>13, <2>17, <2>21, <3>1, PutFields
  <2>23. y = Put(z, d, r3)
    <3>1. ~NothingRead(x, p, q)
      <4>1. SUFFICES ASSUME p[1] # q[1], x.disk[p] = 0 PROVE FALSE
        BY DEF NothingRead
      <4>2. x.recs[d].store # x.recs[h].store
        BY <1>2, <1>3, <4>1
      <4>3. ~x.recs[h].isdir /\ x.recs[h].child # 0
        BY <4>2 DEF Moving
      <4>4. x.recs[h].child = x.disk[p]
        BY <1>1, <4>3 DEF Shape, OnDisk, p
      <4> QED
        BY <4>1, <4>3, <4>4
    <3>2. y = LinkInto(w, h, r, d)
      BY <1>4, <1>6, <2>4, <2>5, <2>9, <2>10, <3>1 DEF MoveTo
    <3> QED
      BY <2>14, <2>15, <2>18, <2>21, <3>2 DEF LinkInto
  <2>24. PutTo(z, y, d, r3)
    <3>1. d \in DOMAIN z.recs /\ z \in Machine
      BY <1>1, <2>13, <2>22 DEF PutTo
    <3> QED
      BY <2>20, <2>23, <3>1, PutFields
  <2>25. z.recs[d] = e /\ z.recs[h] = r2 /\ DOMAIN z.recs = DOMAIN x.recs
    BY <1>1, <2>2, <2>13, <2>14, <2>22 DEF PutTo
  <2>26. /\ y \in Machine /\ DOMAIN y.recs = DOMAIN x.recs /\ y.disk = w.disk /\ y.open = x.open
         /\ y.file = w.file /\ y.hung = x.hung
    BY <2>13, <2>22, <2>24 DEF PutTo, Beside
  <2>27. \A g \in DOMAIN x.recs \ {h, d} : y.recs[g] = w.recs[g]
    BY <2>13, <2>22, <2>24 DEF PutTo
  <2>28. y.recs[h] = r2
    BY <1>1, <2>2, <2>24, <2>25 DEF PutTo
  <2>29. /\ y.recs[d].store = e.store /\ y.recs[d].parent = e.parent
         /\ y.recs[d].sibling = e.sibling
         /\ y.recs[d].child = h /\ y.recs[d].isdir = e.isdir /\ y.recs[d].scanned = e.scanned
         /\ y.recs[d].name = e.name
    <3>1. CASE d \in StoreId
      BY <2>20, <2>24, <2>25, <3>1 DEF PutTo
    <3>2. CASE d \notin StoreId
      BY <2>20, <2>24, <2>25, <3>2 DEF PutTo
    <3> QED
      BY <3>1, <3>2
  <2>30. \A g \in DOMAIN x.recs :
           /\ y.recs[g].isdir = x.recs[g].isdir /\ y.recs[g].scanned = x.recs[g].scanned
           /\ y.recs[g].name = x.recs[g].name
           /\ ~x.recs[g].isdir => y.recs[g].child = x.recs[g].child
           /\ g # h => /\ y.recs[g].store = x.recs[g].store /\ y.recs[g].parent = x.recs[g].parent
                       /\ y.recs[g].sibling = w.recs[g].sibling
                       /\ g # d => y.recs[g].child = w.recs[g].child
    <3> SUFFICES ASSUME NEW g \in DOMAIN x.recs
                 PROVE  /\ y.recs[g].isdir = x.recs[g].isdir
                        /\ y.recs[g].scanned = x.recs[g].scanned
                        /\ y.recs[g].name = x.recs[g].name
                        /\ ~x.recs[g].isdir => y.recs[g].child = x.recs[g].child
                        /\ g # h => /\ y.recs[g].store = x.recs[g].store /\ y.recs[g].parent = x.recs[g].parent
                                    /\ y.recs[g].sibling = w.recs[g].sibling
                                    /\ g # d => y.recs[g].child = w.recs[g].child
      OBVIOUS
    <3>1. CASE g = h
      BY <2>4, <2>17, <2>28, <3>1
    <3>2. CASE g = d
      <4>1. /\ e.isdir = x.recs[d].isdir /\ e.scanned = x.recs[d].scanned /\ e.name = x.recs[d].name
            /\ e.store = x.recs[d].store /\ e.parent = x.recs[d].parent
            /\ e.sibling = w.recs[d].sibling
            /\ x.recs[d].isdir
        <5>1. d \in DOMAIN x.recs /\ x.recs[d].isdir
          BY <1>1
        <5>2. /\ w.recs[d].isdir = x.recs[d].isdir /\ w.recs[d].scanned = x.recs[d].scanned
              /\ w.recs[d].name = x.recs[d].name
              /\ w.recs[d].store = x.recs[d].store /\ w.recs[d].parent = x.recs[d].parent
          BY <2>13, <5>1, Zenon
        <5> QED
          BY <2>14, <5>1, <5>2
      <4> QED
        BY <2>29, <3>2, <4>1
    <3>3. CASE g # h /\ g # d
      <4>1. y.recs[g] = w.recs[g]
        BY <2>27, <3>3
      <4> QED
        BY <2>13, <3>3, <4>1
    <3> QED
      BY <3>1, <3>2, <3>3
  <2>31. /\ y.recs[h].parent = d /\ y.recs[h].store = x.recs[d].store
         /\ y.recs[h].sibling = w.recs[d].child
         /\ y.recs[h].child = w.recs[h].child /\ y.recs[h].name = name
    <3>1. e.store = x.recs[d].store
      BY <1>1, <2>13, <2>14
    <3>2. e.child = w.recs[d].child /\ w.recs[h].child = x.recs[h].child
      BY <2>13, <2>14
    <3> QED
      BY <2>4, <2>17, <2>28, <3>1, <3>2 DEF name
  <2>32. Rehomed(x, y, P, h, d, name, q)
    BY <1>2, <2>2, <2>3, <2>26, <2>30, <2>31 DEF Rehomed, name, p, Moving
  <2>33. Known(y, Q)
    BY <1>1, <2>32, CarriedKnown DEF Q, p
  <2>34. DOMAIN Q = DOMAIN P /\ Objs(Q) = Objs(P) /\ \A g \in DOMAIN P : Q[g] = Renamed(P[g], p, q)
    BY DEF Q, Carrying, Objs
  <2>35. PICK s : Chain(y, DOMAIN P, Objs(P), s)
    <3>1. (Objs(P) \ {h}) \cup {h} = Objs(P) /\ DOMAIN P \cup {h} = DOMAIN P
      BY <1>1
    <3>2. \E s : Chain(y, DOMAIN P \cup {h}, (Objs(P) \ {h}) \cup {h}, s)
      <4>1. h \notin Objs(P) \ {h} /\ h \notin StoreId /\ h # d /\ w.recs[d].isdir
        BY <1>1, <2>2, <2>13
      <4>2. DOMAIN P \cup {h} \subseteq DOMAIN y.recs /\ Objs(P) \ {h} \subseteq DOMAIN P
        BY <1>1, <2>26
      <4>3. y.recs[h].parent = d /\ y.recs[h].sibling = w.recs[d].child /\ y.recs[d].child = h
        BY <2>29, <2>31
      <4>4. y.recs[h].isdir = w.recs[h].isdir /\ y.recs[h].child = w.recs[h].child /\ h \in DOMAIN P
        BY <1>1, <2>13, <2>30, <2>31
      <4>5. \A g \in DOMAIN P \ {h} :
              /\ y.recs[g].parent = w.recs[g].parent /\ y.recs[g].sibling = w.recs[g].sibling
              /\ y.recs[g].isdir = w.recs[g].isdir
              /\ g # d /\ w.recs[g].isdir => y.recs[g].child = w.recs[g].child
        BY <1>1, <2>13, <2>30
      <4>6. PICK D, O : D = DOMAIN P /\ O = Objs(P) \ {h}
        OBVIOUS
      <4>7. Chain(w, D, O, rk) /\ w \in Machine /\ d \in D /\ h \notin O /\ O \subseteq D /\ D \cup {h} \subseteq DOMAIN y.recs
        BY <1>1, <2>12, <2>13, <4>1, <4>2, <4>6
      <4>8. \A g \in D \ {h} :
              /\ y.recs[g].parent = w.recs[g].parent /\ y.recs[g].sibling = w.recs[g].sibling
              /\ y.recs[g].isdir = w.recs[g].isdir
              /\ g # d /\ w.recs[g].isdir => y.recs[g].child = w.recs[g].child
        BY <4>5, <4>6
      <4>9. /\ h \in D => y.recs[h].isdir = w.recs[h].isdir /\ (w.recs[h].isdir => y.recs[h].child = w.recs[h].child)
            /\ h \notin D => y.recs[h].child = 0 \/ ~y.recs[h].isdir
        BY <4>4, <4>6
      <4>10. \E s : Chain(y, D \cup {h}, O \cup {h}, s)
        BY <4>1, <4>3, <4>7, <4>8, <4>9, LinkFirst
      <4> QED
        BY <4>6, <4>10
    <3> QED
      BY <3>1, <3>2
  <2>36. /\ WellFormed(y.disk) /\ Apart(Q)
         /\ \A g \in DOMAIN P : OnDisk(y, Q, g)
         /\ \A g \in DOMAIN P : Full(y, Q, g)
    <3>1. \A k \in Objs(P) : y.recs[k].parent = x.recs[k].parent \/ y.recs[y.recs[k].parent].scanned
      BY <1>1, <2>30, <2>31
    <3>2. DOMAIN y.recs = DOMAIN x.recs /\ y.disk = Relocated(x.disk, P[h], q) /\ CanRename(x.disk, P[h], q)
      BY <2>1, <2>9, <2>13, <2>26 DEF p
    <3>3. /\ WellFormed(y.disk) /\ Apart(Carrying(P, P[h], q))
          /\ \A g \in DOMAIN P : OnDisk(y, Carrying(P, P[h], q), g)
          /\ \A g \in DOMAIN P : Full(y, Carrying(P, P[h], q), g)
      <4>1. \A g \in DOMAIN x.recs :
              /\ y.recs[g].isdir = x.recs[g].isdir /\ y.recs[g].scanned = x.recs[g].scanned
              /\ ~x.recs[g].isdir => y.recs[g].child = x.recs[g].child
        BY <2>30
      <4>2. h \in Objs(P)
        BY <1>1
      <4> QED
        BY <2>6, <2>7, <3>1, <3>2, <4>1, <4>2, CarriedTree
    <3> QED
      BY <3>3 DEF Q, p
  <2>37. Opened(y, Q)
    BY <1>1, <2>9, <2>13, <2>26, <2>34 DEF Opened
  <2>38. Indexed(y)
    <3>1. \A g \in DOMAIN x.recs \ StoreId : y.recs[g].parent \in DOMAIN x.recs
      <4>1. \A g \in DOMAIN x.recs \ StoreId : g # h => y.recs[g].parent = x.recs[g].parent /\ x.recs[g].parent \in DOMAIN x.recs
        BY <1>1, <2>30 DEF Indexed
      <4> QED
        BY <1>1, <2>31, <4>1
    <3>2. \A g \in StoreId \cap DOMAIN x.recs :
            y.recs[g].parent = NoParent /\ y.recs[g].sibling = 0 /\ y.recs[g].store = g /\ y.recs[g].isdir
      <4>1. \A g \in StoreId \cap DOMAIN x.recs : g # h /\ y.recs[g].sibling = x.recs[g].sibling
        BY <1>1, <2>13, <2>30
      <4> QED
        BY <1>1, <2>30, <4>1 DEF Indexed
    <3> QED
      BY <1>1, <2>26, <3>1, <3>2 DEF Indexed
  <2>39. Shape(y, Q, s)
    BY <1>1, <2>26, <2>33, <2>34, <2>35, <2>36, <2>37, <2>38 DEF Shape
  <2> QED
    BY <1>4, <2>39 DEF p
<1> QED
  BY <1>5, <1>6


(* The place of a new entry, as the device puts it together.               *)
LEMMA PathOfNew ==
  ASSUME NEW x \in Machine, Indexed(x), NEW P, Known(x, P), NEW d \in DOMAIN P, NEW name \in Names
  PROVE  <<x.recs[d].store>> \o Path(x, d) \o <<name>> = Append(P[d], name)
<1>1. PICK p \in Seq(Elem) : p = <<x.recs[d].store>> \o Path(x, d) /\ p = P[d]
  BY PlaceIs, KnownIs
<1>2. PICK e \in Elem : e = name
  BY DEF Elem
<1>3. p \o <<e>> = Append(p, e)
  OBVIOUS
<1> QED
  BY <1>1, <1>2, <1>3, Zenon

(* move(): unlinked, linked and moved or copied on the stores, or put      *)
(* back as it was, h leaves a tree.                                        *)
LEMMA MoveKept ==
  ASSUME NEW x, NEW P, NEW rk, Shape(x, P, rk), NEW h \in Objs(P), NEW d \in DOMAIN P,
         x.recs[d].isdir,
         NEW room, x.recs[d].store # x.recs[h].store => ~x.recs[h].isdir /\ x.recs[h].child # 0
  PROVE  \E Q, s : Shape(Move(x, h, x.recs[d].store, d, room), Q, s)
<1>1. /\ x \in Machine /\ Indexed(x) /\ Known(x, P) /\ DOMAIN P \subseteq DOMAIN x.recs
      /\ h \in DOMAIN P \ StoreId /\ h \in DOMAIN x.recs /\ d \in DOMAIN x.recs
  BY DEF Shape, Known, Objs
<1>2. d # NoParent /\ x.recs[h].name \in Names
  <2>1. d \in Nat
    BY <1>1, IndexSize
  <2>2. x.recs[h].name \in Names
    BY <1>1, KnownIs
  <2> QED
    BY <2>1, <2>2 DEF NoParent
<1>3. PICK store : store = x.recs[d].store
  OBVIOUS
<1>4. PICK y : y = ScanFolder(x, d)
  OBVIOUS
<1>5. PICK r : r = x.recs[h] /\ r = Read(x, h)
  BY <1>1, ReadIs
<1>6. Move(x, h, store, d, room) = MoveIn(y, h, r, store, d, room)
  BY <1>2, <1>4, <1>5 DEF Move, ScanDir, Folder
<1>7. PICK Q, s : /\ Shape(y, Q, s) /\ Grown(x, y, P, Q, {g \in {d} : Unscanned(x, g)})
                  /\ y.recs[d].scanned
  BY <1>4, ScanKeeps
<1>8. /\ y \in Machine /\ Indexed(y) /\ Known(y, Q) /\ h \in Objs(Q) /\ d \in DOMAIN Q
      /\ y.recs[d].isdir /\ y.recs[d].store = store /\ y.recs[h].store = x.recs[h].store
      /\ y.recs[h].isdir = x.recs[h].isdir /\ y.recs[h].name = x.recs[h].name /\ h \in DOMAIN Q
      /\ h # d => r = y.recs[h]
  BY <1>1, <1>3, <1>5, <1>7 DEF Shape, Grown, Objs
<1>9. PICK name \in Names : name = x.recs[h].name
  BY <1>2
<1>10. <<store>> \o Path(y, d) \o <<r.name>> = Append(Q[d], name) /\ PlaceOf(y, h) = Q[h]
  <2>1. <<y.recs[d].store>> \o Path(y, d) \o <<name>> = Append(Q[d], name)
    BY <1>8, PathOfNew
  <2>2. PlaceOf(y, h) = Q[h]
    BY <1>8, PlaceIs
  <2> QED
    BY <1>5, <1>8, <1>9, <2>1, <2>2, Zenon
<1>11. PICK q : q = Append(Q[d], name)
  OBVIOUS
<1>12. Moving(y, Q, h, r, d, q)
  <2>1. y.recs[d].store # y.recs[h].store => ~y.recs[h].isdir /\ y.recs[h].child # 0
    BY <1>3, <1>5, <1>8
  <2> QED
    BY <1>7, <1>8, <1>9, <1>11, <2>1 DEF Moving
<1>13. \E T, t : Shape(MoveTo(y, h, r, d, Q[h], q, room), T, t)
  BY <1>7, <1>12, MoveKeeps
<1>14. Move(x, h, store, d, room) = MoveTo(y, h, r, d, Q[h], q, room)
  BY <1>6, <1>10, <1>11, Zenon DEF MoveIn
<1> QED
  BY <1>3, <1>13, <1>14


(* The tree with n at q. *)
With(P, n, q) == [h \in DOMAIN P \cup {n} |-> IF h = n THEN q ELSE P[h]]

(* A new record n for name in d, not on the store yet. *)
Born(x, y, P, d, n, folder, name) ==
  /\ n = NextHandle(x) /\ n \in Nat /\ n \notin DOMAIN x.recs /\ n \notin StoreId
  /\ y \in Machine /\ DOMAIN y.recs = DOMAIN x.recs \cup {n} /\ Beside(x, y)
  /\ y.recs[n].store = x.recs[d].store /\ y.recs[n].parent = d
  /\ y.recs[n].sibling = x.recs[d].child
  /\ y.recs[n].child = 0 /\ y.recs[n].isdir = folder /\ y.recs[n].scanned /\ y.recs[n].name = name
  /\ y.recs[d].child = n
  /\ Grown(x, y, P, With(P, n, Append(P[d], name)), {d})

(* The record that Create writes is a new first child of d; nothing else   *)
(* changes but the first child of d.                                       *)
LEMMA BornIs ==
  ASSUME NEW x, NEW P, NEW rk, Shape(x, P, rk), NEW d \in DOMAIN P, x.recs[d].isdir,
         NEW folder \in BOOLEAN, NEW name \in Names
  PROVE  Born(x, NewChild(x, d, folder, name), P, d, NextHandle(x), folder, name)
<1>1. /\ x \in Machine /\ Indexed(x) /\ Known(x, P) /\ DOMAIN P \subseteq DOMAIN x.recs
      /\ d \in DOMAIN x.recs
  BY DEF Shape, Known
<1>2. PICK e \in Rec : e = x.recs[d] /\ e = Read(x, d)
  BY <1>1, ReadIs
<1>3. PICK n : n = NextHandle(x)
  OBVIOUS
<1>4. n \in Nat /\ n \notin DOMAIN x.recs /\ d \in Int /\ d # n
  BY <1>1, <1>3, IndexSize
<1>5. n \notin StoreId
  BY <1>1, <1>4 DEF Indexed
<1>6. PICK r : r = [store |-> e.store, parent |-> d, sibling |-> e.child,
                    child |-> 0, isdir |-> folder, scanned |-> TRUE, name |-> name]
  OBVIOUS
<1>7. /\ r \in Rec /\ r.store = e.store /\ r.parent = d /\ r.sibling = e.child /\ r.child = 0
      /\ r.isdir = folder /\ r.scanned /\ r.name = name
  BY <1>4, <1>6 DEF Rec
<1>8. PICK a : a = Add(x, r)
  OBVIOUS
<1>9. /\ a \in Machine /\ DOMAIN a.recs = DOMAIN x.recs \cup {n} /\ Beside(x, a)
      /\ \A g \in DOMAIN x.recs : a.recs[g] = x.recs[g]
      /\ a.recs[n] = r
  BY <1>1, <1>3, <1>7, <1>8, AddIs
<1>10. PICK r2 : r2 = [e EXCEPT !.child = n]
  OBVIOUS
<1>11. /\ r2 \in Rec /\ r2.store = e.store /\ r2.parent = e.parent /\ r2.sibling = e.sibling
       /\ r2.child = n /\ r2.isdir = e.isdir /\ r2.scanned = e.scanned /\ r2.name = e.name
  BY <1>4, <1>10 DEF Rec
<1>12. PICK y : y = NewChild(x, d, folder, name)
  OBVIOUS
<1>13. y = Put(a, d, r2)
  BY <1>2, <1>3, <1>6, <1>8, <1>10, <1>12 DEF NewChild
<1>14. PutTo(a, y, d, r2)
  <2>1. d \in DOMAIN a.recs
    BY <1>1, <1>9
  <2> QED
    BY <1>9, <1>11, <1>13, <2>1, PutFields
<1>15. y.recs[n] = r /\ DOMAIN y.recs = DOMAIN x.recs \cup {n} /\ y \in Machine /\ Beside(x, y)
  BY <1>4, <1>9, <1>14 DEF PutTo, Beside
<1>16. /\ y.recs[d].store = e.store /\ y.recs[d].parent = e.parent /\ y.recs[d].sibling = e.sibling
       /\ y.recs[d].child = n /\ y.recs[d].isdir = e.isdir /\ y.recs[d].scanned = e.scanned
       /\ y.recs[d].name = e.name
  <2>1. a.recs[d] = e
    BY <1>1, <1>2, <1>9
  <2>2. CASE d \in StoreId
    BY <1>11, <1>14, <2>1, <2>2 DEF PutTo
  <2>3. CASE d \notin StoreId
    BY <1>11, <1>14, <2>3 DEF PutTo
  <2> QED
    BY <2>2, <2>3
<1>17. \A g \in DOMAIN x.recs : g # d => y.recs[g] = x.recs[g]
  BY <1>9, <1>14 DEF PutTo
<1>18. Grown(x, y, P, With(P, n, Append(P[d], name)), {d})
  <2>1. PICK q : q = Append(P[d], name)
    OBVIOUS
  <2>2. DOMAIN P \subseteq DOMAIN With(P, n, q) /\ \A h \in DOMAIN P : With(P, n, q)[h] = P[h]
    BY <1>1, <1>4 DEF With
  <2>3. ASSUME NEW g \in DOMAIN x.recs
        PROVE  /\ y.recs[g].store = x.recs[g].store /\ y.recs[g].parent = x.recs[g].parent
               /\ y.recs[g].sibling = x.recs[g].sibling /\ y.recs[g].isdir = x.recs[g].isdir
               /\ y.recs[g].name = x.recs[g].name
               /\ x.recs[g].scanned => y.recs[g].scanned
               /\ g \notin {d} \/ ~x.recs[g].isdir => y.recs[g] = x.recs[g]
    <3>1. CASE g = d
      BY <1>2, <1>16, <3>1
    <3>2. CASE g # d
      BY <1>17, <3>2
    <3> QED
      BY <3>1, <3>2
  <2>4. Grown(x, y, P, With(P, n, q), {d})
    BY <1>15, <2>2, <2>3 DEF Grown
  <2> QED
    BY <2>1, <2>4
<1>19. /\ y.recs[n].store = x.recs[d].store /\ y.recs[n].parent = d
       /\ y.recs[n].sibling = x.recs[d].child
       /\ y.recs[n].child = 0 /\ y.recs[n].isdir = folder /\ y.recs[n].scanned
       /\ y.recs[n].name = name
  BY <1>2, <1>7, <1>15
<1> QED
  BY <1>3, <1>4, <1>5, <1>12, <1>15, <1>16, <1>18, <1>19 DEF Born

(* n is a new record, the first in the list of d, for name. *)
NewRecord(x, y, P, Q, d, n, name, q) ==
  /\ n \in Nat /\ n \notin DOMAIN x.recs /\ n \notin StoreId
  /\ DOMAIN y.recs = DOMAIN x.recs \cup {n}
  /\ y.recs[n].store = x.recs[d].store /\ y.recs[n].parent = d
  /\ y.recs[n].sibling = x.recs[d].child
  /\ y.recs[n].child = 0 \/ ~y.recs[n].isdir
  /\ y.recs[n].name = name /\ y.recs[d].child = n
  /\ Q = With(P, n, q) /\ Grown(x, y, P, Q, {d})
  /\ d \in DOMAIN P /\ x.recs[d].isdir /\ name \in Names /\ q = Append(P[d], name)
  /\ \A g \in DOMAIN P : P[g] # q

(* The records agree on the tree Q, which has n at q besides what P had. *)
Recorded(y, P, Q, n, q) ==
  /\ Indexed(y) /\ Known(y, Q) /\ Apart(Q) /\ \E s : Chain(y, DOMAIN Q, Objs(Q), s)
  /\ DOMAIN Q = DOMAIN P \cup {n} /\ Q[n] = q /\ Objs(Q) = Objs(P) \cup {n}
  /\ \A g \in DOMAIN P : Q[g] = P[g]

(* A new first child of a directory, with a name nothing in it has,        *)
(* belongs to the tree.                                                    *)
LEMMA NewRecordKnown ==
  ASSUME NEW x, NEW P, NEW rk, Shape(x, P, rk), NEW y, NEW d, NEW n, NEW name, NEW q, NEW Q,
         NewRecord(x, y, P, Q, d, n, name, q)
  PROVE  Recorded(y, P, Q, n, q)
<1>1. /\ x \in Machine /\ Indexed(x) /\ Known(x, P) /\ Apart(P)
      /\ Chain(x, DOMAIN P, Objs(P), rk)
      /\ DOMAIN P \subseteq DOMAIN x.recs /\ P \in [DOMAIN P -> Where]
      /\ Objs(P) = DOMAIN P \ StoreId
      /\ d \in DOMAIN P /\ x.recs[d].isdir /\ name \in Names
  BY DEF Shape, Known, Objs, NewRecord
<1>2. /\ n \in Nat /\ n \notin DOMAIN x.recs /\ n \notin StoreId /\ n \notin DOMAIN P /\ d # n
      /\ DOMAIN y.recs = DOMAIN x.recs \cup {n}
      /\ y.recs[n].store = x.recs[d].store /\ y.recs[n].parent = d
      /\ y.recs[n].sibling = x.recs[d].child
      /\ (y.recs[n].child = 0 \/ ~y.recs[n].isdir) /\ y.recs[n].name = name
      /\ y.recs[d].child = n
  BY <1>1 DEF NewRecord
<1>3. \A g \in DOMAIN x.recs :
       /\ y.recs[g].store = x.recs[g].store /\ y.recs[g].parent = x.recs[g].parent
       /\ y.recs[g].sibling = x.recs[g].sibling /\ y.recs[g].isdir = x.recs[g].isdir
       /\ y.recs[g].name = x.recs[g].name
       /\ g # d \/ ~x.recs[g].isdir => y.recs[g] = x.recs[g]
  BY DEF NewRecord, Grown
<1>4. q = Append(P[d], name) /\ Q = With(P, n, q) /\ \A g \in DOMAIN P : P[g] # q
  BY DEF NewRecord
<1>5. q \in Where /\ q[1] = P[d][1]
  <2>1. PICK pd \in Seq(Elem) : pd = P[d] /\ Len(pd) >= 1 /\ Len(pd) \in Nat /\ name \in Elem
    BY <1>1, KnownIs DEF Elem
  <2>2. q = Append(pd, name)
    BY <1>4, <2>1
  <2>3. q \in Seq(Elem) /\ \A i \in 1 .. Len(pd) : q[i] = pd[i]
    BY <2>1, <2>2, FrontOfAppend
  <2>4. 1 \in 1 .. Len(pd)
    BY <2>1
  <2> QED
    BY <1>4, <2>1, <2>3, <2>4 DEF Where
<1>7. /\ DOMAIN Q = DOMAIN P \cup {n} /\ Q[n] = q /\ Objs(Q) = Objs(P) \cup {n}
      /\ \A g \in DOMAIN P : Q[g] = P[g]
      /\ Q \in [DOMAIN Q -> Where]
  <2>1. DOMAIN Q = DOMAIN P \cup {n} /\ Q = [h \in DOMAIN P \cup {n} |-> IF h = n THEN q ELSE P[h]]
    BY <1>4 DEF With
  <2>2. Q[n] = q /\ \A g \in DOMAIN P : Q[g] = P[g]
    BY <1>2, <2>1
  <2>3. \A g \in DOMAIN Q : Q[g] \in Where
    BY <1>1, <1>5, <2>1, <2>2
  <2> QED
    BY <1>1, <1>2, <2>1, <2>2, <2>3 DEF Objs
<1>8. Indexed(y)
  <2>1. StoreId \subseteq DOMAIN y.recs
    BY <1>1, <1>2 DEF Indexed
  <2>2. ASSUME NEW s \in StoreId \cap DOMAIN y.recs
        PROVE  y.recs[s].parent = NoParent /\ y.recs[s].sibling = 0 /\ y.recs[s].store = s /\ y.recs[s].isdir
    <3>1. s \in DOMAIN x.recs
      BY <1>2
    <3> QED
      BY <1>1, <1>3, <3>1 DEF Indexed
  <2>3. ASSUME NEW h \in DOMAIN y.recs \ StoreId PROVE y.recs[h].parent \in DOMAIN y.recs
    <3>1. CASE h = n
      BY <1>1, <1>2, <3>1
    <3>2. CASE h # n
      BY <1>1, <1>2, <1>3, <3>2 DEF Indexed
    <3> QED
      BY <3>1, <3>2
  <2> QED
    BY <2>1, <2>2, <2>3 DEF Indexed
<1>9. Known(y, Q)
  <2>1. DOMAIN Q \subseteq DOMAIN y.recs /\ StoreId \cap DOMAIN y.recs \subseteq DOMAIN Q
    BY <1>1, <1>2, <1>7 DEF Known
  <2>2. ASSUME NEW h \in DOMAIN Q PROVE y.recs[h].store = Q[h][1]
    <3>1. CASE h = n
      <4>1. x.recs[d].store = P[d][1]
        BY <1>1 DEF Known
      <4> QED
        BY <1>2, <1>5, <1>7, <3>1, <4>1
    <3>2. CASE h # n
      BY <1>1, <1>2, <1>3, <1>7, <3>2 DEF Known
    <3> QED
      BY <3>1, <3>2
  <2>3. \A s \in StoreId \cap DOMAIN Q : Q[s] = <<s>>
    BY <1>1, <1>2, <1>7 DEF Known
  <2>4. ASSUME NEW h \in DOMAIN Q \ StoreId
        PROVE  /\ y.recs[h].parent \in DOMAIN Q /\ y.recs[y.recs[h].parent].isdir
               /\ y.recs[h].name \in Names
               /\ Q[h] = Append(Q[y.recs[h].parent], y.recs[h].name)
    <3>1. CASE h = n
      <4>1. y.recs[h].parent = d /\ y.recs[h].name = name /\ Q[d] = P[d] /\ Q[h] = q /\ y.recs[d].isdir /\ d \in DOMAIN Q
        BY <1>1, <1>2, <1>3, <1>7, <3>1
      <4>2. PICK f, e : f = y.recs[h].parent /\ e = y.recs[h].name
        OBVIOUS
      <4>3. f = d /\ e = name /\ Append(Q[f], e) = q
        BY <1>4, <4>1, <4>2, Zenon
      <4> QED
        BY <1>1, <4>1, <4>2, <4>3
    <3>2. CASE h # n
      <4>1. /\ h \in DOMAIN P \ StoreId /\ h \in DOMAIN x.recs
            /\ x.recs[h].parent \in DOMAIN P /\ x.recs[x.recs[h].parent].isdir
            /\ x.recs[h].name \in Names
            /\ P[h] = Append(P[x.recs[h].parent], x.recs[h].name)
        BY <1>1, <1>7, <3>2 DEF Known
      <4>2. PICK f, e : f = x.recs[h].parent /\ e = x.recs[h].name
        OBVIOUS
      <4>3. y.recs[h].parent = f /\ y.recs[h].name = e /\ y.recs[f].isdir /\ f \in DOMAIN Q /\ Q[f] = P[f] /\ Q[h] = P[h]
        BY <1>1, <1>3, <1>7, <4>1, <4>2
      <4> QED
        BY <4>1, <4>2, <4>3
    <3> QED
      BY <3>1, <3>2
  <2>5. ASSUME NEW h \in DOMAIN y.recs \ DOMAIN Q
        PROVE y.recs[h].name = NoName \/ y.recs[h].parent \notin DOMAIN Q
    <3>1. h \in DOMAIN x.recs \ DOMAIN P
      BY <1>2, <1>7
    <3>2. x.recs[h].name = NoName \/ x.recs[h].parent \notin DOMAIN P
      BY <1>1, <3>1 DEF Known
    <3>3. h \notin StoreId
      BY <1>1, <3>1 DEF Known
    <3>4. x.recs[h].parent # n
      BY <1>1, <1>2, <3>1, <3>3 DEF Indexed
    <3> QED
      BY <1>3, <1>7, <3>1, <3>2, <3>4
  <2> QED
    BY <1>7, <2>1, <2>2, <2>3, <2>4, <2>5 DEF Known
<1>11. Apart(Q)
  BY <1>1, <1>7, <1>4 DEF Apart
<1>16. \E s : Chain(y, DOMAIN Q, Objs(Q), s)
  <2>1. PICK D, O : D = DOMAIN P /\ O = Objs(P)
    OBVIOUS
  <2>2. Chain(x, D, O, rk) /\ d \in D /\ n \notin O /\ n \notin D /\ O \subseteq D /\ D \cup {n} \subseteq DOMAIN y.recs
    BY <1>1, <1>2, <2>1
  <2>3. \A g \in D \ {n} :
           /\ y.recs[g].parent = x.recs[g].parent /\ y.recs[g].sibling = x.recs[g].sibling
           /\ y.recs[g].isdir = x.recs[g].isdir
           /\ g # d /\ x.recs[g].isdir => y.recs[g].child = x.recs[g].child
    BY <1>1, <1>3, <2>1
  <2>4. \E r : Chain(y, D \cup {n}, O \cup {n}, r)
    <3>1. /\ x \in Machine /\ n \notin StoreId /\ n # d /\ x.recs[d].isdir
          /\ y.recs[n].parent = d /\ y.recs[n].sibling = x.recs[d].child /\ y.recs[d].child = n
      BY <1>1, <1>2
    <3>2. y.recs[n].child = 0 \/ ~y.recs[n].isdir
      BY <1>2
    <3>3. n \in D => y.recs[n].isdir = x.recs[n].isdir /\ (x.recs[n].isdir => y.recs[n].child = x.recs[n].child)
      BY <2>2
    <3> QED
      <4>1. /\ Chain(x, D, O, rk) /\ d \in D /\ n \notin O /\ D \cup {n} \subseteq DOMAIN y.recs
            /\ O \subseteq D
            /\ n \in D => y.recs[n].isdir = x.recs[n].isdir /\ (x.recs[n].isdir => y.recs[n].child = x.recs[n].child)
            /\ n \notin D => y.recs[n].child = 0 \/ ~y.recs[n].isdir
        BY <2>2, <3>2, <3>3
      <4> QED
        BY <2>3, <3>1, <4>1, LinkFirst, SMTT(90)
  <2> QED
    BY <1>7, <2>1, <2>4
<1> QED
  BY <1>7, <1>8, <1>9, <1>11, <1>16 DEF Recorded

(* A name in a directory of the tree is a place. *)
LEMMA FreeWhere ==
  ASSUME NEW x \in Machine, NEW P, Known(x, P), NEW d \in DOMAIN P, NEW name \in Names
  PROVE  Append(P[d], name) \in Where
<1>1. PICK pd \in Seq(Elem) : pd = P[d] /\ name \in Elem
  BY KnownIs DEF Elem
<1> QED
  BY <1>1, FrontOfAppend DEF Where

(* d is listed, and nothing in it has the name. *)
Free(x, P, d, name) ==
  /\ d \in DOMAIN P /\ x.recs[d].isdir /\ x.recs[d].scanned
  /\ name \in Names /\ Append(P[d], name) \notin DOMAIN x.disk

(* The record Create writes, before anything is on the store, is all the   *)
(* tree lacks.                                                             *)
LEMMA BornKeeps ==
  ASSUME NEW x, NEW P, NEW rk, Shape(x, P, rk), NEW d, NEW name, Free(x, P, d, name),
         NEW folder \in BOOLEAN, NEW y, NEW n, Born(x, y, P, d, n, folder, name)
  PROVE  \E s : ShapeBut(y, With(P, n, Append(P[d], name)), s, n)
<1>1. /\ x \in Machine /\ Indexed(x) /\ Known(x, P) /\ Apart(P) /\ ~x.hung /\ Opened(x, P)
      /\ Chain(x, DOMAIN P, Objs(P), rk) /\ WellFormed(x.disk) /\ x.disk \in Discs
      /\ DOMAIN P \subseteq DOMAIN x.recs /\ P \in [DOMAIN P -> Where]
      /\ Objs(P) = DOMAIN P \ StoreId
      /\ \A g \in DOMAIN P : OnDisk(x, P, g)
      /\ \A g \in DOMAIN P : Full(x, P, g)
      /\ d \in DOMAIN P /\ x.recs[d].isdir /\ x.recs[d].scanned /\ name \in Names
  BY MachineFields DEF Shape, Known, Objs, Free
<1>2. /\ n \in Nat /\ n \notin DOMAIN x.recs /\ n \notin StoreId /\ n \notin DOMAIN P /\ d # n
      /\ y \in Machine /\ DOMAIN y.recs = DOMAIN x.recs \cup {n} /\ Beside(x, y)
      /\ y.recs[n].store = x.recs[d].store /\ y.recs[n].parent = d
      /\ y.recs[n].sibling = x.recs[d].child
      /\ y.recs[n].child = 0 /\ y.recs[n].isdir = folder /\ y.recs[n].scanned
      /\ y.recs[n].name = name
      /\ y.recs[d].child = n
  BY <1>1 DEF Born
<1>3. \A g \in DOMAIN x.recs :
       /\ y.recs[g].store = x.recs[g].store /\ y.recs[g].parent = x.recs[g].parent
       /\ y.recs[g].sibling = x.recs[g].sibling /\ y.recs[g].isdir = x.recs[g].isdir
       /\ y.recs[g].name = x.recs[g].name
       /\ x.recs[g].scanned => y.recs[g].scanned
       /\ g # d \/ ~x.recs[g].isdir => y.recs[g] = x.recs[g]
  BY DEF Born, Grown
<1>4. PICK q : q = Append(P[d], name)
  OBVIOUS
<1>5. q \in Where /\ q \notin DOMAIN x.disk
  BY <1>1, <1>4, FreeWhere DEF Free
<1>6. PICK Q : Q = With(P, n, q)
  OBVIOUS
<1>10. \A g \in DOMAIN P : P[g] # q
  BY <1>1, <1>5 DEF OnDisk
<1>11. NewRecord(x, y, P, Q, d, n, name, q)
  <2>1. Grown(x, y, P, With(P, n, q), {d})
    BY <1>4, Zenon DEF Born
  <2> QED
    BY <1>1, <1>2, <1>4, <1>6, <1>10, <2>1 DEF NewRecord
<1>7. /\ Indexed(y) /\ Known(y, Q) /\ Apart(Q) /\ \E s : Chain(y, DOMAIN Q, Objs(Q), s)
      /\ DOMAIN Q = DOMAIN P \cup {n} /\ Q[n] = q /\ Objs(Q) = Objs(P) \cup {n}
      /\ \A g \in DOMAIN P : Q[g] = P[g]
  <2>1. Recorded(y, P, Q, n, q)
    BY <1>11, NewRecordKnown
  <2> QED
    BY <2>1 DEF Recorded
<1>12. y.disk = x.disk /\ y.hung = x.hung /\ y.open = x.open /\ y.file = x.file
  BY <1>2 DEF Beside
<1>13. \A g \in DOMAIN Q \ {n} : OnDisk(y, Q, g)
  <2> SUFFICES ASSUME NEW g \in DOMAIN P PROVE OnDisk(y, Q, g)
    BY <1>7
  <2>1. OnDisk(x, P, g) /\ Q[g] = P[g] /\ y.recs[g].isdir = x.recs[g].isdir /\ g \in DOMAIN x.recs
    BY <1>1, <1>3, <1>7
  <2>2. ~x.recs[g].isdir => y.recs[g].child = x.recs[g].child
    BY <1>3, <2>1
  <2> QED
    BY <1>12, <2>1, <2>2 DEF OnDisk
<1>14. \A g \in DOMAIN Q : Full(y, Q, g)
  <2> SUFFICES ASSUME NEW g \in DOMAIN Q, y.recs[g].isdir PROVE Full(y, Q, g)
    BY DEF Full
  <2>1. CASE g = n
    <3>1. ASSUME NEW e \in Names PROVE Append(q, e) \notin DOMAIN x.disk
      <4>1. SUFFICES ASSUME Append(q, e) \in DOMAIN x.disk PROVE FALSE
        OBVIOUS
      <4>2. PICK z \in Seq(Elem) : z = q
        BY <1>5 DEF Where
      <4>3. PICK a : a = Append(z, e)
        OBVIOUS
      <4>4. Front(a) = z /\ Len(a) = Len(z) + 1
        BY <4>2, <4>3, FrontLast, FrontOfAppend DEF Elem
      <4>5. Len(z) \in Nat /\ Len(z) > 0
        <5>1. PICK pd \in Seq(Elem) : pd = P[d] /\ name \in Elem
          BY <1>1, KnownIs DEF Elem
        <5>2. z = Append(pd, name)
          BY <1>4, <4>2, <5>1
        <5> QED
          BY <5>1, <5>2
      <4>6. a \in DOMAIN x.disk /\ z \notin DOMAIN x.disk
        BY <1>5, <4>1, <4>2, <4>3
      <4>7. Len(a) # 1
        BY <4>4, <4>5
      <4>8. ASSUME NEW s \in StoreId PROVE a # <<s>>
        <5>1. PICK b : b = <<s>> /\ Len(b) = 1
          BY Single
        <5> QED
          BY <4>7, <5>1, Zenon
      <4> QED
        BY <1>1, <4>4, <4>6, <4>8 DEF WellFormed
    <3> QED
      BY <1>2, <1>7, <1>12, <2>1, <3>1 DEF Full
  <2>2. CASE g # n
    <3>1. g \in DOMAIN P /\ g \in DOMAIN x.recs /\ x.recs[g].isdir /\ Full(x, P, g) /\ Q[g] = P[g]
      BY <1>1, <1>3, <1>7, <2>2
    <3>2. CASE x.recs[g].scanned
      <4>1. y.recs[g].scanned
        BY <1>3, <3>1, <3>2
      <4>2. ASSUME NEW e \in Names, Append(Q[g], e) \in DOMAIN y.disk
            PROVE  \E h \in DOMAIN Q : Q[h] = Append(Q[g], e)
        <5>1. PICK a : a = Append(P[g], e)
          OBVIOUS
        <5>2. a \in DOMAIN x.disk
          BY <1>12, <3>1, <4>2, <5>1
        <5>3. PICK h \in DOMAIN P : P[h] = a
          BY <3>1, <3>2, <5>1, <5>2 DEF Full
        <5> QED
          BY <1>7, <3>1, <5>1, <5>3
      <4> QED
        BY <4>1, <4>2 DEF Full
    <3>3. CASE ~x.recs[g].scanned
      <4>1. g # d
        BY <1>1, <3>3
      <4>2. ~y.recs[g].scanned
        BY <1>3, <3>1, <3>3, <4>1
      <4>3. \A h \in Objs(P) : x.recs[h].parent # g
        BY <3>1, <3>3 DEF Full
      <4>4. \A h \in Objs(Q) : y.recs[h].parent # g
        BY <1>1, <1>2, <1>3, <1>7, <4>1, <4>3
      <4> QED
        BY <4>2, <4>4 DEF Full
    <3> QED
      BY <3>2, <3>3
  <2> QED
    BY <2>1, <2>2
<1>15. Opened(y, Q)
  <2>1. x.open \in DOMAIN x.recs \cup {Orphan} /\ x.open # n
    BY <1>1, <1>2 DEF Opened, Orphan
  <2>2. y.file # NoFile /\ y.open \in DOMAIN Q => y.file = Q[y.open]
    <3>1. SUFFICES ASSUME x.file # NoFile, x.open \in DOMAIN Q PROVE x.file = Q[x.open]
      BY <1>12
    <3> QED
      <4>1. x.open \in DOMAIN P
        BY <1>7, <2>1, <3>1
      <4> QED
        BY <1>1, <1>7, <3>1, <4>1 DEF Opened
  <2> QED
    BY <1>2, <1>12, <2>1, <2>2 DEF Opened
<1>16. PICK s : Chain(y, DOMAIN Q, Objs(Q), s)
  BY <1>7
<1>17. ShapeBut(y, Q, s, n)
  BY <1>1, <1>2, <1>7, <1>12, <1>13, <1>14, <1>15, <1>16 DEF ShapeBut
<1> QED
  BY <1>4, <1>6, <1>17
=============================================================================
