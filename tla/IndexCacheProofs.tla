-------------------------- MODULE IndexCacheProofs --------------------------
(***************************************************************************)
(* Proofs about IndexCache, for any number of slots, records per block,    *)
(* file systems and records.  The argument is about one call of            *)
(* CacheRecordBlock: under CacheInv it brings the block asked for into a   *)
(* slot, changes what no block holds, and keeps CacheInv.                  *)
(***************************************************************************)
EXTENDS IndexCache, FiniteSetTheorems, WellFoundedInduction, TLAPS

(* A non-empty set of naturals has a least element (a search loop that     *)
(* stops at the first match finds one).                                    *)
LEMMA LeastNatural ==
  ASSUME NEW S, S \subseteq Nat, S # {}
  PROVE  \E x \in S : \A y \in S : x <= y
<1> DEFINE Below(m) == {y \in S : y < m}
           T == {Below(m) : m \in S}
<1>1. T \subseteq FiniteSubsetsOf(Nat)
  <2>1. SUFFICES ASSUME NEW m \in S PROVE Below(m) \in FiniteSubsetsOf(Nat)
    OBVIOUS
  <2>2. m \in Nat /\ Below(m) \subseteq Nat
    OBVIOUS
  <2>3. \A s \in Below(m) : s <= m
    BY <2>2
  <2> QED BY <2>2, <2>3, FS_BoundedSetOfNaturals DEF FiniteSubsetsOf
<1>2. T # {}
  OBVIOUS
<1>3. PICK X \in T : \A Y \in T : ~(<<Y, X>> \in StrictSubsetOrdering(Nat))
  BY <1>1, <1>2, FS_StrictSubsetOrderingWellFounded, WFMin
<1>4. PICK m \in S : X = Below(m)
  OBVIOUS
<1>5. SUFFICES ASSUME NEW y \in S, y < m PROVE FALSE
  OBVIOUS
<1>6. y \in Nat /\ m \in Nat /\ \A z \in S : z \in Nat
  OBVIOUS
<1>7. Below(y) \subseteq Below(m) /\ y \in Below(m) /\ y \notin Below(y)
  <2>1. y \in Below(m) /\ y \notin Below(y)
    BY ONLY <1>5, <1>6
  <2>2. ASSUME NEW z \in S, z < y PROVE z < m
    BY ONLY <1>5, <1>6, <2>2
  <2> QED BY <2>1, <2>2
<1>8. <<Below(y), Below(m)>> \in StrictSubsetOrdering(Nat)
  BY <1>7 DEF StrictSubsetOrdering
<1> QED BY <1>3, <1>4, <1>8

(* A bounded non-empty set of naturals has a greatest element. *)
LEMMA GreatestNatural ==
  ASSUME NEW S, NEW n \in Nat, S \subseteq 0 .. n, S # {}
  PROVE  \E x \in S : \A y \in S : y <= x
<1> DEFINE T == {n - y : y \in S}
<1>1. \A y \in S : y \in Nat /\ y <= n /\ n - y \in Nat
  OBVIOUS
<1>2. T \subseteq Nat /\ T # {}
  BY <1>1
<1>3. PICK t \in T : \A u \in T : t <= u
  BY <1>2, LeastNatural
<1>4. PICK x \in S : t = n - x
  OBVIOUS
<1>5. \A y \in S : n - x <= n - y
  BY <1>3, <1>4
<1>6. \A y \in S : y <= x
  BY <1>1, <1>5
<1> QED BY <1>6

(* Quotient and remainder by P rebuild the number. *)
LEMMA DivMod ==
  ASSUME NEW x \in Nat, NEW P \in Nat \ {0}
  PROVE  /\ x \div P \in Nat
         /\ x % P \in 0 .. P - 1
         /\ x = (x \div P) * P + (x % P)
OBVIOUS

(* The pair of quotient and remainder is unique. *)
LEMMA DivUnique ==
  ASSUME NEW q \in Nat, NEW P \in Nat \ {0}, NEW k \in 0 .. P - 1
  PROVE  /\ q * P + k \in Nat
         /\ (q * P + k) \div P = q
         /\ (q * P + k) % P = k
OBVIOUS

(* Multiplication by a natural is monotonic. *)
LEMMA TimesMonotonic ==
  ASSUME NEW q \in Nat, NEW m \in Nat, NEW P \in Nat, q <= m
  PROVE  q * P <= m * P
OBVIOUS

(* A number whose quotient is at most m is below (m + 1) * P. *)
LEMMA DivBound ==
  ASSUME NEW x \in Nat, NEW m \in Nat, NEW P \in Nat \ {0}, x \div P <= m
  PROVE  x < (m + 1) * P
<1>1. (x \div P) * P <= m * P
  BY DivMod, TimesMonotonic
<1> QED BY <1>1, DivMod

(* The quotient of a number below (m + 1) * P is at most m. *)
LEMMA DivBelow ==
  ASSUME NEW x \in Nat, NEW m \in Int, m >= -1, NEW P \in Nat \ {0}, x < (m + 1) * P
  PROVE  m \in Nat /\ x \div P <= m
<1>1. x \div P \in Nat /\ x % P \in Nat /\ x = (x \div P) * P + (x % P)
  BY DivMod
<1>2. CASE m = -1
  BY <1>2
<1>3. CASE m \in Nat
  <2>1. SUFFICES ASSUME m + 1 <= x \div P PROVE FALSE
    BY <1>1, <1>3
  <2>2. (m + 1) * P <= (x \div P) * P
    BY <1>1, <1>3, <2>1, TimesMonotonic
  <2>3. (m + 1) * P \in Nat /\ (x \div P) * P \in Nat
    BY <1>1, <1>3
  <2> QED BY <1>1, <2>2, <2>3
<1> QED BY <1>2, <1>3

(* The quotient is monotonic. *)
LEMMA DivMonotonic ==
  ASSUME NEW x \in Nat, NEW y \in Nat, NEW P \in Nat \ {0}, x <= y
  PROVE  x \div P <= y \div P
<1> DEFINE q == x \div P
           r == y \div P
<1>1. q \in Nat /\ r \in Nat
  BY DivMod
<1>2. SUFFICES ASSUME r + 1 <= q PROVE FALSE
  BY <1>1
<1>3. (r + 1) * P <= q * P
  BY <1>1, <1>2, TimesMonotonic
<1>4. y < (r + 1) * P
  BY <1>1, DivBound
<1>5. q * P <= x
  BY DivMod
<1>6. q * P \in Nat /\ (r + 1) * P \in Nat
  BY <1>1
<1> QED BY <1>3, <1>4, <1>5, <1>6

(* Counting on by one: the next place of the block, or the first of the    *)
(* next block.                                                             *)
LEMMA DivNext ==
  ASSUME NEW x \in Nat, NEW P \in Nat \ {0}
  PROVE  IF x % P = P - 1
         THEN (x + 1) \div P = x \div P + 1 /\ (x + 1) % P = 0
         ELSE (x + 1) \div P = x \div P /\ (x + 1) % P = (x % P) + 1
<1>1. PICK q \in Nat, k \in 0 .. P - 1 :
        q = x \div P /\ k = x % P /\ x = q * P + k
  BY DivMod
<1>2. q * P \in Nat /\ (q + 1) * P = q * P + P
  OBVIOUS
<1>3. CASE k = P - 1
  <2>1. x + 1 = (q + 1) * P + 0 /\ q + 1 \in Nat /\ 0 \in 0 .. P - 1
    BY <1>1, <1>2, <1>3
  <2>2. ((q + 1) * P + 0) \div P = q + 1 /\ ((q + 1) * P + 0) % P = 0
    BY ONLY <2>1, DivUnique, P \in Nat \ {0}
  <2> QED BY <1>1, <1>3, <2>1, <2>2
<1>4. CASE k # P - 1
  <2>1. x + 1 = q * P + (k + 1) /\ k + 1 \in 0 .. P - 1
    BY <1>1, <1>2, <1>4
  <2>2. (x + 1) \div P = q /\ (x + 1) % P = k + 1
    BY ONLY <2>1, DivUnique, P \in Nat \ {0}, q \in Nat
  <2> QED BY <1>1, <1>4, <2>2
<1> QED BY <1>3, <1>4

(* A counter modulo M that has just been incremented differs from what it  *)
(* was, whether or not it wrapped.                                         *)
LEMMA ModIncrement ==
  ASSUME NEW M \in Nat, M >= 2, NEW x \in 0 .. M - 1
  PROVE  /\ (x + 1) % M \in 0 .. M - 1
         /\ (((x + 1) % M) - x) % M > 0
<1>1. CASE x + 1 = M
  <2>1. (x + 1) % M = 0
    BY <1>1
  <2>2. (0 - x) % M = 1
    BY <1>1
  <2> QED BY <1>1, <2>1, <2>2
<1>2. CASE x + 1 < M
  BY <1>2
<1> QED BY <1>1, <1>2


(* The inductive part of the cache's correctness, for an index whose last  *)
(* block is block last.                                                    *)
CacheInv(c, last) ==
  /\ c \in Cache
  /\ last \in -1 .. MaxBlock
  /\ NoTwoCopies(c)
  /\ UnusedSlotsLast(c)
  /\ CleanSlotsSpilled(c)
  /\ UnwrittenUpTo(c, last)

(* The slot used last carries the current cycle. *)
Recent(c) == \E s \in SlotId : c.slot[s].last = c.cycle

----------------------------------------------------------------------------
(* Searching the slots *)

(* First picks the least slot of a non-empty set. *)
LEMMA FirstSlot ==
  ASSUME NEW S, S \subseteq SlotId, S # {}
  PROVE  /\ First(S) \in S
         /\ First(S) \in SlotId
         /\ \A y \in S : First(S) <= y
<1>1. S \subseteq Nat
  BY SlotsAssumption DEF SlotId
<1>2. \E x \in S : \A y \in S : x <= y
  BY <1>1, LeastNatural
<1> QED BY <1>2 DEF First

(* The age of a slot is a cycle number. *)
LEMMA AgeType ==
  ASSUME NEW c \in Cache, NEW s \in SlotId
  PROVE  Age(c, s) \in 0 .. CycleMod - 1
<1>1. c.cycle \in Int /\ c.slot[s].last \in Int
  BY CycleAssumption DEF Cache, Slot
<1> QED BY <1>1, CycleAssumption DEF Age

(* There is always a slot of the largest age to replace. *)
LEMMA VictimSlot ==
  ASSUME NEW c \in Cache
  PROVE  /\ Victim(c) \in SlotId
         /\ \A s \in SlotId : Age(c, s) <= Age(c, Victim(c))
<1> DEFINE Ages == {Age(c, s) : s \in SlotId}
           Oldest == {s \in SlotId : \A t \in SlotId : Age(c, t) <= Age(c, s)}
<1>1. Ages \subseteq 0 .. CycleMod - 1 /\ CycleMod - 1 \in Nat
  BY AgeType, CycleAssumption
<1>2. 0 \in SlotId
  BY SlotsAssumption DEF SlotId
<1>3. PICK x \in Ages : \A y \in Ages : y <= x
  BY <1>1, <1>2, GreatestNatural
<1>4. Oldest # {}
  BY <1>3
<1>5. /\ First(Oldest) \in Oldest
      /\ \A s \in Oldest : First(Oldest) <= s
  BY <1>4, FirstSlot
<1>6. ASSUME NEW s \in SlotId, s < First(Oldest)
      PROVE  Age(c, s) < Age(c, First(Oldest))
  <2>1. s \notin Oldest
    <3>1. SUFFICES ASSUME s \in Oldest PROVE FALSE
      OBVIOUS
    <3>2. First(Oldest) <= s /\ s \in Int /\ First(Oldest) \in Int
      BY <1>5, <3>1 DEF SlotId
    <3> QED BY <1>6, <3>2
  <2>2. PICK t \in SlotId : ~(Age(c, t) <= Age(c, s))
    BY <2>1
  <2>3. Age(c, t) <= Age(c, First(Oldest))
    BY <1>5
  <2>4. Age(c, t) \in Int /\ Age(c, s) \in Int /\ Age(c, First(Oldest)) \in Int
    BY <1>5, AgeType
  <2> QED BY <2>2, <2>3, <2>4
<1>7. \E v \in SlotId :
        /\ \A s \in SlotId : Age(c, s) <= Age(c, v)
        /\ \A s \in SlotId : s < v => Age(c, s) < Age(c, v)
  BY <1>5, <1>6
<1> QED BY <1>7 DEF Victim

(* The only copy of a block is the first one. *)
LEMMA OnlyCopy ==
  ASSUME NEW c, NoTwoCopies(c), NEW s \in SlotId, c.slot[s].block # NoBlock
  PROVE  /\ Copies(c, c.slot[s].block) = {s}
         /\ First(Copies(c, c.slot[s].block)) = s
         /\ Cached(c, c.slot[s].block)
         /\ Held(c, c.slot[s].block) = c.slot[s].data
<1>1. Copies(c, c.slot[s].block) = {s}
  BY DEF Copies, NoTwoCopies
<1>2. First({s}) = s
  BY FirstSlot
<1> QED BY <1>1, <1>2 DEF Cached, Held

(* A block that is in no slot is in the file, or empty. *)
LEMMA NoCopy ==
  ASSUME NEW c, NEW b, \A s \in SlotId : c.slot[s].block # b
  PROVE  /\ Copies(c, b) = {}
         /\ ~Cached(c, b)
         /\ Held(c, b) = IF b <= c.maxw THEN c.file[b] ELSE EmptyBlock
BY DEF Copies, Cached, Held

(* The empty block is a block, and NoBlock is none. *)
LEMMA BlockFacts ==
  /\ EmptyBlock \in Block
  /\ OldBlock \in Block
  /\ NoBlock \notin BlockId
  /\ BlockId \subseteq Nat
  /\ \A last \in -1 .. MaxBlock : NoBlock > last
BY BlockAssumption, RecAssumption DEF EmptyBlock, OldBlock, Block, BlockId

(* What a block holds is a block. *)
LEMMA HeldType ==
  ASSUME NEW c \in Cache, NEW b \in BlockId
  PROVE  Held(c, b) \in Block
<1>1. CASE Cached(c, b)
  <2>1. Copies(c, b) \subseteq SlotId /\ Copies(c, b) # {}
    BY <1>1 DEF Copies, Cached
  <2>2. First(Copies(c, b)) \in SlotId
    BY <2>1, FirstSlot
  <2>3. c.slot[First(Copies(c, b))].data \in Block
    BY <2>2 DEF Cache, Slot
  <2> QED BY <1>1, <2>3 DEF Held
<1>2. CASE ~Cached(c, b)
  BY <1>2, BlockFacts DEF Held, Cache
<1> QED BY <1>1, <1>2

----------------------------------------------------------------------------
(* Spilling a block *)

(* Under CacheInv the loop that extends the file finds every gap block, so *)
(* each block spilled lands at its own place.                              *)
LEMMA SpillPositions ==
  ASSUME NEW c, NEW last, CacheInv(c, last),
         NEW v \in SlotId, c.slot[v].dirty
  PROVE  LET b == c.slot[v].block
         IN /\ b \in BlockId /\ b <= last
            /\ Gap(c, b) = c.maxw + 1 .. b - 1
            /\ \A g \in Spilled(c, b) : Position(c, b, g) = g
<1> DEFINE b == c.slot[v].block
<1>1. /\ c.maxw \in Int /\ c.maxw >= -1 /\ last \in Int
      /\ b <= last /\ b \in BlockId /\ b \in Nat
  <2>1. c.slot[v] \in Slot /\ c.maxw \in -1 .. MaxBlock + 1 /\ last \in -1 .. MaxBlock
    BY DEF CacheInv, Cache
  <2>2. b <= last
    BY DEF CacheInv, UnwrittenUpTo
  <2>3. b \in BlockId \cup {NoBlock} /\ MaxBlock \in Nat /\ NoBlock \in Nat
    BY <2>1, BlockAssumption DEF Slot
  <2>4. NoBlock > last
    BY <2>1, BlockFacts
  <2>5. b # NoBlock
    BY <2>1, <2>2, <2>3, <2>4
  <2>6. b \in BlockId
    BY <2>3, <2>5
  <2>7. b \in Nat
    BY <2>6, BlockFacts
  <2> HIDE DEF b
  <2> QED BY <2>1, <2>2, <2>3, <2>6, <2>7
<1> HIDE DEF b
<1>2. Gap(c, b) = c.maxw + 1 .. b - 1
  <2>1. \A g \in c.maxw + 1 .. b - 1 : g \in c.maxw + 1 .. last
    BY <1>1
  <2>2. \A g \in c.maxw + 1 .. b - 1 : Cached(c, g)
    BY <2>1 DEF CacheInv, UnwrittenUpTo, Cached, Copies
  <2> QED BY <2>2 DEF Gap
<1>3. ASSUME NEW g \in Spilled(c, b)
      PROVE  Position(c, b, g) = g
  <2>1. CASE b <= c.maxw
    <3>1. Gap(c, b) = {}
      BY <1>1, <1>2, <2>1
    <3> QED BY <2>1, <3>1 DEF Spilled, Position
  <2>2. CASE b > c.maxw
    <3> DEFINE m == c.maxw
    <3>1. m \in Int /\ m >= -1 /\ b \in Nat /\ b > m
      BY <1>1, <2>2
    <3>2. g = b \/ g \in m + 1 .. b - 1
      BY <1>2 DEF Spilled
    <3> HIDE DEF m
    <3>3. g \in Int /\ m + 1 <= g /\ g <= b
      BY <3>1, <3>2
    <3>4. {x \in m + 1 .. b - 1 : x < g} = m + 1 .. g - 1
      BY <3>1, <3>3
    <3>5. Cardinality(m + 1 .. g - 1) = g - 1 - m
      BY <3>1, <3>3, FS_Interval
    <3>6. {x \in Gap(c, b) : x < g} = m + 1 .. g - 1
      BY <1>2, <3>4 DEF m
    <3>7. ~(b <= c.maxw)
      BY <3>1 DEF m
    <3>8. Position(c, b, g) = m + 1 + Cardinality(m + 1 .. g - 1)
      BY <3>6, <3>7 DEF Position, m
    <3> QED BY <3>1, <3>3, <3>5, <3>8
  <2> QED BY <1>1, <2>1, <2>2
<1> QED BY <1>1, <1>2, <1>3 DEF b

(* Spilling slot v writes its block and the gap blocks to the file, each   *)
(* at its place, and changes nothing else but the dirty flags of the gap.  *)
LEMMA WriteOutEffect ==
  ASSUME NEW c, NEW last, CacheInv(c, last),
         NEW v \in SlotId, c.slot[v].dirty
  PROVE  LET b == c.slot[v].block
             w == WriteOut(c, v)
         IN /\ w \in Cache
            /\ w.cycle = c.cycle
            /\ w.maxw = IF b > c.maxw THEN b ELSE c.maxw
            /\ \A s \in SlotId :
                 /\ w.slot[s].block = c.slot[s].block
                 /\ w.slot[s].data = c.slot[s].data
                 /\ w.slot[s].last = c.slot[s].last
                 /\ w.slot[s].dirty <=> c.slot[s].dirty /\ c.slot[s].block \notin Gap(c, b)
            /\ \A p \in BlockId :
                 w.file[p] = IF p \in Spilled(c, b) THEN Held(c, p) ELSE c.file[p]
<1> DEFINE b == c.slot[v].block
           w == WriteOut(c, v)
           lands(g, p) == g \in Spilled(c, b) /\ Position(c, b, g) = p
           file == [p \in BlockId |->
                      IF \E g \in Spilled(c, b) : lands(g, p)
                      THEN c.slot[Holder(c, v, CHOOSE g \in Spilled(c, b) : lands(g, p))].data
                      ELSE c.file[p]]
           slot == [s \in SlotId |->
                      IF \E g \in Gap(c, b) : s = First(Copies(c, g))
                      THEN [c.slot[s] EXCEPT !.dirty = FALSE]
                      ELSE c.slot[s]]
           maxw == IF b > c.maxw THEN b ELSE c.maxw
<1>1. c \in Cache /\ NoTwoCopies(c) /\ last \in -1 .. MaxBlock
  BY DEF CacheInv
<1>2. b \in BlockId /\ b <= last /\ Gap(c, b) = c.maxw + 1 .. b - 1
  BY SpillPositions
<1>3. \A g \in Spilled(c, b) : Position(c, b, g) = g
  BY SpillPositions
<1>4. w = [c EXCEPT !.file = file, !.slot = slot, !.maxw = maxw]
  BY DEF WriteOut
<1>5. w.file = file /\ w.slot = slot /\ w.maxw = maxw /\ w.cycle = c.cycle
  BY <1>1, <1>4 DEF Cache
<1>6. \A g \in Gap(c, b) : Cached(c, g)
  BY DEF Gap
<1>7. b # NoBlock /\ \A g \in Gap(c, b) : g # NoBlock
  <2>1. c.maxw \in Int
    BY <1>1 DEF Cache
  <2>2. b \in Int /\ b <= last
    BY <1>2 DEF BlockId
  <2>3. last \in Int /\ NoBlock \in Int /\ last < NoBlock
    BY <1>1, BlockAssumption
  <2> HIDE DEF b, w, lands, file, slot, maxw
  <2>4. \A g \in c.maxw + 1 .. b - 1 : g # NoBlock
    BY <2>1, <2>2, <2>3
  <2> QED BY <1>2, <2>2, <2>3, <2>4
<1>8. ASSUME NEW p \in BlockId
      PROVE  file[p] = IF p \in Spilled(c, b) THEN Held(c, p) ELSE c.file[p]
  <2>1. CASE p \in Spilled(c, b)
    <3>1. lands(p, p) /\ \A g \in Spilled(c, b) : lands(g, p) => g = p
      BY <1>3, <2>1
    <3>2. (CHOOSE g \in Spilled(c, b) : lands(g, p)) = p
      BY <2>1, <3>1
    <3>3. file[p] = c.slot[Holder(c, v, p)].data
      BY <2>1, <3>1, <3>2
    <3>4. CASE p = b
      <4>1. Held(c, b) = c.slot[v].data
        BY <1>1, <1>7, OnlyCopy
      <4> QED BY <2>1, <3>3, <3>4, <4>1 DEF Holder
    <3>5. CASE p # b
      <4>1. Cached(c, p)
        BY <1>6, <2>1, <3>5 DEF Spilled
      <4> QED BY <2>1, <3>3, <3>5, <4>1 DEF Holder, Held
    <3> QED BY <3>4, <3>5
  <2>2. CASE p \notin Spilled(c, b)
    BY <1>3, <2>2
  <2> QED BY <2>1, <2>2
<1>9. ASSUME NEW s \in SlotId
      PROVE  (\E g \in Gap(c, b) : s = First(Copies(c, g))) <=> c.slot[s].block \in Gap(c, b)
  <2>1. ASSUME NEW g \in Gap(c, b), s = First(Copies(c, g))
        PROVE  c.slot[s].block = g
    <3>1. Copies(c, g) \subseteq SlotId /\ Copies(c, g) # {}
      BY <1>6 DEF Cached, Copies
    <3> QED BY <2>1, <3>1, FirstSlot DEF Copies
  <2>2. ASSUME c.slot[s].block \in Gap(c, b)
        PROVE  s = First(Copies(c, c.slot[s].block))
    BY <1>1, <1>7, <2>2, OnlyCopy
  <2> QED BY <2>1, <2>2
<1>10. ASSUME NEW s \in SlotId
       PROVE  /\ slot[s] \in Slot
              /\ slot[s].block = c.slot[s].block
              /\ slot[s].data = c.slot[s].data
              /\ slot[s].last = c.slot[s].last
              /\ slot[s].dirty <=> c.slot[s].dirty /\ c.slot[s].block \notin Gap(c, b)
  <2>1. c.slot[s] \in Slot
    BY <1>1 DEF Cache
  <2>2. slot[s] = IF c.slot[s].block \in Gap(c, b)
                  THEN [c.slot[s] EXCEPT !.dirty = FALSE] ELSE c.slot[s]
    BY <1>9
  <2> HIDE DEF slot
  <2> QED BY <2>1, <2>2 DEF Slot
<1>11. ASSUME NEW p \in BlockId
       PROVE  file[p] \in Block
  <2>1. CASE p \in Spilled(c, b)
    <3>1. \A s \in SlotId : c.slot[s].data \in Block
      BY <1>1 DEF Cache, Slot
    <3>2. Copies(c, p) \subseteq SlotId /\ Copies(c, p) # {}
      BY <1>6, <2>1 DEF Spilled, Cached, Copies
    <3>3. Held(c, p) = c.slot[First(Copies(c, p))].data
      BY <3>2 DEF Held, Cached
    <3>4. First(Copies(c, p)) \in SlotId
      BY <3>2, FirstSlot
    <3> QED BY <1>8, <2>1, <3>1, <3>3, <3>4
  <2>2. CASE p \notin Spilled(c, b)
    BY <1>1, <1>8, <2>2 DEF Cache
  <2> QED BY <2>1, <2>2
<1>12. maxw \in -1 .. MaxBlock + 1
  BY <1>1, <1>2 DEF Cache, BlockId
<1>13. w \in Cache
  <2>1. slot \in [SlotId -> Slot]
    BY <1>10
  <2>2. file \in [BlockId -> Block]
    BY <1>11
  <2> HIDE DEF slot, file, maxw, w
  <2> QED BY <1>1, <1>4, <1>12, <2>1, <2>2 DEF Cache
<1> HIDE DEF slot, file, maxw, w
<1> QED BY <1>5, <1>8, <1>10, <1>13 DEF maxw, w

----------------------------------------------------------------------------
(* Bringing a block into a slot *)

(* The cycle counter is read by the choice of the victim only. *)
LEMMA TickKeeps ==
  ASSUME NEW c, NEW last, CacheInv(c, last)
  PROVE  LET t == Tick(c)
         IN /\ CacheInv(t, last)
            /\ t.slot = c.slot
            /\ \A b : Held(t, b) = Held(c, b)
<1> DEFINE t == Tick(c)
<1>1. (c.cycle + 1) % CycleMod \in 0 .. CycleMod - 1
  BY CycleAssumption, ModIncrement DEF CacheInv, Cache
<1>2. /\ t \in Cache
      /\ t.slot = c.slot /\ t.maxw = c.maxw /\ t.file = c.file
  BY <1>1 DEF Tick, CacheInv, Cache
<1>3. CacheInv(t, last)
  BY <1>2 DEF CacheInv, NoTwoCopies, UnusedSlotsLast, CleanSlotsSpilled, UnwrittenUpTo
<1>4. \A b : Held(t, b) = Held(c, b)
  BY <1>2 DEF Held, Cached, Copies
<1> QED BY <1>2, <1>3, <1>4

(* A block found in a slot, or given an unused one, is what it was. *)
LEMMA ClaimKeeps ==
  ASSUME NEW c, NEW last, CacheInv(c, last),
         NEW b \in BlockId, Hits(c, b) # {}
  PROVE  LET s == First(Hits(c, b))
             d == Claim(c, s, b)
         IN /\ s \in SlotId
            /\ CacheInv(d, last)
            /\ d.slot[s].block = b
            /\ d.slot[s].last = d.cycle
            /\ \A g \in BlockId : Held(d, g) = Held(c, g)
<1> DEFINE s == First(Hits(c, b))
           d == Claim(c, s, b)
<1>1. Hits(c, b) \subseteq SlotId
  BY DEF Hits, Copies
<1>2. s \in SlotId /\ s \in Hits(c, b) /\ \A t \in Hits(c, b) : s <= t
  BY <1>1, FirstSlot
<1>3. b # NoBlock /\ b \in Int /\ b >= 0
  BY BlockFacts DEF BlockId
<1>4. c \in Cache /\ c.slot[s] \in Slot
  BY <1>2 DEF CacheInv, Cache
<1>5. c.slot[s].block = b \/ c.slot[s].block = NoBlock
  BY <1>2 DEF Hits, Copies
<1>6. /\ d.slot = [c.slot EXCEPT ![s] =
                     [block |-> b, last |-> c.cycle, dirty |-> c.slot[s].dirty,
                      data |-> IF c.slot[s].block = b THEN c.slot[s].data ELSE EmptyBlock]]
      /\ d.maxw = c.maxw /\ d.file = c.file /\ d.cycle = c.cycle
  BY <1>4 DEF Claim, Cache
<1>7. /\ d.slot[s].block = b
      /\ d.slot[s].last = c.cycle
      /\ d.slot[s].dirty = c.slot[s].dirty
      /\ d.slot[s].data = IF c.slot[s].block = b THEN c.slot[s].data ELSE EmptyBlock
      /\ \A t \in SlotId : t # s => d.slot[t] = c.slot[t]
  BY <1>2, <1>4, <1>6 DEF Cache
<1>8. d \in Cache
  <2>1. [block |-> b, last |-> c.cycle, dirty |-> c.slot[s].dirty,
         data |-> IF c.slot[s].block = b THEN c.slot[s].data ELSE EmptyBlock] \in Slot
    BY <1>4, BlockFacts DEF Cache, Slot
  <2> QED BY <1>2, <1>4, <2>1 DEF Claim, Cache
<1>9. \A t \in SlotId : t # s => c.slot[t].block # b
  <2>1. CASE c.slot[s].block = b
    BY <1>2, <1>3, <2>1 DEF CacheInv, NoTwoCopies
  <2>2. CASE c.slot[s].block = NoBlock
    <3>1. SUFFICES ASSUME NEW t \in SlotId, t # s, c.slot[t].block = b PROVE FALSE
      OBVIOUS
    <3>2. t \in Hits(c, b)
      BY <3>1 DEF Hits, Copies
    <3>3. s < t
      BY <1>2, <3>1, <3>2 DEF SlotId
    <3>4. c.slot[t].block = NoBlock
      BY <1>2, <2>2, <3>3 DEF CacheInv, UnusedSlotsLast
    <3> QED BY <1>3, <3>1, <3>4
  <2> QED BY <1>5, <2>1, <2>2
<1>10. c.slot[s].block = NoBlock => ~c.slot[s].dirty /\ c.maxw = -1
  <2>1. c.slot[s].block = NoBlock => ~(c.slot[s].block <= last)
    BY BlockAssumption DEF CacheInv
  <2> QED BY <1>2, <2>1 DEF CacheInv, UnwrittenUpTo, UnusedSlotsLast
<1> HIDE DEF d, s
<1>11. CacheInv(d, last)
  <2>1. NoTwoCopies(d)
    BY <1>2, <1>7, <1>9 DEF CacheInv, NoTwoCopies
  <2>2. UnusedSlotsLast(d)
    <3>1. SUFFICES ASSUME NEW t \in SlotId, d.slot[t].block = NoBlock
                   PROVE  d.maxw = -1 /\ \A u \in SlotId : t < u => d.slot[u].block = NoBlock
      BY DEF UnusedSlotsLast
    <3>2. t # s /\ c.slot[t].block = NoBlock
      BY <1>3, <1>7, <3>1
    <3>3. s < t
      BY <1>2, <3>2 DEF Hits, Copies, SlotId
    <3>4. c.maxw = -1 /\ \A u \in SlotId : t < u => c.slot[u].block = NoBlock
      BY <3>2 DEF CacheInv, UnusedSlotsLast
    <3>5. \A u \in SlotId : t < u => u # s
      BY <1>2, <3>3 DEF SlotId
    <3> QED BY <1>6, <1>7, <3>4, <3>5
  <2>3. CleanSlotsSpilled(d)
    <3>1. SUFFICES ASSUME NEW t \in SlotId, d.slot[t].block # NoBlock, ~d.slot[t].dirty
                   PROVE  d.slot[t].data = IF d.slot[t].block <= d.maxw
                                           THEN d.file[d.slot[t].block] ELSE EmptyBlock
      BY DEF CleanSlotsSpilled
    <3>2. CASE t # s
      BY <1>6, <1>7, <3>1, <3>2 DEF CacheInv, CleanSlotsSpilled
    <3>3. CASE t = s /\ c.slot[s].block = b
      BY <1>3, <1>6, <1>7, <3>1, <3>3 DEF CacheInv, CleanSlotsSpilled
    <3>4. CASE t = s /\ c.slot[s].block # b
      <4>1. d.slot[t].data = EmptyBlock /\ d.slot[t].block = b
        BY <1>7, <3>4
      <4>2. ~(b <= d.maxw)
        BY <1>3, <1>5, <1>6, <1>10, <3>4
      <4> QED BY <4>1, <4>2
    <3> QED BY <3>2, <3>3, <3>4
  <2>4. UnwrittenUpTo(d, last)
    <3>1. /\ c.maxw <= last
          /\ \A g \in c.maxw + 1 .. last :
               \E t \in SlotId : c.slot[t].block = g /\ c.slot[t].dirty
          /\ \A t \in SlotId : c.slot[t].dirty => c.slot[t].block <= last
      BY DEF CacheInv, UnwrittenUpTo
    <3>2. \A t \in SlotId : d.slot[t].dirty =>
            c.slot[t].dirty /\ d.slot[t].block = c.slot[t].block
      BY <1>5, <1>7, <1>10
    <3>3. \A t \in SlotId : c.slot[t].dirty =>
            d.slot[t].dirty /\ d.slot[t].block = c.slot[t].block
      BY <1>5, <1>7, <1>10
    <3> QED BY <1>6, <3>1, <3>2, <3>3 DEF UnwrittenUpTo
  <2> QED BY <1>8, <2>1, <2>2, <2>3, <2>4 DEF CacheInv
<1>12. ASSUME NEW g \in BlockId
       PROVE  Held(d, g) = Held(c, g)
  <2>1. g # NoBlock /\ NoTwoCopies(c) /\ NoTwoCopies(d)
    BY <1>11, BlockFacts DEF CacheInv
  <2>2. CASE g = b
    <3>1. Held(d, b) = d.slot[s].data
      BY <1>2, <1>3, <1>7, <2>1, OnlyCopy
    <3>2. CASE c.slot[s].block = b
      <4>1. Held(c, b) = c.slot[s].data
        BY <1>2, <1>3, <2>1, <3>2, OnlyCopy
      <4> QED BY <1>7, <2>2, <3>1, <3>2, <4>1
    <3>3. CASE c.slot[s].block = NoBlock
      <4>1. Held(c, b) = EmptyBlock
        <5>1. \A t \in SlotId : c.slot[t].block # b
          BY <1>3, <1>9, <3>3
        <5>2. ~(b <= c.maxw)
          BY <1>3, <1>10, <3>3
        <5> QED BY <5>1, <5>2, NoCopy
      <4> QED BY <1>3, <1>7, <2>2, <3>1, <3>3, <4>1
    <3> QED BY <1>5, <3>2, <3>3
  <2>3. CASE g # b
    <3>1. \A t \in SlotId : c.slot[t].block = g <=> d.slot[t].block = g
      BY <1>5, <1>7, <2>1, <2>3
    <3>2. \A t \in SlotId : c.slot[t].block = g => t # s
      BY <1>5, <2>1, <2>3
    <3>3. CASE \E t \in SlotId : c.slot[t].block = g
      <4>1. PICK t \in SlotId : c.slot[t].block = g
        BY <3>3
      <4>2. Held(c, g) = c.slot[t].data /\ Held(d, g) = d.slot[t].data
        BY <2>1, <3>1, <4>1, OnlyCopy
      <4> QED BY <1>7, <3>2, <4>1, <4>2
    <3>4. CASE ~\E t \in SlotId : c.slot[t].block = g
      <4>1. Held(c, g) = IF g <= c.maxw THEN c.file[g] ELSE EmptyBlock
        BY <3>4, NoCopy
      <4>2. Held(d, g) = IF g <= d.maxw THEN d.file[g] ELSE EmptyBlock
        BY <3>1, <3>4, NoCopy
      <4> QED BY <1>6, <4>1, <4>2
    <3> QED BY <3>3, <3>4
  <2> QED BY <2>2, <2>3
<1> QED BY <1>2, <1>6, <1>7, <1>11, <1>12 DEF d, s

(* A slot that is spilled if dirty can be replaced: what it held is in the *)
(* file now, and so are the blocks of the gap before it.                   *)
LEMMA ReplaceKeeps ==
  ASSUME NEW c, NEW last, CacheInv(c, last),
         NEW b \in BlockId, Hits(c, b) = {}, NEW v \in SlotId
  PROVE  LET d == Replace(c, v, b)
         IN /\ CacheInv(d, last)
            /\ d.slot[v].block = b
            /\ d.slot[v].last = d.cycle
            /\ \A g \in BlockId : Held(d, g) = Held(c, g)
<1> DEFINE bv == c.slot[v].block
           w == IF c.slot[v].dirty THEN WriteOut(c, v) ELSE c
           gone == IF c.slot[v].dirty THEN Spilled(c, bv) ELSE {}
           d == Replace(c, v, b)
<1>1. c \in Cache /\ NoTwoCopies(c) /\ last \in -1 .. MaxBlock /\ c.maxw \in -1 .. MaxBlock + 1
  BY DEF CacheInv, Cache
<1>2. \A s \in SlotId : c.slot[s].block # b /\ c.slot[s].block # NoBlock
  BY DEF Hits, Copies
<1>3. \A s \in SlotId : c.slot[s].block \in BlockId
  <2>1. \A s \in SlotId : c.slot[s] \in Slot
    BY <1>1 DEF Cache
  <2> QED BY <1>2, <2>1 DEF Slot
<1>4. c.slot[v].dirty => bv <= last /\ Gap(c, bv) = c.maxw + 1 .. bv - 1
  BY SpillPositions
<1>5. /\ w \in Cache
      /\ w.cycle = c.cycle
      /\ \A s \in SlotId : /\ w.slot[s].block = c.slot[s].block
                          /\ w.slot[s].data = c.slot[s].data
                          /\ w.slot[s].last = c.slot[s].last
      /\ \A p \in BlockId : w.file[p] = IF p \in gone THEN Held(c, p) ELSE c.file[p]
  BY <1>1, WriteOutEffect
<1>6. w.maxw = IF c.slot[v].dirty /\ bv > c.maxw THEN bv ELSE c.maxw
  BY WriteOutEffect
<1>7. \A s \in SlotId : w.slot[s].dirty <=>
        c.slot[s].dirty /\ ~(c.slot[v].dirty /\ c.slot[s].block \in Gap(c, bv))
  BY WriteOutEffect
<1>8. gone = IF c.slot[v].dirty THEN (c.maxw + 1 .. bv - 1) \cup {bv} ELSE {}
  BY <1>4 DEF Spilled
<1>9. /\ w.maxw \in Int /\ c.maxw \in Int /\ bv \in Int /\ last \in Int
      /\ c.maxw <= w.maxw /\ w.maxw <= last /\ c.maxw <= last
  <2>1. bv \in Int /\ c.maxw \in Int /\ last \in Int
    BY <1>1, <1>3 DEF BlockId
  <2>2. c.maxw <= last
    BY DEF CacheInv, UnwrittenUpTo
  <2> QED BY <1>4, <1>6, <2>1, <2>2
<1>10. \A p \in BlockId : c.maxw < p /\ p <= w.maxw => p \in gone
  <2>1. BlockId \subseteq Int
    BY DEF BlockId
  <2> HIDE DEF w, gone, d, bv
  <2> QED BY <1>6, <1>8, <1>9, <2>1
<1>11. \A p \in gone : p = bv \/ (c.maxw < p /\ p <= w.maxw)
  <2> HIDE DEF w, gone, d, bv
  <2> QED BY <1>6, <1>8, <1>9
<1>12. \A p \in gone : \E s \in SlotId : c.slot[s].block = p
  <2>1. \A p \in Gap(c, bv) : \E s \in SlotId : c.slot[s].block = p
    BY DEF Gap, Cached, Copies
  <2> QED BY <2>1 DEF Spilled
<1>13. d = [w EXCEPT !.slot[v] = [block |-> b, last |-> c.cycle, dirty |-> FALSE,
                                  data |-> IF b <= w.maxw THEN w.file[b] ELSE EmptyBlock]]
  BY DEF Replace
<1> HIDE DEF w, gone, d, bv
<1>14. /\ d.slot[v].block = b
       /\ d.slot[v].last = c.cycle
       /\ ~d.slot[v].dirty
       /\ d.slot[v].data = IF b <= w.maxw THEN w.file[b] ELSE EmptyBlock
       /\ \A s \in SlotId : s # v => d.slot[s] = w.slot[s]
       /\ d.maxw = w.maxw /\ d.file = w.file /\ d.cycle = c.cycle
  BY <1>5, <1>13 DEF Cache
<1>15. d \in Cache
  <2>1. w.file[b] \in Block /\ EmptyBlock \in Block
    BY <1>5, BlockFacts DEF Cache
  <2>2. [block |-> b, last |-> c.cycle, dirty |-> FALSE,
         data |-> IF b <= w.maxw THEN w.file[b] ELSE EmptyBlock] \in Slot
    BY <1>1, <2>1 DEF Cache, Slot
  <2> QED BY <1>5, <1>13, <2>2 DEF Cache
<1>16. ~Cached(c, b) /\ Held(c, b) = IF b <= c.maxw THEN c.file[b] ELSE EmptyBlock
  BY <1>2, NoCopy
<1>17. b \notin gone
  BY <1>2, <1>12
<1>18. d.slot[v].data = Held(c, b)
  <2>1. w.file[b] = c.file[b]
    BY <1>5, <1>17
  <2>2. b \in Int /\ (b <= w.maxw => b <= c.maxw)
    BY <1>9, <1>10, <1>17 DEF BlockId
  <2> QED BY <1>9, <1>14, <1>16, <2>1, <2>2
<1>19. NoTwoCopies(d)
  BY <1>1, <1>2, <1>5, <1>14 DEF NoTwoCopies
<1>20. UnusedSlotsLast(d)
  <2>1. \A s \in SlotId : d.slot[s].block # NoBlock
    BY <1>2, <1>5, <1>14, BlockFacts
  <2> QED BY <2>1 DEF UnusedSlotsLast
<1>21. \A s \in SlotId : Held(c, c.slot[s].block) = c.slot[s].data
  BY <1>1, <1>2, OnlyCopy
<1>22. \A s \in SlotId : ~c.slot[s].dirty =>
         c.slot[s].data = IF c.slot[s].block <= c.maxw
                          THEN c.file[c.slot[s].block] ELSE EmptyBlock
  BY <1>2 DEF CacheInv, CleanSlotsSpilled
<1>23. UnwrittenUpTo(d, last)
  <2>1. ASSUME NEW g \in d.maxw + 1 .. last
        PROVE  \E s \in SlotId : d.slot[s].block = g /\ d.slot[s].dirty
    <3>1. g \in Int /\ w.maxw < g /\ g \in c.maxw + 1 .. last
      BY <1>9, <1>14
    <3>2. PICK s \in SlotId : c.slot[s].block = g /\ c.slot[s].dirty
      BY <3>1 DEF CacheInv, UnwrittenUpTo
    <3>3. s # v
      BY <1>6, <1>9, <3>1, <3>2 DEF bv
    <3>4. c.slot[v].dirty => c.slot[s].block \notin Gap(c, bv)
      BY <1>4, <1>6, <1>9, <3>1, <3>2
    <3> QED BY <1>5, <1>7, <1>14, <3>2, <3>3, <3>4
  <2>2. \A s \in SlotId : d.slot[s].dirty => d.slot[s].block <= last
    BY <1>5, <1>7, <1>14 DEF CacheInv, UnwrittenUpTo
  <2> QED BY <1>9, <1>14, <2>1, <2>2 DEF UnwrittenUpTo
<1>24. \A s \in SlotId : s # v => c.slot[s].block # bv
  BY <1>1, <1>2 DEF bv, NoTwoCopies
<1>25. CleanSlotsSpilled(d)
  <2>1. SUFFICES ASSUME NEW s \in SlotId, ~d.slot[s].dirty, s # v
                 PROVE  d.slot[s].data = IF d.slot[s].block <= d.maxw
                                         THEN d.file[d.slot[s].block] ELSE EmptyBlock
    BY <1>14 DEF CleanSlotsSpilled
  <2> DEFINE g == c.slot[s].block
  <2>2. /\ g \in BlockId /\ g # bv
        /\ d.slot[s].block = g /\ d.slot[s].data = c.slot[s].data
        /\ ~w.slot[s].dirty
    BY <1>3, <1>5, <1>14, <1>24, <2>1
  <2>3. g \in Int
    BY <2>2 DEF BlockId
  <2>4. CASE g \in gone
    <3>1. g <= w.maxw
      BY <1>11, <2>2, <2>4
    <3>2. w.file[g] = c.slot[s].data
      BY <1>5, <1>21, <2>2, <2>4
    <3> QED BY <1>14, <2>2, <3>1, <3>2
  <2>5. CASE g \notin gone
    <3>1. ~c.slot[s].dirty
      BY <1>4, <1>7, <1>8, <2>2, <2>5
    <3>2. w.file[g] = c.file[g]
      BY <1>5, <2>2, <2>5
    <3>3. g <= w.maxw <=> g <= c.maxw
      BY <1>9, <1>10, <2>2, <2>3, <2>5
    <3> QED BY <1>14, <1>22, <2>2, <3>1, <3>2, <3>3
  <2> QED BY <2>4, <2>5
<1>26. CacheInv(d, last)
  BY <1>1, <1>15, <1>19, <1>20, <1>23, <1>25 DEF CacheInv
<1>27. ASSUME NEW g \in BlockId
       PROVE  Held(d, g) = Held(c, g)
  <2>1. g # NoBlock /\ g \in Int
    BY BlockFacts DEF BlockId
  <2>2. \A t \in SlotId : t # v => d.slot[t].block = c.slot[t].block
                              /\ d.slot[t].data = c.slot[t].data
    BY <1>5, <1>14
  <2>3. CASE g = b
    <3>1. Held(d, d.slot[v].block) = d.slot[v].data
      BY <1>14, <1>19, <2>1, <2>3, OnlyCopy
    <3> QED BY <1>14, <1>18, <2>3, <3>1
  <2>4. CASE g = bv
    <3>1. \A t \in SlotId : d.slot[t].block # g
      BY <1>2, <1>14, <1>24, <2>2, <2>4 DEF bv
    <3>2. Held(d, g) = IF g <= w.maxw THEN w.file[g] ELSE EmptyBlock
      BY <1>14, <3>1, NoCopy
    <3>3. Held(c, g) = c.slot[v].data
      BY <1>21, <2>4 DEF bv
    <3>4. CASE c.slot[v].dirty
      <4>1. g <= w.maxw /\ g \in gone
        BY <1>6, <1>8, <1>9, <2>4, <3>4
      <4> QED BY <1>5, <3>2, <4>1
    <3>5. CASE ~c.slot[v].dirty
      <4>1. w.maxw = c.maxw /\ w.file[g] = c.file[g]
        BY <1>5, <1>6, <1>8, <3>5
      <4> QED BY <1>22, <2>4, <3>2, <3>3, <3>5, <4>1 DEF bv
    <3> QED BY <3>4, <3>5
  <2>5. CASE g # b /\ \E t \in SlotId : t # v /\ c.slot[t].block = g
    <3>1. PICK t \in SlotId : t # v /\ c.slot[t].block = g
      BY <2>5
    <3>2. Held(d, d.slot[t].block) = d.slot[t].data
      BY <1>19, <2>1, <2>2, <3>1, OnlyCopy
    <3> QED BY <1>21, <2>2, <3>1, <3>2
  <2>6. CASE g # b /\ g # bv /\ ~\E t \in SlotId : t # v /\ c.slot[t].block = g
    <3>1. \A t \in SlotId : c.slot[t].block # g /\ d.slot[t].block # g
      BY <1>14, <2>2, <2>6 DEF bv
    <3>2. g \notin gone
      BY <1>12, <3>1
    <3>3. Held(d, g) = IF g <= w.maxw THEN w.file[g] ELSE EmptyBlock
      BY <1>14, <3>1, NoCopy
    <3>4. Held(c, g) = IF g <= c.maxw THEN c.file[g] ELSE EmptyBlock
      BY <3>1, NoCopy
    <3>5. w.file[g] = c.file[g] /\ (g <= w.maxw <=> g <= c.maxw)
      BY <1>5, <1>9, <1>10, <2>1, <3>2
    <3> QED BY <3>3, <3>4, <3>5
  <2> QED BY <2>3, <2>4, <2>5, <2>6
<1> QED BY <1>14, <1>26, <1>27 DEF d

(* What a call of CacheRecordBlock does: the block asked for is in the     *)
(* slot returned, and every block holds the records it held before.        *)
LEMMA CacheRecordBlockKeeps ==
  ASSUME NEW c, NEW last, CacheInv(c, last), NEW b \in BlockId
  PROVE  LET d == CacheRecordBlock(c, b)
             s == SlotOf(c, b)
         IN /\ CacheInv(d, last)
            /\ Recent(d)
            /\ s \in SlotId
            /\ d.slot[s].block = b
            /\ d.slot[s].data = Held(c, b)
            /\ \A g \in BlockId : Held(d, g) = Held(c, g)
<1> DEFINE t == Tick(c)
           d == CacheRecordBlock(c, b)
           s == SlotOf(c, b)
<1>1. CacheInv(t, last) /\ \A g \in BlockId : Held(t, g) = Held(c, g)
  BY TickKeeps
<1> HIDE DEF t
<1>2. /\ CacheInv(d, last)
      /\ s \in SlotId
      /\ d.slot[s].block = b
      /\ d.slot[s].last = d.cycle
      /\ \A g \in BlockId : Held(d, g) = Held(t, g)
  <2>1. CASE Hits(t, b) # {}
    <3>1. s = First(Hits(t, b)) /\ d = Claim(t, s, b)
      BY <2>1 DEF SlotOf, Chosen, CacheRecordBlock, t
    <3> HIDE DEF d, s
    <3> QED BY <1>1, <2>1, <3>1, ClaimKeeps
  <2>2. CASE Hits(t, b) = {}
    <3>1. s = Victim(t) /\ d = Replace(t, s, b)
      BY <2>2 DEF SlotOf, Chosen, CacheRecordBlock, t
    <3> HIDE DEF d, s
    <3>2. s \in SlotId
      BY <1>1, <3>1, VictimSlot DEF CacheInv
    <3> QED BY <1>1, <2>2, <3>1, <3>2, ReplaceKeeps
  <2> QED BY <2>1, <2>2
<1> HIDE DEF d, s
<1>3. d.slot[s].data = Held(d, b)
  <2>1. b # NoBlock
    BY BlockFacts
  <2>2. Held(d, d.slot[s].block) = d.slot[s].data
    BY <1>2, <2>1, OnlyCopy DEF CacheInv
  <2> QED BY <1>2, <2>2
<1> QED BY <1>1, <1>2, <1>3 DEF d, s, Recent

----------------------------------------------------------------------------
(* Changing a block in its slot *)

(* A block of the index, or the next one, may be changed in its slot as    *)
(* long as it is marked dirty: no other block notices.                     *)
LEMMA UpdateKeeps ==
  ASSUME NEW c, NEW last, CacheInv(c, last), NEW s \in SlotId,
         NEW b \in BlockId, c.slot[s].block = b,
         NEW now \in -1 .. MaxBlock, b <= now,
         now = last \/ (now = last + 1 /\ b = now),
         NEW x \in Block, NEW e \in BOOLEAN,
         c.slot[s].dirty => e, b > last => e, ~e => x = c.slot[s].data
  PROVE  LET d == Updated(c, s, x, e)
         IN /\ CacheInv(d, now)
            /\ Recent(c) => Recent(d)
            /\ Held(d, b) = x
            /\ \A g \in BlockId : g # b => Held(d, g) = Held(c, g)
<1> DEFINE d == Updated(c, s, x, e)
<1>1. /\ c \in Cache /\ NoTwoCopies(c) /\ UnusedSlotsLast(c)
      /\ CleanSlotsSpilled(c) /\ UnwrittenUpTo(c, last)
      /\ last \in Int /\ c.slot[s] \in Slot /\ c.slot \in [SlotId -> Slot]
  BY DEF CacheInv, Cache
<1>2. /\ d.slot = [c.slot EXCEPT ![s] = [block |-> c.slot[s].block, last |-> c.slot[s].last, dirty |-> e, data |-> x]]
      /\ d.maxw = c.maxw /\ d.file = c.file /\ d.cycle = c.cycle
  BY <1>1 DEF Updated, Cache
<1>3. [block |-> c.slot[s].block, last |-> c.slot[s].last, dirty |-> e, data |-> x] \in Slot
  BY <1>1 DEF Slot
<1>4. d \in Cache
  BY <1>1, <1>3 DEF Updated, Cache
<1>5. /\ d.slot[s].block = b /\ d.slot[s].data = x /\ d.slot[s].dirty = e
      /\ d.slot[s].last = c.slot[s].last
      /\ \A t \in SlotId : t # s => d.slot[t] = c.slot[t]
      /\ \A t \in SlotId : d.slot[t].block = c.slot[t].block /\ d.slot[t].last = c.slot[t].last
  <2>1. d.slot[s] = [block |-> c.slot[s].block, last |-> c.slot[s].last, dirty |-> e, data |-> x]
    BY <1>1, <1>2
  <2>2. \A t \in SlotId : t # s => d.slot[t] = c.slot[t]
    BY <1>1, <1>2
  <2> HIDE DEF d
  <2> QED BY <1>1, <2>1, <2>2 DEF Slot
<1> HIDE DEF d
<1>6. NoTwoCopies(d) /\ UnusedSlotsLast(d)
  BY <1>1, <1>2, <1>5 DEF NoTwoCopies, UnusedSlotsLast
<1>7. CleanSlotsSpilled(d)
  <2>1. ASSUME NEW t \in SlotId
        PROVE  ~d.slot[t].dirty => d.slot[t].data = c.slot[t].data /\ ~c.slot[t].dirty
    BY <1>5
  <2> QED BY <1>1, <1>2, <1>5, <2>1 DEF CleanSlotsSpilled
<1>8. UnwrittenUpTo(d, now)
  <2>1. c.maxw \in Int /\ c.maxw <= last /\ last <= now /\ now \in Int
    BY <1>1 DEF UnwrittenUpTo, Cache
  <2>2. ASSUME NEW g \in c.maxw + 1 .. now
        PROVE  \E t \in SlotId : d.slot[t].block = g /\ d.slot[t].dirty
    <3>1. CASE g <= last
      <4>1. g \in c.maxw + 1 .. last
        BY <1>1, <2>1, <3>1
      <4>2. PICK t \in SlotId : c.slot[t].block = g /\ c.slot[t].dirty
        BY <1>1, <4>1 DEF UnwrittenUpTo
      <4>3. d.slot[t].dirty
        BY <1>5, <4>2
      <4> QED BY <1>5, <4>2, <4>3
    <3>2. CASE g > last
      <4>1. g = b /\ b > last
        BY <1>1, <2>1, <3>2
      <4> QED BY <1>5, <4>1
    <3> QED BY <1>1, <2>1, <3>1, <3>2
  <2>3. ASSUME NEW t \in SlotId, d.slot[t].dirty
        PROVE  d.slot[t].block <= now
    <3>1. CASE t = s
      BY <1>5, <3>1, b <= now
    <3>2. CASE t # s
      <4>1. c.slot[t].dirty /\ c.slot[t].block <= last
        BY <1>1, <1>5, <2>3, <3>2 DEF UnwrittenUpTo
      <4>2. c.slot[t].block \in Int
        BY <1>1, BlockFacts, BlockAssumption DEF Slot, BlockId
      <4>3. d.slot[t].block = c.slot[t].block
        BY <1>5
      <4>4. last \in Int
        BY <1>1
      <4> QED BY ONLY <2>1, <4>1, <4>2, <4>3, <4>4
    <3> QED BY <3>1, <3>2
  <2>4. d.maxw = c.maxw /\ d.maxw <= now
    BY <1>1, <1>2, <2>1
  <2> QED BY <2>2, <2>3, <2>4 DEF UnwrittenUpTo
<1>9. CacheInv(d, now)
  BY <1>4, <1>6, <1>7, <1>8 DEF CacheInv
<1>10. Recent(c) => Recent(d)
  BY <1>2, <1>5 DEF Recent
<1>11. b # NoBlock
  BY BlockFacts
<1>12. Held(d, b) = x
  <2>1. Held(d, d.slot[s].block) = d.slot[s].data
    BY <1>5, <1>6, <1>11, OnlyCopy
  <2> QED BY <1>5, <2>1
<1>13. ASSUME NEW g \in BlockId, g # b
       PROVE  Held(d, g) = Held(c, g)
  <2>1. CASE \E t \in SlotId : c.slot[t].block = g
    <3>1. PICK t \in SlotId : c.slot[t].block = g
      BY <2>1
    <3>2. t # s /\ g # NoBlock
      BY <1>13, <3>1, BlockFacts
    <3>3. Held(c, c.slot[t].block) = c.slot[t].data
      BY <1>1, <3>1, <3>2, OnlyCopy
    <3>4. Held(d, d.slot[t].block) = d.slot[t].data
      BY <1>5, <1>6, <3>1, <3>2, OnlyCopy
    <3> QED BY <1>5, <3>1, <3>2, <3>3, <3>4
  <2>2. CASE \A t \in SlotId : c.slot[t].block # g
    <3>1. \A t \in SlotId : d.slot[t].block # g
      BY <1>5, <2>2
    <3>2. Held(c, g) = IF g <= c.maxw THEN c.file[g] ELSE EmptyBlock
      BY <2>2, NoCopy
    <3>3. Held(d, g) = IF g <= d.maxw THEN d.file[g] ELSE EmptyBlock
      BY <3>1, NoCopy
    <3> QED BY <1>2, <3>2, <3>3
  <2> QED BY <2>1, <2>2
<1> QED BY <1>9, <1>10, <1>12, <1>13 DEF d

(* AddRecord puts record r at place k of the block in slot s: a block of   *)
(* the index, or the next one.                                             *)
LEMMA AddRecordKeeps ==
  ASSUME NEW c, NEW last, CacheInv(c, last), Recent(c), NEW s \in SlotId,
         NEW b \in 0 .. MaxBlock, c.slot[s].block = b,
         b = last \/ b = last + 1,
         NEW k \in Index, NEW r \in Rec
  PROVE  LET d == AddRecord(c, s, k, r)
         IN /\ CacheInv(d, b)
            /\ Recent(d)
            /\ Held(d, b) = Extended(c.slot[s].data, k, r)
            /\ \A g \in BlockId : g # b => Held(d, g) = Held(c, g)
<1> DEFINE old == c.slot[s].data
           x == Extended(old, k, r)
           d == AddRecord(c, s, k, r)
<1>1. old \in Block
  BY DEF CacheInv, Cache, Slot
<1>2. x \in Block
  <2>1. old.cnt \in Nat /\ old.next \in Nat /\ old.recs \in [Index -> Rec]
    BY <1>1 DEF Block
  <2>2. Size[r] \in Nat
    BY RecAssumption
  <2> HIDE DEF old
  <2> QED BY <2>1, <2>2 DEF Block, Extended
<1>3. PICK e \in BOOLEAN : e /\ d = Updated(c, s, x, e)
  BY DEF AddRecord
<1>4. b \in BlockId
  BY BlockAssumption DEF BlockId
<1>5. (c.slot[s].dirty => e) /\ (b > last => e) /\ (~e => x = c.slot[s].data)
  BY <1>3
<1> HIDE DEF d, x, old
<1>6. ASSUME NEW now \in -1 .. MaxBlock, b <= now,
             now = last \/ (now = last + 1 /\ b = now)
      PROVE  /\ CacheInv(d, now)
             /\ Recent(c) => Recent(d)
             /\ Held(d, b) = x
             /\ \A g \in BlockId : g # b => Held(d, g) = Held(c, g)
  <2>1. d = Updated(c, s, x, e)
    BY <1>3
  <2> QED BY ONLY <1>2, <1>4, <1>5, <1>6, <2>1, UpdateKeeps,
                  CacheInv(c, last), s \in SlotId, c.slot[s].block = b, e \in BOOLEAN
<1>7. b \in -1 .. MaxBlock /\ b <= b
  BY BlockAssumption
<1> QED BY <1>6, <1>7 DEF d, x, old

(* PutRecord replaces the record at place k of a block of the index, and   *)
(* leaves the number of records as it was.                                 *)
LEMMA PutRecordKeeps ==
  ASSUME NEW c, NEW last, CacheInv(c, last), Recent(c), NEW s \in SlotId,
         NEW b \in 0 .. last, c.slot[s].block = b,
         NEW k \in Index, NEW r \in Rec
  PROVE  LET d == PutRecord(c, s, k, r)
         IN /\ CacheInv(d, last)
            /\ Recent(d)
            /\ Held(d, b) = WithRecord(c.slot[s].data, k, r)
            /\ \A g \in BlockId : g # b => Held(d, g) = Held(c, g)
<1> DEFINE old == c.slot[s].data
           x == WithRecord(old, k, r)
           e == c.slot[s].dirty \/ r # old.recs[k]
           d == PutRecord(c, s, k, r)
<1>1. old \in Block
  BY DEF CacheInv, Cache, Slot
<1>2. x \in Block /\ (r = old.recs[k] => x = old)
  <2> HIDE DEF old
  <2> QED BY <1>1 DEF Block, WithRecord
<1>3. e \in BOOLEAN
  OBVIOUS
<1>4. d = Updated(c, s, x, e)
  BY DEF PutRecord
<1>5. last \in -1 .. MaxBlock /\ b \in BlockId
  BY BlockAssumption DEF BlockId, CacheInv
<1>6. b <= last /\ ~(b > last)
  BY <1>5
<1>7. (c.slot[s].dirty => e) /\ (~e => x = old)
  BY <1>2
<1> HIDE DEF d, x, e
<1>8. /\ CacheInv(d, last)
      /\ Recent(c) => Recent(d)
      /\ Held(d, b) = x
      /\ \A g \in BlockId : g # b => Held(d, g) = Held(c, g)
  BY <1>2, <1>3, <1>4, <1>5, <1>6, <1>7, UpdateKeeps
<1> QED BY <1>8 DEF d, x

----------------------------------------------------------------------------
(* Handles and places *)

(* A handle that is no root has a block and a place in it. *)
LEMMA HandlePlace ==
  ASSUME NEW h \in Handle, h >= MaxFS
  PROVE  /\ BlockOf(h) \in BlockId
         /\ IndexOf(h) \in Index
         /\ h = FirstHandle(BlockOf(h)) + IndexOf(h)
<1> DEFINE x == h - MaxFS
           top == (MaxBlock + 1) * PerBlock
<1>1. PerBlock \in Nat \ {0} /\ MaxFS \in Nat /\ MaxBlock \in Nat /\ top \in Nat
  BY BlockAssumption
<1>2. x \in Nat /\ x <= top /\ h = MaxFS + x
  <2> HIDE DEF top
  <2>1. h \in 0 .. MaxFS + top
    BY DEF Handle, top
  <2> QED BY <1>1, <2>1
<1>3. top = (MaxBlock + 1) * PerBlock + 0 /\ 0 \in 0 .. PerBlock - 1 /\ MaxBlock + 1 \in Nat
  BY <1>1
<1> HIDE DEF x
<1>4. top \div PerBlock = MaxBlock + 1
  BY ONLY <1>1, <1>3, DivUnique
<1> HIDE DEF top
<1>5. x \div PerBlock <= top \div PerBlock
  BY ONLY <1>1, <1>2, DivMonotonic
<1>6. /\ x \div PerBlock \in Nat /\ x % PerBlock \in 0 .. PerBlock - 1
      /\ x = (x \div PerBlock) * PerBlock + (x % PerBlock)
  BY <1>1, <1>2, DivMod
<1>7. x \div PerBlock \in 0 .. MaxBlock + 1
  BY ONLY <1>1, <1>4, <1>5, <1>6
<1>8. BlockOf(h) = x \div PerBlock /\ IndexOf(h) = x % PerBlock
  BY DEF BlockOf, IndexOf, x
<1>9. FirstHandle(BlockOf(h)) = MaxFS + (x \div PerBlock) * PerBlock
  BY <1>8 DEF FirstHandle
<1>10. h = FirstHandle(BlockOf(h)) + IndexOf(h)
  <2>1. (x \div PerBlock) * PerBlock \in Nat
    BY <1>1, <1>6
  <2> QED BY <1>1, <1>2, <1>6, <1>8, <1>9, <2>1
<1> QED BY <1>6, <1>7, <1>8, <1>10 DEF BlockId, Index

(* Each place of a block is the place of one handle. *)
LEMMA PlaceHandle ==
  ASSUME NEW b \in Nat, NEW k \in Index
  PROVE  /\ FirstHandle(b) + k \in Nat
         /\ FirstHandle(b) + k >= MaxFS
         /\ BlockOf(FirstHandle(b) + k) = b
         /\ IndexOf(FirstHandle(b) + k) = k
<1>1. PerBlock \in Nat \ {0} /\ MaxFS \in Nat /\ k \in 0 .. PerBlock - 1 /\ b * PerBlock \in Nat
  BY BlockAssumption DEF Index
<1>2. b * PerBlock + k \in Nat
  BY <1>1
<1>3. (b * PerBlock + k) \div PerBlock = b /\ (b * PerBlock + k) % PerBlock = k
  BY ONLY <1>1, DivUnique, b \in Nat
<1>4. FirstHandle(b) + k = MaxFS + (b * PerBlock + k)
  BY <1>1 DEF FirstHandle
<1>5. (FirstHandle(b) + k) - MaxFS = b * PerBlock + k
  BY <1>1, <1>2, <1>4
<1>6. FirstHandle(b) + k \in Nat /\ FirstHandle(b) + k >= MaxFS
  BY <1>1, <1>2, <1>4
<1> QED BY <1>3, <1>5, <1>6 DEF BlockOf, IndexOf

(* The handle that follows one in a block the index may use. *)
LEMMA HandleAfter ==
  ASSUME NEW h \in Nat, h >= MaxFS, BlockOf(h) <= MaxBlock
  PROVE  h \in Handle /\ h + 1 \in Handle
<1> DEFINE x == h - MaxFS
           top == (MaxBlock + 1) * PerBlock
<1>1. PerBlock \in Nat \ {0} /\ MaxFS \in Nat /\ MaxBlock \in Nat /\ top \in Nat
  BY BlockAssumption
<1>2. x \in Nat /\ h = MaxFS + x
  BY <1>1
<1>3. x \div PerBlock <= MaxBlock
  BY DEF BlockOf
<1> HIDE DEF x
<1>4. x < top
  BY ONLY <1>1, <1>2, <1>3, DivBound
<1> HIDE DEF top
<1>5. h \in 0 .. MaxFS + top /\ h + 1 \in 0 .. MaxFS + top
  BY ONLY <1>1, <1>2, <1>4
<1> QED BY <1>5 DEF Handle, top

(* Counting on from a handle: its block, or the first place of the next. *)
LEMMA HandleBefore ==
  ASSUME NEW n \in Handle, n > MaxFS
  PROVE  /\ n - 1 \in Handle /\ n - 1 >= MaxFS
         /\ BlockOf(n - 1) \in 0 .. MaxBlock
         /\ IF IndexOf(n - 1) = PerBlock - 1
            THEN BlockOf(n) = BlockOf(n - 1) + 1 /\ IndexOf(n) = 0
            ELSE BlockOf(n) = BlockOf(n - 1) /\ IndexOf(n) = IndexOf(n - 1) + 1
<1> DEFINE x == (n - 1) - MaxFS
           top == (MaxBlock + 1) * PerBlock
<1>1. PerBlock \in Nat \ {0} /\ MaxFS \in Nat /\ MaxBlock \in Nat /\ top \in Nat
  BY BlockAssumption
<1>2. n \in 0 .. MaxFS + top
  BY DEF Handle
<1> HIDE DEF top
<1>3. /\ x \in Nat /\ x < top /\ n - MaxFS = x + 1 /\ n - 1 >= MaxFS
      /\ n - 1 \in 0 .. MaxFS + top
  BY <1>1, <1>2
<1> HIDE DEF x
<1>4. x \div PerBlock <= MaxBlock
  BY ONLY <1>1, <1>3, DivBelow DEF top
<1>5. x \div PerBlock \in Nat
  BY <1>1, <1>3, DivMod
<1>6. BlockOf(n - 1) = x \div PerBlock /\ IndexOf(n - 1) = x % PerBlock
  BY DEF BlockOf, IndexOf, x
<1>7. BlockOf(n) = (x + 1) \div PerBlock /\ IndexOf(n) = (x + 1) % PerBlock
  BY <1>3 DEF BlockOf, IndexOf
<1>8. IF x % PerBlock = PerBlock - 1
      THEN (x + 1) \div PerBlock = x \div PerBlock + 1 /\ (x + 1) % PerBlock = 0
      ELSE (x + 1) \div PerBlock = x \div PerBlock /\ (x + 1) % PerBlock = (x % PerBlock) + 1
  BY ONLY <1>1, <1>3, DivNext
<1>9. x \div PerBlock \in 0 .. MaxBlock
  BY <1>1, <1>4, <1>5
<1> QED BY <1>3, <1>6, <1>7, <1>8, <1>9 DEF Handle, top

----------------------------------------------------------------------------
(* The inductive invariant *)

IndexInv ==
  /\ TypeOK
  /\ generated => opened /\ entries >= MaxFS
  /\ ~generated => entries = 0
  /\ Recent(cache)
  /\ opened => CacheInv(cache, LastBlock) /\ CountsUpTo(cache, entries, LastBlock)

(* OpenIndex leaves an empty index whose blocks are all empty. *)
LEMMA FreshCacheKeeps ==
  /\ CacheInv(FreshCache, -1)
  /\ Recent(FreshCache)
  /\ \A n : CountsUpTo(FreshCache, n, -1)
<1> DEFINE c == FreshCache
<1>1. /\ c.slot = [s \in SlotId |-> [block |-> IF s = 0 THEN 0 ELSE NoBlock, last |-> 0,
                                     dirty |-> FALSE, data |-> EmptyBlock]]
      /\ c.cycle = 0 /\ c.maxw = -1 /\ c.file = OldFile
  BY DEF FreshCache
<1>2. 0 \in BlockId /\ 0 \in 0 .. CycleMod - 1 /\ -1 \in -1 .. MaxBlock
      /\ -1 \in -1 .. MaxBlock + 1 /\ 0 \in SlotId /\ 0 # NoBlock
  BY BlockAssumption, CycleAssumption, SlotsAssumption DEF BlockId, SlotId
<1>3. c \in Cache
  <2>1. OldFile \in [BlockId -> Block]
    BY BlockFacts DEF OldFile
  <2>2. \A s \in SlotId : [block |-> IF s = 0 THEN 0 ELSE NoBlock, last |-> 0,
                           dirty |-> FALSE, data |-> EmptyBlock] \in Slot
    BY <1>2, BlockFacts DEF Slot
  <2> QED BY <1>2, <2>1, <2>2 DEF FreshCache, Cache
<1> HIDE DEF c
<1>4. \A s \in SlotId : /\ c.slot[s].block = IF s = 0 THEN 0 ELSE NoBlock
                        /\ c.slot[s].last = 0
                        /\ ~c.slot[s].dirty
                        /\ c.slot[s].data = EmptyBlock
  BY <1>1
<1>5. NoTwoCopies(c)
  BY <1>4 DEF NoTwoCopies
<1>6. UnusedSlotsLast(c)
  <2>1. ASSUME NEW s \in SlotId, NEW t \in SlotId, s < t PROVE t # 0
    BY <2>1 DEF SlotId
  <2> QED BY <1>1, <1>2, <1>4, <2>1 DEF UnusedSlotsLast
<1>7. CleanSlotsSpilled(c)
  <2>1. \A s \in SlotId : c.slot[s].block # NoBlock => ~(c.slot[s].block <= c.maxw)
    BY <1>1, <1>4
  <2> QED BY <1>4, <2>1 DEF CleanSlotsSpilled
<1>8. UnwrittenUpTo(c, -1)
  BY <1>1, <1>4 DEF UnwrittenUpTo
<1>9. CacheInv(c, -1) /\ Recent(c)
  BY <1>1, <1>2, <1>3, <1>4, <1>5, <1>6, <1>7, <1>8 DEF CacheInv, Recent
<1>10. ASSUME NEW b \in BlockId PROVE Held(c, b) = EmptyBlock
  <2>1. b # NoBlock /\ b \in Nat
    BY BlockFacts
  <2>2. CASE b = 0
    <3>1. Held(c, c.slot[0].block) = c.slot[0].data
      BY <1>2, <1>4, <1>5, OnlyCopy
    <3> QED BY <1>2, <1>4, <2>2, <3>1
  <2>3. CASE b # 0
    <3>1. \A s \in SlotId : c.slot[s].block # b
      BY <1>4, <2>1, <2>3
    <3>2. Held(c, b) = IF b <= c.maxw THEN c.file[b] ELSE EmptyBlock
      BY <3>1, NoCopy
    <3> QED BY <1>1, <2>1, <3>2
  <2> QED BY <2>2, <2>3
<1> QED BY <1>9, <1>10 DEF CountsUpTo, c

(* The next handle is the place after the last record of its block. *)
LEMMA NextPlace ==
  ASSUME NEW c, NEW n \in Handle, n >= MaxFS, CountsUpTo(c, n, LastOf(n))
  PROVE  /\ LastOf(n) \in -1 .. MaxBlock
         /\ BlockOf(n) \in BlockId
         /\ IndexOf(n) \in Index
         /\ Held(c, BlockOf(n)).cnt = IndexOf(n)
         /\ \/ BlockOf(n) = LastOf(n)
            \/ BlockOf(n) = LastOf(n) + 1 /\ IndexOf(n) = 0
                 /\ Held(c, BlockOf(n)) = EmptyBlock
<1>1. PerBlock \in Nat \ {0} /\ MaxFS \in Nat /\ MaxBlock \in Nat /\ n \in Int
  BY BlockAssumption DEF Handle
<1>2. BlockOf(n) \in BlockId /\ IndexOf(n) \in Index
  BY HandlePlace
<1>3. CASE n = MaxFS
  <2>1. LastOf(n) = -1
    BY <1>1, <1>3 DEF LastOf
  <2>2. MaxFS = FirstHandle(0) + 0 /\ 0 \in Index
    BY <1>1 DEF FirstHandle, Index
  <2>3. BlockOf(n) = 0 /\ IndexOf(n) = 0
    BY <1>3, <2>2, PlaceHandle
  <2>4. Held(c, BlockOf(n)) = EmptyBlock
    BY <1>2, <2>1, <2>3 DEF CountsUpTo
  <2> QED BY <1>1, <1>2, <2>1, <2>3, <2>4 DEF EmptyBlock
<1>4. CASE n > MaxFS
  <2> DEFINE l == LastOf(n)
  <2>1. l = BlockOf(n - 1) /\ l \in 0 .. MaxBlock
    BY <1>1, <1>4, HandleBefore DEF LastOf
  <2>2. Held(c, l).cnt = IndexOf(n - 1) + 1
    BY <2>1 DEF CountsUpTo
  <2>3. \A b \in BlockId : b > l => Held(c, b) = EmptyBlock
    BY DEF CountsUpTo
  <2> HIDE DEF l
  <2>4. l + 1 \in BlockId /\ l + 1 > l /\ l \in -1 .. MaxBlock
    BY <1>1, <2>1 DEF BlockId
  <2>5. CASE IndexOf(n - 1) = PerBlock - 1
    <3>1. BlockOf(n) = l + 1 /\ IndexOf(n) = 0
      BY <1>4, <2>1, <2>5, HandleBefore
    <3>2. Held(c, BlockOf(n)) = EmptyBlock
      BY <2>3, <2>4, <3>1
    <3> QED BY <1>2, <2>4, <3>1, <3>2 DEF EmptyBlock, l
  <2>6. CASE IndexOf(n - 1) # PerBlock - 1
    <3>1. BlockOf(n) = l /\ IndexOf(n) = IndexOf(n - 1) + 1
      BY <1>4, <2>1, <2>6, HandleBefore
    <3> QED BY <1>2, <2>2, <2>4, <3>1 DEF l
  <2> QED BY <2>5, <2>6
<1> QED BY <1>1, <1>3, <1>4

(* Appending puts the record after the last one of its block, under a      *)
(* handle not below index_entries_, and leaves every other block alone.    *)
LEMMA AppendEffect ==
  ASSUME IndexInv, NEW r \in Rec, AppendIndexRecord(r)
  PROVE  \E h \in Handle :
           /\ h >= MaxFS /\ h >= entries /\ entries' = h + 1 /\ h + 1 \in Handle
           /\ BlockOf(h) \in 0 .. MaxBlock /\ IndexOf(h) \in Index
           /\ BlockOf(h) = LastBlock \/ BlockOf(h) = LastBlock + 1
           /\ Held(cache, BlockOf(h)).cnt = IndexOf(h)
           /\ CacheInv(cache', BlockOf(h))
           /\ Recent(cache')
           /\ Held(cache', BlockOf(h)) = Extended(Held(cache, BlockOf(h)), IndexOf(h), r)
           /\ \A g \in BlockId : g # BlockOf(h) => Held(cache', g) = Held(cache, g)
           /\ h = entries \/ (BlockOf(entries) = LastBlock /\ h = FirstHandle(LastBlock + 1))
<1> DEFINE n == entries
           last == LastBlock
           b0 == BlockOf(n)
           c1 == CacheRecordBlock(cache, b0)
           s1 == SlotOf(cache, b0)
           fits == c1.slot[s1].data.next + Size[r] + Fudge <= Capacity
           h == IF fits THEN n ELSE FirstHandle(b0 + 1)
<1>1. /\ n \in Handle /\ n >= MaxFS /\ n \in Nat /\ MaxFS \in Nat
      /\ CacheInv(cache, last) /\ CountsUpTo(cache, n, last)
  BY BlockAssumption DEF AppendIndexRecord, IndexInv, TypeOK, Handle
<1>2. last = LastOf(n)
  BY DEF LastBlock
<1>3. /\ BlockOf(h) <= MaxBlock
      /\ cache' = IF fits THEN AddRecord(c1, s1, IndexOf(h), r)
                  ELSE AddRecord(CacheRecordBlock(c1, b0 + 1), SlotOf(c1, b0 + 1), 0, r)
      /\ entries' = h + 1
  BY DEF AppendIndexRecord
<1> HIDE DEF last
<1>4. /\ last \in -1 .. MaxBlock
      /\ b0 \in BlockId /\ IndexOf(n) \in Index
      /\ Held(cache, b0).cnt = IndexOf(n)
      /\ b0 = last \/ (b0 = last + 1 /\ IndexOf(n) = 0 /\ Held(cache, b0) = EmptyBlock)
  BY <1>1, <1>2, NextPlace
<1>5. /\ CacheInv(c1, last) /\ Recent(c1) /\ s1 \in SlotId
      /\ c1.slot[s1].block = b0 /\ c1.slot[s1].data = Held(cache, b0)
      /\ \A g \in BlockId : Held(c1, g) = Held(cache, g)
  BY <1>1, <1>4, CacheRecordBlockKeeps
<1> HIDE DEF n, b0, c1, s1
<1>6. CASE fits
  <2>1. h = n /\ cache' = AddRecord(c1, s1, IndexOf(n), r) /\ entries' = n + 1
    BY <1>3, <1>6
  <2>2. b0 \in 0 .. MaxBlock
    BY <1>3, <1>4, <1>6, <2>1 DEF BlockId, b0
  <2>3. b0 = last \/ b0 = last + 1
    BY <1>4
  <2>4. /\ CacheInv(cache', b0)
        /\ Recent(cache')
        /\ Held(cache', b0) = Extended(Held(cache, b0), IndexOf(n), r)
        /\ \A g \in BlockId : g # b0 => Held(cache', g) = Held(c1, g)
    BY <1>4, <1>5, <2>1, <2>2, <2>3, AddRecordKeeps
  <2>5. \A g \in BlockId : g # b0 => Held(cache', g) = Held(cache, g)
    BY <1>5, <2>4
  <2>6. n + 1 \in Handle /\ n >= n
    BY <1>1, <2>2, HandleAfter DEF b0
  <2> QED BY <1>1, <1>4, <2>1, <2>2, <2>3, <2>4, <2>5, <2>6 DEF n, b0, last
<1>7. CASE ~fits
  <2> DEFINE b == b0 + 1
             c2 == CacheRecordBlock(c1, b)
             s2 == SlotOf(c1, b)
             h2 == FirstHandle(b)
  <2>1. h = h2 /\ cache' = AddRecord(c2, s2, 0, r) /\ entries' = h2 + 1
    BY <1>3, <1>7
  <2>2. b0 = last
    <3>1. Held(cache, b0) # EmptyBlock
      <4>1. SUFFICES ASSUME Held(cache, b0) = EmptyBlock PROVE fits
        BY <1>7
      <4>2. c1.slot[s1].data.next = 0
        BY <1>5, <4>1 DEF EmptyBlock
      <4>3. Size[r] \in Nat /\ Fudge \in Nat /\ Capacity \in Nat /\ Size[r] + Fudge <= Capacity
        BY RecAssumption
      <4> QED BY <4>2, <4>3
    <3> QED BY <1>4, <3>1
  <2>3. b0 \in Nat /\ b \in Nat /\ 0 \in Index
    BY <1>4, BlockAssumption DEF BlockId, Index
  <2>4. /\ h2 \in Nat /\ h2 >= MaxFS /\ BlockOf(h2) = b /\ IndexOf(h2) = 0
    <3> HIDE DEF b
    <3>1. /\ FirstHandle(b) + 0 \in Nat /\ FirstHandle(b) + 0 >= MaxFS
          /\ BlockOf(FirstHandle(b) + 0) = b /\ IndexOf(FirstHandle(b) + 0) = 0
      BY <2>3, PlaceHandle
    <3>2. FirstHandle(b) + 0 = FirstHandle(b)
      BY <2>3, BlockAssumption DEF FirstHandle
    <3> QED BY <3>1, <3>2
  <2>5. b \in 0 .. MaxBlock /\ b \in BlockId
    BY <1>3, <2>1, <2>3, <2>4, BlockAssumption DEF BlockId
  <2>6. h2 >= n
    <3>1. n = FirstHandle(b0) + IndexOf(n)
      BY <1>1, HandlePlace DEF b0
    <3>2. IndexOf(n) \in 0 .. PerBlock - 1 /\ PerBlock \in Nat
      BY <1>4, BlockAssumption DEF Index
    <3>3. b * PerBlock = b0 * PerBlock + PerBlock /\ b0 * PerBlock \in Nat
      BY <2>3, <3>2
    <3> HIDE DEF b, b0
    <3> QED BY <1>1, <3>1, <3>2, <3>3 DEF FirstHandle
  <2>7. h2 \in Handle /\ h2 + 1 \in Handle
    BY <2>4, <2>5, HandleAfter
  <2>8. b = last + 1
    BY <2>2
  <2>9. Held(cache, b) = EmptyBlock /\ Held(cache, b).cnt = 0
    <3>1. b > last
      BY <2>2, <2>3
    <3> QED BY <1>1, <2>5, <3>1 DEF CountsUpTo, EmptyBlock
  <2> HIDE DEF b, h2
  <2>10. /\ CacheInv(c2, last) /\ Recent(c2) /\ s2 \in SlotId
         /\ c2.slot[s2].block = b /\ c2.slot[s2].data = Held(c1, b)
         /\ \A g \in BlockId : Held(c2, g) = Held(c1, g)
    BY <1>5, <2>5, CacheRecordBlockKeeps
  <2> HIDE DEF c2, s2
  <2>11. /\ CacheInv(cache', b)
         /\ Recent(cache')
         /\ Held(cache', b) = Extended(c2.slot[s2].data, 0, r)
         /\ \A g \in BlockId : g # b => Held(cache', g) = Held(c2, g)
    BY <2>1, <2>3, <2>5, <2>8, <2>10, AddRecordKeeps
  <2>12. \A g \in BlockId : g # b => Held(cache', g) = Held(cache, g)
    BY <1>5, <2>10, <2>11
  <2>13. Held(cache', b) = Extended(Held(cache, b), 0, r)
    BY <1>5, <2>5, <2>10, <2>11
  <2>14. BlockOf(n) = last /\ h2 = FirstHandle(last + 1)
    BY <2>2, <2>8 DEF b0, h2
  <2> QED BY <2>1, <2>3, <2>4, <2>5, <2>6, <2>7, <2>8, <2>9, <2>11, <2>12, <2>13, <2>14
          DEF n, last
<1> QED BY <1>6, <1>7

(* Opening the index, or finding it open, gives a cache that agrees with   *)
(* index_entries_.                                                         *)
LEMMA OpenIndexKeeps ==
  ASSUME IndexInv
  PROVE  /\ CacheInv(OpenIndex, LastBlock)
         /\ Recent(OpenIndex)
         /\ CountsUpTo(OpenIndex, entries, LastBlock)
<1>1. CASE opened
  BY <1>1 DEF IndexInv, OpenIndex
<1>2. CASE ~opened
  <2>1. entries = 0
    BY <1>2 DEF IndexInv
  <2>2. LastBlock = -1
    BY <2>1, BlockAssumption DEF LastBlock, LastOf
  <2> QED BY <1>2, <2>2, FreshCacheKeeps DEF OpenIndex
<1> QED BY <1>1, <1>2

(* A handle that was issued and is no root is in a block of the index.     *)
LEMMA IssuedPlace ==
  ASSUME IndexInv, NEW h \in Handle, h >= MaxFS, Issued(h)
  PROVE  /\ opened
         /\ BlockOf(h) \in 0 .. LastBlock
         /\ IndexOf(h) \in Index
         /\ IndexOf(h) < Held(cache, BlockOf(h)).cnt
<1>1. BlockOf(h) \in BlockId /\ IndexOf(h) \in Index /\ IndexOf(h) \in Nat
  BY HandlePlace DEF Index
<1>2. IndexOf(h) < Held(cache, BlockOf(h)).cnt /\ h < entries
  BY DEF Issued
<1>3. entries # 0
  BY <1>2, BlockAssumption DEF Handle
<1>4. opened /\ CountsUpTo(cache, entries, LastBlock) /\ CacheInv(cache, LastBlock)
  BY <1>3 DEF IndexInv
<1>5. ~(BlockOf(h) > LastBlock)
  <2>1. Held(cache, BlockOf(h)) # EmptyBlock
    BY <1>1, <1>2 DEF EmptyBlock
  <2> QED BY <1>1, <1>4, <2>1 DEF CountsUpTo
<1>6. BlockOf(h) \in 0 .. LastBlock
  <2>1. BlockOf(h) \in Nat /\ LastBlock \in Int
    BY <1>1, <1>4, BlockAssumption DEF BlockId, CacheInv
  <2> QED BY <1>5, <2>1
<1> QED BY <1>1, <1>2, <1>4, <1>6

(* Writing a record that is no root changes one place of one block.        *)
LEMMA WriteEffect ==
  ASSUME IndexInv, NEW h \in Handle, NEW r \in Rec,
         h >= MaxFS, WriteIndexRecord(h, r)
  PROVE  /\ Issued(h) /\ opened
         /\ BlockOf(h) \in 0 .. LastBlock /\ IndexOf(h) \in Index
         /\ CacheInv(cache', LastBlock)
         /\ Recent(cache')
         /\ Held(cache', BlockOf(h)) = WithRecord(Held(cache, BlockOf(h)), IndexOf(h), r)
         /\ \A g \in BlockId : g # BlockOf(h) => Held(cache', g) = Held(cache, g)
         /\ UNCHANGED <<opened, generated, entries, root, answer>>
<1> DEFINE b == BlockOf(h)
           last == LastBlock
           c1 == CacheRecordBlock(cache, b)
           s == SlotOf(cache, b)
<1>1. ~(h < MaxFS)
  BY BlockAssumption DEF Handle
<1>2. /\ Issued(h) /\ cache' = PutRecord(c1, s, IndexOf(h), r)
      /\ UNCHANGED <<opened, generated, entries, root, answer>>
  BY <1>1 DEF WriteIndexRecord
<1>3. opened /\ b \in 0 .. last /\ IndexOf(h) \in Index
  BY <1>2, IssuedPlace
<1>4. b \in BlockId
  BY HandlePlace
<1>5. CacheInv(cache, last)
  BY <1>3 DEF IndexInv
<1> HIDE DEF b, last
<1>6. /\ CacheInv(c1, last) /\ Recent(c1) /\ s \in SlotId
      /\ c1.slot[s].block = b /\ c1.slot[s].data = Held(cache, b)
      /\ \A g \in BlockId : Held(c1, g) = Held(cache, g)
  BY <1>4, <1>5, CacheRecordBlockKeeps
<1> HIDE DEF c1, s
<1>7. /\ CacheInv(cache', last)
      /\ Recent(cache')
      /\ Held(cache', b) = WithRecord(c1.slot[s].data, IndexOf(h), r)
      /\ \A g \in BlockId : g # b => Held(cache', g) = Held(c1, g)
  BY <1>2, <1>3, <1>6, PutRecordKeeps
<1>8. /\ Held(cache', b) = WithRecord(Held(cache, b), IndexOf(h), r)
      /\ \A g \in BlockId : g # b => Held(cache', g) = Held(cache, g)
  BY <1>6, <1>7
<1> QED BY <1>2, <1>3, <1>7, <1>8 DEF b, last

(* Reading a record opens the index if need be, changes what no block      *)
(* holds, and answers with a root, a record of a block, or zero.           *)
LEMMA ReadEffect ==
  ASSUME IndexInv, NEW h \in Handle, ReadIndexRecord(h)
  PROVE  /\ UNCHANGED <<generated, entries, root>>
         /\ Recent(cache')
         /\ opened => opened'
         /\ opened' => CacheInv(cache', LastBlock) /\ CountsUpTo(cache', entries, LastBlock)
         /\ cache' \in Cache
         /\ opened => \A g \in BlockId : Held(cache', g) = Held(cache, g)
         /\ answer' =
              [h |-> h,
               r |-> IF h > entries THEN Zero
                     ELSE IF h < MaxFS THEN root[h]
                     ELSE IF IndexOf(h) < Held(OpenIndex, BlockOf(h)).cnt
                     THEN Held(OpenIndex, BlockOf(h)).recs[IndexOf(h)]
                     ELSE Zero]
         /\ opened' \in BOOLEAN
         /\ h <= entries => opened'
<1> DEFINE last == LastBlock
           c0 == OpenIndex
           b == BlockOf(h)
           c1 == CacheRecordBlock(c0, b)
           s == SlotOf(c0, b)
<1>1. UNCHANGED <<generated, entries, root>>
  BY DEF ReadIndexRecord
<1>2. CacheInv(c0, last) /\ Recent(c0) /\ CountsUpTo(c0, entries, last)
  BY OpenIndexKeeps
<1>3. opened => c0 = cache
  BY DEF OpenIndex
<1>4. cache \in Cache /\ opened \in BOOLEAN /\ entries \in Int /\ h \in Int /\ MaxFS \in Int
  BY BlockAssumption DEF IndexInv, TypeOK, Handle
<1>5. CASE h > entries
  <2>1. UNCHANGED <<opened, cache>> /\ answer' = [h |-> h, r |-> Zero]
    BY <1>5 DEF ReadIndexRecord
  <2>2. Recent(cache) /\ (opened => CacheInv(cache, last) /\ CountsUpTo(cache, entries, last))
    BY DEF IndexInv
  <2> HIDE DEF c0
  <2> QED BY <1>1, <1>4, <1>5, <2>1, <2>2
<1>6. CASE ~(h > entries) /\ h < MaxFS
  <2>1. opened' /\ cache' = c0 /\ answer' = [h |-> h, r |-> root[h]]
    BY <1>6 DEF ReadIndexRecord
  <2>2. opened' = TRUE
    BY <1>6 DEF ReadIndexRecord
  <2> HIDE DEF c0, last
  <2> QED BY <1>1, <1>2, <1>3, <1>6, <2>1, <2>2 DEF last, CacheInv
<1>7. CASE ~(h > entries) /\ ~(h < MaxFS)
  <2>1. b \in BlockId /\ h >= MaxFS
    BY <1>4, <1>7, HandlePlace
  <2>2. /\ opened' = TRUE /\ cache' = c1
        /\ answer' = [h |-> h, r |-> IF IndexOf(h) < c1.slot[s].data.cnt
                                     THEN c1.slot[s].data.recs[IndexOf(h)] ELSE Zero]
    BY <1>7 DEF ReadIndexRecord
  <2> HIDE DEF c0, last, b
  <2>3. /\ CacheInv(c1, last) /\ Recent(c1)
        /\ c1.slot[s].data = Held(c0, b)
        /\ \A g \in BlockId : Held(c1, g) = Held(c0, g)
    BY <1>2, <2>1, CacheRecordBlockKeeps
  <2> HIDE DEF c1, s
  <2>4. CountsUpTo(c1, entries, last)
    <3>1. last \in -1 .. MaxBlock
      BY <1>2 DEF CacheInv
    <3>2. (0 .. last) \subseteq BlockId /\ (last >= 0 => last \in BlockId)
      BY <3>1, BlockAssumption DEF BlockId
    <3> QED BY <1>2, <2>3, <3>2 DEF CountsUpTo
  <2>5. answer' = [h |-> h, r |-> IF IndexOf(h) < Held(c0, b).cnt
                                  THEN Held(c0, b).recs[IndexOf(h)] ELSE Zero]
    BY <2>2, <2>3
  <2>6. \A g \in BlockId : opened => Held(cache', g) = Held(cache, g)
    BY <1>3, <2>2, <2>3
  <2>7. c1 \in Cache
    BY <2>3 DEF CacheInv
  <2> QED BY <1>1, <1>7, <2>2, <2>3, <2>4, <2>5, <2>6, <2>7 DEF c0, last, b
<1> QED BY <1>5, <1>6, <1>7

----------------------------------------------------------------------------
(* The theorems *)

(* IndexInv holds when the device is switched on. *)
LEMMA InvInit ==
  ASSUME Init
  PROVE  IndexInv
<1>1. 0 \in Handle /\ 0 \in RootHandle /\ 0 \in Int
  BY BlockAssumption DEF Handle, RootHandle
<1>2. FreshCache \in Cache /\ Recent(FreshCache)
  BY FreshCacheKeeps DEF CacheInv
<1> QED BY <1>1, <1>2, RecAssumption DEF Init, IndexInv, TypeOK

(* Appending a record keeps IndexInv. *)
LEMMA InvAppend ==
  ASSUME IndexInv, NEW r \in Rec, AppendIndexRecord(r)
  PROVE  IndexInv'
<1>1. PICK h \in Handle :
        /\ h >= MaxFS /\ h >= entries /\ entries' = h + 1 /\ h + 1 \in Handle
        /\ BlockOf(h) \in 0 .. MaxBlock /\ IndexOf(h) \in Index
        /\ BlockOf(h) = LastBlock \/ BlockOf(h) = LastBlock + 1
        /\ Held(cache, BlockOf(h)).cnt = IndexOf(h)
        /\ CacheInv(cache', BlockOf(h))
        /\ Recent(cache')
        /\ Held(cache', BlockOf(h)) = Extended(Held(cache, BlockOf(h)), IndexOf(h), r)
        /\ \A g \in BlockId : g # BlockOf(h) => Held(cache', g) = Held(cache, g)
  BY AppendEffect
<1>2. UNCHANGED <<opened, generated, root, answer>> /\ generated
  BY DEF AppendIndexRecord
<1>3. opened /\ CountsUpTo(cache, entries, LastBlock) /\ CacheInv(cache, LastBlock)
  BY <1>2 DEF IndexInv
<1> DEFINE b == BlockOf(h)
<1>4. entries' - 1 = h /\ ~(entries' <= MaxFS) /\ entries' >= MaxFS
  BY <1>1, BlockAssumption DEF Handle
<1>5. LastBlock' = b
  BY <1>4 DEF LastBlock, LastOf
<1> HIDE DEF b
<1>6. CountsUpTo(cache', entries', b)
  <2>1. b \in Nat /\ b \in BlockId /\ LastBlock \in Int /\ PerBlock \in Nat
    BY <1>1, <1>3, BlockAssumption DEF BlockId, CacheInv, b
  <2>2. Held(cache', b).cnt = IndexOf(h) + 1
    BY <1>1 DEF Extended, b
  <2>3. IndexOf(h) + 1 \in 1 .. PerBlock
    BY <1>1, <2>1 DEF Index
  <2>4. ASSUME NEW g \in BlockId, g > b
        PROVE  Held(cache', g) = EmptyBlock
    <3>1. g # b /\ g > LastBlock /\ g \in Int
      BY <1>1, <2>1, <2>4 DEF BlockId, b
    <3> QED BY <1>1, <1>3, <3>1 DEF CountsUpTo, b
  <2>5. ASSUME NEW g \in 0 .. b, g # b
        PROVE  Held(cache', g).cnt \in 1 .. PerBlock
    <3>1. g \in 0 .. LastBlock /\ g \in BlockId
      BY <1>1, <2>1, <2>5, BlockAssumption DEF BlockId, b
    <3> QED BY <1>1, <1>3, <2>5, <3>1 DEF CountsUpTo, b
  <2> QED BY <1>4, <2>2, <2>3, <2>4, <2>5 DEF CountsUpTo
<1>7. cache' \in Cache
  BY <1>1 DEF CacheInv
<1>8. TypeOK'
  BY <1>1, <1>2, <1>7 DEF TypeOK, IndexInv
<1> QED BY <1>1, <1>2, <1>3, <1>4, <1>5, <1>6, <1>8 DEF IndexInv, b

(* Writing a record keeps IndexInv. *)
LEMMA InvWrite ==
  ASSUME IndexInv, NEW h \in Handle, NEW r \in Rec, WriteIndexRecord(h, r)
  PROVE  IndexInv'
<1>1. h \in Int /\ MaxFS \in Int /\ h >= 0
  BY BlockAssumption DEF Handle
<1>2. CASE h < MaxFS
  <2>1. /\ root' = [root EXCEPT ![h] = r] /\ r \in RootRec
        /\ UNCHANGED <<cache, opened, generated, entries, answer>>
    BY <1>2 DEF WriteIndexRecord
  <2>2. TypeOK'
    BY <2>1 DEF IndexInv, TypeOK
  <2>3. LastBlock' = LastBlock
    BY <2>1 DEF LastBlock
  <2> QED BY <2>1, <2>2, <2>3 DEF IndexInv
<1>3. CASE ~(h < MaxFS)
  <2>1. /\ Issued(h) /\ opened
        /\ BlockOf(h) \in 0 .. LastBlock /\ IndexOf(h) \in Index
        /\ CacheInv(cache', LastBlock)
        /\ Recent(cache')
        /\ Held(cache', BlockOf(h)) = WithRecord(Held(cache, BlockOf(h)), IndexOf(h), r)
        /\ \A g \in BlockId : g # BlockOf(h) => Held(cache', g) = Held(cache, g)
        /\ UNCHANGED <<opened, generated, entries, root, answer>>
    BY <1>1, <1>3, WriteEffect
  <2>2. LastBlock' = LastBlock
    BY <2>1 DEF LastBlock
  <2>3. TypeOK'
    BY <2>1 DEF IndexInv, TypeOK, CacheInv
  <2>4. CountsUpTo(cache, entries, LastBlock) /\ LastBlock \in -1 .. MaxBlock
    BY <2>1 DEF IndexInv, CacheInv
  <2>5. ASSUME NEW g \in BlockId
        PROVE  /\ Held(cache', g).cnt = Held(cache, g).cnt
               /\ g > LastBlock => Held(cache', g) = Held(cache, g)
    <3>1. CASE g = BlockOf(h)
      BY <2>1, <2>4, <3>1 DEF WithRecord
    <3>2. CASE g # BlockOf(h)
      BY <2>1, <3>2
    <3> QED BY <3>1, <3>2
  <2>6. (0 .. LastBlock) \subseteq BlockId /\ (LastBlock >= 0 => LastBlock \in BlockId)
    BY <2>4, BlockAssumption DEF BlockId
  <2>7. CountsUpTo(cache', entries, LastBlock)
    BY <2>4, <2>5, <2>6 DEF CountsUpTo
  <2> QED BY <2>1, <2>2, <2>3, <2>7 DEF IndexInv
<1> QED BY <1>2, <1>3

(* Reading a record keeps IndexInv. *)
LEMMA InvRead ==
  ASSUME IndexInv, NEW h \in Handle, ReadIndexRecord(h)
  PROVE  IndexInv'
<1> DEFINE r == IF h > entries THEN Zero
                ELSE IF h < MaxFS THEN root[h]
                ELSE IF IndexOf(h) < Held(OpenIndex, BlockOf(h)).cnt
                THEN Held(OpenIndex, BlockOf(h)).recs[IndexOf(h)]
                ELSE Zero
<1>1. /\ UNCHANGED <<generated, entries, root>>
      /\ Recent(cache')
      /\ opened => opened'
      /\ opened' => CacheInv(cache', LastBlock) /\ CountsUpTo(cache', entries, LastBlock)
      /\ cache' \in Cache
      /\ answer' = [h |-> h, r |-> r]
      /\ opened' \in BOOLEAN
  BY ReadEffect
<1>2. LastBlock' = LastBlock
  BY <1>1 DEF LastBlock
<1>3. r \in Rec
  <2>1. h \in Int /\ MaxFS \in Int /\ h >= 0
    BY BlockAssumption DEF Handle
  <2>2. h < MaxFS => root[h] \in Rec
    BY <2>1, RecAssumption DEF IndexInv, TypeOK, RootHandle
  <2>3. ASSUME ~(h < MaxFS)
        PROVE  Held(OpenIndex, BlockOf(h)).recs[IndexOf(h)] \in Rec
    <3>1. BlockOf(h) \in BlockId /\ IndexOf(h) \in Index
      BY <2>1, <2>3, HandlePlace
    <3>2. OpenIndex \in Cache
      BY OpenIndexKeeps DEF CacheInv
    <3> QED BY <3>1, <3>2, HeldType DEF Block
  <2> QED BY <2>2, <2>3, RecAssumption
<1> HIDE DEF r
<1>4. TypeOK'
  BY <1>1, <1>3 DEF IndexInv, TypeOK
<1> QED BY <1>1, <1>2, <1>4 DEF IndexInv

(* Every step keeps IndexInv. *)
LEMMA InvNext ==
  ASSUME IndexInv, [Next]_vars
  PROVE  IndexInv'
<1>1. CASE GenerateIndex
  <2>1. /\ ~generated /\ generated' = TRUE /\ opened' = TRUE /\ entries' = MaxFS
        /\ root' = [h \in RootHandle |-> NewRoot] /\ cache' = OpenIndex /\ UNCHANGED answer
    BY <1>1 DEF GenerateIndex
  <2>2. entries = 0
    BY <2>1 DEF IndexInv
  <2>3. LastBlock = -1 /\ LastBlock' = -1
    BY <2>1, <2>2, BlockAssumption DEF LastBlock, LastOf
  <2>4. CacheInv(OpenIndex, -1) /\ Recent(OpenIndex) /\ CountsUpTo(OpenIndex, entries, -1)
    BY <2>3, OpenIndexKeeps
  <2>5. CountsUpTo(OpenIndex, MaxFS, -1)
    BY <2>4 DEF CountsUpTo
  <2>6. MaxFS \in Handle /\ MaxFS >= MaxFS
    <3>1. MaxFS \in Nat /\ (MaxBlock + 1) * PerBlock \in Nat
      BY BlockAssumption
    <3> QED BY <3>1 DEF Handle
  <2>7. TypeOK'
    BY <2>1, <2>4, <2>6, RecAssumption DEF IndexInv, TypeOK, CacheInv
  <2> QED BY <2>1, <2>3, <2>4, <2>5, <2>6, <2>7 DEF IndexInv
<1>2. CASE CloseIndex
  <2>1. 0 \in Handle
    BY BlockAssumption DEF Handle
  <2>2. TypeOK'
    BY <1>2, <2>1 DEF CloseIndex, IndexInv, TypeOK
  <2> QED BY <1>2, <2>2 DEF CloseIndex, IndexInv
<1>3. CASE UNCHANGED vars
  <2>1. LastBlock' = LastBlock
    BY <1>3 DEF vars, LastBlock
  <2>2. TypeOK'
    BY <1>3 DEF vars, IndexInv, TypeOK
  <2> QED BY <1>3, <2>1, <2>2 DEF vars, IndexInv
<1> QED BY <1>1, <1>2, <1>3, InvAppend, InvWrite, InvRead DEF Next, ResetIndex

(* IndexInv is an invariant of the index. *)
THEOREM InvAlways == Spec => []IndexInv
<1>1. Init => IndexInv
  BY InvInit
<1>2. IndexInv /\ [Next]_vars => IndexInv'
  BY InvNext
<1> QED BY <1>1, <1>2, PTL DEF Spec

(* Every variable keeps its type: no block number, slot age, handle or     *)
(* file position ever leaves its range.                                    *)
THEOREM TypeCorrect == Spec => []TypeOK
<1>1. IndexInv => TypeOK
  BY DEF IndexInv
<1> QED BY <1>1, InvAlways, PTL

(* CacheRecordBlock never gives a second slot to a block that has one.     *)
THEOREM OneCopyAlways == Spec => []OneCopy
<1>1. IndexInv => OneCopy
  BY DEF IndexInv, CacheInv, OneCopy
<1> QED BY <1>1, InvAlways, PTL

(* The search of CacheRecordBlock may stop at an unused slot: no slot      *)
(* after it holds a block, and nothing has been spilled.                   *)
THEOREM UnusedLastAlways == Spec => []UnusedLast
<1>1. IndexInv => UnusedLast
  BY DEF IndexInv, CacheInv, UnusedLast
<1> QED BY <1>1, InvAlways, PTL

(* A clean slot can be dropped without losing a record. *)
THEOREM CleanIsSpilledAlways == Spec => []CleanIsSpilled
<1>1. IndexInv => CleanIsSpilled
  BY DEF IndexInv, CacheInv, CleanIsSpilled
<1> QED BY <1>1, InvAlways, PTL

(* Whenever a block is spilled past the end of the file, every block that  *)
(* belongs before it is in RAM, so the extension leaves no gap.            *)
THEOREM UnwrittenIsCachedAlways == Spec => []UnwrittenIsCached
<1>1. IndexInv => UnwrittenIsCached
  BY DEF IndexInv, CacheInv, UnwrittenIsCached
<1> QED BY <1>1, InvAlways, PTL

(* recordCount in the blocks and index_entries_ agree. *)
THEOREM CountsAgreeAlways == Spec => []CountsAgree
<1>1. IndexInv => CountsAgree
  BY DEF IndexInv, CountsAgree
<1> QED BY <1>1, InvAlways, PTL

(* CacheRecordBlock always finds a slot to replace, for any width of the   *)
(* cycle counter and however often it has wrapped.                         *)
THEOREM VictimAlways == Spec => []VictimExists
<1>1. ASSUME IndexInv PROVE VictimExists
  <2>1. PICK s \in SlotId : cache.slot[s].last = cache.cycle
    BY <1>1 DEF IndexInv, Recent
  <2>2. cache \in Cache /\ cache.cycle \in 0 .. CycleMod - 1
    BY <1>1 DEF IndexInv, TypeOK, Cache
  <2>3. Tick(cache).cycle = (cache.cycle + 1) % CycleMod /\ Tick(cache).slot = cache.slot
    BY <2>2 DEF Tick, Cache
  <2>4. Age(Tick(cache), s) = (((cache.cycle + 1) % CycleMod) - cache.cycle) % CycleMod
    BY <2>1, <2>3 DEF Age
  <2>5. Age(Tick(cache), s) > 0
    BY <2>2, <2>4, ModIncrement, CycleAssumption
  <2> QED BY <2>5 DEF VictimExists
<1> QED BY <1>1, InvAlways, PTL

----------------------------------------------------------------------------
(* The index implements IndexStore *)

(* The records an index of n entries holds, as a function of its parts. *)
In(n, c, h) == h < n /\ (h >= MaxFS => IndexOf(h) < Held(c, BlockOf(h)).cnt)
RecsOf(n, rt, c) ==
  [h \in {g \in Handle : In(n, c, g)} |->
     IF h < MaxFS THEN rt[h] ELSE Held(c, BlockOf(h)).recs[IndexOf(h)]]

(* recs in this state and in the next. *)
LEMMA RecsIs ==
  /\ recs = RecsOf(entries, root, cache)
  /\ recs' = RecsOf(entries', root', cache')
BY DEF recs, Issued, RecsOf, In

(* An index without entries holds nothing. *)
LEMMA NoEntries ==
  ASSUME NEW rt, NEW c
  PROVE  RecsOf(0, rt, c) = Store!NoRecs
<1>1. {g \in Handle : In(0, c, g)} = {}
  BY DEF In, Handle
<1> QED BY <1>1 DEF RecsOf, Store!NoRecs

(* A place at or after index_entries_ holds no record. *)
LEMMA NothingBeyond ==
  ASSUME NEW c, NEW n \in Handle, n >= MaxFS, CountsUpTo(c, n, LastOf(n)),
         NEW g \in Handle, g >= n
  PROVE  ~(IndexOf(g) < Held(c, BlockOf(g)).cnt)
<1>1. MaxFS \in Nat /\ PerBlock \in Nat \ {0} /\ n \in Nat /\ g \in Nat
      /\ n - MaxFS \in Nat /\ g - MaxFS \in Nat /\ n - MaxFS <= g - MaxFS /\ g >= MaxFS
  BY BlockAssumption DEF Handle
<1>2. /\ LastOf(n) \in -1 .. MaxBlock
      /\ BlockOf(n) \in BlockId /\ IndexOf(n) \in Index
      /\ Held(c, BlockOf(n)).cnt = IndexOf(n)
      /\ BlockOf(n) = LastOf(n) \/ BlockOf(n) = LastOf(n) + 1
  BY NextPlace
<1>3. BlockOf(g) \in BlockId /\ IndexOf(g) \in Index /\ g = FirstHandle(BlockOf(g)) + IndexOf(g)
  BY <1>1, HandlePlace
<1>4. n = FirstHandle(BlockOf(n)) + IndexOf(n)
  BY HandlePlace
<1>5. BlockOf(n) <= BlockOf(g)
  BY ONLY <1>1, DivMonotonic DEF BlockOf
<1>6. IndexOf(g) \in Nat /\ IndexOf(n) \in Nat
  BY <1>2, <1>3, BlockAssumption DEF Index
<1>7. CASE BlockOf(g) > LastOf(n)
  <2>1. Held(c, BlockOf(g)) = EmptyBlock
    BY <1>3, <1>7 DEF CountsUpTo
  <2> QED BY <1>6, <2>1 DEF EmptyBlock
<1>8. CASE ~(BlockOf(g) > LastOf(n))
  <2>1. BlockOf(g) \in Int /\ BlockOf(n) \in Int /\ LastOf(n) \in Int
    BY <1>2, <1>3, BlockAssumption DEF BlockId
  <2>2. BlockOf(g) = BlockOf(n)
    BY ONLY <1>2, <1>5, <1>8, <2>1
  <2>3. FirstHandle(BlockOf(n)) \in Int
    BY <1>1, <2>1 DEF FirstHandle
  <2>4. IndexOf(g) >= IndexOf(n)
    BY ONLY <1>1, <1>3, <1>4, <1>6, <2>2, <2>3
  <2> QED BY <1>2, <1>6, <2>2, <2>4
<1> QED BY <1>7, <1>8

(* Different handles of one block have different places in it. *)
LEMMA PlacesDiffer ==
  ASSUME NEW g \in Handle, NEW h \in Handle, g >= MaxFS, h >= MaxFS,
         g # h, BlockOf(g) = BlockOf(h)
  PROVE  IndexOf(g) # IndexOf(h)
BY HandlePlace

(* The initial states are initial states of IndexStore. *)
LEMMA StoreInit ==
  ASSUME Init
  PROVE  Store!Init
BY RecsIs, NoEntries DEF Init, Store!Init

(* Generating an index issues the roots. *)
LEMMA StoreGenerate ==
  ASSUME IndexInv, GenerateIndex
  PROVE  Store!Generate
<1>1. ~generated /\ entries' = MaxFS /\ cache' = OpenIndex /\ UNCHANGED answer
      /\ root' = [h \in RootHandle |-> NewRoot]
  BY DEF GenerateIndex
<1>2. entries = 0
  BY <1>1 DEF IndexInv
<1>3. recs = Store!NoRecs
  BY <1>2, RecsIs, NoEntries
<1>4. {g \in Handle : In(MaxFS, cache', g)} = RootHandle
  <2>1. MaxFS \in Nat /\ (MaxBlock + 1) * PerBlock \in Nat
    BY BlockAssumption
  <2> QED BY <2>1 DEF In, Handle, RootHandle
<1>5. \A h \in RootHandle : h < MaxFS
  BY BlockAssumption DEF RootHandle
<1>6. recs' = [h \in RootHandle |-> NewRoot]
  BY <1>1, <1>4, <1>5, RecsIs DEF RecsOf
<1> QED BY <1>1, <1>3, <1>6 DEF Store!Generate, Store!RootHandle, RootHandle

(* Closing the index forgets every handle. *)
LEMMA StoreDiscard ==
  ASSUME CloseIndex
  PROVE  Store!Discard
BY RecsIs, NoEntries DEF CloseIndex, Store!Discard

(* Appending issues one new handle, above the others, for the record.      *)
LEMMA StoreAppend ==
  ASSUME IndexInv, NEW r \in Rec, AppendIndexRecord(r)
  PROVE  \E h \in Handle : Store!Append(h, r)
<1>1. PICK h \in Handle :
        /\ h >= MaxFS /\ h >= entries /\ entries' = h + 1 /\ h + 1 \in Handle
        /\ BlockOf(h) \in 0 .. MaxBlock /\ IndexOf(h) \in Index
        /\ Held(cache, BlockOf(h)).cnt = IndexOf(h)
        /\ Held(cache', BlockOf(h)) = Extended(Held(cache, BlockOf(h)), IndexOf(h), r)
        /\ \A g \in BlockId : g # BlockOf(h) => Held(cache', g) = Held(cache, g)
        /\ h = entries \/ (BlockOf(entries) = LastBlock /\ h = FirstHandle(LastBlock + 1))
  BY AppendEffect
<1>2. UNCHANGED <<opened, generated, root, answer>> /\ generated
  BY DEF AppendIndexRecord
<1>3. /\ opened /\ entries >= MaxFS /\ entries \in Handle /\ cache \in Cache
      /\ CountsUpTo(cache, entries, LastOf(entries))
  BY <1>2 DEF IndexInv, TypeOK, LastBlock
<1>4. MaxFS \in Nat \ {0} /\ entries \in Int /\ h \in Int
  BY <1>3, BlockAssumption DEF Handle
<1> DEFINE b == BlockOf(h)
           k == IndexOf(h)
           old == Held(cache, b)
<1>5. b \in BlockId /\ old \in Block /\ k \in Nat
  <2>1. b \in BlockId /\ k \in Index
    BY <1>1, HandlePlace
  <2> QED BY <1>3, <2>1, HeldType DEF Index
<1>6. ASSUME NEW g \in Handle, g >= MaxFS, g # h
      PROVE  /\ In(entries', cache', g) <=> In(entries, cache, g)
             /\ In(entries, cache, g) => Held(cache', BlockOf(g)).recs[IndexOf(g)]
                                           = Held(cache, BlockOf(g)).recs[IndexOf(g)]
  <2>1. BlockOf(g) \in BlockId /\ IndexOf(g) \in Index /\ IndexOf(g) \in Nat /\ g \in Int
    BY <1>6, HandlePlace DEF Index, Handle
  <2>2. In(entries, cache, g) <=> IndexOf(g) < Held(cache, BlockOf(g)).cnt
    <3>1. CASE g >= entries
      BY <1>3, <1>6, <3>1, NothingBeyond DEF In
    <3>2. CASE ~(g >= entries)
      BY <1>4, <1>6, <2>1, <3>2 DEF In
    <3> QED BY <3>1, <3>2
  <2>3. CASE BlockOf(g) # b
    <3>1. Held(cache', BlockOf(g)) = Held(cache, BlockOf(g))
      BY <1>1, <2>1, <2>3
    <3>2. In(entries, cache, g) => g < entries'
      BY <1>1, <1>4, <2>1 DEF In
    <3> QED BY <1>6, <2>2, <3>1, <3>2 DEF In
  <2>4. CASE BlockOf(g) = b
    <3>1. IndexOf(g) # k
      BY <1>1, <1>6, <2>4, PlacesDiffer
    <3>2. Held(cache', b) = Extended(old, k, r)
      BY <1>1
    <3>3. Held(cache', b).cnt = k + 1
      BY <1>1, <3>2 DEF Extended
    <3>4. Held(cache', b).recs[IndexOf(g)] = old.recs[IndexOf(g)]
      BY <1>5, <2>1, <3>1, <3>2 DEF Extended, Block
    <3>5. In(entries, cache, g) <=> IndexOf(g) < k
      BY <1>1, <2>2, <2>4
    <3>6. IndexOf(g) < k + 1 <=> IndexOf(g) < k
      BY <1>5, <2>1, <3>1
    <3>7. In(entries, cache, g) => g < entries'
      BY <1>1, <1>4, <2>1 DEF In
    <3>8. In(entries', cache', g) <=> g < entries' /\ IndexOf(g) < k + 1
      BY <1>6, <2>4, <3>3 DEF In
    <3> HIDE DEF b, k, old
    <3> QED BY <2>4, <3>4, <3>5, <3>6, <3>7, <3>8 DEF old
  <2> QED BY <2>3, <2>4
<1>7. ASSUME NEW g \in Handle, ~(g >= MaxFS)
      PROVE  In(entries', cache', g) /\ In(entries, cache, g) /\ g < MaxFS
  <2>1. g \in Int /\ g < MaxFS /\ g < entries /\ g < entries'
    BY <1>1, <1>3, <1>4, <1>7 DEF Handle
  <2> QED BY <1>7, <2>1 DEF In
<1>8. /\ In(entries', cache', h) /\ ~In(entries, cache, h)
      /\ Held(cache', b).recs[k] = r
      /\ ~(h < MaxFS)
  <2>1. Held(cache', b).cnt = k + 1 /\ Held(cache', b).recs[k] = r
    BY <1>1, <1>5 DEF Extended, Block
  <2>2. k < k + 1 /\ h < entries' /\ ~(h < entries) /\ ~(h < MaxFS)
    BY <1>1, <1>4, <1>5
  <2> QED BY <2>1, <2>2 DEF In
<1>9. /\ DOMAIN recs = {g \in Handle : In(entries, cache, g)}
      /\ \A g \in DOMAIN recs : recs[g] = IF g < MaxFS THEN root[g]
                                          ELSE Held(cache, BlockOf(g)).recs[IndexOf(g)]
  BY RecsIs DEF RecsOf
<1>10. {g \in Handle : In(entries', cache', g)} = DOMAIN recs \cup {h}
  BY <1>6, <1>7, <1>8, <1>9
<1>11. recs' = Store!Put(recs, h, r)
  <2>1. recs' = [g \in DOMAIN recs \cup {h} |->
                  IF g < MaxFS THEN root[g] ELSE Held(cache', BlockOf(g)).recs[IndexOf(g)]]
    BY <1>2, <1>10, RecsIs DEF RecsOf
  <2>2. ASSUME NEW g \in DOMAIN recs \cup {h}
        PROVE  (IF g < MaxFS THEN root[g] ELSE Held(cache', BlockOf(g)).recs[IndexOf(g)])
                 = IF g = h THEN r ELSE recs[g]
    <3>1. CASE g = h
      BY <1>8, <3>1
    <3>2. CASE g # h
      <4>1. g \in Handle /\ In(entries, cache, g) /\ g \in DOMAIN recs
        BY <1>9, <3>2
      <4>2. g >= MaxFS \/ g < MaxFS
        BY <1>7, <4>1
      <4>3. g >= MaxFS => ~(g < MaxFS)
        BY <1>4, <4>1 DEF Handle
      <4> QED BY <1>6, <1>9, <3>2, <4>1, <4>2, <4>3
    <3> QED BY <3>1, <3>2
  <2> QED BY <2>1, <2>2 DEF Store!Put
<1>12. recs # Store!NoRecs
  <2>1. 0 \in Handle /\ ~(0 >= MaxFS)
    BY <1>4, BlockAssumption DEF Handle
  <2>2. 0 \in DOMAIN recs
    BY <1>7, <1>9, <2>1
  <2> QED BY <2>2 DEF Store!NoRecs
<1>13. \A g \in DOMAIN recs : g < h
  BY <1>1, <1>4, <1>9 DEF In, Handle
<1> QED BY <1>2, <1>11, <1>12, <1>13 DEF Store!Append, Store!Above

(* Writing changes the record of one issued handle. *)
LEMMA StoreWrite ==
  ASSUME IndexInv, NEW h \in Handle, NEW r \in Rec, WriteIndexRecord(h, r)
  PROVE  Store!Write(h, r)
<1>1. Issued(h) /\ UNCHANGED <<opened, generated, entries, answer>>
  BY DEF WriteIndexRecord
<1>2. /\ DOMAIN recs = {g \in Handle : In(entries, cache, g)}
      /\ \A g \in DOMAIN recs : recs[g] = IF g < MaxFS THEN root[g]
                                          ELSE Held(cache, BlockOf(g)).recs[IndexOf(g)]
  BY RecsIs DEF RecsOf
<1>3. h \in DOMAIN recs
  BY <1>1, <1>2 DEF Issued, In
<1>4. MaxFS \in Int /\ h \in Int /\ h >= 0
  BY BlockAssumption DEF Handle
<1>5. /\ {g \in Handle : In(entries, cache', g)} = DOMAIN recs
      /\ \A g \in DOMAIN recs :
           (IF g < MaxFS THEN root'[g] ELSE Held(cache', BlockOf(g)).recs[IndexOf(g)])
             = IF g = h THEN r ELSE recs[g]
  <2>1. CASE h < MaxFS
    <3>1. root' = [root EXCEPT ![h] = r] /\ cache' = cache
      BY <2>1 DEF WriteIndexRecord
    <3>2. h \in DOMAIN root
      BY <1>4, <2>1 DEF IndexInv, TypeOK, RootHandle
    <3> QED BY <1>2, <2>1, <3>1, <3>2
  <2>2. CASE ~(h < MaxFS)
    <3> DEFINE b == BlockOf(h)
               k == IndexOf(h)
               old == Held(cache, b)
    <3>1. h >= MaxFS
      BY <1>4, <2>2
    <3>2. /\ opened /\ k \in Index
          /\ Held(cache', b) = WithRecord(old, k, r)
          /\ \A g \in BlockId : g # b => Held(cache', g) = Held(cache, g)
          /\ root' = root
      BY <3>1, WriteEffect
    <3>3. b \in BlockId /\ old \in Block
      <4>1. b \in BlockId /\ cache \in Cache
        BY <3>1, HandlePlace DEF IndexInv, TypeOK
      <4> QED BY <4>1, HeldType
    <3>4. Held(cache', b).cnt = old.cnt /\ Held(cache', b).recs = [old.recs EXCEPT ![k] = r]
      BY <3>2 DEF WithRecord
    <3>5. ASSUME NEW g \in Handle, ~(g < MaxFS)
          PROVE  /\ Held(cache', BlockOf(g)).cnt = Held(cache, BlockOf(g)).cnt
                 /\ Held(cache', BlockOf(g)).recs[IndexOf(g)]
                      = IF g = h THEN r ELSE Held(cache, BlockOf(g)).recs[IndexOf(g)]
      <4>1. g >= MaxFS
        BY <1>4, <3>5 DEF Handle
      <4>2. BlockOf(g) \in BlockId /\ IndexOf(g) \in Index
        BY <4>1, HandlePlace
      <4>3. CASE BlockOf(g) # b
        BY <3>2, <4>2, <4>3
      <4>4. CASE BlockOf(g) = b
        <5>1. g # h => IndexOf(g) # k
          BY <3>1, <4>1, <4>4, PlacesDiffer
        <5>2. old.recs \in [Index -> Rec]
          BY <3>3 DEF Block
        <5> HIDE DEF b, old
        <5>3. [old.recs EXCEPT ![k] = r][IndexOf(g)] = IF g = h THEN r ELSE old.recs[IndexOf(g)]
          BY <3>2, <4>2, <5>1, <5>2
        <5> QED BY <3>4, <4>4, <5>3 DEF b, old
      <4> QED BY <4>3, <4>4
    <3>6. \A g \in Handle : In(entries, cache', g) <=> In(entries, cache, g)
      <4>1. ASSUME NEW g \in Handle PROVE g >= MaxFS <=> ~(g < MaxFS)
        BY <1>4 DEF Handle
      <4> QED BY <3>5, <4>1 DEF In
    <3>7. ASSUME NEW g \in DOMAIN recs
          PROVE  (IF g < MaxFS THEN root'[g] ELSE Held(cache', BlockOf(g)).recs[IndexOf(g)])
                   = IF g = h THEN r ELSE recs[g]
      <4>1. g \in Handle /\ recs[g] = IF g < MaxFS THEN root[g]
                                      ELSE Held(cache, BlockOf(g)).recs[IndexOf(g)]
        BY <1>2
      <4> QED BY <2>2, <3>2, <3>5, <4>1
    <3> QED BY <1>2, <3>6, <3>7
  <2> QED BY <2>1, <2>2
<1>6. recs' = [g \in DOMAIN recs |->
                 IF g < MaxFS THEN root'[g] ELSE Held(cache', BlockOf(g)).recs[IndexOf(g)]]
  BY <1>1, <1>5, RecsIs DEF RecsOf
<1>7. DOMAIN recs \cup {h} = DOMAIN recs
  BY <1>3
<1>8. recs' = Store!Put(recs, h, r)
  BY <1>5, <1>6, <1>7 DEF Store!Put
<1> QED BY <1>1, <1>3, <1>8 DEF Store!Write

(* Reading answers with the record of the handle, and keeps all records.   *)
LEMMA StoreRead ==
  ASSUME IndexInv, NEW h \in Handle, ReadIndexRecord(h)
  PROVE  \E r \in Rec : Store!Read(h, r)
<1> DEFINE c == OpenIndex
           r == IF h > entries THEN Zero
                ELSE IF h < MaxFS THEN root[h]
                ELSE IF IndexOf(h) < Held(c, BlockOf(h)).cnt
                THEN Held(c, BlockOf(h)).recs[IndexOf(h)]
                ELSE Zero
<1>1. /\ UNCHANGED <<generated, entries, root>>
      /\ answer' = [h |-> h, r |-> r]
      /\ opened => \A g \in BlockId : Held(cache', g) = Held(cache, g)
  BY ReadEffect
<1>2. r \in Rec
  <2>1. answer' \in [h : Handle, r : Rec]
    BY InvRead DEF IndexInv, TypeOK
  <2> QED BY <1>1, <2>1
<1>3. MaxFS \in Nat \ {0} /\ h \in Int /\ h >= 0 /\ entries \in Handle /\ entries \in Int
  BY BlockAssumption DEF Handle, IndexInv, TypeOK
<1>4. opened => c = cache
  BY DEF OpenIndex
<1>5. ~opened => entries = 0
  BY DEF IndexInv
<1>6. /\ DOMAIN recs = {g \in Handle : In(entries, cache, g)}
      /\ \A g \in DOMAIN recs : recs[g] = IF g < MaxFS THEN root[g]
                                          ELSE Held(cache, BlockOf(g)).recs[IndexOf(g)]
  BY RecsIs DEF RecsOf
<1> HIDE DEF c
<1>7. ASSUME h \in DOMAIN recs
      PROVE  r = recs[h]
  <2>1. In(entries, cache, h) /\ h < entries
    BY <1>6, <1>7 DEF In
  <2>2. opened /\ c = cache
    BY <1>3, <1>4, <1>5, <2>1
  <2>3. h >= MaxFS => ~(h < MaxFS)
    BY <1>3
  <2> QED BY <1>3, <1>6, <1>7, <2>1, <2>2, <2>3 DEF In
<1>8. ASSUME h \notin DOMAIN recs, h \notin RootHandle
      PROVE  r = Zero
  <2>1. h >= MaxFS /\ ~(h < MaxFS)
    BY <1>3, <1>8 DEF RootHandle
  <2>2. SUFFICES ASSUME ~(h > entries) PROVE r = Zero
    OBVIOUS
  <2>3. /\ opened /\ c = cache /\ entries >= MaxFS
        /\ CountsUpTo(cache, entries, LastOf(entries))
    <3>1. entries # 0
      BY <1>3, <2>1, <2>2
    <3> QED BY <1>4, <3>1 DEF IndexInv, LastBlock
  <2>4. ~(IndexOf(h) < Held(c, BlockOf(h)).cnt)
    <3>1. CASE h < entries
      BY <1>6, <1>8, <2>3, <3>1 DEF In
    <3>2. CASE ~(h < entries)
      BY <1>3, <2>2, <2>3, <3>2, NothingBeyond
    <3> QED BY <3>1, <3>2
  <2> QED BY <2>1, <2>4
<1>9. recs' = recs
  <2>1. CASE opened
    <3>1. \A g \in Handle : g >= MaxFS => Held(cache', BlockOf(g)) = Held(cache, BlockOf(g))
      BY <1>1, <2>1, HandlePlace
    <3>2. \A g \in Handle : ~(g < MaxFS) => g >= MaxFS
      BY <1>3 DEF Handle
    <3>3. {g \in Handle : In(entries, cache', g)} = {g \in Handle : In(entries, cache, g)}
      BY <3>1 DEF In
    <3> QED BY <1>1, <3>1, <3>2, <3>3, RecsIs DEF RecsOf
  <2>2. CASE ~opened
    BY <1>1, <1>5, <2>2, RecsIs, NoEntries
  <2> QED BY <2>1, <2>2
<1> HIDE DEF r
<1> QED BY <1>1, <1>2, <1>7, <1>8, <1>9 DEF Store!Read, Store!RootHandle, RootHandle

(* Every step of the index is a step of IndexStore, or leaves it alone. *)
LEMMA StoreStep ==
  ASSUME IndexInv, [Next]_vars
  PROVE  [Store!Next]_(Store!vars)
<1>1. CASE GenerateIndex
  BY <1>1, StoreGenerate DEF Store!Next
<1>2. CASE CloseIndex
  BY <1>2, StoreDiscard DEF Store!Next
<1>3. CASE \E r \in Rec : AppendIndexRecord(r)
  BY <1>3, StoreAppend DEF Store!Next
<1>4. CASE \E h \in Handle, r \in Rec : WriteIndexRecord(h, r)
  BY <1>4, StoreWrite DEF Store!Next
<1>5. CASE \E h \in Handle : ReadIndexRecord(h)
  BY <1>5, StoreRead DEF Store!Next
<1>6. CASE UNCHANGED vars
  BY <1>6, RecsIs DEF vars, Store!vars
<1> QED BY <1>1, <1>2, <1>3, <1>4, <1>5, <1>6 DEF Next, ResetIndex

(* The block cache implements the index its callers see: whatever is       *)
(* cached, spilled, evicted or read back, every handle issued keeps the    *)
(* record last written to it, and handles only grow.                       *)
THEOREM IndexImplementsStore == Spec => StoreSpec
<1>1. Init => Store!Init
  BY StoreInit
<1>2. IndexInv /\ [Next]_vars => [Store!Next]_(Store!vars)
  BY StoreStep
<1> QED BY <1>1, <1>2, InvAlways, PTL DEF Spec, StoreSpec, Store!Spec
=============================================================================
