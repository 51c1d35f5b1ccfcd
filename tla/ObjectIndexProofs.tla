------------------------------ MODULE ObjectIndexProofs ------------------------------
(***************************************************************************)
(* Every operation of the object index keeps a tree that its records and   *)
(* the stores agree on, and so the lists of children, the sizes and the    *)
(* ends of the loops are right in every state.  First Create, SendObject,  *)
(* what the sketch adds, and CopyObject, whose calls of itself are a stack *)
(* (Stack) of which every member must still find what it left; then one    *)
(* lemma for each action, and the theorems.                                *)
(***************************************************************************)
EXTENDS ObjectIndexLemmas

(* What is at the place of h is made, or the contents of a file changed.   *)
Fills(x, P, h, c) ==
  /\ h \in Objs(P) /\ c \in Content \cup {Dir}
  /\ \/ CanHold(x.disk, P[h])
     \/ P[h] \in DOMAIN x.disk /\ x.disk[P[h]] # Dir /\ c # Dir
(* Only c came to p. *)
FilledTo(x, y, p, c) == y.recs = x.recs /\ y.disk = Filled(x.disk, p, c)
(* c is at p. *)
Has(x, p, c) == p \in DOMAIN x.disk /\ x.disk[p] = c

(* Making what is at the place of h leaves everything else of the tree     *)
(* as it was.                                                              *)
LEMMA FilledBut ==
  ASSUME NEW x, NEW P, NEW rk, NEW h, NEW c, ShapeBut(x, P, rk, h), Fills(x, P, h, c),
         NEW y \in Machine, FilledTo(x, y, P[h], c), ~y.hung, Opened(y, P)
  PROVE  ShapeBut(y, P, rk, h) /\ Has(y, P[h], c)
<1>1. /\ x \in Machine /\ Indexed(x) /\ Known(x, P) /\ Apart(P) /\ DOMAIN P \subseteq DOMAIN x.recs
      /\ Chain(x, DOMAIN P, Objs(P), rk) /\ WellFormed(x.disk) /\ x.disk \in Discs
      /\ h \in DOMAIN P \ StoreId /\ c \in Content \cup {Dir}
      /\ \A g \in DOMAIN P \ {h} : OnDisk(x, P, g)
      /\ \A g \in DOMAIN P : Full(x, P, g)
  BY MachineFields DEF ShapeBut, Known, Objs, Fills
<1>2. PICK q \in Where : q = P[h] /\ Len(q) > 1 /\ Last(q) \in Names
  <2>1. PICK f, e : f = x.recs[h].parent /\ e = x.recs[h].name /\ f \in DOMAIN P /\ e \in Names /\ e \in Elem
                    /\ P[h] = Append(P[f], e) /\ Len(P[h]) > 1 /\ P[h] \in Where
                    /\ P[f] \in Seq(Elem)
    BY <1>1, KnownIs
  <2>2. Last(Append(P[f], e)) = e
    BY <2>1, FrontOfAppend
  <2> QED
    BY <2>1, <2>2
<1>3. /\ \/ CanHold(x.disk, q)
         \/ q \in DOMAIN x.disk /\ x.disk[q] # Dir /\ c # Dir
  BY <1>2 DEF Fills
<1>4. PICK d \in Discs : d = x.disk /\ WellFormed(d)
  BY <1>1
<1>5. PICK R : R = Filled(d, q, c)
  OBVIOUS
<1>6. /\ R \in Discs /\ WellFormed(R) /\ DOMAIN R = DOMAIN d \cup {q} /\ R[q] = c
      /\ \A z \in DOMAIN d \ {q} : R[z] = d[z]
  <2>1. /\ c \in Content \cup {Dir} /\ WellFormed(d)
        /\ \/ Len(q) > 1 /\ Last(q) \in Names /\ CanHold(d, q)
           \/ q \in DOMAIN d /\ d[q] # Dir /\ c # Dir
    BY <1>1, <1>2, <1>3, <1>4
  <2>2. /\ Filled(d, q, c) \in Discs /\ WellFormed(Filled(d, q, c))
        /\ DOMAIN Filled(d, q, c) = DOMAIN d \cup {q} /\ Filled(d, q, c)[q] = c
        /\ \A z \in DOMAIN d \ {q} : Filled(d, q, c)[z] = d[z]
    BY <2>1, FilledIs
  <2> QED
    BY <1>5, <2>2, Zenon
<1>7. y.disk = R /\ y.recs = x.recs
  BY <1>2, <1>4, <1>5 DEF FilledTo
<1>8. \A g \in DOMAIN P \ {h} : OnDisk(y, P, g)
  <2> SUFFICES ASSUME NEW g \in DOMAIN P \ {h} PROVE OnDisk(y, P, g)
    OBVIOUS
  <2>1. P[g] # q /\ OnDisk(x, P, g)
    BY <1>1, <1>2 DEF Apart
  <2>2. P[g] \in DOMAIN d
    BY <1>4, <2>1 DEF OnDisk
  <2>3. P[g] \in DOMAIN R /\ R[P[g]] = d[P[g]]
    BY <1>6, <2>1, <2>2
  <2> QED
    BY <1>4, <1>7, <2>1, <2>3 DEF OnDisk
<1>9. \A g \in DOMAIN P : Full(y, P, g)
  <2> SUFFICES ASSUME NEW g \in DOMAIN P PROVE Full(y, P, g)
    OBVIOUS
  <2>1. ASSUME NEW e \in Names, x.recs[g].isdir, x.recs[g].scanned, Append(P[g], e) \in DOMAIN R
        PROVE  \E k \in DOMAIN P : P[k] = Append(P[g], e)
    <3>1. PICK a : a = Append(P[g], e)
      OBVIOUS
    <3>2. a \in DOMAIN d => \E k \in DOMAIN P : P[k] = a
      BY <1>1, <1>4, <2>1, <3>1 DEF Full
    <3>3. a = q => \E k \in DOMAIN P : P[k] = a
      BY <1>1, <1>2
    <3> QED
      BY <1>6, <2>1, <3>1, <3>2, <3>3
  <2> QED
    BY <1>1, <1>7, <2>1 DEF Full
<1>10. Indexed(y) /\ Known(y, P) /\ Chain(y, DOMAIN P, Objs(P), rk)
  BY <1>1, <1>7 DEF Indexed, Known, Chain
<1>11. Has(y, q, c)
  BY <1>6, <1>7 DEF Has
<1>12. ShapeBut(y, P, rk, h)
  BY <1>1, <1>6, <1>7, <1>8, <1>9, <1>10 DEF ShapeBut
<1> QED
  BY <1>2, <1>11, <1>12

(* The record of h says c. *)
Agrees(x, h, c) == (x.recs[h].isdir <=> c = Dir) /\ (~x.recs[h].isdir => x.recs[h].child = c)

(* When h is on its store as its record says, nothing is missing from      *)
(* the tree.                                                               *)
LEMMA ShapeAgain ==
  ASSUME NEW x, NEW P, NEW rk, NEW h \in Objs(P), NEW c, ShapeBut(x, P, rk, h), Has(x, P[h], c),
         Agrees(x, h, c)
  PROVE  Shape(x, P, rk)
<1>1. OnDisk(x, P, h)
  BY DEF OnDisk, Has, Agrees
<1> QED
  BY <1>1 DEF ShapeBut, Shape

(* Making what the record of h says at its place completes the tree. *)
LEMMA FilledKeeps ==
  ASSUME NEW x, NEW P, NEW rk, NEW h, NEW c, ShapeBut(x, P, rk, h), Fills(x, P, h, c),
         Agrees(x, h, c),
         NEW y \in Machine, FilledTo(x, y, P[h], c), ~y.hung, Opened(y, P)
  PROVE  Shape(y, P, rk)
<1>1. ShapeBut(y, P, rk, h) /\ Has(y, P[h], c)
  BY FilledBut
<1>2. Agrees(y, h, c) /\ h \in Objs(P)
  BY DEF Agrees, FilledTo, Fills
<1> QED
  BY <1>1, <1>2, ShapeAgain

(* The places of the objects do not depend on their lists of children. *)
LEMMA KnownLike ==
  ASSUME NEW x \in Machine, NEW P, Known(x, P), NEW y, DOMAIN y.recs = DOMAIN x.recs,
         \A g \in DOMAIN x.recs :
           /\ y.recs[g].store = x.recs[g].store /\ y.recs[g].parent = x.recs[g].parent
           /\ y.recs[g].isdir = x.recs[g].isdir /\ y.recs[g].name = x.recs[g].name
  PROVE  Known(y, P)
<1>1. \A h \in DOMAIN P : h \in DOMAIN x.recs
  BY DEF Known
<1>2. ASSUME NEW h \in DOMAIN P \ StoreId
      PROVE  /\ y.recs[h].parent \in DOMAIN P /\ y.recs[y.recs[h].parent].isdir
             /\ y.recs[h].name \in Names
             /\ P[h] = Append(P[y.recs[h].parent], y.recs[h].name)
  <2>1. PICK f, e : f = x.recs[h].parent /\ e = x.recs[h].name
    OBVIOUS
  <2>2. f \in DOMAIN P /\ x.recs[f].isdir /\ e \in Names /\ P[h] = Append(P[f], e)
    BY <2>1 DEF Known
  <2>3. y.recs[h].parent = f /\ y.recs[h].name = e /\ y.recs[f].isdir
    BY <1>1, <2>1, <2>2
  <2> QED
    BY <2>2, <2>3
<1>3. \A h \in DOMAIN P : y.recs[h].store = P[h][1]
  BY <1>1 DEF Known
<1>4. \A h \in DOMAIN y.recs \ DOMAIN P : y.recs[h].name = NoName \/ y.recs[h].parent \notin DOMAIN P
  BY DEF Known
<1>5. /\ P \in [DOMAIN P -> Where] /\ DOMAIN P \subseteq DOMAIN y.recs
      /\ StoreId \cap DOMAIN y.recs \subseteq DOMAIN P
      /\ \A s \in StoreId \cap DOMAIN P : P[s] = <<s>>
  BY DEF Known
<1> QED
  BY <1>2, <1>3, <1>4, <1>5 DEF Known

(* The record of a file gets a size. *)
Sized(x, y, h, c) ==
  /\ y \in Machine /\ DOMAIN y.recs = DOMAIN x.recs /\ Beside(x, y)
  /\ \A g \in DOMAIN x.recs :
       /\ y.recs[g].store = x.recs[g].store /\ y.recs[g].parent = x.recs[g].parent
       /\ y.recs[g].sibling = x.recs[g].sibling /\ y.recs[g].isdir = x.recs[g].isdir
       /\ y.recs[g].scanned = x.recs[g].scanned /\ y.recs[g].name = x.recs[g].name
       /\ g # h => y.recs[g] = x.recs[g]
  /\ y.recs[h].child = c

(* Writing the size into the record of a file disturbs no other object. *)
LEMMA SizedKeeps ==
  ASSUME NEW x, NEW P, NEW rk, NEW h \in Objs(P), ShapeBut(x, P, rk, h), ~x.recs[h].isdir,
         NEW c \in Content
  PROVE  /\ ShapeBut(Put(x, h, [Read(x, h) EXCEPT !.child = c]), P, rk, h)
         /\ Sized(x, Put(x, h, [Read(x, h) EXCEPT !.child = c]), h, c)
<1>1. /\ x \in Machine /\ Indexed(x) /\ Known(x, P) /\ Apart(P) /\ DOMAIN P \subseteq DOMAIN x.recs
      /\ Chain(x, DOMAIN P, Objs(P), rk) /\ WellFormed(x.disk) /\ ~x.hung /\ Opened(x, P)
      /\ h \in DOMAIN P \ StoreId /\ h \in DOMAIN x.recs
      /\ \A g \in DOMAIN P \ {h} : OnDisk(x, P, g)
      /\ \A g \in DOMAIN P : Full(x, P, g)
  BY DEF ShapeBut, Known, Objs
<1>2. PICK e \in Rec : e = x.recs[h] /\ e = Read(x, h)
  BY <1>1, ReadIs
<1>3. c \in Int
  BY SizeAssumption
<1>4. PICK r : r = [e EXCEPT !.child = c]
  OBVIOUS
<1>5. /\ r \in Rec /\ r.store = e.store /\ r.parent = e.parent /\ r.sibling = e.sibling
      /\ r.child = c /\ r.isdir = e.isdir /\ r.scanned = e.scanned /\ r.name = e.name
  BY <1>3, <1>4 DEF Rec
<1>6. PICK y : y = Put(x, h, r)
  OBVIOUS
<1>7. PutTo(x, y, h, r)
  BY <1>1, <1>5, <1>6, PutFields
<1>8. /\ y \in Machine /\ DOMAIN y.recs = DOMAIN x.recs /\ Beside(x, y) /\ y.recs[h] = r
      /\ \A g \in DOMAIN x.recs : g # h => y.recs[g] = x.recs[g]
  BY <1>1, <1>7 DEF PutTo
<1>9. Sized(x, y, h, c)
  <2> SUFFICES ASSUME NEW g \in DOMAIN x.recs
               PROVE  /\ y.recs[g].store = x.recs[g].store /\ y.recs[g].parent = x.recs[g].parent
                      /\ y.recs[g].sibling = x.recs[g].sibling /\ y.recs[g].isdir = x.recs[g].isdir
                      /\ y.recs[g].scanned = x.recs[g].scanned /\ y.recs[g].name = x.recs[g].name
                      /\ g # h => y.recs[g] = x.recs[g]
    BY <1>5, <1>8 DEF Sized
  <2>1. CASE g = h
    BY <1>2, <1>5, <1>8, <2>1
  <2>2. CASE g # h
    BY <1>8, <2>2
  <2> QED
    BY <2>1, <2>2
<1>10. \A g \in DOMAIN x.recs :
         /\ y.recs[g].store = x.recs[g].store /\ y.recs[g].parent = x.recs[g].parent
         /\ y.recs[g].sibling = x.recs[g].sibling /\ y.recs[g].isdir = x.recs[g].isdir
         /\ y.recs[g].scanned = x.recs[g].scanned /\ y.recs[g].name = x.recs[g].name
         /\ x.recs[g].isdir => y.recs[g].child = x.recs[g].child
  BY <1>9 DEF Sized
<1>11. Indexed(y)
  BY <1>1, <1>8, <1>10 DEF Indexed
<1>12. Known(y, P)
  BY <1>1, <1>8, <1>10, KnownLike
<1>13. Chain(y, DOMAIN P, Objs(P), rk)
  <2>1. DOMAIN P \subseteq DOMAIN y.recs /\ Objs(P) \subseteq DOMAIN P /\ Objs(P) \subseteq DOMAIN y.recs
    BY <1>1, <1>8 DEF Objs
  <2>2. \A k \in Objs(P) : k \in Objs(P) <=> x.recs[k].parent \in DOMAIN P
    BY <1>1 DEF Chain
  <2> QED
    BY <1>1, <1>10, <2>1, <2>2, ChainLike
<1>14. \A g \in DOMAIN P \ {h} : OnDisk(y, P, g)
  BY <1>1, <1>8 DEF OnDisk, Beside
<1>15. \A g \in DOMAIN P : Full(y, P, g)
  <2> SUFFICES ASSUME NEW g \in DOMAIN P PROVE Full(y, P, g)
    OBVIOUS
  <2>1. y.recs[g].isdir = x.recs[g].isdir /\ y.recs[g].scanned = x.recs[g].scanned /\ y.disk = x.disk /\ Full(x, P, g)
    BY <1>1, <1>8, <1>10 DEF Beside
  <2>2. \A k \in Objs(P) : y.recs[k].parent = x.recs[k].parent
    BY <1>1, <1>10 DEF Objs
  <2> QED
    BY <2>1, <2>2 DEF Full
<1>16. Opened(y, P) /\ ~y.hung /\ WellFormed(y.disk)
  BY <1>1, <1>8 DEF Opened, Beside
<1>17. ShapeBut(y, P, rk, h)
  BY <1>1, <1>8, <1>11, <1>12, <1>13, <1>14, <1>15, <1>16 DEF ShapeBut
<1> QED
  BY <1>2, <1>4, <1>6, <1>9, <1>17


(* What Create leaves when it makes the object n. *)
Made(x, z, P, Q, d, n, folder, name, q) ==
  /\ n = NextHandle(x) /\ n \in Nat /\ n \notin DOMAIN x.recs /\ n \notin StoreId
  /\ Q = With(P, n, q)
  /\ Grown(x, z, P, Q, {d}) /\ DOMAIN z.recs = DOMAIN x.recs \cup {n}
  /\ z.recs[d].child = n /\ z.recs[n].parent = d /\ z.recs[n].store = x.recs[d].store
  /\ z.recs[n].child = 0 /\ z.recs[n].isdir = folder /\ z.recs[n].scanned /\ z.recs[n].name = name
  /\ DOMAIN z.disk = DOMAIN x.disk \cup {q}
  /\ \A p \in DOMAIN x.disk : z.disk[p] = x.disk[p]
  /\ IF folder THEN z.file = NoFile /\ z.open = Orphan
     ELSE z.file = q /\ z.open = n /\ z.disk[q] = 0

(* A place where Create may make something is a place in a directory       *)
(* that is on the store.                                                   *)
LEMMA FreeIs ==
  ASSUME NEW x, NEW P, NEW rk, Shape(x, P, rk), NEW d, NEW name, Free(x, P, d, name)
  PROVE  /\ Append(P[d], name) \in Where /\ Len(Append(P[d], name)) > 1
         /\ Last(Append(P[d], name)) \in Names /\ Front(Append(P[d], name)) = P[d]
         /\ CanHold(x.disk, Append(P[d], name))
         /\ d \in DOMAIN P /\ d \in DOMAIN x.recs /\ x.recs[d].isdir /\ x.recs[d].scanned
         /\ name \in Names
<1>1. /\ x \in Machine /\ Known(x, P) /\ d \in DOMAIN P /\ d \in DOMAIN x.recs /\ name \in Names
      /\ OnDisk(x, P, d)
      /\ x.recs[d].isdir /\ x.recs[d].scanned
  BY DEF Shape, Known, Free
<1>2. PICK p \in Seq(Elem) : p = P[d] /\ Len(p) >= 1 /\ Len(p) \in Nat /\ name \in Elem
  BY <1>1, KnownIs DEF Elem
<1>3. PICK a : a = Append(p, name)
  OBVIOUS
<1>4. a \in Seq(Elem) /\ Len(a) = Len(p) + 1 /\ Last(a) = name /\ Front(a) = p
  BY <1>2, <1>3, FrontLast, FrontOfAppend
<1>5. p \in DOMAIN x.disk /\ x.disk[p] = Dir
  BY <1>1, <1>2 DEF OnDisk
<1>6. a \notin DOMAIN x.disk
  BY <1>2, <1>3 DEF Free
<1>7. /\ a \in Where /\ Len(a) > 1 /\ Last(a) \in Names /\ Front(a) = P[d] /\ CanHold(x.disk, a)
  BY <1>1, <1>2, <1>4, <1>5, <1>6 DEF CanHold, Where
<1> QED
  BY <1>1, <1>2, <1>3, <1>7, Zenon

(* Create in a listed directory where nothing has the name, with no file   *)
(* open.                                                                   *)
Making(x, P, d, name, n, store) ==
  /\ Free(x, P, d, name) /\ n = NextHandle(x) /\ store = x.recs[d].store
  /\ x.file = NoFile /\ x.open = Orphan

(* Create made a directory. *)
MadeFolder(x, z, P, Q, d, n, name) == Made(x, z, P, Q, d, n, TRUE, name, Append(P[d], name))
(* Create made a file. *)
MadeFile(x, z, P, Q, d, n, name) == Made(x, z, P, Q, d, n, FALSE, name, Append(P[d], name))
(* mkdir for the new record. *)
NewFolderIs(f, x, d, name, n, store) == f = NewFolder(NewChild(x, d, TRUE, name), store, n, TRUE)

(* Create of a directory: record and directory are made, and the handle    *)
(* of the record is the answer.                                            *)
LEMMA MakeKeeps ==
  ASSUME NEW x, NEW P, NEW rk, Shape(x, P, rk), NEW d, NEW name, NEW n, NEW store,
         Making(x, P, d, name, n, store), NEW f, NewFolderIs(f, x, d, name, n, store)
  PROVE  \E Q, s : Shape(f.x, Q, s) /\ MadeFolder(x, f.x, P, Q, d, n, name) /\ f.ret = n
<1>1. PICK folder \in BOOLEAN : folder = TRUE
  OBVIOUS
<1>2. PICK q : q = Append(P[d], name)
  OBVIOUS
<1>3. /\ q \in Where /\ Len(q) > 1 /\ Last(q) \in Names /\ Front(q) = P[d] /\ CanHold(x.disk, q)
      /\ d \in DOMAIN P /\ d \in DOMAIN x.recs /\ x.recs[d].isdir /\ x.recs[d].scanned
      /\ name \in Names
  BY <1>2, FreeIs DEF Making
<1>4. PICK y : y = NewChild(x, d, folder, name)
  OBVIOUS
<1>5. Born(x, y, P, d, n, folder, name)
  BY <1>3, <1>4, BornIs DEF Making
<1>6. PICK Q : Q = With(P, n, q)
  OBVIOUS
<1>7. PICK s : ShapeBut(y, Q, s, n)
  BY <1>2, <1>5, <1>6, BornKeeps DEF Making
<1>8. /\ n \in Nat /\ n \notin DOMAIN x.recs /\ n \notin StoreId
      /\ y \in Machine /\ DOMAIN y.recs = DOMAIN x.recs \cup {n}
      /\ y.recs[n].store = x.recs[d].store /\ y.recs[n].parent = d
      /\ y.recs[n].child = 0 /\ y.recs[n].isdir = folder /\ y.recs[n].scanned
      /\ y.recs[n].name = name
      /\ y.recs[d].child = n /\ Grown(x, y, P, Q, {d})
  BY <1>2, <1>5, <1>6 DEF Born
<1>9. /\ y.disk = x.disk /\ y.file = NoFile /\ y.open = Orphan /\ y.hung = x.hung
      /\ Indexed(y) /\ Known(y, Q) /\ Opened(y, Q) /\ WellFormed(y.disk) /\ y.disk \in Discs
      /\ ~y.hung
  BY <1>5, <1>7, MachineFields DEF Born, Beside, ShapeBut, Making
<1>10. n \in DOMAIN Q /\ Q[n] = q /\ n \in Objs(Q)
  BY <1>6, <1>8 DEF With, Objs
<1>11. <<store>> \o Path(y, n) = q
  <2>1. <<y.recs[n].store>> \o Path(y, n) = Q[n]
    BY <1>8, <1>9, <1>10, PlaceIs
  <2>2. y.recs[n].store = store
    BY <1>8 DEF Making
  <2> QED
    BY <1>10, <2>1, <2>2, Zenon
<1>12. PICK R : R = Filled(y.disk, q, Dir)
  OBVIOUS
<1>13. /\ R \in Discs /\ DOMAIN R = DOMAIN y.disk \cup {q} /\ R[q] = Dir
       /\ \A z \in DOMAIN y.disk \ {q} : R[z] = y.disk[z]
  <2>1. PICK e \in Discs : e = y.disk /\ WellFormed(e) /\ CanHold(e, q)
    BY <1>3, <1>9
  <2>2. PICK c \in Content \cup {Dir} : c = Dir
    OBVIOUS
  <2>3. /\ Filled(e, q, c) \in Discs
        /\ DOMAIN Filled(e, q, c) = DOMAIN e \cup {q} /\ Filled(e, q, c)[q] = c
        /\ \A z \in DOMAIN e \ {q} : Filled(e, q, c)[z] = e[z]
    <3>1. c \in Content \cup {Dir} /\ e \in Discs /\ WellFormed(e) /\ q \in Where
      BY <1>3, <2>1, <2>2
    <3>2. Len(q) > 1 /\ Last(q) \in Names /\ CanHold(e, q)
      BY <1>3, <2>1
    <3> QED
      BY <3>1, <3>2, FilledIs
  <2> QED
    BY <1>12, <2>1, <2>2, <2>3, Zenon
<1>14. PICK v : v = MakeDir(y, q, TRUE)
  OBVIOUS
<1>15. v \in Machine /\ v.recs = y.recs /\ v.disk = R /\ v.file = y.file /\ v.open = y.open /\ v.hung = y.hung
  <2>1. v = [y EXCEPT !.disk = R]
    BY <1>3, <1>9, <1>12, <1>14 DEF MakeDir
  <2> QED
    BY <1>8, <1>13, <2>1 DEF Machine
<1>16. FilledTo(y, v, q, Dir)
  BY <1>12, <1>15 DEF FilledTo
<1>17. Fills(y, Q, n, Dir) /\ Agrees(y, n, Dir)
  BY <1>1, <1>3, <1>8, <1>9, <1>10 DEF Fills, Agrees
<1>18. Opened(v, Q)
  BY <1>9, <1>15 DEF Opened
<1>19. Shape(v, Q, s)
  <2>1. PICK c : c = Dir
    OBVIOUS
  <2>2. FilledTo(y, v, Q[n], c) /\ Fills(y, Q, n, c) /\ Agrees(y, n, c)
    BY <1>10, <1>16, <1>17, <2>1
  <2> QED
    BY <1>7, <1>9, <1>15, <1>18, <2>2, FilledKeeps
<1>20. PICK z : z = CloseFile(v)
  OBVIOUS
<1>21. Shape(z, Q, s) /\ z.recs = v.recs /\ z.disk = v.disk /\ z.file = NoFile /\ z.open = Orphan
  BY <1>15, <1>19, <1>20, CloseKeeps, CloseFileIs
<1>22. Grown(x, z, P, Q, {d})
  BY <1>8, <1>15, <1>21 DEF Grown
<1>23. Made(x, z, P, Q, d, n, folder, name, q)
  <2>1. q \notin DOMAIN x.disk
    BY <1>3 DEF CanHold
  <2>2. DOMAIN z.disk = DOMAIN x.disk \cup {q} /\ \A p \in DOMAIN x.disk : z.disk[p] = x.disk[p]
    BY <1>9, <1>13, <1>15, <1>21, <2>1
  <2>3. z.recs = y.recs
    BY <1>15, <1>21
  <2> QED
    BY <1>1, <1>6, <1>8, <1>21, <1>22, <2>2, <2>3 DEF Made, Making
<1>24. PICK w : w = NewFolder(y, store, n, TRUE)
  OBVIOUS
<1>25. w.x = z /\ w.ret = n
  BY <1>11, <1>14, <1>20, <1>24 DEF NewFolder
<1>26. f = w
  BY <1>1, <1>4, <1>24 DEF NewFolderIs
<1>27. MadeFolder(x, z, P, Q, d, n, name)
  BY <1>1, <1>2, <1>23, Zenon DEF MadeFolder
<1> QED
  BY <1>21, <1>25, <1>26, <1>27


(* The file of the new record is opened for writing, which makes it. *)
NewFileIs(f, x, d, name, n, room) ==
  f = NewFile(OpenFileByIndex(NewChild(x, d, FALSE, name), n, "write", room), n)

(* Create of a file: made on the store, or the record is taken out of      *)
(* the index again and the store is full.                                  *)
LEMMA NewFileKeeps ==
  ASSUME NEW x, NEW P, NEW rk, Shape(x, P, rk), NEW d, NEW name, NEW n, NEW store,
         Making(x, P, d, name, n, store), NEW room \in BOOLEAN, NEW f,
         NewFileIs(f, x, d, name, n, room)
  PROVE  \E Q, s :
           /\ Shape(f.x, Q, s)
           /\ \/ f.ret = n /\ MadeFile(x, f.x, P, Q, d, n, name)
              \/ f.ret = Bad /\ ~room
<1>1. PICK folder \in BOOLEAN : folder = FALSE
  OBVIOUS
<1>2. PICK q : q = Append(P[d], name)
  OBVIOUS
<1>3. /\ q \in Where /\ Len(q) > 1 /\ Last(q) \in Names /\ Front(q) = P[d] /\ CanHold(x.disk, q)
      /\ d \in DOMAIN P /\ d \in DOMAIN x.recs /\ x.recs[d].isdir /\ x.recs[d].scanned
      /\ name \in Names
  BY <1>2, FreeIs DEF Making
<1>4. PICK y : y = NewChild(x, d, folder, name)
  OBVIOUS
<1>5. Born(x, y, P, d, n, folder, name)
  BY <1>3, <1>4, BornIs DEF Making
<1>6. PICK Q : Q = With(P, n, q)
  OBVIOUS
<1>7. PICK s : ShapeBut(y, Q, s, n)
  BY <1>2, <1>5, <1>6, BornKeeps DEF Making
<1>8. /\ n \in Nat /\ n \notin DOMAIN x.recs /\ n \notin StoreId
      /\ y \in Machine /\ DOMAIN y.recs = DOMAIN x.recs \cup {n}
      /\ y.recs[n].store = x.recs[d].store /\ y.recs[n].parent = d
      /\ y.recs[n].child = 0 /\ y.recs[n].isdir = folder /\ y.recs[n].scanned
      /\ y.recs[n].name = name
      /\ y.recs[d].child = n /\ Grown(x, y, P, Q, {d})
  BY <1>2, <1>5, <1>6 DEF Born
<1>9. /\ y.disk = x.disk /\ y.file = NoFile /\ y.open = Orphan /\ y.hung = x.hung
      /\ Indexed(y) /\ Known(y, Q) /\ Opened(y, Q) /\ WellFormed(y.disk) /\ y.disk \in Discs
      /\ ~y.hung
  BY <1>5, <1>7, MachineFields DEF Born, Beside, ShapeBut, Making
<1>10. n \in DOMAIN Q /\ Q[n] = q /\ n \in Objs(Q)
  BY <1>6, <1>8 DEF With, Objs
<1>11. PlaceOf(y, n) = q
  <2>1. PlaceOf(y, n) = Q[n]
    <3>1. y \in Machine /\ Indexed(y) /\ Known(y, Q) /\ n \in DOMAIN Q
      BY <1>8, <1>9, <1>10
    <3> QED
      BY <3>1, PlaceIs
  <2> QED
    BY <1>10, <2>1, Zenon
<1>12. q \notin DOMAIN y.disk /\ CanHold(y.disk, q)
  BY <1>3, <1>9 DEF CanHold
<1>13. PICK o : o = OpenFileByIndex(y, n, "write", room)
  OBVIOUS
<1>14. o = OpenAt(y, n, q, "write", room)
  BY <1>9, <1>11, <1>13 DEF OpenFileByIndex
<1>15. f = NewFile(o, n)
  BY <1>1, <1>4, <1>13 DEF NewFileIs
<1>16. CASE room
  <2>1. PICK R : R = Filled(y.disk, q, 0)
    OBVIOUS
  <2>2. /\ R \in Discs /\ DOMAIN R = DOMAIN y.disk \cup {q} /\ R[q] = 0
        /\ \A z \in DOMAIN y.disk \ {q} : R[z] = y.disk[z]
    <3>1. PICK e \in Discs : e = y.disk /\ WellFormed(e) /\ CanHold(e, q)
      BY <1>9, <1>12
    <3>2. PICK c \in Content \cup {Dir} : c = 0
      BY SizeAssumption
    <3>3. /\ Filled(e, q, c) \in Discs
          /\ DOMAIN Filled(e, q, c) = DOMAIN e \cup {q} /\ Filled(e, q, c)[q] = c
          /\ \A z \in DOMAIN e \ {q} : Filled(e, q, c)[z] = e[z]
      <4>1. c \in Content \cup {Dir} /\ e \in Discs /\ WellFormed(e) /\ q \in Where
        BY <1>3, <3>1, <3>2
      <4>2. Len(q) > 1 /\ Last(q) \in Names /\ CanHold(e, q)
        BY <1>3, <3>1
      <4> QED
        BY <4>1, <4>2, FilledIs, ZenonT(60)
    <3> QED
      BY <2>1, <3>1, <3>2, <3>3, Zenon
  <2>3. PICK u : u = [y EXCEPT !.disk = R]
    OBVIOUS
  <2>4. u \in Machine /\ u.recs = y.recs /\ u.disk = R /\ u.hung = y.hung
    BY <1>8, <2>2, <2>3 DEF Machine
  <2>5. o = OpenedAt(u, n, q, "write")
    BY <1>12, <1>14, <1>16, <2>1, <2>3 DEF OpenAt, CanOpen, CanCreate
  <2>6. o \in Machine /\ o.recs = y.recs /\ o.disk = R /\ o.hung = y.hung /\ o.file = q /\ o.open = n
    <3>1. n \in Int
      BY <1>8
    <3> QED
      BY <1>3, <2>4, <2>5, <3>1, OpenedAtIs
  <2>7. Opened(o, Q)
    <3>1. n \in DOMAIN o.recs
      BY <1>8, <2>6
    <3> QED
      BY <1>10, <2>6, <3>1 DEF Opened
  <2>8. Shape(o, Q, s)
    <3>1. PICK c : c = 0
      OBVIOUS
    <3>2. FilledTo(y, o, Q[n], c)
      BY <1>10, <2>1, <2>6, <3>1 DEF FilledTo
    <3>3. Fills(y, Q, n, c) /\ Agrees(y, n, c)
      BY <1>1, <1>8, <1>10, <1>12, <3>1, SizeAssumption DEF Fills, Agrees, Dir
    <3> QED
      BY <1>7, <1>9, <2>6, <2>7, <3>2, <3>3, FilledKeeps
  <2>9. o.file # NoFile
    BY <1>3, <2>6 DEF NoFile
  <2>10. f.x = o /\ f.ret = n
    BY <1>15, <2>9 DEF NewFile
  <2>11. Grown(x, o, P, Q, {d})
    BY <1>8, <2>6 DEF Grown
  <2>12. Made(x, o, P, Q, d, n, folder, name, q)
    <3>1. DOMAIN o.disk = DOMAIN x.disk \cup {q} /\ \A p \in DOMAIN x.disk : o.disk[p] = x.disk[p]
      BY <1>9, <1>12, <2>2, <2>6
    <3>2. o.disk[q] = 0
      BY <2>2, <2>6
    <3> QED
      BY <1>1, <1>6, <1>8, <2>6, <2>11, <3>1, <3>2 DEF Made, Making
  <2>13. MadeFile(x, o, P, Q, d, n, name)
    BY <1>1, <1>2, <2>12, Zenon DEF MadeFile
  <2> QED
    BY <2>8, <2>10, <2>13
<1>17. CASE ~room
  <2>1. o = CloseFile(y)
    BY <1>12, <1>14, <1>17 DEF OpenAt, CanOpen, CanCreate
  <2>2. o \in Machine /\ o.recs = y.recs /\ o.disk = y.disk /\ o.hung = y.hung /\ o.file = NoFile /\ o.open = Orphan
    BY <1>8, <2>1, CloseFileIs
  <2>3. ShapeBut(o, Q, s, n)
    <3>1. Indexed(o) /\ Known(o, Q) /\ Chain(o, DOMAIN Q, Objs(Q), s)
      <4>1. Indexed(o)
        BY <1>7, <2>2 DEF ShapeBut, Indexed
      <4>2. Known(o, Q)
        BY <1>7, <2>2 DEF ShapeBut, Known
      <4>3. Chain(o, DOMAIN Q, Objs(Q), s)
        BY <1>7, <2>2 DEF ShapeBut, Chain
      <4> QED
        BY <4>1, <4>2, <4>3
    <3>2. /\ \A g \in DOMAIN Q \ {n} : OnDisk(o, Q, g)
          /\ \A g \in DOMAIN Q : Full(o, Q, g)
      BY <1>7, <2>2 DEF ShapeBut, OnDisk, Full
    <3>3. Opened(o, Q)
      BY <2>2 DEF Opened
    <3> QED
      BY <1>7, <1>9, <2>2, <3>1, <3>2, <3>3 DEF ShapeBut
  <2>4. Shape(Deleted(o, n), Without(Q, Q[n]), s)
    BY <1>10, <2>3, DeletedIs
  <2>5. f.x = Deleted(o, n) /\ f.ret = Bad
    BY <1>15, <2>2 DEF NewFile
  <2> QED
    BY <1>17, <2>4, <2>5
<1> QED
  BY <1>16, <1>17


(* A name that no object in a listed directory has is free.                *)
LEMMA NoChildNamed ==
  ASSUME NEW x, NEW P, NEW rk, Shape(x, P, rk), NEW d \in DOMAIN P, x.recs[d].isdir,
         x.recs[d].scanned, NEW name \in Names
  PROVE  ChildNamed(x, d, name) = 0 <=> Append(P[d], name) \notin DOMAIN x.disk
<1>1. /\ x \in Machine /\ Indexed(x) /\ Known(x, P) /\ Apart(P) /\ Full(x, P, d)
      /\ Chain(x, DOMAIN P, Objs(P), rk) /\ Objs(P) = DOMAIN P \ StoreId
      /\ \A g \in DOMAIN P : OnDisk(x, P, g)
  BY DEF Shape, Objs
<1>2. PICK a : a = Append(P[d], name)
  OBVIOUS
<1>3. PICK k : k = ChildNamed(x, d, name)
  OBVIOUS
<1>4. PICK D, O : D = DOMAIN P /\ O = Objs(P)
  OBVIOUS
<1>5. Chain(x, D, O, rk) /\ x \in Machine /\ d \in D
  BY <1>1, <1>4
<1>6. /\ k = 0 => \A h \in O : x.recs[h].parent = d => x.recs[h].name # name
      /\ k # 0 => k \in O /\ x.recs[k].parent = d /\ x.recs[k].name = name
  <2>1. /\ ChildNamed(x, d, name) = 0 => \A h \in O : x.recs[h].parent = d => x.recs[h].name # name
        /\ ChildNamed(x, d, name) # 0 =>
              /\ ChildNamed(x, d, name) \in O
              /\ x.recs[ChildNamed(x, d, name)].parent = d
              /\ x.recs[ChildNamed(x, d, name)].name = name
    BY <1>5, ChildNamedIs
  <2> QED
    BY <1>3, <2>1, Zenon
<1>8. ASSUME k # 0 PROVE a \in DOMAIN x.disk
  <2>1. k \in DOMAIN P \ StoreId /\ x.recs[k].parent = d /\ x.recs[k].name = name
    BY <1>1, <1>4, <1>6, <1>8
  <2>2. P[k] = Append(P[x.recs[k].parent], x.recs[k].name)
    BY <1>1, <2>1 DEF Known
  <2>3. P[k] = a
    BY <1>2, <2>1, <2>2, Zenon
  <2> QED
    BY <1>1, <2>1, <2>3 DEF OnDisk
<1>9. ASSUME k = 0, a \in DOMAIN x.disk PROVE FALSE
  <2>1. PICK h \in DOMAIN P : P[h] = a
    BY <1>1, <1>2, <1>9 DEF Full
  <2>2. PICK p \in Seq(Elem) : p = P[d] /\ Len(p) \in Nat /\ Len(p) >= 1 /\ name \in Elem
    BY <1>1, KnownIs DEF Elem
  <2>3. a = Append(p, name)
    BY <1>2, <2>2
  <2>4. Front(a) = p /\ Last(a) = name /\ Len(a) = Len(p) + 1
    BY <2>2, <2>3, FrontLast, FrontOfAppend
  <2>5. h \notin StoreId
    <3>1. h \in StoreId => Len(P[h]) = 1
      BY <1>1, KnownIs
    <3> QED
      BY <2>1, <2>2, <2>4, <3>1
  <2>6. PICK f, e : f = x.recs[h].parent /\ e = x.recs[h].name /\ f \in DOMAIN P /\ e \in Elem /\ P[h] = Append(P[f], e) /\ P[f] \in Seq(Elem)
    BY <1>1, <2>1, <2>5, KnownIs
  <2>7. Front(Append(P[f], e)) = P[f] /\ Last(Append(P[f], e)) = e
    BY <2>6, FrontLast, FrontOfAppend
  <2>8. P[f] = p /\ e = name
    BY <2>1, <2>4, <2>6, <2>7, Zenon
  <2>9. f = d
    BY <1>1, <2>2, <2>6, <2>8 DEF Apart
  <2> QED
    BY <1>1, <1>4, <1>6, <1>9, <2>1, <2>5, <2>6, <2>8, <2>9
<1> QED
  BY <1>2, <1>3, <1>8, <1>9

(* Create in a directory that has been listed.                             *)
Creating(x, P, d, folder, name, room, c) ==
  /\ d \in DOMAIN P /\ x.recs[d].isdir /\ x.recs[d].scanned /\ name \in Names
  /\ x.file = NoFile /\ x.open = Orphan
  /\ folder \in BOOLEAN /\ room \in BOOLEAN /\ (folder => room)
  /\ c = CreateIn(x, x.recs[d].store, d, folder, name, room)
(* What Create gives: the object that had the name, a new one, or          *)
(* nothing.                                                                *)
Created(x, P, Q, d, folder, name, room, c) ==
  \/ /\ Append(P[d], name) \in DOMAIN x.disk /\ c.x = x /\ Q = P
     /\ c.ret = Bad \/ (c.ret \in Objs(P) /\ x.recs[c.ret].isdir = folder)
  \/ /\ Append(P[d], name) \notin DOMAIN x.disk /\ c.ret = NextHandle(x)
     /\ Made(x, c.x, P, Q, d, NextHandle(x), folder, name, Append(P[d], name))
  \/ /\ Append(P[d], name) \notin DOMAIN x.disk /\ c.ret = Bad /\ ~folder /\ ~room

(* Create leaves a tree, whatever it found in the directory. *)
LEMMA CreateInKeeps ==
  ASSUME NEW x, NEW P, NEW rk, Shape(x, P, rk), NEW d, NEW folder, NEW name, NEW room, NEW c,
         Creating(x, P, d, folder, name, room, c)
  PROVE  \E Q, s : Shape(c.x, Q, s) /\ Created(x, P, Q, d, folder, name, room, c)
<1>0. /\ d \in DOMAIN P /\ x.recs[d].isdir /\ x.recs[d].scanned /\ name \in Names
      /\ x.file = NoFile /\ x.open = Orphan /\ folder \in BOOLEAN /\ room \in BOOLEAN /\ (folder => room)
  BY DEF Creating
<1>1. PICK q : q = Append(P[d], name)
  OBVIOUS
<1>2. PICK k : k = ChildNamed(x, d, name) /\ (k = 0 <=> q \notin DOMAIN x.disk)
  BY <1>0, <1>1, NoChildNamed
<1>3. PICK store : store = x.recs[d].store
  OBVIOUS
<1>4. CASE k # 0
  <2>1. c = Existing(x, k, folder)
    BY <1>2, <1>4 DEF CreateIn, Creating
  <2>2. c.x = x /\ c.ret = IF Read(x, k).isdir = folder THEN k ELSE Bad
    BY <2>1 DEF Existing
  <2>3. PICK D, O : D = DOMAIN P /\ O = Objs(P)
    OBVIOUS
  <2>4. Chain(x, D, O, rk) /\ x \in Machine /\ d \in D
    BY <1>0, <2>3 DEF Shape
  <2>5. k \in O
    <3>1. ChildNamed(x, d, name) # 0 => ChildNamed(x, d, name) \in O
      BY <1>0, <2>4, ChildNamedIs
    <3> QED
      BY <1>2, <1>4, <3>1, Zenon
  <2>6. k \in Objs(P) /\ Read(x, k) = x.recs[k]
    <3>1. O \subseteq DOMAIN x.recs
      BY <2>4 DEF Chain
    <3> QED
      BY <2>3, <2>4, <2>5, <3>1, ReadIs
  <2>7. c.ret = Bad \/ (c.ret \in Objs(P) /\ x.recs[c.ret].isdir = folder)
    <3>1. CASE Read(x, k).isdir = folder
      BY <2>2, <2>6, <3>1
    <3>2. CASE Read(x, k).isdir # folder
      BY <2>2, <3>2
    <3> QED
      BY <3>1, <3>2
  <2>8. q \in DOMAIN x.disk /\ c.x = x
    BY <1>2, <1>4, <2>2
  <2>9. Created(x, P, P, d, folder, name, room, c)
    BY <1>1, <2>7, <2>8 DEF Created
  <2> QED
    BY <2>8, <2>9
<1>5. CASE k = 0
  <2>1. PICK n : n = NextHandle(x)
    OBVIOUS
  <2>2. q \notin DOMAIN x.disk
    BY <1>2, <1>5
  <2>3. Making(x, P, d, name, n, store)
    BY <1>0, <1>1, <1>3, <2>1, <2>2 DEF Making, Free
  <2>4. CASE folder
    <3>1. room = TRUE /\ folder = TRUE
      BY <1>0, <2>4
    <3>2. c = NewFolder(NewChild(x, d, TRUE, name), store, n, TRUE)
      BY <1>2, <1>3, <1>5, <2>1, <3>1 DEF CreateIn, Creating
    <3>3. NewFolderIs(c, x, d, name, n, store)
      BY <3>2, Zenon DEF NewFolderIs
    <3>4. PICK Q, s : Shape(c.x, Q, s) /\ MadeFolder(x, c.x, P, Q, d, n, name) /\ c.ret = n
      BY <2>3, <3>3, MakeKeeps
    <3>6. Made(x, c.x, P, Q, d, n, folder, name, q)
      BY <1>1, <3>1, <3>4, Zenon DEF MadeFolder
    <3>5. Created(x, P, Q, d, folder, name, room, c)
      BY <1>1, <2>1, <2>2, <3>4, <3>6 DEF Created
    <3> QED
      BY <3>4, <3>5
  <2>5. CASE ~folder
    <3>1. folder = FALSE
      BY <1>0, <2>5
    <3>2. c = NewFile(OpenFileByIndex(NewChild(x, d, FALSE, name), n, "write", room), n)
      BY <1>2, <1>5, <2>1, <3>1 DEF CreateIn, Creating
    <3>3. NewFileIs(c, x, d, name, n, room)
      BY <3>2, Zenon DEF NewFileIs
    <3>4. PICK Q, s : /\ Shape(c.x, Q, s)
                      /\ \/ c.ret = n /\ MadeFile(x, c.x, P, Q, d, n, name)
                         \/ c.ret = Bad /\ ~room
      BY <1>0, <2>3, <3>3, NewFileKeeps
    <3>5. \/ c.ret = n /\ Made(x, c.x, P, Q, d, n, folder, name, q)
          \/ c.ret = Bad /\ ~room
      BY <1>1, <3>1, <3>4, Zenon DEF MadeFile
    <3>6. Created(x, P, Q, d, folder, name, room, c)
      BY <1>1, <2>1, <2>2, <2>5, <3>5 DEF Created
    <3> QED
      BY <3>4, <3>6
  <2> QED
    BY <2>4, <2>5
<1> QED
  BY <1>4, <1>5


(* Only file_ is another, and it is closed or open at a place of its object. *)
LEMMA ReopenedBut ==
  ASSUME NEW x, NEW P, NEW rk, NEW h, ShapeBut(x, P, rk, h), NEW y \in Machine,
         y.recs = x.recs, y.disk = x.disk, y.hung = x.hung, Opened(y, P)
  PROVE  ShapeBut(y, P, rk, h)
<1>1. Indexed(y) /\ Known(y, P) /\ Chain(y, DOMAIN P, Objs(P), rk)
  BY DEF ShapeBut, Indexed, Known, Chain
<1>2. /\ \A g \in DOMAIN P \ {h} : OnDisk(y, P, g)
      /\ \A g \in DOMAIN P : Full(y, P, g)
  BY DEF ShapeBut, OnDisk, Full
<1> QED
  BY <1>1, <1>2 DEF ShapeBut

(* Opening a file for reading changes neither index nor stores. *)
LEMMA OpenReadBut ==
  ASSUME NEW x, NEW P, NEW rk, NEW h \in Objs(P), ShapeBut(x, P, rk, h), P[h] \in DOMAIN x.disk,
         NEW room
  PROVE  /\ ShapeBut(OpenFileByIndex(x, h, "read", room), P, rk, h)
         /\ OpenFileByIndex(x, h, "read", room).recs = x.recs
         /\ OpenFileByIndex(x, h, "read", room).disk = x.disk
         /\ OpenFileByIndex(x, h, "read", room).file = P[h]
         /\ OpenFileByIndex(x, h, "read", room).open = h
<1>1. /\ x \in Machine /\ Indexed(x) /\ Known(x, P) /\ ~x.hung /\ Opened(x, P) /\ h \in DOMAIN P
      /\ h \in DOMAIN x.recs
  BY DEF ShapeBut, Known, Objs
<1>2. PICK p \in Where : p = P[h] /\ p \in DOMAIN x.disk /\ p = PlaceOf(x, h)
  <2>1. PlaceOf(x, h) = P[h]
    BY <1>1, PlaceIs
  <2>2. P[h] \in Where
    BY <1>1, KnownIs
  <2> QED
    BY <2>1, <2>2
<1>3. h \in Int
  BY <1>1, IndexSize
<1>4. PICK y : y = OpenFileByIndex(x, h, "read", room)
  OBVIOUS
<1>5. CASE x.file # NoFile /\ x.open = h /\ x.mode = "read"
  <2>1. y = x
    BY <1>4, <1>5 DEF OpenFileByIndex
  <2>2. x.file = P[h]
    BY <1>1, <1>5 DEF Opened
  <2> QED
    BY <1>4, <1>5, <2>1, <2>2
<1>6. CASE ~(x.file # NoFile /\ x.open = h /\ x.mode = "read")
  <2>1. y = OpenAt(x, h, p, "read", room)
    BY <1>2, <1>4, <1>6 DEF OpenFileByIndex
  <2>2. y = OpenedAt(x, h, p, "read")
    BY <1>2, <2>1 DEF OpenAt, CanOpen
  <2>3. y \in Machine /\ y.recs = x.recs /\ y.disk = x.disk /\ y.hung = x.hung /\ y.file = p /\ y.open = h
    BY <1>1, <1>2, <1>3, <2>2, OpenedAtIs
  <2>4. Opened(y, P)
    BY <1>1, <1>2, <2>3 DEF Opened
  <2>5. ShapeBut(y, P, rk, h)
    BY <2>3, <2>4, ReopenedBut
  <2> QED
    BY <1>2, <1>4, <2>3, <2>5
<1> QED
  BY <1>5, <1>6

(* close() of the file being sent: record and store agree again. *)
Closing(x, P, h) ==
  /\ h \in Objs(P) /\ ~x.recs[h].isdir /\ x.open = h
  /\ P[h] \in DOMAIN x.disk /\ x.disk[P[h]] # Dir
  /\ x.file = P[h] \/ (x.file = NoFile /\ x.disk[P[h]] = 0)

(* The empty place is no file: every place on a store is in a directory. *)
LEMMA NoFileIs ==
  ASSUME NEW d, WellFormed(d)
  PROVE  NoFile \notin DOMAIN d
<1>1. SUFFICES ASSUME NoFile \in DOMAIN d PROVE FALSE
  OBVIOUS
<1>2. PICK q : q = NoFile /\ Len(q) = 0
  BY DEF NoFile
<1>3. (\E s \in StoreId : q = <<s>>) \/ Len(q) > 1
  BY <1>1, <1>2 DEF WellFormed
<1>4. ASSUME NEW s \in StoreId, q = <<s>> PROVE FALSE
  <2>1. Len(<<s>>) = 1
    BY Single
  <2> QED
    BY <1>2, <1>4, <2>1
<1> QED
  BY <1>2, <1>3, <1>4

(* close() writes the size of the open file into its record: the file      *)
(* sent belongs to the tree again.                                         *)
LEMMA CloseBut ==
  ASSUME NEW x, NEW P, NEW rk, NEW h, ShapeBut(x, P, rk, h), Closing(x, P, h)
  PROVE  Shape(Close(x), P, rk)
<1>1. /\ x \in Machine /\ Known(x, P) /\ WellFormed(x.disk) /\ h \in Objs(P) /\ h \in DOMAIN x.recs
      /\ ~x.recs[h].isdir /\ x.open = h /\ P[h] \in DOMAIN x.disk /\ x.disk \in Discs
      /\ x.disk[P[h]] # Dir
  BY MachineFields DEF ShapeBut, Closing, Known, Objs
<1>2. PICK c \in Content : c = x.disk[P[h]]
  BY <1>1, DiscIs
<1>3. FileSize(x) = c
  <2>1. CASE x.file = P[h]
    BY <1>1, <1>2, <2>1 DEF FileSize
  <2>2. CASE x.file # P[h]
    <3>1. x.file \notin DOMAIN x.disk /\ c = 0
      BY <1>1, <1>2, <2>2, NoFileIs DEF Closing
    <3> QED
      BY <3>1 DEF FileSize
  <2> QED
    BY <2>1, <2>2
<1>4. Read(x, h) = x.recs[h]
  BY <1>1, ReadIs
<1>5. PICK y : y = Put(x, h, [Read(x, h) EXCEPT !.child = c])
  OBVIOUS
<1>6. ShapeBut(y, P, rk, h) /\ Sized(x, y, h, c)
  BY <1>1, <1>5, SizedKeeps
<1>7. Has(y, P[h], c) /\ Agrees(y, h, c)
  <2>1. y.disk = x.disk /\ y.recs[h].child = c /\ ~y.recs[h].isdir
    BY <1>1, <1>6 DEF Sized, Beside
  <2> QED
    BY <1>1, <1>2, <2>1, SizeAssumption DEF Has, Agrees, Dir
<1>8. Shape(y, P, rk)
  BY <1>1, <1>6, <1>7, ShapeAgain
<1>9. Close(x) = CloseFile(y)
  BY <1>1, <1>3, <1>4, <1>5 DEF Close
<1> QED
  BY <1>8, <1>9, CloseKeeps

(* What the host sends next is for the object o. *)
Sending(x, P, o) ==
  o # 0 => /\ o \in Objs(P) /\ ~x.recs[o].isdir
           /\ x.open \in {o, Orphan}
           /\ x.open = Orphan => x.file = NoFile
           /\ x.open = o => x.disk[P[o]] = 0

(* SendObject writes what the host sends into the open file. *)
Sent1(x, c) == IF x.file # NoFile /\ x.mode = "write" THEN [x EXCEPT !.disk = Filled(@, x.file, c)] ELSE x

(* SendObject leaves the object that SendObjectInfo made with the size     *)
(* its file has.                                                           *)
LEMMA SendKeeps ==
  ASSUME NEW x, NEW P, NEW rk, Shape(x, P, rk), NEW o, Sending(x, P, o), o # 0, NEW c \in Sent,
         NEW dated \in BOOLEAN, dated \/ x.open # Orphan
  PROVE  Shape(Close(IF dated THEN OpenFileByIndex(Sent1(x, c), o, "read", TRUE) ELSE Sent1(x, c)), P, rk)
<1>1. /\ o \in Objs(P) /\ ~x.recs[o].isdir /\ x.open \in {o, Orphan}
      /\ x.open = Orphan => x.file = NoFile
      /\ x.open = o => x.disk[P[o]] = 0
  BY DEF Sending
<1>2. /\ x \in Machine /\ WellFormed(x.disk) /\ ~x.hung /\ Opened(x, P) /\ x.disk \in Discs
      /\ o \in DOMAIN P /\ o \in DOMAIN x.recs /\ OnDisk(x, P, o) /\ ShapeBut(x, P, rk, o)
      /\ P[o] \in Where
  BY <1>1, MachineFields DEF Shape, ShapeBut, Known, Objs
<1>3. P[o] \in DOMAIN x.disk /\ x.disk[P[o]] # Dir
  BY <1>1, <1>2 DEF OnDisk
<1>4. x.file # NoFile => x.open = o /\ x.file = P[o]
  BY <1>1, <1>2 DEF Opened
<1>5. PICK y : y = Sent1(x, c)
  OBVIOUS
<1>6. /\ ShapeBut(y, P, rk, o) /\ y.recs = x.recs /\ y.open = x.open /\ y.file = x.file
      /\ P[o] \in DOMAIN y.disk /\ y.disk[P[o]] # Dir /\ (y.file = NoFile => y.disk = x.disk)
  <2>1. CASE x.file # NoFile /\ x.mode = "write"
    <3>1. PICK R : R = Filled(x.disk, P[o], c)
      OBVIOUS
    <3>2. c \in Content \cup {Dir} /\ c # Dir
      BY SizeAssumption DEF Dir
    <3>3. R \in Discs
      <4>1. PICK d, q : d = x.disk /\ q = P[o]
        OBVIOUS
      <4>2. d \in Discs /\ WellFormed(d) /\ q \in Where /\ q \in DOMAIN d /\ d[q] # Dir
        BY <1>2, <1>3, <4>1
      <4>3. Filled(d, q, c) \in Discs
        BY <3>2, <4>2, FilledIs
      <4> QED
        BY <3>1, <4>1, <4>3
    <3>4. y = [x EXCEPT !.disk = R]
      BY <1>4, <1>5, <2>1, <3>1 DEF Sent1
    <3>5. y \in Machine /\ y.recs = x.recs /\ y.disk = R /\ y.hung = x.hung /\ y.open = x.open /\ y.file = x.file
      BY <1>2, <3>3, <3>4 DEF Machine
    <3>6. FilledTo(x, y, P[o], c) /\ Fills(x, P, o, c) /\ Opened(y, P)
      BY <1>1, <1>2, <1>3, <3>1, <3>2, <3>5 DEF FilledTo, Fills, Opened
    <3>7. ShapeBut(y, P, rk, o) /\ Has(y, P[o], c)
      BY <1>2, <3>5, <3>6, FilledBut
    <3> QED
      BY <2>1, <3>2, <3>5, <3>7 DEF Has
  <2>2. CASE ~(x.file # NoFile /\ x.mode = "write")
    <3>1. y = x
      BY <1>5, <2>2 DEF Sent1
    <3> QED
      BY <1>2, <1>3, <3>1
  <2> QED
    BY <2>1, <2>2
<1>7. CASE dated
  <2>1. PICK room : room = TRUE
    OBVIOUS
  <2>2. PICK z : z = OpenFileByIndex(y, o, "read", room)
    OBVIOUS
  <2>3. ShapeBut(z, P, rk, o) /\ z.recs = y.recs /\ z.disk = y.disk /\ z.file = P[o] /\ z.open = o
    BY <1>1, <1>6, <2>2, OpenReadBut
  <2>4. Closing(z, P, o)
    BY <1>1, <1>6, <2>3 DEF Closing
  <2>5. Shape(Close(z), P, rk)
    BY <2>3, <2>4, CloseBut
  <2> QED
    BY <1>5, <1>7, <2>1, <2>2, <2>5
<1>8. CASE ~dated
  <2>1. x.open = o
    BY <1>1, <1>8
  <2>2. Closing(y, P, o)
    BY <1>1, <1>4, <1>6, <2>1 DEF Closing
  <2>3. Shape(Close(y), P, rk)
    BY <1>6, <2>2, CloseBut
  <2> QED
    BY <1>5, <1>8, <2>3
<1> QED
  BY <1>7, <1>8


(* Create called for a directory, which it scans first. *)
CreateCalled(x, P, d, folder, name, room, c) ==
  /\ d \in DOMAIN P /\ x.recs[d].isdir /\ name \in Names
  /\ folder \in BOOLEAN /\ room \in BOOLEAN /\ (folder => room)
  /\ c = CreateIn(ScanFolder(x, d), x.recs[d].store, d, folder, name, room)

(* Create lists the directory first. *)
LEMMA CreateKeeps ==
  ASSUME NEW x, NEW P, NEW rk, Shape(x, P, rk), NEW d, NEW folder, NEW name, NEW room, NEW c,
         CreateCalled(x, P, d, folder, name, room, c)
  PROVE  \E y, R, r, Q, s :
           /\ Shape(y, R, r) /\ Grown(x, y, P, R, {d}) /\ y.disk = x.disk
           /\ y.file = NoFile /\ y.open = Orphan /\ y.recs[d].scanned
           /\ (x.recs[d].scanned => y.recs = x.recs /\ R = P)
           /\ Shape(c.x, Q, s) /\ Created(y, R, Q, d, folder, name, room, c)
<1>1. PICK y : y = ScanFolder(x, d)
  OBVIOUS
<1>2. /\ d \in DOMAIN P /\ x.recs[d].isdir /\ name \in Names
      /\ folder \in BOOLEAN /\ room \in BOOLEAN /\ (folder => room)
      /\ c = CreateIn(y, x.recs[d].store, d, folder, name, room)
  BY <1>1 DEF CreateCalled
<1>3. \E R, r : /\ Shape(y, R, r) /\ Grown(x, y, P, R, {d}) /\ y.disk = x.disk
                /\ y.file = NoFile /\ y.open = Orphan /\ y.recs[d].scanned
                /\ (x.recs[d].scanned => y.recs = x.recs /\ R = P)
  <2>1. CASE x.recs[d].scanned
    <3>1. d \in DOMAIN x.recs /\ x \in Machine
      BY <1>2 DEF Shape, Known
    <3>2. Read(x, d) = x.recs[d]
      BY <3>1, ReadIs
    <3>3. y = CloseFile(x)
      BY <1>1, <2>1, <3>2 DEF ScanFolder
    <3>4. Shape(y, P, rk)
      BY <3>3, CloseKeeps
    <3>5. y.recs = x.recs /\ y.disk = x.disk /\ y.file = NoFile /\ y.open = Orphan
      BY <3>1, <3>3, CloseFileIs
    <3>6. Grown(x, y, P, P, {d})
      BY <3>5, GrownSame
    <3> QED
      BY <2>1, <3>4, <3>5, <3>6
  <2>2. CASE ~x.recs[d].scanned
    <3>1. PICK R, r : /\ Shape(y, R, r) /\ Grown(x, y, P, R, {h \in {d} : Unscanned(x, h)})
                      /\ y.disk = x.disk /\ y.file = NoFile /\ y.open = Orphan /\ y.recs[d].scanned
      BY <1>1, <1>2, ScanKeeps
    <3>2. Grown(x, y, P, R, {d})
      BY <3>1 DEF Grown
    <3> QED
      BY <2>2, <3>1, <3>2
  <2> QED
    BY <2>1, <2>2
<1>4. PICK R, r : /\ Shape(y, R, r) /\ Grown(x, y, P, R, {d}) /\ y.disk = x.disk
                  /\ y.file = NoFile /\ y.open = Orphan /\ y.recs[d].scanned
                  /\ (x.recs[d].scanned => y.recs = x.recs /\ R = P)
  BY <1>3
<1>5. d \in DOMAIN R /\ y.recs[d].isdir /\ y.recs[d].store = x.recs[d].store
  <2>1. d \in DOMAIN x.recs
    BY <1>2 DEF Shape, Known
  <2> QED
    BY <1>2, <1>4, <2>1 DEF Grown
<1>6. Creating(y, R, d, folder, name, room, c)
  BY <1>2, <1>4, <1>5 DEF Creating
<1>7. PICK Q, s : Shape(c.x, Q, s) /\ Created(y, R, Q, d, folder, name, room, c)
  BY <1>4, <1>6, CreateInKeeps
<1> QED
  BY <1>4, <1>7

(* SendObjectInfo: a directory is dated and closed at once, a file is left  *)
(* open for the data.                                                       *)
LEMMA SendInfoKeeps ==
  ASSUME NEW x, NEW P, NEW rk, Shape(x, P, rk), NEW d, NEW folder, NEW name, NEW room, NEW c,
         CreateCalled(x, P, d, folder, name, room, c), NEW z, NEW o,
         z = (IF folder /\ c.ret # Bad THEN Close(OpenFileByIndex(c.x, c.ret, "read", TRUE)) ELSE c.x),
         o = (IF folder \/ c.ret = Bad THEN 0 ELSE c.ret)
  PROVE  \E Q, s : Shape(z, Q, s) /\ Sending(z, Q, o)
<1>1. PICK y, R, r, Q, s :
        /\ Shape(y, R, r) /\ y.file = NoFile /\ y.open = Orphan
        /\ Shape(c.x, Q, s) /\ Created(y, R, Q, d, folder, name, room, c)
  BY CreateKeeps
<1>2. folder \in BOOLEAN
  BY DEF CreateCalled
<1>3. PICK n : n = c.ret
  OBVIOUS
<1>4. \/ n = Bad
      \/ /\ n \in Objs(Q) /\ c.x.recs[n].isdir = folder
         /\ ~folder => /\ c.x.open \in {n, Orphan}
                       /\ c.x.open = Orphan => c.x.file = NoFile
                       /\ c.x.open = n => c.x.disk[Q[n]] = 0
  <2>1. CASE c.x = y /\ Q = R /\ (c.ret = Bad \/ (c.ret \in Objs(R) /\ y.recs[c.ret].isdir = folder))
    <3>1. n # Bad => n \in Objs(Q) /\ n \in DOMAIN y.recs
      BY <1>1, <1>3, <2>1 DEF Shape, Known, Objs
    <3>2. y \in Machine
      BY <1>1 DEF Shape
    <3>3. n # Bad => n # Orphan
      BY <3>1, <3>2, IndexSize DEF Orphan
    <3> QED
      BY <1>1, <1>3, <2>1, <3>1, <3>3
  <2>2. CASE c.ret = NextHandle(y) /\ Made(y, c.x, R, Q, d, NextHandle(y), folder, name, Append(R[d], name))
    <3>1. PICK q : q = Append(R[d], name)
      OBVIOUS
    <3>2. Made(y, c.x, R, Q, d, n, folder, name, q)
      BY <1>3, <2>2, <3>1, Zenon
    <3>3. /\ n \in Nat /\ n \notin StoreId /\ Q = With(R, n, q) /\ c.x.recs[n].isdir = folder
          /\ ~folder => c.x.file = q /\ c.x.open = n /\ c.x.disk[q] = 0
      BY <3>2 DEF Made
    <3>4. n \in DOMAIN Q /\ Q[n] = q /\ n \in Objs(Q)
      BY <3>3 DEF With, Objs
    <3> QED
      BY <3>3, <3>4 DEF Orphan
  <2>3. CASE c.ret = Bad
    BY <1>3, <2>3
  <2> QED
    BY <1>1, <2>1, <2>2, <2>3 DEF Created
<1>5. CASE folder /\ n # Bad
  <2>1. PICK v : v = c.x
    OBVIOUS
  <2>2. PICK room2 : room2 = TRUE
    OBVIOUS
  <2>3. PICK u : u = OpenFileByIndex(v, n, "read", room2)
    OBVIOUS
  <2>4. n \in DOMAIN Q /\ n \in DOMAIN v.recs /\ v.recs[n].isdir /\ v \in Machine
    BY <1>1, <1>4, <1>5, <2>1 DEF Objs, Shape, Known
  <2>5. Shape(u, Q, s) /\ u.recs = v.recs /\ u.open = n
    BY <1>1, <2>1, <2>3, <2>4, OpenRead
  <2>6. Read(u, n).isdir
    BY <2>4, <2>5 DEF Read
  <2>7. Close(u) = CloseFile(u)
    BY <2>5, <2>6 DEF Close
  <2>8. z = CloseFile(u) /\ o = 0
    BY <1>3, <1>5, <2>1, <2>2, <2>3, <2>7
  <2>9. Shape(z, Q, s)
    BY <2>5, <2>8, CloseKeeps
  <2> QED
    BY <2>8, <2>9 DEF Sending
<1>6. CASE ~(folder /\ n # Bad)
  <2>1. z = c.x
    BY <1>3, <1>6
  <2>2. Sending(z, Q, o)
    <3>1. CASE o = 0
      BY <3>1 DEF Sending
    <3>2. CASE o # 0
      <4>1. ~folder /\ n # Bad /\ o = n
        BY <1>3, <3>2
      <4> QED
        BY <1>4, <2>1, <4>1 DEF Sending
    <3> QED
      BY <3>1, <3>2
  <2> QED
    BY <1>1, <2>1, <2>2
<1> QED
  BY <1>5, <1>6


(* What the walk of MapFileNameToIndex relies on: nothing of the stores.   *)
Walkable(x, P, rk) ==
  /\ x \in Machine /\ Indexed(x) /\ Known(x, P) /\ Chain(x, DOMAIN P, Objs(P), rk)
  /\ Apart(P) /\ StoreId \subseteq DOMAIN P
  /\ \A h \in Objs(P) : x.recs[x.recs[h].parent].scanned
(* e is the object that has the first n names of p, if the host knows it.  *)
WalkTo(p, P, n, e) ==
  \/ e \in DOMAIN P /\ P[e] = SubSeq(p, 1, n)
  \/ e = Bad /\ \A g \in DOMAIN P : P[g] # SubSeq(p, 1, n)

(* An object whose place is one more name is in the directory of that name. *)
LEMMA ParentAt ==
  ASSUME NEW x \in Machine, NEW P, Known(x, P), NEW q \in Where, NEW name \in Names, Len(q) >= 1,
         NEW g \in DOMAIN P, P[g] = Append(q, name)
  PROVE  g \in Objs(P) /\ x.recs[g].parent \in DOMAIN P /\ P[x.recs[g].parent] = q /\ x.recs[g].name = name
<1>1. PICK z \in Seq(Elem) : z = q /\ Len(z) \in Nat /\ Len(z) >= 1 /\ name \in Elem
  BY DEF Where, Elem
<1>2. Front(Append(z, name)) = z /\ Last(Append(z, name)) = name /\ Len(Append(z, name)) = Len(z) + 1
  BY <1>1, FrontLast, FrontOfAppend
<1>3. g \notin StoreId
  <2>0. \A s \in StoreId \cap DOMAIN P : Len(P[s]) = 1
    BY KnownIs
  <2>1. g \in StoreId => Len(P[g]) = 1
    BY <2>0, Zenon
  <2> QED
    BY <1>1, <1>2, <2>1
<1>4. PICK f, e : /\ f = x.recs[g].parent /\ e = x.recs[g].name /\ f \in DOMAIN P /\ e \in Elem
                  /\ P[g] = Append(P[f], e) /\ P[f] \in Seq(Elem)
  <2>1. /\ x.recs[g].parent \in DOMAIN P /\ x.recs[g].name \in Elem
        /\ P[g] = Append(P[x.recs[g].parent], x.recs[g].name)
    BY <1>3, KnownIs
  <2>2. P[x.recs[g].parent] \in Seq(Elem)
    BY <2>1, KnownIs
  <2> QED
    BY <2>1, <2>2
<1>5. Front(Append(P[f], e)) = P[f] /\ Last(Append(P[f], e)) = e
  BY <1>4, FrontLast, FrontOfAppend
<1>6. P[f] = z /\ e = name
  BY <1>1, <1>2, <1>4, <1>5, Zenon
<1> QED
  BY <1>1, <1>3, <1>4, <1>6 DEF Objs

(* One step of MapFileNameToIndex finds the child with the name exactly    *)
(* when the tree has it.                                                   *)
LEMMA EnteringIs ==
  ASSUME NEW x, NEW P, NEW rk, Walkable(x, P, rk), NEW d \in DOMAIN P, NEW name \in Names
  PROVE  \/ Entering(x, d, name) \in DOMAIN P /\ P[Entering(x, d, name)] = Append(P[d], name)
         \/ Entering(x, d, name) = Bad /\ \A g \in DOMAIN P : P[g] # Append(P[d], name)
<1>1. /\ x \in Machine /\ Indexed(x) /\ Known(x, P) /\ Apart(P)
      /\ Chain(x, DOMAIN P, Objs(P), rk) /\ Objs(P) = DOMAIN P \ StoreId
      /\ \A h \in Objs(P) : x.recs[x.recs[h].parent].scanned
  BY DEF Walkable, Objs
<1>2. PICK D, O : D = DOMAIN P /\ O = Objs(P)
  OBVIOUS
<1>3. Chain(x, D, O, rk) /\ d \in D /\ d \in DOMAIN x.recs /\ Read(x, d) = x.recs[d]
  BY <1>1, <1>2, ReadIs DEF Known
<1>4. PICK k : k = ChildNamed(x, d, name)
  OBVIOUS
<1>5. PICK e : e = Entering(x, d, name)
  OBVIOUS
<1>6. ASSUME x.recs[d].isdir
      PROVE  /\ k = 0 => \A h \in O : x.recs[h].parent = d => x.recs[h].name # name
             /\ k # 0 => k \in O /\ x.recs[k].parent = d /\ x.recs[k].name = name
  <2>1. /\ ChildNamed(x, d, name) = 0 => \A h \in O : x.recs[h].parent = d => x.recs[h].name # name
        /\ ChildNamed(x, d, name) # 0 =>
              /\ ChildNamed(x, d, name) \in O
              /\ x.recs[ChildNamed(x, d, name)].parent = d
              /\ x.recs[ChildNamed(x, d, name)].name = name
    BY <1>1, <1>3, <1>6, ChildNamedIs
  <2> QED
    BY <1>4, <2>1, Zenon
<1>7. PICK q : q = Append(P[d], name)
  OBVIOUS
<1>8. CASE CanWalk(x, d) /\ k # 0
  <2>1. e = k /\ x.recs[d].isdir
    BY <1>3, <1>4, <1>5, <1>8 DEF Entering, CanWalk
  <2>2. k \in DOMAIN P \ StoreId /\ x.recs[k].parent = d /\ x.recs[k].name = name
    BY <1>1, <1>2, <1>6, <1>8, <2>1
  <2>3. P[k] = Append(P[x.recs[k].parent], x.recs[k].name)
    BY <1>1, <2>2 DEF Known
  <2>4. P[k] = q
    BY <1>7, <2>2, <2>3, Zenon
  <2> QED
    BY <1>5, <1>7, <2>1, <2>2, <2>4
<1>9. CASE ~(CanWalk(x, d) /\ k # 0)
  <2>1. e = Bad
    BY <1>4, <1>5, <1>9 DEF Entering
  <2>2. ASSUME NEW g \in DOMAIN P, P[g] = q PROVE FALSE
    <3>1. PICK z : z = P[d] /\ z \in Where /\ Len(z) >= 1
      BY <1>1, KnownIs
    <3>2. P[g] = Append(z, name)
      BY <1>7, <2>2, <3>1
    <3>3. g \in Objs(P) /\ x.recs[g].parent \in DOMAIN P /\ P[x.recs[g].parent] = z /\ x.recs[g].name = name
      BY <1>1, <3>1, <3>2, ParentAt
    <3>4. x.recs[g].parent = d
      BY <1>1, <3>1, <3>3 DEF Apart
    <3>5. x.recs[d].isdir /\ x.recs[d].scanned
      BY <1>1, <3>3, <3>4 DEF Known
    <3>6. CanWalk(x, d)
      BY <1>3, <3>5 DEF CanWalk
    <3>7. k = 0
      BY <1>9, <3>6
    <3> QED
      BY <1>2, <1>6, <3>3, <3>4, <3>5, <3>7
  <2> QED
    BY <1>5, <1>7, <2>1, <2>2
<1> QED
  BY <1>8, <1>9

(* One more name on the way to a place. *)
LEMMA Lengthened ==
  ASSUME NEW p \in Where, NEW n \in Nat, n >= 1, n < Len(p)
  PROVE  /\ SubSeq(p, 1, n) \in Where /\ Len(SubSeq(p, 1, n)) = n
         /\ SubSeq(p, 1, n + 1) = Append(SubSeq(p, 1, n), p[n + 1])
         /\ Tail(p)[n] = p[n + 1] /\ Len(Tail(p)) = Len(p) - 1
<1>1. p \in Seq(Elem) /\ Len(p) \in Nat
  BY DEF Where
<1>2. Tail(p)[n] = p[n + 1] /\ Len(Tail(p)) = Len(p) - 1
  BY <1>1
<1>3. SubSeq(p, 1, n) \in Seq(Elem) /\ Len(SubSeq(p, 1, n)) = n
  BY <1>1
<1>4. SubSeq(p, 1, n + 1) = Append(SubSeq(p, 1, n), p[n + 1])
  BY <1>1
<1> QED
  BY <1>2, <1>3, <1>4 DEF Where


(* A place in a store, not the store itself. *)
Named1(p) == p \in Where /\ Len(p) > 1 /\ p[1] \in StoreId /\ \A i \in 2 .. Len(p) : p[i] \in Names
(* The function that the walk of MapFileNameToIndex makes. *)
Steps(x, d, names, h) == h = [n \in 0 .. Len(names) - 1 |->
  IF n = 0 THEN d ELSE Entering(x, h[n - 1], names[n])]

(* A walk that has come to the object with the first names goes on to      *)
(* the one with one name more.                                             *)
LEMMA EnteringKeeps ==
  ASSUME NEW x, NEW P, NEW rk, Walkable(x, P, rk), NEW p, Named1(p),
         NEW n \in Nat, n >= 1, n < Len(p), NEW d, WalkTo(p, P, n, d)
  PROVE  WalkTo(p, P, n + 1, Entering(x, d, Tail(p)[n]))
<1>1. x \in Machine /\ Known(x, P) /\ p \in Where /\ Len(p) \in Nat
  BY DEF Walkable, Named1, Where
<1>2. PICK q : q = SubSeq(p, 1, n) /\ q \in Where /\ Len(q) = n
  BY <1>1, Lengthened
<1>3. PICK name \in Names : name = p[n + 1] /\ name = Tail(p)[n]
  <2>1. n + 1 \in 2 .. Len(p)
    BY <1>1
  <2>2. p[n + 1] \in Names
    BY <2>1 DEF Named1
  <2>3. Tail(p)[n] = p[n + 1]
    BY <1>1, Lengthened
  <2> QED
    BY <2>2, <2>3
<1>4. PICK q2 : q2 = SubSeq(p, 1, n + 1) /\ q2 = Append(q, name)
  <2>1. SubSeq(p, 1, n + 1) = Append(SubSeq(p, 1, n), p[n + 1])
    BY <1>1, Lengthened
  <2> QED
    BY <1>2, <1>3, <2>1, Zenon
<1>5. PICK e : e = Entering(x, d, name)
  OBVIOUS
<1>6. \/ e \in DOMAIN P /\ P[e] = q2
      \/ e = Bad /\ \A g \in DOMAIN P : P[g] # q2
  <2>1. CASE d \in DOMAIN P /\ P[d] = q
    <3>1. \/ Entering(x, d, name) \in DOMAIN P /\ P[Entering(x, d, name)] = Append(P[d], name)
          \/ Entering(x, d, name) = Bad /\ \A g \in DOMAIN P : P[g] # Append(P[d], name)
      BY <2>1, EnteringIs
    <3>2. Append(P[d], name) = q2
      BY <1>4, <2>1
    <3> QED
      BY <1>5, <3>1, <3>2, Zenon
  <2>2. CASE d = Bad /\ \A g \in DOMAIN P : P[g] # q
    <3>1. d \notin DOMAIN x.recs
      BY <1>1, <2>2, IndexSize DEF Bad
    <3>2. ~Read(x, d).isdir
      BY <1>1, <3>1, ReadIs DEF ZeroRec
    <3>3. e = Bad
      BY <1>5, <3>2 DEF Entering, CanWalk
    <3>4. ASSUME NEW g \in DOMAIN P, P[g] = q2 PROVE FALSE
      <4>1. P[g] = Append(q, name)
        BY <1>4, <3>4
      <4>2. x.recs[g].parent \in DOMAIN P /\ P[x.recs[g].parent] = q
        <5>1. q \in Where /\ Len(q) >= 1 /\ x \in Machine /\ Known(x, P)
          BY <1>1, <1>2
        <5> QED
          BY <4>1, <5>1, ParentAt
      <4> QED
        BY <2>2, <4>2
    <3> QED
      BY <3>3, <3>4
  <2> QED
    BY <1>2, <2>1, <2>2 DEF WalkTo
<1>7. WalkTo(p, P, n + 1, e)
  BY <1>4, <1>6, Zenon DEF WalkTo
<1> QED
  BY <1>3, <1>5, <1>7

(* The first part of a place is the store it is in. *)
LEMMA FirstOnly ==
  ASSUME NEW p \in Seq(Elem), Len(p) > 1
  PROVE  SubSeq(p, 1, 1) = <<p[1]>>
<1>0. Len(p) \in Nat /\ p[1] \in Elem /\ 1 \in Nat /\ 1 >= 1 /\ 1 < Len(p) /\ p \in Where
  BY DEF Where
<1>1. PICK n : n = 1
  OBVIOUS
<1>2. PICK z \in Seq(Elem) : z = SubSeq(p, 1, n) /\ Len(z) = n
  BY <1>0, <1>1, Lengthened DEF Where
<1>3. z[1] = p[1]
  BY <1>0, <1>1, <1>2
<1>4. PICK w \in Seq(Elem) : w = <<p[1]>> /\ Len(w) = 1 /\ w[1] = p[1]
  BY <1>0, Single
<1>5. IsPrefix(z, w)
  <2>1. Len(z) = 1 /\ Len(w) = 1 /\ z[1] = w[1]
    BY <1>1, <1>2, <1>3, <1>4
  <2>2. z \in Seq(Elem) /\ w \in Seq(Elem)
    BY <1>2, <1>4
  <2>3. IsPrefix(z, w) <=> Len(z) <= Len(w) /\ \A i \in 1 .. Len(z) : z[i] = w[i]
    BY <2>2, PrefixIs
  <2> QED
    BY <2>1, <2>3
<1>6. z = w
  <2>1. Len(z) = Len(w) /\ z \in Seq(Elem) /\ w \in Seq(Elem)
    BY <1>1, <1>2, <1>4
  <2>2. \A q \in Seq(Elem) : IsPrefix(z, q) /\ Len(z) = Len(q) => z = q
    BY <2>1, PrefixFacts
  <2> QED
    BY <1>5, <2>1, <2>2, Zenon
<1> QED
  BY <1>1, <1>2, <1>4, <1>6, Zenon

(* MapFileNameToIndex comes to the directory the place is in, if the       *)
(* host knows that one.                                                    *)
LEMMA WalkedIs ==
  ASSUME NEW x, NEW P, NEW rk, Walkable(x, P, rk), NEW p, Named1(p)
  PROVE  \E e : WalkTo(p, P, Len(p) - 1, e) /\ Walked(x, p[1], Tail(p)) = Reached(x, e)
<1> DEFINE names == Tail(p)
           N == Len(names) - 1
           S == DOMAIN P \cup {Bad}
           step == [n \in 1 .. N |-> [d \in S |-> Entering(x, d, names[n])]]
<1>0. p \in Seq(Elem) /\ Len(p) \in Nat /\ p[1] \in StoreId /\ Len(p) > 1
  BY DEF Named1, Where
<1>1. N \in Nat /\ N = Len(p) - 2
  BY <1>0
<1>2. p[1] \in S /\ StoreId \subseteq DOMAIN P /\ x \in Machine /\ Known(x, P)
  BY <1>0 DEF Walkable
<1>3. ASSUME NEW n \in 1 .. N PROVE names[n] \in Names
  <2>1. names[n] = p[n + 1] /\ n + 1 \in 2 .. Len(p)
    BY <1>0, <1>1
  <2> QED
    BY <2>1 DEF Named1
<1>4. ASSUME NEW n \in 1 .. N, NEW d \in S PROVE Entering(x, d, names[n]) \in S
  <2>1. CASE d \in DOMAIN P
    <3> HIDE DEF names
    <3> QED
      BY <1>3, <2>1, EnteringIs
  <2>2. CASE d = Bad
    <3>1. d \notin DOMAIN x.recs
      BY <1>2, <2>2, IndexSize DEF Bad
    <3>2. ~Read(x, d).isdir
      BY <1>2, <3>1, ReadIs DEF ZeroRec
    <3> QED
      BY <3>2 DEF Entering, CanWalk
  <2> QED
    BY <2>1, <2>2
<1>5. step \in [1 .. N -> [S -> S]]
  <2> HIDE DEF S, N, names
  <2> QED
    BY <1>4
<1>6. PICK g \in [0 .. N -> S] : Repeats(g, N, p[1], step)
  <2> HIDE DEF step, S, N
  <2> QED
    BY <1>1, <1>2, <1>5, Recursion, Zenon
<1>7. Steps(x, p[1], names, g)
  <2>1. ASSUME NEW n \in 0 .. N PROVE g[n] = IF n = 0 THEN p[1] ELSE Entering(x, g[n - 1], names[n])
    <3>1. CASE n = 0
      <4> HIDE DEF step, S, N
      <4> QED
        BY <1>1, <1>6, <3>1 DEF Repeats
    <3>2. CASE n # 0
      <4>1. n \in 1 .. N /\ n - 1 \in 0 .. N
        BY <1>1, <3>2
      <4>2. g[n - 1] \in S
        BY <4>1
      <4>3. g[n] = step[n][g[n - 1]]
        <5> HIDE DEF step, S, N
        <5> QED
          BY <1>6, <3>2, <4>1 DEF Repeats
      <4> HIDE DEF S, N, names
      <4> QED
        BY <3>2, <4>1, <4>2, <4>3
    <3> QED
      BY <3>1, <3>2
  <2> HIDE DEF step, S, names
  <2> QED
    BY <1>6, <2>1 DEF Steps
<1> HIDE DEF step
<1>8. PICK f : f = CHOOSE h : Steps(x, p[1], names, h)
  OBVIOUS
<1>9. Walked(x, p[1], Tail(p)) = Reached(x, f[N])
  BY <1>8 DEF Walked, Steps
<1>10. Steps(x, p[1], names, f)
  <2> HIDE DEF N, names
  <2> QED
    BY <1>7, <1>8
<1>11. \A n \in 0 .. N : f[n] = IF n = 0 THEN p[1] ELSE Entering(x, f[n - 1], names[n])
  BY <1>10, Zenon DEF Steps
<1> DEFINE T == {n \in 0 .. N : WalkTo(p, P, n + 1, f[n])}
<1>12. 0 \in T
  <2>1. f[0] = p[1] /\ P[p[1]] = <<p[1]>>
    <3>1. p[1] \in DOMAIN P
      BY <1>0, <1>2
    <3> QED
      <4>1. \A s \in StoreId \cap DOMAIN P : P[s] = <<s>>
        BY <1>2, KnownIs
      <4>2. 0 \in 0 .. N
        BY <1>1
      <4>3. f[0] = p[1]
        <5> HIDE DEF N
        <5> QED
          BY <1>11, <4>2
      <4> QED
        BY <1>0, <3>1, <4>1, <4>3
  <2>2. SubSeq(p, 1, 1) = <<p[1]>>
    BY <1>0, FirstOnly
  <2>3. WalkTo(p, P, 1, p[1])
    BY <1>0, <1>2, <2>1, <2>2 DEF WalkTo
  <2> QED
    BY <1>1, <2>1, <2>3
<1>13. \A n \in 1 .. N : n - 1 \in T => n \in T
  <2> SUFFICES ASSUME NEW n \in 1 .. N, n - 1 \in T PROVE n \in T
    OBVIOUS
  <2>1. n \in 0 .. N /\ n # 0 /\ n \in Nat /\ n >= 1 /\ n < Len(p) /\ (n - 1) + 1 = n
    BY <1>1
  <2>2. f[n] = Entering(x, f[n - 1], names[n])
    BY <1>11, <2>1
  <2>3. WalkTo(p, P, n, f[n - 1])
    BY <2>1
  <2>4. WalkTo(p, P, n + 1, Entering(x, f[n - 1], Tail(p)[n]))
    BY <2>1, <2>3, EnteringKeeps
  <2> QED
    BY <2>1, <2>2, <2>4
<1>14. WalkTo(p, P, N + 1, f[N])
  <2>1. 0 .. N \subseteq T
    <3> HIDE DEF T, N
    <3> QED
      BY <1>1, <1>12, <1>13, Induct, Zenon
  <2> QED
    BY <1>1, <2>1
<1>15. N + 1 = Len(p) - 1
  BY <1>0, <1>1
<1> QED
  BY <1>9, <1>14, <1>15

(* The walk ends at the directory a path names, if that has been listed.   *)
LEMMA ListedIs ==
  ASSUME NEW x, NEW P, NEW rk, Walkable(x, P, rk), NEW p, Named1(p)
  PROVE  \/ /\ Listed(x, p) \in DOMAIN P /\ P[Listed(x, p)] = Front(p)
            /\ x.recs[Listed(x, p)].isdir /\ x.recs[Listed(x, p)].scanned
         \/ /\ Listed(x, p) = Bad
            /\ \A g \in DOMAIN P : P[g] = Front(p) => ~(x.recs[g].isdir /\ x.recs[g].scanned)
<1>1. PICK e : WalkTo(p, P, Len(p) - 1, e) /\ Walked(x, p[1], Tail(p)) = Reached(x, e)
  BY WalkedIs
<1>2. x \in Machine /\ Known(x, P) /\ Apart(P) /\ p \in Seq(Elem) /\ StoreId \subseteq DOMAIN x.recs
  BY DEF Walkable, Named1, Where, Known
<1>3. Listed(x, p) = Reached(x, e)
  BY <1>1, <1>2, ZeroIsStore DEF Listed, Generated
<1>4. SubSeq(p, 1, Len(p) - 1) = Front(p)
  BY DEF Front
<1>5. CASE e \in DOMAIN P /\ P[e] = Front(p)
  <2>1. Read(x, e) = x.recs[e]
    BY <1>2, <1>5, ReadIs DEF Known
  <2>2. CASE CanWalk(x, e)
    BY <1>3, <1>5, <2>1, <2>2 DEF Reached, CanWalk
  <2>3. CASE ~CanWalk(x, e)
    <3>1. Listed(x, p) = Bad
      BY <1>3, <2>3 DEF Reached
    <3>2. \A g \in DOMAIN P : P[g] = Front(p) => g = e
      BY <1>2, <1>5 DEF Apart
    <3> QED
      BY <2>1, <2>3, <3>1, <3>2 DEF CanWalk
  <2> QED
    BY <2>2, <2>3
<1>6. CASE e = Bad /\ \A g \in DOMAIN P : P[g] # Front(p)
  <2>1. Read(x, e) = ZeroRec
    BY <1>2, <1>6, IndexSize, ReadIs DEF Bad
  <2>2. Listed(x, p) = Bad
    BY <1>3, <2>1 DEF Reached, CanWalk, ZeroRec
  <2> QED
    BY <1>6, <2>2
<1> QED
  BY <1>1, <1>4, <1>5, <1>6 DEF WalkTo


(* The sketch puts c at p.                                                 *)
Adding(x, p, c) == Named1(p) /\ CanHold(x.disk, p) /\ c \in Content \cup {Dir}
(* The sketch put c at p, and nothing else changed. *)
Added(x, y, p, c) ==
  /\ y \in Machine /\ WellFormed(y.disk) /\ y.recs = x.recs
  /\ y.file = x.file /\ y.open = x.open /\ y.hung = x.hung
  /\ DOMAIN y.disk = DOMAIN x.disk \cup {p} /\ y.disk[p] = c /\ c \in Content \cup {Dir}
  /\ \A q \in DOMAIN x.disk : y.disk[q] = x.disk[q]
  /\ p \notin DOMAIN x.disk /\ p \in Where /\ Len(p) > 1 /\ Len(Front(p)) >= 1 /\ Front(p) \in Where
  /\ Last(p) \in Names /\ p = Append(Front(p), Last(p))

(* What the sketch writes is all that changes on the stores. *)
LEMMA AddedIs ==
  ASSUME NEW x \in Machine, WellFormed(x.disk), NEW p, NEW c, Adding(x, p, c),
         NEW y, y = [x EXCEPT !.disk = Filled(@, p, c)]
  PROVE  Added(x, y, p, c)
<1>1. /\ p \in Seq(Elem) /\ p \in Where /\ Len(p) > 1 /\ Len(p) \in Nat /\ CanHold(x.disk, p)
      /\ c \in Content \cup {Dir} /\ x.disk \in Discs
  BY MachineFields DEF Adding, Named1, Where
<1>2. Len(Front(p)) >= 1 /\ Front(p) \in Where /\ p = Append(Front(p), Last(p))
  BY <1>1, FrontLast DEF Where
<1>3. Last(p) \in Names
  <2>1. Last(p) = p[Len(p)]
    BY DEF Last
  <2>2. Len(p) \in 2 .. Len(p)
    BY <1>1
  <2> QED
    BY <2>1, <2>2 DEF Adding, Named1
<1>4. /\ Filled(x.disk, p, c) \in Discs /\ WellFormed(Filled(x.disk, p, c))
      /\ DOMAIN Filled(x.disk, p, c) = DOMAIN x.disk \cup {p} /\ Filled(x.disk, p, c)[p] = c
      /\ \A q \in DOMAIN x.disk \ {p} : Filled(x.disk, p, c)[q] = x.disk[q]
  BY <1>1, <1>3, FilledIs
<1>5. PICK d : d = Filled(x.disk, p, c)
  OBVIOUS
<1>6. y = [x EXCEPT !.disk = d]
  BY <1>5
<1>7. d \in Discs
  BY <1>4, <1>5
<1>8. /\ y \in Machine /\ y.recs = x.recs /\ y.disk = d
      /\ y.file = x.file /\ y.open = x.open /\ y.hung = x.hung
  BY <1>6, <1>7 DEF Machine
<1>9. p \notin DOMAIN x.disk
  BY <1>1 DEF CanHold
<1> QED
  BY <1>1, <1>2, <1>3, <1>4, <1>5, <1>8, <1>9 DEF Added

(* The walk relies on nothing of the stores, so it may start before the    *)
(* index knows of p.                                                       *)
LEMMA AddedWalkable ==
  ASSUME NEW x, NEW P, NEW rk, Shape(x, P, rk), DOMAIN x.recs # {}, NEW p, NEW c, NEW y,
         y = x \/ Added(x, y, p, c)
  PROVE  Walkable(y, P, rk)
<1>1. /\ x \in Machine /\ Indexed(x) /\ Known(x, P) /\ Chain(x, DOMAIN P, Objs(P), rk) /\ Apart(P)
      /\ \A d \in DOMAIN P : Full(x, P, d)
  BY DEF Shape
<1>2. StoreId \subseteq DOMAIN P
  BY <1>1 DEF Indexed, Known
<1>3. ASSUME NEW h \in Objs(P) PROVE x.recs[x.recs[h].parent].scanned
  <2>1. PICK d : d = x.recs[h].parent /\ d \in DOMAIN P /\ x.recs[d].isdir
    BY <1>1 DEF Known, Objs
  <2>2. Full(x, P, d)
    BY <1>1, <2>1
  <2> QED
    BY <2>1, <2>2 DEF Full
<1>4. y \in Machine /\ y.recs = x.recs
  BY <1>1 DEF Added
<1>5. Indexed(y) /\ Known(y, P) /\ Chain(y, DOMAIN P, Objs(P), rk)
  BY <1>1, <1>4 DEF Indexed, Known, Chain
<1> QED
  BY <1>1, <1>2, <1>3, <1>4, <1>5 DEF Walkable

(* In a directory that was not listed nothing is noted of it.              *)
LEMMA UnlistedKeeps ==
  ASSUME NEW x, NEW P, NEW rk, Shape(x, P, rk), NEW p, NEW c, NEW y, Added(x, y, p, c),
         \A g \in DOMAIN P : P[g] = Front(p) => ~(x.recs[g].isdir /\ x.recs[g].scanned)
  PROVE  Shape(y, P, rk)
<1>1. /\ x \in Machine /\ Indexed(x) /\ Known(x, P) /\ Chain(x, DOMAIN P, Objs(P), rk) /\ Apart(P)
      /\ \A d \in DOMAIN P : OnDisk(x, P, d)
      /\ \A d \in DOMAIN P : Full(x, P, d)
      /\ ~x.hung /\ Opened(x, P)
  BY DEF Shape
<1>2. /\ y \in Machine /\ WellFormed(y.disk) /\ y.recs = x.recs
      /\ y.file = x.file /\ y.open = x.open /\ y.hung = x.hung
      /\ DOMAIN y.disk = DOMAIN x.disk \cup {p}
      /\ \A q \in DOMAIN x.disk : y.disk[q] = x.disk[q]
  BY DEF Added
<1>3. Indexed(y) /\ Known(y, P) /\ Chain(y, DOMAIN P, Objs(P), rk)
  BY <1>1, <1>2 DEF Indexed, Known, Chain
<1>4. \A d \in DOMAIN P : OnDisk(y, P, d)
  BY <1>1, <1>2 DEF OnDisk
<1>5. ASSUME NEW d \in DOMAIN P PROVE Full(y, P, d)
  <2>1. Full(x, P, d)
    BY <1>1
  <2>2. CASE x.recs[d].isdir /\ x.recs[d].scanned
    <3>1. ASSUME NEW e \in Names, Append(P[d], e) \in DOMAIN y.disk
          PROVE  \E h \in DOMAIN P : P[h] = Append(P[d], e)
      <4>1. Append(P[d], e) # p
        <5>1. PICK z \in Seq(Elem) : z = P[d] /\ e \in Elem
          BY <1>1, KnownIs DEF Elem
        <5>2. Front(Append(z, e)) = z
          BY <5>1, FrontOfAppend
        <5>3. z # Front(p)
          BY <2>2, <5>1
        <5> QED
          BY <5>1, <5>2, <5>3, Zenon
      <4>2. Append(P[d], e) \in DOMAIN x.disk
        BY <1>2, <3>1, <4>1
      <4> QED
        BY <2>1, <2>2, <4>2 DEF Full
    <3> QED
      BY <1>2, <2>2, <3>1 DEF Full
  <2>3. CASE ~(x.recs[d].isdir /\ x.recs[d].scanned)
    BY <1>2, <2>1, <2>3 DEF Full
  <2> QED
    BY <2>2, <2>3
<1>6. Opened(y, P)
  BY <1>1, <1>2 DEF Opened
<1> QED
  BY <1>1, <1>2, <1>3, <1>4, <1>5, <1>6 DEF Shape

(* The record n of what is at p now, the first in the list of d.           *)
NotedAt(y, z, P, d, n, p, c) ==
  /\ n = NextHandle(y) /\ n \in Nat /\ n \notin DOMAIN y.recs /\ n \notin StoreId
  /\ z \in Machine /\ DOMAIN z.recs = DOMAIN y.recs \cup {n}
  /\ z.disk = y.disk /\ z.file = NoFile /\ z.open = y.open /\ z.hung = y.hung
  /\ z.recs[n].store = y.recs[d].store /\ z.recs[n].parent = d
  /\ z.recs[n].sibling = y.recs[d].child
  /\ z.recs[n].child = (IF c = Dir THEN 0 ELSE c) /\ z.recs[n].isdir = (c = Dir)
  /\ ~z.recs[n].scanned /\ z.recs[n].name = Last(p)
  /\ z.recs[d].child = n
  /\ Grown(y, z, P, With(P, n, p), {d})

(* The record the walk writes for p is a new first child of d; nothing     *)
(* else changes.                                                           *)
LEMMA NotedIs ==
  ASSUME NEW y \in Machine, NEW P, Indexed(y), Known(y, P), NEW d \in DOMAIN P, y.recs[d].isdir,
         NEW c \in Content \cup {Dir}, NEW p, y.disk[p] = c, Last(p) \in Names
  PROVE  NotedAt(y, Noted(y, d, p), P, d, NextHandle(y), p, c)
<1>1. /\ y \in Machine /\ Indexed(y) /\ Known(y, P) /\ DOMAIN P \subseteq DOMAIN y.recs
      /\ d \in DOMAIN y.recs
  BY DEF Known
<1>2. PICK e \in Rec : e = y.recs[d] /\ e = Read(y, d)
  BY <1>1, ReadIs
<1>3. PICK n : n = NextHandle(y)
  OBVIOUS
<1>4. n \in Nat /\ n \notin DOMAIN y.recs /\ d \in Int /\ d # n
  BY <1>1, <1>3, IndexSize
<1>5. n \notin StoreId
  BY <1>1, <1>4 DEF Indexed
<1>6. PICK r : r = [store |-> e.store, parent |-> d, sibling |-> e.child,
                    child |-> IF c = Dir THEN 0 ELSE c, isdir |-> c = Dir, scanned |-> FALSE,
                    name |-> Last(p)]
  OBVIOUS
<1>7. /\ r \in Rec /\ r.store = e.store /\ r.parent = d /\ r.sibling = e.child
      /\ r.child = (IF c = Dir THEN 0 ELSE c)
      /\ r.isdir = (c = Dir) /\ ~r.scanned /\ r.name = Last(p)
  <2>1. (IF c = Dir THEN 0 ELSE c) \in Int
    BY SizeAssumption
  <2>2. (c = Dir) \in BOOLEAN /\ FALSE \in BOOLEAN /\ e.store \in StoreId /\ e.child \in Int
    BY <1>2 DEF Rec
  <2>3. r \in Rec
    BY <1>4, <1>6, <2>1, <2>2 DEF Rec
  <2> QED
    BY <1>6, <2>3
<1>8. PICK v : v = [y EXCEPT !.file = NoFile]
  OBVIOUS
<1>9. /\ v \in Machine /\ v.recs = y.recs /\ v.disk = y.disk /\ v.file = NoFile
      /\ v.open = y.open /\ v.hung = y.hung /\ NextHandle(v) = n
  <2>1. NoFile \in Where
    BY EmptySeq DEF NoFile, Where
  <2> QED
    BY <1>3, <1>8, <2>1 DEF Machine, NextHandle
<1>10. PICK a : a = Add(v, r)
  OBVIOUS
<1>11. /\ a \in Machine /\ DOMAIN a.recs = DOMAIN y.recs \cup {n} /\ Beside(v, a)
       /\ \A g \in DOMAIN y.recs : a.recs[g] = y.recs[g]
       /\ a.recs[n] = r
  BY <1>7, <1>9, <1>10, AddIs
<1>12. PICK r2 : r2 = [e EXCEPT !.child = n]
  OBVIOUS
<1>13. /\ r2 \in Rec /\ r2.store = e.store /\ r2.parent = e.parent /\ r2.sibling = e.sibling
       /\ r2.child = n /\ r2.isdir = e.isdir /\ r2.scanned = e.scanned /\ r2.name = e.name
  BY <1>4, <1>12 DEF Rec
<1>14. PICK z : z = Noted(y, d, p)
  OBVIOUS
<1>15. z = Put(a, d, r2)
  <2>1. r = Entry(y, d, p, e.child)
    BY <1>2, <1>6 DEF Entry
  <2> QED
    BY <1>2, <1>3, <1>8, <1>10, <1>12, <1>14, <2>1 DEF Noted
<1>16. PutTo(a, z, d, r2)
  <2>1. d \in DOMAIN a.recs
    BY <1>1, <1>11
  <2> QED
    BY <1>11, <1>13, <1>15, <2>1, PutFields
<1>17. z.recs[n] = r /\ DOMAIN z.recs = DOMAIN y.recs \cup {n} /\ z \in Machine /\ Beside(v, z)
  BY <1>4, <1>11, <1>16 DEF PutTo, Beside
<1>18. /\ z.recs[d].store = e.store /\ z.recs[d].parent = e.parent /\ z.recs[d].sibling = e.sibling
       /\ z.recs[d].child = n /\ z.recs[d].isdir = e.isdir /\ z.recs[d].scanned = e.scanned
       /\ z.recs[d].name = e.name
  <2>1. a.recs[d] = e
    BY <1>1, <1>2, <1>11
  <2>2. CASE d \in StoreId
    BY <1>13, <1>16, <2>1, <2>2 DEF PutTo
  <2>3. CASE d \notin StoreId
    BY <1>13, <1>16, <2>3 DEF PutTo
  <2> QED
    BY <2>2, <2>3
<1>19. \A g \in DOMAIN y.recs : g # d => z.recs[g] = y.recs[g]
  BY <1>11, <1>16 DEF PutTo
<1>20. Grown(y, z, P, With(P, n, p), {d})
  <2>2. DOMAIN P \subseteq DOMAIN With(P, n, p) /\ \A h \in DOMAIN P : With(P, n, p)[h] = P[h]
    BY <1>1, <1>4 DEF With
  <2>3. ASSUME NEW g \in DOMAIN y.recs
        PROVE  /\ z.recs[g].store = y.recs[g].store /\ z.recs[g].parent = y.recs[g].parent
               /\ z.recs[g].sibling = y.recs[g].sibling /\ z.recs[g].isdir = y.recs[g].isdir
               /\ z.recs[g].name = y.recs[g].name
               /\ y.recs[g].scanned => z.recs[g].scanned
               /\ g \notin {d} \/ ~y.recs[g].isdir => z.recs[g] = y.recs[g]
    <3>1. CASE g = d
      BY <1>2, <1>18, <3>1
    <3>2. CASE g # d
      BY <1>19, <3>2
    <3> QED
      BY <3>1, <3>2
  <2> QED
    BY <1>17, <2>2, <2>3 DEF Grown
<1>21. /\ z.recs[n].store = y.recs[d].store /\ z.recs[n].parent = d
       /\ z.recs[n].sibling = y.recs[d].child
       /\ z.recs[n].child = (IF c = Dir THEN 0 ELSE c) /\ z.recs[n].isdir = (c = Dir)
       /\ ~z.recs[n].scanned /\ z.recs[n].name = Last(p)
  BY <1>2, <1>7, <1>17
<1>22. z.disk = y.disk /\ z.file = NoFile /\ z.open = y.open /\ z.hung = y.hung
  BY <1>9, <1>17 DEF Beside
<1> QED
  BY <1>3, <1>4, <1>5, <1>14, <1>17, <1>18, <1>20, <1>21, <1>22 DEF NotedAt


(* What the sketch adds to a listed directory becomes an object of it.      *)
LEMMA NotedKeeps ==
  ASSUME NEW x, NEW P, NEW rk, Shape(x, P, rk), NEW p, NEW c, NEW w, Added(x, w, p, c),
         NEW d \in DOMAIN P, P[d] = Front(p), x.recs[d].isdir, x.recs[d].scanned,
         NEW y, NEW n, NotedAt(w, y, P, d, n, p, c)
  PROVE  \E s : Shape(y, With(P, n, p), s)
<1>1. /\ x \in Machine /\ Indexed(x) /\ Known(x, P) /\ Apart(P) /\ ~x.hung /\ Opened(x, P)
      /\ Chain(x, DOMAIN P, Objs(P), rk) /\ x.disk \in Discs
      /\ DOMAIN P \subseteq DOMAIN x.recs /\ Objs(P) = DOMAIN P \ StoreId
      /\ \A g \in DOMAIN P : OnDisk(x, P, g)
      /\ \A g \in DOMAIN P : Full(x, P, g)
  BY MachineFields DEF Shape, Known, Objs
<1>2. /\ w.recs = x.recs /\ w.open = x.open /\ w.hung = x.hung /\ WellFormed(w.disk)
      /\ DOMAIN w.disk = DOMAIN x.disk \cup {p} /\ w.disk[p] = c /\ c \in Content \cup {Dir}
      /\ \A q \in DOMAIN x.disk : w.disk[q] = x.disk[q]
      /\ p \notin DOMAIN x.disk /\ p \in Where /\ Len(p) > 1 /\ Front(p) \in Where
      /\ Last(p) \in Names /\ p = Append(Front(p), Last(p))
  BY DEF Added
<1>3. /\ n \in Nat /\ n \notin DOMAIN x.recs /\ n \notin StoreId /\ n \notin DOMAIN P /\ d # n
      /\ y \in Machine /\ DOMAIN y.recs = DOMAIN x.recs \cup {n}
      /\ y.disk = w.disk /\ y.file = NoFile /\ y.open = x.open /\ y.hung = x.hung
      /\ y.recs[n].store = x.recs[d].store /\ y.recs[n].parent = d
      /\ y.recs[n].sibling = x.recs[d].child
      /\ y.recs[n].child = (IF c = Dir THEN 0 ELSE c) /\ y.recs[n].isdir = (c = Dir)
      /\ ~y.recs[n].scanned /\ y.recs[n].name = Last(p)
      /\ y.recs[d].child = n
  BY <1>1, <1>2 DEF NotedAt
<1>4. \A g \in DOMAIN x.recs :
       /\ y.recs[g].parent = x.recs[g].parent
       /\ y.recs[g].isdir = x.recs[g].isdir
       /\ x.recs[g].scanned => y.recs[g].scanned
       /\ g # d \/ ~x.recs[g].isdir => y.recs[g] = x.recs[g]
  BY <1>2 DEF NotedAt, Grown
<1>5. PICK Q : Q = With(P, n, p)
  OBVIOUS
<1>6. PICK name : name = Last(p) /\ name \in Names /\ p = Append(P[d], name)
  <2>1. PICK f, l : f = Front(p) /\ l = Last(p) /\ p = Append(f, l)
    BY <1>2
  <2> QED
    BY <1>2, <2>1
<1>7. NewRecord(x, y, P, Q, d, n, name, p)
  <2>1. Grown(x, y, P, Q, {d})
    <3>1. Grown(w, y, P, Q, {d})
      BY <1>5, Zenon DEF NotedAt
    <3> QED
      BY <1>2, <3>1 DEF Grown
  <2>2. \A g \in DOMAIN P : P[g] # p
    BY <1>1, <1>2 DEF OnDisk
  <2>3. y.recs[n].child = 0 \/ ~y.recs[n].isdir
    BY <1>3
  <2> QED
    BY <1>1, <1>3, <1>5, <1>6, <2>1, <2>2, <2>3 DEF NewRecord
<1>8. /\ Indexed(y) /\ Known(y, Q) /\ Apart(Q) /\ \E s : Chain(y, DOMAIN Q, Objs(Q), s)
      /\ DOMAIN Q = DOMAIN P \cup {n} /\ Q[n] = p /\ Objs(Q) = Objs(P) \cup {n}
      /\ \A g \in DOMAIN P : Q[g] = P[g]
  <2>1. Recorded(y, P, Q, n, p)
    BY <1>7, NewRecordKnown
  <2> QED
    BY <2>1 DEF Recorded
<1>9. ASSUME NEW g \in DOMAIN Q PROVE OnDisk(y, Q, g)
  <2>1. CASE g = n
    <3>1. Q[g] = p /\ p \in DOMAIN y.disk /\ y.disk[p] = c
      BY <1>2, <1>3, <1>8, <2>1
    <3>2. y.recs[g].isdir = (c = Dir) /\ (c # Dir => y.recs[g].child = c)
      BY <1>3, <2>1
    <3> QED
      BY <3>1, <3>2 DEF OnDisk
  <2>2. CASE g # n
    <3>1. g \in DOMAIN P /\ OnDisk(x, P, g) /\ Q[g] = P[g] /\ y.recs[g].isdir = x.recs[g].isdir /\ g \in DOMAIN x.recs
      BY <1>1, <1>4, <1>8, <2>2
    <3>2. ~x.recs[g].isdir => y.recs[g].child = x.recs[g].child
      BY <1>4, <3>1
    <3>3. P[g] \in DOMAIN y.disk /\ y.disk[P[g]] = x.disk[P[g]]
      BY <1>2, <1>3, <3>1 DEF OnDisk
    <3> QED
      BY <3>1, <3>2, <3>3 DEF OnDisk
  <2> QED
    BY <2>1, <2>2
<1>10. ASSUME NEW g \in DOMAIN Q, y.recs[g].isdir PROVE Full(y, Q, g)
  <2>1. CASE g = n
    <3>1. \A h \in Objs(Q) : y.recs[h].parent # n
      <4>1. ASSUME NEW h \in Objs(P) PROVE y.recs[h].parent # n
        BY <1>1, <1>3, <1>4, <4>1 DEF Chain
      <4> QED
        BY <1>3, <1>8, <4>1
    <3> QED
      BY <1>3, <2>1, <3>1 DEF Full
  <2>2. CASE g # n
    <3>1. g \in DOMAIN P /\ g \in DOMAIN x.recs /\ x.recs[g].isdir /\ Full(x, P, g) /\ Q[g] = P[g]
      BY <1>1, <1>4, <1>8, <1>10, <2>2
    <3>2. CASE x.recs[g].scanned
      <4>1. y.recs[g].scanned
        BY <1>4, <3>1, <3>2
      <4>2. ASSUME NEW e \in Names, Append(Q[g], e) \in DOMAIN y.disk
            PROVE  \E h \in DOMAIN Q : Q[h] = Append(Q[g], e)
        <5>1. PICK a : a = Append(P[g], e)
          OBVIOUS
        <5>2. CASE a = p
          BY <1>8, <3>1, <5>1, <5>2
        <5>3. CASE a # p
          <6>1. a \in DOMAIN x.disk
            BY <1>2, <1>3, <3>1, <4>2, <5>1, <5>3
          <6>2. PICK h \in DOMAIN P : P[h] = a
            BY <3>1, <3>2, <5>1, <6>1 DEF Full
          <6> QED
            BY <1>8, <3>1, <5>1, <6>2
        <5> QED
          BY <5>2, <5>3
      <4> QED
        BY <4>1, <4>2 DEF Full
    <3>3. CASE ~x.recs[g].scanned
      <4>1. g # d
        BY <3>3
      <4>2. ~y.recs[g].scanned
        BY <1>4, <3>1, <3>3, <4>1
      <4>3. \A h \in Objs(P) : x.recs[h].parent # g
        BY <3>1, <3>3 DEF Full
      <4>4. \A h \in Objs(Q) : y.recs[h].parent # g
        BY <1>1, <1>3, <1>4, <1>8, <4>1, <4>3
      <4> QED
        BY <4>2, <4>4 DEF Full
    <3> QED
      BY <3>2, <3>3
  <2> QED
    BY <2>1, <2>2
<1>11. Opened(y, Q)
  BY <1>1, <1>3 DEF Opened
<1>12. PICK s : Chain(y, DOMAIN Q, Objs(Q), s)
  BY <1>8
<1>13. \A g \in DOMAIN Q : Full(y, Q, g)
  BY <1>10 DEF Full
<1>14. Shape(y, Q, s)
  BY <1>1, <1>2, <1>3, <1>8, <1>9, <1>11, <1>12, <1>13 DEF Shape
<1> QED
  BY <1>5, <1>14


(* The parent of the first child of a directory is that directory. *)
LEMMA ParentIs ==
  ASSUME NEW y, NEW P, NEW rk, Walkable(y, P, rk), NEW d \in DOMAIN P, y.recs[d].isdir,
         y.recs[d].child # 0
  PROVE  ParentOf(y, d) = d
<1>1. y \in Machine /\ Chain(y, DOMAIN P, Objs(P), rk)
  BY DEF Walkable
<1>2. PICK kids : kids = Children(y, d)
  OBVIOUS
<1>3. PICK D, O : D = DOMAIN P /\ O = Objs(P)
  OBVIOUS
<1>4. kids \in Seq(Kids(y, O, d)) /\ kids # <<>>
  <2>1. Chain(y, D, O, rk) /\ d \in D
    BY <1>1, <1>3
  <2>2. Children(y, d) \in Seq(Kids(y, O, d)) /\ (Children(y, d) = <<>> <=> y.recs[d].child = 0)
    BY <1>1, <2>1, ChildrenAre
  <2> QED
    BY <1>2, <2>2, Zenon
<1>5. PICK k : k = Last(kids)
  OBVIOUS
<1>6. k \in Kids(y, O, d)
  <2>1. Len(kids) \in Nat /\ Len(kids) # 0 /\ k = kids[Len(kids)] /\ \A i \in 1 .. Len(kids) : kids[i] \in Kids(y, O, d)
    BY <1>4, <1>5, InSeq
  <2> QED
    BY <2>1
<1>7. k \in DOMAIN y.recs /\ y.recs[k].parent = d
  BY <1>1, <1>3, <1>6 DEF Kids, Chain
<1>8. Read(y, k) = y.recs[k]
  BY <1>1, <1>7, ReadIs
<1>9. ParentOf(y, d) = Read(y, k).parent
  BY <1>2, <1>4, <1>5 DEF ParentOf
<1> QED
  BY <1>7, <1>8, <1>9

(* A child with the name is an object of the tree at that place. *)
LEMMA NamedThere ==
  ASSUME NEW y, NEW P, NEW rk, Walkable(y, P, rk), NEW d \in DOMAIN P, y.recs[d].isdir, NEW name,
         ChildNamed(y, d, name) # 0
  PROVE  \E k \in DOMAIN P : P[k] = Append(P[d], name)
<1>1. y \in Machine /\ Chain(y, DOMAIN P, Objs(P), rk) /\ Known(y, P)
  BY DEF Walkable
<1>2. PICK D, O : D = DOMAIN P /\ O = Objs(P)
  OBVIOUS
<1>3. Chain(y, D, O, rk) /\ d \in D
  BY <1>1, <1>2
<1>4. /\ ChildNamed(y, d, name) \in O
      /\ y.recs[ChildNamed(y, d, name)].parent = d
      /\ y.recs[ChildNamed(y, d, name)].name = name
  BY <1>1, <1>3, ChildNamedIs
<1>5. PICK k : k \in DOMAIN P \ StoreId /\ y.recs[k].parent = d /\ y.recs[k].name = name
  BY <1>2, <1>4 DEF Objs
<1>6. P[k] = Append(P[y.recs[k].parent], y.recs[k].name)
  BY <1>1, <1>5 DEF Known
<1>7. P[k] = Append(P[d], name)
  BY <1>5, <1>6, Zenon
<1> QED
  BY <1>5, <1>7

(* The object the host sends next stays that object while others come. *)
LEMMA SendingOn ==
  ASSUME NEW x, NEW P, NEW rk, Shape(x, P, rk), NEW o, Sending(x, P, o), NEW y, NEW Q,
         DOMAIN P \subseteq DOMAIN Q, \A h \in DOMAIN P : Q[h] = P[h],
         \A h \in DOMAIN P : y.recs[h].isdir = x.recs[h].isdir,
         y.open = x.open, y.file \in {x.file, NoFile},
         \A q \in DOMAIN x.disk : y.disk[q] = x.disk[q]
  PROVE  Sending(y, Q, o)
<1>1. ASSUME o # 0
      PROVE /\ o \in Objs(Q) /\ ~y.recs[o].isdir
            /\ y.open \in {o, Orphan}
            /\ y.open = Orphan => y.file = NoFile
            /\ y.open = o => y.disk[Q[o]] = 0
  <2>1. /\ o \in DOMAIN P /\ o \in Objs(P) /\ ~x.recs[o].isdir
        /\ x.open \in {o, Orphan}
        /\ x.open = Orphan => x.file = NoFile
        /\ x.open = o => x.disk[P[o]] = 0
    BY <1>1 DEF Sending, Objs
  <2>2. P[o] \in DOMAIN x.disk
    BY <2>1 DEF Shape, OnDisk
  <2> QED
    BY <2>1, <2>2 DEF Objs
<1> QED
  BY <1>1 DEF Sending

(* send_addObjectEvent: what the walk does with it.                         *)
Event(x, y, z, p, c) ==
  /\ Adding(x, p, c) /\ (Listed(x, p) # Bad => Children(x, Listed(x, p)) # <<>>)
  /\ y = [x EXCEPT !.disk = Filled(@, p, c)] /\ z = MapFileNameToIndex(y, p)

(* What is listed depends on the records only. *)
LEMMA ListedAlike ==
  ASSUME NEW x, NEW P, NEW rk, Walkable(x, P, rk), NEW y, Walkable(y, P, rk), y.recs = x.recs,
         NEW p, Named1(p)
  PROVE  Listed(y, p) = Listed(x, p)
<1>1. PICK d : d = Listed(x, p)
  OBVIOUS
<1>2. PICK e : e = Listed(y, p)
  OBVIOUS
<1>3. \/ d \in DOMAIN P /\ P[d] = Front(p) /\ x.recs[d].isdir /\ x.recs[d].scanned
      \/ d = Bad /\ \A g \in DOMAIN P : P[g] = Front(p) => ~(x.recs[g].isdir /\ x.recs[g].scanned)
  BY <1>1, ListedIs
<1>4. \/ e \in DOMAIN P /\ P[e] = Front(p) /\ y.recs[e].isdir /\ y.recs[e].scanned
      \/ e = Bad /\ \A g \in DOMAIN P : P[g] = Front(p) => ~(y.recs[g].isdir /\ y.recs[g].scanned)
  BY <1>2, ListedIs
<1>5. Apart(P)
  BY DEF Walkable
<1>6. e = d
  BY <1>3, <1>4, <1>5 DEF Apart
<1> QED
  BY <1>1, <1>2, <1>6

(* send_addObjectEvent adds a record for what the sketch made, or leaves   *)
(* the directory to be scanned when the host asks.                         *)
LEMMA AddEventKeeps ==
  ASSUME NEW x, NEW P, NEW rk, Shape(x, P, rk), NEW o, Sending(x, P, o), NEW p, NEW c, NEW y, NEW z,
         Event(x, y, z, p, c)
  PROVE  \E Q, s : Shape(z, Q, s) /\ Sending(z, Q, o)
<1>1. /\ x \in Machine /\ WellFormed(x.disk) /\ Indexed(x) /\ Known(x, P) /\ Apart(P)
      /\ \A g \in DOMAIN P : OnDisk(x, P, g)
  BY DEF Shape
<1>2. Added(x, y, p, c) /\ Named1(p)
  <2>1. Adding(x, p, c) /\ y = [x EXCEPT !.disk = Filled(@, p, c)]
    BY DEF Event
  <2> QED
    BY <1>1, <2>1, AddedIs DEF Adding
<1>3. /\ y.recs = x.recs /\ y.open = x.open /\ y.file = x.file /\ y \in Machine
      /\ \A q \in DOMAIN x.disk : y.disk[q] = x.disk[q]
      /\ p \notin DOMAIN x.disk /\ Last(p) \in Names /\ p = Append(Front(p), Last(p))
      /\ y.disk[p] = c /\ c \in Content \cup {Dir}
  BY <1>2 DEF Added
<1>6. z = MapFileNameToIndex(y, p)
  BY DEF Event
<1>4. CASE DOMAIN x.recs = {}
  <2>1. Listed(y, p) = Bad
    BY <1>3, <1>4 DEF Listed, Generated
  <2>2. z = y
    BY <1>6, <2>1 DEF MapFileNameToIndex
  <2>3. DOMAIN P = {}
    BY <1>1, <1>4 DEF Known
  <2>4. Shape(y, P, rk)
    BY <1>2, <2>3, UnlistedKeeps
  <2>5. Sending(y, P, o)
    BY <1>3, SendingOn
  <2> QED
    BY <2>2, <2>4, <2>5
<1>5. CASE DOMAIN x.recs # {}
  <2>1. Walkable(x, P, rk) /\ Walkable(y, P, rk)
    BY <1>2, <1>5, AddedWalkable
  <2>2. PICK d : d = Listed(x, p) /\ d = Listed(y, p)
    <3>1. y.recs = x.recs /\ Named1(p)
      BY <1>2, <1>3
    <3>2. Listed(y, p) = Listed(x, p)
      BY <2>1, <3>1, ListedAlike
    <3> QED
      BY <3>2, Zenon
  <2>3. \/ d \in DOMAIN P /\ P[d] = Front(p) /\ x.recs[d].isdir /\ x.recs[d].scanned
        \/ d = Bad /\ \A g \in DOMAIN P : P[g] = Front(p) => ~(x.recs[g].isdir /\ x.recs[g].scanned)
    BY <1>2, <2>1, <2>2, ListedIs
  <2>4. CASE d = Bad /\ \A g \in DOMAIN P : P[g] = Front(p) => ~(x.recs[g].isdir /\ x.recs[g].scanned)
    <3>1. z = y
      BY <1>6, <2>2, <2>4 DEF MapFileNameToIndex
    <3>2. Shape(y, P, rk)
      BY <1>2, <2>4, UnlistedKeeps
    <3>3. Sending(y, P, o)
      BY <1>3, SendingOn
    <3> QED
      BY <3>1, <3>2, <3>3
  <2>5. CASE d \in DOMAIN P /\ P[d] = Front(p) /\ x.recs[d].isdir /\ x.recs[d].scanned
    <3>1. d # Bad
      BY <1>1, <2>5, IndexSize DEF Known, Bad
    <3>2. Children(x, d) # <<>>
      BY <2>2, <3>1 DEF Event
    <3>3. x.recs[d].child # 0
      <4>1. Chain(x, DOMAIN P, Objs(P), rk)
        BY DEF Shape
      <4>2. PICK D, O : D = DOMAIN P /\ O = Objs(P)
        OBVIOUS
      <4>3. Chain(x, D, O, rk) /\ d \in D
        BY <2>5, <4>1, <4>2
      <4>4. Children(x, d) = <<>> <=> x.recs[d].child = 0
        BY <1>1, <2>5, <4>3, ChildrenAre
      <4> QED
        BY <3>2, <4>4
    <3>4. ParentOf(y, d) = d
      BY <1>3, <2>1, <2>5, <3>3, ParentIs
    <3>5. ChildNamed(y, d, Last(p)) = 0
      <4>1. PICK f, l : f = Front(p) /\ l = Last(p) /\ p = Append(f, l)
        BY <1>3
      <4>2. y.recs[d].isdir /\ P[d] = f /\ d \in DOMAIN P
        BY <1>3, <2>5, <4>1
      <4>3. ASSUME ChildNamed(y, d, l) # 0 PROVE FALSE
        <5>1. PICK k \in DOMAIN P : P[k] = Append(P[d], l)
          BY <2>1, <4>2, <4>3, NamedThere
        <5>2. P[k] = p
          BY <4>1, <4>2, <5>1, Zenon
        <5> QED
          BY <1>1, <1>3, <5>1, <5>2 DEF OnDisk
      <4> QED
        BY <4>1, <4>3
    <3>6. z = Noted(y, d, p)
      BY <1>6, <2>2, <3>1, <3>4, <3>5 DEF MapFileNameToIndex
    <3>7. PICK n : n = NextHandle(y)
      OBVIOUS
    <3>8. NotedAt(y, z, P, d, n, p, c)
      <4>1. Indexed(y) /\ Known(y, P) /\ y.recs[d].isdir
        BY <1>3, <2>1, <2>5 DEF Walkable
      <4>2. y.disk[p] = c /\ c \in Content \cup {Dir} /\ Last(p) \in Names /\ y \in Machine /\ d \in DOMAIN P
        BY <1>3, <2>5
      <4> QED
        BY <3>6, <3>7, <4>1, <4>2, NotedIs
    <3>9. PICK Q : Q = With(P, n, p)
      OBVIOUS
    <3>10. PICK s : Shape(z, Q, s)
      <4>1. \E s : Shape(z, With(P, n, p), s)
        BY <1>2, <2>5, <3>8, NotedKeeps
      <4> QED
        BY <3>9, <4>1
    <3>11. Sending(z, Q, o)
      <4>1. /\ z.open = x.open /\ z.file = NoFile /\ z.disk = y.disk
            /\ Grown(y, z, P, Q, {d})
        BY <1>3, <3>8, <3>9, Zenon DEF NotedAt
      <4>2. DOMAIN P \subseteq DOMAIN Q /\ (\A h \in DOMAIN P : Q[h] = P[h])
            /\ \A h \in DOMAIN P : z.recs[h].isdir = x.recs[h].isdir
        BY <1>1, <1>3, <4>1 DEF Grown, Known
      <4> QED
        BY <1>3, <4>1, <4>2, SendingOn
    <3> QED
      BY <3>10, <3>11
  <2> QED
    BY <2>3, <2>4, <2>5
<1> QED
  BY <1>4, <1>5


(* A file is copied: the target gets the contents, and its record the size. *)
CopyDue(z, Q, h, n) ==
  /\ h \in Objs(Q) /\ ~z.recs[h].isdir
  /\ n \in Objs(Q) /\ ~z.recs[n].isdir /\ z.file = Q[n]
(* Only the size of n changed in the index, and no place came to the stores. *)
Resized(z, u, n) ==
  /\ DOMAIN u.recs = DOMAIN z.recs /\ DOMAIN u.disk = DOMAIN z.disk
  /\ \A g \in DOMAIN z.recs : g # n => u.recs[g] = z.recs[g]

(* CompleteCopyFile copies the contents and closes the target, whose       *)
(* record then has its size.                                               *)
LEMMA CompleteCopyKeeps ==
  ASSUME NEW z, NEW Q, NEW s, Shape(z, Q, s), NEW h, NEW n, CopyDue(z, Q, h, n)
  PROVE  Shape(CompleteCopyFile(z, h, n), Q, s) /\ Resized(z, CompleteCopyFile(z, h, n), n)
<1>1. /\ z \in Machine /\ Indexed(z) /\ Known(z, Q) /\ WellFormed(z.disk) /\ ~z.hung
      /\ z.disk \in Discs
      /\ OnDisk(z, Q, h) /\ OnDisk(z, Q, n)
      /\ h \in Objs(Q) /\ ~z.recs[h].isdir /\ n \in Objs(Q) /\ ~z.recs[n].isdir /\ z.file = Q[n]
      /\ h \in DOMAIN Q /\ n \in DOMAIN Q
  BY MachineFields DEF Shape, CopyDue, Objs
<1>2. PICK p : p = Q[h] /\ p \in DOMAIN z.disk /\ z.disk[p] # Dir
  BY <1>1 DEF OnDisk
<1>3. PICK q : q = Q[n] /\ q \in DOMAIN z.disk /\ z.disk[q] # Dir /\ q \in Where /\ q # NoFile
  <2>1. Q[n] \in Where /\ Len(Q[n]) >= 1
    BY <1>1, KnownIs
  <2>2. Q[n] # NoFile
    BY <2>1 DEF NoFile
  <2> QED
    BY <1>1, <2>1, <2>2 DEF OnDisk
<1>4. PICK c \in Content : c = z.disk[p]
  BY <1>1, <1>2, DiscIs
<1>5. PlaceOf(z, h) = p
  BY <1>1, <1>2, PlaceIs
<1>6. PICK a : a = Put(z, n, [Read(z, n) EXCEPT !.child = c])
  OBVIOUS
<1>7. ShapeBut(z, Q, s, n)
  BY DEF Shape, ShapeBut
<1>8. ShapeBut(a, Q, s, n) /\ Sized(z, a, n, c)
  BY <1>1, <1>6, <1>7, SizedKeeps
<1>9. PICK u : u = CompleteCopyFile(z, h, n)
  OBVIOUS
<1>10. u = [a EXCEPT !.disk = Filled(@, q, c), !.file = NoFile]
  <2>1. z.file # NoFile /\ z.file = q
    BY <1>1, <1>3
  <2> QED
    BY <1>2, <1>4, <1>5, <1>6, <1>9, <2>1 DEF CompleteCopyFile
<1>11. PICK d : d = Filled(a.disk, q, c)
  OBVIOUS
<1>12. a \in Machine /\ a.disk = z.disk /\ a.open = z.open /\ ~a.hung /\ DOMAIN a.recs = DOMAIN z.recs
  BY <1>1, <1>8 DEF Sized, Beside
<1>13. d \in Discs /\ DOMAIN d = DOMAIN z.disk
  <2>1. c \in Content \cup {Dir} /\ c # Dir
    BY <1>2, <1>4
  <2>2. /\ Filled(z.disk, q, c) \in Discs
        /\ DOMAIN Filled(z.disk, q, c) = DOMAIN z.disk \cup {q}
    <3>1. z.disk \in Discs /\ WellFormed(z.disk) /\ q \in Where
      BY <1>1, <1>3
    <3>2. q \in DOMAIN z.disk /\ z.disk[q] # Dir /\ c # Dir
      BY <1>3, <2>1
    <3> QED
      BY <2>1, <3>1, <3>2, FilledIs, ZenonT(60)
  <2> QED
    BY <1>3, <1>11, <1>12, <2>2
<1>14. u = [a EXCEPT !.disk = d, !.file = NoFile]
  BY <1>10, <1>11
<1>15. /\ u \in Machine /\ u.recs = a.recs /\ u.disk = d /\ u.file = NoFile /\ u.open = a.open
       /\ u.hung = a.hung
  <2>1. NoFile \in Where
    BY EmptySeq DEF NoFile, Where
  <2> QED
    BY <1>12, <1>13, <1>14, <2>1 DEF Machine
<1>16. Shape(u, Q, s)
  <2>1. FilledTo(a, u, Q[n], c)
    BY <1>3, <1>11, <1>15 DEF FilledTo
  <2>2. Fills(a, Q, n, c)
    BY <1>1, <1>2, <1>3, <1>4, <1>12 DEF Fills
  <2>3. Agrees(a, n, c)
    <3>1. n \in DOMAIN z.recs
      BY <1>1 DEF Known
    <3>2. ~a.recs[n].isdir /\ a.recs[n].child = c
      BY <1>1, <1>8, <3>1 DEF Sized
    <3> QED
      BY <1>2, <1>4, <3>2 DEF Agrees
  <2>4. Opened(u, Q)
    BY <1>8, <1>12, <1>15 DEF Opened, ShapeBut
  <2>5. u \in Machine /\ ~u.hung
    BY <1>12, <1>15
  <2> QED
    BY <1>8, <2>1, <2>2, <2>3, <2>4, <2>5, FilledKeeps
<1>17. Resized(z, u, n)
  BY <1>8, <1>12, <1>13, <1>15 DEF Resized, Sized
<1> QED
  BY <1>9, <1>16, <1>17


(* A copy n of an object has come into d, at q.                             *)
CopyOf(x, P, z, Q, d, n, q) ==
  /\ n \notin DOMAIN x.recs /\ n \in Objs(Q) /\ Q[n] = q
  /\ DOMAIN x.recs \subseteq DOMAIN z.recs
  /\ \A g \in DOMAIN x.recs :
       /\ z.recs[g].store = x.recs[g].store /\ z.recs[g].parent = x.recs[g].parent
       /\ z.recs[g].sibling = x.recs[g].sibling /\ z.recs[g].isdir = x.recs[g].isdir
       /\ z.recs[g].name = x.recs[g].name
       /\ x.recs[g].scanned => z.recs[g].scanned
       /\ x.recs[g].scanned /\ g # d => z.recs[g].child = x.recs[g].child
  /\ z.recs[d].child = n /\ z.recs[d].scanned
  /\ DOMAIN z.disk = DOMAIN x.disk \cup {q}
  /\ DOMAIN P \subseteq DOMAIN Q /\ \A g \in DOMAIN P : Q[g] = P[g]

(* Create called with a name that nothing in the directory has. *)
CreateAsked(x, P, d, folder, name, room, c) ==
  CreateCalled(x, P, d, folder, name, room, c) /\ Append(P[d], name) \notin DOMAIN x.disk
(* Create gave the record n for q, empty, its file open. *)
CreateGave(x, P, z, Q, d, n, folder, q) ==
  /\ CopyOf(x, P, z, Q, d, n, q)
  /\ z.recs[n].isdir = folder /\ z.recs[n].scanned /\ z.recs[n].child = 0
  /\ ~folder => z.file = q

(* Create for a copy makes a new object, or the store is full. *)
LEMMA CreateGives ==
  ASSUME NEW x, NEW P, NEW rk, Shape(x, P, rk), NEW d, NEW folder, NEW name, NEW room, NEW c,
         CreateAsked(x, P, d, folder, name, room, c)
  PROVE  \E Q, s : /\ Shape(c.x, Q, s)
                   /\ \/ c.ret = Bad /\ ~room /\ ~folder
                      \/ c.ret \in Nat /\ CreateGave(x, P, c.x, Q, d, c.ret, folder, Append(P[d], name))
<1>1. CreateCalled(x, P, d, folder, name, room, c) /\ Append(P[d], name) \notin DOMAIN x.disk
  BY DEF CreateAsked
<1>2. d \in DOMAIN P /\ DOMAIN P \subseteq DOMAIN x.recs
  BY <1>1 DEF Shape, Known, CreateCalled
<1>3. PICK y, R, r, Q, s :
           /\ Shape(y, R, r) /\ Grown(x, y, P, R, {d}) /\ y.disk = x.disk
           /\ y.recs[d].scanned
           /\ Shape(c.x, Q, s) /\ Created(y, R, Q, d, folder, name, room, c)
  BY <1>1, CreateKeeps
<1>4. PICK q : q = Append(P[d], name) /\ q = Append(R[d], name) /\ q \notin DOMAIN y.disk
  BY <1>1, <1>2, <1>3 DEF Grown
<1>5. CASE c.ret = Bad /\ ~folder /\ ~room
  BY <1>3, <1>5
<1>6. CASE c.ret = NextHandle(y) /\ Made(y, c.x, R, Q, d, NextHandle(y), folder, name, Append(R[d], name))
  <2>1. PICK n, z : n = NextHandle(y) /\ z = c.x
    OBVIOUS
  <2>2. Made(y, z, R, Q, d, n, folder, name, q)
    BY <1>4, <1>6, <2>1, Zenon
  <2>3. /\ n \in Nat /\ n \notin DOMAIN y.recs /\ n \notin StoreId
        /\ Q = With(R, n, q)
        /\ Grown(y, z, R, Q, {d})
        /\ z.recs[d].child = n
        /\ z.recs[n].child = 0 /\ z.recs[n].isdir = folder /\ z.recs[n].scanned
        /\ DOMAIN z.disk = DOMAIN x.disk \cup {q}
        /\ ~folder => z.file = q
    BY <1>3, <2>2 DEF Made
  <2>4. Grown(x, z, P, Q, {d})
    BY <1>3, <2>3, GrownOn
  <2>5. n \in Objs(Q) /\ Q[n] = q
    BY <2>3 DEF With, Objs
  <2>6. n \notin DOMAIN x.recs
    BY <1>3, <2>3 DEF Grown
  <2>7. z.recs[d].scanned
    <3>1. d \in DOMAIN y.recs
      BY <1>2, <1>3 DEF Grown
    <3> QED
      BY <1>3, <2>3, <3>1 DEF Grown
  <2>8. /\ DOMAIN x.recs \subseteq DOMAIN z.recs
        /\ \A g \in DOMAIN x.recs :
             /\ z.recs[g].store = x.recs[g].store /\ z.recs[g].parent = x.recs[g].parent
             /\ z.recs[g].sibling = x.recs[g].sibling /\ z.recs[g].isdir = x.recs[g].isdir
             /\ z.recs[g].name = x.recs[g].name
             /\ x.recs[g].scanned => z.recs[g].scanned
             /\ x.recs[g].scanned /\ g # d => z.recs[g].child = x.recs[g].child
        /\ DOMAIN P \subseteq DOMAIN Q /\ \A g \in DOMAIN P : Q[g] = P[g]
    BY <2>4 DEF Grown
  <2>9. CopyOf(x, P, z, Q, d, n, q)
    BY <2>3, <2>5, <2>6, <2>7, <2>8 DEF CopyOf
  <2>10. CreateGave(x, P, z, Q, d, n, folder, q)
    BY <2>3, <2>9 DEF CreateGave
  <2>11. c.ret = n /\ n \in Nat
    BY <1>6, <2>1, <2>3
  <2>12. CreateGave(x, P, c.x, Q, d, c.ret, folder, Append(P[d], name))
    BY <1>4, <2>1, <2>10, <2>11, Zenon
  <2> QED
    BY <1>3, <2>11, <2>12
<1> QED
  BY <1>3, <1>4, <1>5, <1>6 DEF Created

(* CopyObject of h into d, where nothing has its name.                      *)
CopyAsked(x, P, h, d, room, todo, c) ==
  /\ h \in Objs(P) /\ d \in DOMAIN P /\ x.recs[d].isdir
  /\ Append(P[d], x.recs[h].name) \notin DOMAIN x.disk
  /\ room \in BOOLEAN /\ (x.recs[h].isdir => room)
  /\ c = CopyObjectInto(x, h, Read(x, h), d, room, todo)
(* The call that copies what is in h into the new directory n.              *)
Called(z, Q, h, n, call) ==
  /\ h \in Objs(Q) /\ z.recs[h].isdir /\ call = Call(z, h, n)
  /\ z.recs[n].isdir /\ z.recs[n].scanned /\ z.recs[n].child = 0
(* CopyObject copied a file, or made a directory and calls itself for      *)
(* what is in the one it copies.                                           *)
CopyGave(x, P, c, Q, h, d, q, todo) ==
  \/ c.todo = todo /\ c.ret \in Nat /\ CopyOf(x, P, c.x, Q, d, c.ret, q)
  \/ c.ret = 0 /\ \E n, call :
       /\ n \in Nat /\ c.todo = <<call>> \o todo /\ CopyOf(x, P, c.x, Q, d, n, q)
       /\ Called(c.x, Q, h, n, call)

(* The copy is still there when only its own record changed. *)
LEMMA CopyOfLike ==
  ASSUME NEW x, NEW P, NEW z, NEW Q, NEW d, NEW n, NEW q, CopyOf(x, P, z, Q, d, n, q),
         d \in DOMAIN x.recs, NEW u, DOMAIN u.recs = DOMAIN z.recs, DOMAIN u.disk = DOMAIN z.disk,
         \A g \in DOMAIN z.recs : g # n => u.recs[g] = z.recs[g]
  PROVE  CopyOf(x, P, u, Q, d, n, q)
BY DEF CopyOf

(* The copy is still there after the source directory was scanned. *)
LEMMA CopyOfOn ==
  ASSUME NEW x, NEW P, NEW z, NEW Q, NEW d, NEW n, NEW q, CopyOf(x, P, z, Q, d, n, q),
         d \in DOMAIN x.recs, NEW y, NEW R, NEW h, Grown(z, y, Q, R, {g \in {h} : Unscanned(z, g)}),
         y.disk = z.disk
  PROVE  CopyOf(x, P, y, R, d, n, q)
<1>1. /\ n \notin DOMAIN x.recs /\ n \in Objs(Q) /\ Q[n] = q
      /\ DOMAIN x.recs \subseteq DOMAIN z.recs
      /\ \A g \in DOMAIN x.recs :
           /\ z.recs[g].store = x.recs[g].store /\ z.recs[g].parent = x.recs[g].parent
           /\ z.recs[g].sibling = x.recs[g].sibling /\ z.recs[g].isdir = x.recs[g].isdir
           /\ z.recs[g].name = x.recs[g].name
           /\ x.recs[g].scanned => z.recs[g].scanned
           /\ x.recs[g].scanned /\ g # d => z.recs[g].child = x.recs[g].child
      /\ z.recs[d].child = n /\ z.recs[d].scanned
      /\ DOMAIN z.disk = DOMAIN x.disk \cup {q}
      /\ DOMAIN P \subseteq DOMAIN Q /\ \A g \in DOMAIN P : Q[g] = P[g]
  BY DEF CopyOf
<1>2. /\ DOMAIN z.recs \subseteq DOMAIN y.recs
      /\ \A g \in DOMAIN z.recs :
           /\ y.recs[g].store = z.recs[g].store /\ y.recs[g].parent = z.recs[g].parent
           /\ y.recs[g].sibling = z.recs[g].sibling /\ y.recs[g].isdir = z.recs[g].isdir
           /\ y.recs[g].name = z.recs[g].name
           /\ z.recs[g].scanned => y.recs[g].scanned
           /\ z.recs[g].scanned => y.recs[g].child = z.recs[g].child
      /\ DOMAIN Q \subseteq DOMAIN R /\ \A g \in DOMAIN Q : R[g] = Q[g]
  BY DEF Grown, Unscanned
<1>3. n \in Objs(R) /\ R[n] = q
  BY <1>1, <1>2 DEF Objs
<1>4. d \in DOMAIN z.recs
  BY <1>1
<1>5. ASSUME NEW g \in DOMAIN x.recs
      PROVE  /\ y.recs[g].store = x.recs[g].store /\ y.recs[g].parent = x.recs[g].parent
             /\ y.recs[g].sibling = x.recs[g].sibling /\ y.recs[g].isdir = x.recs[g].isdir
             /\ y.recs[g].name = x.recs[g].name
             /\ x.recs[g].scanned => y.recs[g].scanned
             /\ x.recs[g].scanned /\ g # d => y.recs[g].child = x.recs[g].child
  <2>1. g \in DOMAIN z.recs
    BY <1>1
  <2> QED
    BY <1>1, <1>2, <2>1
<1>6. DOMAIN P \subseteq DOMAIN R /\ \A g \in DOMAIN P : R[g] = P[g]
  BY <1>1, <1>2
<1> QED
  BY <1>1, <1>2, <1>3, <1>4, <1>5, <1>6 DEF CopyOf

(* CopyObject of one object: a file is copied, a directory made and its    *)
(* children left to copy.                                                  *)
LEMMA CopyIntoKeeps ==
  ASSUME NEW x, NEW P, NEW rk, Shape(x, P, rk), NEW h, NEW d, NEW room, NEW todo, NEW c,
         CopyAsked(x, P, h, d, room, todo, c)
  PROVE  \E Q, s : /\ Shape(c.x, Q, s)
                   /\ \/ c.ret = Bad /\ ~room /\ c.todo = todo
                      \/ CopyGave(x, P, c, Q, h, d, Append(P[d], x.recs[h].name), todo)
<1>1. /\ h \in Objs(P) /\ d \in DOMAIN P /\ x.recs[d].isdir
      /\ Append(P[d], x.recs[h].name) \notin DOMAIN x.disk
      /\ room \in BOOLEAN /\ (x.recs[h].isdir => room)
      /\ x \in Machine /\ Known(x, P) /\ DOMAIN P \subseteq DOMAIN x.recs
  BY DEF CopyAsked, Shape, Known
<1>2. PICK r \in Rec : r = x.recs[h] /\ r = Read(x, h) /\ r.name \in Names
  BY <1>1, ReadIs DEF Known, Objs
<1>3. d # NoParent /\ Read(x, d) = x.recs[d] /\ h # NoParent
  BY <1>1, IndexSize, ReadIs DEF NoParent, Objs
<1>4. PICK b : b = CreateIn(ScanFolder(x, d), x.recs[d].store, d, r.isdir, r.name, room)
  OBVIOUS
<1>5. c = CopyTo(b, h, r, todo)
  BY <1>2, <1>3, <1>4 DEF CopyAsked, CopyObjectInto, Create, ScanDir, Folder
<1>6. PICK folder, name : folder = r.isdir /\ name = r.name
  OBVIOUS
<1>7. CreateAsked(x, P, d, folder, name, room, b)
  <2>1. r.isdir \in BOOLEAN
    BY <1>2 DEF Rec
  <2>2. CreateCalled(x, P, d, folder, name, room, b)
    BY <1>1, <1>2, <1>4, <1>6, <2>1 DEF CreateCalled
  <2>3. Append(P[d], name) \notin DOMAIN x.disk
    BY <1>1, <1>2, <1>6
  <2> QED
    BY <2>2, <2>3 DEF CreateAsked
<1>8. PICK q : q = Append(P[d], name) /\ q = Append(P[d], x.recs[h].name)
  BY <1>2, <1>6
<1>9. PICK z : z = b.x
  OBVIOUS
<1>10. PICK Q, s : /\ Shape(z, Q, s)
                   /\ \/ b.ret = Bad /\ ~room /\ ~folder
                      \/ b.ret \in Nat /\ CreateGave(x, P, z, Q, d, b.ret, folder, q)
  <2>1. \E Q, s : /\ Shape(b.x, Q, s)
                  /\ \/ b.ret = Bad /\ ~room /\ ~folder
                     \/ b.ret \in Nat /\ CreateGave(x, P, b.x, Q, d, b.ret, folder, Append(P[d], name))
    BY <1>7, CreateGives
  <2> QED
    BY <1>8, <1>9, <2>1, Zenon
<1>11. CASE b.ret = Bad
  <2>1. c.x = z /\ c.ret = Bad /\ c.todo = todo
    BY <1>5, <1>9, <1>11 DEF CopyTo
  <2>2. ~room
    BY <1>10, <1>11 DEF Bad
  <2> QED
    BY <1>10, <2>1, <2>2
<1>12. CASE b.ret # Bad /\ ~folder
  <2>1. PICK n \in Nat : n = b.ret /\ CreateGave(x, P, z, Q, d, n, folder, q)
    BY <1>10, <1>12
  <2>2. CopyOf(x, P, z, Q, d, n, q) /\ ~z.recs[n].isdir /\ z.file = q
    BY <1>12, <2>1 DEF CreateGave
  <2>3. CopyDue(z, Q, h, n)
    <3>1. n \in Objs(Q) /\ Q[n] = q /\ h \in Objs(Q) /\ z.recs[h].isdir = x.recs[h].isdir
      BY <1>1, <2>2 DEF CopyOf, Objs
    <3> QED
      BY <1>2, <1>6, <1>12, <2>2, <3>1 DEF CopyDue
  <2>4. PICK u : u = CompleteCopyFile(z, h, n)
    OBVIOUS
  <2>5. Shape(u, Q, s) /\ Resized(z, u, n)
    BY <1>10, <2>3, <2>4, CompleteCopyKeeps
  <2>6. CopyOf(x, P, u, Q, d, n, q)
    <3>1. d \in DOMAIN x.recs
      BY <1>1
    <3> QED
      BY <2>2, <2>5, <3>1, CopyOfLike DEF Resized
  <2>7. c.x = u /\ c.ret = n /\ c.todo = todo
    BY <1>5, <1>6, <1>9, <1>12, <2>1, <2>4 DEF CopyTo
  <2>8. CopyGave(x, P, c, Q, h, d, q, todo)
    BY <2>6, <2>7 DEF CopyGave
  <2> QED
    BY <1>8, <2>5, <2>7, <2>8
<1>13. CASE b.ret # Bad /\ folder
  <2>1. PICK n \in Nat : n = b.ret /\ CreateGave(x, P, z, Q, d, n, folder, q)
    BY <1>10, <1>13
  <2>2. CopyOf(x, P, z, Q, d, n, q) /\ z.recs[n].isdir /\ z.recs[n].scanned /\ z.recs[n].child = 0
    BY <1>13, <2>1 DEF CreateGave
  <2>3. PICK y : y = ScanFolder(z, h)
    OBVIOUS
  <2>4. PICK R, t : /\ Shape(y, R, t) /\ Grown(z, y, Q, R, {g \in {h} : Unscanned(z, g)})
                    /\ y.disk = z.disk
    BY <1>10, <2>3, ScanKeeps
  <2>5. CopyOf(x, P, y, R, d, n, q)
    <3>1. d \in DOMAIN x.recs
      BY <1>1
    <3> QED
      BY <2>2, <2>4, <3>1, CopyOfOn
  <2>6. PICK call : call = Call(y, h, n)
    OBVIOUS
  <2>7. c.x = y /\ c.ret = 0 /\ c.todo = <<call>> \o todo
    BY <1>3, <1>5, <1>6, <1>9, <1>13, <2>1, <2>3, <2>6 DEF CopyTo, ScanDir, Folder
  <2>8. Called(y, R, h, n, call)
    <3>1. n \in DOMAIN z.recs
      BY <1>10, <2>2 DEF CopyOf, Shape, Known, Objs
    <3>2. y.recs[n].isdir /\ y.recs[n].scanned /\ y.recs[n].child = 0
      BY <2>2, <2>4, <3>1 DEF Grown, Unscanned
    <3>3. h \in Objs(R) /\ h \in DOMAIN x.recs
      BY <1>1, <2>5 DEF CopyOf, Objs
    <3>4. y.recs[h].isdir
      BY <1>2, <1>6, <1>13, <2>5, <3>3 DEF CopyOf
    <3> QED
      BY <2>6, <3>2, <3>3, <3>4 DEF Called
  <2>9. CopyGave(x, P, c, R, h, d, q, todo)
    BY <2>5, <2>7, <2>8 DEF CopyGave
  <2> QED
    BY <1>8, <2>4, <2>7, <2>9
<1> QED
  BY <1>11, <1>12, <1>13


(* The objects a call has left to copy go by different names, none of them  *)
(* taken where they go.                                                     *)
Left(x, P, to, left) ==
  /\ left \in Seq(Int)
  /\ \A i \in 1 .. Len(left) :
       left[i] \in Objs(P) /\ Append(P[to], x.recs[left[i]].name) \notin DOMAIN x.disk
  /\ \A i, j \in 1 .. Len(left) : x.recs[left[i]].name = x.recs[left[j]].name => i = j
(* r is the record of the directory it copies to, but for the first child.  *)
Same(x, to, r) ==
  /\ r \in Rec
  /\ r.store = x.recs[to].store /\ r.parent = x.recs[to].parent /\ r.sibling = x.recs[to].sibling
  /\ r.isdir = x.recs[to].isdir /\ r.scanned = x.recs[to].scanned /\ r.name = x.recs[to].name
(* The call has a directory to copy to and its objects to take there. *)
Due(x, P, call) ==
  /\ call.to \in Objs(P) /\ x.recs[call.to].isdir /\ x.recs[call.to].scanned
  /\ Same(x, call.to, call.r) /\ Left(x, P, call.to, call.left)

(* A copy that came into a directory leaves to the other calls what they   *)
(* have left.                                                              *)
LEMMA LeftOn ==
  ASSUME NEW x, NEW P, NEW rk, Shape(x, P, rk), NEW to \in Objs(P), NEW left, Left(x, P, to, left),
         NEW z, NEW Q, NEW d \in DOMAIN P, NEW n, NEW name \in Names, NEW q, q = Append(P[d], name),
         CopyOf(x, P, z, Q, d, n, q),
         to # d \/ \A i \in 1 .. Len(left) : x.recs[left[i]].name # name
  PROVE  Left(z, Q, to, left)
<1>1. x \in Machine /\ Known(x, P) /\ Apart(P) /\ DOMAIN P \subseteq DOMAIN x.recs
  BY DEF Shape, Known
<1>2. /\ \A g \in DOMAIN x.recs : z.recs[g].name = x.recs[g].name
      /\ DOMAIN z.disk = DOMAIN x.disk \cup {q}
      /\ DOMAIN P \subseteq DOMAIN Q /\ \A g \in DOMAIN P : Q[g] = P[g]
  BY DEF CopyOf
<1>3. \A h \in Objs(P) : h \in DOMAIN x.recs /\ h \in Objs(Q) /\ h \in DOMAIN P
  BY <1>1, <1>2 DEF Objs
<1>4. left \in Seq(Int)
  BY DEF Left
<1>5. ASSUME NEW i \in 1 .. Len(left)
      PROVE  left[i] \in Objs(Q) /\ Append(Q[to], z.recs[left[i]].name) \notin DOMAIN z.disk
  <2>1. PICK h : h = left[i] /\ h \in Objs(P) /\ Append(P[to], x.recs[h].name) \notin DOMAIN x.disk
    BY DEF Left
  <2>2. PICK e : e = x.recs[h].name /\ e = z.recs[h].name /\ e \in Names
    BY <1>1, <1>2, <1>3, <2>1 DEF Known, Objs
  <2>3. Append(P[to], e) # q
    <3>1. PICK a, b : a = P[to] /\ b = P[d] /\ a \in Seq(Elem) /\ b \in Seq(Elem)
      BY <1>1, <1>3, KnownIs
    <3>2. e \in Elem /\ name \in Elem
      BY <2>2 DEF Elem
    <3>3. Front(Append(a, e)) = a /\ Last(Append(a, e)) = e
      BY <3>1, <3>2, FrontOfAppend
    <3>4. Front(Append(b, name)) = b /\ Last(Append(b, name)) = name
      BY <3>1, <3>2, FrontOfAppend
    <3>5. a # b \/ e # name
      <4>1. CASE to # d
        BY <1>1, <1>3, <3>1, <4>1 DEF Apart
      <4>2. CASE to = d
        BY <2>1, <2>2, <4>2
      <4> QED
        BY <4>1, <4>2
    <3>6. Append(a, e) # Append(b, name)
      BY <3>3, <3>4, <3>5, Zenon
    <3> QED
      BY <3>1, <3>6, Zenon
  <2>4. Append(P[to], e) \notin DOMAIN z.disk
    BY <1>2, <2>1, <2>2, <2>3
  <2>5. Q[to] = P[to]
    BY <1>2, <1>3
  <2> QED
    BY <1>3, <2>1, <2>2, <2>4, <2>5
<1>6. \A i, j \in 1 .. Len(left) : z.recs[left[i]].name = z.recs[left[j]].name => i = j
  <2>1. \A i \in 1 .. Len(left) : z.recs[left[i]].name = x.recs[left[i]].name
    BY <1>2, <1>3 DEF Left
  <2> QED
    BY <2>1 DEF Left
<1> QED
  BY <1>4, <1>5, <1>6 DEF Left

(* The directory a call copies to stays the one whose record the call      *)
(* holds.                                                                  *)
LEMMA SameOn ==
  ASSUME NEW x, NEW P, NEW rk, Shape(x, P, rk), NEW to \in Objs(P), NEW r, Same(x, to, r),
         x.recs[to].isdir, x.recs[to].scanned,
         NEW z, NEW Q, NEW d, NEW n, NEW q, CopyOf(x, P, z, Q, d, n, q)
  PROVE  /\ to \in Objs(Q) /\ z.recs[to].isdir /\ z.recs[to].scanned /\ Same(z, to, r)
         /\ to # n /\ (to # d => z.recs[to].child = x.recs[to].child)
<1>1. x \in Machine /\ DOMAIN P \subseteq DOMAIN x.recs /\ to \in DOMAIN P
  BY DEF Shape, Known, Objs
<1>2. to \in DOMAIN x.recs /\ x.recs[to] \in Rec
  BY <1>1, ReadIs
<1>3. x.recs[to].isdir \in BOOLEAN /\ x.recs[to].scanned \in BOOLEAN
  BY <1>2 DEF Rec
<1>4. /\ z.recs[to].store = x.recs[to].store /\ z.recs[to].parent = x.recs[to].parent
      /\ z.recs[to].sibling = x.recs[to].sibling /\ z.recs[to].isdir = x.recs[to].isdir
      /\ z.recs[to].name = x.recs[to].name
      /\ z.recs[to].scanned
      /\ to # d => z.recs[to].child = x.recs[to].child
      /\ to # n /\ to \in DOMAIN Q
  BY <1>1, <1>2 DEF CopyOf
<1>5. to \in Objs(Q)
  BY <1>4 DEF Objs
<1> QED
  BY <1>3, <1>4, <1>5 DEF Same


(* There is nothing in what is not there. *)
LEMMA NothingUnder ==
  ASSUME NEW d, WellFormed(d), NEW q \in Where, Len(q) >= 1, q \notin DOMAIN d, NEW e \in Names
  PROVE  Append(q, e) \notin DOMAIN d /\ Append(q, e) # q
<1>1. PICK z \in Seq(Elem) : z = q /\ Len(z) \in Nat /\ Len(z) >= 1 /\ e \in Elem
  BY DEF Where, Elem
<1>2. PICK a : a = Append(z, e)
  OBVIOUS
<1>3. Front(a) = z /\ Len(a) = Len(z) + 1
  BY <1>1, <1>2, FrontLast, FrontOfAppend
<1>4. Len(a) # 1 /\ a # z
  BY <1>1, <1>3
<1>5. ASSUME NEW s \in StoreId PROVE a # <<s>>
  <2>1. PICK b : b = <<s>> /\ Len(b) = 1
    BY Single
  <2> QED
    BY <1>4, <2>1, Zenon
<1>6. a \notin DOMAIN d
  BY <1>1, <1>3, <1>5 DEF WellFormed
<1> QED
  BY <1>1, <1>2, <1>4, <1>6

(* The call for a new directory has the children of its source left, and   *)
(* an empty directory for them.                                            *)
LEMMA CalledDue ==
  ASSUME NEW x, NEW P, NEW rk, Shape(x, P, rk), NEW z, NEW Q, NEW s, Shape(z, Q, s),
         NEW d, NEW n, NEW q, CopyOf(x, P, z, Q, d, n, q), q \notin DOMAIN x.disk,
         NEW h, NEW call, Called(z, Q, h, n, call)
  PROVE  Due(z, Q, call) /\ call.to = n
<1>1. /\ z \in Machine /\ Known(z, Q) /\ Apart(Q) /\ Chain(z, DOMAIN Q, Objs(Q), s)
      /\ WellFormed(x.disk)
  BY DEF Shape
<1>2. /\ n \in Objs(Q) /\ Q[n] = q /\ DOMAIN z.disk = DOMAIN x.disk \cup {q}
      /\ n \in DOMAIN Q /\ n \in DOMAIN z.recs
  BY <1>1 DEF CopyOf, Objs, Known
<1>3. /\ h \in Objs(Q) /\ h \in DOMAIN Q /\ z.recs[h].isdir
      /\ z.recs[n].isdir /\ z.recs[n].scanned
  BY DEF Called, Objs
<1>4. call = [left |-> Children(z, h), to |-> n, r |-> Read(z, n)]
  BY DEF Called, Call
<1>5. PICK kids : kids = Children(z, h)
  OBVIOUS
<1>6. call.to = n /\ call.left = kids /\ call.r = Read(z, n)
  BY <1>4, <1>5
<1>7. PICK D, O : D = DOMAIN Q /\ O = Objs(Q)
  OBVIOUS
<1>8. /\ kids \in Seq(Int) /\ kids \in Seq(Kids(z, O, h))
      /\ \A i, j \in 1 .. Len(kids) : kids[i] = kids[j] => i = j
  <2>1. Chain(z, D, O, s) /\ h \in D
    BY <1>1, <1>3, <1>7
  <2>2. /\ Children(z, h) \in Seq(Int)
        /\ Children(z, h) \in Seq(Kids(z, O, h))
        /\ \A i, j \in 1 .. Len(Children(z, h)) : Children(z, h)[i] = Children(z, h)[j] => i = j
    BY <1>1, <1>3, <2>1, ChildrenAre
  <2> QED
    BY <1>5, <2>2, Zenon
<1>9. ASSUME NEW i \in 1 .. Len(kids)
      PROVE  kids[i] \in Objs(Q) /\ z.recs[kids[i]].parent = h
  <2>1. kids[i] \in Kids(z, O, h)
    BY <1>8, InSeq
  <2> QED
    BY <1>7, <2>1 DEF Kids
<1>10. Same(z, n, Read(z, n))
  <2>1. Read(z, n) = z.recs[n] /\ z.recs[n] \in Rec
    BY <1>1, <1>2, ReadIs
  <2> QED
    BY <2>1 DEF Same
<1>11. Left(z, Q, n, kids)
  <2>1. ASSUME NEW i \in 1 .. Len(kids)
        PROVE  Append(Q[n], z.recs[kids[i]].name) \notin DOMAIN z.disk
    <3>1. PICK e \in Names : e = z.recs[kids[i]].name
      BY <1>1, <1>9 DEF Known, Objs
    <3>2. q \in Where /\ Len(q) >= 1
      BY <1>1, <1>2, KnownIs
    <3>3. Append(q, e) \notin DOMAIN x.disk /\ Append(q, e) # q
      BY <1>1, <3>2, NothingUnder
    <3> QED
      BY <1>2, <3>1, <3>3
  <2>2. ASSUME NEW i \in 1 .. Len(kids), NEW j \in 1 .. Len(kids),
               z.recs[kids[i]].name = z.recs[kids[j]].name
        PROVE  i = j
    <3>1. PICK k, l : k = kids[i] /\ l = kids[j] /\ k \in Objs(Q) /\ l \in Objs(Q)
                      /\ z.recs[k].parent = h /\ z.recs[l].parent = h
      BY <1>9
    <3>2. z.recs[k].name = z.recs[l].name
      BY <2>2, <3>1
    <3>3. Q[k] = Append(Q[z.recs[k].parent], z.recs[k].name) /\ Q[l] = Append(Q[z.recs[l].parent], z.recs[l].name)
      BY <1>1, <3>1 DEF Known, Objs
    <3>4. Q[k] = Q[l]
      BY <3>1, <3>2, <3>3, Zenon
    <3>5. k = l
      BY <1>1, <3>1, <3>4 DEF Apart, Objs
    <3> QED
      BY <1>8, <3>1, <3>5
  <2> QED
    BY <1>8, <1>9, <2>1, <2>2 DEF Left
<1> QED
  BY <1>2, <1>3, <1>6, <1>10, <1>11 DEF Due

(* The calls of CopyObject that are under way, each with what it has       *)
(* left.                                                                   *)
Calls == [left : Seq(Int), to : Int, r : Rec]
(* The calls that wait: each has its own directory, and that has the one of *)
(* the call it waits for, or the last copy, as its first child.             *)
Stack(x, P, todo, ret) ==
  /\ todo \in Seq(Calls)
  /\ \A i \in 1 .. Len(todo) : Due(x, P, todo[i])
  /\ \A i, j \in 1 .. Len(todo) : todo[i].to = todo[j].to => i = j
  /\ \A i \in 1 .. Len(todo) :
       x.recs[todo[i].to].child = IF i = 1 THEN ret ELSE todo[i - 1].to

(* t is e and then s. *)
PushedTo(t, e, s, S) ==
  /\ t \in Seq(S) /\ Len(t) = Len(s) + 1 /\ Len(s) \in Nat
  /\ t[1] = e /\ \A i \in 2 .. Len(t) : t[i] = s[i - 1]
(* t is s without its first. *)
PoppedTo(t, s, S) ==
  /\ t \in Seq(S) /\ Len(t) = Len(s) - 1 /\ Len(s) \in Nat /\ Len(s) >= 1
  /\ \A i \in 1 .. Len(t) : t[i] = s[i + 1]

(* A call goes on top of the calls under way. *)
LEMMA Pushed ==
  ASSUME NEW S, NEW e \in S, NEW s \in Seq(S)
  PROVE  PushedTo(<<e>> \o s, e, s, S)
BY DEF PushedTo

(* The innermost call returns to the one that made it. *)
LEMMA Popped ==
  ASSUME NEW S, NEW s \in Seq(S), s # <<>>
  PROVE  PoppedTo(Tail(s), s, S) /\ Head(s) = s[1] /\ s[1] \in S
BY DEF PoppedTo


(* A call for a new directory goes on top of the others. *)
LEMMA StackPush ==
  ASSUME NEW z, NEW Q, NEW todo, NEW n, Stack(z, Q, todo, n), NEW call \in Calls, Due(z, Q, call),
         call.to = n, z.recs[n].child = 0, \A i \in 1 .. Len(todo) : todo[i].to # n
  PROVE  Stack(z, Q, <<call>> \o todo, 0)
<1>1. todo \in Seq(Calls)
  BY DEF Stack
<1>0. PICK t : t = <<call>> \o todo /\ PushedTo(t, call, todo, Calls)
  <2>1. PushedTo(<<call>> \o todo, call, todo, Calls)
    BY <1>1, Pushed, Zenon
  <2> QED
    BY <2>1, Zenon
<1>2. /\ t = <<call>> \o todo /\ t \in Seq(Calls) /\ Len(t) = Len(todo) + 1 /\ Len(todo) \in Nat
      /\ t[1] = call /\ \A i \in 2 .. Len(t) : t[i] = todo[i - 1]
  BY <1>0, Zenon DEF PushedTo
<1>3. \A i \in 1 .. Len(t) : i # 1 => i \in 2 .. Len(t) /\ i - 1 \in 1 .. Len(todo)
  BY <1>2
<1>4. ASSUME NEW i \in 1 .. Len(t) PROVE Due(z, Q, t[i])
  <2>1. CASE i = 1
    BY <1>2, <2>1
  <2>2. CASE i # 1
    BY <1>2, <1>3, <2>2 DEF Stack
  <2> QED
    BY <2>1, <2>2
<1>5. ASSUME NEW i \in 1 .. Len(t), NEW j \in 1 .. Len(t), t[i].to = t[j].to PROVE i = j
  <2>1. CASE i = 1 /\ j # 1
    BY <1>2, <1>3, <1>5, <2>1
  <2>2. CASE i # 1 /\ j = 1
    BY <1>2, <1>3, <1>5, <2>2
  <2>3. CASE i # 1 /\ j # 1
    <3>1. todo[i - 1].to = todo[j - 1].to
      BY <1>2, <1>3, <1>5, <2>3
    <3>2. i - 1 = j - 1
      BY <1>3, <2>3, <3>1 DEF Stack
    <3> QED
      BY <3>2
  <2> QED
    BY <2>1, <2>2, <2>3
<1>6. ASSUME NEW i \in 1 .. Len(t)
      PROVE  z.recs[t[i].to].child = IF i = 1 THEN 0 ELSE t[i - 1].to
  <2>1. CASE i = 1
    BY <1>2, <2>1
  <2>2. CASE i = 2
    <3>1. t[2] = todo[1] /\ 1 \in 1 .. Len(todo) /\ t[1].to = n
      BY <1>2, <1>3, <2>2
    <3>2. z.recs[todo[1].to].child = n
      BY <3>1 DEF Stack
    <3> QED
      BY <2>2, <3>1, <3>2
  <2>3. CASE i # 1 /\ i # 2
    <3>1. PICK j : j = i - 1
      OBVIOUS
    <3>2. j \in 1 .. Len(todo) /\ j # 1 /\ j - 1 \in 1 .. Len(todo) /\ t[i] = todo[j]
      BY <1>2, <1>3, <2>3, <3>1
    <3>3. t[i - 1] = todo[j - 1]
      <4>1. j \in 2 .. Len(t)
        BY <1>2, <3>2
      <4> QED
        BY <1>2, <3>1, <4>1
    <3>4. z.recs[todo[j].to].child = todo[j - 1].to
      BY <3>2 DEF Stack
    <3> QED
      BY <2>3, <3>2, <3>3, <3>4
  <2> QED
    BY <2>1, <2>2, <2>3
<1>7. Stack(z, Q, t, 0)
  BY <1>2, <1>4, <1>5, <1>6 DEF Stack
<1> QED
  BY <1>2, <1>7

(* What a copy into the directory of the innermost call leaves of the rest. *)
LEMMA StackOn ==
  ASSUME NEW x, NEW P, NEW rk, Shape(x, P, rk), NEW todo, NEW ret, Stack(x, P, todo, ret),
         todo # <<>>,
         NEW z, NEW Q, NEW n, NEW name \in Names,
         CopyOf(x, P, z, Q, todo[1].to, n, Append(P[todo[1].to], name)),
         NEW first \in Calls, Due(z, Q, first), first.to = todo[1].to
  PROVE  Stack(z, Q, <<first>> \o Tail(todo), n)
<1>1. todo \in Seq(Calls)
  BY DEF Stack
<1>a. PICK rest : rest = Tail(todo) /\ PoppedTo(rest, todo, Calls)
  <2>1. PoppedTo(Tail(todo), todo, Calls)
    BY <1>1, Popped, Zenon
  <2> QED
    BY <2>1, Zenon
<1>2. /\ rest \in Seq(Calls) /\ rest = Tail(todo) /\ Len(rest) = Len(todo) - 1
      /\ Len(todo) \in Nat /\ Len(todo) >= 1
      /\ \A i \in 1 .. Len(rest) : rest[i] = todo[i + 1]
  BY <1>a, Zenon DEF PoppedTo
<1>b. PICK t : t = <<first>> \o rest /\ PushedTo(t, first, rest, Calls)
  <2>1. PushedTo(<<first>> \o rest, first, rest, Calls)
    BY <1>2, Pushed, Zenon
  <2> QED
    BY <2>1, Zenon
<1>3. /\ t \in Seq(Calls) /\ t = <<first>> \o rest /\ Len(t) = Len(rest) + 1
      /\ t[1] = first /\ \A i \in 2 .. Len(t) : t[i] = rest[i - 1]
  BY <1>b, Zenon DEF PushedTo
<1>4. Len(t) = Len(todo) /\ \A i \in 1 .. Len(t) : i # 1 => t[i] = todo[i]
  <2>1. Len(t) = Len(todo)
    BY <1>2, <1>3
  <2>2. ASSUME NEW i \in 1 .. Len(t), i # 1 PROVE t[i] = todo[i]
    <3>1. i \in 2 .. Len(t) /\ i - 1 \in 1 .. Len(rest) /\ (i - 1) + 1 = i
      BY <1>2, <1>3, <2>2
    <3> QED
      BY <1>2, <1>3, <3>1
  <2> QED
    BY <2>1, <2>2
<1>5. \A i \in 1 .. Len(t) : t[i].to = todo[i].to
  BY <1>3, <1>4
<1>6. PICK d, q : d = todo[1].to /\ q = Append(P[d], name)
  OBVIOUS
<1>7. 1 \in 1 .. Len(todo) /\ d \in DOMAIN P
  <2>1. 1 \in 1 .. Len(todo)
    BY <1>2
  <2> QED
    BY <1>6, <2>1 DEF Stack, Due, Objs
<1>8. CopyOf(x, P, z, Q, d, n, q)
  BY <1>6, Zenon
<1>9. ASSUME NEW i \in 1 .. Len(t), i # 1
      PROVE  Due(z, Q, t[i]) /\ z.recs[t[i].to].child = x.recs[t[i].to].child
  <2>1. PICK call : call = todo[i] /\ call = t[i] /\ Due(x, P, call) /\ call.to # d
    BY <1>4, <1>6, <1>7, <1>9 DEF Stack
  <2>2. PICK to, left, r : to = call.to /\ left = call.left /\ r = call.r
    OBVIOUS
  <2>3. to \in Objs(P) /\ x.recs[to].isdir /\ x.recs[to].scanned /\ Same(x, to, r) /\ Left(x, P, to, left)
    BY <2>1, <2>2 DEF Due
  <2>4. Left(z, Q, to, left)
    BY <1>6, <1>7, <1>8, <2>1, <2>2, <2>3, LeftOn
  <2>5. to \in Objs(Q) /\ z.recs[to].isdir /\ z.recs[to].scanned /\ Same(z, to, r) /\ z.recs[to].child = x.recs[to].child
    BY <1>8, <2>1, <2>2, <2>3, SameOn
  <2> QED
    BY <2>1, <2>2, <2>4, <2>5 DEF Due
<1>10. \A i \in 1 .. Len(t) : Due(z, Q, t[i])
  BY <1>3, <1>9
<1>11. \A i, j \in 1 .. Len(t) : t[i].to = t[j].to => i = j
  BY <1>4, <1>5 DEF Stack
<1>12. ASSUME NEW i \in 1 .. Len(t)
       PROVE  z.recs[t[i].to].child = IF i = 1 THEN n ELSE t[i - 1].to
  <2>1. CASE i = 1
    BY <1>3, <1>6, <1>8, <2>1 DEF CopyOf
  <2>2. CASE i # 1
    <3>1. i - 1 \in 1 .. Len(t) /\ i \in 1 .. Len(todo)
      BY <1>4, <2>2
    <3>2. x.recs[todo[i].to].child = todo[i - 1].to
      BY <2>2, <3>1 DEF Stack
    <3> QED
      BY <1>5, <1>9, <2>2, <3>1, <3>2
  <2> QED
    BY <2>1, <2>2
<1>13. Stack(z, Q, t, n)
  BY <1>3, <1>10, <1>11, <1>12 DEF Stack
<1> QED
  BY <1>2, <1>3, <1>13

(* A call that has nothing left returns the directory it made, the first   *)
(* child of where the call below it copies to.                             *)
LEMMA StackDone ==
  ASSUME NEW x, NEW P, NEW todo, NEW ret, Stack(x, P, todo, ret), todo # <<>>,
         NEW y, y.recs = x.recs, DOMAIN y.disk = DOMAIN x.disk
  PROVE  Stack(y, P, Tail(todo), todo[1].to)
<1>1. todo \in Seq(Calls)
  BY DEF Stack
<1>a. PICK t : t = Tail(todo) /\ PoppedTo(t, todo, Calls)
  <2>1. PoppedTo(Tail(todo), todo, Calls)
    BY <1>1, Popped, Zenon
  <2> QED
    BY <2>1, Zenon
<1>2. /\ t \in Seq(Calls) /\ t = Tail(todo) /\ Len(t) = Len(todo) - 1 /\ Len(todo) \in Nat
      /\ Len(todo) >= 1
      /\ \A i \in 1 .. Len(t) : t[i] = todo[i + 1]
  BY <1>a, Zenon DEF PoppedTo
<1>3. \A i \in 1 .. Len(t) : i + 1 \in 1 .. Len(todo) /\ i + 1 # 1
  BY <1>2
<1>4. ASSUME NEW i \in 1 .. Len(t) PROVE Due(y, P, t[i])
  <2>1. Due(x, P, todo[i + 1]) /\ t[i] = todo[i + 1]
    BY <1>2, <1>3 DEF Stack
  <2> QED
    BY <2>1, ZenonT(60) DEF Due, Same, Left
<1>5. ASSUME NEW i \in 1 .. Len(t), NEW j \in 1 .. Len(t), t[i].to = t[j].to PROVE i = j
  <2>0. t[i] = todo[i + 1] /\ t[j] = todo[j + 1]
    BY <1>2
  <2>1. /\ todo[i + 1].to = todo[j + 1].to
        /\ i + 1 \in 1 .. Len(todo) /\ j + 1 \in 1 .. Len(todo)
    BY <1>3, <1>5, <2>0, Zenon
  <2>2. i + 1 = j + 1
    BY <2>1 DEF Stack
  <2> QED
    BY <1>2, <2>2
<1>6. ASSUME NEW i \in 1 .. Len(t)
      PROVE  y.recs[t[i].to].child = IF i = 1 THEN todo[1].to ELSE t[i - 1].to
  <2>1. x.recs[todo[i + 1].to].child = todo[i].to
    <3>1. (i + 1) - 1 = i
      OBVIOUS
    <3> QED
      BY <1>3, <3>1 DEF Stack
  <2>2. i # 1 => i - 1 \in 1 .. Len(t) /\ (i - 1) + 1 = i
    BY <1>2
  <2> QED
    BY <1>2, <2>1, <2>2
<1>7. Stack(y, P, t, todo[1].to)
  BY <1>2, <1>4, <1>5, <1>6 DEF Stack
<1> QED
  BY <1>2, <1>7


(* A call goes on with what is left after the first object. *)
Going(call, first) == call.left # <<>> /\ first = [call EXCEPT !.left = Tail(@)]

(* A call that took its first object has the others left. *)
LEMMA GoingIs ==
  ASSUME NEW call \in Calls, NEW first, Going(call, first)
  PROVE  /\ first \in Calls /\ first.to = call.to /\ first.r = call.r
         /\ PoppedTo(first.left, call.left, Int)
         /\ Head(call.left) = call.left[1] /\ call.left[1] \in Int
<1>1. PICK left \in Seq(Int) : left = call.left /\ left # <<>>
  BY DEF Calls, Going
<1>2. PoppedTo(Tail(left), left, Int) /\ Head(left) = left[1] /\ left[1] \in Int
  BY <1>1, Popped
<1>3. PICK t \in Seq(Int) : t = Tail(left) /\ PoppedTo(t, left, Int)
  BY <1>2 DEF PoppedTo
<1>4. first = [left |-> t, to |-> call.to, r |-> call.r]
  BY <1>1, <1>3 DEF Going, Calls
<1>5. first.left = t /\ first.to = call.to /\ first.r = call.r /\ first \in Calls
  BY <1>4 DEF Calls
<1> QED
  BY <1>1, <1>2, <1>3, <1>5, Zenon

(* When its object has been copied, the call goes on with the objects      *)
(* that are left.                                                          *)
LEMMA FirstDue ==
  ASSUME NEW x, NEW P, NEW rk, Shape(x, P, rk), NEW call \in Calls, Due(x, P, call),
         NEW first, Going(call, first), NEW z, NEW Q, NEW n, NEW name \in Names,
         name = x.recs[call.left[1]].name,
         CopyOf(x, P, z, Q, call.to, n, Append(P[call.to], name))
  PROVE  Due(z, Q, first)
<1>1. PICK to, left, r : to = call.to /\ left = call.left /\ r = call.r
  OBVIOUS
<1>2. PICK t : t = first.left /\ PoppedTo(t, left, Int) /\ first.to = to /\ first.r = r
  BY <1>1, GoingIs, Zenon
<1>3. to \in Objs(P) /\ x.recs[to].isdir /\ x.recs[to].scanned /\ Same(x, to, r) /\ Left(x, P, to, left)
  BY <1>1 DEF Due
<1>4. /\ t \in Seq(Int) /\ Len(left) \in Nat /\ Len(t) = Len(left) - 1
      /\ \A i \in 1 .. Len(t) : t[i] = left[i + 1] /\ i + 1 \in 1 .. Len(left) /\ i + 1 # 1
      /\ 1 \in 1 .. Len(left)
  BY <1>2 DEF PoppedTo
<1>5. PICK q : q = Append(P[to], name) /\ CopyOf(x, P, z, Q, to, n, q) /\ name = x.recs[left[1]].name
  BY <1>1, Zenon
<1>6. Left(x, P, to, t)
  <2>1. \A i \in 1 .. Len(t) :
          t[i] \in Objs(P) /\ Append(P[to], x.recs[t[i]].name) \notin DOMAIN x.disk
    BY <1>3, <1>4 DEF Left
  <2>2. ASSUME NEW i \in 1 .. Len(t), NEW j \in 1 .. Len(t), x.recs[t[i]].name = x.recs[t[j]].name
        PROVE  i = j
    <3>1. PICK k \in 1 .. Len(left), l \in 1 .. Len(left) : k = i + 1 /\ l = j + 1 /\ t[i] = left[k] /\ t[j] = left[l]
      BY <1>4
    <3>2. x.recs[left[k]].name = x.recs[left[l]].name
      BY <2>2, <3>1
    <3>3. k = l
      BY <1>3, <3>2 DEF Left
    <3> QED
      BY <3>1, <3>3
  <2> QED
    BY <1>4, <2>1, <2>2 DEF Left
<1>7. \A i \in 1 .. Len(t) : x.recs[t[i]].name # name
  BY <1>3, <1>4, <1>5 DEF Left
<1>8. to \in DOMAIN P
  BY <1>3 DEF Objs
<1>9. Left(z, Q, to, t)
  BY <1>3, <1>5, <1>6, <1>7, <1>8, LeftOn
<1>10. to \in Objs(Q) /\ z.recs[to].isdir /\ z.recs[to].scanned /\ Same(z, to, r)
  BY <1>3, <1>5, SameOn
<1> QED
  BY <1>2, <1>9, <1>10 DEF Due

(* A directory without children is none that a call waits for. *)
LEMMA NotWaiting ==
  ASSUME NEW z, NEW Q, NEW todo, NEW n, Stack(z, Q, todo, n), n \in Objs(Q), z.recs[n].child = 0
  PROVE  \A i \in 1 .. Len(todo) : todo[i].to # n
<1>1. todo \in Seq(Calls) /\ Len(todo) \in Nat
  BY InSeq DEF Stack
<1>2. ASSUME NEW i \in 1 .. Len(todo), todo[i].to = n PROVE FALSE
  <2>1. 0 \notin Objs(Q)
    BY ZeroIsStore DEF Objs
  <2>2. (IF i = 1 THEN n ELSE todo[i - 1].to) = 0
    BY <1>2 DEF Stack
  <2>3. CASE i = 1
    BY <2>1, <2>2, <2>3
  <2>4. CASE i # 1
    <3>1. i - 1 \in 1 .. Len(todo) /\ todo[i - 1].to = 0
      BY <1>1, <2>2, <2>4
    <3>2. todo[i - 1].to \in Objs(Q)
      BY <3>1 DEF Stack, Due
    <3> QED
      BY <2>1, <3>1, <3>2
  <2> QED
    BY <2>3, <2>4
<1> QED
  BY <1>2

(* The innermost call copies its next object. *)
Copying(x, todo, call, first, rest, h, c) ==
  /\ todo # <<>> /\ call = todo[1] /\ Going(call, first) /\ h = call.left[1]
  /\ rest = <<first>> \o Tail(todo)
  /\ c = CopyObjectInto(x, h, Read(x, h), call.to, TRUE, rest)

(* The innermost call copies its next object: a tree is left, and every    *)
(* call under way still has what it needs.                                 *)
LEMMA NextKeeps ==
  ASSUME NEW x, NEW P, NEW rk, Shape(x, P, rk), NEW todo, NEW ret, Stack(x, P, todo, ret),
         NEW call, NEW first, NEW rest, NEW h, NEW c, Copying(x, todo, call, first, rest, h, c)
  PROVE  \E Q, s : Shape(c.x, Q, s) /\ Stack(c.x, Q, c.todo, c.ret) /\ c.ret \in Int
<1>1. /\ todo # <<>> /\ call = todo[1] /\ Going(call, first) /\ h = call.left[1]
      /\ rest = <<first>> \o Tail(todo)
      /\ c = CopyObjectInto(x, h, Read(x, h), call.to, TRUE, rest)
  BY DEF Copying
<1>2. call \in Calls /\ Due(x, P, call)
  <2>1. todo \in Seq(Calls)
    BY DEF Stack
  <2>2. 1 \in 1 .. Len(todo)
    BY <1>1, <2>1
  <2>3. todo[1] \in Calls /\ Due(x, P, todo[1])
    BY <2>1, <2>2, InSeq DEF Stack
  <2> QED
    BY <1>1, <2>3
<1>3. first \in Calls /\ first.to = call.to
  BY <1>1, <1>2, GoingIs
<1>4. PICK d, name : d = call.to /\ name = x.recs[h].name
  OBVIOUS
<1>5. h \in Objs(P) /\ Append(P[d], name) \notin DOMAIN x.disk /\ d \in Objs(P) /\ x.recs[d].isdir
  <2>1. PICK left : left = call.left /\ PoppedTo(first.left, left, Int)
    BY <1>1, <1>2, GoingIs, Zenon
  <2>2. 1 \in 1 .. Len(left)
    BY <2>1 DEF PoppedTo
  <2>3. d \in Objs(P) /\ x.recs[d].isdir /\ Left(x, P, d, left)
    BY <1>2, <1>4, <2>1 DEF Due
  <2>4. h = left[1]
    BY <1>1, <2>1
  <2>5. left[1] \in Objs(P) /\ Append(P[d], x.recs[left[1]].name) \notin DOMAIN x.disk
    BY <2>2, <2>3 DEF Left
  <2> QED
    BY <1>4, <2>3, <2>4, <2>5
<1>6. name \in Names /\ d \in DOMAIN P
  BY <1>4, <1>5 DEF Shape, Known, Objs
<1>7. CopyAsked(x, P, h, d, TRUE, rest, c)
  BY <1>1, <1>4, <1>5, <1>6 DEF CopyAsked
<1>8. PICK q : q = Append(P[d], name)
  OBVIOUS
<1>9. PICK Q, s : Shape(c.x, Q, s) /\ CopyGave(x, P, c, Q, h, d, q, rest)
  <2>1. PICK Q, s : /\ Shape(c.x, Q, s)
                    /\ \/ c.ret = Bad /\ ~TRUE /\ c.todo = rest
                       \/ CopyGave(x, P, c, Q, h, d, Append(P[d], x.recs[h].name), rest)
    BY <1>7, CopyIntoKeeps, Zenon
  <2> QED
    BY <1>4, <1>8, <2>1, Zenon
<1>10. PICK z : z = c.x
  OBVIOUS
<1>11. ASSUME NEW n, CopyOf(x, P, z, Q, d, n, q)
       PROVE  Stack(z, Q, rest, n)
  <2>1. CopyOf(x, P, z, Q, call.to, n, Append(P[call.to], name))
    BY <1>4, <1>8, <1>11, Zenon
  <2>2. name = x.recs[call.left[1]].name
    BY <1>1, <1>4, Zenon
  <2>3. Due(z, Q, first)
    BY <1>1, <1>2, <1>6, <2>1, <2>2, FirstDue
  <2>4. CopyOf(x, P, z, Q, todo[1].to, n, Append(P[todo[1].to], name)) /\ first.to = todo[1].to
    BY <1>1, <1>3, <2>1, Zenon
  <2>5. todo # <<>>
    BY <1>1, Zenon
  <2>6. Stack(z, Q, <<first>> \o Tail(todo), n)
    BY <1>3, <1>6, <2>3, <2>4, <2>5, StackOn
  <2> QED
    BY <1>1, <2>6, Zenon
<1>12. CASE c.todo = rest /\ c.ret \in Nat /\ CopyOf(x, P, c.x, Q, d, c.ret, q)
  <2>1. Stack(z, Q, rest, c.ret)
    BY <1>10, <1>11, <1>12, Zenon
  <2>2. Stack(c.x, Q, c.todo, c.ret)
    BY <1>10, <1>12, <2>1, Zenon
  <2> QED
    BY <1>9, <1>12, <2>2
<1>13. CASE c.ret = 0 /\ \E n, new :
         /\ n \in Nat /\ c.todo = <<new>> \o rest /\ CopyOf(x, P, c.x, Q, d, n, q)
         /\ Called(c.x, Q, h, n, new)
  <2>1. PICK n, new :
         /\ n \in Nat /\ c.todo = <<new>> \o rest /\ CopyOf(x, P, z, Q, d, n, q)
         /\ Called(z, Q, h, n, new)
    BY <1>10, <1>13, Zenon
  <2>2. Stack(z, Q, rest, n)
    BY <1>11, <2>1, Zenon
  <2>3. q \notin DOMAIN x.disk /\ Shape(z, Q, s)
    BY <1>5, <1>8, <1>9, <1>10, Zenon
  <2>4. Due(z, Q, new) /\ new.to = n
    <3>1. CopyOf(x, P, z, Q, d, n, q) /\ Called(z, Q, h, n, new)
      BY <2>1
    <3> QED
      BY <2>3, <3>1, CalledDue
  <2>5. new \in Calls
    <3>1. new = [left |-> Children(z, h), to |-> n, r |-> Read(z, n)]
      BY <2>1, Zenon DEF Called, Call
    <3>2. new.left \in Seq(Int) /\ new.r \in Rec
      BY <2>4 DEF Due, Left, Same
    <3>3. new.left = Children(z, h) /\ new.r = Read(z, n)
      BY <3>1
    <3> QED
      BY <2>1, <3>1, <3>2, <3>3 DEF Calls
  <2>6. n \in Objs(Q) /\ z.recs[n].child = 0
    BY <2>1 DEF CopyOf, Called
  <2>7. \A i \in 1 .. Len(rest) : rest[i].to # n
    BY <2>2, <2>6, NotWaiting
  <2>8. Stack(z, Q, <<new>> \o rest, 0)
    BY <2>2, <2>4, <2>5, <2>6, <2>7, StackPush
  <2>9. Stack(c.x, Q, c.todo, c.ret)
    BY <1>10, <1>13, <2>1, <2>8, Zenon
  <2> QED
    BY <1>9, <1>13, <2>9
<1> QED
  BY <1>9, <1>12, <1>13 DEF CopyGave


(* A call ends: the record it writes back is the one that is there. *)
LEMMA DoneKeeps ==
  ASSUME NEW x, NEW P, NEW rk, Shape(x, P, rk), NEW todo, NEW ret \in Int, Stack(x, P, todo, ret),
         todo # <<>>, NEW call, call = todo[1], NEW y,
         y = Put(x, call.to, [call.r EXCEPT !.child = ret])
  PROVE  Shape(y, P, rk) /\ Stack(y, P, Tail(todo), call.to) /\ call.to \in Int
<1>1. todo \in Seq(Calls) /\ 1 \in 1 .. Len(todo)
  BY DEF Stack
<1>2. PICK to, r : to = call.to /\ r = call.r
  OBVIOUS
<1>3. to \in Objs(P) /\ to \in Int /\ Same(x, to, r) /\ x.recs[to].child = ret
  <2>1. call \in Calls /\ Due(x, P, call) /\ x.recs[call.to].child = ret
    BY <1>1 DEF Stack
  <2> QED
    BY <1>2, <2>1 DEF Due, Calls
<1>4. x \in Machine /\ to \in DOMAIN x.recs
  BY <1>3 DEF Shape, Known, Objs
<1>5. PICK e : e = [r EXCEPT !.child = ret]
  OBVIOUS
<1>6. /\ e \in Rec /\ e.child = ret /\ e.store = r.store /\ e.parent = r.parent
      /\ e.sibling = r.sibling
      /\ e.isdir = r.isdir /\ e.scanned = r.scanned /\ e.name = r.name
  BY <1>3, <1>5 DEF Same, Rec
<1>7. y = Put(x, to, e)
  BY <1>2, <1>5
<1>8. PutTo(x, y, to, e)
  <2>1. PutTo(x, Put(x, to, e), to, e)
    BY <1>4, <1>6, PutFields, Zenon
  <2> QED
    BY <1>7, <2>1, Zenon
<1>9. y \in Machine /\ DOMAIN y.recs = DOMAIN x.recs /\ Beside(x, y)
  BY <1>8, Zenon DEF PutTo
<1>10. y.recs = x.recs
  <2>1. /\ y.recs[to].store = x.recs[to].store /\ y.recs[to].parent = x.recs[to].parent
        /\ y.recs[to].sibling = x.recs[to].sibling /\ y.recs[to].child = x.recs[to].child
        /\ y.recs[to].isdir = x.recs[to].isdir /\ y.recs[to].scanned = x.recs[to].scanned
        /\ y.recs[to].name = x.recs[to].name
    BY <1>3, <1>6, <1>8 DEF PutTo, Same, Objs
  <2>2. \A g \in DOMAIN x.recs : g # to => y.recs[g] = x.recs[g]
    BY <1>8 DEF PutTo
  <2>3. \A g \in DOMAIN x.recs :
           /\ y.recs[g].store = x.recs[g].store /\ y.recs[g].parent = x.recs[g].parent
           /\ y.recs[g].sibling = x.recs[g].sibling /\ y.recs[g].child = x.recs[g].child
           /\ y.recs[g].isdir = x.recs[g].isdir /\ y.recs[g].scanned = x.recs[g].scanned
           /\ y.recs[g].name = x.recs[g].name
    BY <2>1, <2>2
  <2> QED
    BY <1>4, <1>9, <2>3, SameRecs
<1>11. y.disk = x.disk /\ y.hung = x.hung /\ y.file = x.file /\ y.open = x.open
  BY <1>9 DEF Beside
<1>12. Opened(y, P)
  BY <1>10, <1>11 DEF Shape, Opened
<1>13. Shape(y, P, rk)
  BY <1>9, <1>10, <1>11, <1>12, Reopened
<1>14. Stack(y, P, Tail(todo), call.to)
  <2>1. DOMAIN y.disk = DOMAIN x.disk
    BY <1>11
  <2>2. Stack(y, P, Tail(todo), todo[1].to)
    BY <1>10, <2>1, StackDone
  <2> QED
    BY <2>2, Zenon
<1> QED
  BY <1>2, <1>3, <1>13, <1>14

(* A copy under way. *)
Copies == {c \in [x : Machine, ret : Int, todo : Seq(Calls)] :
             \E P, rk : Shape(c.x, P, rk) /\ Stack(c.x, P, c.todo, c.ret)}

(* c is the call of CopyObject. *)
Into(c, x, h, r, d, room, todo) == c = CopyObjectInto(x, h, r, d, room, todo)
(* A copy is a machine, the last handle and the calls under way. *)
LEMMA IntoIs ==
  ASSUME NEW x, NEW h, NEW r, NEW d, NEW room, NEW todo, NEW c, Into(c, x, h, r, d, room, todo)
  PROVE  c = [x |-> c.x, ret |-> c.ret, todo |-> c.todo]
<1>1. PICK a : a = Create(x, Read(x, d).store, d, r.isdir, r.name, room)
  OBVIOUS
<1>2. c = CopyTo(a, h, r, todo)
  BY <1>1, Zenon DEF CopyObjectInto, Into
<1>3. PICK b : b = ScanDir(a.x, r.store, h)
  OBVIOUS
<1>4. PICK k, e : k = <<Call(b, h, a.ret)>> \o todo /\ e = CompleteCopyFile(a.x, h, a.ret)
  OBVIOUS
<1>5. c = IF a.ret # Bad /\ r.isdir THEN [x |-> b, ret |-> 0, todo |-> k]
          ELSE [x |-> IF a.ret = Bad THEN a.x ELSE e, ret |-> a.ret, todo |-> todo]
  BY <1>2, <1>3, <1>4, Zenon DEF CopyTo
<1> QED
  BY <1>5

(* A tree and calls that fit it are a copy under way. *)
LEMMA CopiesIs ==
  ASSUME NEW c, c = [x |-> c.x, ret |-> c.ret, todo |-> c.todo], NEW P, NEW rk, Shape(c.x, P, rk),
         Stack(c.x, P, c.todo, c.ret), c.ret \in Int
  PROVE  c \in Copies
<1>1. PICK x, ret, todo : x = c.x /\ ret = c.ret /\ todo = c.todo
  OBVIOUS
<1>2. x \in Machine /\ ret \in Int /\ todo \in Seq(Calls)
  BY <1>1 DEF Shape, Stack
<1>3. [x |-> x, ret |-> ret, todo |-> todo] \in [x : Machine, ret : Int, todo : Seq(Calls)]
  BY <1>2
<1>4. c \in [x : Machine, ret : Int, todo : Seq(Calls)]
  BY <1>1, <1>3, Zenon
<1> QED
  BY <1>4, Zenon DEF Copies

(* A step of a copy leaves a copy under way: an object is copied, a call   *)
(* returns, or nothing is left to do.                                      *)
LEMMA CopyOnKeeps ==
  ASSUME NEW c \in Copies
  PROVE  CopyOn(c) \in Copies
<1>1. PICK P, rk : Shape(c.x, P, rk) /\ Stack(c.x, P, c.todo, c.ret)
  BY DEF Copies
<1>2. PICK x, ret, todo : x = c.x /\ ret = c.ret /\ todo = c.todo /\ ret \in Int /\ todo \in Seq(Calls)
  BY DEF Copies
<1>3. Shape(x, P, rk) /\ Stack(x, P, todo, ret)
  BY <1>1, <1>2, Zenon
<1>4. CASE todo = <<>>
  BY <1>2, <1>4 DEF CopyOn
<1>5. CASE todo # <<>>
  <2>1. PICK call : call = todo[1] /\ call = Head(todo) /\ call \in Calls
    BY <1>2, <1>5, Popped
  <2>2. CASE call.left = <<>>
    <3>1. PICK y : y = Put(x, call.to, [call.r EXCEPT !.child = ret])
      OBVIOUS
    <3>2. PICK t, to : t = Tail(todo) /\ to = call.to
      OBVIOUS
    <3>3. CopyOn(c) = [x |-> y, ret |-> to, todo |-> t]
      BY <1>2, <1>5, <2>1, <2>2, <3>1, <3>2, Zenon DEF CopyOn, CopyDone
    <3>4. Shape(y, P, rk) /\ Stack(y, P, t, to) /\ to \in Int
      BY <1>2, <1>3, <1>5, <2>1, <3>1, <3>2, DoneKeeps
    <3>5. PICK k : k = CopyOn(c) /\ k = [x |-> y, ret |-> to, todo |-> t]
      BY <3>3
    <3>6. k.x = y /\ k.ret = to /\ k.todo = t
      BY <3>5
    <3>7. k \in Copies
      <4>1. k = [x |-> k.x, ret |-> k.ret, todo |-> k.todo]
        BY <3>5, <3>6, Zenon
      <4>2. Shape(k.x, P, rk) /\ Stack(k.x, P, k.todo, k.ret) /\ k.ret \in Int
        BY <3>4, <3>6, Zenon
      <4> QED
        BY <4>1, <4>2, CopiesIs, Zenon
    <3> QED
      BY <3>5, <3>7, Zenon
  <2>3. CASE call.left # <<>>
    <3>1. PICK first : first = [call EXCEPT !.left = Tail(@)]
      OBVIOUS
    <3>2. PICK h : h = call.left[1] /\ h = Head(call.left)
      <4>1. Going(call, first)
        BY <2>3, <3>1 DEF Going
      <4> QED
        BY <2>1, <4>1, GoingIs
    <3>3. PICK rest : rest = <<first>> \o Tail(todo)
      OBVIOUS
    <3>4. PICK k : k = CopyObjectInto(x, h, Read(x, h), call.to, TRUE, rest)
      OBVIOUS
    <3>5. CopyOn(c) = k
      BY <1>2, <1>5, <2>1, <2>3, <3>1, <3>2, <3>3, <3>4, Zenon DEF CopyOn, CopyNext
    <3>6. Copying(x, todo, call, first, rest, h, k)
      BY <1>5, <2>1, <2>3, <3>1, <3>2, <3>3, <3>4, Zenon DEF Copying, Going
    <3>7. PICK Q, s : Shape(k.x, Q, s) /\ Stack(k.x, Q, k.todo, k.ret) /\ k.ret \in Int
      BY <1>3, <3>6, NextKeeps, Zenon
    <3>8. k = [x |-> k.x, ret |-> k.ret, todo |-> k.todo]
      <4>1. Into(k, x, h, Read(x, h), call.to, TRUE, rest)
        BY <3>4, Zenon DEF Into
      <4> QED
        BY <4>1, IntoIs, Zenon
    <3>9. k \in Copies
      BY <3>7, <3>8, CopiesIs, Zenon
    <3> QED
      BY <3>5, <3>9, Zenon
  <2> QED
    BY <2>2, <2>3
<1> QED
  BY <1>4, <1>5


(* No call has anything left. *)
LEMMA EmptyStack ==
  ASSUME NEW x, NEW P, NEW n
  PROVE  Stack(x, P, <<>>, n)
BY DEF Stack

(* The first call of CopyObject starts a copy. *)
LEMMA StartKeeps ==
  ASSUME NEW x, NEW P, NEW rk, Shape(x, P, rk), NEW h, NEW d, NEW room, NEW c,
         CopyAsked(x, P, h, d, room, <<>>, c)
  PROVE  c \in Copies
<1>1. Into(c, x, h, Read(x, h), d, room, <<>>)
  BY Zenon DEF CopyAsked, Into
<1>2. c = [x |-> c.x, ret |-> c.ret, todo |-> c.todo]
  BY <1>1, IntoIs, Zenon
<1>3. PICK q : q = Append(P[d], x.recs[h].name)
  OBVIOUS
<1>4. PICK none : none = <<>>
  OBVIOUS
<1>5. PICK Q, s : /\ Shape(c.x, Q, s)
                  /\ \/ c.ret = Bad /\ ~room /\ c.todo = none
                     \/ CopyGave(x, P, c, Q, h, d, q, none)
  <2>1. PICK Q, s : /\ Shape(c.x, Q, s)
                    /\ \/ c.ret = Bad /\ ~room /\ c.todo = <<>>
                       \/ CopyGave(x, P, c, Q, h, d, Append(P[d], x.recs[h].name), <<>>)
    BY CopyIntoKeeps, Zenon
  <2> QED
    BY <1>3, <1>4, <2>1, Zenon
<1>6. PICK z : z = c.x
  OBVIOUS
<1>7. \A n : Stack(z, Q, none, n)
  BY <1>4, EmptyStack, Zenon
<1>8. CASE c.todo = none /\ (c.ret = Bad \/ c.ret \in Nat)
  <2>1. c.ret \in Int
    BY <1>8 DEF Bad
  <2>2. Stack(c.x, Q, c.todo, c.ret)
    BY <1>6, <1>7, <1>8, Zenon
  <2> QED
    BY <1>2, <1>5, <2>1, <2>2, CopiesIs, Zenon
<1>9. CASE c.ret = 0 /\ \E n, new :
         /\ n \in Nat /\ c.todo = <<new>> \o none /\ CopyOf(x, P, c.x, Q, d, n, q)
         /\ Called(c.x, Q, h, n, new)
  <2>1. PICK n, new :
         /\ n \in Nat /\ c.todo = <<new>> \o none /\ CopyOf(x, P, z, Q, d, n, q)
         /\ Called(z, Q, h, n, new)
    BY <1>6, <1>9, Zenon
  <2>2. Shape(z, Q, s) /\ q \notin DOMAIN x.disk
    BY <1>3, <1>5, <1>6, Zenon DEF CopyAsked
  <2>3. Due(z, Q, new) /\ new.to = n
    <3>1. CopyOf(x, P, z, Q, d, n, q) /\ Called(z, Q, h, n, new)
      BY <2>1
    <3> QED
      BY <2>2, <3>1, CalledDue
  <2>4. new \in Calls
    <3>1. new = [left |-> Children(z, h), to |-> n, r |-> Read(z, n)]
      BY <2>1, Zenon DEF Called, Call
    <3>2. new.left \in Seq(Int) /\ new.r \in Rec
      BY <2>3 DEF Due, Left, Same
    <3>3. new.left = Children(z, h) /\ new.r = Read(z, n)
      BY <3>1
    <3> QED
      BY <2>1, <3>1, <3>2, <3>3 DEF Calls
  <2>5. z.recs[n].child = 0
    BY <2>1 DEF Called
  <2>6. \A i \in 1 .. Len(none) : none[i].to # n
    <3>1. Len(none) = 0
      BY <1>4
    <3> QED
      BY <3>1
  <2>7. Stack(z, Q, <<new>> \o none, 0)
    BY <1>7, <2>3, <2>4, <2>5, <2>6, StackPush
  <2>8. Stack(c.x, Q, c.todo, c.ret)
    BY <1>6, <1>9, <2>1, <2>7, Zenon
  <2>9. c.ret \in Int
    BY <1>9
  <2> QED
    BY <1>2, <1>5, <2>8, <2>9, CopiesIs, Zenon
<1> QED
  BY <1>5, <1>8, <1>9, Zenon DEF CopyGave

(* The function that the steps of a copy make. *)
Onwards(a, g) == g = [n \in 0 .. 2 * MaxHandle |-> IF n = 0 THEN a ELSE CopyOn(g[n - 1])]
(* CopyObject as the responder calls it. *)
FirstCopy(x, h, store, parent, room) ==
  CopyObjectInto(x, h, Read(x, h), Folder(store, parent), room, <<>>)

(* A copy leaves a tree, whether it is over or not. *)
LEMMA CopiedKeeps ==
  ASSUME NEW x, NEW h, NEW store, NEW parent, NEW room,
         FirstCopy(x, h, store, parent, room) \in Copies
  PROVE  Copied(x, h, store, parent, room) \in Copies
<1> DEFINE N == 2 * MaxHandle
           a == FirstCopy(x, h, store, parent, room)
           step == [n \in 1 .. N |-> [s \in Copies |-> CopyOn(s)]]
<1>1. N \in Nat
  BY BoundsAssumption
<1>2. a \in Copies
  OBVIOUS
<1>3. step \in [1 .. N -> [Copies -> Copies]]
  BY CopyOnKeeps
<1> HIDE DEF a
<1>4. PICK g \in [0 .. N -> Copies] : Repeats(g, N, a, step)
  <2> HIDE DEF step, N
  <2> QED
    BY <1>1, <1>2, <1>3, Recursion, Zenon
<1>5. Onwards(a, g)
  <2>1. ASSUME NEW n \in 0 .. N PROVE g[n] = IF n = 0 THEN a ELSE CopyOn(g[n - 1])
    <3>1. CASE n = 0
      <4> HIDE DEF step
      <4> QED
        BY <1>1, <1>4, <3>1 DEF Repeats
    <3>2. CASE n # 0
      <4>1. n \in 1 .. N /\ n - 1 \in 0 .. N
        BY <1>1, <3>2
      <4>2. g[n - 1] \in Copies
        BY <4>1
      <4>3. g[n] = step[n][g[n - 1]]
        <5> HIDE DEF step
        <5> QED
          BY <1>4, <3>2, <4>1 DEF Repeats
      <4> QED
        BY <3>2, <4>1, <4>2, <4>3
    <3> QED
      BY <3>1, <3>2
  <2> HIDE DEF step
  <2> QED
    BY <1>4, <2>1 DEF Onwards
<1> HIDE DEF step
<1>6. PICK f : f = CHOOSE g1 : Onwards(a, g1)
  OBVIOUS
<1>7. Copied(x, h, store, parent, room) = f[N]
  BY <1>6 DEF Copied, Onwards, a, FirstCopy
<1>8. Onwards(a, f)
  <2> HIDE DEF N
  <2> QED
    BY <1>5, <1>6
<1>9. \A n \in 0 .. N : f[n] = IF n = 0 THEN a ELSE CopyOn(f[n - 1])
  BY <1>8, Zenon DEF Onwards
<1> DEFINE T == {n \in 0 .. N : f[n] \in Copies}
<1>10. 0 \in T
  BY <1>1, <1>2, <1>9
<1>11. \A n \in 1 .. N : n - 1 \in T => n \in T
  <2> SUFFICES ASSUME NEW n \in 1 .. N, n - 1 \in T PROVE n \in T
    OBVIOUS
  <2>1. n \in 0 .. N /\ n # 0
    BY <1>1
  <2>2. f[n] = CopyOn(f[n - 1])
    BY <1>9, <2>1
  <2> QED
    BY <2>1, <2>2, CopyOnKeeps
<1>12. N \in T
  <2>1. 0 .. N \subseteq T
    <3> HIDE DEF T, N
    <3> QED
      BY <1>1, <1>10, <1>11, Induct, Zenon
  <2> QED
    BY <1>1, <2>1
<1> QED
  BY <1>7, <1>12


(***************************************************************************)
(* The invariant, action by action.                                        *)
(***************************************************************************)
IndexInv == \E P, rk : Shape(m, P, rk) /\ Sending(m, P, objectId)

(* The places the model starts from and the sketch adds are places of      *)
(* the proof.                                                              *)
LEMMA PlaceWhere ==
  ASSUME NEW p \in Place
  PROVE  /\ p \in Where /\ Len(p) \in Nat /\ Len(p) >= 1 /\ p[1] \in StoreId
         /\ \A i \in 2 .. Len(p) : p[i] \in Names
         /\ Len(p) = 1 => \E s \in StoreId : p = <<s>>
<1>0. PICK s \in StoreId, t \in SeqOf(Names, MaxDepth) : p = <<s>> \o t
  BY DEF Place
<1>1. PICK n \in 0 .. MaxDepth : t \in [1 .. n -> Names]
  BY DEF SeqOf
<1>2. n \in Nat /\ t \in Seq(Elem) /\ Len(t) = n
  <2>1. n \in Nat
    BY BoundsAssumption
  <2>2. t \in [1 .. n -> Elem]
    BY <1>1 DEF Elem
  <2> QED
    BY <2>1, <2>2
<1>3. s \in Elem
  BY DEF Elem
<1>4. PushedTo(<<s>> \o t, s, t, Elem)
  BY <1>2, <1>3, Pushed
<1>5. PushedTo(p, s, t, Elem)
  BY <1>0, <1>4, Zenon
<1>6. /\ p \in Seq(Elem) /\ Len(p) = n + 1 /\ p[1] = s
      /\ \A i \in 2 .. Len(p) : p[i] = t[i - 1] /\ i - 1 \in 1 .. n
  BY <1>2, <1>5 DEF PushedTo
<1>7. \A i \in 2 .. Len(p) : p[i] \in Names
  BY <1>1, <1>6
<1>8. Len(p) = 1 => p = <<s>>
  <2> SUFFICES ASSUME Len(p) = 1 PROVE p = <<s>>
    OBVIOUS
  <2>1. PICK k \in Seq(Elem) : k = <<s>> /\ Len(k) = 1 /\ k[1] = s
    BY <1>3, Single
  <2>2. \A i \in 1 .. Len(p) : p[i] = k[i]
    BY <1>6, <2>1
  <2>3. p = k
    BY <1>6, <2>1, <2>2, SeqEqual
  <2> QED
    BY <2>1, <2>3
<1> QED
  BY <1>2, <1>6, <1>7, <1>8 DEF Where

(* Before a session the index is empty: the empty tree is its tree,        *)
(* whatever the stores hold.                                               *)
LEMMA InitInv ==
  ASSUME Init
  PROVE  IndexInv
<1>1. PICK d \in Disks :
        m = [disk |-> d, recs |-> <<>>, all |-> FALSE, file |-> NoFile,
             mode |-> "read", open |-> Orphan, hung |-> FALSE]
  BY DEF Init
<1>2. d \in Discs /\ WellFormed(d)
  <2>1. DOMAIN d \subseteq Place /\ WellFormed(d)
    BY DisksAssumption
  <2>2. DOMAIN d \in SUBSET Where
    BY <2>1, PlaceWhere
  <2>3. d \in [DOMAIN d -> Content \cup {Dir}]
    BY <2>1 DEF WellFormed
  <2> QED
    BY <2>1, <2>2, <2>3 DEF Discs
<1>3. <<>> \in Index
  <2>1. <<>> \in [0 .. 0 - 1 -> Rec]
    OBVIOUS
  <2> QED
    BY <2>1 DEF Index
<1>4. NoFile \in Where /\ Orphan \in Int
  BY DEF NoFile, Where, Orphan
<1>5. m \in Machine
  BY <1>1, <1>2, <1>3, <1>4 DEF Machine
<1>6. m.disk = d /\ ~m.hung /\ m.recs = <<>> /\ m.open = Orphan
  BY <1>1
<1>7. DOMAIN m.recs = {}
  BY <1>6
<1>8. Shape(m, [h \in {} |-> <<>>], [h \in {} |-> 0])
  BY <1>2, <1>5, <1>6, <1>7, NoRecs
<1>9. objectId = 0
  BY DEF Init
<1>10. Sending(m, [h \in {} |-> <<>>], objectId)
  BY <1>9 DEF Sending
<1> QED
  BY <1>8, <1>10, Zenon DEF IndexInv

(* Once the host may send no object, a tree is enough. *)
LEMMA NothingSent ==
  ASSUME \E P, rk : Shape(m', P, rk), objectId' = 0
  PROVE  IndexInv'
<1>1. PICK P, rk : Shape(m', P, rk)
  OBVIOUS
<1>2. Sending(m', P, objectId')
  BY DEF Sending
<1> QED
  BY <1>1, <1>2, Zenon DEF IndexInv

(* The directories and files the host names are those of the tree. *)
Seen(P) ==
  /\ Objects = Objs(P)
  /\ \A d \in Directories : /\ d \in DOMAIN P /\ Read(m, d) = m.recs[d] /\ m.recs[d].isdir
                            /\ StoreOf(d) = m.recs[d].store /\ d # NoParent
  /\ \A h \in Objects : /\ Read(m, h) = m.recs[h] /\ h # NoParent
                        /\ StoreOf(h) = m.recs[h].store
                        /\ ~m.recs[h].isdir => h \in Files
  /\ \A h \in Files : h \in Objs(P) /\ ~m.recs[h].isdir /\ Read(m, h) = m.recs[h]
(* The handles the host may use are the objects of the tree. *)
LEMMA SeenAll ==
  ASSUME NEW P, NEW rk, Shape(m, P, rk)
  PROVE  Seen(P)
<1>1. m \in Machine /\ Indexed(m) /\ Known(m, P)
  BY DEF Shape
<1>2. Live(m) = DOMAIN P
  BY <1>1, LiveIs
<1>3. Objects = Objs(P)
  BY <1>2 DEF Objects, Objs
<1>4. DOMAIN P \subseteq DOMAIN m.recs /\ StoreId \cap DOMAIN m.recs \subseteq DOMAIN P
  BY <1>1 DEF Known
<1>5. ASSUME NEW d \in Directories
      PROVE  d \in DOMAIN P
  <2>1. d \in StoreId \cup Objects /\ Read(m, d).isdir
    BY DEF Directories
  <2>2. d \in DOMAIN m.recs
    <3>1. ~ZeroRec.isdir
      BY DEF ZeroRec
    <3> QED
      BY <1>1, <2>1, <3>1, ReadIs, Zenon
  <2> QED
    BY <1>3, <1>4, <2>1, <2>2 DEF Objs
<1>6. ASSUME NEW h \in DOMAIN P
      PROVE  Read(m, h) = m.recs[h] /\ h # NoParent /\ StoreOf(h) = m.recs[h].store
  <2>1. h \in DOMAIN m.recs /\ Read(m, h) = m.recs[h]
    BY <1>1, <1>4, ReadIs
  <2>2. h # NoParent
    BY <1>1, <2>1, IndexSize DEF NoParent
  <2> QED
    BY <2>1, <2>2 DEF StoreOf
<1>7. \A h \in Objects : h \in DOMAIN P
  BY <1>3 DEF Objs
<1>8. \A d \in Directories : m.recs[d].isdir
  BY <1>5, <1>6 DEF Directories
<1>9. \A h \in Objects : m.recs[h].isdir <=> h \in Directories
  BY <1>6, <1>7, <1>8 DEF Directories
<1>10. \A h \in Files : h \in Objects /\ ~m.recs[h].isdir
  BY <1>9 DEF Files
<1>11. \A h \in Objects : ~m.recs[h].isdir => h \in Files
  BY <1>9 DEF Files
<1> QED
  BY <1>3, <1>5, <1>6, <1>7, <1>8, <1>10, <1>11 DEF Seen

(* GetObjectHandles of a directory keeps the tree. *)
LEMMA ListInv ==
  ASSUME IndexInv, NEW store, NEW parent, List(store, parent)
  PROVE  IndexInv'
<1>1. PICK P, rk : Shape(m, P, rk)
  BY DEF IndexInv
<1>2. PICK x : x = GenerateIndex(m)
  OBVIOUS
<1>3. PICK Q, r : Shape(x, Q, r)
  BY <1>1, <1>2, GenerateKeeps, Zenon
<1>4. PICK R, s : Shape(ScanFolder(x, Folder(store, parent)), R, s)
  BY <1>3, ScanKeeps, Zenon
<1>5. m' = ScanFolder(x, Folder(store, parent)) /\ objectId' = 0
  BY <1>2, Zenon DEF List, Becomes, ScanDir
<1> QED
  BY <1>4, <1>5, NothingSent, Zenon

(* GetObjectHandles of a whole store keeps the tree. *)
LEMMA ListAllInv ==
  ASSUME IndexInv, NEW store, ListAll(store)
  PROVE  IndexInv'
<1>1. PICK P, rk : Shape(m, P, rk)
  BY DEF IndexInv
<1>2. PICK x : x = GenerateIndex(m)
  OBVIOUS
<1>3. PICK Q, r : Shape(x, Q, r) /\ StoreId \subseteq DOMAIN Q
  BY <1>1, <1>2, GenerateKeeps, Zenon
<1>4. x \in Shaped
  BY <1>3 DEF Shaped, Shape
<1>5. ScanAll(x, store) \in Shaped
  BY <1>4, ScanAllKeeps
<1>6. m' = ScanAll(x, store) /\ objectId' = 0
  BY <1>2, Zenon DEF ListAll, Becomes
<1>7. \E R, s : Shape(m', R, s)
  BY <1>5, <1>6, Zenon DEF Shaped
<1> QED
  BY <1>6, <1>7, NothingSent, Zenon

(* OpenSession keeps the tree. *)
LEMMA OpenSessionInv ==
  ASSUME IndexInv, OpenSession
  PROVE  IndexInv'
<1>1. m \in Machine /\ WellFormed(m.disk) /\ ~m.hung
  BY DEF IndexInv, Shape
<1>2. PICK x : x = [m EXCEPT !.recs = <<>>, !.all = FALSE, !.open = Orphan]
  OBVIOUS
<1>3. m' = x /\ objectId' = 0
  BY <1>2, Zenon DEF OpenSession, Becomes
<1>4. <<>> \in Index
  <2>1. <<>> \in [0 .. 0 - 1 -> Rec]
    OBVIOUS
  <2> QED
    BY <2>1 DEF Index
<1>5. Orphan \in Int
  BY DEF Orphan
<1>6. x \in Machine /\ x.disk = m.disk /\ x.hung = m.hung /\ x.recs = <<>> /\ x.open = Orphan
  BY <1>1, <1>2, <1>4, <1>5 DEF Machine
<1>7. Shape(x, [h \in {} |-> <<>>], [h \in {} |-> 0])
  <2>1. DOMAIN x.recs = {}
    BY <1>6
  <2> QED
    BY <1>1, <1>6, <2>1, NoRecs
<1> QED
  BY <1>3, <1>7, NothingSent, Zenon


(* SendObjectInfo keeps the tree, and the object it announces is the one   *)
(* the host sends next.                                                    *)
LEMMA SendObjectInfoInv ==
  ASSUME IndexInv, NEW store, NEW parent, NEW folder \in BOOLEAN, NEW name \in Names,
         NEW room \in BOOLEAN,
         SendObjectInfo(store, parent, folder, name, room),
         NEW d, d = Folder(store, parent), NEW P, NEW rk, Shape(m, P, rk), Sending(m, P, objectId),
         d \in DOMAIN P, m.recs[d].isdir, store = m.recs[d].store
  PROVE  IndexInv'
<1>1. folder => room
  BY DEF SendObjectInfo
<1>2. PICK c : /\ c = Create(m, store, parent, folder, name, room)
               /\ Becomes(IF folder /\ c.ret # Bad
                          THEN Close(OpenFileByIndex(c.x, c.ret, "read", TRUE)) ELSE c.x)
               /\ objectId' = IF folder \/ c.ret = Bad THEN 0 ELSE c.ret
  BY DEF SendObjectInfo, Changes
<1>3. c = CreateIn(ScanFolder(m, d), store, d, folder, name, room)
  BY <1>2, Zenon DEF Create, ScanDir
<1>4. CreateCalled(m, P, d, folder, name, room, c)
  <2>1. c = CreateIn(ScanFolder(m, d), m.recs[d].store, d, folder, name, room)
    BY <1>3, Zenon
  <2> QED
    BY <1>1, <2>1 DEF CreateCalled
<1>5. PICK z, o : /\ z = (IF folder /\ c.ret # Bad
                          THEN Close(OpenFileByIndex(c.x, c.ret, "read", TRUE)) ELSE c.x)
                  /\ o = (IF folder \/ c.ret = Bad THEN 0 ELSE c.ret)
  OBVIOUS
<1>6. PICK Q, s : Shape(z, Q, s) /\ Sending(z, Q, o)
  <2>1. z = (IF folder /\ c.ret # Bad
             THEN Close(OpenFileByIndex(c.x, c.ret, "read", TRUE)) ELSE c.x)
    BY <1>5
  <2>2. o = (IF folder \/ c.ret = Bad THEN 0 ELSE c.ret)
    BY <1>5
  <2> QED
    BY <1>4, <2>1, <2>2, SendInfoKeeps, Zenon
<1>7. m' = z /\ objectId' = o
  BY <1>2, <1>5, Zenon DEF Becomes
<1> QED
  BY <1>6, <1>7, Zenon DEF IndexInv

(* SendObject keeps the tree: record and file have the same size. *)
LEMMA SendObjectInv ==
  ASSUME IndexInv, NEW c \in Sent, NEW dated \in BOOLEAN, SendObject(c, dated)
  PROVE  IndexInv'
<1>1. PICK P, rk : Shape(m, P, rk) /\ Sending(m, P, objectId)
  BY DEF IndexInv
<1>2. objectId # 0 /\ (dated \/ m.open # Orphan)
  BY DEF SendObject
<1>3. PICK x : x = Sent1(m, c)
  OBVIOUS
<1>4. m' = Close(IF dated THEN OpenFileByIndex(x, objectId, "read", TRUE) ELSE x) /\ objectId' = 0
  BY <1>3, Zenon DEF SendObject, Becomes, Sent1
<1>5. Shape(Close(IF dated THEN OpenFileByIndex(x, objectId, "read", TRUE) ELSE x), P, rk)
  BY <1>1, <1>2, <1>3, SendKeeps, Zenon
<1> QED
  BY <1>4, <1>5, NothingSent, Zenon

(* GetObject keeps the tree. *)
LEMMA GetObjectInv ==
  ASSUME IndexInv, NEW h, GetObject(h)
  PROVE  IndexInv'
<1>1. PICK P, rk : Shape(m, P, rk)
  BY DEF IndexInv
<1>2. h \in Objs(P) /\ h \in DOMAIN m.recs
  <2>1. h \in Files
    BY DEF GetObject
  <2> QED
    BY <1>1, <2>1, SeenAll DEF Seen, Objs, Shape, Known
<1>3. m' = (IF Read(m, h).child = 0 THEN m ELSE OpenFileByIndex(m, h, "read", TRUE)) /\ objectId' = 0
  BY Zenon DEF GetObject, Becomes
<1>4. Shape(OpenFileByIndex(m, h, "read", TRUE), P, rk)
  BY <1>1, <1>2, OpenRead
<1>5. Shape(m', P, rk)
  BY <1>1, <1>3, <1>4, Zenon
<1> QED
  BY <1>3, <1>5, NothingSent, Zenon

(* DeleteObject of an object or of everything keeps the tree. *)
LEMMA DeleteObjectInv ==
  ASSUME IndexInv, NEW h \in Objects \cup {NoParent}, DeleteObject(h)
  PROVE  IndexInv'
<1>1. PICK P, rk : Shape(m, P, rk)
  BY DEF IndexInv
<1>2. m' = (IF h = NoParent THEN m ELSE Deleted(m, h)) /\ objectId' = 0
  BY Zenon DEF DeleteObject, Changes, Becomes
<1>3. CASE h = NoParent
  BY <1>1, <1>2, <1>3, NothingSent, Zenon
<1>4. CASE h # NoParent
  <2>1. h \in Objs(P)
    BY <1>1, <1>4, SeenAll DEF Seen
  <2>2. ShapeBut(m, P, rk, h)
    BY <1>1 DEF Shape, ShapeBut
  <2>3. Shape(Deleted(m, h), Without(P, P[h]), rk)
    BY <2>1, <2>2, DeletedIs
  <2> QED
    BY <1>2, <1>4, <2>3, NothingSent, Zenon
<1> QED
  BY <1>3, <1>4

(* Renaming an object keeps the tree. *)
LEMMA SetObjectPropValueInv ==
  ASSUME IndexInv, NEW h, NEW name \in Names, SetObjectPropValue(h, name)
  PROVE  IndexInv'
<1>1. PICK P, rk : Shape(m, P, rk)
  BY DEF IndexInv
<1>2. h \in Objs(P)
  <2>1. h \in Objects
    BY DEF SetObjectPropValue
  <2> QED
    BY <1>1, <2>1, SeenAll DEF Seen
<1>3. m' = Rename(m, h, name) /\ objectId' = 0
  BY Zenon DEF SetObjectPropValue, Changes, Becomes
<1>4. \E Q : Shape(Rename(m, h, name), Q, rk)
  BY <1>1, <1>2, RenameKeeps
<1> QED
  BY <1>3, <1>4, NothingSent, Zenon

(* MoveObject keeps the tree. *)
LEMMA MoveObjectInv ==
  ASSUME IndexInv, NEW h \in Objects, NEW d \in Directories, NEW room \in BOOLEAN, CanMove(h, d),
         MoveObject(h, StoreOf(d), d, room)
  PROVE  IndexInv'
<1>1. PICK P, rk : Shape(m, P, rk)
  BY DEF IndexInv
<1>2. /\ h \in Objs(P) /\ d \in DOMAIN P /\ m.recs[d].isdir /\ StoreOf(d) = m.recs[d].store
      /\ StoreOf(h) = m.recs[h].store /\ Read(m, h) = m.recs[h]
  BY <1>1, SeenAll DEF Seen
<1>3. m.recs[d].store # m.recs[h].store => ~m.recs[h].isdir /\ m.recs[h].child # 0
  BY <1>2 DEF CanMove
<1>4. \E Q, s : Shape(Move(m, h, m.recs[d].store, d, room), Q, s)
  BY <1>1, <1>2, <1>3, MoveKept
<1>5. m' = Move(m, h, m.recs[d].store, d, room) /\ objectId' = 0
  BY <1>2, Zenon DEF MoveObject, Changes, Becomes
<1> QED
  BY <1>4, <1>5, NothingSent, Zenon

(* CopyObject keeps the tree. *)
LEMMA CopyObjectInv ==
  ASSUME IndexInv, NEW h \in Objects, NEW d \in Directories, NEW room \in BOOLEAN, Target(h, d),
         CopyObject(h, StoreOf(d), d, room)
  PROVE  IndexInv'
<1>1. PICK P, rk : Shape(m, P, rk)
  BY DEF IndexInv
<1>2. /\ h \in Objs(P) /\ d \in DOMAIN P /\ m.recs[d].isdir /\ d # NoParent
      /\ Read(m, h) = m.recs[h]
  BY <1>1, SeenAll DEF Seen
<1>3. m \in Machine /\ Indexed(m) /\ Known(m, P)
  BY <1>1 DEF Shape
<1>4. PICK name : name = m.recs[h].name
  OBVIOUS
<1>5. Append(P[d], name) \notin DOMAIN m.disk
  <2>1. PlaceOf(m, d) = P[d]
    BY <1>2, <1>3, PlaceIs
  <2>2. PlaceOf(m, d) \o <<name>> \notin DOMAIN m.disk
    BY <1>2, <1>4, Zenon DEF Target, NameTaken
  <2>3. PICK q \in Seq(Elem) : q = P[d]
    BY <1>2, <1>3, KnownIs
  <2>4. q \o <<name>> = Append(q, name)
    <3>1. name \in Elem
      BY <1>2, <1>3, <1>4, KnownIs DEF Objs
    <3> QED
      BY <3>1
  <2> QED
    BY <2>1, <2>2, <2>3, <2>4, Zenon
<1>6. PICK a : a = FirstCopy(m, h, StoreOf(d), d, room)
  OBVIOUS
<1>7. Folder(StoreOf(d), d) = d
  BY <1>2 DEF Folder
<1>8. CopyAsked(m, P, h, d, room, <<>>, a)
  <2>1. a = CopyObjectInto(m, h, Read(m, h), d, room, <<>>)
    BY <1>6, <1>7, Zenon DEF FirstCopy
  <2>2. m.recs[h].isdir => room
    BY <1>2 DEF CopyObject
  <2>3. Append(P[d], m.recs[h].name) \notin DOMAIN m.disk
    BY <1>4, <1>5, Zenon
  <2> QED
    BY <1>2, <2>1, <2>2, <2>3, Zenon DEF CopyAsked
<1>9. FirstCopy(m, h, StoreOf(d), d, room) \in Copies
  BY <1>1, <1>6, <1>8, StartKeeps, Zenon
<1>10. PICK c : c = Copied(m, h, StoreOf(d), d, room) /\ m' = c.x /\ objectId' = 0
  BY Zenon DEF CopyObject, Changes, Becomes
<1>11. c \in Copies
  BY <1>9, <1>10, CopiedKeeps, Zenon
<1>12. \E Q, s : Shape(c.x, Q, s)
  BY <1>11 DEF Copies
<1> QED
  BY <1>10, <1>12, NothingSent, Zenon

(* A file or directory the sketch adds and tells the host of keeps the     *)
(* tree.                                                                   *)
LEMMA AddObjectEventInv ==
  ASSUME IndexInv, NEW p \in Place, NEW c \in Sent \cup {Dir}, AddObjectEvent(p, c)
  PROVE  IndexInv'
<1>1. PICK P, rk : Shape(m, P, rk) /\ Sending(m, P, objectId)
  BY DEF IndexInv
<1>2. CanHold(m.disk, p) /\ (Listed(m, p) # Bad => Children(m, Listed(m, p)) # <<>>)
  BY Zenon DEF AddObjectEvent
<1>3. Named1(p)
  <2>1. /\ p \in Where /\ Len(p) \in Nat /\ Len(p) >= 1 /\ p[1] \in StoreId
        /\ \A i \in 2 .. Len(p) : p[i] \in Names
        /\ Len(p) = 1 => \E s \in StoreId : p = <<s>>
    BY PlaceWhere
  <2>2. \A s \in StoreId : <<s>> \in DOMAIN m.disk
    BY <1>1 DEF Shape, WellFormed
  <2>3. Len(p) # 1
    BY <1>2, <2>1, <2>2 DEF CanHold
  <2>4. Len(p) > 1
    <3>1. PICK n \in Nat : n = Len(p) /\ n >= 1 /\ n # 1
      BY <2>1, <2>3, Zenon
    <3>2. n > 1
      BY <3>1
    <3> QED
      BY <3>1, <3>2, Zenon
  <2> QED
    BY <2>1, <2>4, Zenon DEF Named1
<1>4. c \in Content \cup {Dir}
  BY SizeAssumption
<1>5. PICK y, z : y = [m EXCEPT !.disk = Filled(@, p, c)] /\ z = MapFileNameToIndex(y, p)
  OBVIOUS
<1>6. m' = z /\ objectId' = objectId
  BY <1>5, Zenon DEF AddObjectEvent, Changes, Becomes
<1>7. Event(m, y, z, p, c)
  BY <1>2, <1>3, <1>4, <1>5, Zenon DEF Event, Adding
<1>8. \E Q, s : Shape(z, Q, s) /\ Sending(z, Q, objectId)
  BY <1>1, <1>7, AddEventKeeps, Zenon
<1> QED
  BY <1>6, <1>8, Zenon DEF IndexInv


(* Every operation keeps the tree. *)
LEMMA NextInv ==
  ASSUME IndexInv, [Next]_vars
  PROVE  IndexInv'
<1>1. PICK P, rk : Shape(m, P, rk) /\ Sending(m, P, objectId)
  BY DEF IndexInv
<1>2. Seen(P)
  BY <1>1, SeenAll
<1>3. ASSUME NEW s \in StoreId, List(s, NoParent) \/ ListAll(s) PROVE IndexInv'
  BY <1>3, ListInv, ListAllInv
<1>4. ASSUME NEW d \in Directories \ {0}, List(StoreOf(d), d) PROVE IndexInv'
  BY <1>4, ListInv
<1>5. ASSUME NEW d \in Directories, NEW name \in Names, NEW folder \in BOOLEAN,
             NEW room \in BOOLEAN,
             SendObjectInfo(StoreOf(d), d, folder, name, room)
      PROVE  IndexInv'
  <2>1. d \in DOMAIN P /\ m.recs[d].isdir /\ StoreOf(d) = m.recs[d].store /\ d # NoParent
    BY <1>2 DEF Seen
  <2>2. d = Folder(StoreOf(d), d)
    BY <2>1 DEF Folder
  <2> QED
    BY <1>1, <1>5, <2>1, <2>2, SendObjectInfoInv
<1>6. ASSUME NEW s \in StoreId, NEW name \in Names, SendObjectInfo(s, NoParent, FALSE, name, TRUE)
      PROVE  IndexInv'
  <2>1. DOMAIN m.recs # {}
    BY <1>6 DEF SendObjectInfo, Generated
  <2>2. s \in DOMAIN m.recs /\ m.recs[s].isdir /\ m.recs[s].store = s
    BY <1>1, <2>1 DEF Shape, Indexed
  <2>3. s \in DOMAIN P
    BY <1>1, <2>2 DEF Shape, Known
  <2>4. s = Folder(s, NoParent)
    BY DEF Folder
  <2> QED
    BY <1>1, <1>6, <2>2, <2>3, <2>4, SendObjectInfoInv
<1>7. ASSUME NEW c \in Sent, NEW dated \in BOOLEAN, SendObject(c, dated) PROVE IndexInv'
  BY <1>7, SendObjectInv
<1>8. ASSUME NEW h \in Files, GetObject(h) PROVE IndexInv'
  BY <1>8, GetObjectInv
<1>9. ASSUME NEW h \in Objects \cup {NoParent}, DeleteObject(h) PROVE IndexInv'
  BY <1>9, DeleteObjectInv
<1>10. ASSUME NEW h \in Objects, NEW name \in Names, SetObjectPropValue(h, name) PROVE IndexInv'
  BY <1>10, SetObjectPropValueInv
<1>11. ASSUME NEW h \in Objects, NEW d \in Directories, NEW room \in BOOLEAN,
              CanMove(h, d) /\ MoveObject(h, StoreOf(d), d, room)
       PROVE  IndexInv'
  BY <1>11, MoveObjectInv
<1>12. ASSUME NEW h \in Objects, NEW d \in Directories, NEW room \in BOOLEAN,
              Target(h, d) /\ CopyObject(h, StoreOf(d), d, room)
       PROVE  IndexInv'
  BY <1>12, CopyObjectInv
<1>13. ASSUME NEW p \in Place, NEW c \in Sent \cup {Dir}, AddObjectEvent(p, c) PROVE IndexInv'
  BY <1>13, AddObjectEventInv
<1>14. CASE OpenSession
  BY <1>14, OpenSessionInv
<1>15. CASE UNCHANGED vars
  <2>1. m' = m /\ objectId' = objectId
    BY <1>15 DEF vars
  <2> QED
    BY <1>1, <2>1, Zenon DEF IndexInv
<1> QED
  BY <1>3, <1>4, <1>5, <1>6, <1>7, <1>8, <1>9, <1>10, <1>11, <1>12, <1>13, <1>14, <1>15,
     Zenon DEF Next

(***************************************************************************)
(* What the invariant says of the host's view.                             *)
(***************************************************************************)
LEMMA KidsOnDisk ==
  ASSUME NEW P, NEW rk, Shape(m, P, rk), NEW d \in DOMAIN P, m.recs[d].isdir, m.recs[d].scanned
  PROVE  /\ \A h \in Kids(m, Objs(P), d) : P[h] \in Entries(m.disk, P[d])
         /\ \A q \in Entries(m.disk, P[d]) : \E h \in Kids(m, Objs(P), d) : P[h] = q
         /\ IsFiniteSet(Entries(m.disk, P[d]))
<1>1. m \in Machine /\ Known(m, P) /\ Apart(P) /\ WellFormed(m.disk)
  BY DEF Shape
<1>2. DOMAIN m.disk \subseteq Where
  BY <1>1, MachineFields
<1>3. PICK f \in Where : f = P[d] /\ Len(f) >= 1
  BY <1>1, KnownIs
<1>4. /\ IsFiniteSet(Entries(m.disk, f))
      /\ \A q \in Entries(m.disk, f) : q \in DOMAIN m.disk /\ q = Append(f, Last(q)) /\ Last(q) \in Names
      /\ \A e \in Names : Append(f, e) \in DOMAIN m.disk => Append(f, e) \in Entries(m.disk, f)
  BY <1>1, <1>2, <1>3, EntryIs
<1>5. ASSUME NEW h \in Kids(m, Objs(P), d) PROVE P[h] \in Entries(m.disk, f)
  <2>1. h \in Objs(P) /\ m.recs[h].parent = d /\ h \in DOMAIN P
    BY DEF Kids, Objs
  <2>2. m.recs[h].name \in Names /\ P[h] = Append(f, m.recs[h].name)
    BY <1>1, <1>3, <2>1, KnownIs DEF Objs
  <2>3. P[h] \in DOMAIN m.disk
    BY <2>1 DEF Shape, OnDisk
  <2> QED
    BY <1>4, <2>2, <2>3
<1>6. ASSUME NEW q \in Entries(m.disk, f) PROVE \E h \in Kids(m, Objs(P), d) : P[h] = q
  <2>1. PICK e \in Names : q = Append(f, e) /\ q \in DOMAIN m.disk
    BY <1>4
  <2>2. PICK h \in DOMAIN P : P[h] = Append(f, e)
    <3>1. Full(m, P, d)
      BY DEF Shape
    <3>2. Append(P[d], e) \in DOMAIN m.disk
      BY <1>3, <2>1, Zenon
    <3>3. \E h \in DOMAIN P : P[h] = Append(P[d], e)
      BY <3>1, <3>2 DEF Full
    <3> QED
      BY <1>3, <3>3, Zenon
  <2>3. h \in Objs(P) /\ m.recs[h].parent \in DOMAIN P /\ P[m.recs[h].parent] = f
    BY <1>1, <1>3, <2>2, ParentAt
  <2>4. m.recs[h].parent = d
    BY <1>1, <1>3, <2>3 DEF Apart
  <2>5. h \in Kids(m, Objs(P), d)
    BY <2>3, <2>4 DEF Kids
  <2> QED
    BY <2>1, <2>2, <2>5, Zenon
<1> QED
  BY <1>3, <1>4, <1>5, <1>6, Zenon

(* A list of different things is as long as the set of what is made of them. *)
Enumerates(s, P, S) ==
  /\ \A i \in 1 .. Len(s) : P[s[i]] \in S
  /\ \A q \in S : \E i \in 1 .. Len(s) : P[s[i]] = q
  /\ \A i, j \in 1 .. Len(s) : P[s[i]] = P[s[j]] => i = j
(* A list that names every member of a set once is as long as the set. *)
LEMMA AsLong ==
  ASSUME NEW S, IsFiniteSet(S), NEW s \in Seq(Int), NEW P, Enumerates(s, P, S)
  PROVE  Len(s) = Cardinality(S)
<1> DEFINE f == [i \in 1 .. Len(s) |-> P[s[i]]]
<1>1. Len(s) \in Nat
  BY LenProperties
<1>2. f \in Bijection(1 .. Len(s), S)
  <2>1. f \in [1 .. Len(s) -> S]
    BY DEF Enumerates
  <2>2. \A i, j \in DOMAIN f : f[i] = f[j] => i = j
    BY DEF Enumerates
  <2>3. \A q \in S : \E i \in 1 .. Len(s) : f[i] = q
    BY DEF Enumerates
  <2> HIDE DEF f
  <2> QED
    BY <2>1, <2>2, <2>3, Zenon DEF Bijection, Injection, Surjection, IsInjective
<1>3. IsFiniteSet(1 .. Len(s)) /\ Cardinality(1 .. Len(s)) = Len(s)
  <2>1. PICK n \in Nat : n = Len(s)
    BY <1>1
  <2>2. IsFiniteSet(1 .. n) /\ Cardinality(1 .. n) = IF 1 > n THEN 0 ELSE n - 1 + 1
    BY FS_Interval
  <2> QED
    BY <2>1, <2>2
<1> HIDE DEF f
<1>4. Cardinality(1 .. Len(s)) = Cardinality(S)
  <2>1. ExistsBijection(1 .. Len(s), S)
    BY <1>2 DEF ExistsBijection
  <2> QED
    BY <1>3, <2>1, FS_Bijection, Zenon
<1> QED
  BY <1>3, <1>4, Zenon


(* The list of a scanned directory: its objects, each once, ended by a     *)
(* sibling of 0, and one for every entry of the store.                     *)
LEMMA ListedRight ==
  ASSUME NEW P, NEW rk, Shape(m, P, rk), NEW d \in DOMAIN P, m.recs[d].isdir, m.recs[d].scanned,
         NEW kids, kids = Children(m, d), NEW entries, entries = Entries(m.disk, PlaceOf(m, d))
  PROVE  /\ ToSet(kids) = {h \in Objects : Read(m, h).parent = d}
         /\ Len(kids) > 0 => Read(m, Last(kids)).sibling = 0
         /\ {PlaceOf(m, h) : h \in ToSet(kids)} = entries
         /\ Len(kids) = Cardinality(entries)
         /\ \A h \in ToSet(kids) : Read(m, h).isdir <=> m.disk[PlaceOf(m, h)] = Dir
<1>1. /\ m \in Machine /\ Indexed(m) /\ Known(m, P) /\ Apart(P) /\ Chain(m, DOMAIN P, Objs(P), rk)
      /\ \A h \in DOMAIN P : OnDisk(m, P, h)
  BY DEF Shape
<1>2. Seen(P)
  BY SeenAll
<1>3. PICK O, D, K : O = Objs(P) /\ D = DOMAIN P /\ K = Kids(m, O, d)
  OBVIOUS
<1>4. /\ kids \in Seq(Int) /\ kids \in Seq(K) /\ ToSet(kids) = K
      /\ \A i, j \in 1 .. Len(kids) : kids[i] = kids[j] => i = j
      /\ kids # <<>> => m.recs[Last(kids)].sibling = 0
  <2>1. Chain(m, D, O, rk) /\ d \in D
    BY <1>1, <1>3, Zenon
  <2>2. /\ Children(m, d) \in Seq(Int) /\ Children(m, d) \in Seq(Kids(m, O, d))
        /\ ToSet(Children(m, d)) = Kids(m, O, d)
        /\ \A i, j \in 1 .. Len(Children(m, d)) : Children(m, d)[i] = Children(m, d)[j] => i = j
        /\ Children(m, d) # <<>> => m.recs[Last(Children(m, d))].sibling = 0
    BY <1>1, <2>1, ChildrenAre
  <2> QED
    BY <1>3, <2>2, Zenon
<1>5. \A h \in K : h \in O /\ h \in D /\ m.recs[h].parent = d
  BY <1>3 DEF Kids, Objs
<1>6. \A h \in D : PlaceOf(m, h) = P[h]
  BY <1>1, <1>3, PlaceIs
<1>7. \A h \in D : h \in DOMAIN m.recs /\ Read(m, h) = m.recs[h]
  BY <1>1, <1>3, ReadIs DEF Known
<1>8. entries = Entries(m.disk, P[d])
  <2>1. PlaceOf(m, d) = P[d]
    BY <1>3, <1>6
  <2> QED
    BY <2>1, Zenon
<1>9. /\ \A h \in K : P[h] \in entries
      /\ \A q \in entries : \E h \in K : P[h] = q
      /\ IsFiniteSet(entries)
  <2>1. /\ \A h \in Kids(m, Objs(P), d) : P[h] \in Entries(m.disk, P[d])
        /\ \A q \in Entries(m.disk, P[d]) : \E h \in Kids(m, Objs(P), d) : P[h] = q
        /\ IsFiniteSet(Entries(m.disk, P[d]))
    BY KidsOnDisk
  <2> QED
    BY <1>3, <1>8, <2>1, Zenon
<1>10. ToSet(kids) = {h \in Objects : Read(m, h).parent = d}
  <2>1. Objects = O
    BY <1>2, <1>3 DEF Seen
  <2>2. \A h \in O : h \in D
    BY <1>3 DEF Objs
  <2>3. K = {h \in O : m.recs[h].parent = d}
    BY <1>3 DEF Kids
  <2> QED
    BY <1>4, <1>7, <2>1, <2>2, <2>3
<1>11. Len(kids) > 0 => Read(m, Last(kids)).sibling = 0
  <2> SUFFICES ASSUME Len(kids) > 0 PROVE Read(m, Last(kids)).sibling = 0
    OBVIOUS
  <2>1. kids # <<>> /\ Last(kids) = kids[Len(kids)] /\ Len(kids) \in 1 .. Len(kids)
    BY <1>4, InSeq
  <2>2. Last(kids) \in K
    BY <1>4, <2>1, InSeq
  <2> QED
    BY <1>4, <1>5, <1>7, <2>1, <2>2
<1>12. {PlaceOf(m, h) : h \in ToSet(kids)} = entries
  <2>1. \A h \in K : PlaceOf(m, h) = P[h]
    BY <1>5, <1>6
  <2>2. {PlaceOf(m, h) : h \in K} = entries
    BY <1>9, <2>1
  <2> QED
    BY <1>4, <2>2, Zenon
<1>13. Len(kids) = Cardinality(entries)
  <2>1. \A i \in 1 .. Len(kids) : kids[i] \in K
    BY <1>4, InSeq
  <2>2. \A h \in K : \E i \in 1 .. Len(kids) : kids[i] = h
    <3>1. kids \in Seq(K) /\ ToSet(kids) = K
      BY <1>4, Zenon
    <3>2. \A e : e \in ToSet(kids) <=> \E i \in 1 .. Len(kids) : kids[i] = e
      BY <3>1, InSeq
    <3> QED
      BY <3>1, <3>2, Zenon
  <2>3. \A i \in 1 .. Len(kids) : P[kids[i]] \in entries
    BY <1>9, <2>1
  <2>4. \A q \in entries : \E i \in 1 .. Len(kids) : P[kids[i]] = q
    BY <1>9, <2>2
  <2>5. \A i, j \in 1 .. Len(kids) : P[kids[i]] = P[kids[j]] => i = j
    BY <1>1, <1>3, <1>4, <1>5, <2>1 DEF Apart
  <2> QED
    <3>1. kids \in Seq(Int) /\ IsFiniteSet(entries)
      BY <1>4, <1>9, Zenon
    <3>2. Enumerates(kids, P, entries)
      BY <2>3, <2>4, <2>5, Zenon DEF Enumerates
    <3> QED
      BY <3>1, <3>2, AsLong, Zenon
<1>14. \A h \in ToSet(kids) : Read(m, h).isdir <=> m.disk[PlaceOf(m, h)] = Dir
  BY <1>1, <1>3, <1>4, <1>5, <1>6, <1>7 DEF OnDisk
<1> QED
  BY <1>10, <1>11, <1>12, <1>13, <1>14

(* A tree is linked as Linked says. *)
LEMMA InvLinked ==
  ASSUME IndexInv
  PROVE  Linked
<1>1. PICK P, rk : Shape(m, P, rk)
  BY DEF IndexInv
<1>2. Seen(P)
  BY <1>1, SeenAll
<1>3. ASSUME NEW d \in Directories, Read(m, d).scanned
      PROVE  LET kids == Children(m, d)
             IN /\ ToSet(kids) = {h \in Objects : Read(m, h).parent = d}
                /\ Len(kids) > 0 => Read(m, Last(kids)).sibling = 0
                /\ {PlaceOf(m, h) : h \in ToSet(kids)} = Entries(m.disk, PlaceOf(m, d))
                /\ Len(kids) = Cardinality(Entries(m.disk, PlaceOf(m, d)))
                /\ \A h \in ToSet(kids) : Read(m, h).isdir <=> m.disk[PlaceOf(m, h)] = Dir
  <2>1. d \in DOMAIN P /\ m.recs[d].isdir /\ m.recs[d].scanned
    BY <1>2, <1>3 DEF Seen
  <2> QED
    BY <1>1, <2>1, ListedRight, Zenon
<1> QED
  BY <1>3, Zenon DEF Linked

(* In a tree every file has the size its record says. *)
LEMMA InvSizeAgrees ==
  ASSUME IndexInv
  PROVE  SizeAgrees
<1>1. PICK P, rk : Shape(m, P, rk)
  BY DEF IndexInv
<1>2. Seen(P)
  BY <1>1, SeenAll
<1>3. ASSUME NEW h \in Files PROVE Read(m, h).child = m.disk[PlaceOf(m, h)]
  <2>1. h \in Objs(P) /\ ~m.recs[h].isdir /\ Read(m, h) = m.recs[h]
    BY <1>2 DEF Seen
  <2>2. h \in DOMAIN P /\ m \in Machine /\ Indexed(m) /\ Known(m, P) /\ OnDisk(m, P, h)
    BY <1>1, <2>1 DEF Shape, Objs
  <2>3. PlaceOf(m, h) = P[h]
    BY <2>2, PlaceIs
  <2> QED
    BY <2>1, <2>2, <2>3 DEF OnDisk
<1> QED
  BY <1>3 DEF SizeAgrees

(* At all times there is a tree that the records of the index and the      *)
(* stores agree on: what every operation of the store relies on and        *)
(* keeps.                                                                  *)
THEOREM IndexInvAlways == Spec => []IndexInv
<1>1. Init => IndexInv
  BY InitInv
<1>2. IndexInv /\ [Next]_vars => IndexInv'
  BY NextInv
<1> QED
  BY <1>1, <1>2, PTL DEF Spec

(* The list of every directory is the entries of that directory on the     *)
(* store, in every state, for any stores, names, sizes and bounds on       *)
(* handles and depth.                                                      *)
THEOREM LinkedAlways == Spec => []Linked
<1>1. IndexInv => Linked
  BY InvLinked
<1> QED
  BY <1>1, IndexInvAlways, PTL

(* The size in the record of a file is the size of the file on its         *)
(* store, whatever was sent, copied, moved or added before.                *)
THEOREM SizeAgreesAlways == Spec => []SizeAgrees
<1>1. IndexInv => SizeAgrees
  BY InvSizeAgrees
<1> QED
  BY <1>1, IndexInvAlways, PTL

(* No loop over a list of children runs for ever: the lists are never      *)
(* circular and their parents never out of step.                           *)
THEOREM NeverHangsAlways == Spec => []NeverHangs
<1>1. IndexInv => NeverHangs
  BY DEF IndexInv, Shape, NeverHangs
<1> QED
  BY <1>1, IndexInvAlways, PTL
=============================================================================
