---------------------------- MODULE ObjectIndex ----------------------------
(***************************************************************************)
(* The objects of class MTPStorage (src/src/MTP_Storage.cpp, from          *)
(* ConstructFilename to CompleteCopyFile): directories and files of the    *)
(* mounted stores, known to the host by the handles of index records that  *)
(* are linked into a tree, and changed by the host's commands on the       *)
(* stores and in the index together.                                       *)
(*                                                                         *)
(* The records are kept as IndexStore promises.  Dates are left out, and   *)
(* so are the bytes of a file: Content is the sizes a file may have.       *)
(***************************************************************************)
EXTENDS Integers, Sequences, FiniteSets, SequencesExt

CONSTANTS
  MaxFS,      \* MTPD_MAX_FILESYSTEMS: handles below it are the stores' roots
  Names,      \* the names of files and directories
  Content,    \* the sizes of files
  Sent,       \* the sizes of the files the host sends
  MaxHandle,  \* bound: the last handle a run may issue
  MaxDepth,   \* bound: how deep a directory or file may be
  MaxChanges, \* bound: how many commands may try to change the stores
  Disks       \* the stores as a run may find them

ASSUME SizeAssumption == Content \subseteq Nat /\ {0} \cup Sent \subseteq Content
ASSUME BoundsAssumption == MaxFS \in Nat \ {0} /\ {MaxHandle, MaxDepth} \subseteq Nat

Dir == -1           \* what the disk has at the place of a directory
NoParent == -1      \* 0xFFFF, the parent of a root; the host's name of a root
Orphan == -2        \* 0xFFFFFFFE, open_file_ when no file is open
Bad == -3           \* 0xFFFFFFFF, Create's answer when it fails
NoName == ""        \* the name of a deleted object
NoFile == <<>>

ASSUME NamesAssumption == NoName \notin Names

VARIABLES
  m,          \* the stores and what the device remembers of them:
              \*   disk   what is at each place of the stores
              \*   recs   the index records, by handle
              \*   all    all_scanned_
              \*   file   the place file_ is open at
              \*   mode   mode_: "read" or "write"
              \*   open   open_file_
              \*   hung   a search in the index never ends
  objectId,   \* object_id_ while the host may send that object
  answer,     \* the last GetObject: the handle and the contents sent
  changes     \* how many commands have tried to change the stores

vars == <<m, objectId, answer, changes>>

StoreId == 0 .. MaxFS - 1
Handle == 0 .. MaxHandle

Place == UNION {{<<s>> \o p : p \in SeqOf(Names, MaxDepth)} : s \in StoreId}

(* All stores are mounted, and whatever is on one is in a directory of it. *)
WellFormed(d) ==
  /\ IsFiniteSet(DOMAIN d)
  /\ d \in [DOMAIN d -> Content \cup {Dir}]
  /\ \A s \in StoreId : <<s>> \in DOMAIN d /\ d[<<s>>] = Dir
  /\ \A q \in DOMAIN d :
       \/ \E s \in StoreId : q = <<s>>
       \/ Len(q) > 1 /\ Last(q) \in Names /\ Front(q) \in DOMAIN d /\ d[Front(q)] = Dir
ASSUME DisksAssumption == \A d \in Disks : DOMAIN d \subseteq Place /\ WellFormed(d)

----------------------------------------------------------------------------
(* The file systems of the stores *)

Entries(d, p) == {q \in DOMAIN d : Len(q) = Len(p) + 1 /\ Front(q) = p}
CanHold(d, p) == p \notin DOMAIN d /\ Front(p) \in DOMAIN d /\ d[Front(p)] = Dir
Filled(d, p, c) == [q \in DOMAIN d \cup {p} |-> IF q = p THEN c ELSE d[q]]

(* What a path means once p is called to. *)
Renamed(q, p, to) == IF IsPrefix(p, q) THEN to \o SubSeq(q, Len(p) + 1, Len(q)) ELSE q
Relocated(d, p, to) ==
  [q \in {Renamed(x, p, to) : x \in DOMAIN d} |-> d[CHOOSE x \in DOMAIN d : Renamed(x, p, to) = q]]

(* FS::rename: neither over another entry nor into the entry itself. *)
CanRename(d, p, to) == p \in DOMAIN d /\ CanHold(d, to) /\ ~IsPrefix(p, to)

----------------------------------------------------------------------------
(* The index records, linked into a tree *)

ZeroRec == [store |-> 0, parent |-> 0, sibling |-> 0, child |-> 0,
            isdir |-> FALSE, scanned |-> FALSE, name |-> NoName]
RootRec(s) == [store |-> s, parent |-> NoParent, sibling |-> 0, child |-> 0,
               isdir |-> TRUE, scanned |-> FALSE, name |-> "/"]

Generated(x) == DOMAIN x.recs # {}
Read(x, h) == IF h \in DOMAIN x.recs THEN x.recs[h] ELSE ZeroRec

(* Of a root only the first child and the scanned bit are kept. *)
Put(x, h, r) ==
  [x EXCEPT !.recs[h] =
     IF h \in StoreId THEN [@ EXCEPT !.child = r.child, !.scanned = r.scanned] ELSE r]

NextHandle(x) == Cardinality(DOMAIN x.recs)
Add(x, r) ==
  [x EXCEPT !.recs = [h \in 0 .. NextHandle(x) |-> IF h = NextHandle(x) THEN r ELSE x.recs[h]]]

(* ConstructFilename, which no more calls of itself than there are records *)
(* take up to the root.  A deleted object's path is its directory's.       *)
Path(x, h) ==
  LET path[n \in 0 .. NextHandle(x)] ==
        [g \in DOMAIN x.recs |->
           IF n = 0 \/ x.recs[g].parent = NoParent THEN <<>>
           ELSE path[n - 1][x.recs[g].parent]
                  \o IF x.recs[g].name = NoName THEN <<>> ELSE <<x.recs[g].name>>]
  IN IF h \in DOMAIN x.recs THEN path[NextHandle(x)][h] ELSE <<>>
PlaceOf(x, h) == <<Read(x, h).store>> \o Path(x, h)

(* The children of a directory, the youngest first.  A list that runs into *)
(* itself is followed once around.                                         *)
NextOf(x, d, s) == IF s = <<>> THEN Read(x, d).child ELSE Read(x, Last(s)).sibling
Longer(x, d, s) ==
  IF NextOf(x, d, s) \in {0} \cup ToSet(s) THEN s ELSE Append(s, NextOf(x, d, s))
Children(x, d) ==
  LET followed[n \in 0 .. NextHandle(x)] ==
        IF n = 0 THEN <<>> ELSE Longer(x, d, followed[n - 1])
  IN followed[NextHandle(x)]

(* The first of them at one of the indices, or 0. *)
First(s, I) == IF I = {} THEN 0 ELSE s[CHOOSE i \in I : \A j \in I : i <= j]
ChildNamed(x, d, name) ==
  LET kids == Children(x, d) IN First(kids, {i \in DOMAIN kids : Read(x, kids[i]).name = name})

(* h is taken out of the list of its parent p; the search for the younger  *)
(* sibling to relink ends at it or not at all.                             *)
Younger(x, p, h) ==
  LET kids == Children(x, p) IN First(kids, {i \in DOMAIN kids : Read(x, kids[i]).sibling = h})
Relink(x, younger, sibling) ==
  IF younger = 0 THEN [x EXCEPT !.hung = TRUE]
  ELSE Put(x, younger, [Read(x, younger) EXCEPT !.sibling = sibling])
Unlink(x, h, p, sibling) ==
  IF Read(x, p).child = h THEN Put(x, p, [Read(x, p) EXCEPT !.child = sibling])
  ELSE Relink(x, Younger(x, p, h), sibling)

----------------------------------------------------------------------------
(* file_, the one file or directory the storage keeps open *)

CloseFile(x) == [x EXCEPT !.file = NoFile, !.open = Orphan]

(* FILE_WRITE_BEGIN creates the file, if the store has room for it. *)
CanOpen(x, p, mode) == p \in DOMAIN x.disk /\ (mode = "read" \/ x.disk[p] # Dir)
CanCreate(x, p, mode, room) == mode = "write" /\ CanHold(x.disk, p) /\ room
OpenedAt(x, h, p, mode) == [x EXCEPT !.file = p, !.open = h, !.mode = mode]
OpenAt(x, h, p, mode, room) ==
  IF CanOpen(x, p, mode) THEN OpenedAt(x, h, p, mode)
  ELSE IF CanCreate(x, p, mode, room)
  THEN OpenedAt([x EXCEPT !.disk = Filled(@, p, 0)], h, p, mode)
  ELSE CloseFile(x)
OpenFileByIndex(x, h, mode, room) ==
  IF x.file # NoFile /\ x.open = h /\ x.mode = mode THEN x
  ELSE OpenAt(x, h, PlaceOf(x, h), mode, room)

FileSize(x) == IF x.file \in DOMAIN x.disk THEN x.disk[x.file] ELSE 0

(* Seeded faults, as in IndexCache: each Faulty* operator stands in turn   *)
(* for the definition that follows it.                                     *)
FaultyClose(x) ==               \* the size is asked for after the file is closed
  CloseFile(IF Read(x, x.open).isdir THEN x
            ELSE Put(x, x.open, [Read(x, x.open) EXCEPT !.child = 0]))

(* close(): the record of the open object gets the size of the file. *)
Close(x) ==
  CloseFile(IF Read(x, x.open).isdir THEN x
            ELSE Put(x, x.open, [Read(x, x.open) EXCEPT !.child = FileSize(x)]))

----------------------------------------------------------------------------
(* Listing *)

GenerateIndex(x) ==
  IF Generated(x) THEN x ELSE [x EXCEPT !.recs = [s \in StoreId |-> RootRec(s)]]

Folder(store, d) == IF d = NoParent THEN store ELSE d

(* The entries of the directory file_ become records from handle n on,     *)
(* each the younger sibling of the one before it.  Their order is the file *)
(* system's.                                                               *)
Entry(x, d, q, sibling) ==
  [store |-> Read(x, d).store, parent |-> d, sibling |-> sibling,
   child |-> IF x.disk[q] = Dir THEN 0 ELSE x.disk[q], isdir |-> x.disk[q] = Dir,
   scanned |-> FALSE, name |-> Last(q)]
Entered(x, d, n, found) ==
  [x EXCEPT !.recs = [h \in 0 .. n + Len(found) - 1 |->
     IF h < n THEN x.recs[h] ELSE Entry(x, d, found[h - n + 1], IF h = n THEN 0 ELSE h - 1)]]
Scanned(x, d, n, found) ==
  Put(Entered(x, d, n, found), d,
      [Read(x, d) EXCEPT !.scanned = TRUE,
                         !.child = IF found = <<>> THEN 0 ELSE n + Len(found) - 1])
ScanFile(x, d) ==
  IF x.file = NoFile THEN x
  ELSE CloseFile(Scanned(x, d, NextHandle(x), SetToSeq(Entries(x.disk, x.file))))
FaultyScanFolder(x, d) ==       \* a directory is scanned whenever it is listed
  IF Read(x, d).isdir THEN ScanFile(OpenFileByIndex(x, d, "read", TRUE), d) ELSE CloseFile(x)

ScanFolder(x, d) ==
  IF Read(x, d).isdir /\ ~Read(x, d).scanned
  THEN ScanFile(OpenFileByIndex(x, d, "read", TRUE), d)
  ELSE CloseFile(x)
ScanDir(x, store, d) == ScanFolder(x, Folder(store, d))

(* All directories are scanned, those found on the way among them. *)
ScanNext(x, store, h) == IF h < NextHandle(x) THEN ScanDir(x, store, h) ELSE x
ScanAll(x, store) ==
  LET scanned[n \in 0 .. MaxHandle + 1] ==
        IF n = 0 THEN [x EXCEPT !.all = TRUE]
        ELSE ScanNext(scanned[n - 1], store, n - 1)
  IN IF x.all THEN x ELSE scanned[MaxHandle + 1]

----------------------------------------------------------------------------
(* Changing the stores and the index *)

(* removeFile: all that is under p.  A root stays. *)
Emptied(d, p) == [q \in {q \in DOMAIN d : ~IsPrefix(p, q) \/ Len(q) = 1} |-> d[q]]

Named(x, h, name) == Put(x, h, [Read(x, h) EXCEPT !.name = name])
Deleted(x, h) ==
  Unlink(Named([x EXCEPT !.disk = Emptied(@, PlaceOf(x, h))], h, NoName),
         h, Read(x, h).parent, Read(x, h).sibling)

(* Create: the machine afterwards and the handle.  An object that has the  *)
(* name already is used, and its file is not opened.                       *)
Existing(x, h, folder) == [x |-> x, ret |-> IF Read(x, h).isdir = folder THEN h ELSE Bad]

(* A record of the next handle, the first child of d. *)
NewChild(x, d, folder, name) ==
  Put(Add(x, [store |-> Read(x, d).store, parent |-> d, sibling |-> Read(x, d).child,
              child |-> 0, isdir |-> folder, scanned |-> TRUE, name |-> name]),
      d, [Read(x, d) EXCEPT !.child = NextHandle(x)])

MakeDir(x, q, room) ==
  [x EXCEPT !.disk = IF CanHold(@, q) /\ room THEN Filled(@, q, Dir) ELSE @]
NewFolder(x, store, h, room) ==
  [x |-> CloseFile(MakeDir(x, <<store>> \o Path(x, h), room)), ret |-> h]
NewFile(x, h) ==
  IF x.file = NoFile THEN [x |-> Deleted(x, h), ret |-> Bad] ELSE [x |-> x, ret |-> h]

CreateIn(x, store, d, folder, name, room) ==
  IF ChildNamed(x, d, name) # 0 THEN Existing(x, ChildNamed(x, d, name), folder)
  ELSE IF folder
  THEN NewFolder(NewChild(x, d, TRUE, name), store, NextHandle(x), room)
  ELSE NewFile(OpenFileByIndex(NewChild(x, d, FALSE, name), NextHandle(x), "write", room),
               NextHandle(x))
Create(x, store, parent, folder, name, room) ==
  CreateIn(ScanDir(x, store, parent), store, Folder(store, parent), folder, name, room)

(* The entry at p, and an open file in it, are at q from now on. *)
Carried(x, p, q) ==
  [x EXCEPT !.disk = Relocated(@, p, q),
            !.file = IF @ = NoFile THEN NoFile ELSE Renamed(@, p, q)]

FaultyRenamedTo(x, h, name, p, q) ==    \* the index is not put back
  IF CanRename(x.disk, p, q) THEN Carried(Named(x, h, name), p, q) ELSE Named(x, h, name)

(* rename(handle): the index first, and back again if the store refuses. *)
RenamedTo(x, h, name, p, q) ==
  IF CanRename(x.disk, p, q) THEN Carried(Named(x, h, name), p, q)
  ELSE Named(Named(x, h, name), h, Read(x, h).name)
Rename(x, h, name) == RenamedTo(x, h, name, PlaceOf(x, h), PlaceOf(Named(x, h, name), h))

FaultyLinkInto(x, h, r, d) ==   \* the object keeps its old parent
  Put(Put(x, h, [r EXCEPT !.store = Read(x, d).store, !.sibling = Read(x, d).child]),
      d, [Read(x, d) EXCEPT !.child = h])

(* move: the store first, then the index, if the store agreed.  A          *)
(* directory that goes to another store is made there anew (moveDir), a    *)
(* file is copied and removed (CopyByPathNames).  CopyByPathNames takes a  *)
(* file of which it read nothing for one it could not read: an empty file  *)
(* stays where it is, and the empty copy too.                              *)
LinkInto(x, h, r, d) ==
  Put(Put(x, h, [r EXCEPT !.parent = d, !.store = Read(x, d).store, !.sibling = Read(x, d).child]),
      d, [Read(x, d) EXCEPT !.child = h])
CanCarry(x, p, q, room) ==
  IF p[1] = q[1] THEN CanRename(x.disk, p, q) ELSE CanHold(x.disk, q) /\ room
NothingRead(x, p, q) == p[1] # q[1] /\ x.disk[p] = 0
MoveTo(x, h, r, d, p, q, room) ==
  IF ~CanCarry(x, p, q, room) THEN x
  ELSE IF NothingRead(x, p, q) THEN [x EXCEPT !.disk = Filled(@, q, 0)]
  ELSE LinkInto(Unlink(Carried(x, p, q), h, r.parent, r.sibling), h, r, d)
MoveIn(x, h, r, store, d, room) ==
  MoveTo(x, h, r, d, PlaceOf(x, h), <<store>> \o Path(x, d) \o <<r.name>>, room)
Move(x, h, store, d, room) == MoveIn(ScanDir(x, store, d), h, Read(x, h), store, d, room)

(* CompleteCopyFile: file_ is the target Create has opened. *)
CompleteCopyFile(x, from, to) ==
  LET p == PlaceOf(x, from)
      wrote == x.file # NoFile
  IN IF p \notin DOMAIN x.disk THEN x
     ELSE [Put(x, to, [Read(x, to) EXCEPT !.child = IF wrote THEN x.disk[p] ELSE 0]) EXCEPT
             !.disk = IF wrote THEN Filled(@, x.file, x.disk[p]) ELSE @,
             !.file = NoFile]

(* CopyObject and CopyFiles call each other.  A copy is where they are: x,  *)
(* the handle ret of the last copy, and the calls of CopyFiles in todo, the *)
(* innermost first, each with the objects left to copy, the directory to    *)
(* copy to and its record r.                                                *)
Call(x, from, to) == [left |-> Children(x, from), to |-> to, r |-> Read(x, to)]
CopyTo(c, h, r, todo) ==
  IF c.ret # Bad /\ r.isdir
  THEN LET x == ScanDir(c.x, r.store, h)
       IN [x |-> x, ret |-> 0, todo |-> <<Call(x, h, c.ret)>> \o todo]
  ELSE [x |-> IF c.ret = Bad THEN c.x ELSE CompleteCopyFile(c.x, h, c.ret),
        ret |-> c.ret, todo |-> todo]
CopyObjectInto(x, h, r, d, room, todo) ==
  CopyTo(Create(x, Read(x, d).store, d, r.isdir, r.name, room), h, r, todo)

(* The directory's record is written back as it was before the copies, with *)
(* the last copy as its first child.  The copies inside it have room: what  *)
(* CopyFiles does when one of them fails (the first child becomes Bad, or   *)
(* the others are left) is not modelled.                                    *)
CopyNext(c, call) ==
  CopyObjectInto(c.x, Head(call.left), Read(c.x, Head(call.left)), call.to, TRUE,
                 <<[call EXCEPT !.left = Tail(@)]>> \o Tail(c.todo))
CopyDone(c, call) ==
  [x |-> Put(c.x, call.to, [call.r EXCEPT !.child = c.ret]), ret |-> call.to, todo |-> Tail(c.todo)]
CopyOn(c) ==
  IF c.todo = <<>> THEN c
  ELSE IF Head(c.todo).left = <<>> THEN CopyDone(c, Head(c.todo))
  ELSE CopyNext(c, Head(c.todo))

(* Each step issues a handle or ends a call, so there are no more.         *)
Copied(x, h, store, parent, room) ==
  LET copied[n \in 0 .. 2 * MaxHandle] ==
        IF n = 0 THEN CopyObjectInto(x, h, Read(x, h), Folder(store, parent), room, <<>>)
        ELSE CopyOn(copied[n - 1])
  IN copied[2 * MaxHandle]

(* MapFileNameToIndex, as far as directories were scanned: the one that    *)
(* has the last name of a path, or lacks it.                               *)
CanWalk(x, d) == Read(x, d).isdir /\ Read(x, d).scanned
Entering(x, d, name) ==
  IF CanWalk(x, d) /\ ChildNamed(x, d, name) # 0 THEN ChildNamed(x, d, name) ELSE Bad
Reached(x, d) == IF CanWalk(x, d) THEN d ELSE Bad
Walked(x, d, names) ==
  LET walked[n \in 0 .. Len(names) - 1] ==
        IF n = 0 THEN d ELSE Entering(x, walked[n - 1], names[n])
  IN Reached(x, walked[Len(names) - 1])
Listed(x, p) == IF Generated(x) THEN Walked(x, p[1], Tail(p)) ELSE Bad

(* The parent it takes for a new record: that of the last one it compared, *)
(* which is the directory itself if its list is empty.                     *)
ParentOf(x, d) ==
  LET kids == Children(x, d) IN Read(x, IF kids = <<>> THEN d ELSE Last(kids)).parent

(* file_ looks at the new entry and is closed, whatever it was open on.    *)
Noted(x, d, p) ==
  Put(Add([x EXCEPT !.file = NoFile], Entry(x, d, p, Read(x, d).child)),
      d, [Read(x, d) EXCEPT !.child = NextHandle(x)])
MapFileNameToIndex(x, p) ==
  LET d == Listed(x, p)
  IN IF d = Bad \/ ChildNamed(x, d, Last(p)) # 0 THEN x ELSE Noted(x, ParentOf(x, d), p)

----------------------------------------------------------------------------
(* What the host knows: the roots, and the objects in directories it knows *)

Root(x, h) ==
  LET root[n \in 0 .. NextHandle(x)] ==
        [g \in DOMAIN x.recs |->
           IF g \in StoreId THEN g
           ELSE IF n = 0 \/ x.recs[g].name = NoName THEN Bad
           ELSE root[n - 1][x.recs[g].parent]]
  IN root[NextHandle(x)][h]
Live(x) == {h \in DOMAIN x.recs : Root(x, h) # Bad}
Objects == Live(m) \ StoreId
Directories == {h \in StoreId \cup Objects : Read(m, h).isdir}
Files == Objects \ Directories
NameTaken(d, name) == PlaceOf(m, d) \o <<name>> \in DOMAIN m.disk
Inside(h, d) == IsPrefix(PlaceOf(m, h), PlaceOf(m, d))

(* A command leaves the machine as x, within the bounds of the run. *)
Becomes(x) ==
  /\ ~m.hung
  /\ m' = x
  /\ DOMAIN m'.recs \subseteq Handle
  /\ DOMAIN m'.disk \subseteq Place

(* A command that tries to change the stores. *)
MayChange == changes < MaxChanges
Changes(x) == Becomes(x) /\ changes' = changes + 1

Init ==
  /\ \E d \in Disks :
       m = [disk |-> d, recs |-> <<>>, all |-> FALSE, file |-> NoFile,
            mode |-> "read", open |-> Orphan, hung |-> FALSE]
  /\ objectId = 0
  /\ answer = [h |-> 0, c |-> Dir]
  /\ changes = 0

----------------------------------------------------------------------------
(* The host's commands.  object_id_ is only of use to the SendObject that  *)
(* follows its SendObjectInfo at once, so the others put it at 0.          *)

(* GetObjectHandles and GetNumObjects of a directory. *)
List(store, parent) ==
  /\ Generated(m) \/ parent = NoParent
  /\ Becomes(ScanDir(GenerateIndex(m), store, parent))
  /\ objectId' = 0
  /\ UNCHANGED <<answer, changes>>

(* The same of a whole store. *)
ListAll(store) ==
  /\ Becomes(ScanAll(GenerateIndex(m), store))
  /\ objectId' = 0
  /\ UNCHANGED <<answer, changes>>

(* A directory is dated and closed at once.  (With both dates zero, or the *)
(* directory not made, close would find no file open: see IndexCache's     *)
(* CloseWithoutFile.)                                                      *)
SendObjectInfo(store, parent, folder, name, room) ==
  /\ MayChange /\ Generated(m)
  /\ folder => room
  /\ \E c \in {Create(m, store, parent, folder, name, room)} :
     /\ Changes(IF folder /\ c.ret # Bad
                THEN Close(OpenFileByIndex(c.x, c.ret, "read", TRUE)) ELSE c.x)
     /\ objectId' = IF folder \/ c.ret = Bad THEN 0 ELSE c.ret
  /\ UNCHANGED answer

(* The data goes to file_, as far as it comes; then the file is dated,     *)
(* unless both dates are zero, and closed.  An object that existed before  *)
(* has no file open until it is dated.                                     *)
SendObject(c, dated) ==
  LET writable == m.file # NoFile /\ m.mode = "write"
      x == IF writable THEN [m EXCEPT !.disk = Filled(@, m.file, c)] ELSE m
  IN /\ objectId # 0
     /\ dated \/ m.open # Orphan
     /\ Becomes(Close(IF dated THEN OpenFileByIndex(x, objectId, "read", TRUE) ELSE x))
     /\ objectId' = 0
     /\ UNCHANGED <<answer, changes>>

(* As many bytes as the record says, read from file_. *)
GetObject(h) ==
  LET size == Read(m, h).child
      x == IF size = 0 THEN m ELSE OpenFileByIndex(m, h, "read", TRUE)
  IN /\ h \in Files
     /\ Becomes(x)
     /\ answer' = [h |-> h, c |-> IF size = 0 THEN 0
                                 ELSE IF x.file \in DOMAIN x.disk /\ x.disk[x.file] = size
                                 THEN size ELSE Bad]
     /\ objectId' = 0
     /\ UNCHANGED changes

DeleteObject(h) ==
  /\ MayChange
  /\ Changes(IF h = NoParent THEN m ELSE Deleted(m, h))
  /\ objectId' = 0
  /\ UNCHANGED answer

SetObjectPropValue(h, name) ==
  /\ MayChange
  /\ h \in Objects
  /\ Changes(Rename(m, h, name))
  /\ objectId' = 0
  /\ UNCHANGED answer

MoveObject(h, store, d, room) ==
  /\ MayChange
  /\ Changes(Move(m, h, store, d, room))
  /\ objectId' = 0
  /\ UNCHANGED answer

CopyObject(h, store, d, room) ==
  /\ MayChange
  /\ Read(m, h).isdir => room
  /\ \E c \in {Copied(m, h, store, d, room)} : c.todo = <<>> /\ Changes(c.x)
  /\ objectId' = 0
  /\ UNCHANGED answer

(* The sketch makes a file or a directory and tells the host of it         *)
(* (send_addObjectEvent), also between SendObjectInfo and SendObject.      *)
(* Nothing is noted of what is in a directory that was not listed yet; of  *)
(* one that was, the sketch adds only to what is there (see ParentOf).     *)
AddObjectEvent(p, c) ==
  LET d == Listed(m, p)
  IN /\ MayChange
     /\ CanHold(m.disk, p)
     /\ d # Bad => Children(m, d) # <<>>
     /\ Changes(MapFileNameToIndex([m EXCEPT !.disk = Filled(@, p, c)], p))
     /\ UNCHANGED <<objectId, answer>>

(* ResetIndex.  file_ stays as it is. *)
OpenSession ==
  /\ Generated(m)
  /\ Becomes([m EXCEPT !.recs = <<>>, !.all = FALSE, !.open = Orphan])
  /\ objectId' = 0
  /\ UNCHANGED <<answer, changes>>

StoreOf(d) == Read(m, d).store

(* The host names directories and files it knows, and moves or copies      *)
(* nothing over an object that has the name, or into itself.  To another   *)
(* store it moves only files that are not empty (see MoveTo).              *)
Target(h, d) == MayChange /\ ~NameTaken(d, Read(m, h).name) /\ ~Inside(h, d)
CanMove(h, d) ==
  /\ MayChange
  /\ StoreOf(d) # StoreOf(h) =>
       /\ ~Read(m, h).isdir /\ Read(m, h).child # 0
       /\ Target(h, d)

Next ==
  \/ \E s \in StoreId : List(s, NoParent) \/ ListAll(s)
  \/ \E d \in Directories \ {0} : List(StoreOf(d), d)
  \/ \E d \in Directories, name \in Names, folder, room \in BOOLEAN :
       SendObjectInfo(StoreOf(d), d, folder, name, room)
  \/ \E s \in StoreId, name \in Names : SendObjectInfo(s, NoParent, FALSE, name, TRUE)
  \/ \E c \in Sent, dated \in BOOLEAN : SendObject(c, dated)
  \/ \E h \in Files : GetObject(h)
  \/ \E h \in Objects \cup {NoParent} : DeleteObject(h)
  \/ \E h \in Objects, name \in Names : SetObjectPropValue(h, name)
  \/ \E h \in Objects, d \in Directories, room \in BOOLEAN :
       CanMove(h, d) /\ MoveObject(h, StoreOf(d), d, room)
  \/ \E h \in Objects, d \in Directories, room \in BOOLEAN :
       Target(h, d) /\ CopyObject(h, StoreOf(d), d, room)
  \/ \E p \in Place, c \in Sent \cup {Dir} : AddObjectEvent(p, c)
  \/ OpenSession

Spec == Init /\ [][Next]_vars

(* The same with moves of empty files to another store. *)
MoveAway(h, d) ==
  StoreOf(d) # StoreOf(h) /\ Target(h, d) /\ MoveObject(h, StoreOf(d), d, TRUE)
MoveEmptyNext == Next \/ \E h \in Files, d \in Directories : MoveAway(h, d)
MoveEmptySpec == Init /\ [][MoveEmptyNext]_vars

(* The same with moves of directories without empty files.  (moveDir gives *)
(* up at one of those.)                                                    *)
WithoutEmpty(h) == \A p \in DOMAIN m.disk : IsPrefix(PlaceOf(m, h), p) => m.disk[p] # 0
MoveDirNext ==
  Next \/ \E h \in Objects, d \in Directories : WithoutEmpty(h) /\ MoveAway(h, d)
MoveDirSpec == Init /\ [][MoveDirNext]_vars

(* The same with deletions of what ListAll lists first: the other roots. *)
DeleteRootNext ==
  \/ Next
  \/ \E h \in StoreId \ {0} : Generated(m) /\ DeleteObject(h)
DeleteRootSpec == Init /\ [][DeleteRootNext]_vars

----------------------------------------------------------------------------
(* Properties *)

Record == [store : StoreId, parent : StoreId \cup Handle \cup {NoParent},
           sibling : Handle, child : Handle \cup Content, isdir : BOOLEAN,
           scanned : BOOLEAN, name : Names \cup {NoName, "/"}]

TypeOK ==
  /\ DOMAIN m.disk \subseteq Place /\ Range(m.disk) \subseteq Content \cup {Dir}
  /\ DOMAIN m.recs \subseteq Handle /\ Range(m.recs) \subseteq Record
  /\ m.all \in BOOLEAN /\ m.hung \in BOOLEAN
  /\ m.mode \in {"read", "write"}
  /\ m.file \in Place \cup {NoFile}
  /\ m.open \in Handle \cup {Orphan}
  /\ objectId \in Handle

(* The list of a scanned directory ends, and holds exactly one record for  *)
(* each entry the store has in it, directory for directory and file for    *)
(* file; nothing else claims to be in it.                                  *)
Linked ==
  \A d \in Directories :
    Read(m, d).scanned =>
      LET kids == Children(m, d)
      IN /\ ToSet(kids) = {h \in Objects : Read(m, h).parent = d}
         /\ Len(kids) > 0 => Read(m, Last(kids)).sibling = 0
         /\ {PlaceOf(m, h) : h \in ToSet(kids)} = Entries(m.disk, PlaceOf(m, d))
         /\ Len(kids) = Cardinality(Entries(m.disk, PlaceOf(m, d)))
         /\ \A h \in ToSet(kids) : Read(m, h).isdir <=> m.disk[PlaceOf(m, h)] = Dir

(* GetObjectInfo gives a file the size it has on its store, unless it is   *)
(* the one being sent.                                                     *)
SizeAgrees == \A h \in Files : Read(m, h).child = m.disk[PlaceOf(m, h)]

(* The search for the younger sibling, in DeleteObject and move, ends. *)
NeverHangs == ~m.hung

(* CopyByPathNames fails when the source or the target cannot be opened,   *)
(* and for a negative nd, which is a "read error": a file that can be read *)
(* and has room on the other store is there after MoveObject, not here.    *)
MovedUnlessUnread ==
  [][\A h \in Files, d \in Directories :
       MoveAway(h, d) => /\ PlaceOf(m, d) \o <<Read(m, h).name>> \in DOMAIN m'.disk
                         /\ PlaceOf(m, h) \notin DOMAIN m'.disk]_vars

(* DeleteObject does not "do anything if trying to delete a root           *)
(* directory": nothing is gone from the stores.                            *)
RootsStay ==
  [][\A h \in StoreId \ {0} : Generated(m) /\ DeleteObject(h) => UNCHANGED m.disk]_vars

(* Handles denote objects as ObjectTree says: "MTP object handles should   *)
(* not change or be re-used during a session".                             *)
disk == m.disk
objs == [h \in Objects |-> PlaceOf(m, h)]
top == Cardinality(DOMAIN m.recs)
announced == objectId
Tree == INSTANCE ObjectTree WITH disk <- disk, objs <- objs, top <- top,
                               announced <- announced, answer <- answer
TreeSpec == Tree!Spec
============================================================================
