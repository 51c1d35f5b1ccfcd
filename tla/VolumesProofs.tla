--------------------------- MODULE VolumesProofs ---------------------------
(***************************************************************************)
(* Proofs about Volumes, for any number of slots and any file systems: the *)
(* callback's map agrees with the list of storages, and as long as no      *)
(* slot's minor index wraps, an id means one disk to device and host.      *)
(***************************************************************************)
EXTENDS Volumes, FiniteSetTheorems, SequenceTheorems, TLAPS

(* A counter modulo M that has just been incremented differs from what it  *)
(* was, whether or not it wrapped.                                         *)
LEMMA ModIncrement ==
  ASSUME NEW M \in Nat, M >= 2, NEW x \in 0 .. M - 1
  PROVE  /\ (x + 1) % M \in 0 .. M - 1
         /\ (((x + 1) % M) - x) % M > 0
<1>1. CASE x + 1 = M
  <2>1. (x + 1) % M = 0
    BY <1>1
  <2>2. (0 - x) % M = 1
    BY <1>1
  <2> QED BY <1>1, <2>1, <2>2
<1>2. CASE x + 1 < M
  BY <1>2
<1> QED BY <1>1, <1>2


Id    == Store \X (0 .. MinorMod - 1)
Event == [e : {"added", "removed", "reset"}, id : Id, fs : FS \cup {NoFS}]

(* Types, also of what TypeOK leaves out: the list, the loop, the world and *)
(* the host.                                                                *)
ListType ==
  /\ fs \in [Store -> FS \cup {NoFS}]
  /\ fstype \in [Store -> {"unknown", "SD"}]
  /\ minor \in [Store -> 0 .. MinorMod - 1]
  /\ count \in 0 .. MaxFS
  /\ \A k \in Store : k >= count => fs[k] = NoFS

LoopType ==
  /\ prev \in [Store -> {"unknown", "in", "out"}]
  /\ timer \in BOOLEAN /\ reset \in BOOLEAN
  /\ pc \in {"idle", "announce", "drives", "drive", "cards", "format"}
  /\ found \in {"none", "came", "gone", "formatted"} /\ missed \subseteq Drive
  /\ new \in Store
  /\ at \in Nat
  /\ pc \in {"drives", "drive"} => at >= 1
  /\ pc = "drive" => at <= Len(Drives)

WorldType ==
  /\ map \in [Drive -> Store \cup {NoStore}]
  /\ here \subseteq FS
  /\ change \in [Drive -> {"none", "connection", "format"}]
  /\ any \in BOOLEAN
  /\ changes \in 0 .. MaxChanges

HostType ==
  /\ told \in BOOLEAN /\ session \in BOOLEAN /\ listed \in BOOLEAN
  /\ DOMAIN known \subseteq Id
  /\ known \in [DOMAIN known -> FS \cup {NoFS}]

TypeInv == ListType /\ LoopType /\ WorldType /\ HostType /\ events \in Seq(Event)

-----------------------------------------------------------------------------
(* Constants. *)

(* Slots, the value for none, and the drives are apart from each other. *)
LEMMA Constants ==
  /\ MaxFS \in Nat /\ MaxFS > 0
  /\ NoStore \notin Store /\ Store \subseteq Nat
  /\ 0 \in Store
  /\ MinorMod \in Nat /\ MinorMod > 1
  /\ NoFS \notin FS
  /\ Drive \subseteq FS /\ Cards \subseteq FS /\ Others \subseteq FS
  /\ \A f \in Cards \cup Others : f \notin Drive
  /\ \A f \in Others : f \notin Cards
  /\ Len(Drives) \in Nat
  /\ \A i \in 1 .. Len(Drives) : Drives[i] \in Drive
<1>1. MaxFS \in Nat /\ MaxFS > 0 /\ NoStore \notin Store /\ Store \subseteq Nat /\ 0 \in Store
  BY StoresAssumption DEF Store, NoStore
<1>2. MinorMod \in Nat /\ MinorMod > 1
  BY MinorAssumption
<1>3. Drives \in Seq(Drive)
  BY StoresAssumption
<1>4. Len(Drives) \in Nat /\ \A i \in 1 .. Len(Drives) : Drives[i] \in Drive
  BY <1>3
<1>5. /\ NoFS \notin FS
      /\ Drive \subseteq FS /\ Cards \subseteq FS /\ Others \subseteq FS
      /\ \A f \in Cards \cup Others : f \notin Drive
      /\ \A f \in Others : f \notin Cards
  BY StoresAssumption DEF FS
<1> QED BY <1>1, <1>2, <1>4, <1>5

-----------------------------------------------------------------------------
(* The list of storages. *)

(* The slot addFilesystem finds is free, and becomes the last or stays what *)
(* it was.                                                                 *)
LEMMA PutInSlotType ==
  ASSUME ListType, NEW f \in FS, NEW k \in Store, PutInSlot(f, k)
  PROVE  /\ fs[k] = NoFS /\ fs' = [fs EXCEPT ![k] = f]
         /\ fs' \in [Store -> FS \cup {NoFS}]
         /\ fstype' \in [Store -> {"unknown", "SD"}]
         /\ minor' \in [Store -> 0 .. MinorMod - 1]
         /\ \A j \in Store : j # k => minor'[j] = minor[j]
         /\ count' \in 0 .. MaxFS
         /\ \A j \in Store : j >= count' => fs'[j] = NoFS
<1>1. CASE count < MaxFS /\ k = count /\ PutInSlot(f, k)
  <2>1. /\ fs' = [fs EXCEPT ![k] = f] /\ fs[k] = NoFS
        /\ fstype' = [fstype EXCEPT ![k] = TypeOf(f)]
        /\ minor' = [minor EXCEPT ![k] = 1]
        /\ count' = count + 1
    BY <1>1, Constants DEF PutInSlot, ListType, Store
  <2>2. TypeOf(f) \in {"unknown", "SD"}
    BY DEF TypeOf
  <2>3. \A j \in Store : j >= count' => fs'[j] = NoFS
    BY <1>1, <2>1, Constants DEF ListType, Store
  <2> QED BY <1>1, <2>1, <2>2, <2>3, Constants DEF ListType
<1>2. CASE count = MaxFS /\ fs[k] = NoFS /\ PutInSlot(f, k)
  <2>1. /\ fs' = [fs EXCEPT ![k] = f]
        /\ minor' = [minor EXCEPT ![k] = NextMinor(k)]
        /\ fstype' = fstype /\ count' = count
    BY <1>2, Constants DEF PutInSlot, ListType
  <2>2. NextMinor(k) \in 0 .. MinorMod - 1
    <3>1. minor[k] \in 0 .. MinorMod - 1
      BY DEF ListType
    <3> QED BY <3>1, ModIncrement, Constants DEF NextMinor
  <2>3. \A j \in Store : j >= count' => fs'[j] = NoFS
    BY <1>2, <2>1, Constants DEF ListType, Store
  <2> QED BY <1>2, <2>1, <2>2, <2>3, Constants DEF ListType
<1> QED BY <1>1, <1>2 DEF PutInSlot

(* removeFilesystem frees one slot. *)
LEMMA ClearSlotType ==
  ASSUME ListType, NEW k \in Store, ClearSlot(k)
  PROVE  /\ fs' = [fs EXCEPT ![k] = NoFS]
         /\ fs' \in [Store -> FS \cup {NoFS}]
         /\ UNCHANGED <<fstype, minor, count>>
         /\ \A j \in Store : j >= count' => fs'[j] = NoFS
BY DEF ClearSlot, ListType

(* A file system that is in the list has a slot. *)
LEMMA HolderSlot ==
  ASSUME NEW f, IsListed(f)
  PROVE  HolderOf(f) \in Store /\ fs[HolderOf(f)] = f
BY DEF IsListed, HolderOf

-----------------------------------------------------------------------------
(* Events. *)

Said(q) == {q[i] : i \in 1 .. Len(q)}

(* What send_Event leaves to be handled: what was there, and perhaps one    *)
(* more event.                                                             *)
LEMMA SentSays ==
  ASSUME NEW q \in Seq(Event), NEW event \in Event, NEW r \in Sent(q, event)
  PROVE  r \in Seq(Event) /\ Said(r) \subseteq Said(q) \cup {event}
<1>1. CASE r = q
  BY <1>1
<1>2. CASE r = Append(q, event)
  <2>1. /\ r \in Seq(Event) /\ Len(r) = Len(q) + 1
        /\ \A i \in 1 .. Len(q) : r[i] = q[i]
        /\ r[Len(q) + 1] = event
    BY <1>2, AppendProperties
  <2>2. \A i \in 1 .. Len(r) : r[i] \in Said(q) \cup {event}
    BY <2>1 DEF Said
  <2> QED BY <2>1, <2>2 DEF Said
<1> QED BY <1>1, <1>2 DEF Sent

(* The same when the host may not have the list. *)
LEMMA AnnouncedSays ==
  ASSUME NEW q \in Seq(Event), NEW event \in Event, NEW r \in Announced(q, event)
  PROVE  r \in Seq(Event) /\ Said(r) \subseteq Said(q) \cup {event}
<1>1. CASE told
  BY <1>1, SentSays DEF Announced
<1>2. CASE ~ told
  BY <1>2 DEF Announced
<1> QED BY <1>1, <1>2

(* And of two events. *)
LEMMA BothSay ==
  ASSUME NEW q \in Seq(Event), NEW event1 \in Event, NEW event2 \in Event,
         NEW r \in AnnouncedBoth(q, event1, event2)
  PROVE  r \in Seq(Event) /\ Said(r) \subseteq Said(q) \cup {event1, event2}
<1>1. PICK p \in Announced(q, event1) : r \in Announced(p, event2)
  BY DEF AnnouncedBoth
<1>2. p \in Seq(Event) /\ Said(p) \subseteq Said(q) \cup {event1}
  BY AnnouncedSays
<1>3. r \in Seq(Event) /\ Said(r) \subseteq Said(p) \cup {event2}
  BY <1>1, <1>2, AnnouncedSays
<1> QED BY <1>2, <1>3

(* Handling an event takes it away. *)
LEMMA TailSays ==
  ASSUME NEW q \in Seq(Event), q # <<>>
  PROVE  /\ Head(q) \in Event /\ Head(q) \in Said(q)
         /\ Tail(q) \in Seq(Event) /\ Said(Tail(q)) \subseteq Said(q)
<1>1. /\ Head(q) \in Event /\ Tail(q) \in Seq(Event)
      /\ Len(Tail(q)) = Len(q) - 1
      /\ \A i \in 1 .. Len(Tail(q)) : Tail(q)[i] = q[i + 1]
  BY HeadTailProperties
<1>2. Len(q) \in Nat /\ Len(q) > 0 /\ Head(q) = q[1]
  BY EmptySeq
<1>3. \A i \in 1 .. Len(Tail(q)) : Tail(q)[i] \in Said(q)
  BY <1>1, <1>2 DEF Said
<1> QED BY <1>1, <1>2, <1>3 DEF Said

(* The events are events. *)
LEMMA EventTypes ==
  /\ \A k \in Store, v \in 0 .. MinorMod - 1, f \in FS \cup {NoFS} :
       Added(<<k, v>>, f) \in Event /\ Removed(<<k, v>>) \in Event
  /\ ResetEvent \in Event
BY Constants DEF Added, Removed, ResetEvent, Event, Id

-----------------------------------------------------------------------------
(* Type correctness. *)

(* In the beginning the list is empty. *)
LEMMA TypeInit ==
  ASSUME Init
  PROVE  TypeInv
<1>1. ListType
  BY Constants DEF Init, ListType
<1>2. LoopType
  BY Constants DEF Init, LoopType
<1>3. WorldType
  BY BoundAssumption, Constants DEF Init, WorldType, FS
<1>4. known = [id \in {} |-> NoFS] /\ DOMAIN known = {}
  BY DEF Init, NothingKnown
<1>5. HostType
  BY <1>4 DEF Init, HostType
<1>6. events \in Seq(Event)
  BY EmptySeq DEF Init
<1> QED BY <1>1, <1>2, <1>3, <1>5, <1>6 DEF TypeInv

(* The sketch. *)
LEMMA TypeSketch ==
  ASSUME TypeInv, AddFilesystem \/ AnnounceNew \/ RemoveFilesystem \/ FirstLoop
  PROVE  TypeInv'
<1> USE DEF TypeInv, list, loopVars, look, world, host
<1>1. CASE AddFilesystem
  <2>1. PICK f \in Cards \cup Others, k \in Store :
          /\ PutInSlot(f, k) /\ new' = k /\ pc' = "announce"
          /\ UNCHANGED <<prev, map, told, events, timer, at, reset, look, world, host>>
    BY <1>1 DEF AddFilesystem
  <2>2. ListType'
    BY <2>1, PutInSlotType, Constants DEF ListType
  <2>3. LoopType'
    BY <2>1 DEF LoopType
  <2>4. WorldType' /\ HostType' /\ events' = events
    BY <2>1 DEF WorldType, HostType
  <2> QED BY <2>2, <2>3, <2>4
<1>2. CASE AnnounceNew
  <2>1. Added(StoreId(new), fs[new]) \in Event
    BY EventTypes DEF StoreId, ListType, LoopType
  <2>2. events' \in Seq(Event)
    BY <1>2, <2>1, AnnouncedSays DEF AnnounceNew
  <2>3. LoopType'
    BY <1>2, Constants DEF AnnounceNew, LoopType
  <2>4. ListType' /\ WorldType' /\ HostType'
    BY <1>2 DEF AnnounceNew, ListType, WorldType, HostType
  <2> QED BY <2>2, <2>3, <2>4
<1>3. CASE RemoveFilesystem
  <2>1. PICK f \in Others :
          /\ changes < MaxChanges /\ changes' = changes + 1 /\ IsListed(f)
          /\ events' \in Announced(events, Removed(StoreId(HolderOf(f))))
          /\ ClearSlot(HolderOf(f))
          /\ UNCHANGED <<prev, map, told, timer, loopVars, look, here, change, any, host>>
    BY <1>3 DEF RemoveFilesystem
  <2>2. HolderOf(f) \in Store
    BY <2>1, HolderSlot
  <2>3. Removed(StoreId(HolderOf(f))) \in Event
    BY <2>2, EventTypes DEF StoreId, ListType
  <2>4. events' \in Seq(Event)
    BY <2>1, <2>3, AnnouncedSays
  <2>5. changes' \in 0 .. MaxChanges
    BY <2>1, BoundAssumption DEF WorldType
  <2>6. ListType'
    BY <2>1, <2>2, ClearSlotType DEF ListType
  <2>7. LoopType' /\ HostType'
    BY <2>1 DEF LoopType, HostType
  <2>8. WorldType'
    BY <2>1, <2>5 DEF WorldType
  <2> QED BY <2>4, <2>6, <2>7, <2>8
<1>4. CASE FirstLoop
  <2>1. LoopType'
    BY <1>4 DEF FirstLoop, LoopType
  <2>2. ListType' /\ WorldType' /\ HostType' /\ events' = events
    BY <1>4 DEF FirstLoop, ListType, WorldType, HostType
  <2> QED BY <2>1, <2>2
<1> QED BY <1>1, <1>2, <1>3, <1>4

(* One drive that the device loop looks at. *)
LEMMA TypeCheckDrive ==
  ASSUME TypeInv, CheckDrive
  PROVE  TypeInv'
<1> USE DEF TypeInv, list, loopVars, look, world, host
<1>1. pc = "drive" /\ at \in Nat /\ at >= 1 /\ Drives[at] \in Drive
  BY Constants DEF CheckDrive, LoopType
<1>2. PICK d \in Drive :
        /\ Skip \/ DriveFormatted(d) \/ DriveCame(d) \/ DriveWent(d)
        /\ change' = [change EXCEPT ![d] = "none"] /\ missed' = Missing(d)
  BY <1>1 DEF CheckDrive
<1>3. /\ at' = at + 1 /\ pc' = "drives" /\ found' = "none"
      /\ UNCHANGED <<prev, told, timer, new, here, any, changes, host>>
  BY DEF CheckDrive
<1>4. HostType' /\ (reset' \in BOOLEAN => LoopType')
  <2>1. missed' \subseteq Drive
    BY <1>2 DEF Missing, LoopType
  <2> QED BY <1>1, <1>3, <2>1 DEF HostType, LoopType
<1>5. map' \in [Drive -> Store \cup {NoStore}] => WorldType'
  BY <1>2, <1>3 DEF WorldType
<1>6. CASE Skip \/ DriveFormatted(d)
  <2>1. reset' \in BOOLEAN
    BY <1>6 DEF Skip, DriveFormatted, LoopType
  <2>2. map' = map /\ events' = events /\ ListType'
    BY <1>6 DEF Skip, DriveFormatted, ListType
  <2> QED BY <1>4, <1>5, <2>1, <2>2 DEF WorldType
<1>7. CASE DriveCame(d)
  <2>1. PICK k \in Store :
          /\ PutInSlot(d, k) /\ map' = [map EXCEPT ![d] = k]
          /\ events' \in AnnouncedBoth(events, Added(<<k, minor'[k]>>, d),
                                              Added(<<k, minor'[k]>>, d))
    BY <1>7 DEF DriveCame
  <2>2. d \in FS /\ reset' = reset
    BY <1>7, Constants DEF DriveCame
  <2>3. ListType'
    BY <2>1, <2>2, PutInSlotType DEF ListType
  <2>4. Added(<<k, minor'[k]>>, d) \in Event
    BY <2>2, <2>3, EventTypes DEF ListType
  <2>5. events' \in Seq(Event)
    BY <2>1, <2>4, BothSay
  <2>6. map' \in [Drive -> Store \cup {NoStore}]
    BY <2>1 DEF WorldType
  <2> QED BY <1>4, <1>5, <2>2, <2>3, <2>5, <2>6 DEF LoopType
<1>8. CASE DriveWent(d)
  <2>1. map[d] \in Store
    BY <1>8 DEF DriveWent, WorldType
  <2>2. Removed(StoreId(map[d])) \in Event
    BY <2>1, EventTypes DEF StoreId, ListType
  <2>3. events' \in Seq(Event)
    BY <1>8, <2>2, AnnouncedSays DEF DriveWent
  <2>4. ListType'
    BY <1>8, <2>1, ClearSlotType DEF DriveWent, ListType
  <2>5. map' \in [Drive -> Store \cup {NoStore}] /\ reset' = reset
    BY <1>8 DEF DriveWent, WorldType
  <2> QED BY <1>4, <1>5, <2>3, <2>4, <2>5 DEF LoopType
<1> QED BY <1>2, <1>6, <1>7, <1>8

(* The rest of the device loop. *)
LEMMA TypeLoop ==
  ASSUME TypeInv, LoopStarts \/ LookAtDrive \/ DrivesDone \/ CheckSlot \/ LoopEnds \/ FormatEnds
  PROVE  TypeInv'
<1> USE DEF TypeInv, list, loopVars, look, world, host
<1>1. CASE LoopStarts
  <2>1. LoopType'
    BY <1>1, Constants DEF LoopStarts, LoopType
  <2>2. ListType' /\ WorldType' /\ HostType' /\ events' = events
    BY <1>1 DEF LoopStarts, ListType, WorldType, HostType
  <2> QED BY <2>1, <2>2
<1>2. CASE DrivesDone
  <2>1. LoopType'
    BY <1>2 DEF DrivesDone, LoopType
  <2>2. ListType' /\ WorldType' /\ HostType' /\ events' = events
    BY <1>2 DEF DrivesDone, ListType, WorldType, HostType
  <2> QED BY <2>1, <2>2
<1>3. CASE CheckSlot
  <2>1. at \in Store
    BY <1>3, Constants DEF CheckSlot, ListType, LoopType, Store
  <2>2. Removed(StoreId(at)) \in Event /\ Added(StoreId(at), fs[at]) \in Event
    BY <2>1, EventTypes DEF StoreId, ListType
  <2>3. events' \in Seq(Event)
    BY <1>3, <2>2, BothSay DEF CheckSlot
  <2>4. Media(at) \in {"in", "out"}
    BY DEF Media
  <2>5. prev' \in [Store -> {"unknown", "in", "out"}] /\ reset' \in BOOLEAN
    BY <1>3, <2>4 DEF CheckSlot, LoopType
  <2>6. LoopType'
    BY <1>3, <2>5 DEF CheckSlot, LoopType
  <2>7. ListType' /\ WorldType' /\ HostType'
    BY <1>3 DEF CheckSlot, ListType, WorldType, HostType
  <2> QED BY <2>3, <2>6, <2>7
<1>4. CASE LoopEnds \/ FormatEnds
  <2>1. events' \in Seq(Event)
    BY <1>4, EventTypes, SentSays DEF LoopEnds, FormatEnds, SendReset
  <2>2. told' \in BOOLEAN
    BY <1>4 DEF LoopEnds, FormatEnds, SendReset, HostType
  <2>3. LoopType'
    <3>1. CASE LoopEnds
      BY <3>1 DEF LoopEnds, LoopType
    <3>2. CASE FormatEnds
      BY <3>2 DEF FormatEnds, LoopType
    <3> QED BY <1>4, <3>1, <3>2
  <2>4. ListType' /\ WorldType'
    BY <1>4 DEF LoopEnds, FormatEnds, ListType, WorldType
  <2>5. HostType'
    BY <1>4, <2>2 DEF LoopEnds, FormatEnds, HostType
  <2> QED BY <2>1, <2>3, <2>4, <2>5
<1>5. CASE LookAtDrive
  <2>1. PICK d \in {Drives[at]} :
          \/ at' = at + 1 /\ UNCHANGED <<pc, found>>
          \/ pc' = "drive" /\ found' = Found(d) /\ UNCHANGED at
    BY <1>5 DEF LookAtDrive
  <2>2. Found(d) \in {"came", "gone", "formatted"}
    BY DEF Found
  <2>3. LoopType'
    BY <1>5, <2>1, <2>2 DEF LookAtDrive, LoopType
  <2>4. ListType' /\ WorldType' /\ HostType' /\ events' = events
    BY <1>5 DEF LookAtDrive, ListType, WorldType, HostType
  <2> QED BY <2>3, <2>4
<1> QED BY <1>1, <1>2, <1>3, <1>4, <1>5

(* What comes and goes. *)
LEMMA TypeWorld ==
  ASSUME TypeInv, World
  PROVE  TypeInv'
<1> USE DEF TypeInv, list, loopVars, look, world, host
<1>1. changes' \in 0 .. MaxChanges
  BY BoundAssumption
  DEF World, PlugDrive, UnplugDrive, FormatDrive, ChangeCard, Happens, WorldType
<1>2. ListType' /\ LoopType' /\ HostType' /\ events' = events /\ map' = map
  <2>1. UNCHANGED <<list, prev, map, told, events, timer, loopVars, look, host>>
    BY DEF World, PlugDrive, UnplugDrive, FormatDrive, ChangeCard
  <2> QED BY <2>1 DEF ListType, LoopType, HostType
<1>3. here' \subseteq FS
  BY Constants
  DEF World, PlugDrive, UnplugDrive, FormatDrive, ChangeCard, DriveChanges, WorldType
<1>4. any' \in BOOLEAN
  BY DEF World, PlugDrive, UnplugDrive, FormatDrive, ChangeCard, DriveChanges, WorldType
<1>5. change' \in [Drive -> {"none", "connection", "format"}]
  BY DEF World, PlugDrive, UnplugDrive, FormatDrive, ChangeCard, DriveChanges, WorldType
<1>6. WorldType'
  BY <1>1, <1>2, <1>3, <1>4, <1>5 DEF WorldType
<1> QED BY <1>2, <1>6

(* The host and its commands. *)
LEMMA TypeHost ==
  ASSUME TypeInv, HostActs
  PROVE  TypeInv'
<1> USE DEF TypeInv, list, loopVars, look, world, host
<1>1. CASE OpenSession
  <2>1. HostType'
    BY <1>1 DEF OpenSession, HostType
  <2>2. ListType' /\ LoopType' /\ WorldType' /\ events' = events
    BY <1>1 DEF OpenSession, ListType, LoopType, WorldType
  <2> QED BY <2>1, <2>2
<1>2. CASE GetStorageIDs
  <2>1. /\ DOMAIN Offered \subseteq Id
        /\ Offered \in [DOMAIN Offered -> FS \cup {NoFS}]
    BY DEF Offered, StoreId, InUse, ListType, Id
  <2>2. HostType'
    BY <1>2, <2>1 DEF GetStorageIDs, HostType
  <2>3. ListType' /\ LoopType' /\ WorldType' /\ events' = events
    BY <1>2 DEF GetStorageIDs, ListType, LoopType, WorldType
  <2> QED BY <2>2, <2>3
<1>3. CASE CloseSession \/ FormatStore
  <2>1. changes' \in 0 .. MaxChanges
    BY <1>3, BoundAssumption DEF CloseSession, FormatStore, Happens, WorldType
  <2>2. HostType'
    BY <1>3 DEF CloseSession, FormatStore, HostForgets, NothingKnown, HostType
  <2>3. WorldType'
    BY <1>3, <2>1 DEF CloseSession, FormatStore, WorldType
  <2>4. ListType' /\ events' = events
    BY <1>3 DEF CloseSession, FormatStore, ListType
  <2>5. /\ UNCHANGED <<prev, timer, new, at, reset, found, missed>>
        /\ pc' = pc \/ pc' = "format"
    BY <1>3 DEF CloseSession, FormatStore
  <2>6. LoopType'
    BY <2>5 DEF LoopType
  <2> QED BY <2>2, <2>3, <2>4, <2>6
<1>4. CASE HandleEvent
  <2>1. PICK event \in Event : event = Head(events) /\ events' \in Seq(Event)
    BY <1>4, TailSays DEF HandleEvent
  <2>2. event.id \in Id /\ event.fs \in FS \cup {NoFS}
    BY <2>1 DEF Event
  <2>3. \/ HostForgets
        \/ /\ known' = [id \in DOMAIN known \cup {event.id} |->
                         IF id = event.id THEN event.fs ELSE known[id]]
           /\ UNCHANGED <<session, listed>>
        \/ /\ known' = [id \in DOMAIN known \ {event.id} |-> known[id]]
           /\ UNCHANGED <<session, listed>>
        \/ UNCHANGED host
    BY <1>4, <2>1 DEF HandleEvent
  <2>4. session' \in BOOLEAN /\ listed' \in BOOLEAN
    BY <2>3 DEF HostForgets, HostType
  <2>5. DOMAIN known' \subseteq Id /\ known' \in [DOMAIN known' -> FS \cup {NoFS}]
    BY <2>2, <2>3 DEF HostForgets, NothingKnown, HostType
  <2>6. HostType'
    BY <1>4, <2>4, <2>5 DEF HandleEvent, HostType
  <2>7. ListType' /\ LoopType' /\ WorldType'
    BY <1>4 DEF HandleEvent, ListType, LoopType, WorldType
  <2> QED BY <2>1, <2>6, <2>7
<1> QED BY <1>1, <1>2, <1>3, <1>4 DEF HostActs

(* Every step keeps the types. *)
LEMMA TypeNext ==
  ASSUME TypeInv, [Next]_vars
  PROVE  TypeInv'
<1>1. CASE Program
  BY <1>1, TypeSketch, TypeCheckDrive, TypeLoop DEF Program
<1>2. CASE UNCHANGED vars
  <2>1. ListType' /\ LoopType' /\ WorldType' /\ HostType' /\ events' = events
    BY <1>2 DEF vars, list, loopVars, look, world, host, TypeInv, ListType,
                LoopType, WorldType, HostType
  <2> QED BY <2>1 DEF TypeInv
<1> QED BY <1>1, <1>2, TypeWorld, TypeHost DEF Next

(* TypeInv is an invariant of the device and its host. *)
THEOREM TypeInvAlways == Spec => []TypeInv
<1>1. Init => TypeInv
  BY TypeInit
<1>2. TypeInv /\ [Next]_vars => TypeInv'
  BY TypeNext
<1> QED BY <1>1, <1>2, PTL DEF Spec

(* The list of storages, the loop and what is under way to the host stay in *)
(* their types, and nothing is behind the end of the list.                  *)
THEOREM VolumesTypeCorrect == Spec => []TypeOK
<1>1. TypeInv => TypeOK
  BY DEF TypeInv, ListType, LoopType, WorldType, HostType, Id, TypeOK
<1> QED BY <1>1, TypeInvAlways, PTL
-----------------------------------------------------------------------------
(* The callback's map. *)

(* MapAgrees slot by slot; and a drive that is there with a change that     *)
(* loop has not looked at, or that was found to have come, is not in it.    *)
MapInv ==
  /\ \A d \in Drive, k \in Store : fs[k] = d <=> map[d] = k
  /\ \A d \in Drive \cap here :
       change[d] = "connection" /\ ~ LookedAt(d) => map[d] = NoStore
  /\ \A d \in Drive : LookedAt(d) /\ found = "came" => map[d] = NoStore

(* A slot given to or taken from a file system of the sketch. *)
LEMMA MapSketch ==
  ASSUME TypeInv, MapInv, AddFilesystem \/ RemoveFilesystem
  PROVE  MapInv'
<1>1. PICK f \in Cards \cup Others, k \in Store :
        /\ fs[k] \in {NoFS, f} /\ fs' \in {[fs EXCEPT ![k] = f], [fs EXCEPT ![k] = NoFS]}
        /\ map' = map /\ here' = here /\ change' = change
        /\ pc # "drive" /\ pc' # "drive"
  <2>1. CASE AddFilesystem
    <3>1. PICK f \in Cards \cup Others, k \in Store :
            PutInSlot(f, k) /\ Idle /\ pc' = "announce" /\ UNCHANGED <<map, world>>
      BY <2>1 DEF AddFilesystem
    <3>2. fs[k] = NoFS /\ fs' = [fs EXCEPT ![k] = f]
      BY <3>1, PutInSlotType, Constants DEF TypeInv
    <3> QED BY <3>1, <3>2 DEF world, Idle
  <2>2. CASE RemoveFilesystem
    <3>1. PICK f \in Others :
            /\ IsListed(f) /\ ClearSlot(HolderOf(f))
            /\ Idle /\ UNCHANGED <<map, here, change, pc>>
      BY <2>2 DEF RemoveFilesystem, loopVars
    <3>2. HolderOf(f) \in Store /\ fs[HolderOf(f)] = f
      BY <3>1, HolderSlot
    <3>3. fs' = [fs EXCEPT ![HolderOf(f)] = NoFS]
      BY <3>1, <3>2, ClearSlotType DEF TypeInv
    <3> QED BY <3>1, <3>2, <3>3 DEF Idle
  <2> QED BY <2>1, <2>2
<1>2. fs \in [Store -> FS \cup {NoFS}]
  BY DEF TypeInv, ListType
<1>3. \A d \in Drive : d # f /\ d # NoFS
  BY Constants
<1>4. \A d \in Drive, j \in Store : fs'[j] = d <=> fs[j] = d
  BY <1>1, <1>2, <1>3
<1> QED BY <1>1, <1>4 DEF MapInv, LookedAt

(* A drive that came has no slot yet, and gets one; one that went gives its *)
(* slot back.                                                               *)
LEMMA MapCheckDrive ==
  ASSUME TypeInv, MapInv, CheckDrive
  PROVE  MapInv'
<1>1. Drives[at] \in Drive /\ pc = "drive"
  BY Constants DEF CheckDrive, TypeInv, LoopType
<1>2. PICK d \in Drive :
        /\ LookedAt(d)
        /\ \/ Skip
           \/ DriveFormatted(d)
           \/ found = "came" /\ DriveCame(d)
           \/ DriveWent(d)
        /\ change' = [change EXCEPT ![d] = "none"]
  BY <1>1 DEF CheckDrive, LookedAt
<1>3. here' = here /\ pc' # "drive"
  BY DEF CheckDrive
<1>4. /\ fs \in [Store -> FS \cup {NoFS}] /\ map \in [Drive -> Store \cup {NoStore}]
      /\ change \in [Drive -> {"none", "connection", "format"}]
  BY DEF TypeInv, ListType, WorldType
<1>5. /\ \A c \in Drive, k \in Store : c # d => (fs'[k] = c <=> fs[k] = c)
      /\ \A c \in Drive : c # d => map'[c] = map[c] /\ change'[c] = change[c]
      /\ \A k \in Store : fs'[k] = d <=> map'[d] = k
  <2>1. CASE Skip
    BY <1>2, <1>4, <2>1 DEF Skip, list, MapInv
  <2>2. CASE DriveFormatted(d)
    BY <1>2, <1>4, <2>2 DEF DriveFormatted, list, MapInv
  <2>3. CASE found = "came" /\ DriveCame(d)
    <3>1. PICK k \in Store : PutInSlot(d, k) /\ map' = [map EXCEPT ![d] = k]
      BY <2>3 DEF DriveCame
    <3>2. fs[k] = NoFS /\ fs' = [fs EXCEPT ![k] = d]
      BY <3>1, PutInSlotType, Constants DEF TypeInv
    <3>3. \A j \in Store : fs[j] # d
      BY <1>2, <2>3, Constants DEF MapInv
    <3>4. \A c \in Drive : c # NoFS
      BY Constants
    <3> QED BY <1>2, <1>4, <2>3, <3>1, <3>2, <3>3, <3>4
  <2>4. CASE DriveWent(d)
    <3>1. map[d] \in Store /\ ClearSlot(map[d]) /\ map' = [map EXCEPT ![d] = NoStore]
      BY <1>4, <2>4 DEF DriveWent
    <3>2. fs' = [fs EXCEPT ![map[d]] = NoFS]
      BY <3>1, ClearSlotType DEF TypeInv
    <3>3. \A k \in Store : fs[k] = d <=> map[d] = k
      BY DEF MapInv
    <3>4. \A c \in Drive : c # NoFS
      BY Constants
    <3>5. fs[map[d]] = d /\ \A k \in Store : k # NoStore
      BY <3>1, <3>3, Constants
    <3> QED BY <1>2, <1>4, <3>1, <3>2, <3>3, <3>4, <3>5
  <2> QED BY <1>2, <2>1, <2>2, <2>3, <2>4
<1>6. change'[d] = "none"
  BY <1>2, <1>4
<1>7. \A c \in Drive : c # d => ~ LookedAt(c)
  BY <1>2 DEF LookedAt
<1>8. \A c \in Drive : ~ LookedAt(c)'
  BY <1>3 DEF LookedAt
<1> QED BY <1>3, <1>5, <1>6, <1>7, <1>8 DEF MapInv

(* A drive that came has no slot when it is found.                          *)
LEMMA MapLookAtDrive ==
  ASSUME TypeInv, MapInv, LookAtDrive
  PROVE  MapInv'
<1>1. pc = "drives" /\ UNCHANGED <<fs, map, here, change>>
  BY DEF LookAtDrive, list, world
<1>2. \A d : ~ LookedAt(d)
  BY <1>1 DEF LookedAt
<1>3. ASSUME NEW d \in Drive, LookedAt(d)', found' = "came"
      PROVE  map[d] = NoStore
  <2>1. d = Drives[at] /\ change[d] # "none" /\ found' = Found(d)
    BY <1>1, <1>3 DEF LookAtDrive, LookedAt
  <2>2. d \in here /\ change[d] = "connection"
    <3>1. change[d] \in {"none", "connection", "format"}
      BY DEF TypeInv, WorldType
    <3> QED BY <1>3, <2>1, <3>1 DEF Found
  <2> QED BY <1>2, <2>2 DEF MapInv
<1> QED BY <1>1, <1>2, <1>3 DEF MapInv

(* A drive comes only when the last change was seen, and then has no slot. *)
LEMMA MapWorld ==
  ASSUME TypeInv, MapInv, World
  PROVE  MapInv'
<1>1. fs' = fs /\ map' = map /\ found' = found /\ \A d : LookedAt(d)' <=> LookedAt(d)
  BY DEF World, PlugDrive, UnplugDrive, FormatDrive, ChangeCard, list, loopVars, look,
    LookedAt
<1>2. change \in [Drive -> {"none", "connection", "format"}]
  BY DEF TypeInv, WorldType
<1>3. CASE PlugDrive
  BY <1>1, <1>2, <1>3 DEF PlugDrive, DriveChanges, NoticedGone, MapInv
<1>4. CASE UnplugDrive
  BY <1>1, <1>2, <1>4 DEF UnplugDrive, DriveChanges, MapInv
<1>5. CASE FormatDrive
  BY <1>1, <1>2, <1>5 DEF FormatDrive, DriveChanges, MapInv
<1>6. CASE ChangeCard
  <2>1. PICK f \in Cards : here' = IF f \in here THEN here \ {f} ELSE here \cup {f}
    BY <1>6 DEF ChangeCard
  <2>2. \A d \in Drive : d \in here' <=> d \in here
    BY <2>1, Constants
  <2> QED BY <1>1, <1>6, <2>2 DEF ChangeCard, MapInv
<1> QED BY <1>3, <1>4, <1>5, <1>6 DEF World

(* Every step keeps MapInv; the others touch neither slots nor drives. *)
LEMMA MapNext ==
  ASSUME TypeInv, MapInv, [Next]_vars
  PROVE  MapInv'
<1>1. CASE AddFilesystem \/ RemoveFilesystem \/ LookAtDrive \/ CheckDrive \/ World
  BY <1>1, MapSketch, MapLookAtDrive, MapCheckDrive, MapWorld
<1>2. CASE AnnounceNew \/ FirstLoop \/ LoopStarts \/ DrivesDone \/ CheckSlot
           \/ LoopEnds \/ FormatEnds
  <2>1. UNCHANGED <<fs, map, here, change>>
    BY <1>2 DEF AnnounceNew, FirstLoop, LoopStarts, DrivesDone, CheckSlot, LoopEnds,
      FormatEnds, list, world
  <2>2. pc # "drive" /\ pc' # "drive"
    BY <1>2 DEF AnnounceNew, FirstLoop, LoopStarts, DrivesDone, CheckSlot, LoopEnds,
      FormatEnds, loopVars, Idle
  <2> QED BY <2>1, <2>2 DEF MapInv, LookedAt
<1>3. CASE HostActs \/ UNCHANGED vars
  <2>1. UNCHANGED <<fs, map, here, change, found, at>>
    BY <1>3 DEF HostActs, OpenSession, GetStorageIDs, CloseSession, FormatStore,
      HandleEvent, vars, list, world, loopVars, look
  <2>2. pc' = pc \/ (pc # "drive" /\ pc' # "drive")
    <3>1. CASE FormatStore
      BY <3>1 DEF FormatStore, Idle
    <3>2. CASE OpenSession \/ GetStorageIDs \/ CloseSession \/ HandleEvent \/ UNCHANGED vars
      <4>1. UNCHANGED loopVars
        BY <3>2 DEF OpenSession, GetStorageIDs, CloseSession, HandleEvent, vars
      <4> QED BY <4>1 DEF loopVars
    <3> QED BY <1>3, <3>1, <3>2 DEF HostActs
  <2> QED BY <2>1, <2>2 DEF MapInv, LookedAt
<1> QED BY <1>1, <1>2, <1>3 DEF Next, Program

(* The callback's map and the list of storages agree in every state.        *)
THEOREM MapAgreesAlways == Spec => []MapAgrees
<1>1. Init => MapInv
  <2> SUFFICES ASSUME Init PROVE MapInv
    OBVIOUS
  <2>1. \A d \in Drive, k \in Store : d # NoFS /\ k # NoStore
    BY Constants
  <2> QED BY <2>1 DEF Init, MapInv, LookedAt
<1>2. MapInv /\ TypeInv /\ [Next]_vars => MapInv'
  BY MapNext
<1>3. MapInv /\ TypeInv => MapAgrees
  <2> SUFFICES ASSUME MapInv, TypeInv, NEW d \in Drive
               PROVE  {k \in Store : fs[k] = d} = {map[d]} \ {NoStore}
    BY DEF MapAgrees
  <2>1. map[d] \in Store \cup {NoStore} /\ NoStore \notin Store
    BY Constants DEF TypeInv, WorldType
  <2> QED BY <2>1 DEF MapInv
<1> QED BY <1>1, <1>2, <1>3, TypeInvAlways, PTL DEF Spec
-----------------------------------------------------------------------------
(* Storage ids. *)

(* No slot has been given away MinorMod - 2 times since it was first used. *)
NoneWraps == \A k \in Store : minor[k] < MinorMod - 1

(* An id was not given to a later owner of its slot, and if its slot still  *)
(* has that minor index, it holds the file system the id was given for or   *)
(* none.                                                                    *)
Means(id, f) ==
  /\ id[2] <= minor[id[1]]
  /\ id[2] = minor[id[1]] /\ fs[id[1]] # NoFS => fs[id[1]] = f

EventsMean(q) == \A event \in Said(q) : event.e = "added" => Means(event.id, event.fs)

IdInv ==
  /\ \A k \in Store : k >= count => minor[k] = 0
  /\ \A id \in DOMAIN known : Means(id, known[id])
  /\ EventsMean(events)

(* A slot's next owner has a higher minor index. *)
Grows ==
  \A k \in Store :
    \/ minor'[k] = minor[k] /\ fs'[k] \in {fs[k], NoFS}
    \/ minor'[k] > minor[k]

(* What an id meant, it means after every step that gives slots away so. *)
LEMMA MeansStays ==
  ASSUME TypeInv, TypeInv', Grows, NEW id \in Id, NEW f, Means(id, f)
  PROVE  Means(id, f)'
<1>1. PICK k \in Store, v \in 0 .. MinorMod - 1 : id = <<k, v>>
  BY DEF Id
<1>2. minor[k] \in Nat /\ minor'[k] \in Nat /\ v \in Nat
  BY Constants DEF TypeInv, ListType
<1> QED BY <1>1, <1>2 DEF Means, Grows

(* PutInSlot takes the next minor index, and marks no slot that is not in   *)
(* the list.                                                                *)
LEMMA PutInSlotGrows ==
  ASSUME ListType, NoneWraps, \A j \in Store : j >= count => minor[j] = 0,
         NEW f \in FS, NEW k \in Store, PutInSlot(f, k)
  PROVE  /\ Grows
         /\ \A j \in Store : j >= count' => minor'[j] = 0
<1>1. /\ minor \in [Store -> 0 .. MinorMod - 1] /\ fs \in [Store -> FS \cup {NoFS}]
      /\ count \in Nat /\ fs' = [fs EXCEPT ![k] = f]
      /\ \A j \in Store : j # k => minor'[j] = minor[j]
  BY PutInSlotType, Constants DEF ListType
<1>2. minor'[k] > minor[k] /\ \A j \in Store : j >= count' => j # k /\ j >= count
  <2>1. CASE count < MaxFS /\ k = count /\ minor' = [minor EXCEPT ![k] = 1] /\ count' = count + 1
    BY <1>1, <2>1, Constants
  <2>2. CASE count = MaxFS /\ minor' = [minor EXCEPT ![k] = NextMinor(k)] /\ count' = count
    <3>1. \A x \in Nat, M \in Nat : x + 1 < M => (x + 1) % M = x + 1
      OBVIOUS
    <3>2. minor[k] \in Nat /\ minor[k] + 1 < MinorMod
      BY <1>1, Constants DEF NoneWraps
    <3>3. NextMinor(k) = minor[k] + 1
      BY <3>1, <3>2, Constants DEF NextMinor
    <3> QED BY <1>1, <2>2, <3>2, <3>3, Constants DEF Store
  <2> QED BY <2>1, <2>2 DEF PutInSlot
<1> QED BY <1>1, <1>2 DEF Grows

(* Every step gives slots away so. *)
LEMMA AllGrow ==
  ASSUME TypeInv, IdInv, NoneWraps, [Next]_vars
  PROVE  Grows /\ \A k \in Store : k >= count' => minor'[k] = 0
<1>1. ListType /\ \A k \in Store : k >= count => minor[k] = 0
  BY DEF TypeInv, IdInv
<1>2. CASE \E f \in FS, k \in Store : PutInSlot(f, k)
  BY <1>1, <1>2, PutInSlotGrows
<1>3. CASE \E k \in Store : ClearSlot(k)
  <2>1. PICK k \in Store : fs' = [fs EXCEPT ![k] = NoFS] /\ UNCHANGED <<minor, count>>
    BY <1>3 DEF ClearSlot
  <2> QED BY <1>1, <2>1 DEF Grows, ListType
<1>4. CASE UNCHANGED list
  BY <1>1, <1>4 DEF list, Grows
<1>5. \/ \E f \in FS, k \in Store : PutInSlot(f, k)
      \/ \E k \in Store : ClearSlot(k)
      \/ UNCHANGED list
  <2>1. CASE AddFilesystem
    BY <2>1, Constants DEF AddFilesystem
  <2>2. CASE RemoveFilesystem
    BY <2>2, HolderSlot DEF RemoveFilesystem
  <2>3. CASE CheckDrive
    <3>1. PICK d \in {Drives[at]} : Skip \/ DriveFormatted(d) \/ DriveCame(d) \/ DriveWent(d)
      BY <2>3 DEF CheckDrive
    <3>2. d \in Drive /\ map[d] \in Store \cup {NoStore} /\ d \in FS
      BY <2>3, <3>1, Constants DEF CheckDrive, TypeInv, LoopType, WorldType
    <3> QED BY <3>1, <3>2 DEF Skip, DriveFormatted, DriveCame, DriveWent
  <2>4. CASE AnnounceNew \/ FirstLoop \/ LoopStarts \/ LookAtDrive \/ DrivesDone
             \/ CheckSlot \/ LoopEnds \/ FormatEnds
    BY <2>4 DEF AnnounceNew, FirstLoop, LoopStarts, LookAtDrive, DrivesDone, CheckSlot,
      LoopEnds, FormatEnds
  <2>5. CASE World
    BY <2>5 DEF World, PlugDrive, UnplugDrive, FormatDrive, ChangeCard
  <2>6. CASE HostActs
    BY <2>6 DEF HostActs, OpenSession, GetStorageIDs, CloseSession, FormatStore,
      HandleEvent
  <2>7. CASE UNCHANGED vars
    BY <2>7 DEF vars
  <2> QED BY <2>1, <2>2, <2>3, <2>4, <2>5, <2>6, <2>7 DEF Next, Program
<1> QED BY <1>2, <1>3, <1>4, <1>5
(* An id means the file system whose slot it names. *)
LEMMA OwnMeans ==
  ASSUME TypeInv', NEW k \in Store, NEW f, fs'[k] = f, NEW id, id = <<k, minor'[k]>>
  PROVE  Means(id, f)'
<1>1. minor'[k] \in Nat
  BY Constants DEF TypeInv, ListType
<1> QED BY <1>1 DEF Means

(* What is under way stays true, and what a step tells the host is true.    *)
LEMMA EventsStay ==
  ASSUME TypeInv, TypeInv', IdInv, Grows, [Next]_vars
  PROVE  EventsMean(events)'
<1> DEFINE True(event) == event.e = "added" => Means(event.id, event.fs)'
<1>1. \A event \in Said(events) : event.e = "added" => Means(event.id, event.fs)'
  <2> SUFFICES ASSUME NEW event \in Said(events), event.e = "added"
               PROVE  Means(event.id, event.fs)'
    OBVIOUS
  <2>1. event \in Event /\ Means(event.id, event.fs)
    BY DEF Said, TypeInv, IdInv, EventsMean
  <2>2. event.id \in Id
    BY <2>1 DEF Event
  <2> QED BY <2>1, <2>2, MeansStays
<1>2. ASSUME NEW told1 \in Event, NEW told2 \in Event, True(told1), True(told2),
             Said(events') \subseteq Said(events) \cup {told1, told2}
      PROVE  EventsMean(events)'
  BY <1>1, <1>2 DEF EventsMean
<1>3. ResetEvent \in Event /\ True(ResetEvent)
  BY EventTypes DEF ResetEvent
<1>4. ASSUME NEW k \in Store, NEW v \in 0 .. MinorMod - 1
      PROVE  Removed(<<k, v>>) \in Event /\ True(Removed(<<k, v>>))
  BY EventTypes DEF Removed
<1>5. ASSUME NEW k \in Store, NEW v \in 0 .. MinorMod - 1, v = minor'[k], NEW f, f = fs'[k]
      PROVE  Added(<<k, v>>, f) \in Event /\ True(Added(<<k, v>>, f))
  <2>1. f \in FS \cup {NoFS}
    BY <1>5 DEF TypeInv, ListType
  <2>2. Means(<<k, v>>, f)'
    BY <1>5, OwnMeans
  <2> QED BY <2>1, <2>2, EventTypes DEF Added
<1>6. events \in Seq(Event) /\ \A j \in Store : minor[j] \in 0 .. MinorMod - 1
  BY DEF TypeInv, ListType
<1>7. CASE AnnounceNew
  <2>1. PICK k \in Store, v \in 0 .. MinorMod - 1, f \in FS \cup {NoFS} :
          /\ v = minor'[k] /\ f = fs'[k]
          /\ events' \in Announced(events, Added(<<k, v>>, f))
    BY <1>7 DEF AnnounceNew, list, StoreId, TypeInv, ListType, LoopType
  <2>2. Added(<<k, v>>, f) \in Event /\ True(Added(<<k, v>>, f))
    BY <1>5, <2>1
  <2>3. Said(events') \subseteq Said(events) \cup {Added(<<k, v>>, f)}
    BY <1>6, <2>1, <2>2, AnnouncedSays
  <2> QED BY <1>2, <2>2, <2>3
<1>8. CASE RemoveFilesystem
  <2>1. PICK k \in Store : events' \in Announced(events, Removed(<<k, minor[k]>>))
    BY <1>8, HolderSlot DEF RemoveFilesystem, StoreId
  <2>2. Said(events') \subseteq Said(events) \cup {Removed(<<k, minor[k]>>)}
    BY <1>4, <1>6, <2>1, AnnouncedSays
  <2> QED BY <1>2, <1>4, <1>6, <2>2
<1>9. CASE CheckDrive
  <2>1. PICK d \in Drive : Skip \/ DriveFormatted(d) \/ DriveCame(d) \/ DriveWent(d)
    BY <1>9, Constants DEF CheckDrive, TypeInv, LoopType
  <2>2. CASE Skip \/ DriveFormatted(d)
    BY <1>2, <1>3, <2>2 DEF Skip, DriveFormatted
  <2>3. CASE DriveCame(d)
    <3>1. PICK k \in Store, v \in 0 .. MinorMod - 1 :
            /\ v = minor'[k] /\ PutInSlot(d, k)
            /\ events' \in AnnouncedBoth(events, Added(<<k, v>>, d), Added(<<k, v>>, d))
      BY <2>3 DEF DriveCame, TypeInv, ListType
    <3>2. fs'[k] = d
      BY <3>1, PutInSlotType, Constants DEF TypeInv, ListType
    <3>3. Added(<<k, v>>, d) \in Event /\ True(Added(<<k, v>>, d))
      BY <1>5, <3>1, <3>2
    <3>4. Said(events') \subseteq Said(events) \cup {Added(<<k, v>>, d)}
      BY <1>6, <3>1, <3>3, BothSay
    <3> QED BY <1>2, <3>3, <3>4
  <2>4. CASE DriveWent(d)
    <3>1. PICK k \in Store : events' \in Announced(events, Removed(<<k, minor[k]>>))
      BY <2>4 DEF DriveWent, StoreId, TypeInv, WorldType
    <3>2. Said(events') \subseteq Said(events) \cup {Removed(<<k, minor[k]>>)}
      BY <1>4, <1>6, <3>1, AnnouncedSays
    <3> QED BY <1>2, <1>4, <1>6, <3>2
  <2> QED BY <2>1, <2>2, <2>3, <2>4
<1>10. CASE CheckSlot
  <2>1. PICK k \in Store, v \in 0 .. MinorMod - 1, f \in FS \cup {NoFS} :
          /\ v = minor'[k] /\ f = fs'[k]
          /\ \/ events' = events
             \/ events' \in AnnouncedBoth(events, Removed(<<k, v>>), Added(<<k, v>>, f))
    <3>1. at \in Store
      BY <1>10, Constants DEF CheckSlot, TypeInv, ListType, LoopType, Store
    <3> QED BY <1>10, <3>1 DEF CheckSlot, list, StoreId, TypeInv, ListType
  <2>2. /\ Added(<<k, v>>, f) \in Event /\ True(Added(<<k, v>>, f))
        /\ Removed(<<k, v>>) \in Event /\ True(Removed(<<k, v>>))
    BY <1>4, <1>5, <2>1
  <2>3. Said(events') \subseteq Said(events) \cup {Removed(<<k, v>>), Added(<<k, v>>, f)}
    BY <1>6, <2>1, <2>2, BothSay
  <2> QED BY <1>2, <2>2, <2>3
<1>11. CASE LoopEnds \/ FormatEnds
  <2>1. Said(events') \subseteq Said(events) \cup {ResetEvent}
    BY <1>3, <1>6, <1>11, SentSays DEF LoopEnds, FormatEnds, SendReset
  <2> QED BY <1>2, <1>3, <2>1
<1>12. CASE HandleEvent
  <2>1. Said(events') \subseteq Said(events)
    BY <1>6, <1>12, TailSays DEF HandleEvent
  <2> QED BY <1>2, <1>3, <2>1
<1>13. CASE AddFilesystem \/ FirstLoop \/ LoopStarts \/ LookAtDrive \/ DrivesDone
            \/ World \/ OpenSession \/ GetStorageIDs \/ CloseSession \/ FormatStore \/ UNCHANGED vars
  <2>1. events' = events
    BY <1>13 DEF AddFilesystem, FirstLoop, LoopStarts, LookAtDrive, DrivesDone, World,
      PlugDrive, UnplugDrive, FormatDrive, ChangeCard, OpenSession, GetStorageIDs, CloseSession,
      FormatStore, vars
  <2> QED BY <1>2, <1>3, <2>1
<1> QED BY <1>7, <1>8, <1>9, <1>10, <1>11, <1>12, <1>13 DEF Next, Program, HostActs

(* What the host learned stays true.                                        *)
LEMMA KnownStays ==
  ASSUME TypeInv, TypeInv', IdInv, Grows, [Next]_vars
  PROVE  \A id \in DOMAIN known' : Means(id, known[id])'
<1>1. \A id \in DOMAIN known : Means(id, known[id]) /\ id \in Id
  BY DEF IdInv, TypeInv, HostType
<1>2. ASSUME NEW id \in DOMAIN known', id \in Id, Means(id, known'[id])
      PROVE  Means(id, known[id])'
  <2>1. PICK f : f = known'[id]
    OBVIOUS
  <2>2. Means(id, f)'
    BY <1>2, <2>1, MeansStays
  <2> QED BY <2>1, <2>2 DEF Means
<1>3. CASE GetStorageIDs
  <2>1. known' = Offered /\ UNCHANGED list
    BY <1>3 DEF GetStorageIDs
  <2>2. ASSUME NEW id \in DOMAIN Offered
        PROVE  Means(id, Offered[id])
    <3>1. PICK k \in Store : id = <<k, minor[k]>> /\ Offered[id] = fs[k]
      BY <2>2 DEF Offered, InUse, StoreId
    <3>2. minor[k] \in Nat
      BY Constants DEF TypeInv, ListType
    <3> QED BY <3>1, <3>2 DEF Means
  <2>3. DOMAIN Offered \subseteq Id
    BY DEF Offered, StoreId, InUse, TypeInv, ListType, Id
  <2> QED BY <1>2, <2>1, <2>2, <2>3
<1>4. CASE HandleEvent
  <2>1. PICK event \in Event : event = Head(events) /\ event \in Said(events)
    BY <1>4, TailSays DEF HandleEvent, TypeInv
  <2>2. event.id \in Id /\ (event.e = "added" => Means(event.id, event.fs))
    BY <2>1 DEF Event, IdInv, EventsMean
  <2>3. \/ HostForgets
        \/ /\ event.e = "added"
           /\ known' = [id \in DOMAIN known \cup {event.id} |->
                          IF id = event.id THEN event.fs ELSE known[id]]
        \/ known' = [id \in DOMAIN known \ {event.id} |-> known[id]]
        \/ UNCHANGED host
    BY <1>4, <2>1 DEF HandleEvent
  <2>4. \A id \in DOMAIN known' : id \in Id /\ Means(id, known'[id])
    BY <1>1, <2>2, <2>3 DEF HostForgets, NothingKnown, host
  <2> QED BY <1>2, <2>4
<1>5. CASE CloseSession
  BY <1>5 DEF CloseSession, HostForgets, NothingKnown
<1>6. CASE Program \/ World \/ OpenSession \/ FormatStore \/ UNCHANGED vars
  <2>1. known' = known
    BY <1>6 DEF Program, AddFilesystem, AnnounceNew, RemoveFilesystem, FirstLoop,
      LoopStarts, LookAtDrive, CheckDrive, DrivesDone, CheckSlot, LoopEnds, FormatEnds, World,
      PlugDrive, UnplugDrive, FormatDrive, ChangeCard, OpenSession, FormatStore, vars, host
  <2> QED BY <1>1, <1>2, <2>1
<1> QED BY <1>3, <1>4, <1>5, <1>6 DEF Next, HostActs

(* While no minor index wraps, an id that the host knows never stands for   *)
(* another file system than the one it was given for, however late events   *)
(* are handled and whatever is lost.                                        *)
THEOREM IdsMeanOneDisk == Spec /\ []NoneWraps => []IdMeansOneDisk
<1>1. Init => IdInv
  <2> SUFFICES ASSUME Init PROVE IdInv
    OBVIOUS
  <2>1. DOMAIN known = {} /\ Said(events) = {}
    BY EmptySeq DEF Init, NothingKnown, Said
  <2> QED BY <2>1 DEF Init, IdInv, EventsMean
<1>2. IdInv /\ NoneWraps /\ TypeInv /\ TypeInv' /\ [Next]_vars => IdInv'
  <2> SUFFICES ASSUME IdInv, NoneWraps, TypeInv, TypeInv', [Next]_vars PROVE IdInv'
    OBVIOUS
  <2>1. Grows /\ \A k \in Store : k >= count' => minor'[k] = 0
    BY AllGrow
  <2>2. EventsMean(events)'
    BY <2>1, EventsStay
  <2>3. \A id \in DOMAIN known' : Means(id, known[id])'
    BY <2>1, KnownStays
  <2> QED BY <2>1, <2>2, <2>3 DEF IdInv
<1>3. IdInv /\ TypeInv => IdMeansOneDisk
  <2> SUFFICES ASSUME IdInv, TypeInv, NEW id \in DOMAIN known \cap DOMAIN Offered
               PROVE  known[id] = Offered[id]
    BY DEF IdMeansOneDisk
  <2>1. PICK k \in Store : id = <<k, minor[k]>> /\ Offered[id] = fs[k] /\ fs[k] # NoFS
    BY DEF Offered, InUse, StoreId
  <2>2. Means(id, known[id])
    BY DEF IdInv
  <2> QED BY <2>1, <2>2 DEF Means
<1> QED BY <1>1, <1>2, <1>3, TypeInvAlways, PTL DEF Spec

-----------------------------------------------------------------------------
(* What the host knows when events wait no longer than it takes to send    *)
(* them.                                                                   *)

(* The file system an id stands for, to the device and to the host.        *)
OfferedAt(id) == IF minor[id[1]] = id[2] THEN fs[id[1]] ELSE NoFS
KnownAt(id)   == IF id \in DOMAIN known THEN known[id] ELSE NoFS

About(event, id) == event.e # "reset" /\ event.id = id

(* Nothing in q makes the host think anew of an id; or what does last says *)
(* that the id stands for f.                                               *)
Silent(q, id) == \A i \in 1 .. Len(q) : q[i].e # "reset" /\ q[i].id # id
Says(q, id, f) ==
  \A i \in 1 .. Len(q) :
    /\ About(q[i], id)
    /\ \A j \in i + 1 .. Len(q) : q[j].e # "reset" /\ q[j].id # id
    => q[i].fs = f

(* A host that has the list will know, with the events handled, that id    *)
(* stands for f.                                                           *)
WillKnow(id, f) ==
  /\ Says(events, id, f)
  /\ listed /\ Silent(events, id) => KnownAt(id) = f

Pending(id) == pc = "announce" /\ id = StoreId(new)

(* An event says of an id which file system it stands for, or none.        *)
Sensible(event) ==
  /\ event.e = "added" => event.fs # NoFS
  /\ event.e = "removed" => event.fs = NoFS

(* Only a slot with a card has the card's callback, and what addFilesystem *)
(* announces is in the list.                                               *)
SlotInv ==
  /\ \A k \in Store : fstype[k] = "SD" => fs[k] \in Cards
  /\ pc = "announce" => new < count /\ fs[new] # NoFS

(* What is said makes sense.  A host that was not told of the storages is  *)
(* about to be reset or has no list; one that was told will know them.     *)
HostInv ==
  /\ \A i \in 1 .. Len(events) : Sensible(events[i])
  /\ \A id \in DOMAIN known : known[id] # NoFS
  /\ ~ told /\ events # <<>> => events[Len(events)].e = "reset"
  /\ ~ told /\ listed => events # <<>>
  /\ told => \A id \in Id : ~ Pending(id) => WillKnow(id, OfferedAt(id))

(* r is q and something more, about one id, that says it stands for f.     *)
Informs(q, r, id, f) ==
  /\ r \in Seq(Event)
  /\ \A i \in 1 .. Len(r) : Sensible(r[i])
  /\ \A other, g : other # id /\ Says(q, other, g) => Says(r, other, g)
  /\ \A other : other # id /\ Silent(r, other) => Silent(q, other)
  /\ Says(r, id, f) /\ ~ Silent(r, id)

LEMMA InformOne ==
  ASSUME NEW q \in Seq(Event), \A i \in 1 .. Len(q) : Sensible(q[i]),
         NEW event \in Event, event.e # "reset", Sensible(event)
  PROVE  Informs(q, Append(q, event), event.id, event.fs)
<1> DEFINE r == Append(q, event)
<1>1. /\ r \in Seq(Event) /\ Len(r) = Len(q) + 1 /\ Len(q) \in Nat
      /\ \A i \in 1 .. Len(q) : r[i] = q[i]
      /\ r[Len(q) + 1] = event
  BY AppendProperties
<1> HIDE DEF r
<1>2. \A i \in 1 .. Len(r) : i \in 1 .. Len(q) \/ i = Len(q) + 1
  BY <1>1
<1>3. \A i \in 1 .. Len(r) : Sensible(r[i])
  BY <1>1, <1>2
<1>4. /\ \A i \in 1 .. Len(q) : i \in 1 .. Len(r) /\ Len(r) \in i + 1 .. Len(r)
      /\ Len(r) \in 1 .. Len(r) /\ r[Len(r)] = event
      /\ \A i \in 1 .. Len(q) : \A j \in i + 1 .. Len(q) : j \in i + 1 .. Len(r) /\ j \in 1 .. Len(q)
  BY <1>1
<1>5. ASSUME NEW other, NEW g, other # event.id, Says(q, other, g)
      PROVE  Says(r, other, g)
  <2> SUFFICES ASSUME NEW i \in 1 .. Len(r), About(r[i], other),
                      \A j \in i + 1 .. Len(r) : r[j].e # "reset" /\ r[j].id # other
               PROVE  r[i].fs = g
    BY DEF Says
  <2>1. i \in 1 .. Len(q)
    BY <1>1, <1>2, <1>5 DEF About
  <2>2. \A j \in i + 1 .. Len(q) : q[j].e # "reset" /\ q[j].id # other
    BY <1>1, <1>4, <2>1
  <2> QED BY <1>1, <1>5, <2>1, <2>2 DEF Says
<1>6. \A other : other # event.id /\ Silent(r, other) => Silent(q, other)
  BY <1>1, <1>4 DEF Silent
<1>7. Says(r, event.id, event.fs)
  <2> SUFFICES ASSUME NEW i \in 1 .. Len(r),
                      \A j \in i + 1 .. Len(r) : r[j].e # "reset" /\ r[j].id # event.id
               PROVE  r[i].fs = event.fs
    BY DEF Says
  <2>1. i \notin 1 .. Len(q)
    BY <1>4
  <2> QED BY <1>1, <1>2, <2>1
<1>8. ~ Silent(r, event.id)
  BY <1>4 DEF Silent
<1> QED BY <1>1, <1>3, <1>5, <1>6, <1>7, <1>8 DEF Informs, r

(* Of two events about one id the second counts.                           *)
LEMMA InformBoth ==
  ASSUME NEW q \in Seq(Event), \A i \in 1 .. Len(q) : Sensible(q[i]),
         NEW event1 \in Event, event1.e # "reset", Sensible(event1),
         NEW event2 \in Event, event2.e # "reset", Sensible(event2),
         event1.id = event2.id
  PROVE  Informs(q, Append(Append(q, event1), event2), event2.id, event2.fs)
<1> DEFINE r1 == Append(q, event1)
           r2 == Append(r1, event2)
<1>1. Informs(q, r1, event1.id, event1.fs)
  BY InformOne
<1>2. r1 \in Seq(Event) /\ \A i \in 1 .. Len(r1) : Sensible(r1[i])
  BY <1>1 DEF Informs
<1> HIDE DEF r1
<1>3. Informs(r1, r2, event2.id, event2.fs)
  BY <1>2, InformOne
<1> HIDE DEF r2
<1>4. Informs(q, r2, event2.id, event2.fs)
  BY <1>1, <1>3 DEF Informs
<1> QED BY <1>4 DEF r1, r2

(* What Announced and AnnouncedBoth come to when nothing is dropped.       *)
LEMMA AnnouncedInforms ==
  ASSUME ~ MayTimeOut, told, events \in Seq(Event), HostInv,
         NEW event \in Event, event.e # "reset", Sensible(event),
         events' \in Announced(events, event)
  PROVE  Informs(events, events', event.id, event.fs)
<1>1. events' = Append(events, event)
  BY DEF Announced, Sent
<1> QED BY <1>1, InformOne DEF HostInv

LEMMA BothInform ==
  ASSUME ~ MayTimeOut, told, events \in Seq(Event), HostInv,
         NEW event1 \in Event, event1.e # "reset", Sensible(event1),
         NEW event2 \in Event, event2.e # "reset", Sensible(event2),
         event1.id = event2.id,
         events' \in AnnouncedBoth(events, event1, event2)
  PROVE  Informs(events, events', event2.id, event2.fs)
<1>1. events' = Append(Append(events, event1), event2)
  BY DEF AnnouncedBoth, Announced, Sent
<1> QED BY <1>1, InformBoth DEF HostInv

(* A step that changes what one id stands for and says so, if the host was *)
(* told, keeps the host's invariant.                                       *)
LEMMA HostInformed ==
  ASSUME TypeInv, HostInv, UNCHANGED <<told, listed, known>>,
         NEW id \in Id,
         told => Informs(events, events', id, OfferedAt(id)'),
         ~ told => events' = events,
         \A other \in Id : other # id /\ ~ Pending(other)'
           => ~ Pending(other) /\ OfferedAt(other)' = OfferedAt(other)
  PROVE  HostInv'
<1>1. CASE ~ told
  BY <1>1 DEF HostInv
<1>2. CASE told
  <2>1. \A other \in Id : ~ Pending(other)' => WillKnow(other, OfferedAt(other))'
    <3> SUFFICES ASSUME NEW other \in Id, ~ Pending(other)'
                 PROVE  WillKnow(other, OfferedAt(other))'
      OBVIOUS
    <3>1. CASE other = id
      BY <1>2, <3>1 DEF Informs, WillKnow
    <3>2. CASE other # id
      <4>1. WillKnow(other, OfferedAt(other)) /\ OfferedAt(other)' = OfferedAt(other)
        BY <1>2, <3>2 DEF HostInv
      <4>2. KnownAt(other)' = KnownAt(other) /\ listed' = listed
        BY DEF KnownAt
      <4> QED BY <1>2, <3>2, <4>1, <4>2 DEF Informs, WillKnow
    <3> QED BY <3>1, <3>2
  <2> QED BY <1>2, <2>1 DEF HostInv, Informs
<1> QED BY <1>1, <1>2

(* As does one of which the host need not know yet.                        *)
LEMMA HostWaits ==
  ASSUME HostInv, UNCHANGED <<told, listed, known, events>>,
         \A id \in Id : ~ Pending(id)' => ~ Pending(id) /\ OfferedAt(id)' = OfferedAt(id)
  PROVE  HostInv'
<1>1. \A id : /\ KnownAt(id)' = KnownAt(id)
              /\ \A f : WillKnow(id, f)' <=> WillKnow(id, f)
  BY DEF KnownAt, WillKnow
<1>2. \A id \in Id : ~ Pending(id)' /\ told' => WillKnow(id, OfferedAt(id))'
  <2> SUFFICES ASSUME NEW id \in Id, ~ Pending(id)', told'
               PROVE  WillKnow(id, OfferedAt(id))'
    OBVIOUS
  <2>1. WillKnow(id, OfferedAt(id)) /\ OfferedAt(id)' = OfferedAt(id)
    BY DEF HostInv
  <2> QED BY <2>1 DEF WillKnow, KnownAt
<1> QED BY <1>2 DEF HostInv

(* What an id stands for changes with its slot only.                       *)
LEMMA OfferedElsewhere ==
  ASSUME TypeInv, NEW k \in Store, fs'[k] = NoFS \/ fs[k] = NoFS,
         \A j \in Store : j # k => fs'[j] = fs[j] /\ minor'[j] = minor[j],
         minor'[k] = minor[k] \/ fs[k] = NoFS, NEW own, own = <<k, minor'[k]>>
  PROVE  /\ \A id \in Id : id # own => OfferedAt(id)' = OfferedAt(id)
         /\ OfferedAt(own)' = fs'[k]
<1>1. ASSUME NEW id \in Id, id # own
      PROVE  OfferedAt(id)' = OfferedAt(id)
  <2>1. PICK j \in Store, v \in 0 .. MinorMod - 1 : id = <<j, v>>
    BY DEF Id
  <2>2. CASE j # k
    BY <2>1, <2>2 DEF OfferedAt
  <2>3. CASE j = k
    BY <1>1, <2>1, <2>3 DEF OfferedAt
  <2> QED BY <2>2, <2>3
<1>2. OfferedAt(own)' = fs'[k]
  BY DEF OfferedAt
<1> QED BY <1>1, <1>2

(* A file system gets a slot, and an id.                                   *)
LEMMA SlotTaken ==
  ASSUME TypeInv, SlotInv, NEW f \in FS, NEW k \in Store, PutInSlot(f, k)
  PROVE  /\ \A j \in Store : fstype'[j] = "SD" => fs'[j] \in Cards
         /\ fs'[k] = f /\ k < count'
         /\ \E own \in Id : /\ own = <<k, minor'[k]>>
                            /\ \A id \in Id : id # own => OfferedAt(id)' = OfferedAt(id)
                            /\ OfferedAt(own)' = f
<1>0. ListType /\ NoFS \notin Cards
  BY Constants DEF TypeInv
<1>1. /\ fs[k] = NoFS /\ fs' = [fs EXCEPT ![k] = f] /\ fs \in [Store -> FS \cup {NoFS}]
      /\ minor' \in [Store -> 0 .. MinorMod - 1]
      /\ \A j \in Store : j # k => minor'[j] = minor[j]
      /\ fstype \in [Store -> {"unknown", "SD"}]
  BY <1>0, PutInSlotType DEF ListType
<1>2. PICK own \in Id : own = <<k, minor'[k]>>
  BY <1>1 DEF Id
<1>3. /\ \A id \in Id : id # own => OfferedAt(id)' = OfferedAt(id)
      /\ OfferedAt(own)' = f
  <2>1. fs'[k] = f /\ \A j \in Store : j # k => fs'[j] = fs[j] /\ minor'[j] = minor[j]
    BY <1>1
  <2> QED BY <1>1, <1>2, <2>1, OfferedElsewhere
<1>4. k < count' /\ \A j \in Store : fstype'[j] = "SD" => fs'[j] \in Cards
  <2>1. CASE k = count /\ fstype' = [fstype EXCEPT ![k] = TypeOf(f)] /\ count' = count + 1
    <3>1. k < count'
      BY <2>1, Constants DEF TypeInv, ListType
    <3>2. \A j \in Store : fstype'[j] = "SD" => fs'[j] \in Cards
      BY <1>1, <2>1 DEF SlotInv, TypeOf
    <3> QED BY <3>1, <3>2
  <2>2. CASE count = MaxFS /\ UNCHANGED <<fstype, count>>
    <3>1. k < count'
      BY <2>2, Constants DEF Store
    <3>2. \A j \in Store : fstype'[j] = "SD" => fs'[j] \in Cards
      BY <1>0, <1>1, <2>2 DEF SlotInv
    <3> QED BY <3>1, <3>2
  <2> QED BY <2>1, <2>2 DEF PutInSlot
<1> QED BY <1>1, <1>2, <1>3, <1>4

(* A file system that is no card gives its slot back.                      *)
LEMMA SlotFreed ==
  ASSUME TypeInv, SlotInv, NEW k \in Store, fs[k] \notin Cards, ClearSlot(k)
  PROVE  /\ \A j \in Store : fstype'[j] = "SD" => fs'[j] \in Cards
         /\ \E own \in Id : /\ own = StoreId(k)
                            /\ \A id \in Id : id # own => OfferedAt(id)' = OfferedAt(id)
                            /\ OfferedAt(own)' = NoFS
<1>1. /\ fs' = [fs EXCEPT ![k] = NoFS] /\ fs \in [Store -> FS \cup {NoFS}]
      /\ fstype' = fstype /\ minor' = minor /\ minor \in [Store -> 0 .. MinorMod - 1]
  BY ClearSlotType DEF TypeInv, ListType
<1>2. PICK own \in Id : own = <<k, minor'[k]>> /\ own = StoreId(k)
  BY <1>1 DEF Id, StoreId
<1>3. /\ \A id \in Id : id # own => OfferedAt(id)' = OfferedAt(id)
      /\ OfferedAt(own)' = NoFS
  <2>1. fs'[k] = NoFS /\ \A j \in Store : j # k => fs'[j] = fs[j] /\ minor'[j] = minor[j]
    BY <1>1
  <2> QED BY <1>1, <1>2, <2>1, OfferedElsewhere
<1> QED BY <1>1, <1>2, <1>3 DEF SlotInv

(* The sketch: a storage is announced after the host could list it, and    *)
(* before that it is removed.                                              *)
LEMMA HostSketch ==
  ASSUME ~ MayTimeOut, TypeInv, SlotInv, HostInv,
         AddFilesystem \/ AnnounceNew \/ RemoveFilesystem
  PROVE  SlotInv' /\ HostInv'
<1>1. CASE AddFilesystem
  <2>1. PICK f \in Cards \cup Others, k \in Store :
          /\ pc = "idle" /\ PutInSlot(f, k) /\ new' = k /\ pc' = "announce"
          /\ UNCHANGED <<told, events, listed, known>>
    BY <1>1 DEF AddFilesystem, Idle, host
  <2>2. f \in FS /\ f # NoFS
    BY Constants
  <2>3. SlotInv'
    BY <2>1, <2>2, SlotTaken DEF SlotInv
  <2>4. \A id \in Id : ~ Pending(id)' => ~ Pending(id) /\ OfferedAt(id)' = OfferedAt(id)
    <3>1. PICK own \in Id : own = <<k, minor'[k]>>
                            /\ \A id \in Id : id # own => OfferedAt(id)' = OfferedAt(id)
      BY <2>1, <2>2, SlotTaken
    <3>2. \A id \in Id : ~ Pending(id) /\ (id = own => Pending(id)')
      BY <2>1, <3>1 DEF Pending, StoreId
    <3> QED BY <3>1, <3>2
  <2> QED BY <2>1, <2>3, <2>4, HostWaits
<1>2. CASE AnnounceNew
  <2>1. /\ pc = "announce" /\ pc' = "idle" /\ UNCHANGED <<told, listed, known>>
        /\ UNCHANGED <<fs, fstype, minor, count>>
        /\ events' \in Announced(events, Added(StoreId(new), fs[new]))
    BY <1>2 DEF AnnounceNew, list, host
  <2>2. fs[new] # NoFS /\ fs[new] \in FS \cup {NoFS} /\ new \in Store
        /\ minor[new] \in 0 .. MinorMod - 1
    BY <2>1 DEF SlotInv, TypeInv, ListType, LoopType
  <2>3. PICK own \in Id, f \in FS : own = <<new, minor[new]>> /\ f = fs[new]
    BY <2>2 DEF Id
  <2>4. own = StoreId(new) /\ events' \in Announced(events, Added(own, f))
    BY <2>1, <2>3 DEF StoreId
  <2> DEFINE event == Added(own, f)
  <2>5. event \in Event /\ event.e # "reset" /\ Sensible(event)
        /\ event.id = own /\ event.fs = f
    BY <2>2, <2>3, EventTypes DEF Sensible, Added
  <2>6. /\ \A id \in Id : OfferedAt(id)' = OfferedAt(id)
        /\ OfferedAt(own)' = f
        /\ \A id \in Id : id # own => ~ Pending(id)
    BY <2>1, <2>3, <2>4 DEF OfferedAt, Pending
  <2>7. SlotInv'
    BY <2>1 DEF SlotInv
  <2> HIDE DEF event
  <2>8. told => Informs(events, events', own, f)
    BY <2>4, <2>5, AnnouncedInforms DEF TypeInv, event
  <2>9. ~ told => events' = events
    BY <2>1 DEF Announced
  <2> QED BY <2>1, <2>6, <2>7, <2>8, <2>9, HostInformed
<1>3. CASE RemoveFilesystem
  <2>1. PICK f \in Others :
          /\ pc = "idle" /\ IsListed(f) /\ ClearSlot(HolderOf(f))
          /\ events' \in Announced(events, Removed(StoreId(HolderOf(f))))
          /\ UNCHANGED <<pc, new, told, listed, known>>
    BY <1>3 DEF RemoveFilesystem, Idle, loopVars, host
  <2>2. PICK k \in Store : k = HolderOf(f) /\ fs[k] = f /\ f \notin Cards
    BY <2>1, HolderSlot, Constants
  <2>3. SlotInv'
    BY <2>1, <2>2, SlotFreed DEF SlotInv
  <2>4. PICK own \in Id : /\ own = StoreId(k)
                          /\ \A id \in Id : id # own => OfferedAt(id)' = OfferedAt(id)
                          /\ OfferedAt(own)' = NoFS
    BY <2>1, <2>2, SlotFreed
  <2> DEFINE event == Removed(own)
  <2>5. event \in Event /\ event.e # "reset" /\ Sensible(event)
        /\ event.id = own /\ event.fs = NoFS
    BY <2>4, EventTypes DEF StoreId, Sensible, Removed, TypeInv, ListType
  <2> HIDE DEF event
  <2>6. told => Informs(events, events', own, NoFS)
    BY <2>1, <2>2, <2>4, <2>5, AnnouncedInforms DEF TypeInv, event
  <2>7. ~ told => events' = events
    BY <2>1 DEF Announced
  <2>8. \A id : ~ Pending(id)
    BY <2>1 DEF Pending
  <2> QED BY <2>1, <2>3, <2>4, <2>6, <2>7, <2>8, HostInformed
<1> QED BY <1>1, <1>2, <1>3

(* The device loop: drives that come and go.                               *)
LEMMA HostCheckDrive ==
  ASSUME ~ MayTimeOut, TypeInv, MapInv, SlotInv, HostInv, CheckDrive
  PROVE  SlotInv' /\ HostInv'
<1>1. pc = "drive" /\ pc' = "drives" /\ UNCHANGED <<new, told, listed, known>>
  BY DEF CheckDrive, host
<1>2. \A id : ~ Pending(id) /\ ~ Pending(id)'
  BY <1>1 DEF Pending
<1>3. PICK d \in Drive : Skip \/ DriveFormatted(d) \/ DriveCame(d) \/ DriveWent(d)
  BY Constants DEF CheckDrive, TypeInv, LoopType
<1>4. CASE Skip \/ DriveFormatted(d)
  <2>1. UNCHANGED <<fs, fstype, minor, count, events>>
    BY <1>4 DEF Skip, DriveFormatted, list
  <2>2. \A id : OfferedAt(id)' = OfferedAt(id)
    BY <2>1 DEF OfferedAt
  <2> QED BY <1>1, <1>2, <2>1, <2>2, HostWaits DEF SlotInv
<1>5. CASE DriveCame(d)
  <2>1. PICK k \in Store :
          /\ PutInSlot(d, k)
          /\ events' \in AnnouncedBoth(events, Added(<<k, minor'[k]>>, d),
                                              Added(<<k, minor'[k]>>, d))
    BY <1>5 DEF DriveCame
  <2>2. d \in FS /\ d # NoFS
    BY Constants
  <2>3. SlotInv'
    BY <1>1, <2>1, <2>2, SlotTaken DEF SlotInv
  <2>4. PICK own \in Id : /\ own = <<k, minor'[k]>>
                          /\ \A id \in Id : id # own => OfferedAt(id)' = OfferedAt(id)
                          /\ OfferedAt(own)' = d
    BY <2>1, <2>2, SlotTaken
  <2> DEFINE event == Added(own, d)
  <2>5. event \in Event /\ event.e # "reset" /\ Sensible(event)
        /\ event.id = own /\ event.fs = d
    <3>1. minor'[k] \in 0 .. MinorMod - 1
      BY <2>1, <2>2, PutInSlotType DEF TypeInv
    <3> QED BY <2>2, <2>4, <3>1, EventTypes DEF Sensible, Added
  <2> HIDE DEF event
  <2>6. told => Informs(events, events', own, d)
    BY <2>1, <2>4, <2>5, BothInform DEF TypeInv, event
  <2>7. ~ told => events' = events
    BY <2>1 DEF AnnouncedBoth, Announced
  <2> QED BY <1>1, <1>2, <2>3, <2>4, <2>6, <2>7, HostInformed
<1>6. CASE DriveWent(d)
  <2>1. PICK k \in Store :
          k = map[d] /\ ClearSlot(k) /\ events' \in Announced(events, Removed(StoreId(k)))
    BY <1>6 DEF DriveWent, TypeInv, WorldType
  <2>2. fs[k] \notin Cards
    BY <2>1, Constants DEF MapInv
  <2>3. SlotInv'
    BY <1>1, <2>1, <2>2, SlotFreed DEF SlotInv
  <2>4. PICK own \in Id : /\ own = StoreId(k)
                          /\ \A id \in Id : id # own => OfferedAt(id)' = OfferedAt(id)
                          /\ OfferedAt(own)' = NoFS
    BY <2>1, <2>2, SlotFreed
  <2> DEFINE event == Removed(own)
  <2>5. event \in Event /\ event.e # "reset" /\ Sensible(event)
        /\ event.id = own /\ event.fs = NoFS
    BY <2>4, EventTypes DEF StoreId, Sensible, Removed, TypeInv, ListType
  <2> HIDE DEF event
  <2>6. told => Informs(events, events', own, NoFS)
    BY <2>1, <2>4, <2>5, AnnouncedInforms DEF TypeInv, event
  <2>7. ~ told => events' = events
    BY <2>1 DEF Announced
  <2> QED BY <1>1, <1>2, <2>3, <2>4, <2>6, <2>7, HostInformed
<1> QED BY <1>3, <1>4, <1>5, <1>6

(* Cards that come and go while they keep their slots and ids.             *)
LEMMA HostCheckSlot ==
  ASSUME ~ MayTimeOut, TypeInv, SlotInv, HostInv, CheckSlot
  PROVE  SlotInv' /\ HostInv'
<1>1. /\ pc = "cards" /\ at < count /\ pc' = pc /\ new' = new
      /\ UNCHANGED <<fs, fstype, minor, count, told, listed, known>>
  BY DEF CheckSlot, list, host
<1>2. SlotInv'
  BY <1>1 DEF SlotInv
<1>3. \A id : ~ Pending(id) /\ OfferedAt(id)' = OfferedAt(id)
  BY <1>1 DEF Pending, OfferedAt
<1>4. CASE events' = events
  BY <1>1, <1>2, <1>3, <1>4, HostWaits
<1>5. CASE fstype[at] = "SD" /\ events' \in AnnouncedBoth(events, Removed(StoreId(at)),
                                                               Added(StoreId(at), fs[at]))
  <2>1. at \in Store /\ minor[at] \in 0 .. MinorMod - 1
    BY <1>1, Constants DEF TypeInv, ListType, LoopType, Store
  <2>2. PICK f \in Cards : f = fs[at] /\ f \in FS /\ f # NoFS
    BY <1>5, <2>1, Constants DEF SlotInv
  <2>3. PICK own \in Id : own = <<at, minor[at]>> /\ own = StoreId(at)
    BY <2>1 DEF Id, StoreId
  <2>4. OfferedAt(own)' = f
    BY <1>1, <2>2, <2>3 DEF OfferedAt
  <2> DEFINE event1 == Removed(own)
             event2 == Added(own, f)
  <2>5. /\ event1 \in Event /\ event1.e # "reset" /\ Sensible(event1) /\ event1.id = own
        /\ event2 \in Event /\ event2.e # "reset" /\ Sensible(event2) /\ event2.id = own
        /\ event2.fs = f
    BY <2>1, <2>2, <2>3, EventTypes DEF Sensible, Added, Removed
  <2> HIDE DEF event1, event2
  <2>6. events' \in AnnouncedBoth(events, event1, event2)
    BY <1>5, <2>2, <2>3 DEF event1, event2
  <2>7. told => Informs(events, events', own, f)
    BY <2>5, <2>6, BothInform DEF TypeInv
  <2>8. ~ told => events' = events
    BY <2>6 DEF AnnouncedBoth, Announced
  <2> QED BY <1>1, <1>2, <1>3, <2>4, <2>7, <2>8, HostInformed
<1> QED BY <1>4, <1>5 DEF CheckSlot

(* A reset makes the host forget the list.                                 *)
LEMMA HostReset ==
  ASSUME ~ MayTimeOut, TypeInv, HostInv, SendReset, listed' = listed, known' = known
  PROVE  HostInv'
<1>1. told' = FALSE /\ events' = Append(events, ResetEvent) /\ events \in Seq(Event)
  BY DEF SendReset, Sent, TypeInv
<1>2. /\ Len(events') = Len(events) + 1 /\ Len(events) \in Nat
      /\ \A i \in 1 .. Len(events) : events'[i] = events[i]
      /\ events'[Len(events) + 1] = ResetEvent
      /\ events' \in Seq(Event)
  BY <1>1, EventTypes, AppendProperties
<1>3. ResetEvent.e = "reset" /\ Sensible(ResetEvent)
  BY DEF ResetEvent, Sensible
<1>4. \A i \in 1 .. Len(events') : Sensible(events'[i])
  <2>1. \A i \in 1 .. Len(events') : i \in 1 .. Len(events) \/ i = Len(events) + 1
    BY <1>2
  <2> QED BY <1>2, <1>3, <2>1 DEF HostInv
<1>5. events' # <<>> /\ events'[Len(events')].e = "reset"
  <2>1. Len(events') # 0
    BY <1>2
  <2> QED BY <1>2, <1>3, <2>1
<1> QED BY <1>1, <1>4, <1>5 DEF HostInv

(* The rest of the loop, and the world.                                    *)
LEMMA HostRest ==
  ASSUME ~ MayTimeOut, TypeInv, SlotInv, HostInv,
         \/ FirstLoop \/ LoopStarts \/ LookAtDrive \/ DrivesDone \/ LoopEnds \/ FormatEnds
         \/ World \/ OpenSession \/ FormatStore \/ UNCHANGED vars
  PROVE  SlotInv' /\ HostInv'
<1>1. /\ UNCHANGED <<fs, fstype, minor, count, listed, known>>
      /\ new' = new /\ (pc' = pc \/ (pc # "announce" /\ pc' # "announce"))
  BY DEF FirstLoop, LoopStarts, LookAtDrive, DrivesDone, LoopEnds, FormatEnds, World,
    PlugDrive, UnplugDrive, FormatDrive, ChangeCard, OpenSession, FormatStore, vars, list,
    loopVars, host, Idle
<1>2. UNCHANGED <<told, events>> \/ SendReset
  BY DEF FirstLoop, LoopStarts, LookAtDrive, DrivesDone, LoopEnds, FormatEnds, World,
    PlugDrive, UnplugDrive, FormatDrive, ChangeCard, OpenSession, FormatStore, vars
<1>3. SlotInv'
  BY <1>1 DEF SlotInv
<1>4. \A id : (Pending(id)' <=> Pending(id)) /\ OfferedAt(id)' = OfferedAt(id)
  BY <1>1 DEF Pending, OfferedAt, StoreId
<1> QED BY <1>1, <1>2, <1>3, <1>4, HostWaits, HostReset

(* The list.                                                               *)
LEMMA OfferedIds ==
  ASSUME ListType
  PROVE  /\ DOMAIN Offered \subseteq Id
         /\ \A id \in DOMAIN Offered : Offered[id] = OfferedAt(id) /\ Offered[id] # NoFS
         /\ \A id \in Id : id \notin DOMAIN Offered => OfferedAt(id) = NoFS
<1>1. ASSUME NEW id \in DOMAIN Offered
      PROVE  id \in Id /\ Offered[id] = OfferedAt(id) /\ Offered[id] # NoFS
  <2>1. PICK k \in Store : id = <<k, minor[k]>> /\ fs[k] # NoFS /\ Offered[id] = fs[k]
    BY DEF Offered, StoreId, InUse
  <2> QED BY <2>1 DEF ListType, Id, OfferedAt
<1>2. ASSUME NEW id \in Id, id \notin DOMAIN Offered
      PROVE  OfferedAt(id) = NoFS
  <2>1. PICK k \in Store, v \in 0 .. MinorMod - 1 : id = <<k, v>>
    BY DEF Id
  <2>2. CASE minor[k] # v
    BY <2>1, <2>2 DEF OfferedAt
  <2>3. CASE minor[k] = v
    <3>1. k \notin InUse
      BY <1>2, <2>1, <2>3 DEF Offered, StoreId
    <3>2. fs[k] = NoFS
      <4>1. k \in Nat /\ count \in Nat
        BY Constants DEF ListType
      <4> QED BY <3>1, <4>1 DEF InUse, ListType
    <3> QED BY <2>1, <2>3, <3>2 DEF OfferedAt
  <2> QED BY <2>2, <2>3
<1> QED BY <1>1, <1>2

LEMMA HostLists ==
  ASSUME TypeInv, SlotInv, HostInv, GetStorageIDs
  PROVE  SlotInv' /\ HostInv'
<1>1. /\ known' = Offered /\ listed' = TRUE /\ told' = TRUE
      /\ UNCHANGED <<fs, fstype, minor, count, events, pc, new>>
  BY DEF GetStorageIDs, list, loopVars
<1>2. SlotInv'
  BY <1>1 DEF SlotInv
<1>3. /\ DOMAIN Offered \subseteq Id
      /\ \A id \in DOMAIN Offered : Offered[id] = OfferedAt(id) /\ Offered[id] # NoFS
      /\ \A id \in Id : id \notin DOMAIN Offered => OfferedAt(id) = NoFS
  BY OfferedIds DEF TypeInv
<1>4. \A id \in DOMAIN known' : known'[id] # NoFS
  BY <1>1, <1>3
<1>5. ASSUME NEW id \in Id, ~ Pending(id)'
      PROVE  WillKnow(id, OfferedAt(id))'
  <2>1. PICK f : f = OfferedAt(id)
    OBVIOUS
  <2>2. OfferedAt(id)' = f /\ KnownAt(id)' = f /\ ~ Pending(id)
    BY <1>1, <1>3, <1>5, <2>1 DEF OfferedAt, KnownAt, Pending, StoreId
  <2>3. Says(events, id, f)
    <3>1. CASE told
      BY <2>1, <2>2, <3>1 DEF HostInv, WillKnow
    <3>2. CASE ~ told
      <4> SUFFICES ASSUME NEW i \in 1 .. Len(events), About(events[i], id),
                          \A j \in i + 1 .. Len(events) : events[j].e # "reset"
                   PROVE  FALSE
        BY DEF Says
      <4>1. events # <<>> /\ Len(events) \in Nat
        BY DEF TypeInv
      <4>2. events[Len(events)].e = "reset"
        BY <3>2, <4>1 DEF HostInv
      <4>3. i = Len(events) \/ Len(events) \in i + 1 .. Len(events)
        BY <4>1
      <4> QED BY <4>2, <4>3 DEF About
    <3> QED BY <3>1, <3>2
  <2> QED BY <1>1, <2>2, <2>3 DEF WillKnow
<1> QED BY <1>1, <1>2, <1>4, <1>5 DEF HostInv

(* The host closes its session.                                            *)
LEMMA HostCloses ==
  ASSUME TypeInv, SlotInv, HostInv, CloseSession
  PROVE  SlotInv' /\ HostInv'
<1>1. /\ listed' = FALSE /\ DOMAIN known' = {}
      /\ UNCHANGED <<fs, fstype, minor, count, events, told, pc, new>>
  BY DEF CloseSession, HostForgets, NothingKnown, list, loopVars
<1>2. SlotInv'
  BY <1>1 DEF SlotInv
<1>3. ASSUME NEW id \in Id, ~ Pending(id)', told
      PROVE  WillKnow(id, OfferedAt(id))'
  <2>1. ~ Pending(id) /\ OfferedAt(id)' = OfferedAt(id)
    BY <1>1, <1>3 DEF Pending, OfferedAt, StoreId
  <2>2. Says(events, id, OfferedAt(id))
    BY <1>3, <2>1 DEF HostInv, WillKnow
  <2> QED BY <1>1, <2>1, <2>2 DEF WillKnow
<1> QED BY <1>1, <1>2, <1>3 DEF HostInv

(* It handles the next event: that says what it will know for good, or     *)
(* later events will say so.                                               *)
LEMMA HostHandles ==
  ASSUME TypeInv, SlotInv, HostInv, HandleEvent
  PROVE  SlotInv' /\ HostInv'
<1>1. /\ events # <<>> /\ events' = Tail(events)
      /\ UNCHANGED <<fs, fstype, minor, count, told, pc, new>>
  BY DEF HandleEvent, list, loopVars
<1>2. SlotInv'
  BY <1>1 DEF SlotInv
<1>3. PICK event \in Event : event = Head(events)
  BY <1>1, TailSays DEF TypeInv
<1>4. /\ events \in Seq(Event) /\ Len(events) \in Nat /\ Len(events) > 0
      /\ event = events[1] /\ Len(events') = Len(events) - 1
      /\ events' \in Seq(Event)
      /\ \A i \in 1 .. Len(events') : events'[i] = events[i + 1]
  BY <1>1, <1>3, HeadTailProperties, EmptySeq DEF TypeInv
<1>5. Sensible(event) /\ \A i \in 1 .. Len(events') : Sensible(events'[i])
  <2>1. \A i \in 1 .. Len(events') : i + 1 \in 1 .. Len(events)
    BY <1>4
  <2>2. 1 \in 1 .. Len(events)
    BY <1>4
  <2> QED BY <1>4, <2>1, <2>2 DEF HostInv
<1>6. \/ event.e = "reset" /\ listed' = FALSE /\ DOMAIN known' = {}
      \/ /\ event.e = "added" /\ listed' = listed
         /\ known' = [id \in DOMAIN known \cup {event.id} |->
                        IF id = event.id THEN event.fs ELSE known[id]]
      \/ /\ event.e = "removed" /\ listed' = listed
         /\ known' = [id \in DOMAIN known \ {event.id} |-> known[id]]
      \/ listed = FALSE /\ listed' = FALSE /\ known' = known
  <2>1. event.e \in {"added", "removed", "reset"} /\ listed \in BOOLEAN
    BY DEF Event, TypeInv, HostType
  <2> QED BY <1>3, <2>1 DEF HandleEvent, HostForgets, NothingKnown, host
<1>7. \A id \in DOMAIN known' : known'[id] # NoFS
  BY <1>5, <1>6 DEF HostInv, Sensible
<1>8. ~ told => /\ events' # <<>> => events'[Len(events')].e = "reset"
                /\ listed' => events' # <<>>
  <2> SUFFICES ASSUME ~ told
               PROVE  /\ events' # <<>> => events'[Len(events')].e = "reset"
                      /\ listed' => events' # <<>>
    OBVIOUS
  <2>1. events[Len(events)].e = "reset"
    BY <1>1 DEF HostInv
  <2>2. events' # <<>> => Len(events') \in 1 .. Len(events') /\ Len(events') + 1 = Len(events)
    BY <1>4, EmptySeq
  <2>3. events' = <<>> => Len(events) = 1
    BY <1>4
  <2>4. events' = <<>> => listed' = FALSE
    BY <1>4, <1>6, <2>1, <2>3
  <2> QED BY <1>4, <2>1, <2>2, <2>4
<1>9. ASSUME NEW id \in Id, ~ Pending(id)', told
      PROVE  WillKnow(id, OfferedAt(id))'
  <2>1. PICK f : f = OfferedAt(id)
    OBVIOUS
  <2>2. WillKnow(id, f) /\ OfferedAt(id)' = f
    BY <1>1, <1>9, <2>1 DEF HostInv, Pending, OfferedAt, StoreId
  <2>3. Says(events', id, f)
    <3> SUFFICES ASSUME NEW i \in 1 .. Len(events'), About(events'[i], id),
                        \A j \in i + 1 .. Len(events') : events'[j].e # "reset" /\ events'[j].id # id
                 PROVE  events'[i].fs = f
      BY DEF Says
    <3>1. i + 1 \in 1 .. Len(events)
      BY <1>4
    <3>2. ASSUME NEW j \in (i + 1) + 1 .. Len(events)
          PROVE  events[j].e # "reset" /\ events[j].id # id
      <4>1. /\ j - 1 \in i + 1 .. Len(events') /\ j - 1 \in 1 .. Len(events')
            /\ (j - 1) + 1 = j
        BY <1>4
      <4> QED BY <1>4, <4>1
    <3> QED BY <1>4, <2>2, <3>1, <3>2 DEF WillKnow, Says
  <2>4. ASSUME listed', Silent(events', id)
        PROVE  KnownAt(id)' = f
    <3>1. \A i \in 2 .. Len(events) : events[i].e # "reset" /\ events[i].id # id
      <4> SUFFICES ASSUME NEW i \in 2 .. Len(events)
                   PROVE  events[i].e # "reset" /\ events[i].id # id
        OBVIOUS
      <4>1. i - 1 \in 1 .. Len(events') /\ (i - 1) + 1 = i
        BY <1>4
      <4> QED BY <1>4, <2>4, <4>1 DEF Silent
    <3>2. event.e # "reset" /\ listed
      BY <1>6, <2>4
    <3>3. CASE event.id = id
      <4>1. event.fs = f
        <5>1. 1 \in 1 .. Len(events) /\ About(events[1], id)
          BY <1>4, <3>2, <3>3 DEF About
        <5> QED BY <1>4, <2>2, <3>1, <5>1 DEF WillKnow, Says
      <4> QED BY <1>5, <1>6, <2>4, <3>2, <3>3, <4>1 DEF KnownAt, Sensible
    <3>4. CASE event.id # id
      <4>1. \A i \in 1 .. Len(events) : i = 1 \/ i \in 2 .. Len(events)
        BY <1>4
      <4>2. Silent(events, id)
        BY <1>4, <3>1, <3>2, <3>4, <4>1 DEF Silent
      <4>3. KnownAt(id) = f
        BY <2>2, <3>2, <4>2 DEF WillKnow
      <4> QED BY <1>6, <2>4, <3>2, <3>4, <4>3 DEF KnownAt
    <3> QED BY <3>3, <3>4
  <2> QED BY <2>2, <2>3, <2>4 DEF WillKnow
<1> QED BY <1>1, <1>2, <1>5, <1>7, <1>8, <1>9 DEF HostInv

(* A host that has asked for the storages and handled all events knows     *)
(* those the device has and no others, if no event had to wait in vain.    *)
THEOREM HostKnowsAlways ==
  ASSUME ~ MayTimeOut
  PROVE  Spec => []HostKnows
<1>1. Init => SlotInv /\ HostInv
  <2> SUFFICES ASSUME Init PROVE SlotInv /\ HostInv
    OBVIOUS
  <2>1. events = <<>> /\ Len(events) = 0 /\ told = FALSE /\ listed = FALSE
        /\ DOMAIN known = {} /\ pc = "idle" /\ \A k \in Store : fstype[k] = "unknown"
    BY DEF Init, NothingKnown
  <2> QED BY <2>1 DEF SlotInv, HostInv
<1>2. SlotInv /\ HostInv /\ TypeInv /\ MapInv /\ [Next]_vars => SlotInv' /\ HostInv'
  BY HostSketch, HostCheckDrive, HostCheckSlot, HostRest, HostLists, HostCloses, HostHandles
  DEF Next, Program, HostActs
<1>3. Init => MapInv
  <2> SUFFICES ASSUME Init PROVE MapInv
    OBVIOUS
  <2>1. \A d \in Drive, k \in Store : d # NoFS /\ k # NoStore
    BY Constants
  <2> QED BY <2>1 DEF Init, MapInv, LookedAt
<1>4. MapInv /\ TypeInv /\ [Next]_vars => MapInv'
  BY MapNext
<1>5. TypeInv /\ HostInv => HostKnows
  <2> SUFFICES ASSUME TypeInv, HostInv, Idle, events = <<>>, listed
               PROVE  known = Offered
    BY DEF HostKnows
  <2>1. \A id \in Id : KnownAt(id) = OfferedAt(id)
    <3>1. told /\ \A id : ~ Pending(id)
      BY DEF HostInv, Idle, Pending
    <3>2. \A id : Silent(events, id)
      BY DEF Silent
    <3> QED BY <3>1, <3>2 DEF HostInv, WillKnow
  <2>2. /\ DOMAIN Offered \subseteq Id
        /\ \A id \in DOMAIN Offered : Offered[id] = OfferedAt(id) /\ Offered[id] # NoFS
        /\ \A id \in Id : id \notin DOMAIN Offered => OfferedAt(id) = NoFS
    BY OfferedIds DEF TypeInv
  <2>3. /\ DOMAIN known \subseteq Id /\ \A id \in DOMAIN known : known[id] # NoFS
        /\ known = [id \in DOMAIN known |-> known[id]]
    BY DEF TypeInv, HostType, HostInv
  <2>4. DOMAIN known = DOMAIN Offered /\ \A id \in DOMAIN known : known[id] = Offered[id]
    BY <2>1, <2>2, <2>3 DEF KnownAt
  <2>5. Offered = [id \in DOMAIN Offered |-> Offered[id]]
    BY DEF Offered
  <2> QED BY <2>3, <2>4, <2>5
<1> QED BY <1>1, <1>2, <1>3, <1>4, <1>5, TypeInvAlways, PTL DEF Spec
=============================================================================
