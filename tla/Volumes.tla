------------------------------ MODULE Volumes ------------------------------
(***************************************************************************)
(* Which storages the device offers and which the host knows: the list of  *)
(* file systems in MTP_Storage.cpp, its callbacks for USB drives and SD    *)
(* cards, the events of MTP_Teensy.cpp, and the commands of a session that *)
(* an interval timer answers until the program first calls loop.           *)
(***************************************************************************)
EXTENDS Naturals, Sequences, FiniteSets

CONSTANTS
  MaxFS,       \* MTPD_MAX_FILESYSTEMS
  Drives,      \* the USB file systems, in the order of nextFS
  Cards,       \* the SD file systems
  Others,      \* file systems that are added and removed by the sketch
  NoFS,        \* nullptr
  MinorMod,    \* 256, the range of store_storage_minor_index_
  MaxChanges,  \* drives and cards that come, go or are formatted
  MayTimeOut   \* whether an event may wait in vain for the one before it

Drive == {Drives[i] : i \in DOMAIN Drives}
FS    == Drive \cup Cards \cup Others

ASSUME StoresAssumption ==
  /\ MaxFS \in Nat \ {0}
  /\ Cardinality(FS) <= MaxFS
  /\ NoFS \notin FS
  /\ Drives \in Seq(Drive) /\ Drive \cap (Cards \cup Others) = {} /\ Cards \cap Others = {}
ASSUME MinorAssumption  == MinorMod \in Nat \ {0, 1}
ASSUME BoundAssumption  == MaxChanges \in Nat /\ MayTimeOut \in BOOLEAN

VARIABLES
  fs,          \* fs[] and name[]: the file system in each slot, or NoFS
  fstype,      \* fstype_[]
  minor,       \* store_storage_minor_index_[]
  count,       \* fsCount
  prev,        \* media_present_prev_[]: "unknown", "in" or "out"
  map,         \* s_map_fs_mtp: the store_id of a drive, or NoStore
  told,        \* storage_ids_sent_
  events,      \* events the host has not handled yet
  timer,       \* the interval timer runs: loop has not been called yet
  pc,          \* where the program is: in addFilesystem or storage_.loop()
  new,         \* the slot addFilesystem has just filled
  at,          \* the drive or slot that loop looks at next
  reset,       \* storage_.loop() will return true
  found,       \* what loop found that drive to be: "came", "gone", "formatted"
  missed,      \* history: the drives of which a change was erased unseen
  here,        \* the drives that are plugged in and the slots' media
  change,      \* stateChanged() of each drive
  any,         \* anyFSChangedState()
  changes,     \* how often anything came or went
  session,     \* the host's session is open
  listed,      \* the host has asked for the storage ids in it
  known        \* the storages it knows: which id stands for which

list   == <<fs, fstype, minor, count>>
loopVars == <<pc, new, at, reset>>
look   == <<found, missed>>
world  == <<here, change, any, changes>>
host   == <<session, listed, known>>
vars   == <<list, prev, map, told, events, timer, loopVars, look, world, host>>

-----------------------------------------------------------------------------
(* The list of storages.                                                   *)

Store   == 0 .. MaxFS - 1
NoStore == MaxFS                    \* 0xFFFFFFFF

StoreId(k) == <<k, minor[k]>>       \* Store2Storage
InUse      == {k \in Store : k < count /\ fs[k] # NoFS}
HolderOf(f) == CHOOSE k \in Store : fs[k] = f
IsListed(f) == \E k \in Store : fs[k] = f

\* What GetStorageIDs answers, as the host takes it.
Offered == [id \in {StoreId(k) : k \in InUse} |-> fs[id[1]]]

TypeOf(f) == IF f \in Cards THEN "SD" ELSE "unknown"

FaultyNextMinor(k) == minor[k]      \* a slot keeps its minor index
NextMinor(k) == (minor[k] + 1) % MinorMod

\* MTPStorage::addFilesystem of a file system that finds a slot k: a new one
\* while there are any, then the first that was freed, with another minor index.
PutInSlot(f, k) ==
  \/ /\ count < MaxFS
     /\ k = count
     /\ fs' = [fs EXCEPT ![k] = f]
     /\ fstype' = [fstype EXCEPT ![k] = TypeOf(f)]
     /\ minor' = [minor EXCEPT ![k] = 1]
     /\ count' = count + 1
  \/ /\ count = MaxFS
     /\ fs[k] = NoFS /\ \A j \in Store : fs[j] = NoFS => k <= j
     /\ fs' = [fs EXCEPT ![k] = f]
     /\ minor' = [minor EXCEPT ![k] = NextMinor(k)]
     /\ UNCHANGED <<fstype, count>>

\* The list shrinks with every removal.
FaultyClearSlot(k) ==
  /\ fs' = [fs EXCEPT ![k] = NoFS]
  /\ count' = count - 1
  /\ UNCHANGED <<fstype, minor>>

\* removeFilesystem.
ClearSlot(k) ==
  /\ fs' = [fs EXCEPT ![k] = NoFS]
  /\ UNCHANGED <<fstype, minor, count>>

-----------------------------------------------------------------------------
(* Events.  The host is told a storage's id; which file system it stands   *)
(* for at that moment goes with it here.                                   *)

Added(id, f) == [e |-> "added", id |-> id, fs |-> f]
Removed(id)  == [e |-> "removed", id |-> id, fs |-> NoFS]
ResetEvent   == [e |-> "reset", id |-> <<0, 0>>, fs |-> NoFS]

\* What send_Event can make of queue q: the event may be dropped if another one
\* is still waiting.  The result does not say so: it is 0, not negative.
Sent(q, event) ==
  {Append(q, event)} \cup IF MayTimeOut /\ q # <<>> THEN {q} ELSE {}

\* Stores are announced until the host has asked for their ids, not after.
FaultyAnnounced(q, event) == IF told THEN {q} ELSE Sent(q, event)

\* send_StoreAddedEvent, send_StoreRemovedEvent: only to a host that has the
\* list.
Announced(q, event) == IF told THEN Sent(q, event) ELSE {q}
AnnouncedBoth(q, event1, event2) ==
  UNION {Announced(r, event2) : r \in Announced(q, event1)}

-----------------------------------------------------------------------------
(* The sketch.                                                             *)

Idle == pc = "idle"

\* MTP_class::addFilesystem: the timer may answer commands before the event.
\* SD cards are added in setup(), and never removed.
AddFilesystem ==
  \E f \in Cards \cup Others, k \in Store :
    /\ Idle
    /\ ~ IsListed(f)
    /\ f \in Cards => timer
    /\ PutInSlot(f, k)
    /\ new' = k
    /\ pc' = "announce"
    /\ UNCHANGED <<prev, map, told, events, timer, at, reset, look, world, host>>

AnnounceNew ==
  /\ pc = "announce"
  /\ events' \in Announced(events, Added(StoreId(new), fs[new]))
  /\ pc' = "idle"
  /\ new' = 0
  /\ UNCHANGED <<list, prev, map, told, timer, at, reset, look, world, host>>

\* The event and removeFilesystem, in the order the example sketches have.
RemoveFilesystem ==
  \E f \in Others :
    /\ Idle /\ ~ timer
    /\ changes < MaxChanges /\ changes' = changes + 1
    /\ IsListed(f)
    /\ events' \in Announced(events, Removed(StoreId(HolderOf(f))))
    /\ ClearSlot(HolderOf(f))
    /\ UNCHANGED <<prev, map, told, timer, loopVars, look, here, change, any, host>>

FirstLoop ==
  /\ Idle /\ timer
  /\ timer' = FALSE
  /\ UNCHANGED <<list, prev, map, told, events, loopVars, look, world, host>>

-----------------------------------------------------------------------------
(* MTPStorage::loop: the callback for all USB drives, then the one for each *)
(* SD card.  Drives and cards come and go meanwhile.                        *)

Skip == UNCHANGED <<list, map, events, reset>>

LoopStarts ==
  /\ Idle /\ ~ timer
  /\ any' = FALSE
  /\ pc' = "drives"
  /\ at' = IF any THEN 1 ELSE Len(Drives) + 1
  /\ UNCHANGED <<list, prev, map, told, events, timer, new, reset, look, here, change, changes, host>>

\* A drive that was plugged in: addFilesystem announces it, then the callback
\* does so again.
DriveCame(d) ==
  /\ \E k \in Store :
       /\ PutInSlot(d, k)
       /\ map' = [map EXCEPT ![d] = k]
       /\ events' \in AnnouncedBoth(events, Added(<<k, minor'[k]>>, d), Added(<<k, minor'[k]>>, d))
  /\ UNCHANGED reset

DriveFormatted(d) ==
  /\ reset' = (reset \/ map[d] # NoStore)
  /\ UNCHANGED <<list, map, events>>

\* The store of a drive that is gone is announced gone and stays in the map.
FaultyDriveWent(d) ==
  /\ map[d] # NoStore
  /\ events' \in Announced(events, Removed(StoreId(map[d])))
  /\ ClearSlot(map[d])
  /\ UNCHANGED <<map, reset>>

DriveWent(d) ==
  /\ map[d] # NoStore
  /\ events' \in Announced(events, Removed(StoreId(map[d])))
  /\ ClearSlot(map[d])
  /\ map' = [map EXCEPT ![d] = NoStore]
  /\ UNCHANGED reset

Found(d) ==
  CASE d \notin here         -> "gone"
    [] change[d] = "format"  -> "formatted"
    [] OTHER                 -> "came"

\* stateChanged(), and *pusbfs a few instructions later.
LookAtDrive ==
  /\ pc = "drives" /\ at <= Len(Drives)
  /\ \E d \in {Drives[at]} :
       \/ change[d] = "none" /\ at' = at + 1 /\ UNCHANGED <<pc, found>>
       \/ change[d] # "none" /\ pc' = "drive" /\ found' = Found(d) /\ UNCHANGED at
  /\ UNCHANGED <<list, prev, map, told, events, timer, new, reset, missed, world, host>>

\* Drive d is being looked at.
LookedAt(d) == pc = "drive" /\ d = Drives[at]

\* The drives of which stateChanged(0) erases, or has erased, a change that was
\* not seen: d is not any more, or again, what it was found to be.
Missing(d) ==
  LET before == IF found = "formatted" THEN missed ELSE missed \ {d}
  IN  IF d \in here <=> found \in {"came", "formatted"} THEN before ELSE before \cup {d}

\* The rest of the callback, in which drive d may have gone or come back: it
\* reads the volume's label and waits for events before it clears the state.
CheckDrive ==
  /\ pc = "drive"
  /\ \E d \in {Drives[at]} :
       /\ CASE found = "formatted"                       -> DriveFormatted(d)
            [] found = "came"                            -> DriveCame(d)
            [] found = "gone" /\ map[d] # NoStore        -> DriveWent(d)
            [] OTHER                                     -> Skip
       /\ change' = [change EXCEPT ![d] = "none"]
       /\ missed' = Missing(d)
  /\ at' = at + 1 /\ pc' = "drives" /\ found' = "none"
  /\ UNCHANGED <<prev, told, timer, new, here, any, changes, host>>

\* The flag of all drives is cleared when they have been looked at.
FaultyDrivesDone ==
  /\ pc = "drives" /\ at > Len(Drives)
  /\ pc' = "cards"
  /\ at' = 0
  /\ any' = FALSE
  /\ UNCHANGED <<list, prev, map, told, events, timer, new, reset, look, here, change, changes, host>>

DrivesDone ==
  /\ pc = "drives" /\ at > Len(Drives)
  /\ pc' = "cards"
  /\ at' = 0
  /\ UNCHANGED <<list, prev, map, told, events, timer, new, reset, look, world, host>>

\* checkMediaPresent: nothing is announced the first time.
Media(k) == IF fs[k] \in here THEN "in" ELSE "out"

CheckSlot ==
  /\ pc = "cards" /\ at < count
  /\ IF fstype[at] # "SD"
       THEN UNCHANGED <<prev, events, reset>>
       ELSE /\ prev' = [prev EXCEPT ![at] = Media(at)]
            /\ IF prev[at] \in {"unknown", Media(at)}
                 THEN UNCHANGED <<events, reset>>
                 ELSE /\ events' \in AnnouncedBoth(events, Removed(StoreId(at)),
                                                         Added(StoreId(at), fs[at]))
                      /\ reset' = TRUE
  /\ at' = at + 1
  /\ UNCHANGED <<list, map, told, timer, pc, new, look, world, host>>

\* send_DeviceResetEvent.
SendReset ==
  /\ told' = FALSE
  /\ events' \in Sent(events, ResetEvent)

LoopEnds ==
  /\ pc = "cards" /\ at >= count
  /\ pc' = "idle"
  /\ at' = 0
  /\ IF reset THEN SendReset ELSE UNCHANGED <<told, events>>
  /\ reset' = FALSE
  /\ UNCHANGED <<list, prev, map, timer, new, look, world, host>>

-----------------------------------------------------------------------------
(* Drives and cards.  A drive that went is not back before that was noticed: *)
(* before the callback found it gone, or, when it overlooked that, ever.     *)

NoticedGone(d) ==
  IF LookedAt(d) THEN found = "gone" ELSE change[d] = "none" /\ map[d] = NoStore

Happens == changes < MaxChanges /\ changes' = changes + 1

DriveChanges(d, h, c) ==
  /\ here' = h
  /\ change' = [change EXCEPT ![d] = c]
  /\ any' = TRUE

PlugDrive ==
  /\ Happens
  /\ \E d \in Drive \ here :
       /\ NoticedGone(d)
       /\ DriveChanges(d, here \cup {d}, "connection")
  /\ UNCHANGED <<list, prev, map, told, events, timer, loopVars, look, host>>

UnplugDrive ==
  /\ Happens
  /\ \E d \in Drive \cap here : DriveChanges(d, here \ {d}, "connection")
  /\ UNCHANGED <<list, prev, map, told, events, timer, loopVars, look, host>>

\* By the sketch, of a drive it knows.
FormatDrive ==
  /\ Idle /\ ~ timer
  /\ Happens
  /\ \E d \in Drive \cap here :
       /\ change[d] = "none"
       /\ DriveChanges(d, here, "format")
  /\ UNCHANGED <<list, prev, map, told, events, timer, loopVars, look, host>>

ChangeCard ==
  /\ Happens
  /\ \E f \in Cards : here' = IF f \in here THEN here \ {f} ELSE here \cup {f}
  /\ UNCHANGED <<list, prev, map, told, events, timer, loopVars, look, change, any, host>>

-----------------------------------------------------------------------------
(* The host, and the commands it sends.                                    *)

\* By the timer between any two steps of the program or while it formats, or by
\* loop.
CanAnswer == timer \/ Idle \/ pc = "format"

NothingKnown == [id \in {} |-> NoFS]

OpenSession ==
  /\ CanAnswer /\ ~ session
  /\ session' = TRUE
  /\ UNCHANGED <<list, prev, map, told, events, timer, loopVars, look, world, listed, known>>

GetStorageIDs ==
  /\ CanAnswer /\ session
  /\ known' = Offered
  /\ listed' = TRUE
  /\ told' = TRUE
  /\ UNCHANGED <<list, prev, map, events, timer, loopVars, look, world, session>>

HostForgets == session' = FALSE /\ listed' = FALSE /\ known' = NothingKnown

\* The timer answers that the device is busy.
CloseSession ==
  /\ Idle /\ ~ timer /\ session
  /\ Happens
  /\ HostForgets
  /\ UNCHANGED <<list, prev, map, told, events, timer, loopVars, look, here, change, any>>

\* The timer runs while the store is formatted; loop then sends the reset, unless
\* the store could not be formatted.
FormatStore ==
  /\ Idle /\ ~ timer /\ session
  /\ Happens
  /\ pc' = "format"
  /\ UNCHANGED <<list, prev, map, told, events, timer, new, at, reset, look, here, change, any, host>>

FormatEnds ==
  /\ pc = "format"
  /\ SendReset \/ UNCHANGED <<told, events>>
  /\ pc' = "idle"
  /\ UNCHANGED <<list, prev, map, timer, new, at, reset, look, world, host>>

HandleEvent ==
  /\ events # <<>>
  /\ events' = Tail(events)
  /\ \E event \in {Head(events)} :
       CASE event.e = "reset"             -> HostForgets
         [] event.e = "added" /\ listed   ->
              /\ known' = [id \in DOMAIN known \cup {event.id} |->
                             IF id = event.id THEN event.fs ELSE known[id]]
              /\ UNCHANGED <<session, listed>>
         [] event.e = "removed" /\ listed ->
              /\ known' = [id \in DOMAIN known \ {event.id} |-> known[id]]
              /\ UNCHANGED <<session, listed>>
         [] OTHER                         -> UNCHANGED host
  /\ UNCHANGED <<list, prev, map, told, timer, loopVars, look, world>>

-----------------------------------------------------------------------------
Init ==
  /\ fs = [k \in Store |-> NoFS]
  /\ fstype = [k \in Store |-> "unknown"]
  /\ minor = [k \in Store |-> 0]
  /\ count = 0
  /\ prev = [k \in Store |-> "unknown"]
  /\ map = [d \in Drive |-> NoStore]
  /\ told = FALSE /\ events = <<>> /\ timer = TRUE
  /\ pc = "idle" /\ new = 0 /\ at = 0 /\ reset = FALSE
  /\ found = "none" /\ missed = {}
  /\ here \in SUBSET Cards
  /\ change = [d \in Drive |-> "none"] /\ any = FALSE /\ changes = 0
  /\ session = FALSE /\ listed = FALSE /\ known = NothingKnown

Program ==
  \/ AddFilesystem \/ AnnounceNew \/ RemoveFilesystem \/ FirstLoop
  \/ LoopStarts \/ LookAtDrive \/ CheckDrive \/ DrivesDone \/ CheckSlot \/ LoopEnds
  \/ FormatEnds

World == PlugDrive \/ UnplugDrive \/ FormatDrive \/ ChangeCard

HostActs == OpenSession \/ GetStorageIDs \/ CloseSession \/ FormatStore \/ HandleEvent

Next == Program \/ World \/ HostActs

\* The program leaves setup() and calls loop again and again; the host opens a
\* session, asks for the storages and handles the events it gets.
LoopStep ==
  \/ FirstLoop \/ AnnounceNew \/ FormatEnds
  \/ LoopStarts \/ LookAtDrive \/ CheckDrive \/ DrivesDone \/ CheckSlot \/ LoopEnds

Spec ==
  /\ Init /\ [][Next]_vars
  /\ WF_vars(LoopStep)
  /\ SF_vars(OpenSession) /\ SF_vars(GetStorageIDs /\ ~ listed) /\ WF_vars(HandleEvent)

-----------------------------------------------------------------------------
(* Properties.                                                             *)

\* Everything stays in its type, and nothing is behind the end of the list.
TypeOK ==
  /\ fs \in [Store -> FS \cup {NoFS}]
  /\ fstype \in [Store -> {"unknown", "SD"}]
  /\ minor \in [Store -> 0 .. MinorMod - 1]
  /\ count \in 0 .. MaxFS
  /\ \A k \in Store : k >= count => fs[k] = NoFS
  /\ prev \in [Store -> {"unknown", "in", "out"}]
  /\ map \in [Drive -> Store \cup {NoStore}]
  /\ told \in BOOLEAN /\ timer \in BOOLEAN /\ reset \in BOOLEAN /\ any \in BOOLEAN
  /\ session \in BOOLEAN /\ listed \in BOOLEAN
  /\ pc \in {"idle", "announce", "drives", "drive", "cards", "format"}
  /\ found \in {"none", "came", "gone", "formatted"} /\ missed \subseteq Drive
  /\ new \in Store
  /\ here \subseteq FS
  /\ change \in [Drive -> {"none", "connection", "format"}]
  /\ changes \in 0 .. MaxChanges
  /\ DOMAIN known \subseteq Store \X (0 .. MinorMod - 1)

\* The callback's map and the list of storages agree: a drive is in the slot the
\* map says and in no other, or in none and not in the map.
MapAgrees ==
  \A d \in Drive : {k \in Store : fs[k] = d} = {map[d]} \ {NoStore}

\* A storage id the host knows never stands for another file system than the
\* one it was given for (store_storage_minor_index_, for any delay of events).
IdMeansOneDisk ==
  \A id \in DOMAIN known \cap DOMAIN Offered : known[id] = Offered[id]

\* A host that has asked for the storages and handled all events knows those
\* the device has, and no others (storage_ids_sent_, the events, the resets).
HostKnows ==
  (Idle /\ events = <<>> /\ listed) => known = Offered

\* When nothing comes or goes any more, all drives that are plugged in get into
\* the list, the others out of it, and the host gets to know: but for a drive that
\* came or went while the callback dealt with an earlier change of it.
HostLearns ==
  <>[](known = Offered /\ \A d \in Drive \ missed : d \in here <=> IsListed(d))

\* MTP_USBFS_Callbacks.cpp: a drive that "went away" is removed from the list.
\* stateChanged(0) at the end erases a removal that came after it was looked at.
RemovalSeen ==
  \A d \in Drive \ here : IsListed(d) => change[d] = "connection"

\* src/src/MTP_USBFS_Callbacks.cpp:120: an event that returned 0 was not needed,
\* since the stores have not been enumerated.
UntoldNotEnumerated ==
  (Idle /\ events = <<>> /\ listed) => DOMAIN Offered \subseteq DOMAIN known
=============================================================================
