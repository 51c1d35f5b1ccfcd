# Verification of MTP_Teensy

MTP_Teensy makes a Teensy microcontroller an MTP responder: a host lists, reads,
writes, renames, moves, copies and deletes objects on file systems that a sketch
offers (SD cards, USB drives, flash and RAM disks). This directory holds TLA+
models of the library, the TLC runs that check them on small instances, and
proofs, checked by TLAPS, of what holds for instances of every size.

File names below are relative to `src/src/`: `S` is `MTP_Storage.cpp`, `H` is
`MTP_Storage.h`, `T` is `MTP_Teensy.cpp`, `TH` is `MTP_Teensy.h`, `SD` is
`MTP_SD_Callbacks.cpp` and `UF` is `MTP_USBFS_Callbacks.cpp`. `PROJECT.json` maps
every definition to its lines.

## 1. The system

All code of the library runs in one thread, the sketch's `loop()`, but for an
interval timer that answers the host before the first call of `MTP.loop()` and
during a format. A sketch shares the file systems with the library, and one of
them, mtp-logger, adds an interrupt of its own.
The host talks over three USB pipes: commands and data in, data and responses
out, events out. A cancel arrives as a control request and only sets a status.

| component | state | operations | what makes it correct |
|---|---|---|---|
| index record store and block cache (`S` 319-382, 429-883) | blocks of packed records, four cached in RAM, the rest in a file; entry count; cycle counter; arrays for the roots | open, close, reset, generate; append, write, read a record | a map from handles to records: nothing lost, doubled or shifted by caching, spilling and reading back; handles increase |
| memory index file (`S` 109-306) | a piece of the heap, its size, a position | open, write, read, seek, close | behaves as a file, whatever the heap does; owns one piece or none |
| object index and tree operations (`S` 796-1695, 1752-1852) | records linked as parent, first child, sibling; one open file `file_` | scan, list, create, write, read, close, delete, rename, move, copy, map a path to a handle | a handle keeps denoting its object; the index agrees with the stores |
| storage list (`S` 1698-1749) | slots with file system, name, type, minor index | add, remove; storage ids | an id never stands for two disks |
| device loop and callbacks (`S` 1877-1927, `SD`, `UF`) | media present before, map of drives to slots, change flags | poll every 500 ms, call the callbacks | no insertion or removal is lost; list and map agree |
| responder (`T` 82-354, 687-709, 1299-1303) | session, status, container | take a command, dispatch it, answer; timer; format | one response a command; status recovers from a cancel |
| data phase (`T` 386-502, 576-642, 1315-1628) | receive and transmit buffers, `object_id_`, `write_transfer_open` | read, write, receive and transmit packets, SendObject, GetObject | data in order and complete, or reported as failed; nothing left for the next command |
| metadata commands (`T` 513-569, 724-1296) | none of their own; `transmit_buffer` | device, storage, object and property datasets | the lengths announced are those written, also over the end of a packet and after a cancel |
| strings (`T` 1324-1355, 1435-1491) | none | UTF-8 to UTF-16 and back | what is stored ends; what is announced is written; names come back |
| events (`T` 1640-1875) | `storage_ids_sent_`, one transfer | announce stores, objects, resets | the host's picture follows the device's |
| logger sketches (`examples/`, sixteen) | the open `dataFile`, the selected store, a count of lines | commands typed: start, stop, dump, select, list, erase, format, reset; log a line; watch media | no line is lost unnoticed; the host sees the log as it is |
| mtp-logger (`examples/mtp-logger`) | a ring of blocks, the open file, two state machines | a timer interrupt that fills the ring; file, change files, stop | blocks are filed in order, each accounted for; it stops when told |
| dates, debug output, the other examples | | | not modelled |

How they interact. The responder calls the object index for commands on
objects, which calls the record store for each record and the file systems for
the contents. The data phase calls the object index for writes and reads, and
the bulk endpoints. The device loop calls the callbacks, which call the storage
list and the events; a reset event makes the host open a new session, whose
OpenSession resets the index. The timer runs the responder's simpler commands on
the same buffers and lists.

What is hard: a cache that must spill blocks in file order; links that every
tree operation rewrites while names on the store change; one `file_` that all
operations share; transfers given up by either side between two packets, with
data still under way; slots that are reused while the host still uses old ids;
flags that are cleared while what they stand for goes on changing. The section
"hazards" of `PROJECT.json` lists each at its line.

## 2. Modules and what they correspond to

**IndexStore** is what the record store promises: a map from handles to records
that grows at its end, is read and written by handle and may be discarded.

**IndexCache** is the code of the record store. The variable `cache` is a record
of the arrays `recordBlocks_`, `recordBlocksInfo_`, the cycle counter,
`maxrecordBlockWritten_` and the index file; `root` is `store_first_child_` and
`store_scanned_`; `entries` is `index_entries_`. CacheRecordBlock is an operator
on `cache`, as in the code every operation calls it: Tick advances the cycle,
Claim takes a slot that holds the block or none, Replace writes a victim out,
with the blocks that belong before it in the file, and reads the wanted one. A
record is an abstract value with a size.

**RecordLayout** is one block's bytes: fixed part, name and NUL, one record after
the other. A byte is a pair of what it belongs to and its position in it.

**ObjectTree** is what a host is promised about handles: a handle denotes one
place on a store, no other does, and it follows its object through renames and
moves.

**ObjectIndex** is the code of the object index. `m` holds the stores' contents
(`disk`), the records (`recs`), `all_scanned_`, `file_` with its mode and handle,
and whether a search for a sibling would run for ever. Every command of the host
that reaches the index is one action, composed of the operators that stand for
the functions it calls, in their order. `recs` is IndexStore's map.

What MapFileNameToIndex does for a sketch that announces an object it has made is
an action too, between any two commands.

**IndexFile** is what the record store takes a file to be; **MemIndexFile** is the one
in memory, on a heap that may refuse memory or move it, and implements it.

**DataPhase** is what a host is promised that asks for a dataset: the bytes announced,
in full packets and a short one, then a response in a packet of its own.
**Datasets** is the code behind it: each of the eleven commands with the length it
announces and the lengths of the fields it writes, `write`, `write_finish`, `transmit_bulk`,
the response of `loop` or of the interval timer, and a host that cancels at any
point. A field is its length; packets remember whose bytes are in them.

**MtpStrings** is readstring and writestring, a unit or a byte a step, from a host's
units to the buffer and back, or from the bytes of a file system's name.

**DataLoggers** is the sketches that log: a record per sketch says which stores
it sets up, whether `loop` lets the responder run, what selecting a store checks and
which commands end with an event (`SimpleSetup`, `SimpleLoop`, `SimpleFiles` and so
on); the actions are common to all of them. The library behind them is what the
sketch can see of it: the list of stores and a host that looks and deletes.

**MtpLogger** is one sketch with a ring buffer; the interrupt comes between any
two steps of the loop, also inside `pullData`.

**Transfer** is the responder with its data phases, one packet at a time, on a
Teensy 4: `MTP_class::loop`, SendObjectInfo, SendObject, GetObject,
GetPartialObject, `read`, `write`, `write_finish` and the bulk functions, against
a host with a program of its own: it asks, sends packets, pauses, stops or
cancels, and takes the answer. `pc` names the place in the code the device is at.
One unit of length is the 12 bytes of a container's header.

**Volumes** is the storage list, the device loop, both callbacks, the events and
the interval timer, with a host that lists storages and handles events late.
Drives and cards change between any two steps of the loop, and the callback deals with
a drive in two: LookAtDrive finds out what became of it (`found`; `UF` 78, 93), and
CheckDrive does the rest, up to the `stateChanged(0)` at line 140, which erases whatever
came meanwhile. `missed` is no state of the program: it remembers the drives of which a
change was erased unseen. The model adds to an event the file system the device means by
it, so that a host's idea of an id can be compared with the device's.

**IndexCacheProofs**, **BytesProofs** (of RecordLayout, MemIndexFile and MtpStrings),
**ObjectIndexLemmas** and **ObjectIndexProofs**, **VolumesProofs**, **TransferProofs**,
**DatasetsProofs** and **LoggersProofs** (of DataLoggers and MtpLogger) have the theorems of
section 5, each with the facts about numbers it needs. **MCIndexCache**,
**MCRecordLayout**, **MCObjectIndex** and **MCVolumes** define the instances that
TLC runs; the other modules need none.

Operators whose names begin with `Faulty` are seeded faults, each a plausible bug
in the definition it precedes. With one put in place of that definition, the
property that `PROJECT.json` pairs it with fails in its run. They are part of no
specification.

## 3. Runs

| run | checks | instance | distinct states |
|---|---|---|---|
| `index_cache` | TypeOK, OneCopy, UnusedLast, CleanIsSpilled, UnwrittenIsCached, CountsAgree, VictimExists; IndexCache implements IndexStore | 2 slots, 2 records a block, 3 blocks, 1 root, counter modulo 3, one record written | 38,497 |
| `record_layout` | TypeOK, ReadsBack | 26 bytes, 3 records, names of 1, 3 and 4 characters | 1,291 |
| `memory_file` | OwnsItsMemory; MemIndexFile implements IndexFile | 2 pieces of memory, files of up to 4 bytes | 7,998 |
| `object_tree` | Linked, SizeAgrees, NeverHangs; ObjectIndex implements ObjectTree | 2 stores, 3 names, 3 sizes, handles to 7, 2 changing commands | 111,493 |
| `transfer` | TypeOK, AnswerInOrder, SentIsStored, NothingLeft, Answered | packets of 2 units, objects of 0 to 3, 2 troubles | 200,811 |
| `datasets` | NothingLeft, AskAnswered; Datasets implements DataPhase | packets of 64 bytes, every command twice, names and lists of lengths around the ends of packets, one cancel | 75,977 |
| `strings` | Terminated, RoundTrip, LengthAgrees | up to 4 units or bytes, a buffer of 8 bytes | 13,152 |
| `volumes` | TypeOK, MapAgrees, IdMeansOneDisk, HostKnows, HostLearns | 3 slots, a drive, a card, a RAM disk, minor index modulo 3, 3 changes | 400,166 |
| `data_loggers` | Accounted, StoppedIsSaved, HostSeesLog, SelectionAgrees | sixteen sketches, 2 stores, 4 lines, 4 commands | 435,411 |
| `mtp_logger` | InOrder, BlocksAccounted, OnlySinceStart, QuitStops | a ring of 3, 5 blocks, 3 seconds, 4 commands | 474,130 |

Two more runs, `record_rename` and `transfer_partial`, each show a disagreement
between the code and what the repository says of it (section 6). The TypeOK of a
module that no run lists says what its variables hold, for the reader.

Why the bounds are enough:

- `index_cache`: with two slots a third block already forces an eviction, a spill
  beyond the end of the file and a block read back; records of two sizes close a
  block early and full; modulo 3 the counter wraps all the time, where the real
  one wraps after 65536 accesses. The proofs cover all other values.
- `record_layout`: the three names leave the last word of a name nearly empty,
  fill it but for the NUL, and need one more. The proofs cover the rest.
- `object_tree`: both starting stores have a directory, one between two files;
  two changes in any order with listings between them reach, for example, a copy
  into a directory before and after it was scanned, and a rename after a move.
  Depth is bounded by `MaxDepth`. The proofs cover all other stores, names, sizes and
  bounds for the three invariants; the refinement is checked within them only.
- `transfer`: sizes of 0 to 3 units behind the header's one make transfers that
  end in a short, a full and an empty packet; two troubles allow a failed SendObject
  to be repeated and to fail otherwise, or a cancel after a pause.
- `memory_file`: a file grows in place, moves to the other piece, and finds no third
  one; two closes and openings fit between.
- `datasets`: names of 10 to 14, 28 to 31 and 60, 61 units and lists of 11 to 13 put
  the end of each dataset before, at and behind the end of a packet of 64 bytes,
  the length the code uses at full speed; longer ones repeat that. Two commands are
  enough for one to spoil the next.
- `strings`: the units are the last and first ones of each UTF-8 form and a surrogate,
  the bytes one of each kind; a buffer of 8 cuts a name after each of its characters.
- `data_loggers`: four commands allow, for example, start, select, start and stop;
  media come and go between any of them.
- `mtp_logger`: a ring of 3 is full with two blocks and wraps with the third; three
  seconds with a file every two change files once; four commands start, stop, start
  again and quit.
- `volumes`: a drive comes, goes and comes again in another slot or the same one,
  while the host's events are late, or goes while the callback is announcing it; with modulo 3 the minor index comes back to 0,
  which no id had before, after two reuses.

Views. `index_cache` compares slots by age instead of by cycle
number, leave out the last answer, which is only compared in the step that gives
it, and everything about a closed index, which OpenIndex sets anew.
`object_tree` leaves out mode and handle of `file_` while it is closed and no file
waits to be sent. No action
or property tells two states apart that a view makes one.

## 4. Assumptions

About fairness. The index models, the memory file and the strings have safety
properties only. In Datasets the device is weakly fair, since the interval timer or
`loop` comes round again, and so is the start of `loop`; a host takes the answer it
has got, and nothing is assumed about when it asks or cancels. In MtpLogger the
loop is weakly fair and the interrupt is not: QuitStops holds whether it comes or
not. DataLoggers has safety properties only. In Transfer the
device is weakly fair: the sketch calls `loop` again and again, and every wait in
the code has a timeout; the host is weakly fair in sending what it has left or
stopping, and in taking an answer. Nothing is assumed about when it asks. In
Volumes the program's steps are weakly fair, so is the host's handling of
events; opening a session and listing the storages are strongly fair, since they
are only possible when the responder is reached, again and again.

About records. IndexCache writes a record over one that takes at least as much
room; RecordLayout states this as `Fits`, and `record_rename` shows what happens
otherwise. The operations of the index file succeed.

About hosts and stores in ObjectIndex. A host names only objects it has handles
of, sends SendObject right after SendObjectInfo, does not move or copy an object
into itself, onto an existing name, or, in `Spec`, a directory or an empty file to another
store. (`ObjectMoveDir.cfg` and `ObjectMoveEmpty.cfg` show what becomes of those: a
move of an empty file makes the copy and then fails, so that the store has a file the
index does not know.) The copies made inside a directory that is copied have room. If one
failed, its handle 0xFFFFFFFF would become the directory's first child (`S` 1531, 1548),
and CopyFiles would stop there.
A store takes a file whole or refuses it; FS::rename refuses an existing target; a
new folder has room and a date. A sketch that makes an object while the host is
connected announces it, and does so only in a directory that is not empty or was
not listed yet: MapFileNameToIndex takes the parent from the last record it
compared, which in an empty directory is the directory's own, so the object would be
put into the directory's parent (of a root, written to record 0xFFFF). Objects that a
sketch removes are left out: the event leaves the record in the index. Dates are left out. The index file is not in the
stores that are listed.

About Transfer. A host's pause is longer than the 100 ms of a receive and shorter
than the 250 ms SendObject waits for each packet it throws away, and comes
between two packets of an object's data. A cancel flushes the pipes, and the host
waits until the status is OK again. It does not cancel while the header of a data
phase is still in `transmit_buffer`: the code leaves it there, in front of the next
response (a hazard in the list). The host takes every packet in time. Reads of
the store succeed, and a write that fails writes nothing. It announces the number
of bytes it has. It sends nothing under a name that exists: Create would give it that
object's handle without opening its file (`S` 1153-1163), so SendObject would fail or,
with no data, report success and leave the object as it was. ObjectIndex has that case.

About Datasets. The host takes every packet, and does not cancel behind the header
of an unknown device property: GetDevicePropValue and GetDevicePropDesc write a
header with length 0 and no write_finish. In `loop` it shares the response's packet;
the timer's response overwrites it; a cancel there would leave it in front of the
next answer. How SetObjectPropValue receives its name is part of ObjectIndex only.

About MemIndexFile. `peek`, `truncate` and seeks from the position or the end are not
called by the record store and not modelled.

About MtpStrings. One byte counts the units of a string with its zero: LengthAgrees
excepts names longer than that, whose count wraps (255 units in the code). Names are
cut at the buffer's size less two bytes; a name of a file system is shorter than the
buffer, into which `strlcpy` puts it (`S` 909).

About DataLoggers. A file that is opened for writing starts at the end of what was
committed, lines are committed when it is closed, and an assignment opens the new
file before it closes the old one. What is typed is a slot of the list, or whatever
the sketch accepts beyond it; a null pointer that is used ends the behaviour
("fault"). `SDClass sdSPI` in SD_Program_SPI_QSPI_MTP-logger is a variable of `setup` (line
210), which the list goes on naming: taken to live on. SD_MTP-logger has a second card in
slot 1; it takes the place of a chip there, and is never pulled out.

About MtpLogger. Samples, clock and card are external. After an error the timer
goes on and the file stays open, so blocks of before may go to the next file (state
-2 to -4); two files opened in the same second share a name; after q one block is
pulled and the rest dropped. The variant for I2S and the date functions, which
nothing calls, are not modelled.

About Volumes. Cards are added in `setup()` and not removed from the list; the
sketch removes only file systems without a callback, after announcing it, as the
examples do; there are slots for all file systems. A drive that went does not come back
before the callback found it gone, and one whose going was erased does not come back.
HostLearns excepts the drives in `missed`; `VolumesLost.cfg` shows one. `stateChanged()`
and `*pusbfs` (`UF` 78, 93) are read at one moment, a few instructions apart. Events arrive in order and, but for
`VolumesTimeout.cfg`, are not dropped.

## 5. What is proved

TLAPS proves, for every value of the constants the assumptions allow:

| module | theorems | about |
|---|---|---|
| IndexCacheProofs | `TypeCorrect`, `OneCopyAlways`, `UnusedLastAlways`, `CleanIsSpilledAlways`, `UnwrittenIsCachedAlways`, `CountsAgreeAlways`, `VictimAlways` | the invariants of `index_cache` |
| | `IndexImplementsStore` | IndexCache implements IndexStore |
| BytesProofs | `LayoutTypeCorrect`, `ReadsBackAlways` | every record of a block reads back byte for byte |
| | `OwnsItsMemoryAlways`, `MemoryImplementsFile` | the file is the one piece of the heap; MemIndexFile implements IndexFile |
| | `TerminatedAlways` | no store or read is outside the buffer, and every string in it ends there |
| | `LengthAgreesAlways` | writestring writes as many units as utf8_strlen counted, whatever bytes a file system has in a name |
| | `RoundTripAlways` | a host that asks for a name gets the units it sent, as many as fit into the buffer |
| ObjectIndexProofs | `IndexInvAlways` | there is always a tree that the records of the index and the stores agree on |
| | `LinkedAlways` | the list of every listed directory ends and is what the store has in it, each entry once, after any commands, refusals, copies of whole trees and objects a sketch adds |
| | `SizeAgreesAlways` | the size in a record is the size on the store, though all operations share `file_` |
| | `NeverHangsAlways` | no search for a sibling runs for ever |
| VolumesProofs | `VolumesTypeCorrect`, `MapAgreesAlways` | the callback's map of drives and the list of storages agree, whatever comes and goes between two steps of the loop |
| | `IdsMeanOneDisk` | while no minor index wraps, a storage id never stands for two disks to device and host, however late events are handled and even if some are dropped |
| | `HostKnowsAlways` | if no event is dropped, a host that has handled its events knows exactly the ids the device offers |
| TransferProofs | `TransferInvAlways`, `TypeOKAlways` | at each place of the code what may be under way |
| | `NothingLeftAlways`, `SentIsStoredAlways` | no piece of a command is taken for another; a finished SendObject stored every unit in order |
| | `AnswerInOrderAlways` | the host gets the packets of the answer it was promised, in order, where nothing is read with an offset |
| DatasetsProofs | `TypeOKAlways`, `NothingLeftAlways` | nothing waits in `transmit_buffer` for the next answer |
| | `DatasetsImplementAnswers` | Datasets implements DataPhase: each dataset is exactly as long as announced, cut into packets as it must be, for packets of 64 bytes or more and any lengths of names and lists |
| LoggersProofs | `AccountedAlways`, `StoppedIsSavedAlways`, `HostSeesLogAlways`, `SelectionAgreesAlways` | the invariants of `data_loggers`, for any capacity of the stores and any numbers of lines, log files and stores |
| | `InOrderAlways`, `BlocksAccountedAlways`, `OnlySinceStartAlways` | the safety invariants of `mtp_logger`, for any size of the ring and any bounds |

Constants are assumed as `ASSUME`s state: at least two slots and two values of the
cycle counter, `NoBlock` beyond every block a run may append, no record larger
than a block; no file system is both a card and of another kind; packets of at least 64
bytes, which is what the device has; a buffer for strings of more than 4 bytes; stores
on which everything is in a directory. TLC evaluates the
assumptions in the runs. Three theorems have a condition of their own, each needed:

- `IdsMeanOneDisk`: no minor index wraps. After as many reuses of a slot as there are
  minor indices, a host that still has the first id would take it for the new disk.
- `HostKnowsAlways`: no event is dropped after a timeout. `VolumesTimeout.cfg` shows a
  host that never learns of a store otherwise.
- `AnswerInOrderAlways`: `Offsets` has no offset but 0. With another one
  GetPartialObject sends less than it announces, which is the run `transfer_partial`.
  The other theorems about Transfer hold for all offsets.

The theorems about ObjectIndex are about `Spec`: a host that moves and copies nothing
into itself or over another object, and moves no directory and no empty file to another
store; and copies inside a directory have room (section 4). Without the first of these,
Linked and the index invariant are false of the code.
The bounds `MaxHandle`, `MaxDepth` and `MaxChanges` may have any value.

The theorems about Datasets are about the model's host, which does not cancel behind
the header of an unknown device property (section 4).

The argument for the cache. The invariant is `IndexInv`: types, "generated implies
opened", the four statements about the cache (`CacheInv`), one slot used in the
current cycle (`Recent`, of which VictimExists is a consequence) and the counts.
None of the parts is inductive alone. That a clean slot may be dropped rests on
the file having its block; that the file has it in the right place rests on
every block before it being found in the cache (`UnwrittenIsCached`); that a
search finds it rests on there being one copy and no unused slot in front; and
that no unused slot is left when the file has blocks is `UnusedLast`. The proof
goes up the calls: `SpillPositions` (gap blocks land in their own places),
`WriteOutEffect`, `ClaimKeeps` and `ReplaceKeeps`, `CacheRecordBlockKeeps` (CacheInv is
kept and every block's contents, held in RAM or on file, stay as they were),
`UpdateKeeps`, then `AppendEffect`, `WriteEffect` and `ReadEffect` for the operations,
`InvNext` and `StoreStep`. With the effects stated as changes of `Held`, the block's
contents wherever they are, the refinement is a calculation of places and
handles (`HandlePlace`, `PlaceHandle`, `PlacesDiffer`).

The argument for the layout. `LayoutInv` adds `Packed` to the two properties: records
start in increasing order, each with room for its own fixed part and name, and
the last ends before `next`. `NameRoomHoldsNul` shows the rounding leaves room for the
NUL; `LaidElsewhere` that a record written in its own room leaves the others alone.

The argument for the volumes. `MapInv` adds to MapAgrees, said slot by slot, what a
change says about the map: a drive that is there with a change of connection that the
loop has not looked at, and one that was found to have come, are not in it. So a
drive that came has no slot, whatever became of it since it was looked at, and the slot that addFilesystem takes is free
(`PutInSlotType`); a slot freed by the sketch was no drive's. `IdInv` says of every id
the host knows, and of every one in an event on its way, what it means: its
minor index is at most the slot's, and if it is the slot's, the slot holds the
file system the id was given for or none. A step may only empty a slot or raise
its minor index (`Grows`, which needs that none wraps and that a slot behind the
end of the list has minor index 0), so meanings last (`MeansStays`), and what is
newly said or listed has its meaning at that moment (`EventsStay`, `KnownStays`).

For HostKnows, `HostInv` looks at what the host will know: of every id, what the last
event on its way says of it (`Says`), or, when none speaks of it (`Silent`), what the
host has for it now, is what the device offers (`WillKnow`). An exception is the one id
between the place in the list that was taken and its event (`Pending`). A host that has
not been told has no list, or a reset on its way behind everything else. Every step
that changes what is offered sends an event about that id (`Informs`).

The argument for the memory file. `MemInv`: no piece of the heap is in use but the one
`_storage_ptr` names, as long as `_storage_size` says, and the position is within it. The
last part is what makes the refinement go through: a write never leaves a gap of
bytes that nobody wrote (`WriteEffect`).

The argument for the transfers. `TransferInv` says for each place of the code what is
under way. `FlowInv`: the packets on their way to the device are the next ones of the
command and its data (`Comes`), and as many were taken as the position in the
data phase says. `ReceiveInv`: what is in `receive_buffer` is the next of that data.
`OrderInv`: what the host got are the packets of the answer's data, full until the last
(`Shipped`). `StoreInv`: the file holds the data up to the position. `AnswerInv`: no answer
before its time, and one that says "ok" keeps what it promises (`Kept`). TypeOK
needs all of it: `transmit_buffer` is never overfull only because each handler finds
it empty. A lemma for each part says what receiving and sending a packet do to it;
the steps come part by part (`FlowStep`, `TransmitStep`, `OrderStep`, `StoreStep`, ...).

The argument for the datasets. A list of lengths `Makes` a total when there is a
function of what is left behind each place; so no sum over a sequence is needed,
and the lists of the handlers are put together by `MakesBoth`, `MakesTimes` (lists, names)
and `Totals`. `HandledAgrees`: what each of the eleven handlers writes adds up to what
it announces. `FlowInv` keeps: what is left to write makes the length announced, less
what the host has in full packets and what is in `transmit_buffer` (`Full`); when the
dataset is finished the host has all of it, the last packet short (`Came`). A field is
at most 64 bytes, so a write fills at most one packet (`WriteIs`). `Working`: a host that
has cancelled gets nothing more. The phase the host is in follows (`PhaseNow`), and
every step is one of DataPhase or none that the host sees.

The argument for the logger sketches. `SketchFacts` is what the sixteen sketches have in
common; nothing else asks which sketch runs. Accounted is kept as an equation of
sums: lines in logs, lines in the open file beyond those in its log (`Excess`) and
lines gone. The list names the drive exactly when it is connected (`ListInv`); the slot
selected is the file system remembered, or that has left the list (`ChoiceInv`); the
host has seen every log or news of it is on the way (`NewsInv`).

The argument for mtp-logger. `OrderInv`: blocks filed are older than the one pulled,
that older than those waiting in the ring, in order, and all were acquired.
While a block is copied but not yet taken off the ring it is in both, and the
interrupt may come just then; `Balance` counts it once.

The argument for the strings. Both directions decode UTF-8 by counting what is seen, a
byte at a time, so both are recursive functions of the number of bytes or units:
`Scanned` in the module, `Sizes` (the place in the buffer where a unit starts) in the
proofs. `Recursion` shows that such functions exist, and `LeastMember` gives the
induction the rest needs: of a false statement about numbers there is a least
counterexample. `StringsInv` says: while reading, the buffer has what was read so far
(`Reads`); afterwards it has an end, and the name up to it or as much as fits (`Holds`);
while writing, the units written and the bytes seen of the next one are what `Scanned`
says of the bytes up to `next` (`Counts`), and the units are the host's (`Decodes`). The
last needs that the bytes of a character are found again where they were put
(`WherePlaced`) and that the arithmetic of each of the three forms is undone.

The argument for the object index. `IndexInv` says that there is a tree: a function P
from the roots and the objects to their places, and a ranking rk of the children of a
directory, such that `Shape(m, P, rk)`. Its parts: every object's place is its
parent's and its name, and no two have the same place (`Known`, `Apart`); the first
children and siblings make one list for each directory, in which rk falls, so that
it ends and misses nobody (`Chain`); what is at the place of an object is what its
record says (`OnDisk`); a directory that was scanned has an object for everything
in it, and one that was not has none (`Full`); and `file_` is open at the place of
`open_file_`, if that is still an object (`Opened`). `Sending` adds what is true between
SendObjectInfo and SendObject. A record of something deleted, or of something in
what was deleted, stays in the index with no place: that is why the tree is not all of it,
and why Known needs its last part, that no such record can come back to life.

The walks of the code are recursive functions of the number of steps, and each is
shown to give what the tree says: `PlaceIs` (ConstructFilename), `LiveIs` (which records are objects), `ChildrenAre`
(GetNextObjectHandle), `WalkedIs` (MapFileNameToIndex). `Put`, `Add`, `Relink` and the
functions of the stores each have a lemma that says what they change; then each function
of `S` has one that says what it leaves of a tree: `GenerateKeeps`, `ScanKeeps`,
`ScanAllKeeps`, `DeletedIs`, `RenameKeeps`, `MoveKept`, `CreateInKeeps`, `SendKeeps`,
`AddEventKeeps`. In the middle of Create, rename or a transfer one object is not on its
store yet, or still: `ShapeBut` is the tree but for that one. CopyObject and CopyFiles
call each other, and each call holds a record it read before the calls it makes:
`Stack` says of every call under way that what it has left to copy is still there,
that nothing where it copies to has their names, and that its record still agrees
with the index but for the first child, which is the directory of the call above or
the last copy, and is just what it will write. `CopyOnKeeps` keeps that.

Only model-checked: ObjectIndex as an implementation of ObjectTree, whose steps compare
the stores before and after as whole functions, while the lemmas say of an operation
only that it leaves some tree; and everything temporal beyond
safety (Transfer's Answered, MtpLogger's QuitStops, Volumes' HostLearns, Datasets'
AskAnswered), which the prover does not do.

## 6. Where code and documentation disagree

Two are runs of the project, each with the line it contradicts in `PROJECT.json`:

- `record_rename` (`S` 641): a longer name is written over the next record, since
  the difference of the sizes is computed as `size_new_name - size_new_name`.
- `transfer_partial` (`T` 622): with an offset, GetPartialObject sends fewer bytes
  than it announces and reports.

Six more have a configuration beside the modules, and TLC finds the property named
violated under it:

- `IndexOrphan.cfg` (StoreSpec; `S` 1257): `close()` with no file open writes through the
  block number 0xFFFF, the mark of an unused slot; a slot is left unused in front of
  used ones, and records vanish.
- `ObjectMoveDir.cfg` (TreeSpec; `S` 1423): a directory moved to another store leaves
  the records of what is in it on the old store.
- `ObjectMoveEmpty.cfg` (MovedUnlessUnread; `S` 1690): CopyByPathNames starts with
  `nd = -1` and reads nothing of an empty file, which it then takes for a read error: the
  move fails, and the empty copy it made stays on the other store, unknown to the index.
- `ObjectDeleteRoot.cfg` (RootsStay; `S` 1097): only the handle 0xFFFF is taken for a
  root, so another store's root can be deleted.
- `VolumesTimeout.cfg` (UntoldNotEnumerated; `UF` 123): an event dropped after a timeout
  returns 0, which the callback takes for "stores have not been enumerated"; the
  host never learns of the store.
- `VolumesLost.cfg` (RemovalSeen; `UF` 140): a drive that goes after line 93, while its
  label is read or its event is waited for, has its change erased by `stateChanged(0)`; it
  stays in the list.

Read, not run: the parent of an announced object in an empty directory, the
unfinished header and the length byte of section 4; Example 6 unmounts on Enter; and
USB_MTP_IntegrityCheck's menu promises a big file of half the free space, while
the program compares twice the space with a size that is always 24 MB less a slack.

## 7. What is not modelled, and the plan

Not modelled: dates and debug output, which keep no state; the uncompressed index of
the Teensy 3.2 and the Teensy 3 endpoints; failures of the index file, and of stores
in the middle of a move, a copy or a directory that is copied, after which the code
promises nothing; the storage
list and the object index in one model, whose states are too many for a run;
the transfer tests, the viewers and CircuitMicroPython, which are decoders and displays
around vendored libraries. Hazards without a property say in `PROJECT.json` what is missing.

The order of the plan was the record store first, since every handle goes through
it, then the tree on top of it, then what travels and the list of storages, then what
surrounds them:

1. done: IndexStore, IndexCache, RecordLayout and their proofs; ObjectTree and
   ObjectIndex; Transfer; Volumes and its proofs; strings, datasets, the memory file,
   the logger sketches, and the objects a sketch announces.
2. done: theorems for every invariant and action property of the passing runs but the refinement of
   ObjectTree.
