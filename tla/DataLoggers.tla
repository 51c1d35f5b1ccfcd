---------------------------- MODULE DataLoggers ----------------------------
(***************************************************************************)
(* The data loggers of src/examples: fourteen sketches made from one.      *)
(* Each opens datalog.txt on the store it has selected, prints a line into *)
(* it on every pass of its loop, and lets the MTP responder run in between *)
(* so that a host can look at the log, or delete it.  They differ in the   *)
(* stores they set up, in how the loop shares its time with the responder, *)
(* in what selecting a store checks, and in which commands end with a      *)
(* reset event to the host.  A record per sketch says so; the actions are  *)
(* common.                                                                 *)
(*                                                                         *)
(* The file systems are external.  What the model takes from them: a file  *)
(* opened for writing starts at the end of what was committed, its lines   *)
(* are committed when it is closed, and assigning a File opens the new     *)
(* file before it closes the old one.                                      *)
(***************************************************************************)
EXTENDS Integers, Sequences, FiniteSets

CONSTANTS MaxLines,       \* bound: lines of a log, and lines counted since the last start
          MaxCommands,    \* bound: commands typed in all
          MaxFound        \* bound: stores that begin

ASSUME BoundsAssumption == {MaxLines, MaxCommands, MaxFound} \subseteq Nat

VARIABLES
  sketch,         \* which program it is; never changes
  pc,             \* where in loop() it is; "fault" after a null pointer was used
  present,        \* the stores whose medium is there
  connected,      \* what the sketch's own checks saw last of removable media
  list,           \* the stores by index, None where one was removed
  myfs,           \* the store commands work on, or None
  current,        \* the index the user typed for it
  dataFile,
  write_data,
  record_count,
  log,            \* lines of datalog.txt on each store, NoFile without one
  gone,           \* ghost: lines counted that are in no datalog.txt any more
  shown,          \* the lines the host last saw on each store
  news,           \* an event that makes the host look again is under way
  typed           \* commands so far

files == <<dataFile, log, gone>>
choice == <<myfs, current>>
media == <<present, connected, list>>
vars == <<sketch, pc, media, choice, files, write_data, record_count, shown, news, typed>>

Store == {"program", "ram", "chip", "card", "drive"}
None == "none"
NoFile == -1                \* a store without datalog.txt

Closed == [open |-> FALSE, store |-> None, lines |-> 0, live |-> FALSE]
Opened(st, lines) == [open |-> TRUE, store |-> st, lines |-> lines, live |-> TRUE]

(***************************************************************************)
(* The sketches.  Setup: the stores in the order they are added if they    *)
(* begin, those added in any case, those without which setup never ends,   *)
(* and the one selected at first.  Loop: "idle" lets the responder run     *)
(* when nothing was typed, "always" in every pass, "never" not at all;     *)
(* which numbers selecting a store accepts; and the commands.  Files: what *)
(* stopping and erasing do, and which media the sketch itself watches.     *)
(***************************************************************************)
Setup(order, always, needs, first) ==
  [order |-> order, always |-> always, needs |-> needs, first |-> first]
Loop(responder, select, commands) ==
  [responder |-> responder, select |-> select, commands |-> commands]
Files(stopResets, erase, watches) ==
  [stopResets |-> stopResets, erase |-> erase, watches |-> watches]

Logging == {"start", "stop", "dump"}

SimpleSetup == Setup(<<"card", "program", "chip">>, {}, {}, None)
SimpleLoop == Loop("idle", "listed", Logging \cup {"select", "list", "reset"})
SimpleFiles == Files(TRUE, "none", {})

AudioSetup == Setup(<<"ram", "card", "program", "chip">>, {}, {}, None)
AudioLoop == Loop("idle", "listed", Logging \cup {"select", "list", "reset"})
AudioFiles == Files(TRUE, "none", {})

ProgramSetup == Setup(<<"program">>, {}, {"program"}, "program")
ProgramLoop == Loop("idle", "fixed", Logging \cup {"list", "erase"})
ProgramFiles == Files(TRUE, "format", {})

NandSetup == Setup(<<"chip">>, {}, {"chip"}, "chip")
NandLoop == Loop("idle", "fixed", Logging \cup {"list", "erase"})
NandFiles == Files(TRUE, "format", {})

DatesSetup == Setup(<<"program">>, {}, {"program"}, "program")
DatesLoop == Loop("never", "fixed", Logging \cup {"list", "erase"})
DatesFiles == Files(FALSE, "formatQuietly", {})

MtpTestSetup == Setup(<<"card", "ram", "program", "chip">>, {}, {}, None)
MtpTestLoop == Loop("idle", "listed", Logging \cup {"select", "list", "erase", "reset"})
MtpTestFiles == Files(TRUE, "nothing", {"drive"})

IntegritySetup == Setup(<<"program", "card", "chip">>, {"card"}, {}, "ram")
IntegrityLoop == Loop("idle", "listed", Logging \cup {"select", "list", "erase", "reset"})
IntegrityFiles == Files(TRUE, "format", {"card", "drive"})

BogusSetup == Setup(<<"ram">>, {}, {}, "ram")
BogusLoop == Loop("always", "any", Logging \cup {"select", "list", "erase", "reset"})
BogusFiles == Files(TRUE, "nothing", {})

UsbSetup == Setup(<<"ram">>, {}, {}, "ram")
UsbLoop == Loop("always", "any", Logging \cup {"select", "list", "erase", "reset"})
UsbFiles == Files(TRUE, "nothing", {})

UsbSpiSetup == Setup(<<"ram", "chip">>, {}, {}, "ram")
UsbSpiLoop == Loop("idle", "listed", Logging \cup {"select", "list", "erase", "reset"})
UsbSpiFiles == Files(TRUE, "formatChecked", {})

SdProgramSetup == Setup(<<"program", "card", "ram">>, {}, {}, "program")
SdProgramLoop == Loop("idle", "listed", Logging \cup {"select", "list", "erase", "reset"})
SdProgramFiles == Files(TRUE, "nothing", {})

SdChipsSetup == Setup(<<"ram", "chip", "card">>, {}, {}, "ram")
SdChipsLoop == Loop("idle", "listed", Logging \cup {"select", "list", "erase", "reset"})
SdChipsFiles == Files(TRUE, "nothing", {})

SdAllSetup == Setup(<<"program", "ram", "chip", "card">>, {"card"}, {}, "program")
SdAllLoop == Loop("idle", "listed", Logging \cup {"select", "list", "erase", "format", "reset"})
SdAllFiles == Files(TRUE, "format", {"card"})

\* Its second card, which nobody pulls out, takes the place of a chip.
SdSetup == Setup(<<"card", "chip", "ram">>, {"card", "chip"}, {}, "card")
SdLoop == Loop("always", "array", Logging \cup {"select", "list", "erase", "reset"})
SdFiles == Files(TRUE, "formatChecked", {})

\* Two examples without a log, which check the pointer when it is used.
Example5Setup == Setup(<<"ram">>, {}, {}, "ram")
Example5Loop == Loop("always", "later", {"select", "list", "erase", "reset"})

Example6Setup == Setup(<<"ram", "chip">>, {}, {}, "ram")
Example6Loop == Loop("always", "later", {"select", "list", "erase", "reset", "unmount"})
Example6Files == Files(FALSE, "nothing", {"drive"})

Program(name, setup, loop, fs) ==
  [name |-> name, setup |-> setup, loop |-> loop, files |-> fs]

Sketches ==
  { Program("simple", SimpleSetup, SimpleLoop, SimpleFiles),
    Program("simple_t4_audio_sd", AudioSetup, AudioLoop, AudioFiles),
    Program("LFS_Program_MTP_Simple_Datalogger", ProgramSetup, ProgramLoop, ProgramFiles),
    Program("LFS_SPI_MTP_Simple_Datalogger", NandSetup, NandLoop, NandFiles),
    Program("LittleFS_Program_Simple_Datalogger-dates", DatesSetup, DatesLoop, DatesFiles),
    Program("mtp-test", MtpTestSetup, MtpTestLoop, MtpTestFiles),
    Program("mtp-test-integrity", IntegritySetup, IntegrityLoop, IntegrityFiles),
    Program("Bogus_MTP-logger", BogusSetup, BogusLoop, BogusFiles),
    Program("USB_MTP-logger", UsbSetup, UsbLoop, UsbFiles),
    Program("USB_SPI_MTP-logger", UsbSpiSetup, UsbSpiLoop, UsbSpiFiles),
    Program("SD_Program_MTP-logger", SdProgramSetup, SdProgramLoop, SdProgramFiles),
    Program("SD_SPI_QSPI_MTP-logger", SdChipsSetup, SdChipsLoop, SdChipsFiles),
    Program("SD_Program_SPI_QSPI_MTP-logger", SdAllSetup, SdAllLoop, SdAllFiles),
    Program("SD_MTP-logger", SdSetup, SdLoop, SdFiles),
    Program("Example_5_MTP_USB", Example5Setup, Example5Loop, Files(FALSE, "nothing", {})),
    Program("Example_6_MTP_USB_SD_EXT4", Example6Setup, Example6Loop, Example6Files) }

-----------------------------------------------------------------------------
LinesIn(logs, st) == IF logs[st] = NoFile THEN 0 ELSE logs[st]
Lines(st) == LinesIn(log, st)
Total(logs) == LinesIn(logs, "program") + LinesIn(logs, "ram") + LinesIn(logs, "chip")
               + LinesIn(logs, "card") + LinesIn(logs, "drive")
Slots == 1 .. Len(list)
Listed(st) == \E i \in Slots : list[i] = st
Has(command) == command \in sketch.loop.commands

\* Lines printed to f that its file does not have yet.
Unsaved(f) == IF f.open /\ f.live THEN f.lines - log[f.store] ELSE 0

\* The logs when f is closed: what was printed to it is committed.
Committed(f) == IF f.open /\ f.live THEN [log EXCEPT ![f.store] = f.lines] ELSE log

\* What a print does: nothing without an open file, and on a file that was
\* deleted, formatted away or pulled out it is counted all the same.
FaultyPrintLine(f, lost) ==        \* Mutant: counted without an open file
  /\ dataFile' = IF f.open THEN [f EXCEPT !.lines = @ + 1] ELSE f
  /\ record_count' = record_count + 1
  /\ gone' = gone + lost + (IF f.open /\ ~f.live THEN 1 ELSE 0)

PrintLine(f, lost) ==
  /\ dataFile' = IF f.open THEN [f EXCEPT !.lines = @ + 1] ELSE f
  /\ record_count' = IF f.open THEN record_count + 1 ELSE record_count
  /\ gone' = gone + lost + (IF f.open /\ ~f.live THEN 1 ELSE 0)

Room(lines) == record_count < MaxLines /\ lines < MaxLines

\* The stores setup finds; a RAM disk always begins.
Found(sk) ==
  { there \in [Store -> BOOLEAN] :
      /\ Cardinality({ st \in Store : there[st] }) <= MaxFound
      /\ \A st \in Store :
        /\ st = "ram" => there[st] = (\E i \in DOMAIN sk.setup.order : sk.setup.order[i] = "ram")
        /\ st \in sk.setup.needs => there[st]
        /\ (st = "drive" \/ \A i \in DOMAIN sk.setup.order : sk.setup.order[i] # st) => ~there[st] }

\* No sketch has more than four to add.
StoresAdded(sk, there) ==
  LET order == sk.setup.order
      Added(i) == IF i \in DOMAIN order /\ (there[order[i]] \/ order[i] \in sk.setup.always)
                  THEN <<order[i]>> ELSE <<>>
  IN  Added(1) \o Added(2) \o Added(3) \o Added(4)

Init ==
  /\ sketch \in Sketches
  /\ present \in Found(sketch)
  /\ connected = present
  /\ list = StoresAdded(sketch, present)
  /\ myfs = sketch.setup.first
  /\ current = 1
  /\ pc = "top"
  /\ dataFile = Closed
  /\ write_data = FALSE
  /\ record_count = 0
  /\ log = [st \in Store |-> NoFile]
  /\ gone = 0
  /\ shown = log
  /\ news = TRUE
  /\ typed = 0

(***************************************************************************)
(* Commands.  One is read when the loop comes to the serial port: instead  *)
(* of the responder's turn, or after it.                                   *)
(***************************************************************************)
CommandRead(command) ==
  /\ pc = (IF sketch.loop.responder = "always" THEN "serial" ELSE "top")
  /\ Has(command)
  /\ typed < MaxCommands
  /\ typed' = typed + 1
  /\ present' = IF command = "unmount" THEN [present EXCEPT !["chip"] = FALSE] ELSE present
  /\ UNCHANGED <<sketch, connected, list, shown>>

\* The command used a file system that is not there to be called.
Fault ==
  /\ myfs = None
  /\ sketch.loop.select # "later"
  /\ pc' = "fault"
  /\ UNCHANGED <<choice, files, write_data, record_count, news>>

\* A number accepted though no store has it leaves a null pointer, and so
\* does the number of a store that was removed.
Accepted(n) ==
  CASE sketch.loop.select = "listed" -> n \in Slots
    [] sketch.loop.select \in {"any", "array", "later"} -> TRUE
    [] OTHER -> FALSE

\* SD_MTP-logger indexes an array of its own, of two cards.
StoreAt(n) ==
  CASE sketch.loop.select = "array" /\ n = 1           -> "card"
    [] sketch.loop.select = "array" /\ n = 2           -> "chip"
    [] sketch.loop.select # "array" /\ n \in Slots     -> list[n]
    [] OTHER                                          -> None

\* Mutant: the index is not remembered.
FaultySelect(n) ==
  /\ CommandRead("select")
  /\ pc' = "tail"
  /\ IF Accepted(n) THEN myfs' = StoreAt(n) /\ current' = current ELSE UNCHANGED choice
  /\ UNCHANGED <<files, write_data, record_count, news>>

Select(n) ==
  /\ CommandRead("select")
  /\ pc' = "tail"
  /\ IF Accepted(n) THEN myfs' = StoreAt(n) /\ current' = n ELSE UNCHANGED choice
  /\ UNCHANGED <<files, write_data, record_count, news>>

ListFiles ==
  /\ CommandRead("list")
  /\ \/ Fault
     \/ /\ myfs # None \/ sketch.loop.select = "later"
        /\ pc' = "tail"
        /\ UNCHANGED <<choice, files, write_data, record_count, news>>

\* 's': the new file is opened before the old one is closed.  If they are the
\* same, it does not see the lines the old one still had, and its own end up
\* over them.
Start ==
  /\ CommandRead("start")
  /\ \/ Fault
     \/ /\ myfs # None
        /\ Room(Lines(myfs))
        /\ pc' = "tail"
        /\ write_data' = TRUE
        /\ IF present[myfs]
           THEN /\ log' = [Committed(dataFile) EXCEPT ![myfs] = IF @ = NoFile THEN 0 ELSE @]
                /\ PrintLine(Opened(myfs, Lines(myfs)),
                         IF dataFile.store = myfs THEN Unsaved(dataFile) ELSE 0)
           ELSE /\ log' = Committed(dataFile)
                /\ PrintLine(Closed, 0)
        /\ UNCHANGED <<choice, news>>

Stop ==
  /\ CommandRead("stop")
  /\ pc' = "tail"
  /\ write_data' = FALSE
  /\ log' = Committed(dataFile)
  /\ dataFile' = Closed
  /\ news' = (news \/ sketch.files.stopResets)
  /\ UNCHANGED <<choice, gone, record_count>>

\* Mutant: the file is not closed after it was read.
FaultyDump ==
  /\ CommandRead("dump")
  /\ myfs # None
  /\ pc' = "tail"
  /\ log' = Committed(dataFile)
  /\ dataFile' = IF Lines(myfs) > 0 THEN Opened(myfs, Lines(myfs)) ELSE Closed
  /\ UNCHANGED <<choice, gone, write_data, record_count, news>>

\* 'd' reads the log through the same variable, and closes it.
Dump ==
  /\ CommandRead("dump")
  /\ \/ Fault
     \/ /\ myfs # None
        /\ pc' = "tail"
        /\ log' = Committed(dataFile)
        /\ dataFile' = Closed
        /\ UNCHANGED <<choice, gone, write_data, record_count, news>>

\* Formatting takes datalog.txt away, from under the open file if need be.
Format(st) ==
  /\ log' = [log EXCEPT ![st] = NoFile]
  /\ gone' = gone + Lines(st) + (IF dataFile.store = st THEN Unsaved(dataFile) ELSE 0)
  /\ dataFile' = IF dataFile.store = st THEN [dataFile EXCEPT !.live = FALSE] ELSE dataFile

FaultyTellFormatted(done) ==       \* Mutant: the host hears of failures
  news' = (news \/ (sketch.files.erase = "formatChecked" /\ ~done))

TellFormatted(done) ==
  news' = (news \/ sketch.files.erase = "format"
                \/ (sketch.files.erase = "formatChecked" /\ done))

\* One sketch goes by the index, to the store's own way of formatting.
Erased == IF sketch.name = "USB_SPI_MTP-logger" THEN StoreAt(current) ELSE myfs

EraseFiles ==
  /\ CommandRead("erase")
  /\ \/ sketch.files.erase # "nothing" /\ Fault
     \/ /\ sketch.files.erase = "nothing"
        /\ pc' = "tail"
        /\ UNCHANGED <<choice, files, write_data, record_count, news>>
     \/ /\ sketch.files.erase # "nothing"
        /\ myfs # None
        /\ pc' = "tail"
        /\ \E done \in {TRUE, FALSE} :
             /\ done => present[Erased]
             /\ IF done THEN Format(Erased) ELSE UNCHANGED files
             /\ TellFormatted(done)
        /\ UNCHANGED <<choice, write_data, record_count>>

\* 'f' is refused if the index typed is that of a card.  The one sketch that
\* has it never removes a store.
LowLevelFormat ==
  /\ CommandRead("format")
  /\ pc' = "tail"
  /\ IF StoreAt(current) # "card" /\ present[myfs] THEN Format(myfs) ELSE UNCHANGED files
  /\ news' = (news \/ StoreAt(current) # "card")
  /\ UNCHANGED <<choice, write_data, record_count>>

ResetCommand ==
  /\ CommandRead("reset")
  /\ pc' = "tail"
  /\ news' = TRUE
  /\ UNCHANGED <<choice, files, write_data, record_count>>

\* An empty line, meant for the menu, runs on into this one.
Unmount ==
  /\ CommandRead("unmount")
  /\ pc' = "tail"
  /\ UNCHANGED <<choice, files, write_data, record_count, news>>

Commands ==
  \/ \E n \in 1 .. Len(list) + 1 : Select(n)
  \/ ListFiles \/ Start \/ Stop \/ Dump \/ EraseFiles \/ LowLevelFormat \/ ResetCommand
  \/ Unmount

\* Nothing was typed.
NoCommand ==
  /\ \/ pc = "serial"
     \/ pc = "top" /\ sketch.loop.responder = "never"
  /\ pc' = "tail"
  /\ UNCHANGED <<sketch, media, choice, files, write_data, record_count, shown, news, typed>>

\* The end of the loop.
LogData ==
  /\ pc = "tail"
  /\ write_data => Room(dataFile.lines)
  /\ pc' = "top"
  /\ IF write_data THEN PrintLine(dataFile, 0) ELSE UNCHANGED <<dataFile, gone, record_count>>
  /\ UNCHANGED <<sketch, media, choice, log, write_data, shown, news, typed>>

(***************************************************************************)
(* The media a sketch watches itself.                                      *)
(***************************************************************************)
NothingTyped == pc = "top" /\ sketch.loop.responder # "never"

CheckCard ==
  /\ "card" \in sketch.files.watches
  /\ news' = (news \/ present["card"] # connected["card"])
  /\ connected' = [connected EXCEPT !["card"] = present["card"]]
  /\ UNCHANGED list

\* A drive gets the first slot that was emptied, or a new one.
SlotFor ==
  CHOOSE i \in 1 .. Len(list) + 1 :
    /\ i \in Slots => list[i] = None
    /\ \A j \in 1 .. i - 1 : list[j] # None

CheckDrive ==
  /\ "drive" \in sketch.files.watches
  /\ connected' = [connected EXCEPT !["drive"] = present["drive"]]
  /\ list' = CASE present["drive"] /\ ~Listed("drive") ->
                 [i \in 1 .. Len(list) \cup {SlotFor} |-> IF i = SlotFor THEN "drive" ELSE list[i]]
              [] ~present["drive"] /\ Listed("drive") ->
                 [i \in Slots |-> IF list[i] = "drive" THEN None ELSE list[i]]
              [] OTHER -> list
  /\ news' = (news \/ list' # list)

Watch ==
  /\ NothingTyped
  /\ CheckCard \/ CheckDrive
  /\ UNCHANGED <<sketch, pc, present, choice, files, write_data, record_count, shown, typed>>

\* A medium comes or goes; an open file on it goes with it.  Not twice before
\* the sketch has looked.
MediumChanges(st) ==
  /\ st \in sketch.files.watches
  /\ present[st] = connected[st]
  /\ present' = [present EXCEPT ![st] = ~@]
  /\ IF dataFile.store = st
     THEN /\ gone' = gone + Unsaved(dataFile)
          /\ dataFile' = [dataFile EXCEPT !.live = FALSE]
     ELSE UNCHANGED <<gone, dataFile>>
  /\ UNCHANGED <<sketch, pc, connected, list, choice, log, write_data, record_count, shown, news, typed>>

(***************************************************************************)
(* The responder's turn.                                                   *)
(***************************************************************************)
Offered == { st \in Store : present[st] /\ Listed(st) }

Respond ==
  /\ NothingTyped
  /\ pc' = (IF sketch.loop.responder = "always" THEN "serial" ELSE "tail")
  /\ UNCHANGED <<sketch, media, choice, write_data, record_count, typed>>

NoRequest == Respond /\ UNCHANGED <<files, shown, news>>

HostLooks ==
  /\ Respond
  /\ shown' = [st \in Store |-> IF st \in Offered THEN log[st] ELSE NoFile]
  /\ news' = FALSE
  /\ UNCHANGED files

HostDeletes(st) ==
  /\ Respond
  /\ st \in Offered
  /\ shown[st] # NoFile
  /\ log[st] # NoFile
  /\ Format(st)
  /\ shown' = [shown EXCEPT ![st] = NoFile]
  /\ UNCHANGED news

\* Power goes, or a fault restarts the board: what was not committed is lost,
\* and so is a RAM disk.
Restart ==
  /\ log' = [log EXCEPT !["ram"] = NoFile]
  /\ gone' = -Total(log')
  /\ present' \in Found(sketch)
  /\ connected' = present'
  /\ list' = StoresAdded(sketch, present')
  /\ myfs' = sketch.setup.first
  /\ current' = 1
  /\ pc' = "top"
  /\ dataFile' = Closed
  /\ write_data' = FALSE
  /\ record_count' = 0
  /\ shown' = [st \in Store |-> NoFile]
  /\ news' = TRUE
  /\ UNCHANGED <<sketch, typed>>

Next ==
  \/ Commands \/ NoCommand \/ LogData
  \/ Watch \/ \E st \in {"card", "drive"} : MediumChanges(st)
  \/ NoRequest \/ HostLooks \/ \E st \in Store : HostDeletes(st)
  \/ Restart

Spec == Init /\ [][Next]_vars

-----------------------------------------------------------------------------
TypeOK ==
  /\ sketch \in Sketches
  /\ pc \in {"top", "serial", "tail", "fault"}
  /\ present \in [Store -> BOOLEAN] /\ connected \in [Store -> BOOLEAN]
  /\ list \in Seq(Store \cup {None})
  /\ myfs \in Store \cup {None} /\ current \in 1 .. Cardinality(Store) + 1
  /\ dataFile \in [open : BOOLEAN, store : Store \cup {None}, lines : 0 .. MaxLines, live : BOOLEAN]
  /\ dataFile.live => log[dataFile.store] # NoFile
  /\ write_data \in BOOLEAN /\ news \in BOOLEAN
  /\ record_count \in 0 .. MaxLines
  /\ log \in [Store -> NoFile .. MaxLines] /\ shown \in [Store -> NoFile .. MaxLines]
  /\ gone \in Int /\ typed \in 0 .. MaxCommands

(* Every record logData counted is in a log, or still in the open file, or *)
(* was taken away: by an erase, by the host, by a medium pulled out, or by *)
(* starting again on the file that is being logged to.  Through any order  *)
(* of starts, stops, dumps and selections, on any number of stores.        *)
Accounted ==
  record_count = Total(log) + Unsaved(dataFile) + gone

(* When nothing is logged, no file is left open and no line is unsaved,    *)
(* whatever dumpLog and startings did to the one variable all share.       *)
StoppedIsSaved == pc # "fault" /\ ~write_data => ~dataFile.open

(* Once the events are handled and nothing is logged, the host sees every  *)
(* log as it is: stopLogging, eraseFiles and the checks of the media each  *)
(* end with an event if they changed what the host may have seen.  Not for *)
(* media the sketch has yet to look at.                                    *)
HostSeesLog ==
  (~write_data /\ ~news /\ present = connected /\ pc # "fault")
    => \A st \in Offered : shown[st] = log[st]

(* The index and the file system a sketch remembers for the selected store *)
(* name the same one, once one was selected: eraseFiles of                 *)
(* USB_SPI_MTP-logger goes by the first and everything else by the second, *)
(* lowLevelFormat of SD_Program_SPI_QSPI_MTP-logger refuses by the first   *)
(* and formats the second.                                                 *)
SelectionAgrees ==
  (sketch.loop.select = "listed" /\ current \in Slots /\ None \notin {list[current], myfs})
    => \/ myfs = list[current]
       \/ current = 1 /\ myfs = sketch.setup.first
=============================================================================
