--------------------------- MODULE LoggersProofs ---------------------------
(***************************************************************************)
(* Proofs about the sketches that log.  DataLoggers: what holds of every   *)
(* one of the sixteen sketches, for every bound on their lines, commands   *)
(* and stores.  MtpLogger, for any buffer, any number of blocks and files  *)
(* of any length in time: what is filed is in order, every block acquired  *)
(* is accounted for, and a new acquisition starts with an empty buffer.    *)
(***************************************************************************)
EXTENDS DataLoggers, MtpLogger, FiniteSetTheorems, SequenceTheorems, WellFoundedInduction, TLAPS

-----------------------------------------------------------------------------
(* DataLoggers                                                             *)

(* A non-empty set of naturals has a least element (a search loop that     *)
(* stops at the first match finds one).                                    *)
LEMMA LeastNatural ==
  ASSUME NEW S, S \subseteq Nat, S # {}
  PROVE  \E x \in S : \A y \in S : x <= y
<1> DEFINE Below(m) == {y \in S : y < m}
           T == {Below(m) : m \in S}
<1>1. T \subseteq FiniteSubsetsOf(Nat)
  <2>1. SUFFICES ASSUME NEW m \in S PROVE Below(m) \in FiniteSubsetsOf(Nat)
    OBVIOUS
  <2>2. m \in Nat /\ Below(m) \subseteq Nat
    OBVIOUS
  <2>3. \A s \in Below(m) : s <= m
    BY <2>2
  <2> QED BY <2>2, <2>3, FS_BoundedSetOfNaturals DEF FiniteSubsetsOf
<1>2. T # {}
  OBVIOUS
<1>3. PICK X \in T : \A Y \in T : ~(<<Y, X>> \in StrictSubsetOrdering(Nat))
  BY <1>1, <1>2, FS_StrictSubsetOrderingWellFounded, WFMin
<1>4. PICK m \in S : X = Below(m)
  OBVIOUS
<1>5. SUFFICES ASSUME NEW y \in S, y < m PROVE FALSE
  OBVIOUS
<1>6. y \in Nat /\ m \in Nat /\ \A z \in S : z \in Nat
  OBVIOUS
<1>7. Below(y) \subseteq Below(m) /\ y \in Below(m) /\ y \notin Below(y)
  <2>1. y \in Below(m) /\ y \notin Below(y)
    BY ONLY <1>5, <1>6
  <2>2. ASSUME NEW z \in S, z < y PROVE z < m
    BY ONLY <1>5, <1>6, <2>2
  <2> QED BY <2>1, <2>2
<1>8. <<Below(y), Below(m)>> \in StrictSubsetOrdering(Nat)
  BY <1>7 DEF StrictSubsetOrdering
<1> QED BY <1>3, <1>4, <1>8


Watches(st) == st \in sketch.files.watches
NoneListed == \A i \in Slots : list[i] # None

Logs == [Store -> Nat \cup {NoFile}]
Handles == [open : BOOLEAN, store : Store \cup {None}, lines : Nat, live : BOOLEAN]

(* Types, and a file that is open and still on its store has a log there.  *)
FileInv ==
  /\ log \in Logs
  /\ dataFile \in Handles
  /\ dataFile.open /\ dataFile.live => dataFile.store \in Store /\ log[dataFile.store] # NoFile
  /\ record_count \in Int /\ gone \in Int

(* Nothing logged: nothing open.  Only a sketch with a start command logs. *)
WritingInv ==
  /\ write_data => Has("start")
  /\ ~write_data => ~dataFile.open

(* The list of stores: only a drive comes and goes while a sketch runs.    *)
ListInv ==
  /\ list \in Seq(Store \cup {None})
  /\ current \in Nat
  /\ present \in [Store -> BOOLEAN] /\ connected \in [Store -> BOOLEAN]
  /\ connected["drive"] <=> Listed("drive")
  /\ present["chip"] => connected["chip"]
  /\ ~ Watches("drive") => NoneListed
  /\ 1 \in DOMAIN sketch.setup.order /\ sketch.setup.order[1] = "ram" => Slots # {}

(* The store selected: its own, or a drive that has left the list since.   *)
ChoiceInv ==
  /\ sketch \in Sketches
  /\ myfs \in Store \cup {None}
  /\ Has("format") => myfs # None
  /\ sketch.loop.select = "listed" =>
       /\ current \in Slots \/ (current = 1 /\ myfs = sketch.setup.first)
       /\ current \in Slots => \/ myfs \in {None, list[current]}
                               \/ list[current] = None /\ myfs = "drive"
                               \/ current = 1 /\ myfs = sketch.setup.first

(* A sketch that gives the responder no time has its first reset pending   *)
(* for ever; the others tell the host of every change.                     *)
NewsInv ==
  /\ shown \in Logs
  /\ sketch.loop.responder = "never" => news
  /\ HostSeesLog

LoggersInv == FileInv /\ WritingInv /\ ListInv /\ ChoiceInv /\ NewsInv /\ Accounted

-----------------------------------------------------------------------------
(* The sketches, the stores and the sums over them.                        *)

LEMMA ShortSequences ==
  ASSUME NEW S, NEW a \in S, NEW b \in S, NEW c \in S, NEW d \in S
  PROVE  <<a>> \in Seq(S) /\ <<a, b>> \in Seq(S) /\ <<a, b, c>> \in Seq(S) /\ <<a, b, c, d>> \in Seq(S)
OBVIOUS

(* The stores a setup adds: none of them a drive.                          *)
LEMMA OrdersAre ==
  /\ SimpleSetup.order \in Seq(Store \ {"drive"})
  /\ AudioSetup.order \in Seq(Store \ {"drive"})
  /\ ProgramSetup.order \in Seq(Store \ {"drive"})
  /\ NandSetup.order \in Seq(Store \ {"drive"})
  /\ DatesSetup.order \in Seq(Store \ {"drive"})
  /\ MtpTestSetup.order \in Seq(Store \ {"drive"})
  /\ IntegritySetup.order \in Seq(Store \ {"drive"})
  /\ BogusSetup.order \in Seq(Store \ {"drive"})
  /\ UsbSetup.order \in Seq(Store \ {"drive"})
  /\ UsbSpiSetup.order \in Seq(Store \ {"drive"})
  /\ SdProgramSetup.order \in Seq(Store \ {"drive"})
  /\ SdChipsSetup.order \in Seq(Store \ {"drive"})
  /\ SdAllSetup.order \in Seq(Store \ {"drive"})
  /\ SdSetup.order \in Seq(Store \ {"drive"})
  /\ Example5Setup.order \in Seq(Store \ {"drive"})
  /\ Example6Setup.order \in Seq(Store \ {"drive"})
<1> DEFINE S == Store \ {"drive"}
<1>1. S = {"program", "ram", "chip", "card"}
  BY DEF Store
<1>2. \A a, b, c, d \in S :
        <<a>> \in Seq(S) /\ <<a, b>> \in Seq(S) /\ <<a, b, c>> \in Seq(S) /\ <<a, b, c, d>> \in Seq(S)
  BY ShortSequences
<1> HIDE DEF S
<1>3. \A order, always, needs, first : Setup(order, always, needs, first).order = order
  BY DEF Setup
<1>4. /\ <<"program">> \in Seq(S) /\ <<"chip">> \in Seq(S) /\ <<"ram">> \in Seq(S)
      /\ <<"ram", "chip">> \in Seq(S) /\ <<"card", "chip", "ram">> \in Seq(S)
      /\ <<"card", "program", "chip">> \in Seq(S) /\ <<"program", "card", "chip">> \in Seq(S)
      /\ <<"program", "card", "ram">> \in Seq(S) /\ <<"ram", "chip", "card">> \in Seq(S)
      /\ <<"ram", "card", "program", "chip">> \in Seq(S)
      /\ <<"card", "ram", "program", "chip">> \in Seq(S)
      /\ <<"program", "ram", "chip", "card">> \in Seq(S)
  BY <1>1, <1>2
<1>5. /\ SimpleSetup.order = <<"card", "program", "chip">>
      /\ AudioSetup.order = <<"ram", "card", "program", "chip">>
      /\ ProgramSetup.order = <<"program">>
      /\ NandSetup.order = <<"chip">>
      /\ DatesSetup.order = <<"program">>
      /\ MtpTestSetup.order = <<"card", "ram", "program", "chip">>
      /\ IntegritySetup.order = <<"program", "card", "chip">>
      /\ BogusSetup.order = <<"ram">>
  BY <1>3 DEF SimpleSetup, AudioSetup, ProgramSetup, NandSetup, DatesSetup, MtpTestSetup,
     IntegritySetup, BogusSetup
<1>6. /\ UsbSetup.order = <<"ram">>
      /\ UsbSpiSetup.order = <<"ram", "chip">>
      /\ SdProgramSetup.order = <<"program", "card", "ram">>
      /\ SdChipsSetup.order = <<"ram", "chip", "card">>
      /\ SdAllSetup.order = <<"program", "ram", "chip", "card">>
      /\ SdSetup.order = <<"card", "chip", "ram">>
      /\ Example5Setup.order = <<"ram">>
      /\ Example6Setup.order = <<"ram", "chip">>
  BY <1>3 DEF UsbSetup, UsbSpiSetup, SdProgramSetup, SdChipsSetup, SdAllSetup, SdSetup,
     Example5Setup, Example6Setup
<1> QED BY <1>4, <1>5, <1>6 DEF S

(* What the sixteen have in common.                                        *)
Facts(sk) ==
  /\ sk.setup.order \in Seq(Store \ {"drive"})
  /\ sk.setup.first \in Store \cup {None}
  /\ "chip" \notin sk.files.watches
  /\ \/ sk.files.stopResets
     \/ sk.loop.responder = "never"
     \/ "start" \notin sk.loop.commands
  /\ "erase" \in sk.loop.commands =>
       \/ sk.files.erase \in {"nothing", "format", "formatChecked"}
       \/ sk.loop.responder = "never"
  /\ "format" \in sk.loop.commands =>
       sk.loop.select = "listed" /\ "drive" \notin sk.files.watches /\ sk.setup.first # None
  /\ sk.name = "USB_SPI_MTP-logger" =>
       /\ sk.loop.select = "listed" /\ "drive" \notin sk.files.watches
       /\ 1 \in DOMAIN sk.setup.order /\ sk.setup.order[1] = "ram"

LEMMA SketchFacts == \A sk \in Sketches : Facts(sk)
<1>1. \A name, setup, loop, fs :
        /\ Program(name, setup, loop, fs).setup = setup
        /\ Program(name, setup, loop, fs).name = name
        /\ Program(name, setup, loop, fs).loop = loop
        /\ Program(name, setup, loop, fs).files = fs
  BY DEF Program
<1>2. Facts(Program("simple", SimpleSetup, SimpleLoop, SimpleFiles))
  <2>1. Program("simple", SimpleSetup, SimpleLoop, SimpleFiles)
          .setup.order \in Seq(Store \ {"drive"})
    BY OrdersAre, <1>1
  <2> QED BY <2>1 DEF Facts, Program, Setup, Loop, Files, Logging, Store, None,
              SimpleSetup, SimpleLoop, SimpleFiles
<1>3. Facts(Program("simple_t4_audio_sd", AudioSetup, AudioLoop, AudioFiles))
  <2>1. Program("simple_t4_audio_sd", AudioSetup, AudioLoop, AudioFiles)
          .setup.order \in Seq(Store \ {"drive"})
    BY OrdersAre, <1>1
  <2> QED BY <2>1 DEF Facts, Program, Setup, Loop, Files, Logging, Store, None,
              AudioSetup, AudioLoop, AudioFiles
<1>4. Facts(Program("LFS_Program_MTP_Simple_Datalogger", ProgramSetup, ProgramLoop, ProgramFiles))
  <2>1. Program("LFS_Program_MTP_Simple_Datalogger", ProgramSetup, ProgramLoop, ProgramFiles)
          .setup.order \in Seq(Store \ {"drive"})
    BY OrdersAre, <1>1
  <2> QED BY <2>1 DEF Facts, Program, Setup, Loop, Files, Logging, Store, None,
              ProgramSetup, ProgramLoop, ProgramFiles
<1>5. Facts(Program("LFS_SPI_MTP_Simple_Datalogger", NandSetup, NandLoop, NandFiles))
  <2>1. Program("LFS_SPI_MTP_Simple_Datalogger", NandSetup, NandLoop, NandFiles)
          .setup.order \in Seq(Store \ {"drive"})
    BY OrdersAre, <1>1
  <2> QED BY <2>1 DEF Facts, Program, Setup, Loop, Files, Logging, Store, None,
              NandSetup, NandLoop, NandFiles
<1>6. Facts(Program("LittleFS_Program_Simple_Datalogger-dates", DatesSetup, DatesLoop, DatesFiles))
  <2>1. Program("LittleFS_Program_Simple_Datalogger-dates", DatesSetup, DatesLoop, DatesFiles)
          .setup.order \in Seq(Store \ {"drive"})
    BY OrdersAre, <1>1
  <2> QED BY <2>1 DEF Facts, Program, Setup, Loop, Files, Logging, Store, None,
              DatesSetup, DatesLoop, DatesFiles
<1>7. Facts(Program("mtp-test", MtpTestSetup, MtpTestLoop, MtpTestFiles))
  <2>1. Program("mtp-test", MtpTestSetup, MtpTestLoop, MtpTestFiles)
          .setup.order \in Seq(Store \ {"drive"})
    BY OrdersAre, <1>1
  <2> QED BY <2>1 DEF Facts, Program, Setup, Loop, Files, Logging, Store, None,
              MtpTestSetup, MtpTestLoop, MtpTestFiles
<1>8. Facts(Program("mtp-test-integrity", IntegritySetup, IntegrityLoop, IntegrityFiles))
  <2>1. Program("mtp-test-integrity", IntegritySetup, IntegrityLoop, IntegrityFiles)
          .setup.order \in Seq(Store \ {"drive"})
    BY OrdersAre, <1>1
  <2> QED BY <2>1 DEF Facts, Program, Setup, Loop, Files, Logging, Store, None,
              IntegritySetup, IntegrityLoop, IntegrityFiles
<1>9. Facts(Program("Bogus_MTP-logger", BogusSetup, BogusLoop, BogusFiles))
  <2>1. Program("Bogus_MTP-logger", BogusSetup, BogusLoop, BogusFiles)
          .setup.order \in Seq(Store \ {"drive"})
    BY OrdersAre, <1>1
  <2> QED BY <2>1 DEF Facts, Program, Setup, Loop, Files, Logging, Store, None,
              BogusSetup, BogusLoop, BogusFiles
<1>10. Facts(Program("USB_MTP-logger", UsbSetup, UsbLoop, UsbFiles))
  <2>1. Program("USB_MTP-logger", UsbSetup, UsbLoop, UsbFiles)
          .setup.order \in Seq(Store \ {"drive"})
    BY OrdersAre, <1>1
  <2> QED BY <2>1 DEF Facts, Program, Setup, Loop, Files, Logging, Store, None,
              UsbSetup, UsbLoop, UsbFiles
<1>11. Facts(Program("USB_SPI_MTP-logger", UsbSpiSetup, UsbSpiLoop, UsbSpiFiles))
  <2>1. Program("USB_SPI_MTP-logger", UsbSpiSetup, UsbSpiLoop, UsbSpiFiles)
          .setup.order \in Seq(Store \ {"drive"})
    BY OrdersAre, <1>1
  <2> QED BY <2>1 DEF Facts, Program, Setup, Loop, Files, Logging, Store, None,
              UsbSpiSetup, UsbSpiLoop, UsbSpiFiles
<1>12. Facts(Program("SD_Program_MTP-logger", SdProgramSetup, SdProgramLoop, SdProgramFiles))
  <2>1. Program("SD_Program_MTP-logger", SdProgramSetup, SdProgramLoop, SdProgramFiles)
          .setup.order \in Seq(Store \ {"drive"})
    BY OrdersAre, <1>1
  <2> QED BY <2>1 DEF Facts, Program, Setup, Loop, Files, Logging, Store, None,
              SdProgramSetup, SdProgramLoop, SdProgramFiles
<1>13. Facts(Program("SD_SPI_QSPI_MTP-logger", SdChipsSetup, SdChipsLoop, SdChipsFiles))
  <2>1. Program("SD_SPI_QSPI_MTP-logger", SdChipsSetup, SdChipsLoop, SdChipsFiles)
          .setup.order \in Seq(Store \ {"drive"})
    BY OrdersAre, <1>1
  <2> QED BY <2>1 DEF Facts, Program, Setup, Loop, Files, Logging, Store, None,
              SdChipsSetup, SdChipsLoop, SdChipsFiles
<1>14. Facts(Program("SD_Program_SPI_QSPI_MTP-logger", SdAllSetup, SdAllLoop, SdAllFiles))
  <2>1. Program("SD_Program_SPI_QSPI_MTP-logger", SdAllSetup, SdAllLoop, SdAllFiles)
          .setup.order \in Seq(Store \ {"drive"})
    BY OrdersAre, <1>1
  <2> QED BY <2>1 DEF Facts, Program, Setup, Loop, Files, Logging, Store, None,
              SdAllSetup, SdAllLoop, SdAllFiles
<1>15. Facts(Program("SD_MTP-logger", SdSetup, SdLoop, SdFiles))
  <2>1. Program("SD_MTP-logger", SdSetup, SdLoop, SdFiles).setup.order \in Seq(Store \ {"drive"})
    BY OrdersAre, <1>1
  <2> QED BY <2>1 DEF Facts, Program, Setup, Loop, Files, Logging, Store, None,
              SdSetup, SdLoop, SdFiles
<1>16. Facts(Program("Example_5_MTP_USB", Example5Setup, Example5Loop, Files(FALSE, "nothing", {})))
  <2>1. Program("Example_5_MTP_USB", Example5Setup, Example5Loop, Files(FALSE, "nothing", {}))
          .setup.order \in Seq(Store \ {"drive"})
    BY OrdersAre DEF Program
  <2> QED BY <2>1 DEF Facts, Program, Setup, Loop, Files, Logging, Store, None,
              Example5Setup, Example5Loop
<1>17. Facts(Program("Example_6_MTP_USB_SD_EXT4", Example6Setup, Example6Loop, Example6Files))
  <2>1. Program("Example_6_MTP_USB_SD_EXT4", Example6Setup, Example6Loop, Example6Files)
          .setup.order \in Seq(Store \ {"drive"})
    BY OrdersAre, <1>1
  <2> QED BY <2>1 DEF Facts, Program, Setup, Loop, Files, Logging, Store, None,
              Example6Setup, Example6Loop, Example6Files
<1> QED BY <1>2, <1>3, <1>4, <1>5, <1>6, <1>7, <1>8, <1>9, <1>10, <1>11, <1>12,
           <1>13, <1>14, <1>15, <1>16, <1>17 DEF Sketches

LEMMA LinesInIs ==
  ASSUME NEW logs \in Logs, NEW st \in Store
  PROVE  LinesIn(logs, st) \in Nat
BY DEF Logs, LinesIn, NoFile

LEMMA TotalIs ==
  ASSUME NEW logs \in Logs
  PROVE  Total(logs) \in Nat
<1>1. \A st \in Store : LinesIn(logs, st) \in Nat
  BY LinesInIs
<1> QED BY <1>1 DEF Total, Store

(* One log changes, the sum changes with it.                               *)
LEMMA TotalChanges ==
  ASSUME NEW logs \in Logs, NEW st \in Store,
         NEW n \in Nat \cup {NoFile}
  PROVE  LET new == [logs EXCEPT ![st] = n]
         IN  /\ new \in Logs
             /\ new[st] = n
             /\ Total(new) = Total(logs) - LinesIn(logs, st) + (IF n = NoFile THEN 0 ELSE n)
<1> DEFINE new == [logs EXCEPT ![st] = n]
           plus == IF n = NoFile THEN 0 ELSE n
<1>1. new \in Logs /\ new[st] = n
  BY DEF Logs
<1>2. /\ LinesIn(new, st) = plus
      /\ \A other \in Store : other # st => LinesIn(new, other) = LinesIn(logs, other)
  BY DEF Logs, LinesIn
<1>3. \A other \in Store : LinesIn(logs, other) \in Int
  BY LinesInIs
<1>4. plus \in Int
  BY DEF NoFile
<1>5. Total(new) = Total(logs) - LinesIn(logs, st) + plus
  <2> HIDE DEF new, plus
  <2>1. CASE st = "program"
    BY <1>2, <1>3, <1>4, <2>1 DEF Total, Store
  <2>2. CASE st = "ram"
    BY <1>2, <1>3, <1>4, <2>2 DEF Total, Store
  <2>3. CASE st = "chip"
    BY <1>2, <1>3, <1>4, <2>3 DEF Total, Store
  <2>4. CASE st = "card"
    BY <1>2, <1>3, <1>4, <2>4 DEF Total, Store
  <2>5. CASE st = "drive"
    BY <1>2, <1>3, <1>4, <2>5 DEF Total, Store
  <2> QED BY <2>1, <2>2, <2>3, <2>4, <2>5 DEF Store
<1> QED BY <1>1, <1>5

-----------------------------------------------------------------------------
(* Files.                                                                  *)

(* What f has in excess of its log.                                        *)
Excess(f, logs) == IF f.open /\ f.live THEN f.lines - logs[f.store] ELSE 0
IsSound(f, logs) == f.open /\ f.live => f.store \in Store /\ logs[f.store] # NoFile

LEMMA ExcessIs ==
  ASSUME NEW logs \in Logs, NEW f \in Handles, IsSound(f, logs)
  PROVE  Excess(f, logs) \in Int
<1>1. f.lines \in Int
  BY DEF Handles
<1>2. CASE f.open /\ f.live
  <2>1. logs[f.store] \in Int
    BY <1>2 DEF IsSound, Logs, NoFile
  <2> QED BY <1>1, <1>2, <2>1 DEF Excess
<1>3. CASE ~ (f.open /\ f.live)
  BY <1>3 DEF Excess
<1> QED BY <1>2, <1>3

(* Closing a file moves its excess into its log, and no log disappears.    *)
LEMMA CommittedIs ==
  ASSUME FileInv
  PROVE  /\ Committed(dataFile) \in Logs
         /\ Total(Committed(dataFile)) = Total(log) + Unsaved(dataFile)
         /\ Unsaved(dataFile) \in Int /\ Total(log) \in Int
         /\ ~ dataFile.open => Committed(dataFile) = log
         /\ \A st \in Store :
              /\ log[st] # NoFile => Committed(dataFile)[st] # NoFile
              /\ LinesIn(Committed(dataFile), st) =
                   Lines(st) + (IF dataFile.store = st THEN Unsaved(dataFile) ELSE 0)
<1>1. log \in Logs /\ dataFile \in Handles /\ dataFile.lines \in Nat
  BY DEF FileInv, Handles
<1>2. Total(log) \in Int
  BY <1>1, TotalIs
<1>3. CASE dataFile.open /\ dataFile.live
  <2> DEFINE st == dataFile.store
  <2>1. st \in Store /\ log[st] # NoFile /\ log[st] \in Nat /\ dataFile.lines # NoFile
    BY <1>1, <1>3 DEF FileInv, Logs, NoFile
  <2>2. /\ Committed(dataFile) = [log EXCEPT ![st] = dataFile.lines]
        /\ Unsaved(dataFile) = dataFile.lines - log[st]
    BY <1>3 DEF Committed, Unsaved
  <2>3. LinesIn(log, st) = log[st]
    BY <2>1 DEF LinesIn
  <2>4. /\ Committed(dataFile) \in Logs
        /\ Total(Committed(dataFile)) = Total(log) - log[st] + dataFile.lines
    <3>1. dataFile.lines \in Nat \cup {NoFile}
      BY <1>1
    <3>2. LET new == [log EXCEPT ![st] = dataFile.lines]
          IN  /\ new \in Logs
              /\ Total(new) = Total(log) - LinesIn(log, st)
                              + (IF dataFile.lines = NoFile THEN 0 ELSE dataFile.lines)
      BY <1>1, <2>1, <3>1, TotalChanges
    <3> QED BY <2>1, <2>2, <2>3, <3>2
  <2>5. ASSUME NEW other \in Store
        PROVE  /\ log[other] # NoFile => Committed(dataFile)[other] # NoFile
               /\ LinesIn(Committed(dataFile), other) =
                    Lines(other) + (IF st = other THEN Unsaved(dataFile) ELSE 0)
    <3>1. CASE other = st
      <4>1. Committed(dataFile)[other] = dataFile.lines
        BY <1>1, <2>2, <3>1 DEF Logs
      <4> QED BY <1>1, <2>1, <2>2, <2>3, <3>1, <4>1 DEF LinesIn, Lines
    <3>2. CASE other # st
      <4>1. Committed(dataFile)[other] = log[other]
        BY <1>1, <2>2, <3>2 DEF Logs
      <4>2. LinesIn(log, other) \in Nat
        BY <1>1, LinesInIs
      <4> QED BY <3>2, <4>1, <4>2 DEF LinesIn, Lines
    <3> QED BY <3>1, <3>2
  <2>6. Unsaved(dataFile) \in Int /\ Total(Committed(dataFile)) = Total(log) + Unsaved(dataFile)
    BY <1>1, <1>2, <2>1, <2>2, <2>4
  <2> QED BY <1>2, <1>3, <2>4, <2>5, <2>6
<1>4. CASE ~ (dataFile.open /\ dataFile.live)
  <2>1. Committed(dataFile) = log /\ Unsaved(dataFile) = 0
    BY <1>4 DEF Committed, Unsaved
  <2>2. \A st \in Store : LinesIn(log, st) \in Nat
    BY <1>1, LinesInIs
  <2>3. Total(Committed(dataFile)) = Total(log) + Unsaved(dataFile)
    BY <1>2, <2>1
  <2> QED BY <1>1, <1>2, <2>1, <2>2, <2>3 DEF Lines
<1> QED BY <1>3, <1>4

(* A line printed to f.                                                    *)
LEMMA PrintLineIs ==
  ASSUME FileInv, NEW f \in Handles, NEW lost \in Int, PrintLine(f, lost),
         log' \in Logs, IsSound(f, log')
  PROVE  /\ dataFile' \in Handles /\ IsSound(dataFile', log')
         /\ record_count' \in Int /\ gone' \in Int
         /\ record_count' + Excess(f, log') + gone + lost = record_count + Excess(dataFile', log') + gone'
<1>1. f.lines \in Nat /\ record_count \in Int /\ gone \in Int
  BY DEF Handles, FileInv
<1>2. CASE f.open
  <2>1. dataFile' = [f EXCEPT !.lines = f.lines + 1] /\ record_count' = record_count + 1
    BY <1>2 DEF PrintLine
  <2>2. /\ dataFile'.open = f.open /\ dataFile'.live = f.live /\ dataFile'.store = f.store
        /\ dataFile'.lines = f.lines + 1
        /\ dataFile' \in Handles
    BY <1>1, <2>1 DEF Handles
  <2>3. CASE f.live
    <3>1. gone' = gone + lost + 0
      BY <1>2, <2>3 DEF PrintLine
    <3>2. f.store \in Store /\ log'[f.store] # NoFile /\ log'[f.store] \in Int
      BY <1>2, <2>3 DEF IsSound, Logs, NoFile
    <3>3. Excess(f, log') = f.lines - log'[f.store] /\ Excess(dataFile', log') = (f.lines + 1) - log'[f.store]
      <4>1. Excess(f, log') = f.lines - log'[f.store]
        BY <1>2, <2>3 DEF Excess
      <4>2. Excess(dataFile', log') = dataFile'.lines - log'[dataFile'.store]
        BY <1>2, <2>2, <2>3 DEF Excess
      <4>3. dataFile'.lines = f.lines + 1 /\ dataFile'.store = f.store
        BY <2>2
      <4> QED BY ONLY <4>1, <4>2, <4>3
    <3>4. IsSound(dataFile', log')
      BY <2>2, <3>2 DEF IsSound
    <3>5. record_count' + Excess(f, log') + gone + lost = record_count + Excess(dataFile', log') + gone'
      BY ONLY <1>1, <2>1, <3>1, <3>2, <3>3, lost \in Int
    <3> QED BY <1>1, <2>1, <2>2, <3>1, <3>4, <3>5
  <2>4. CASE ~ f.live
    <3>1. gone' = gone + lost + 1
      BY <1>2, <2>4 DEF PrintLine
    <3>2. Excess(f, log') = 0 /\ Excess(dataFile', log') = 0
      BY <2>2, <2>4 DEF Excess
    <3>3. IsSound(dataFile', log')
      BY <2>2, <2>4 DEF IsSound
    <3>4. record_count' + Excess(f, log') + gone + lost = record_count + Excess(dataFile', log') + gone'
      BY ONLY <1>1, <2>1, <3>1, <3>2, lost \in Int
    <3> QED BY <1>1, <2>1, <2>2, <3>1, <3>3, <3>4
  <2> QED BY <2>3, <2>4
<1>3. CASE ~ f.open
  <2>1. dataFile' = f /\ record_count' = record_count /\ gone' = gone + lost + 0
    BY <1>3 DEF PrintLine
  <2>2. Excess(f, log') = 0
    BY <1>3 DEF Excess
  <2> QED BY <1>1, <2>1, <2>2
<1> QED BY <1>2, <1>3

(* A log taken away, from under the open file if need be.                  *)
LEMMA FormatIs ==
  ASSUME FileInv, NEW st \in Store, Format(st)
  PROVE  /\ log' \in Logs /\ dataFile' \in Handles /\ IsSound(dataFile', log')
         /\ gone' \in Int /\ dataFile'.open = dataFile.open
         /\ Total(log') + Excess(dataFile', log') + gone' = Total(log) + Unsaved(dataFile) + gone
<1>1. log \in Logs /\ dataFile \in Handles /\ gone \in Int
  BY DEF FileInv
<1>2. Total(log) \in Int /\ Unsaved(dataFile) \in Int /\ Lines(st) \in Int
  BY <1>1, CommittedIs, LinesInIs DEF Lines
<1>3. log' = [log EXCEPT ![st] = NoFile]
  BY DEF Format
<1>4. log' \in Logs /\ Total(log') = Total(log) - Lines(st)
  <2>1. log' \in Logs /\ Total(log') = Total(log) - LinesIn(log, st) + 0
    BY <1>1, <1>3, TotalChanges
  <2> QED BY <1>2, <2>1 DEF Lines
<1>5. CASE dataFile.store = st
  <2>1. dataFile' = [dataFile EXCEPT !.live = FALSE] /\ gone' = gone + Lines(st) + Unsaved(dataFile)
    BY <1>5 DEF Format
  <2>2. dataFile' \in Handles /\ ~ dataFile'.live /\ dataFile'.open = dataFile.open
    BY <1>1, <2>1 DEF Handles
  <2>3. Excess(dataFile', log') = 0 /\ IsSound(dataFile', log')
    BY <2>2 DEF Excess, IsSound
  <2> QED BY <1>1, <1>2, <1>4, <2>1, <2>2, <2>3
<1>6. CASE dataFile.store # st
  <2>1. dataFile' = dataFile /\ gone' = gone + Lines(st) + 0
    BY <1>6 DEF Format
  <2>2. dataFile.open /\ dataFile.live => log'[dataFile.store] = log[dataFile.store]
    BY <1>1, <1>3, <1>6 DEF FileInv, Logs
  <2>3. Excess(dataFile', log') = Unsaved(dataFile) /\ IsSound(dataFile', log')
    BY <2>1, <2>2 DEF Excess, IsSound, Unsaved, FileInv
  <2> QED BY <1>1, <1>2, <1>4, <2>1, <2>3
<1> QED BY <1>5, <1>6

-----------------------------------------------------------------------------
(* The list of stores.                                                     *)

LEMMA StoresAddedIs ==
  ASSUME NEW sk \in Sketches, NEW there
  PROVE  /\ StoresAdded(sk, there) \in Seq(Store \ {"drive"})
         /\ 1 \in DOMAIN sk.setup.order /\ sk.setup.order[1] = "ram" /\ there["ram"] =>
              Len(StoresAdded(sk, there)) > 0
<1> DEFINE S == Store \ {"drive"}
           order == sk.setup.order
           Added(i) == IF i \in DOMAIN order /\ (there[order[i]] \/ order[i] \in sk.setup.always)
                       THEN <<order[i]>> ELSE <<>>
<1>1. order \in Seq(S)
  BY SketchFacts DEF Facts
<1>2. StoresAdded(sk, there) = ((Added(1) \o Added(2)) \o Added(3)) \o Added(4)
  BY DEF StoresAdded
<1> HIDE DEF S
<1>3. \A i \in Nat : Added(i) \in Seq(S)
  <2>1. TAKE i \in Nat
  <2>2. CASE i \in DOMAIN order
    <3>1. order[i] \in S
      BY <1>1, <2>2
    <3> QED BY <3>1
  <2>3. CASE i \notin DOMAIN order
    BY <2>3
  <2> QED BY <2>2, <2>3
<1>4. there["ram"] /\ 1 \in DOMAIN order /\ order[1] = "ram" => Len(Added(1)) = 1
  OBVIOUS
<1> HIDE DEF Added, order
<1>5. /\ Added(1) \in Seq(S) /\ Added(2) \in Seq(S) /\ Added(3) \in Seq(S) /\ Added(4) \in Seq(S)
  BY <1>3
<1>6. /\ Added(1) \o Added(2) \in Seq(S) /\ Len(Added(1) \o Added(2)) = Len(Added(1)) + Len(Added(2))
  BY <1>5, ConcatProperties
<1>7. /\ (Added(1) \o Added(2)) \o Added(3) \in Seq(S)
      /\ Len((Added(1) \o Added(2)) \o Added(3)) = Len(Added(1) \o Added(2)) + Len(Added(3))
  BY <1>5, <1>6, ConcatProperties
<1>8. /\ ((Added(1) \o Added(2)) \o Added(3)) \o Added(4) \in Seq(S)
      /\ Len(((Added(1) \o Added(2)) \o Added(3)) \o Added(4)) =
           Len((Added(1) \o Added(2)) \o Added(3)) + Len(Added(4))
  BY <1>5, <1>7, ConcatProperties
<1>9. /\ Len(Added(1)) \in Nat /\ Len(Added(2)) \in Nat /\ Len(Added(3)) \in Nat /\ Len(Added(4)) \in Nat
  BY <1>5, LenProperties
<1>10. Len(StoresAdded(sk, there)) =
         ((Len(Added(1)) + Len(Added(2))) + Len(Added(3))) + Len(Added(4))
  BY ONLY <1>2, <1>6, <1>7, <1>8
<1>11. Len(Added(1)) = 1 => Len(StoresAdded(sk, there)) > 0
  BY ONLY <1>9, <1>10
<1> QED BY <1>2, <1>4, <1>8, <1>11 DEF S, order

(* The list as setup leaves it.                                            *)
LEMMA SetupList ==
  ASSUME NEW sk \in Sketches, NEW there \in Found(sk), NEW l, l = StoresAdded(sk, there)
  PROVE  /\ l \in Seq(Store \cup {None})
         /\ \A i \in 1 .. Len(l) : l[i] \in Store /\ l[i] # "drive"
         /\ ~ there["drive"]
         /\ 1 \in DOMAIN sk.setup.order /\ sk.setup.order[1] = "ram" => 1 .. Len(l) # {}
<1>1. /\ ~ there["drive"]
      /\ there["ram"] = (\E i \in DOMAIN sk.setup.order : sk.setup.order[i] = "ram")
  BY DEF Found, Store
<1>2. l \in Seq(Store \ {"drive"}) /\ Len(l) \in Nat
  BY StoresAddedIs
<1>3. \A i \in 1 .. Len(l) : l[i] \in Store \ {"drive"}
  BY <1>2
<1>4. l \in Seq(Store \cup {None})
  BY <1>2, SeqMonotonic
<1>5. 1 \in DOMAIN sk.setup.order /\ sk.setup.order[1] = "ram" => 1 .. Len(l) # {}
  <2>1. SUFFICES ASSUME 1 \in DOMAIN sk.setup.order, sk.setup.order[1] = "ram" PROVE 1 .. Len(l) # {}
    OBVIOUS
  <2>2. there["ram"]
    BY <1>1, <2>1
  <2>3. Len(l) > 0
    BY <2>1, <2>2, StoresAddedIs
  <2>4. 1 \in 1 .. Len(l)
    BY <1>2, <2>3
  <2> QED BY <2>4
<1> QED BY <1>1, <1>3, <1>4, <1>5

(* addFilesystem finds the first slot that was emptied, or a new one.      *)
LEMMA SlotForIs ==
  ASSUME list \in Seq(Store \cup {None})
  PROVE  SlotFor \in 1 .. Len(list) + 1 /\ (SlotFor \in Slots => list[SlotFor] = None)
<1>1. Len(list) \in Nat
  OBVIOUS
<1> DEFINE Empty == {i \in Slots : list[i] = None}
           IsFirst(i) == /\ i \in Slots => list[i] = None
                         /\ \A j \in 1 .. i - 1 : list[j] # None
<1>2. \E i \in 1 .. Len(list) + 1 : IsFirst(i)
  <2>1. CASE Empty = {}
    <3>1. \A j \in 1 .. Len(list) : list[j] # None
      BY <2>1 DEF Slots
    <3>2. Len(list) + 1 \in 1 .. Len(list) + 1 /\ Len(list) + 1 \notin Slots /\ (Len(list) + 1) - 1 = Len(list)
      BY <1>1 DEF Slots
    <3>3. IsFirst(Len(list) + 1)
      BY <3>1, <3>2
    <3> QED BY <3>2, <3>3
  <2>2. CASE Empty # {}
    <3>1. Empty \subseteq Nat
      BY <1>1 DEF Slots
    <3>2. PICK i \in Empty : \A j \in Empty : i <= j
      BY <2>2, <3>1, LeastNatural
    <3>3. i \in 1 .. Len(list) + 1 /\ i \in Nat
      BY <1>1, <3>2 DEF Slots
    <3>4. \A j \in 1 .. i - 1 : j \in Slots /\ ~ (i <= j)
      BY <1>1, <3>2, <3>3 DEF Slots
    <3>5. IsFirst(i)
      BY <3>2, <3>4
    <3> QED BY <3>3, <3>5
  <2> QED BY <2>1, <2>2
<1>3. SlotFor = CHOOSE i \in 1 .. Len(list) + 1 : IsFirst(i)
  BY DEF SlotFor
<1> QED BY <1>2, <1>3

-----------------------------------------------------------------------------
(* What each action leaves alone.                                          *)

LEMMA SketchStays ==
  ASSUME Next
  PROVE  sketch' = sketch
BY DEF Next, Commands, Select, ListFiles, Start, Stop, Dump, EraseFiles, LowLevelFormat,
   ResetCommand, Unmount, CommandRead, NoCommand, LogData, Watch, MediumChanges, NoRequest,
   HostLooks, HostDeletes, Respond, Restart

(* The actions, and the branches of commands, that touch no file.          *)
FilesStay ==
  /\ log' = log /\ dataFile' = dataFile /\ gone' = gone
  /\ record_count' = record_count /\ write_data' = write_data

(* The file system an erase or a format is about.                          *)
LEMMA ErasedIs ==
  ASSUME LoggersInv
  PROVE  /\ myfs # None => Erased \in Store
         /\ Has("format") => myfs \in Store
<1>1. sketch \in Sketches /\ myfs \in Store \cup {None} /\ Facts(sketch)
  BY SketchFacts DEF LoggersInv, ChoiceInv
<1>2. Has("format") => myfs \in Store
  BY <1>1 DEF LoggersInv, ChoiceInv
<1>3. CASE sketch.name = "USB_SPI_MTP-logger"
  <2>1. /\ sketch.loop.select = "listed" /\ ~ Watches("drive")
        /\ 1 \in DOMAIN sketch.setup.order /\ sketch.setup.order[1] = "ram"
    BY <1>1, <1>3 DEF Facts, Watches
  <2>2. NoneListed /\ Slots # {} /\ list \in Seq(Store \cup {None})
    BY <2>1 DEF LoggersInv, ListInv
  <2>3. Len(list) \in Nat
    BY <2>2
  <2>4. 1 \in Slots
    BY <2>2, <2>3 DEF Slots
  <2>5. current \in Slots
    BY <2>1, <2>4 DEF LoggersInv, ChoiceInv
  <2>6. list[current] \in Store \cup {None} /\ list[current] # None
    BY <2>2, <2>5 DEF Slots, NoneListed
  <2>7. Erased = list[current]
    BY <1>3, <2>1, <2>5 DEF Erased, StoreAt
  <2> QED BY <1>2, <2>6, <2>7
<1>4. CASE sketch.name # "USB_SPI_MTP-logger"
  BY <1>1, <1>2, <1>4 DEF Erased
<1> QED BY <1>3, <1>4

(* A step touches no file, starts logging, closes, takes a log away,       *)
(* prints, loses a medium, or begins anew.                                 *)
LEMMA Kinds ==
  ASSUME LoggersInv, Next
  PROVE  \/ FilesStay
         \/ Start /\ myfs \in Store /\ myfs # None
         \/ (Stop \/ Dump) /\ log' = Committed(dataFile) /\ dataFile' = Closed
         \/ /\ \E st \in Store : Format(st)
            /\ record_count' = record_count /\ write_data' = write_data
         \/ LogData
         \/ \E st \in {"card", "drive"} : MediumChanges(st)
         \/ Restart
<1>1. myfs \in Store \cup {None}
  BY DEF LoggersInv, ChoiceInv
<1>2. CASE \/ \E n \in 1 .. Len(list) + 1 : Select(n)
           \/ ListFiles \/ ResetCommand \/ Unmount
           \/ NoCommand \/ Watch \/ NoRequest \/ HostLooks
  BY <1>2 DEF Select, ListFiles, Fault, ResetCommand, Unmount, NoCommand, Watch, NoRequest,
     HostLooks, Respond, files, FilesStay
<1>3. CASE Start
  BY <1>1, <1>3 DEF Start, Fault, files, FilesStay
<1>4. CASE Stop
  BY <1>4 DEF Stop
<1>5. CASE Dump
  BY <1>5 DEF Dump, Fault, files, FilesStay
<1>6. CASE EraseFiles
  BY <1>6, ErasedIs DEF EraseFiles, Fault, files, FilesStay
<1>7. CASE LowLevelFormat
  BY <1>7, ErasedIs DEF LowLevelFormat, CommandRead, files, FilesStay
<1>8. CASE \E st \in Store : HostDeletes(st)
  BY <1>8 DEF HostDeletes, Respond
<1>9. CASE LogData \/ (\E st \in {"card", "drive"} : MediumChanges(st)) \/ Restart
  BY <1>9
<1> QED BY <1>2, <1>3, <1>4, <1>5, <1>6, <1>7, <1>8, <1>9 DEF Next, Commands

-----------------------------------------------------------------------------
(* The parts of the invariant, step by step.                               *)

LEMMA SumCarried ==
  ASSUME NEW total \in Int, NEW unsaved \in Int, NEW g \in Int, NEW lost \in Int,
         NEW r1 \in Int, NEW e1 \in Int, NEW g1 \in Int,
         NEW r, r = total + unsaved + g,
         NEW t1, t1 = total + unsaved,
         NEW e, e = 0 - lost,
         r1 + e + g + lost = r + e1 + g1
  PROVE  r1 = t1 + e1 + g1
OBVIOUS

LEMMA FileStep ==
  ASSUME LoggersInv, Next
  PROVE  FileInv' /\ Accounted'
<1>1. /\ log \in Logs /\ dataFile \in Handles /\ IsSound(dataFile, log)
      /\ record_count \in Int /\ gone \in Int
      /\ Unsaved(dataFile) = Excess(dataFile, log)
      /\ record_count = Total(log) + Unsaved(dataFile) + gone
      /\ FileInv
  BY DEF LoggersInv, FileInv, IsSound, Unsaved, Excess, Accounted
<1>2. Total(log) \in Int /\ Unsaved(dataFile) \in Int
  BY <1>1, CommittedIs
<1>3. ASSUME log' \in Logs, dataFile' \in Handles, IsSound(dataFile', log'),
             record_count' \in Int, gone' \in Int,
             record_count' = Total(log') + Excess(dataFile', log') + gone'
      PROVE  FileInv' /\ Accounted'
  <2>1. Unsaved(dataFile)' = Excess(dataFile', log') /\ Total(log)' = Total(log')
    BY DEF Unsaved, Excess, Total, LinesIn
  <2> QED BY <1>3, <2>1 DEF FileInv, IsSound, Accounted
<1>4. Closed \in Handles /\ ~ Closed.open
  BY DEF Closed, Handles, None
<1>5. CASE FilesStay
  BY <1>1, <1>3, <1>5 DEF FilesStay
<1>6. CASE Start /\ myfs \in Store /\ myfs # None
  <2>1. CASE present[myfs]
    <3> DEFINE f == Opened(myfs, Lines(myfs))
               lost == IF dataFile.store = myfs THEN Unsaved(dataFile) ELSE 0
               old == Committed(dataFile)
               n == IF old[myfs] = NoFile THEN 0 ELSE old[myfs]
    <3>1. log' = [old EXCEPT ![myfs] = n] /\ PrintLine(f, lost)
      BY <1>6, <2>1 DEF Start, Fault
    <3>2. /\ old \in Logs /\ Total(old) = Total(log) + Unsaved(dataFile)
          /\ LinesIn(old, myfs) = Lines(myfs) + lost
      BY <1>1, <1>6, CommittedIs
    <3>3. lost \in Int /\ Lines(myfs) \in Nat
      BY <1>1, <1>2, <1>6, LinesInIs DEF Lines
    <3>4. f \in Handles /\ f.open /\ f.live /\ f.store = myfs /\ f.lines = Lines(myfs)
      BY <1>6, <3>3 DEF Opened, Handles
    <3>5. n \in Nat /\ n = LinesIn(old, myfs)
      BY <1>6, <3>2, LinesInIs DEF LinesIn
    <3> HIDE DEF f, lost, old, n
    <3>6. log' \in Logs /\ log'[myfs] = n /\ Total(log') = Total(old)
      <4>1. LET new == [old EXCEPT ![myfs] = n]
            IN  /\ new \in Logs /\ new[myfs] = n
                /\ Total(new) = Total(old) - LinesIn(old, myfs) + (IF n = NoFile THEN 0 ELSE n)
        BY <1>6, <3>2, <3>5, TotalChanges
      <4>2. (IF n = NoFile THEN 0 ELSE n) = n /\ Total(old) \in Int
        BY <3>2, <3>5, TotalIs DEF NoFile
      <4> QED BY <3>1, <3>5, <4>1, <4>2
    <3>7. IsSound(f, log') /\ Excess(f, log') = Lines(myfs) - n
      BY <1>6, <3>4, <3>5, <3>6 DEF IsSound, Excess, NoFile
    <3>8. /\ dataFile' \in Handles /\ IsSound(dataFile', log')
          /\ record_count' \in Int /\ gone' \in Int
          /\ record_count' + Excess(f, log') + gone + lost = record_count + Excess(dataFile', log') + gone'
      BY <1>1, <3>1, <3>3, <3>4, <3>6, <3>7, PrintLineIs
    <3>9. Excess(dataFile', log') \in Int /\ Total(log') \in Int
      BY <3>6, <3>8, ExcessIs, TotalIs
    <3>10. record_count' = Total(log') + Excess(dataFile', log') + gone'
      <4>1. Excess(f, log') = 0 - lost
        BY ONLY <3>2, <3>3, <3>5, <3>7
      <4>2. Total(log') = Total(log) + Unsaved(dataFile)
        BY ONLY <3>2, <3>6
      <4>3. /\ record_count \in Int /\ gone \in Int
            /\ record_count = Total(log) + Unsaved(dataFile) + gone
        BY <1>1
      <4>4. record_count' \in Int /\ gone' \in Int
        BY <3>8
      <4>5. record_count' + Excess(f, log') + gone + lost = record_count + Excess(dataFile', log') + gone'
        BY <3>8
      <4>6. lost \in Int /\ Excess(dataFile', log') \in Int
        BY <3>3, <3>9
      <4> QED BY <1>2, <4>1, <4>2, <4>3, <4>4, <4>5, <4>6, SumCarried
    <3> QED BY <1>3, <3>6, <3>8, <3>10
  <2>2. CASE ~ present[myfs]
    <3>1. log' = Committed(dataFile) /\ PrintLine(Closed, 0)
      BY <1>6, <2>2 DEF Start, Fault
    <3>2. log' \in Logs /\ Total(log') = Total(log) + Unsaved(dataFile)
      BY <1>1, <3>1, CommittedIs
    <3>3. IsSound(Closed, log') /\ Excess(Closed, log') = 0
      BY <1>4 DEF IsSound, Excess
    <3>4. /\ dataFile' \in Handles /\ IsSound(dataFile', log')
          /\ record_count' \in Int /\ gone' \in Int
          /\ record_count' + Excess(Closed, log') + gone + 0 = record_count + Excess(dataFile', log') + gone'
      BY <1>1, <1>4, <3>1, <3>2, <3>3, PrintLineIs
    <3>5. Excess(dataFile', log') \in Int /\ Total(log') \in Int
      BY <3>2, <3>4, ExcessIs, TotalIs
    <3>6. record_count' = Total(log') + Excess(dataFile', log') + gone'
      BY ONLY <1>1, <1>2, <3>2, <3>3, <3>4, <3>5
    <3> QED BY <1>3, <3>2, <3>4, <3>6
  <2> QED BY <2>1, <2>2
<1>7. CASE (Stop \/ Dump) /\ log' = Committed(dataFile) /\ dataFile' = Closed
  <2>1. gone' = gone /\ record_count' = record_count
    BY <1>7 DEF Stop, Dump, Fault, files
  <2>2. log' \in Logs /\ Total(log') = Total(log) + Unsaved(dataFile)
    BY <1>1, <1>7, CommittedIs
  <2>3. dataFile' \in Handles /\ IsSound(dataFile', log') /\ Excess(dataFile', log') = 0
    BY <1>4, <1>7 DEF IsSound, Excess
  <2>4. record_count' = Total(log') + Excess(dataFile', log') + gone'
    BY ONLY <1>1, <1>2, <2>1, <2>2, <2>3
  <2> QED BY <1>1, <1>3, <2>1, <2>2, <2>3, <2>4
<1>8. CASE /\ \E st \in Store : Format(st)
           /\ record_count' = record_count /\ write_data' = write_data
  <2>1. PICK st \in Store : Format(st)
    BY <1>8
  <2>2. /\ log' \in Logs /\ dataFile' \in Handles /\ IsSound(dataFile', log') /\ gone' \in Int
        /\ Total(log') + Excess(dataFile', log') + gone' = Total(log) + Unsaved(dataFile) + gone
    BY <1>1, <2>1, FormatIs
  <2> QED BY <1>1, <1>3, <1>8, <2>2
<1>9. CASE LogData
  <2>1. CASE write_data
    <3>1. log' = log /\ PrintLine(dataFile, 0)
      BY <1>9, <2>1 DEF LogData
    <3>2. /\ dataFile' \in Handles /\ IsSound(dataFile', log')
          /\ record_count' \in Int /\ gone' \in Int
          /\ record_count' + Excess(dataFile, log') + gone + 0 = record_count + Excess(dataFile', log') + gone'
      BY <1>1, <3>1, PrintLineIs
    <3>3. Excess(dataFile', log') \in Int
      BY <1>1, <3>1, <3>2, ExcessIs
    <3>4. record_count' = Total(log') + Excess(dataFile', log') + gone'
      BY ONLY <1>1, <1>2, <3>1, <3>2, <3>3
    <3> QED BY <1>1, <1>3, <3>1, <3>2, <3>4
  <2>2. CASE ~ write_data
    <3>1. log' = log /\ dataFile' = dataFile /\ gone' = gone /\ record_count' = record_count
      BY <1>9, <2>2 DEF LogData
    <3> QED BY <1>1, <1>3, <3>1
  <2> QED BY <2>1, <2>2
<1>10. CASE \E st \in {"card", "drive"} : MediumChanges(st)
  <2>1. PICK st \in {"card", "drive"} : MediumChanges(st)
    BY <1>10
  <2>2. log' = log /\ record_count' = record_count
    BY <2>1 DEF MediumChanges
  <2>3. CASE dataFile.store = st
    <3>1. gone' = gone + Unsaved(dataFile) /\ dataFile' = [dataFile EXCEPT !.live = FALSE]
      BY <2>1, <2>3 DEF MediumChanges
    <3>2. dataFile' \in Handles /\ ~ dataFile'.live
      BY <1>1, <3>1 DEF Handles
    <3>3. Excess(dataFile', log') = 0 /\ IsSound(dataFile', log')
      BY <3>2 DEF Excess, IsSound
    <3>4. gone' \in Int /\ record_count' = Total(log') + Excess(dataFile', log') + gone'
      BY ONLY <1>1, <1>2, <2>2, <3>1, <3>3
    <3> QED BY <1>1, <1>3, <2>2, <3>2, <3>3, <3>4
  <2>4. CASE dataFile.store # st
    <3>1. gone' = gone /\ dataFile' = dataFile
      BY <2>1, <2>4 DEF MediumChanges
    <3> QED BY <1>1, <1>3, <2>2, <3>1
  <2> QED BY <2>3, <2>4
<1>11. CASE Restart
  <2>1. log' = [log EXCEPT !["ram"] = NoFile] /\ gone' = - Total(log')
        /\ dataFile' = Closed /\ record_count' = 0
    BY <1>11 DEF Restart
  <2>2. log' \in Logs /\ Total(log') \in Int
    <3>1. log' \in Logs
      BY <1>1, <2>1 DEF Logs
    <3> QED BY <3>1, TotalIs
  <2>3. dataFile' \in Handles /\ IsSound(dataFile', log') /\ Excess(dataFile', log') = 0
    BY <1>4, <2>1 DEF IsSound, Excess
  <2>4. record_count' \in Int /\ gone' \in Int
        /\ record_count' = Total(log') + Excess(dataFile', log') + gone'
    BY ONLY <2>1, <2>2, <2>3
  <2> QED BY <1>3, <2>2, <2>3, <2>4
<1> QED BY <1>5, <1>6, <1>7, <1>8, <1>9, <1>10, <1>11, Kinds

LEMMA WritingStep ==
  ASSUME LoggersInv, Next
  PROVE  WritingInv'
<1>1. sketch' = sketch
  BY SketchStays
<1>2. (write_data => Has("start")) /\ (~ write_data => ~ dataFile.open) /\ dataFile \in Handles
  BY DEF LoggersInv, WritingInv, FileInv
<1>3. ASSUME write_data' => write_data \/ Has("start"),
             ~ write_data' => ~ dataFile'.open
      PROVE  WritingInv'
  BY <1>1, <1>2, <1>3 DEF WritingInv, Has
<1>4. CASE FilesStay
  BY <1>2, <1>3, <1>4 DEF FilesStay
<1>5. CASE Start /\ myfs \in Store /\ myfs # None
  BY <1>3, <1>5 DEF Start, Fault, CommandRead
<1>6. CASE (Stop \/ Dump) /\ log' = Committed(dataFile) /\ dataFile' = Closed
  BY <1>2, <1>3, <1>6 DEF Stop, Dump, Fault, Closed
<1>7. CASE /\ \E st \in Store : Format(st)
           /\ record_count' = record_count /\ write_data' = write_data
  BY <1>2, <1>3, <1>7, FormatIs DEF LoggersInv
<1>8. CASE LogData
  BY <1>2, <1>3, <1>8 DEF LogData
<1>9. CASE \E st \in {"card", "drive"} : MediumChanges(st)
  <2>1. PICK st \in {"card", "drive"} : MediumChanges(st)
    BY <1>9
  <2>2. write_data' = write_data
        /\ (dataFile' = dataFile \/ dataFile' = [dataFile EXCEPT !.live = FALSE])
    BY <2>1 DEF MediumChanges
  <2>3. dataFile'.open = dataFile.open
    BY <1>2, <2>2 DEF Handles
  <2> QED BY <1>2, <1>3, <2>2, <2>3
<1>10. CASE Restart
  BY <1>3, <1>10 DEF Restart, Closed
<1> QED BY <1>4, <1>5, <1>6, <1>7, <1>8, <1>9, <1>10, Kinds

(* A drive takes a slot that was emptied or a new one, or empties its own. *)
LEMMA CheckDriveIs ==
  ASSUME ListInv, CheckDrive
  PROVE  /\ list' \in Seq(Store \cup {None}) /\ Len(list) <= Len(list')
         /\ Listed("drive")' <=> present["drive"]
         /\ \A i \in Slots : \/ list'[i] = list[i]
                             \/ list[i] = None /\ list'[i] = "drive"
                             \/ list[i] = "drive" /\ list'[i] = None
<1>1. list \in Seq(Store \cup {None}) /\ Len(list) \in Nat
  BY DEF ListInv
<1>2. "drive" \in Store \cup {None} /\ None \in Store \cup {None} /\ None # "drive"
  BY DEF Store, None
<1>3. \A i \in Slots : list[i] \in Store \cup {None}
  BY <1>1 DEF Slots
<1>4. CASE present["drive"] /\ ~ Listed("drive")
  <2> DEFINE top == IF SlotFor \in Slots THEN Len(list) ELSE Len(list) + 1
             new == [i \in 1 .. top |-> IF i = SlotFor THEN "drive" ELSE list[i]]
  <2>1. SlotFor \in 1 .. Len(list) + 1 /\ (SlotFor \in Slots => list[SlotFor] = None)
    BY <1>1, SlotForIs
  <2>2. top \in Nat /\ Len(list) <= top /\ 1 .. top = Slots \cup {SlotFor} /\ SlotFor \in 1 .. top
    <3>1. CASE SlotFor \in Slots
      BY <1>1, <3>1 DEF Slots
    <3>2. CASE SlotFor \notin Slots
      BY <1>1, <2>1, <3>2 DEF Slots
    <3> QED BY <3>1, <3>2
  <2>3. list' = new
    <3>1. list' = [i \in Slots \cup {SlotFor} |-> IF i = SlotFor THEN "drive" ELSE list[i]]
      BY <1>4 DEF CheckDrive, Slots
    <3> QED BY <2>2, <3>1
  <2>4. \A i \in 1 .. top : new[i] \in Store \cup {None}
    <3>1. TAKE i \in 1 .. top
    <3>2. i \in Slots \/ i = SlotFor
      BY <2>2
    <3> QED BY <1>2, <1>3, <3>2
  <2>5. new \in Seq(Store \cup {None}) /\ Len(new) = top
    <3> HIDE DEF top
    <3>1. new \in [1 .. top -> Store \cup {None}]
      BY <2>4
    <3> QED BY <2>2, <3>1
  <2>6. new[SlotFor] = "drive" /\ \A i \in Slots : i # SlotFor => new[i] = list[i]
    BY <2>2
  <2> HIDE DEF new, top
  <2>7. Listed("drive")'
    BY <2>2, <2>3, <2>5, <2>6 DEF Listed, Slots
  <2>8. \A i \in Slots : list'[i] = list[i] \/ (list[i] = None /\ list'[i] = "drive")
    BY <2>1, <2>3, <2>6
  <2> QED BY <1>4, <2>2, <2>3, <2>5, <2>7, <2>8
<1>5. CASE ~ present["drive"] /\ Listed("drive")
  <2> DEFINE new == [i \in 1 .. Len(list) |-> IF list[i] = "drive" THEN None ELSE list[i]]
  <2>1. list' = new
    BY <1>5 DEF CheckDrive, Slots
  <2>2. \A i \in 1 .. Len(list) : new[i] \in Store \cup {None} /\ new[i] # "drive"
    BY <1>2, <1>3 DEF Slots
  <2>3. new \in Seq(Store \cup {None}) /\ Len(new) = Len(list)
    <3>1. new \in [1 .. Len(list) -> Store \cup {None}]
      BY <2>2
    <3> QED BY <1>1, <3>1
  <2>4. \A i \in Slots : new[i] = list[i] \/ (list[i] = "drive" /\ new[i] = None)
    BY DEF Slots
  <2> HIDE DEF new
  <2>5. ~ Listed("drive")'
    BY <2>1, <2>2, <2>3 DEF Listed, Slots
  <2> QED BY <1>1, <1>5, <2>1, <2>3, <2>4, <2>5
<1>6. CASE (present["drive"] /\ Listed("drive")) \/ (~ present["drive"] /\ ~ Listed("drive"))
  <2>1. list' = list
    BY <1>6 DEF CheckDrive
  <2> QED BY <1>1, <1>6, <2>1 DEF Listed, Slots
<1> QED BY <1>4, <1>5, <1>6

(* The media and the list change in a few actions only.                    *)
LEMMA MediaKinds ==
  ASSUME Next
  PROVE  \/ /\ list' = list /\ connected' = connected
            /\ present' = present \/ present' = [present EXCEPT !["chip"] = FALSE]
         \/ Watch \/ (\E st \in {"card", "drive"} : MediumChanges(st)) \/ Restart
BY DEF Next, Commands, Select, ListFiles, Start, Stop, Dump, EraseFiles, LowLevelFormat,
   ResetCommand, Unmount, CommandRead, NoCommand, LogData, NoRequest, HostLooks, HostDeletes,
   Respond, media

LEMMA ListStep ==
  ASSUME LoggersInv, Next
  PROVE  ListInv'
<1>1. ListInv /\ sketch' = sketch /\ sketch \in Sketches
  BY SketchStays DEF LoggersInv, ChoiceInv
<1>2. /\ list \in Seq(Store \cup {None}) /\ Len(list) \in Nat
      /\ present \in [Store -> BOOLEAN] /\ connected \in [Store -> BOOLEAN]
  BY <1>1 DEF ListInv
<1>3. current' \in Nat
  <2>1. current' = current \/ current' = 1 \/ \E n \in 1 .. Len(list) + 1 : current' = n
    BY DEF Next, Commands, Select, ListFiles, Fault, Start, Stop, Dump, EraseFiles, LowLevelFormat,
       ResetCommand, Unmount, NoCommand, LogData, Watch, MediumChanges, NoRequest, HostLooks,
       HostDeletes, Respond, Restart, choice
  <2> QED BY <1>1, <1>2, <2>1 DEF ListInv
<1>4. CASE /\ list' = list /\ connected' = connected
           /\ present' = present \/ present' = [present EXCEPT !["chip"] = FALSE]
  <2>1. present' \in [Store -> BOOLEAN] /\ (present'["chip"] => present["chip"])
    BY <1>2, <1>4
  <2> QED BY <1>1, <1>3, <1>4, <2>1 DEF ListInv, Listed, Slots, NoneListed, Watches
<1>5. CASE Watch
  <2>1. present' = present
    BY <1>5 DEF Watch
  <2>2. CASE CheckCard
    <3>1. connected' = [connected EXCEPT !["card"] = present["card"]] /\ list' = list
      BY <2>2 DEF CheckCard
    <3>2. /\ connected' \in [Store -> BOOLEAN] /\ connected'["drive"] = connected["drive"]
          /\ connected'["chip"] = connected["chip"]
      BY <1>2, <3>1 DEF Store
    <3> QED BY <1>1, <1>3, <2>1, <3>1, <3>2 DEF ListInv, Listed, Slots, NoneListed, Watches
  <2>3. CASE CheckDrive
    <3>1. connected' = [connected EXCEPT !["drive"] = present["drive"]] /\ Watches("drive")
      BY <2>3 DEF CheckDrive, Watches
    <3>2. /\ connected' \in [Store -> BOOLEAN] /\ connected'["drive"] = present["drive"]
          /\ connected'["chip"] = connected["chip"]
      BY <1>2, <3>1 DEF Store
    <3>3. /\ list' \in Seq(Store \cup {None}) /\ Len(list) <= Len(list')
          /\ Listed("drive")' <=> present["drive"]
      BY <1>1, <2>3, CheckDriveIs
    <3>4. Slots # {} => Slots' # {}
      <4>1. Len(list') \in Nat
        BY <3>3
      <4>2. Slots # {} => 1 \in 1 .. Len(list')
        BY <1>2, <3>3, <4>1 DEF Slots
      <4> QED BY <4>2 DEF Slots
    <3>5. connected'["drive"] <=> Listed("drive")'
      BY <3>2, <3>3
    <3>6. present'["chip"] => connected'["chip"]
      BY <1>1, <2>1, <3>2 DEF ListInv
    <3>7. Watches("drive")'
      BY <1>1, <3>1 DEF Watches
    <3>8. (1 \in DOMAIN sketch.setup.order /\ sketch.setup.order[1] = "ram" => Slots # {})'
      BY <1>1, <3>4 DEF ListInv
    <3> QED BY <1>2, <1>3, <2>1, <3>2, <3>3, <3>5, <3>6, <3>7, <3>8 DEF ListInv
  <2> QED BY <1>5, <2>2, <2>3 DEF Watch
<1>6. CASE \E st \in {"card", "drive"} : MediumChanges(st)
  <2>1. PICK st \in {"card", "drive"} : MediumChanges(st)
    BY <1>6
  <2>2. present' = [present EXCEPT ![st] = ~ present[st]] /\ list' = list /\ connected' = connected
    BY <2>1 DEF MediumChanges
  <2>3. present' \in [Store -> BOOLEAN] /\ present'["chip"] = present["chip"]
    BY <1>2, <2>1, <2>2 DEF Store
  <2> QED BY <1>1, <1>3, <2>2, <2>3 DEF ListInv, Listed, Slots, NoneListed, Watches
<1>7. CASE Restart
  <2>1. present' \in Found(sketch) /\ connected' = present' /\ list' = StoresAdded(sketch, present')
    BY <1>7 DEF Restart
  <2>2. /\ list' \in Seq(Store \cup {None})
        /\ \A i \in 1 .. Len(list') : list'[i] \in Store /\ list'[i] # "drive"
        /\ ~ present'["drive"]
        /\ 1 \in DOMAIN sketch.setup.order /\ sketch.setup.order[1] = "ram" => 1 .. Len(list') # {}
    BY <1>1, <2>1, SetupList
  <2>3. present' \in [Store -> BOOLEAN]
    BY <2>1 DEF Found
  <2>4. None \notin Store
    BY DEF Store, None
  <2> QED BY <1>1, <1>3, <2>1, <2>2, <2>3, <2>4 DEF ListInv, Listed, Slots, NoneListed
<1> QED BY <1>4, <1>5, <1>6, <1>7, MediaKinds

(* What is chosen changes when a store is selected, and after a restart.   *)
LEMMA ChoiceStep ==
  ASSUME LoggersInv, Next
  PROVE  ChoiceInv'
<1>1. ListInv /\ ChoiceInv /\ sketch' = sketch /\ sketch \in Sketches /\ Facts(sketch)
  BY SketchStays, SketchFacts DEF LoggersInv, ChoiceInv
<1>2. list \in Seq(Store \cup {None}) /\ \A i \in Slots : list[i] \in Store \cup {None}
  BY <1>1 DEF ListInv, Slots
<1>3. None \notin Store /\ "card" \in Store /\ "chip" \in Store /\ None # "drive"
  BY DEF Store, None
<1>4. CASE \E n \in 1 .. Len(list) + 1 : Select(n)
  <2>1. PICK n \in 1 .. Len(list) + 1 : Select(n)
    BY <1>4
  <2>2. list' = list
    BY <2>1 DEF Select, CommandRead
  <2>3. CASE Accepted(n)
    <3>1. myfs' = StoreAt(n) /\ current' = n
      BY <2>1, <2>3 DEF Select
    <3>2. myfs' \in Store \cup {None}
      BY <1>2, <1>3, <3>1 DEF StoreAt
    <3>3. ASSUME sketch.loop.select = "listed"
          PROVE  n \in Slots /\ myfs' = list[n]
      BY <2>3, <3>1, <3>3 DEF Accepted, StoreAt
    <3>4. ASSUME Has("format") PROVE myfs' # None
      <4>1. sketch.loop.select = "listed" /\ NoneListed
        BY <1>1, <3>4 DEF Facts, Has, Watches, ListInv
      <4> QED BY <3>3, <4>1 DEF NoneListed
    <3> QED BY <1>1, <2>2, <3>1, <3>2, <3>3, <3>4 DEF ChoiceInv, Has, Slots
  <2>4. CASE ~ Accepted(n)
    BY <1>1, <2>1, <2>2, <2>4 DEF Select, choice, ChoiceInv, Has, Slots
  <2> QED BY <2>3, <2>4
<1>5. CASE Restart
  <2>1. myfs' = sketch.setup.first /\ current' = 1
    BY <1>5 DEF Restart
  <2>2. myfs' \in Store \cup {None} /\ (Has("format") => myfs' # None)
    BY <1>1, <2>1 DEF Facts, Has
  <2> QED BY <1>1, <2>1, <2>2 DEF ChoiceInv, Has
<1>6. CASE UNCHANGED choice
  <2>1. myfs' = myfs /\ current' = current
    BY <1>6 DEF choice
  <2>2. CASE list' = list
    BY <1>1, <2>1, <2>2 DEF ChoiceInv, Has, Slots
  <2>3. CASE CheckDrive
    <3>1. /\ list' \in Seq(Store \cup {None}) /\ Len(list) <= Len(list')
          /\ \A i \in Slots : \/ list'[i] = list[i]
                              \/ list[i] = None /\ list'[i] = "drive"
                              \/ list[i] = "drive" /\ list'[i] = None
      BY <1>1, <2>3, CheckDriveIs
    <3>2. \A i \in Slots : i \in Slots'
      <4>1. Len(list) \in Nat /\ Len(list') \in Nat
        BY <1>2, <3>1
      <4> QED BY <3>1, <4>1 DEF Slots
    <3>3. ASSUME sketch.loop.select = "listed"
          PROVE  /\ current \in Slots' \/ (current = 1 /\ myfs = sketch.setup.first)
                 /\ current \in Slots' => \/ myfs \in {None, list'[current]}
                                          \/ list'[current] = None /\ myfs = "drive"
                                          \/ current = 1 /\ myfs = sketch.setup.first
      <4>1. CASE current \in Slots
        BY <1>1, <1>3, <3>1, <3>2, <3>3, <4>1 DEF ChoiceInv
      <4>2. CASE current \notin Slots
        BY <1>1, <3>3, <4>2 DEF ChoiceInv
      <4> QED BY <4>1, <4>2
    <3> QED BY <1>1, <2>1, <3>3 DEF ChoiceInv, Has
  <2>4. list' = list \/ CheckDrive \/ Restart
    BY MediaKinds DEF Watch, CheckCard, MediumChanges
  <2> QED BY <1>5, <2>2, <2>3, <2>4
<1>7. (\E n \in 1 .. Len(list) + 1 : Select(n)) \/ Restart \/ UNCHANGED choice
  BY DEF Next, Commands, ListFiles, Fault, Start, Stop, Dump, EraseFiles, LowLevelFormat,
     ResetCommand, Unmount, NoCommand, LogData, Watch, MediumChanges, NoRequest, HostLooks,
     HostDeletes, Respond
<1> QED BY <1>4, <1>5, <1>6, <1>7

(* After every step: either an event is under way, or the host has seen    *)
(* what there is.                                                          *)
LEMMA SeesLogStep ==
  ASSUME LoggersInv, Next,
         ~ write_data', ~ news', present' = connected', pc' # "fault"
  PROVE  \A st \in Offered' : shown'[st] = log'[st]
<1>1. FileInv /\ WritingInv /\ ListInv /\ NewsInv /\ Facts(sketch)
  BY SketchFacts DEF LoggersInv, ChoiceInv
<1>2. shown \in Logs /\ log \in Logs /\ present \in [Store -> BOOLEAN] /\ connected \in [Store -> BOOLEAN]
  BY <1>1 DEF NewsInv, FileInv, ListInv
<1>3. ASSUME ~ write_data, ~ news, present = connected, pc # "fault",
             Offered' \subseteq Offered, log' = log, shown' = shown
      PROVE  \A st \in Offered' : shown'[st] = log'[st]
  BY <1>1, <1>3 DEF NewsInv, HostSeesLog
<1>4. ASSUME list' = list, present' = present PROVE Offered' = Offered
  BY <1>4 DEF Offered, Listed, Slots
<1>5. ~ write_data => Committed(dataFile) = log
  BY <1>1, CommittedIs DEF WritingInv
<1>6. CASE \/ \E n \in 1 .. Len(list) + 1 : Select(n)
           \/ ListFiles \/ NoCommand \/ NoRequest \/ LogData
  <2>1. /\ pc # "fault" /\ write_data' = write_data /\ news' = news
        /\ list' = list /\ connected' = connected /\ log' = log /\ shown' = shown
    BY <1>6 DEF Select, ListFiles, Fault, CommandRead, NoCommand, NoRequest, Respond, NothingTyped,
       LogData, files, media
  <2>2. present' = present
    BY <1>6 DEF Select, ListFiles, CommandRead, NoCommand, NoRequest, Respond, LogData, media
  <2> QED BY <1>3, <1>4, <2>1, <2>2
<1>7. CASE Unmount
  <2>1. /\ pc # "fault" /\ write_data' = write_data /\ news' = news
        /\ list' = list /\ connected' = connected /\ log' = log /\ shown' = shown
        /\ present' = [present EXCEPT !["chip"] = FALSE]
    BY <1>7 DEF Unmount, CommandRead, files
  <2>2. "chip" \in Store
    BY DEF Store
  <2>3. ~ present["chip"]
    <3>1. ~ present'["chip"]
      BY <1>2, <2>1, <2>2
    <3>2. ~ connected["chip"]
      BY <2>1, <3>1
    <3> QED BY <1>1, <3>2 DEF ListInv
  <2>4. present' = present
    BY <1>2, <2>1, <2>3
  <2> QED BY <1>3, <1>4, <2>1, <2>4
<1>8. CASE Start
  BY <1>8 DEF Start, Fault
<1>9. CASE Stop
  <2>1. /\ pc # "fault" /\ list' = list /\ connected' = connected /\ shown' = shown
        /\ present' = present /\ log' = Committed(dataFile) /\ ~ news /\ ~ sketch.files.stopResets
    BY <1>9 DEF Stop, CommandRead
  <2>2. ~ write_data
    BY <1>1, <2>1 DEF Facts, NewsInv, WritingInv, Has
  <2> QED BY <1>3, <1>4, <1>5, <2>1, <2>2
<1>10. CASE Dump
  <2>1. /\ pc # "fault" /\ list' = list /\ connected' = connected /\ shown' = shown
        /\ present' = present /\ log' = Committed(dataFile) /\ news' = news
        /\ write_data' = write_data
    BY <1>10 DEF Dump, CommandRead, Fault
  <2> QED BY <1>3, <1>4, <1>5, <2>1
<1>11. CASE EraseFiles \/ LowLevelFormat
  <2>1. /\ pc # "fault" /\ list' = list /\ connected' = connected /\ shown' = shown
        /\ present' = present /\ write_data' = write_data /\ ~ news
    <3>1. CommandRead("erase") \/ CommandRead("format")
      BY <1>11 DEF EraseFiles, LowLevelFormat
    <3>2. /\ pc # "fault" /\ list' = list /\ connected' = connected /\ shown' = shown
          /\ present' = present
      BY <3>1 DEF CommandRead
    <3>3. CASE EraseFiles
      <4>1. news' = news \/ \E done \in {TRUE, FALSE} : TellFormatted(done)
        BY <3>3 DEF EraseFiles, Fault
      <4>2. ~ news
        BY <4>1 DEF TellFormatted
      <4>3. write_data' = write_data
        BY <3>3 DEF EraseFiles, Fault
      <4> QED BY <3>2, <4>2, <4>3
    <3>4. CASE LowLevelFormat
      BY <3>2, <3>4 DEF LowLevelFormat
    <3> QED BY <1>11, <3>3, <3>4
  <2>2. log' = log
    <3>1. CASE EraseFiles
      <4>1. \/ sketch.files.erase \in {"nothing", "format", "formatChecked"}
            \/ sketch.loop.responder = "never"
        BY <1>1, <3>1 DEF EraseFiles, CommandRead, Has, Facts
      <4>2. sketch.files.erase \in {"nothing", "format", "formatChecked"}
        BY <1>1, <2>1, <4>1 DEF NewsInv
      <4> QED BY <3>1, <4>2 DEF EraseFiles, Fault, TellFormatted, files
    <3>2. CASE LowLevelFormat
      BY <3>2 DEF LowLevelFormat, files
    <3> QED BY <1>11, <3>1, <3>2
  <2> QED BY <1>3, <1>4, <2>1, <2>2
<1>12. CASE ResetCommand \/ Restart
  BY <1>12 DEF ResetCommand, Restart
<1>13. CASE Watch
  <2>1. /\ pc # "fault" /\ present' = present /\ write_data' = write_data /\ log' = log
        /\ shown' = shown
    BY <1>13 DEF Watch, NothingTyped, files
  <2>2. CASE CheckCard
    <3>1. /\ ~ news /\ present["card"] = connected["card"] /\ list' = list
          /\ connected' = [connected EXCEPT !["card"] = present["card"]]
      BY <2>2 DEF CheckCard
    <3>2. connected' = connected
      BY <1>2, <3>1
    <3> QED BY <1>3, <1>4, <2>1, <3>1, <3>2
  <2>3. CASE CheckDrive
    <3>1. /\ ~ news /\ list' = list /\ connected' = [connected EXCEPT !["drive"] = present["drive"]]
      BY <2>3 DEF CheckDrive
    <3>2. Listed("drive")' <=> present["drive"]
      BY <1>1, <2>3, CheckDriveIs
    <3>3. Listed("drive") <=> present["drive"]
      BY <3>1, <3>2 DEF Listed, Slots
    <3>4. "drive" \in Store /\ (connected["drive"] <=> present["drive"])
      BY <1>1, <3>3 DEF ListInv, Store
    <3>5. connected["drive"] = present["drive"]
      BY <1>2, <3>4
    <3>6. connected' = connected
      BY <1>2, <3>1, <3>5
    <3> QED BY <1>3, <1>4, <2>1, <3>1, <3>6
  <2> QED BY <1>13, <2>2, <2>3 DEF Watch
<1>14. CASE \E st \in {"card", "drive"} : MediumChanges(st)
  <2>1. PICK st \in {"card", "drive"} : MediumChanges(st)
    BY <1>14
  <2>2. /\ present' = [present EXCEPT ![st] = ~ present[st]] /\ connected' = connected
        /\ present[st] = connected[st] /\ st \in Store
    BY <2>1 DEF MediumChanges, Store
  <2>3. present'[st] # connected'[st]
    BY <1>2, <2>2
  <2> QED BY <2>3
<1>15. CASE HostLooks
  <2>1. /\ shown' = [st \in Store |-> IF st \in Offered THEN log[st] ELSE NoFile]
        /\ list' = list /\ present' = present /\ log' = log
    BY <1>15 DEF HostLooks, Respond, files, media
  <2>2. Offered' = Offered /\ Offered \subseteq Store
    BY <1>4, <2>1 DEF Offered
  <2> QED BY <2>1, <2>2
<1>16. CASE \E st \in Store : HostDeletes(st)
  <2>1. PICK st \in Store : HostDeletes(st)
    BY <1>16
  <2>2. /\ pc # "fault" /\ list' = list /\ present' = present /\ connected' = connected
        /\ write_data' = write_data /\ news' = news
        /\ shown' = [shown EXCEPT ![st] = NoFile] /\ log' = [log EXCEPT ![st] = NoFile]
    BY <2>1 DEF HostDeletes, Respond, NothingTyped, Format, media
  <2>3. Offered' = Offered /\ Offered \subseteq Store
    BY <1>4, <2>2 DEF Offered
  <2>4. \A other \in Offered : shown[other] = log[other]
    BY <1>1, <2>2 DEF NewsInv, HostSeesLog
  <2> QED BY <1>2, <2>2, <2>3, <2>4 DEF Logs
<1> QED BY <1>6, <1>7, <1>8, <1>9, <1>10, <1>11, <1>12, <1>13, <1>14, <1>15, <1>16 DEF Next, Commands

LEMMA NewsStep ==
  ASSUME LoggersInv, Next
  PROVE  NewsInv'
<1>1. /\ sketch' = sketch /\ shown \in Logs /\ log \in Logs
      /\ sketch.loop.responder = "never" => news
  BY SketchStays DEF LoggersInv, NewsInv, FileInv
<1>2. \/ shown' = shown
      \/ shown' = [st \in Store |-> IF st \in Offered THEN log[st] ELSE NoFile]
      \/ \E st \in Store : shown' = [shown EXCEPT ![st] = NoFile]
      \/ shown' = [st \in Store |-> NoFile]
  BY DEF Next, Commands, Select, ListFiles, Start, Stop, Dump, EraseFiles, LowLevelFormat,
     ResetCommand, Unmount, CommandRead, NoCommand, LogData, Watch, MediumChanges, NoRequest,
     HostLooks, HostDeletes, Restart
<1>3. shown' \in Logs
  BY <1>1, <1>2 DEF Logs
<1>4. news => news' \/ HostLooks
  BY DEF Next, Commands, Select, ListFiles, Fault, Start, Stop, Dump, EraseFiles, TellFormatted,
     LowLevelFormat, ResetCommand, Unmount, NoCommand, LogData, Watch, CheckCard, CheckDrive,
     MediumChanges, NoRequest, HostDeletes, Restart
<1>5. sketch'.loop.responder = "never" => news'
  BY <1>1, <1>4 DEF HostLooks, Respond, NothingTyped
<1>6. HostSeesLog'
  BY SeesLogStep DEF HostSeesLog
<1> QED BY <1>3, <1>5, <1>6 DEF NewsInv

-----------------------------------------------------------------------------
(* The theorems.                                                           *)

LEMMA InitLoggers == Init => LoggersInv
<1> SUFFICES ASSUME Init PROVE LoggersInv
  OBVIOUS
<1>1. /\ sketch \in Sketches /\ present \in Found(sketch) /\ connected = present
      /\ list = StoresAdded(sketch, present)
      /\ myfs = sketch.setup.first /\ current = 1 /\ dataFile = Closed
      /\ write_data = FALSE /\ record_count = 0 /\ gone = 0
      /\ log = [st \in Store |-> NoFile] /\ shown = log /\ news = TRUE
  BY DEF Init
<1>2. Facts(sketch)
  BY <1>1, SketchFacts
<1>3. log \in Logs /\ Closed \in Handles /\ ~ Closed.open
  BY <1>1 DEF Logs, Handles, Closed, None
<1>4. FileInv
  BY <1>1, <1>3 DEF FileInv
<1>5. WritingInv
  BY <1>1, <1>3 DEF WritingInv
<1>6. ListInv
  <2>1. /\ list \in Seq(Store \cup {None})
        /\ \A i \in 1 .. Len(list) : list[i] \in Store /\ list[i] # "drive"
        /\ ~ present["drive"]
        /\ 1 \in DOMAIN sketch.setup.order /\ sketch.setup.order[1] = "ram" => 1 .. Len(list) # {}
    BY <1>1, SetupList
  <2>2. present \in [Store -> BOOLEAN] /\ None \notin Store
    BY <1>1 DEF Found, Store, None
  <2> QED BY <1>1, <2>1, <2>2 DEF ListInv, Listed, Slots, NoneListed
<1>7. ChoiceInv
  BY <1>1, <1>2 DEF ChoiceInv, Facts, Has
<1>8. NewsInv
  BY <1>1, <1>3 DEF NewsInv, HostSeesLog
<1>9. Accounted
  <2>1. Total(log) = 0
    BY <1>1 DEF Total, LinesIn, Store
  <2>2. Unsaved(dataFile) = 0
    BY <1>1, <1>3 DEF Unsaved
  <2> QED BY <1>1, <2>1, <2>2 DEF Accounted
<1> QED BY <1>4, <1>5, <1>6, <1>7, <1>8, <1>9 DEF LoggersInv

LEMMA StutterLoggers ==
  ASSUME LoggersInv, UNCHANGED vars
  PROVE  LoggersInv'
<1>1. /\ sketch' = sketch /\ pc' = pc /\ present' = present /\ connected' = connected /\ list' = list
      /\ myfs' = myfs /\ current' = current /\ dataFile' = dataFile /\ log' = log /\ gone' = gone
      /\ write_data' = write_data /\ record_count' = record_count /\ shown' = shown /\ news' = news
  BY DEF vars, media, choice, files
<1>2. FileInv' /\ WritingInv' /\ Accounted'
  BY <1>1 DEF LoggersInv, FileInv, WritingInv, Has, Accounted, Total, LinesIn, Unsaved
<1>3. ListInv' /\ ChoiceInv'
  BY <1>1 DEF LoggersInv, ListInv, ChoiceInv, Listed, Slots, NoneListed, Watches, Has
<1>4. NewsInv'
  BY <1>1 DEF LoggersInv, NewsInv, HostSeesLog, Offered, Listed, Slots
<1> QED BY <1>2, <1>3, <1>4 DEF LoggersInv

(* The inductive invariant, in every behaviour of every sketch.            *)
THEOREM LoggersInvAlways == Spec => []LoggersInv
<1>1. Init => LoggersInv
  BY InitLoggers
<1>2. LoggersInv /\ [Next]_vars => LoggersInv'
  <2>1. ASSUME LoggersInv, Next PROVE LoggersInv'
    BY <2>1, FileStep, WritingStep, ListStep, ChoiceStep, NewsStep DEF LoggersInv
  <2> QED BY <2>1, StutterLoggers
<1> QED BY <1>1, <1>2, PTL DEF Spec

(* No line that logData counted is lost: it is in a log, in the open file, *)
(* or one of the ways to take it away took it (logData, dumpLog,           *)
(* stopLogging, eraseFiles and the start command of every sketch).         *)
THEOREM AccountedAlways == Spec => []Accounted
<1>1. LoggersInv => Accounted
  BY DEF LoggersInv
<1> QED BY <1>1, LoggersInvAlways, PTL

(* When nothing is logged, no file is left open (stopLogging, dumpLog).    *)
THEOREM StoppedIsSavedAlways == Spec => []StoppedIsSaved
<1>1. LoggersInv => StoppedIsSaved
  BY DEF LoggersInv, WritingInv, StoppedIsSaved
<1> QED BY <1>1, LoggersInvAlways, PTL

(* Once its events are handled the host sees each log as it is             *)
(* (stopLogging, eraseFiles, checkSDMediaChanges, checkMSCChanges).        *)
THEOREM HostSeesLogAlways == Spec => []HostSeesLog
<1>1. LoggersInv => HostSeesLog
  BY DEF LoggersInv, NewsInv
<1> QED BY <1>1, LoggersInvAlways, PTL

(* The index and the file system remembered for the store selected agree   *)
(* (the storage command of loop).                                          *)
THEOREM SelectionAgreesAlways == Spec => []SelectionAgrees
<1>1. LoggersInv => SelectionAgrees
  BY DEF LoggersInv, ChoiceInv, SelectionAgrees
<1> QED BY <1>1, LoggersInvAlways, PTL

-----------------------------------------------------------------------------
(* MtpLogger                                                               *)

(* The pair of quotient and remainder is unique. *)
LEMMA DivUnique ==
  ASSUME NEW q \in Nat, NEW P \in Nat \ {0}, NEW k \in 0 .. P - 1
  PROVE  /\ q * P + k \in Nat
         /\ (q * P + k) \div P = q
         /\ (q * P + k) % P = k
OBVIOUS


(* The i-th block in the buffer, the oldest first. *)
Position(r, i) == IF r + i < MAXBUF THEN r + i ELSE r + i - MAXBUF
Waiting(i) == data_buffer[Position(rear, i)]

Blocks == {b \in Nat : b # Header}

(* Types.  A block is in the hands of the loop from its copy to its file. *)
RingType ==
  /\ front \in Slot /\ rear \in Slot
  /\ data_buffer \in [Slot -> Nat]
  /\ \A i \in 1 .. getCount : Waiting(i) \in Blocks

LoopType ==
  /\ at \in {"menu", "acq", "filing", "turn", "copy", "advance", "file", "close"}
  /\ state \in {-4, -3, -2, -1, 0, 2, 3, 4}
  /\ acq_state \in {0, 1}
  /\ state \in {2, 3} => mfile # NotOpen
  /\ at \in {"copy", "advance"} => getCount > 0
  /\ IF at \in {"advance", "file"}
       THEN \E b \in Blocks : diskBuffer = <<b>>
       ELSE diskBuffer = <<>>

FileType ==
  /\ now \in 0 .. MaxTime
  /\ mfile \in 0 .. now \cup {NotOpen}
  /\ sdx \in [0 .. MaxTime -> Seq(Nat)]
  /\ to \in 0 .. OnTime - 1

CountType ==
  /\ acquired \in 0 .. MaxBlocks
  /\ acq_miss \in Nat /\ dropped \in Nat
  /\ since \in 0 .. acquired
  /\ entered \in 0 .. MaxTyped

LoggerType == RingType /\ LoopType /\ FileType /\ CountType

(* The blocks on their way: what is filed is older than what was pulled,   *)
(* that older than what waits in the buffer, all of it acquired already.   *)
(* While the block pulled was not taken off the buffer it is also there.   *)
Waits ==
  /\ \A i \in 1 .. getCount : Waiting(i) <= acquired
  /\ \A i, j \in 1 .. getCount : i < j => Waiting(i) < Waiting(j)

Pulled ==
  /\ at = "advance" => diskBuffer[1] = Waiting(1)
  /\ at = "file" => /\ diskBuffer[1] <= acquired
                    /\ \A i \in 1 .. getCount : diskBuffer[1] < Waiting(i)

FiledFirst ==
  /\ \A b \in Recorded : b <= acquired
  /\ \A b \in Recorded : \A i \in 1 .. getCount : b < Waiting(i)
  /\ at = "file" => \A b \in Recorded : b < diskBuffer[1]

(* Files are only added to at the end of the last one: none was begun      *)
(* later than the one that is open, nor later than now.                    *)
NoLaterFile ==
  \A t \in 0 .. MaxTime : t > now \/ (mfile # NotOpen /\ t > mfile) => sdx[t] = <<>>

OrderInv == Waits /\ Pulled /\ FiledFirst /\ NoLaterFile /\ InOrder

(* Accounted and OnlySinceStart, in the words of this module. *)
Known == Cardinality(Recorded) + getCount + acq_miss + dropped

Balance ==
  /\ at = "file" => acquired = Known + 1
  /\ at # "file" => acquired = Known

SinceStart == acq_state = 1 => \A i \in 1 .. getCount : Waiting(i) > since

LoggerInv == LoggerType /\ OrderInv /\ Balance /\ SinceStart

-----------------------------------------------------------------------------
(* The circular buffer. *)

LEMMA Constants ==
  /\ MAXBUF \in Nat /\ MAXBUF > 1
  /\ OnTime \in Nat /\ OnTime > 0
  /\ MaxBlocks \in Nat /\ MaxTime \in Nat /\ MaxTyped \in Nat
  /\ Slot = 0 .. MAXBUF - 1
BY RingAssumption, AcquisitionAssumption DEF Slot

(* Places counted from rear are slots, and differ. *)
LEMMA Positions ==
  ASSUME NEW r \in Slot
  PROVE  /\ \A i \in 0 .. MAXBUF : Position(r, i) \in Slot
         /\ \A i, j \in 0 .. MAXBUF - 1 : i # j => Position(r, i) # Position(r, j)
         /\ Ahead(r) = Position(r, 1)
         /\ \A i \in 0 .. MAXBUF - 1 : Position(Ahead(r), i) = Position(r, i + 1)
BY Constants DEF Position, Ahead, Slot

(* The number of blocks leads from rear to front. *)
LEMMA Count ==
  ASSUME RingType
  PROVE  /\ getCount \in 0 .. MAXBUF - 1
         /\ Position(rear, getCount) = front
         /\ Position(rear, getCount + 1) = Ahead(front)
         /\ getCount = 0 <=> rear = front
         /\ Ahead(front) = rear <=> getCount = MAXBUF - 1
BY Constants DEF RingType, Slot, getCount, Position, Ahead

(* As OnlySinceStart counts them. *)
LEMMA PositionIsMod ==
  ASSUME NEW r \in Slot, NEW i \in 1 .. MAXBUF - 1
  PROVE  (r + i) % MAXBUF = Position(r, i)
<1>1. /\ MAXBUF \in Nat \ {0} /\ r \in 0 .. MAXBUF - 1 /\ i \in 0 .. MAXBUF - 1
  BY Constants
<1>2. CASE r + i < MAXBUF
  <2>1. r + i \in 0 .. MAXBUF - 1 /\ r + i = 0 * MAXBUF + (r + i)
    BY <1>1, <1>2
  <2>2. (0 * MAXBUF + (r + i)) % MAXBUF = r + i
    BY <1>1, <2>1, DivUnique
  <2> QED BY <1>2, <2>1, <2>2 DEF Position
<1>3. CASE ~(r + i < MAXBUF)
  <2>1. r + i - MAXBUF \in 0 .. MAXBUF - 1 /\ r + i = 1 * MAXBUF + (r + i - MAXBUF)
    BY <1>1, <1>3
  <2>2. (1 * MAXBUF + (r + i - MAXBUF)) % MAXBUF = r + i - MAXBUF
    BY <1>1, <2>1, DivUnique
  <2> QED BY <1>3, <2>1, <2>2 DEF Position
<1> QED BY <1>2, <1>3

(* The interrupt adds a block at the end, or drops it if there is no room, *)
(* and moves none.                                                         *)
LEMMA Pushed ==
  ASSUME RingType, NEW b \in Blocks, pushData(b), rear' = rear
  PROVE  /\ RingType'
         /\ \/ /\ acq_miss' = acq_miss + 1 /\ getCount' = getCount
               /\ \A i \in 1 .. getCount : Waiting(i)' = Waiting(i)
            \/ /\ acq_miss' = acq_miss /\ getCount' = getCount + 1
               /\ \A i \in 1 .. getCount : Waiting(i)' = Waiting(i)
               /\ Waiting(getCount)' = b
<1>1. CASE Ahead(front) = rear
  <2>1. UNCHANGED <<front, data_buffer>> /\ acq_miss' = acq_miss + 1
    BY <1>1 DEF pushData
  <2> QED BY <2>1 DEF RingType, getCount, Waiting
<1>2. CASE Ahead(front) # rear
  <2>1. /\ data_buffer' = [data_buffer EXCEPT ![Ahead(front)] = b]
        /\ front' = Ahead(front) /\ acq_miss' = acq_miss
    BY <1>2 DEF pushData
  <2>2. /\ front \in Slot /\ rear \in Slot /\ data_buffer \in [Slot -> Nat]
        /\ getCount \in 0 .. MAXBUF - 1 /\ getCount # MAXBUF - 1
    BY <1>2, Count DEF RingType
  <2>3. front' \in Slot /\ getCount' = getCount + 1
    BY <1>2, <2>1, <2>2, Constants DEF Slot, getCount, Ahead
  <2>4. data_buffer' \in [Slot -> Nat]
    BY <2>1, <2>2 DEF Blocks
  <2>5. \A i \in 1 .. getCount :
          Position(rear, i) \in Slot /\ Position(rear, i) # Position(rear, getCount + 1)
    <3>1. \A i \in 1 .. getCount :
            i \in 0 .. MAXBUF - 1 /\ getCount + 1 \in 0 .. MAXBUF - 1 /\ i # getCount + 1
            /\ i \in 0 .. MAXBUF
      BY <2>2, Constants
    <3> QED BY <2>2, <3>1, Positions
  <2>6. Position(rear, getCount + 1) = Ahead(front) /\ Ahead(front) \in Slot
    BY <2>1, <2>3, Count
  <2>7. /\ \A i \in 1 .. getCount : Waiting(i)' = Waiting(i)
        /\ Waiting(getCount)' = b
    <3>1. /\ \A i \in 1 .. getCount :
               data_buffer'[Position(rear, i)] = data_buffer[Position(rear, i)]
          /\ data_buffer'[Position(rear, getCount + 1)] = b
      BY <2>1, <2>2, <2>5, <2>6
    <3> QED BY <2>3, <3>1 DEF Waiting, Position
  <2>8. \A i \in 1 .. getCount' : Waiting(i)' \in Blocks
    <3> SUFFICES ASSUME NEW i \in 1 .. getCount' PROVE Waiting(i)' \in Blocks
      OBVIOUS
    <3>1. CASE i \in 1 .. getCount
      BY <2>7, <3>1 DEF RingType
    <3>2. CASE i = getCount + 1
      BY <2>3, <2>7, <3>2
    <3>3. i \in 1 .. getCount \/ i = getCount + 1
      BY <2>2, <2>3, Constants
    <3> QED BY <3>1, <3>2, <3>3
  <2>9. RingType'
    BY <2>2, <2>3, <2>4, <2>8 DEF RingType
  <2> QED BY <2>1, <2>3, <2>7, <2>9
<1> QED BY <1>1, <1>2

(* The loop takes the oldest block off. *)
LEMMA Advanced ==
  ASSUME RingType, getCount > 0, rear' = Ahead(rear), UNCHANGED <<front, data_buffer>>
  PROVE  /\ RingType'
         /\ getCount' = getCount - 1
         /\ \A i \in 1 .. getCount' : Waiting(i)' = Waiting(i + 1)
<1>1. /\ front \in Slot /\ rear \in Slot /\ data_buffer \in [Slot -> Nat]
      /\ getCount \in 0 .. MAXBUF - 1
  BY Count DEF RingType
<1>2. rear' \in Slot /\ getCount' = getCount - 1
  BY <1>1, Constants DEF Slot, getCount, Ahead
<1>3. \A i \in 1 .. getCount' : Waiting(i)' = Waiting(i + 1)
  <2>1. \A i \in 1 .. getCount' : i \in 0 .. MAXBUF - 1
    BY <1>1, <1>2, Constants
  <2>2. \A i \in 1 .. getCount' : Position(Ahead(rear), i) = Position(rear, i + 1)
    BY <1>1, <2>1, Positions
  <2> QED BY <2>2 DEF Waiting, Position
<1>4. \A i \in 1 .. getCount' : Waiting(i)' \in Blocks
  <2>1. \A i \in 1 .. getCount' : i + 1 \in 1 .. getCount
    BY <1>1, <1>2, Constants
  <2> QED BY <1>3, <2>1 DEF RingType
<1> QED BY <1>1, <1>2, <1>3, <1>4 DEF RingType

-----------------------------------------------------------------------------
(* The files. *)

(* Entries to write that may follow what is recorded. *)
Follows(e) ==
  /\ \A i \in DOMAIN e : e[i] = Header \/ (e[i] \in Blocks /\ \A b \in Recorded : b < e[i])
  /\ \A i, j \in DOMAIN e : i < j /\ Header \notin {e[i], e[j]} => e[i] < e[j]

Entries(e) == {e[i] : i \in DOMAIN e} \ {Header}

(* Writing them at the end of a file none is later than keeps the order,   *)
(* and records them and nothing else.                                      *)
LEMMA Appended ==
  ASSUME sdx \in [0 .. MaxTime -> Seq(Nat)], InOrder,
         NEW n \in 0 .. MaxTime, NEW e \in Seq(Nat), Follows(e),
         \A t \in 0 .. MaxTime : t > n => sdx[t] = <<>>,
         FileWrite(n, e)
  PROVE  /\ sdx' \in [0 .. MaxTime -> Seq(Nat)]
         /\ \A t \in 0 .. MaxTime : t > n => sdx'[t] = <<>>
         /\ InOrder'
         /\ Recorded' = Recorded \cup Entries(e)
<1> DEFINE old == Len(sdx[n])
<1>1. /\ MaxTime \in Nat /\ n \in Nat
      /\ sdx[n] \in Seq(Nat) /\ old \in Nat /\ Len(e) \in Nat
      /\ DOMAIN sdx[n] = 1 .. old /\ DOMAIN e = 1 .. Len(e)
  BY Constants
<1>2. sdx' = [sdx EXCEPT ![n] = sdx[n] \o e]
  BY DEF FileWrite
<1>3. /\ sdx[n] \o e \in Seq(Nat)
      /\ DOMAIN (sdx[n] \o e) = 1 .. old + Len(e)
      /\ \A i \in 1 .. old : (sdx[n] \o e)[i] = sdx[n][i]
      /\ \A i \in 1 .. Len(e) : (sdx[n] \o e)[old + i] = e[i]
  BY <1>1
<1>4. /\ sdx' \in [0 .. MaxTime -> Seq(Nat)]
      /\ \A t \in 0 .. MaxTime : t # n => sdx'[t] = sdx[t]
      /\ sdx'[n] = sdx[n] \o e
  BY <1>2, <1>3
<1> HIDE DEF old
<1>5. \A i \in DOMAIN sdx'[n] : \/ i \in 1 .. old /\ sdx'[n][i] = sdx[n][i]
                              \/ \E k \in DOMAIN e : i = old + k /\ sdx'[n][i] = e[k]
  <2> SUFFICES ASSUME NEW i \in DOMAIN sdx'[n], i \notin 1 .. old
               PROVE  \E k \in DOMAIN e : i = old + k /\ sdx'[n][i] = e[k]
    BY <1>3, <1>4
  <2>1. i \in 1 .. old + Len(e)
    BY <1>3, <1>4
  <2>2. i - old \in 1 .. Len(e) /\ i = old + (i - old)
    BY <1>1, <2>1
  <2>3. (sdx[n] \o e)[old + (i - old)] = e[i - old]
    BY <1>3, <2>2
  <2> QED BY <1>1, <1>4, <2>2, <2>3
<1>6. \A t \in 0 .. MaxTime : \A i \in DOMAIN sdx[t] :
        sdx[t][i] # Header => sdx[t][i] \in Recorded
  BY DEF Recorded
<1>7. InOrder'
  <2> SUFFICES ASSUME NEW t \in 0 .. MaxTime, NEW u \in 0 .. MaxTime,
                      NEW i \in DOMAIN sdx'[t], NEW j \in DOMAIN sdx'[u],
                      t < u \/ (t = u /\ i < j),
                      sdx'[t][i] # Header, sdx'[u][j] # Header
               PROVE  sdx'[t][i] < sdx'[u][j]
    BY DEF InOrder
  <2>1. i \in Int /\ j \in Int /\ t \in Int /\ u \in Int
    <3>1. sdx'[t] \in Seq(Nat) /\ sdx'[u] \in Seq(Nat)
      BY <1>4
    <3>2. \A q \in Seq(Nat) : \A k \in DOMAIN q : k \in Int
      OBVIOUS
    <3> QED BY <3>1, <3>2
  <2> DEFINE Old(w, k) == k \in DOMAIN sdx[w] /\ sdx'[w][k] = sdx[w][k]
  <2>2. CASE Old(t, i) /\ Old(u, j)
    BY <2>2 DEF InOrder
  <2>3. CASE Old(t, i) /\ ~Old(u, j)
    <3>1. u = n
      BY <1>4, <2>3
    <3>2. PICK k \in DOMAIN e : sdx'[u][j] = e[k]
      BY <1>1, <1>5, <2>3, <3>1
    <3> QED BY <1>6, <2>3, <3>2 DEF Follows
  <2>4. CASE ~Old(t, i)
    <3>1. t = n
      BY <1>4, <2>4
    <3>2. PICK k \in DOMAIN e : i = old + k /\ sdx'[t][i] = e[k]
      BY <1>1, <1>5, <2>4, <3>1
    <3>3. u = n /\ i < j
      <4>1. CASE u > n
        <5>1. sdx'[u] = <<>>
          BY <1>1, <1>4, <4>1
        <5> QED BY <5>1
      <4> QED BY <1>1, <2>1, <3>1, <4>1
    <3>4. PICK m \in DOMAIN e : j = old + m /\ sdx'[u][j] = e[m]
      <4>1. j \notin 1 .. old
        BY <1>1, <2>1, <3>2, <3>3
      <4> QED BY <1>5, <3>3, <4>1
    <3>5. k < m
      BY <1>1, <3>2, <3>3, <3>4
    <3> QED BY <3>2, <3>4, <3>5 DEF Follows
  <2> QED BY <2>2, <2>3, <2>4
<1>8. Recorded' = Recorded \cup Entries(e)
  <2>1. ASSUME NEW b, b \in Recorded' PROVE b \in Recorded \cup Entries(e)
    <3>1. PICK t \in 0 .. MaxTime : \E i \in DOMAIN sdx'[t] : b = sdx'[t][i] /\ b # Header
      BY <2>1 DEF Recorded
    <3>2. CASE t # n
      BY <1>4, <1>6, <3>1, <3>2
    <3>3. CASE t = n
      <4>1. PICK i \in DOMAIN sdx'[n] : b = sdx'[n][i]
        BY <3>1, <3>3
      <4>2. CASE i \in 1 .. old /\ sdx'[n][i] = sdx[n][i]
        BY <1>1, <1>6, <3>1, <4>1, <4>2
      <4>3. CASE \E k \in DOMAIN e : sdx'[n][i] = e[k]
        BY <3>1, <4>1, <4>3 DEF Entries
      <4> QED BY <1>5, <4>2, <4>3
    <3> QED BY <3>2, <3>3
  <2>2. ASSUME NEW b, b \in Recorded PROVE b \in Recorded'
    <3>1. PICK t \in 0 .. MaxTime : \E i \in DOMAIN sdx[t] : b = sdx[t][i] /\ b # Header
      BY <2>2 DEF Recorded
    <3>2. \E i \in DOMAIN sdx'[t] : b = sdx'[t][i]
      <4>1. CASE t # n
        BY <1>4, <3>1, <4>1
      <4>2. CASE t = n
        <5>1. PICK i \in 1 .. old : b = sdx[n][i]
          BY <1>1, <3>1, <4>2
        <5>2. i \in 1 .. old + Len(e)
          BY <1>1
        <5> QED BY <1>3, <1>4, <4>2, <5>1, <5>2
      <4> QED BY <4>1, <4>2
    <3> QED BY <3>1, <3>2 DEF Recorded
  <2>3. ASSUME NEW b, b \in Entries(e) PROVE b \in Recorded'
    <3>1. PICK k \in DOMAIN e : b = e[k] /\ b # Header
      BY <2>3 DEF Entries
    <3>2. old + k \in DOMAIN sdx'[n] /\ b = sdx'[n][old + k]
      <4>1. k \in 1 .. Len(e) /\ old + k \in 1 .. old + Len(e)
        BY <1>1
      <4> QED BY <1>3, <1>4, <3>1, <4>1
    <3> QED BY <3>1, <3>2 DEF Recorded
  <2> QED BY <2>1, <2>2, <2>3
<1>9. \A t \in 0 .. MaxTime : t > n => sdx'[t] = <<>>
  BY <1>1, <1>4
<1> QED BY <1>4, <1>7, <1>8, <1>9

(* Only a header is written: nothing more is recorded. *)
LEMMA OnlyHeader ==
  /\ <<Header>> \in Seq(Nat) /\ Follows(<<Header>>) /\ Entries(<<Header>>) = {}
BY DEF Header, Follows, Entries

(* A block that is younger than what is recorded may follow, with or       *)
(* without a header.                                                       *)
LEMMA OneBlock ==
  ASSUME NEW b \in Blocks, \A r \in Recorded : r < b
  PROVE  /\ <<b>> \in Seq(Nat) /\ Follows(<<b>>) /\ Entries(<<b>>) = {b}
         /\ <<Header>> \o <<b>> \in Seq(Nat)
         /\ Follows(<<Header>> \o <<b>>) /\ Entries(<<Header>> \o <<b>>) = {b}
<1>1. b \in Nat /\ b # Header /\ Header \in Nat
  BY DEF Blocks, Header
<1>2. /\ <<b>> \in Seq(Nat) /\ DOMAIN <<b>> = {1} /\ <<b>>[1] = b
  BY <1>1
<1>3. Follows(<<b>>) /\ Entries(<<b>>) = {b}
  BY <1>1, <1>2 DEF Follows, Entries
<1> DEFINE e == <<Header>> \o <<b>>
<1>4. e \in Seq(Nat) /\ DOMAIN e = {1, 2} /\ e[1] = Header /\ e[2] = b
  BY <1>1
<1> HIDE DEF e
<1>5. Follows(e) /\ Entries(e) = {b}
  BY <1>1, <1>4 DEF Follows, Entries
<1> QED BY <1>2, <1>3, <1>4, <1>5 DEF e

(* There are only as many recorded as were acquired. *)
LEMMA RecordedFinite ==
  ASSUME LoggerType, FiledFirst
  PROVE  /\ Recorded \subseteq Nat /\ IsFiniteSet(Recorded) /\ Cardinality(Recorded) \in Nat
         /\ \A b \in Nat : b \notin Recorded =>
              Cardinality(Recorded \cup {b}) = Cardinality(Recorded) + 1
<1>1. Recorded \subseteq Nat
  BY Constants DEF LoggerType, FileType, Recorded
<1>2. Recorded \subseteq 0 .. acquired /\ acquired \in Nat
  BY <1>1, Constants DEF LoggerType, CountType, FiledFirst
<1>3. IsFiniteSet(Recorded)
  <2>1. IsFiniteSet(0 .. acquired)
    BY <1>2, FS_Interval
  <2> QED BY <1>2, <2>1, FS_Subset
<1> QED BY <1>1, <1>3, FS_CardinalityType, FS_AddElement

-----------------------------------------------------------------------------
(* Steps that keep the buffer, or the files, or both. *)

LEMMA RingSame ==
  ASSUME UNCHANGED ring
  PROVE  getCount' = getCount /\ \A i : Waiting(i)' = Waiting(i)
BY DEF ring, getCount, Waiting, Position

LEMMA FilesSame ==
  ASSUME UNCHANGED sdx
  PROVE  Recorded' = Recorded /\ (InOrder => InOrder')
BY DEF Recorded, InOrder

(* A step of the loop that takes no block and files none. *)
LEMMA Quiet ==
  ASSUME LoggerInv,
         UNCHANGED <<ring, diskBuffer, sdx, acquired, acq_miss, ghosts>>,
         at = "file" <=> at' = "file", at' = "advance" => at = "advance",
         acq_state' = 1 => acq_state = 1,
         LoopType', FileType', CountType', NoLaterFile'
  PROVE  LoggerInv'
<1>1. /\ getCount' = getCount /\ \A i : Waiting(i)' = Waiting(i)
      /\ Recorded' = Recorded /\ InOrder'
      /\ diskBuffer' = diskBuffer /\ acquired' = acquired /\ acq_miss' = acq_miss
      /\ since' = since /\ dropped' = dropped
  BY RingSame, FilesSame DEF LoggerInv, OrderInv, ghosts
<1>2. RingType'
  BY <1>1 DEF LoggerInv, LoggerType, RingType, ring
<1>3. Waits' /\ Pulled' /\ FiledFirst'
  BY <1>1 DEF LoggerInv, OrderInv, Waits, Pulled, FiledFirst
<1>4. Balance'
  <2>1. Known' = Known
    BY <1>1 DEF Known
  <2> QED BY <1>1, <2>1 DEF LoggerInv, Balance
<1>5. SinceStart'
  BY <1>1 DEF LoggerInv, SinceStart
<1> QED BY <1>1, <1>2, <1>3, <1>4, <1>5 DEF LoggerInv, LoggerType, OrderInv

(* The loop comes away from the block it had: it is in a file, or dropped. *)
LEMMA BlockLeaves ==
  ASSUME LoggerInv, at = "file", at' \in {"menu", "close"},
         UNCHANGED <<ring, acq_state, acquired, acq_miss, since>>,
         \/ Recorded' = Recorded /\ dropped' = dropped + 1
         \/ Recorded' = Recorded \cup {diskBuffer[1]} /\ dropped' = dropped,
         InOrder', LoopType', FileType', CountType', NoLaterFile'
  PROVE  LoggerInv'
<1>1. /\ getCount' = getCount /\ \A i : Waiting(i)' = Waiting(i)
      /\ acquired' = acquired /\ acq_miss' = acq_miss
      /\ since' = since /\ acq_state' = acq_state
      /\ at' # "file" /\ at' # "advance"
  BY RingSame
<1>2. RingType'
  BY <1>1 DEF LoggerInv, LoggerType, RingType, ring
<1>3. /\ diskBuffer[1] \in Nat /\ diskBuffer[1] <= acquired /\ diskBuffer[1] \notin Recorded
      /\ \A i \in 1 .. getCount : diskBuffer[1] < Waiting(i)
  <2>1. PICK b \in Blocks : diskBuffer = <<b>>
    BY DEF LoggerInv, LoggerType, LoopType
  <2>2. diskBuffer[1] \in Nat
    BY <2>1 DEF Blocks
  <2>3. diskBuffer[1] \notin Recorded
    BY <2>2 DEF LoggerInv, OrderInv, FiledFirst
  <2> QED BY <2>2, <2>3 DEF LoggerInv, OrderInv, Pulled
<1>4. Waits' /\ Pulled'
  BY <1>1 DEF LoggerInv, OrderInv, Waits, Pulled
<1>5. FiledFirst'
  BY <1>1, <1>3 DEF LoggerInv, OrderInv, FiledFirst
<1>6. Balance'
  <2>1. /\ Cardinality(Recorded) \in Nat
        /\ Cardinality(Recorded \cup {diskBuffer[1]}) = Cardinality(Recorded) + 1
    BY <1>3, RecordedFinite DEF LoggerInv, OrderInv
  <2>2. acquired = Known + 1
    BY DEF LoggerInv, Balance
  <2>3. getCount \in Nat /\ acq_miss \in Nat /\ dropped \in Nat
    BY Count, Constants DEF LoggerInv, LoggerType, CountType
  <2>4. CASE Recorded' = Recorded /\ dropped' = dropped + 1
    <3>1. Known' = Known + 1
      BY <1>1, <2>1, <2>3, <2>4 DEF Known
    <3> QED BY <1>1, <2>2, <3>1 DEF Balance
  <2>5. CASE Recorded' = Recorded \cup {diskBuffer[1]} /\ dropped' = dropped
    <3>1. Known' = Known + 1
      BY <1>1, <2>1, <2>3, <2>5 DEF Known
    <3> QED BY <1>1, <2>2, <3>1 DEF Balance
  <2> QED BY <2>4, <2>5
<1>7. SinceStart'
  BY <1>1 DEF LoggerInv, SinceStart
<1> QED BY <1>2, <1>4, <1>5, <1>6, <1>7 DEF LoggerInv, LoggerType, OrderInv

-----------------------------------------------------------------------------
(* Each step keeps the invariant. *)

LEMMA InvInit == LoggerInit => LoggerInv
<1> SUFFICES ASSUME LoggerInit PROVE LoggerInv
  OBVIOUS
<1>1. getCount = 0
  BY DEF LoggerInit, getCount
<1>2. LoggerType
  <2>1. RingType
    BY <1>1, Constants DEF LoggerInit, RingType
  <2>2. LoopType
    BY DEF LoggerInit, LoopType
  <2>3. FileType /\ CountType
    BY Constants DEF LoggerInit, FileType, CountType
  <2> QED BY <2>1, <2>2, <2>3 DEF LoggerType
<1>3. Recorded = {}
  BY DEF LoggerInit, Recorded
<1>4. OrderInv
  BY <1>1, <1>3 DEF LoggerInit, OrderInv, Waits, Pulled, FiledFirst, NoLaterFile, InOrder
<1>5. Balance
  BY <1>1, <1>3, FS_EmptySet DEF LoggerInit, Balance, Known
<1> QED BY <1>2, <1>4, <1>5 DEF LoggerInit, LoggerInv, SinceStart

LEMMA InvIsr == LoggerInv /\ acq_isr => LoggerInv'
<1> SUFFICES ASSUME LoggerInv, acq_isr PROVE LoggerInv'
  OBVIOUS
<1> DEFINE b == acquired + 1
<1>1. /\ acquired \in Nat /\ acquired' = b /\ b \in Blocks /\ b <= MaxBlocks
      /\ since \in 0 .. acquired /\ acq_miss \in Nat /\ dropped \in Nat
      /\ pushData(b) /\ rear' = rear
      /\ UNCHANGED <<at, state, acq_state, diskBuffer, storage, to, now, ghosts, entered>>
  BY Constants DEF acq_isr, LoggerInv, LoggerType, CountType, Blocks, Header
<1> HIDE DEF b
<1>2. RingType /\ getCount \in Nat /\ \A i \in 1 .. getCount : Waiting(i) \in Nat
  BY Count, Constants DEF LoggerInv, LoggerType, RingType, Blocks
<1>3. /\ RingType'
      /\ \/ /\ acq_miss' = acq_miss + 1 /\ getCount' = getCount
            /\ \A i \in 1 .. getCount : Waiting(i)' = Waiting(i)
         \/ /\ acq_miss' = acq_miss /\ getCount' = getCount + 1
            /\ \A i \in 1 .. getCount : Waiting(i)' = Waiting(i)
            /\ Waiting(getCount)' = b
  BY <1>1, <1>2, Pushed
<1>4. \A i \in 1 .. getCount' :
        \/ i \in 1 .. getCount /\ Waiting(i)' = Waiting(i)
        \/ i = getCount + 1 /\ Waiting(i)' = b
  <2> SUFFICES ASSUME NEW i \in 1 .. getCount', i \notin 1 .. getCount
               PROVE  i = getCount + 1 /\ Waiting(i)' = b
    BY <1>3
  <2>1. i = getCount + 1 /\ getCount' = getCount + 1
    BY <1>2, <1>3
  <2> QED BY <1>3, <2>1
<1>5. Recorded' = Recorded /\ InOrder' /\ diskBuffer' = diskBuffer /\ at' = at
      /\ since' = since /\ dropped' = dropped /\ acq_state' = acq_state
  BY <1>1, FilesSame DEF LoggerInv, OrderInv, storage, ghosts
<1>6. LoggerType'
  <2>1. LoopType'
    <3>1. getCount > 0 => getCount' > 0
      BY <1>2, <1>3
    <3> QED BY <1>1, <1>5, <3>1 DEF LoggerInv, LoggerType, LoopType, storage
  <2>2. FileType'
    BY <1>1 DEF LoggerInv, LoggerType, FileType, storage
  <2>3. CountType'
    <3>1. acq_miss' \in Nat
      BY <1>1, <1>3
    <3>2. acquired' \in 0 .. MaxBlocks /\ since' \in 0 .. acquired'
      BY <1>1, <1>5, Constants DEF b, Blocks
    <3> QED BY <1>1, <1>5, <3>1, <3>2 DEF LoggerInv, LoggerType, CountType
  <2> QED BY <1>3, <2>1, <2>2, <2>3 DEF LoggerType
<1>7. Waits'
  <2>1. \A i \in 1 .. getCount : Waiting(i) < b
    BY <1>1, <1>2 DEF LoggerInv, OrderInv, Waits, b
  <2>2. \A i \in 1 .. getCount' : Waiting(i)' <= acquired'
    <3> SUFFICES ASSUME NEW i \in 1 .. getCount' PROVE Waiting(i)' <= acquired'
      OBVIOUS
    <3>1. CASE i \in 1 .. getCount /\ Waiting(i)' = Waiting(i)
      <4>1. Waiting(i) < b /\ Waiting(i) \in Nat /\ b \in Nat
        BY <1>1, <1>2, <2>1, <3>1 DEF Blocks
      <4> QED BY <1>1, <3>1, <4>1
    <3>2. CASE i = getCount + 1 /\ Waiting(i)' = b
      BY <1>1, <3>2 DEF Blocks
    <3> QED BY <1>4, <3>1, <3>2
  <2>3. \A i, j \in 1 .. getCount' : i < j => Waiting(i)' < Waiting(j)'
    <3> SUFFICES ASSUME NEW i \in 1 .. getCount', NEW j \in 1 .. getCount', i < j
                 PROVE  Waiting(i)' < Waiting(j)'
      OBVIOUS
    <3>1. i \in 1 .. getCount /\ Waiting(i)' = Waiting(i)
      BY <1>2, <1>3, <1>4
    <3>2. CASE j \in 1 .. getCount /\ Waiting(j)' = Waiting(j)
      BY <3>1, <3>2 DEF LoggerInv, OrderInv, Waits
    <3>3. CASE j = getCount + 1 /\ Waiting(j)' = b
      BY <2>1, <3>1, <3>3
    <3> QED BY <1>4, <3>2, <3>3
  <2> QED BY <2>2, <2>3 DEF Waits
<1>8. Pulled'
  <2>1. at = "advance" => /\ 1 \in 1 .. getCount' /\ Waiting(1)' = Waiting(1)
    BY <1>2, <1>3 DEF LoggerInv, LoggerType, LoopType
  <2>2. at = "file" => diskBuffer[1] < b
    <3>1. at = "file" => diskBuffer[1] \in Nat
      BY DEF LoggerInv, LoggerType, LoopType, Blocks
    <3> QED BY <1>1, <3>1 DEF LoggerInv, OrderInv, Pulled, b
  <2>3. at = "file" => diskBuffer[1] <= b
    <3>1. at = "file" => diskBuffer[1] \in Nat
      BY DEF LoggerInv, LoggerType, LoopType, Blocks
    <3> QED BY <1>1, <2>2, <3>1 DEF b
  <2> QED BY <1>1, <1>4, <1>5, <2>1, <2>2, <2>3 DEF LoggerInv, OrderInv, Pulled
<1>9. FiledFirst'
  <2>1. \A r \in Recorded : r < b /\ r <= b
    <3>1. Recorded \subseteq Nat
      BY RecordedFinite DEF LoggerInv, OrderInv
    <3> QED BY <1>1, <3>1 DEF LoggerInv, OrderInv, FiledFirst, b
  <2> QED BY <1>1, <1>4, <1>5, <2>1 DEF LoggerInv, OrderInv, FiledFirst
<1>10. NoLaterFile'
  BY <1>1 DEF LoggerInv, OrderInv, NoLaterFile, storage
<1>11. Balance'
  <2>1. Cardinality(Recorded) \in Nat /\ Known \in Nat
    BY <1>1, <1>2, RecordedFinite DEF LoggerInv, OrderInv, Known
  <2>2. Known' = Known + 1
    <3>1. CASE acq_miss' = acq_miss + 1 /\ getCount' = getCount
      BY <1>1, <1>2, <1>5, <2>1, <3>1 DEF Known
    <3>2. CASE acq_miss' = acq_miss /\ getCount' = getCount + 1
      BY <1>1, <1>2, <1>5, <2>1, <3>2 DEF Known
    <3> QED BY <1>3, <3>1, <3>2
  <2> QED BY <1>1, <1>5, <2>1, <2>2 DEF LoggerInv, Balance, b
<1>12. SinceStart'
  <2>1. b > since
    BY <1>1 DEF b
  <2>2. acq_state = 1 => \A i \in 1 .. getCount : Waiting(i) > since
    BY DEF LoggerInv, SinceStart
  <2>3. acq_state' = 1 => \A i \in 1 .. getCount' : Waiting(i)' > since'
    BY <1>4, <1>5, <2>1, <2>2
  <2> QED BY <2>3 DEF SinceStart
<1> QED BY <1>5, <1>6, <1>7, <1>8, <1>9, <1>10, <1>11, <1>12 DEF LoggerInv, OrderInv

LEMMA InvSecond == LoggerInv /\ SecondPasses => LoggerInv'
<1> SUFFICES ASSUME LoggerInv, SecondPasses PROVE LoggerInv'
  OBVIOUS
<1>1. /\ now < MaxTime /\ now' = now + 1
      /\ UNCHANGED <<at, state, acq_state, mfile, to, entered>>
      /\ UNCHANGED <<ring, diskBuffer, sdx, acquired, acq_miss, ghosts>>
  BY DEF SecondPasses, storage
<1>2. LoopType' /\ CountType'
  <2>1. getCount' = getCount
    BY <1>1, RingSame
  <2> QED BY <1>1, <2>1 DEF LoggerInv, LoggerType, LoopType, CountType, ghosts
<1>3. FileType'
  BY <1>1, Constants DEF LoggerInv, LoggerType, FileType
<1>4. NoLaterFile'
  BY <1>1, Constants DEF LoggerInv, LoggerType, FileType, OrderInv, NoLaterFile
<1> QED BY <1>1, <1>2, <1>3, <1>4, Quiet

LEMMA InvMenu == LoggerInv /\ do_menu => LoggerInv'
<1> SUFFICES ASSUME LoggerInv, do_menu PROVE LoggerInv'
  OBVIOUS
<1>1. /\ at = "menu" /\ at' = "acq"
      /\ UNCHANGED <<acq_state, mfile, to, now>>
      /\ UNCHANGED <<ring, diskBuffer, sdx, acquired, acq_miss, ghosts>>
      /\ entered' = entered \/ (entered < MaxTyped /\ entered' = entered + 1)
      /\ state' \in {state, 0, 4}
  BY DEF do_menu, storage, Menu
<1>2. LoopType'
  BY <1>1 DEF LoggerInv, LoggerType, LoopType
<1>3. CountType'
  BY <1>1, Constants DEF LoggerInv, LoggerType, CountType, ghosts
<1>4. FileType' /\ NoLaterFile'
  BY <1>1 DEF LoggerInv, LoggerType, FileType, OrderInv, NoLaterFile
<1> QED BY <1>1, <1>2, <1>3, <1>4, Quiet

(* A start empties the buffer; otherwise the timer is stopped or left.     *)
LEMMA InvAcq == LoggerInv /\ acq_check => LoggerInv'
<1> SUFFICES ASSUME LoggerInv, acq_check PROVE LoggerInv'
  OBVIOUS
<1>1. /\ at = "acq" /\ at' = "filing"
      /\ UNCHANGED <<state, data_buffer, diskBuffer, mfile, to, now, entered>>
      /\ UNCHANGED <<sdx, acquired, acq_miss>>
  BY DEF acq_check, storage
<1>2. FileType' /\ NoLaterFile'
  BY <1>1 DEF LoggerInv, LoggerType, FileType, OrderInv, NoLaterFile
<1>3. CASE state = 0 /\ acq_state = 0
  <2>1. /\ front' = 0 /\ rear' = 0 /\ acq_state' = 1
        /\ dropped' = dropped + getCount /\ since' = acquired
    BY <1>3 DEF acq_check, acq_start
  <2>2. getCount' = 0 /\ 0 \in Slot
    BY <2>1, Constants DEF getCount
  <2>3. getCount \in Nat
    BY Count, Constants DEF LoggerInv, LoggerType
  <2>4. Recorded' = Recorded /\ InOrder'
    BY <1>1, FilesSame DEF LoggerInv, OrderInv
  <2>5. RingType'
    BY <1>1, <2>1, <2>2 DEF LoggerInv, LoggerType, RingType
  <2>6. LoopType'
    BY <1>1, <2>1 DEF LoggerInv, LoggerType, LoopType
  <2>7. CountType'
    BY <1>1, <2>1, <2>3 DEF LoggerInv, LoggerType, CountType
  <2>8. OrderInv'
    BY <1>1, <1>2, <2>2, <2>4 DEF LoggerInv, OrderInv, Waits, Pulled, FiledFirst
  <2>9. Balance'
    <3>1. Cardinality(Recorded) \in Nat /\ acq_miss \in Nat /\ dropped \in Nat
      BY RecordedFinite DEF LoggerInv, LoggerType, CountType, OrderInv
    <3>2. acquired = Known
      BY <1>1 DEF LoggerInv, Balance
    <3>3. Known' = Cardinality(Recorded) + 0 + acq_miss + (dropped + getCount)
      BY <1>1, <2>1, <2>2, <2>4 DEF Known
    <3>4. Known' = Known
      BY <2>3, <3>1, <3>3 DEF Known
    <3> QED BY <1>1, <3>2, <3>4 DEF Balance
  <2>10. SinceStart'
    BY <2>2 DEF SinceStart
  <2> QED BY <1>2, <2>5, <2>6, <2>7, <2>8, <2>9, <2>10 DEF LoggerInv, LoggerType
<1>4. CASE ~(state = 0 /\ acq_state = 0)
  <2>1. /\ acq_state' \in {0, acq_state}
        /\ UNCHANGED <<ring, diskBuffer, sdx, acquired, acq_miss, ghosts>>
    BY <1>1, <1>4 DEF acq_check, ring, ghosts
  <2>2. LoopType'
    BY <1>1, <2>1 DEF LoggerInv, LoggerType, LoopType
  <2>3. CountType'
    BY <1>1, <2>1 DEF LoggerInv, LoggerType, CountType, ghosts
  <2>4. acq_state' = 1 => acq_state = 1
    BY <2>1
  <2> QED BY <1>1, <1>2, <2>1, <2>2, <2>3, <2>4, Quiet
<1> QED BY <1>3, <1>4

LEMMA InvFiling == LoggerInv /\ check_filing => LoggerInv'
<1> SUFFICES ASSUME LoggerInv, check_filing PROVE LoggerInv'
  OBVIOUS
<1>1. /\ at = "filing" /\ at' = "turn"
      /\ UNCHANGED <<acq_state, mfile, now, entered>>
      /\ UNCHANGED <<ring, diskBuffer, sdx, acquired, acq_miss, ghosts>>
      /\ state' = state \/ (state = 2 /\ state' = 3)
      /\ to' \in {to, now % OnTime}
  BY DEF check_filing, storage
<1>2. LoopType'
  BY <1>1 DEF LoggerInv, LoggerType, LoopType
<1>3. CountType' /\ NoLaterFile'
  BY <1>1 DEF LoggerInv, LoggerType, CountType, OrderInv, NoLaterFile, ghosts
<1>4. FileType'
  <2>1. now % OnTime \in 0 .. OnTime - 1
    BY Constants DEF LoggerInv, LoggerType, FileType
  <2> QED BY <1>1, <2>1 DEF LoggerInv, LoggerType, FileType
<1> QED BY <1>1, <1>2, <1>3, <1>4, Quiet

(* Steps that only move pc, or close the file. *)
LEMMA InvControl ==
  LoggerInv /\ (MtpLoop \/ PullTest \/ Finish) => LoggerInv'
<1> SUFFICES ASSUME LoggerInv, MtpLoop \/ PullTest \/ Finish PROVE LoggerInv'
  OBVIOUS
<1>1. /\ at \in {"turn", "close"} /\ at' \in {"menu", "close", "copy"}
      /\ at' = "copy" => rear # front
      /\ UNCHANGED <<acq_state, to, now, entered>>
      /\ UNCHANGED <<ring, diskBuffer, sdx, acquired, acq_miss, ghosts>>
      /\ \/ state' = state /\ mfile' = mfile
         \/ state' = state /\ state \notin {3, 4}  /\ mfile' = mfile
         \/ state' \in {0, -1} /\ mfile' = NotOpen
  BY DEF MtpLoop, PullTest, Finish, storage
<1>2. LoopType'
  <2>1. getCount' = getCount /\ (rear # front => getCount > 0)
    BY <1>1, RingSame, Count, Constants DEF LoggerInv, LoggerType
  <2> QED BY <1>1, <2>1 DEF LoggerInv, LoggerType, LoopType
<1>3. CountType' /\ NoLaterFile'
  BY <1>1 DEF LoggerInv, LoggerType, CountType, OrderInv, NoLaterFile, ghosts
<1>4. FileType'
  BY <1>1 DEF LoggerInv, LoggerType, FileType, NotOpen
<1> QED BY <1>1, <1>2, <1>3, <1>4, Quiet

-----------------------------------------------------------------------------
(* The steps that take a block from the buffer to a file. *)

LEMMA InvCopy == LoggerInv /\ PullCopy => LoggerInv'
<1> SUFFICES ASSUME LoggerInv, PullCopy PROVE LoggerInv'
  OBVIOUS
<1>1. /\ at = "copy" /\ at' = "advance" /\ diskBuffer' = <<data_buffer[Ahead(rear)]>>
      /\ UNCHANGED <<state, acq_state, to, now, entered, ring, mfile, sdx>>
      /\ UNCHANGED <<acquired, acq_miss, dropped, since>>
  BY DEF PullCopy, Copied, storage, ghosts
<1>2. /\ getCount' = getCount /\ \A i : Waiting(i)' = Waiting(i)
      /\ Recorded' = Recorded /\ InOrder'
  BY <1>1, RingSame, FilesSame DEF LoggerInv, OrderInv
<1>3. diskBuffer' = <<Waiting(1)>> /\ Waiting(1) \in Blocks /\ getCount > 0
  <2>1. getCount > 0 /\ 1 \in 1 .. getCount
    BY <1>1, Count, Constants DEF LoggerInv, LoggerType, LoopType
  <2>2. rear \in Slot /\ Waiting(1) \in Blocks
    BY <2>1 DEF LoggerInv, LoggerType, RingType
  <2> QED BY <1>1, <2>1, <2>2, Positions DEF Waiting
<1>4. RingType'
  BY <1>1, <1>2 DEF LoggerInv, LoggerType, RingType, ring
<1>5. LoopType'
  BY <1>1, <1>2, <1>3 DEF LoggerInv, LoggerType, LoopType
<1>6. FileType' /\ CountType'
  BY <1>1 DEF LoggerInv, LoggerType, FileType, CountType
<1>7. OrderInv'
  <2>1. Pulled'
    BY <1>1, <1>2, <1>3 DEF Pulled
  <2> QED BY <1>1, <1>2, <2>1 DEF LoggerInv, OrderInv, Waits, FiledFirst, NoLaterFile
<1>8. Balance'
  <2>1. Known' = Known
    BY <1>1, <1>2 DEF Known
  <2> QED BY <1>1, <2>1 DEF LoggerInv, Balance
<1>9. SinceStart'
  BY <1>1, <1>2 DEF LoggerInv, SinceStart
<1> QED BY <1>4, <1>5, <1>6, <1>7, <1>8, <1>9 DEF LoggerInv, LoggerType

(* The block that was copied leaves the buffer. *)
LEMMA InvAdvance == LoggerInv /\ PullAdvance => LoggerInv'
<1> SUFFICES ASSUME LoggerInv, PullAdvance PROVE LoggerInv'
  OBVIOUS
<1>1. /\ at = "advance" /\ at' = "file" /\ rear' = Ahead(rear)
      /\ UNCHANGED <<state, acq_state, to, now, entered, front, data_buffer>>
      /\ UNCHANGED <<diskBuffer, mfile, sdx, acquired, acq_miss, dropped, since>>
  BY DEF PullAdvance, storage, ghosts
<1>2. RingType /\ getCount \in Nat /\ getCount > 0
  BY <1>1, Count, Constants DEF LoggerInv, LoggerType, LoopType
<1>3. /\ RingType' /\ getCount' = getCount - 1
      /\ \A i \in 1 .. getCount' : Waiting(i)' = Waiting(i + 1)
  BY <1>1, <1>2, Advanced
<1>4. /\ \A i \in 1 .. getCount' : i + 1 \in 1 .. getCount /\ 1 < i + 1
      /\ \A i, j \in 1 .. getCount' : i < j => i + 1 < j + 1
      /\ 1 \in 1 .. getCount
  BY <1>2, <1>3
<1>5. Recorded' = Recorded /\ InOrder'
  BY <1>1, FilesSame DEF LoggerInv, OrderInv
<1>6. diskBuffer[1] = Waiting(1)
  BY <1>1 DEF LoggerInv, OrderInv, Pulled
<1>7. LoopType'
  BY <1>1 DEF LoggerInv, LoggerType, LoopType
<1>8. FileType' /\ CountType'
  BY <1>1 DEF LoggerInv, LoggerType, FileType, CountType
<1>9. Waits'
  BY <1>1, <1>3, <1>4 DEF LoggerInv, OrderInv, Waits
<1>10. Pulled'
  BY <1>1, <1>3, <1>4, <1>6 DEF LoggerInv, OrderInv, Waits, Pulled
<1>11. FiledFirst'
  BY <1>1, <1>3, <1>4, <1>5, <1>6 DEF LoggerInv, OrderInv, FiledFirst
<1>12. NoLaterFile'
  BY <1>1 DEF LoggerInv, OrderInv, NoLaterFile
<1>13. Balance'
  <2>1. Cardinality(Recorded) \in Nat /\ acq_miss \in Nat /\ dropped \in Nat
    BY RecordedFinite DEF LoggerInv, LoggerType, CountType, OrderInv
  <2>2. acquired = Known
    BY <1>1 DEF LoggerInv, Balance
  <2>3. Known' = Cardinality(Recorded) + getCount' + acq_miss + dropped
    BY <1>1, <1>5 DEF Known
  <2>4. Known' + 1 = Known
    BY ONLY <1>2, <1>3, <2>1, <2>3 DEF Known
  <2> QED BY <1>1, <2>2, <2>4 DEF Balance
<1>14. SinceStart'
  BY <1>1, <1>3, <1>4 DEF LoggerInv, SinceStart
<1> QED BY <1>3, <1>5, <1>7, <1>8, <1>9, <1>10, <1>11, <1>12, <1>13, <1>14
        DEF LoggerInv, LoggerType, OrderInv

(* do_logger fails, with or without a header written to a file of now.     *)
LEMMA InvFails ==
  ASSUME LoggerInv, at = "file", NEW result \in {-4, -3, -2}, Fails(result),
         UNCHANGED <<ring, acq_state, to, now, acquired, acq_miss, since, entered>>,
         \/ mfile' \in {mfile, NotOpen} /\ UNCHANGED sdx
         \/ mfile' = now /\ UNCHANGED sdx
         \/ mfile' = now /\ FileWrite(now, <<Header>>)
  PROVE  LoggerInv'
<1>1. /\ at' = "menu" /\ state' = result /\ diskBuffer' = <<>> /\ dropped' = dropped + 1
  BY DEF Fails
<1>2. LoopType'
  BY <1>1 DEF LoggerInv, LoggerType, LoopType
<1>3. CountType'
  BY <1>1 DEF LoggerInv, LoggerType, CountType
<1>4. /\ now \in 0 .. MaxTime /\ MaxTime \in Nat /\ sdx \in [0 .. MaxTime -> Seq(Nat)]
      /\ \A t \in 0 .. MaxTime : t > now => sdx[t] = <<>>
      /\ InOrder
  BY Constants DEF LoggerInv, LoggerType, FileType, OrderInv, NoLaterFile
<1>5. Recorded' = Recorded /\ InOrder' /\ sdx' \in [0 .. MaxTime -> Seq(Nat)]
      /\ \A t \in 0 .. MaxTime : t > now => sdx'[t] = <<>>
  <2>1. CASE UNCHANGED sdx
    BY <1>4, <2>1, FilesSame
  <2>2. CASE FileWrite(now, <<Header>>)
    BY <1>4, <2>2, Appended, OnlyHeader
  <2> QED BY <2>1, <2>2
<1>6. FileType'
  BY <1>4, <1>5 DEF LoggerInv, LoggerType, FileType
<1>7. NoLaterFile'
  <2>1. CASE mfile' = now
    BY <1>5, <2>1 DEF NoLaterFile
  <2>2. CASE mfile' \in {mfile, NotOpen} /\ UNCHANGED sdx
    BY <2>2 DEF LoggerInv, OrderInv, NoLaterFile
  <2> QED BY <2>1, <2>2
<1> QED BY <1>1, <1>2, <1>3, <1>5, <1>6, <1>7, BlockLeaves

(* The block goes to the end of a file no file is later than.              *)
LEMMA InvFiled ==
  ASSUME LoggerInv, at = "file", Filed,
         UNCHANGED <<ring, acq_state, to, now, acquired, acq_miss, since, entered>>,
         mfile' \in {mfile, now}, mfile' # NotOpen,
         \/ FileWrite(mfile', diskBuffer)
         \/ FileWrite(mfile', <<Header>> \o diskBuffer)
  PROVE  LoggerInv'
<1>1. /\ at' = "close" /\ state' \in {state, 2} /\ diskBuffer' = <<>> /\ dropped' = dropped
  BY DEF Filed
<1>2. LoopType'
  BY <1>1 DEF LoggerInv, LoggerType, LoopType
<1>3. CountType'
  BY <1>1 DEF LoggerInv, LoggerType, CountType
<1>4. /\ mfile' \in 0 .. MaxTime /\ mfile' \in 0 .. now
      /\ now \in 0 .. MaxTime /\ MaxTime \in Nat /\ sdx \in [0 .. MaxTime -> Seq(Nat)]
      /\ \A t \in 0 .. MaxTime : t > mfile' => sdx[t] = <<>>
      /\ InOrder
  BY Constants DEF LoggerInv, LoggerType, FileType, OrderInv, NoLaterFile
<1>5. PICK b \in Blocks : diskBuffer = <<b>>
  BY DEF LoggerInv, LoggerType, LoopType
<1>6. diskBuffer[1] = b /\ \A r \in Recorded : r < b
  BY <1>5 DEF LoggerInv, OrderInv, FiledFirst
<1>7. /\ Recorded' = Recorded \cup {b} /\ InOrder' /\ sdx' \in [0 .. MaxTime -> Seq(Nat)]
      /\ \A t \in 0 .. MaxTime : t > mfile' => sdx'[t] = <<>>
  <2>1. PICK e \in {<<b>>, <<Header>> \o <<b>>} : FileWrite(mfile', e)
    BY <1>5
  <2>2. e \in Seq(Nat) /\ Follows(e) /\ Entries(e) = {b}
    BY <1>6, <2>1, OneBlock
  <2> QED BY <1>4, <2>1, <2>2, Appended
<1>8. FileType'
  BY <1>4, <1>7 DEF LoggerInv, LoggerType, FileType
<1>9. NoLaterFile'
  BY <1>4, <1>7 DEF NoLaterFile
<1> QED BY <1>1, <1>2, <1>3, <1>6, <1>7, <1>8, <1>9, BlockLeaves

LEMMA InvOpen == LoggerInv /\ OpenFile => LoggerInv'
<1> SUFFICES ASSUME LoggerInv, OpenFile PROVE LoggerInv'
  OBVIOUS
<1>1. /\ at = "file"
      /\ UNCHANGED <<ring, acq_state, to, now, acquired, acq_miss, since, entered>>
  BY DEF OpenFile
<1>2. CASE Fails(-2) /\ mfile' \in FailedOpen /\ UNCHANGED sdx
  BY <1>1, <1>2, InvFails DEF FailedOpen
<1>3. CASE Fails(-3) /\ mfile' = makeFilename /\ UNCHANGED sdx
  BY <1>1, <1>3, InvFails DEF makeFilename
<1>4. CASE Fails(-4) /\ mfile' = makeFilename /\ FileWrite(makeFilename, <<Header>>)
  BY <1>1, <1>4, InvFails DEF makeFilename
<1>5. CASE Filed /\ mfile' = makeFilename /\ FileWrite(makeFilename, <<Header>> \o diskBuffer)
  <2>1. now # NotOpen
    BY DEF LoggerInv, LoggerType, FileType, NotOpen
  <2> QED BY <1>1, <1>5, <2>1, InvFiled DEF makeFilename
<1> QED BY <1>2, <1>3, <1>4, <1>5 DEF OpenFile

LEMMA InvWrite == LoggerInv /\ WriteData => LoggerInv'
<1> SUFFICES ASSUME LoggerInv, WriteData PROVE LoggerInv'
  OBVIOUS
<1>1. /\ at = "file" /\ mfile' = mfile
      /\ UNCHANGED <<ring, acq_state, to, now, acquired, acq_miss, since, entered>>
  BY DEF WriteData
<1>2. CASE Fails(-4) /\ UNCHANGED sdx
  BY <1>1, <1>2, InvFails
<1>3. CASE mfile # NotOpen /\ Filed /\ FileWrite(mfile, diskBuffer)
  BY <1>1, <1>3, InvFiled
<1> QED BY <1>2, <1>3 DEF WriteData

-----------------------------------------------------------------------------
(* The invariant, and what follows from it. *)

THEOREM LoggerInvAlways == LoggerSpec => []LoggerInv
<1>1. LoggerInv /\ [LoggerNext]_loggerVars => LoggerInv'
  <2> SUFFICES ASSUME LoggerInv, [LoggerNext]_loggerVars PROVE LoggerInv'
    OBVIOUS
  <2>1. CASE MainLoop
    BY <2>1, InvMenu, InvAcq, InvFiling, InvControl, InvCopy, InvAdvance, InvOpen, InvWrite
       DEF MainLoop
  <2>2. CASE UNCHANGED loggerVars
    <3>1. UNCHANGED <<at, state, acq_state, mfile, to, now, entered, ring, diskBuffer, sdx,
                      acquired, acq_miss, ghosts>>
      BY <2>2 DEF loggerVars, storage
    <3>2. LoopType'
      <4>1. getCount' = getCount
        BY <3>1, RingSame
      <4> QED BY <3>1, <4>1 DEF LoggerInv, LoggerType, LoopType
    <3>3. FileType' /\ CountType' /\ NoLaterFile'
      BY <3>1 DEF LoggerInv, LoggerType, FileType, CountType, OrderInv, NoLaterFile, ghosts
    <3> QED BY <3>1, <3>2, <3>3, Quiet
  <2> QED BY <2>1, <2>2, InvIsr, InvSecond DEF LoggerNext
<1> QED BY <1>1, InvInit, PTL DEF LoggerSpec

(* Blocks are filed in the order in which the interrupt acquired them. *)
THEOREM InOrderAlways == LoggerSpec => []InOrder
<1>1. LoggerInv => InOrder
  BY DEF LoggerInv, OrderInv
<1> QED BY <1>1, LoggerInvAlways, PTL

(* No block is lost without being counted. *)
THEOREM BlocksAccountedAlways == LoggerSpec => []BlocksAccounted
<1>1. LoggerInv => BlocksAccounted
  <2> SUFFICES ASSUME LoggerInv PROVE BlocksAccounted
    OBVIOUS
  <2>1. CASE at = "file"
    BY <2>1 DEF LoggerInv, Balance, Known, BlocksAccounted
  <2>2. CASE at # "file"
    <3>1. Known \in Nat
      BY RecordedFinite, Count, Constants DEF LoggerInv, LoggerType, CountType, OrderInv, Known
    <3>2. acquired = Known + 0
      BY <2>2, <3>1 DEF LoggerInv, Balance
    <3> QED BY <2>2, <3>2 DEF Known, BlocksAccounted
  <2> QED BY <2>1, <2>2
<1> QED BY <1>1, LoggerInvAlways, PTL

(* What an acquisition left in the buffer is not filed by the next one. *)
THEOREM OnlySinceStartAlways == LoggerSpec => []OnlySinceStart
<1>1. LoggerInv => OnlySinceStart
  <2> SUFFICES ASSUME LoggerInv, acq_state = 1, NEW i \in 1 .. getCount
               PROVE  data_buffer[(rear + i) % MAXBUF] > since
    BY DEF OnlySinceStart
  <2>1. i \in 1 .. MAXBUF - 1 /\ rear \in Slot
    BY Count, Constants DEF LoggerInv, LoggerType, RingType
  <2>2. (rear + i) % MAXBUF = Position(rear, i)
    BY <2>1, PositionIsMod
  <2> QED BY <2>2 DEF LoggerInv, SinceStart, Waiting
<1> QED BY <1>1, LoggerInvAlways, PTL
=============================================================================
