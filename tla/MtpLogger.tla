----------------------------- MODULE MtpLogger -----------------------------
(***************************************************************************)
(* examples/mtp-logger: a timer interrupt acquires blocks of samples and   *)
(* pushes them into a circular buffer; the loop pulls them out one at a    *)
(* time and files them, a new file every t_on seconds, between the         *)
(* commands s (start) and q (stop).  While nothing is acquired the loop    *)
(* runs the MTP responder instead.                                         *)
(*                                                                         *)
(* The interrupt can come between any two steps of the loop.  Blocks are   *)
(* numbered in the order they are acquired, a file is named by the second  *)
(* it is opened in (opening it again appends), and NDBL is 1 as it is in   *)
(* the sketch.                                                             *)
(***************************************************************************)
EXTENDS Integers, Sequences, FiniteSets

CONSTANTS
  MAXBUF,        \* slots of the circular buffer
  OnTime,        \* t_on: seconds in a file
  MaxBlocks,     \* bound: blocks acquired
  MaxTime,       \* bound: the clock's last second
  MaxTyped       \* bound: commands typed

ASSUME RingAssumption == MAXBUF \in Nat /\ MAXBUF > 1
ASSUME AcquisitionAssumption == OnTime \in Nat \ {0} /\ {MaxBlocks, MaxTime, MaxTyped} \subseteq Nat

VARIABLES
  at,            \* where loop() is
  state,         \* -6 .. -1: idle, after which result; 0: acquiring, no file; 2: filing;
                 \* 3: to close the file; 4: to stop
  acq_state,     \* 1 while the timer runs
  front, rear,
  data_buffer,
  diskBuffer,    \* the block pulled and not yet filed, as a sequence
  mfile,         \* the name of the open file, or NotOpen
  sdx,           \* the files: what was written to each, in order
  to,            \* the second within its file check_filing saw last
  now,           \* rtc_get()
  acquired,      \* blocks so far
  acq_miss,      \* of which the buffer had no room for
  dropped,       \* ghost: blocks that were in the buffer and will be in no file
  since,         \* ghost: blocks acquired before the timer was last started
  entered        \* commands so far

ring == <<front, rear, data_buffer>>
storage == <<mfile, sdx>>
ghosts == <<dropped, since>>
loggerVars ==
  <<at, state, acq_state, ring, diskBuffer, storage, to, now, acquired, acq_miss, ghosts, entered>>

NotOpen == -1
Header == 0
Slot == 0 .. MAXBUF - 1
Ahead(i) == IF i + 1 >= MAXBUF THEN 0 ELSE i + 1

getCount == IF front >= rear THEN front - rear ELSE front + MAXBUF - rear

LoggerInit ==
  /\ at = "menu" /\ state = -1 /\ acq_state = 0
  /\ front = 0 /\ rear = 0 /\ data_buffer = [i \in Slot |-> 0]
  /\ diskBuffer = <<>>
  /\ mfile = NotOpen /\ sdx = [t \in 0 .. MaxTime |-> <<>>]
  /\ to = 0 /\ now = 0
  /\ acquired = 0 /\ acq_miss = 0
  /\ dropped = 0 /\ since = 0
  /\ entered = 0

-----------------------------------------------------------------------------
(* The interrupt.                                                          *)

FaultyPushData(block) ==     \* Mutant: a full buffer is not noticed
  /\ data_buffer' = [data_buffer EXCEPT ![Ahead(front)] = block]
  /\ front' = Ahead(front)
  /\ UNCHANGED acq_miss

pushData(block) ==
  IF Ahead(front) = rear
  THEN /\ acq_miss' = acq_miss + 1
       /\ UNCHANGED <<front, data_buffer>>
  ELSE /\ data_buffer' = [data_buffer EXCEPT ![Ahead(front)] = block]
       /\ front' = Ahead(front)
       /\ UNCHANGED acq_miss

acq_isr ==
  /\ acq_state = 1
  /\ acquired < MaxBlocks
  /\ acquired' = acquired + 1
  /\ pushData(acquired + 1)
  /\ UNCHANGED <<at, state, acq_state, rear, diskBuffer, storage, to, now, ghosts, entered>>

SecondPasses ==
  /\ now < MaxTime
  /\ now' = now + 1
  /\ UNCHANGED <<at, state, acq_state, ring, diskBuffer, storage, to, acquired, acq_miss,
                 ghosts, entered>>

-----------------------------------------------------------------------------
(* The loop up to the state machine's turn.                                *)

\* What the menu makes of a command in a state: s only when idle, q only when not.
Menu(command) ==
  CASE command = "s" /\ state < 0 -> 0
    [] command = "q" /\ state >= 0 -> 4
    [] OTHER -> state

do_menu ==
  /\ at = "menu"
  /\ at' = "acq"
  /\ \/ UNCHANGED <<state, entered>>
     \/ \E command \in {"s", "q"} :
          /\ entered < MaxTyped
          /\ entered' = entered + 1
          /\ state' = Menu(command)
  /\ UNCHANGED <<acq_state, ring, diskBuffer, storage, to, now, acquired, acq_miss, ghosts>>

FaultyStart ==               \* Mutant: what is in the buffer stays
  /\ acq_state' = 1
  /\ since' = acquired
  /\ UNCHANGED <<front, rear, dropped>>

acq_start ==
  /\ front' = 0 /\ rear' = 0
  /\ acq_state' = 1
  /\ dropped' = dropped + getCount
  /\ since' = acquired

\* Starting does nothing if an error left the timer running.
acq_check ==
  /\ at = "acq"
  /\ at' = "filing"
  /\ IF state = 0 /\ acq_state = 0
     THEN acq_start
     ELSE /\ acq_state' = IF state > 3 THEN 0 ELSE acq_state
          /\ UNCHANGED <<front, rear, ghosts>>
  /\ UNCHANGED <<state, data_buffer, diskBuffer, storage, to, now, acquired, acq_miss, entered>>

check_filing ==
  /\ at = "filing"
  /\ at' = "turn"
  /\ IF state = 2
     THEN /\ state' = IF now % OnTime < to THEN 3 ELSE 2
          /\ to' = now % OnTime
     ELSE UNCHANGED <<state, to>>
  /\ UNCHANGED <<acq_state, ring, diskBuffer, storage, now, acquired, acq_miss, ghosts, entered>>

\* MTP.loop() runs instead of do_logger.
MtpLoop ==
  /\ at = "turn"
  /\ state < 0
  /\ at' = "menu"
  /\ UNCHANGED <<state, acq_state, ring, diskBuffer, storage, to, now, acquired, acq_miss,
                 ghosts, entered>>

-----------------------------------------------------------------------------
(* do_logger.  pullData tests, copies and advances; the interrupt may push *)
(* in between.                                                             *)

PullTest ==
  /\ at = "turn"
  /\ state >= 0
  /\ at' = IF rear = front THEN "close" ELSE "copy"
  /\ UNCHANGED <<state, acq_state, ring, diskBuffer, storage, to, now, acquired, acq_miss,
                 ghosts, entered>>

FaultyCopied == <<data_buffer[front]>>     \* Mutant: the newest block

Copied == <<data_buffer[Ahead(rear)]>>

PullCopy ==
  /\ at = "copy"
  /\ at' = "advance"
  /\ diskBuffer' = Copied
  /\ UNCHANGED <<state, acq_state, ring, storage, to, now, acquired, acq_miss, ghosts, entered>>

PullAdvance ==
  /\ at = "advance"
  /\ at' = "file"
  /\ rear' = Ahead(rear)
  /\ UNCHANGED <<state, acq_state, front, data_buffer, diskBuffer, storage, to, now, acquired,
                 acq_miss, ghosts, entered>>

\* do_logger returns a failure: the block is lost, the timer goes on, and a
\* file that was open stays open.
Fails(result) ==
  /\ at' = "menu"
  /\ state' = result
  /\ diskBuffer' = <<>>
  /\ dropped' = dropped + 1

\* A second gives one name; checkPath makes its directory, or fails before the
\* file is opened and mfile is left as it was.
makeFilename == now
FailedOpen == {mfile, NotOpen}

FileWrite(name, blocks) == sdx' = [sdx EXCEPT ![name] = @ \o blocks]

Filed ==
  /\ at' = "close"
  /\ state' = IF state = 0 THEN 2 ELSE state
  /\ diskBuffer' = <<>>
  /\ UNCHANGED dropped

\* In state 0 a file is opened and given its header before the block.
OpenFile ==
  /\ at = "file"
  /\ state = 0
  /\ \/ Fails(-2) /\ mfile' \in FailedOpen /\ UNCHANGED sdx
     \/ Fails(-3) /\ mfile' = makeFilename /\ UNCHANGED sdx
     \/ Fails(-4) /\ mfile' = makeFilename /\ FileWrite(makeFilename, <<Header>>)
     \/ Filed /\ mfile' = makeFilename /\ FileWrite(makeFilename, <<Header>> \o diskBuffer)
  /\ UNCHANGED <<acq_state, ring, to, now, acquired, acq_miss, since, entered>>

\* In state 4 there may be no file: then a block that was left is lost.
WriteData ==
  /\ at = "file"
  /\ state >= 2
  /\ \/ Fails(-4) /\ UNCHANGED sdx
     \/ mfile # NotOpen /\ Filed /\ FileWrite(mfile, diskBuffer)
  /\ UNCHANGED <<acq_state, ring, mfile, to, now, acquired, acq_miss, since, entered>>

FaultyFinish ==              \* Mutant: to stop, there must be a file to close
  /\ at = "close"
  /\ at' = "menu"
  /\ state' = CASE state = 3 -> 0 [] state = 4 /\ mfile # NotOpen -> -1 [] OTHER -> state
  /\ mfile' = IF state \in {3, 4} THEN NotOpen ELSE mfile
  /\ UNCHANGED <<acq_state, ring, diskBuffer, sdx, to, now, acquired, acq_miss, ghosts, entered>>

\* The end of do_logger.  Closing a File always closes it.
Finish ==
  /\ at = "close"
  /\ at' = "menu"
  /\ state' = CASE state = 3 -> 0 [] state = 4 -> -1 [] OTHER -> state
  /\ mfile' = IF state \in {3, 4} THEN NotOpen ELSE mfile
  /\ UNCHANGED <<acq_state, ring, diskBuffer, sdx, to, now, acquired, acq_miss, ghosts, entered>>

MainLoop ==
  \/ do_menu \/ acq_check \/ check_filing \/ MtpLoop
  \/ PullTest \/ PullCopy \/ PullAdvance \/ OpenFile \/ WriteData \/ Finish

LoggerNext == MainLoop \/ acq_isr \/ SecondPasses

(* loop() is called for ever; interrupts may come or not. *)
LoggerSpec == LoggerInit /\ [][LoggerNext]_loggerVars /\ WF_loggerVars(MainLoop)

-----------------------------------------------------------------------------
LoggerTypeOK ==
  /\ at \in {"menu", "acq", "filing", "turn", "copy", "advance", "file", "close"}
  /\ state \in {-4, -3, -2, -1, 0, 2, 3, 4}
  /\ acq_state \in {0, 1}
  /\ front \in Slot /\ rear \in Slot
  /\ data_buffer \in [Slot -> 0 .. MaxBlocks]
  /\ diskBuffer \in Seq(1 .. MaxBlocks) /\ Len(diskBuffer) <= 1
  /\ mfile \in 0 .. MaxTime \cup {NotOpen}
  /\ sdx \in [0 .. MaxTime -> Seq(Header .. MaxBlocks)]
  /\ to \in 0 .. OnTime - 1 /\ now \in 0 .. MaxTime
  /\ {acquired, acq_miss, dropped, since} \subseteq 0 .. MaxBlocks
  /\ entered \in 0 .. MaxTyped
  /\ state \in {2, 3} => mfile # NotOpen
  /\ diskBuffer # <<>> => at \in {"advance", "file"}

(* Blocks are filed in the order they were acquired and none twice, though *)
(* the interrupt may push while pullData copies, the buffer wraps or is    *)
(* full, and files are changed or failed in between.                       *)
InOrder ==
  \A t, u \in 0 .. MaxTime : \A i \in DOMAIN sdx[t], j \in DOMAIN sdx[u] :
    (t < u \/ (t = u /\ i < j)) /\ Header \notin {sdx[t][i], sdx[u][j]}
      => sdx[t][i] < sdx[u][j]

\* The blocks in all files.
Recorded == (UNION { {sdx[t][i] : i \in DOMAIN sdx[t]} : t \in 0 .. MaxTime }) \ {Header}

(* A block acquired is in a file, in the buffer, or just pulled from it;   *)
(* or it was counted in acq_miss; or it was dropped by a failed write or   *)
(* by the reset that comes with a new start.                               *)
BlocksAccounted ==
  acquired = Cardinality(Recorded) + getCount + acq_miss + dropped
             + (IF at = "file" THEN 1 ELSE 0)

(* An acquisition started from rest does not file what an earlier one left *)
(* in the buffer when it was stopped.                                      *)
OnlySinceStart ==
  acq_state = 1 =>
    \A i \in 1 .. getCount : data_buffer[(rear + i) % MAXBUF] > since

(* After q the loop comes to rest, though blocks may keep the buffer full, *)
(* and after a stop without errors no file is open.                        *)
QuitStops == state = 4 ~> state < 0 /\ (state = -1 => mfile = NotOpen)
=============================================================================
