---------------------------- MODULE IndexCache ----------------------------
(***************************************************************************)
(* The record store of class MTPStorage on machines with                   *)
(* MTP_RECORD_BLOCKS (src/src/MTP_Storage.cpp): object records packed in   *)
(* blocks, a few blocks cached in RAM, the others in the index file.       *)
(* Handles below MaxFS are the roots of the stores and live in two arrays. *)
(*                                                                         *)
(* A record is an abstract value with a size; what the bytes of a block    *)
(* look like is RecordLayout's business, so WriteIndexRecord is restricted *)
(* here to records that take no more room than the one they replace.       *)
(***************************************************************************)
EXTENDS Integers, FiniteSets

CONSTANTS
  NSlots,     \* MTP_RECORD_BLOCKS: blocks in RAM
  PerBlock,   \* MAX_RECORDS_PER_BLOCK
  MaxFS,      \* MTPD_MAX_FILESYSTEMS
  CycleMod,   \* values of the uint16_t cycle counter
  MaxBlock,   \* bound: the last block a run may append to
  NoBlock,    \* 0xffff: block_index of a slot that holds no block
  Rec,        \* the records
  RootRec,    \* the records a root can hold
  NewRoot,    \* the record GenerateIndex gives a root
  Zero,       \* the all-zero record
  OldRec,     \* a record an index file of an earlier session may hold
  Size,       \* bytes a record takes in a block
  Fudge,      \* BLOCK_SIZE_NAME_FUDGE
  Capacity    \* BLOCK_SIZE_DATA

ASSUME SlotsAssumption == NSlots \in Nat /\ NSlots >= 2
ASSUME BlockAssumption ==
  /\ PerBlock \in Nat \ {0}
  /\ MaxFS \in Nat \ {0}
  /\ MaxBlock \in Nat
  /\ NoBlock \in Nat /\ NoBlock > MaxBlock + 1
ASSUME CycleAssumption == CycleMod \in Nat /\ CycleMod >= 2
ASSUME RecAssumption ==
  /\ RootRec \subseteq Rec /\ NewRoot \in RootRec
  /\ Zero \in Rec /\ OldRec \in Rec
  /\ Size \in [Rec -> Nat \ {0}]
  /\ Fudge \in Nat /\ Capacity \in Nat
  /\ \A r \in Rec : Size[r] + Fudge <= Capacity

VARIABLES
  opened,     \* index_ is an open File
  generated,  \* index_generated_
  entries,    \* index_entries_
  root,       \* store_first_child_[], store_scanned_[]
  cache,      \* recordBlocks_[], recordBlocksInfo_[], the cycle counter,
              \* maxrecordBlockWritten_ and the index file
  answer      \* the last ReadIndexRecord: the handle and what it returned

vars == <<opened, generated, entries, root, cache, answer>>

----------------------------------------------------------------------------
(* Handles, blocks and slots *)

SlotId == 0 .. NSlots - 1
RootHandle == 0 .. MaxFS - 1
BlockId == 0 .. MaxBlock + 1
Index == 0 .. PerBlock - 1
Handle == 0 .. MaxFS + (MaxBlock + 1) * PerBlock

BlockOf(h) == (h - MaxFS) \div PerBlock
IndexOf(h) == (h - MaxFS) % PerBlock
FirstHandle(b) == MaxFS + b * PerBlock

Block == [cnt : Nat, next : Nat, recs : [Index -> Rec]]
EmptyBlock == [cnt |-> 0, next |-> 0, recs |-> [k \in Index |-> Zero]]
OldBlock == [cnt |-> PerBlock, next |-> Capacity, recs |-> [k \in Index |-> OldRec]]

Slot == [block : BlockId \cup {NoBlock}, last : 0 .. CycleMod - 1, dirty : BOOLEAN, data : Block]
Cache == [slot : [SlotId -> Slot], cycle : 0 .. CycleMod - 1,
          maxw : -1 .. MaxBlock + 1, file : [BlockId -> Block]]

First(S) == CHOOSE x \in S : \A y \in S : x <= y

----------------------------------------------------------------------------
(* The block cache *)

Copies(c, b) == {s \in SlotId : c.slot[s].block = b}
Cached(c, b) == Copies(c, b) # {}

(* The slots at which the search for block b stops. *)
Hits(c, b) == Copies(c, b) \cup Copies(c, NoBlock)

(* How many cycles ago slot s was used: a uint16_t difference. *)
Age(c, s) == (c.cycle - c.slot[s].last) % CycleMod

(* The slot to replace: the first of the largest age. *)
Victim(c) ==
  CHOOSE v \in SlotId :
    /\ \A s \in SlotId : Age(c, s) <= Age(c, v)
    /\ \A s \in SlotId : s < v => Age(c, s) < Age(c, v)

(* Blocks below b that the file does not hold yet and the cache does. *)
Gap(c, b) == {g \in c.maxw + 1 .. b - 1 : Cached(c, g)}

(* Seeded faults, for the check that the properties below can fail: each   *)
(* Faulty* operator stands in turn for the definition that follows it.     *)
FaultyPosition(c, b, g) ==      \* extension starts one block too early
  IF b <= c.maxw \/ c.maxw < 0 THEN b
  ELSE c.maxw + Cardinality({x \in Gap(c, b) : x < g})

(* Where block g lands in the file when block b is spilled: in place if    *)
(* the file is long enough; else, after a seek to the end of the file, the *)
(* gap blocks found in the cache are written one after the other and b     *)
(* after them, wherever that is.                                           *)
Position(c, b, g) ==
  IF b <= c.maxw THEN b
  ELSE c.maxw + 1 + Cardinality({x \in Gap(c, b) : x < g})

Spilled(c, b) == Gap(c, b) \cup {b}
Holder(c, v, g) == IF g = c.slot[v].block THEN v ELSE First(Copies(c, g))

(* Slot v is written out, and before it the gap blocks its place needs. *)
WriteOut(c, v) ==
  LET b == c.slot[v].block
      lands(g, p) == g \in Spilled(c, b) /\ Position(c, b, g) = p
  IN [c EXCEPT
        !.file = [p \in BlockId |->
                    IF \E g \in Spilled(c, b) : lands(g, p)
                    THEN c.slot[Holder(c, v, CHOOSE g \in Spilled(c, b) : lands(g, p))].data
                    ELSE c.file[p]],
        !.slot = [s \in SlotId |->
                    IF \E g \in Gap(c, b) : s = First(Copies(c, g))
                    THEN [c.slot[s] EXCEPT !.dirty = FALSE]
                    ELSE c.slot[s]],
        !.maxw = IF b > c.maxw THEN b ELSE c.maxw]

FaultyTick(c) == [c EXCEPT !.cycle = c.cycle + 1]      \* wider than uint16_t
Tick(c) == [c EXCEPT !.cycle = (c.cycle + 1) % CycleMod]

FaultyChosen(c, b) ==           \* an unused slot is preferred to a hit
  IF Copies(c, NoBlock) # {} THEN First(Copies(c, NoBlock))
  ELSE IF Cached(c, b) THEN First(Copies(c, b)) ELSE Victim(c)

(* The slot CacheRecordBlock returns, after the cycle counter has advanced. *)
Chosen(c, b) == IF Hits(c, b) # {} THEN First(Hits(c, b)) ELSE Victim(c)

FaultyClaim(c, s, b) ==         \* a hit does not refresh last_cycle_used
  [c EXCEPT !.slot[s] =
     [block |-> b, last |-> c.slot[s].last, dirty |-> c.slot[s].dirty,
      data |-> IF c.slot[s].block = b THEN c.slot[s].data ELSE EmptyBlock]]

(* The search stopped at slot s: use it, cleared if it held no block. *)
Claim(c, s, b) ==
  [c EXCEPT !.slot[s] =
     [block |-> b, last |-> c.cycle, dirty |-> c.slot[s].dirty,
      data |-> IF c.slot[s].block = b THEN c.slot[s].data ELSE EmptyBlock]]

FaultyReplace(c, v, b) ==       \* the victim is dropped without being spilled
  [c EXCEPT !.slot[v] =
     [block |-> b, last |-> c.cycle, dirty |-> FALSE,
      data |-> IF b <= c.maxw THEN c.file[b] ELSE EmptyBlock]]

(* Slot v is spilled if dirty, then holds what the file has of block b. *)
Replace(c, v, b) ==
  LET w == IF c.slot[v].dirty THEN WriteOut(c, v) ELSE c
  IN [w EXCEPT !.slot[v] =
        [block |-> b, last |-> c.cycle, dirty |-> FALSE,
         data |-> IF b <= w.maxw THEN w.file[b] ELSE EmptyBlock]]

CacheRecordBlock(c, b) ==
  LET t == Tick(c)
      s == Chosen(t, b)
  IN IF Hits(t, b) # {} THEN Claim(t, s, b) ELSE Replace(t, s, b)

SlotOf(c, b) == Chosen(Tick(c), b)

(* The block in slot s becomes data. *)
Updated(c, s, data, dirty) ==
  [c EXCEPT !.slot[s] = [block |-> c.slot[s].block, last |-> c.slot[s].last,
                         dirty |-> dirty, data |-> data]]

WithRecord(d, k, r) == [cnt |-> d.cnt, next |-> d.next, recs |-> [d.recs EXCEPT ![k] = r]]
Extended(d, k, r) ==
  [cnt |-> d.cnt + 1, next |-> d.next + Size[r], recs |-> [d.recs EXCEPT ![k] = r]]

FaultyPutRecord(c, s, k, r) ==  \* an updated block is not marked dirty
  Updated(c, s, WithRecord(c.slot[s].data, k, r), c.slot[s].dirty)

PutRecord(c, s, k, r) ==
  Updated(c, s, WithRecord(c.slot[s].data, k, r),
          c.slot[s].dirty \/ r # c.slot[s].data.recs[k])

FaultyAddRecord(c, s, k, r) ==  \* an extended block is not marked dirty
  Updated(c, s, Extended(c.slot[s].data, k, r), c.slot[s].dirty)

AddRecord(c, s, k, r) == Updated(c, s, Extended(c.slot[s].data, k, r), TRUE)

----------------------------------------------------------------------------
(* Opening and closing the index file *)

(* What the file holds past what was written since it was opened: the file *)
(* may be new, or one removed or left by an earlier session.               *)
OldFile == [b \in BlockId |-> OldBlock]

FaultyFreshCache ==             \* the loop marks slots 0 .. N-2 unused, not 1 .. N-1
  [slot |-> [s \in SlotId |-> [block |-> IF s = NSlots - 1 THEN 0 ELSE NoBlock, last |-> 0,
                               dirty |-> FALSE, data |-> EmptyBlock]],
   cycle |-> 0, maxw |-> -1, file |-> OldFile]

(* The caches as OpenIndex leaves them: slot 0 holds block 0, empty, and   *)
(* nothing is assumed to be in the file.                                   *)
FreshCache ==
  [slot |-> [s \in SlotId |-> [block |-> IF s = 0 THEN 0 ELSE NoBlock, last |-> 0,
                               dirty |-> FALSE, data |-> EmptyBlock]],
   cycle |-> 0, maxw |-> -1, file |-> OldFile]

OpenIndex == IF opened THEN cache ELSE FreshCache

Init ==
  /\ opened = FALSE
  /\ generated = FALSE
  /\ entries = 0
  /\ root = [h \in RootHandle |-> NewRoot]
  /\ cache = FreshCache
  /\ answer = [h |-> 0, r |-> NewRoot]

(* The entries are counted from zero again and the roots are appended;     *)
(* writing the first root opens the index.                                 *)
GenerateIndex ==
  /\ ~generated
  /\ generated' = TRUE
  /\ opened' = TRUE
  /\ entries' = MaxFS
  /\ root' = [h \in RootHandle |-> NewRoot]
  /\ cache' = OpenIndex
  /\ UNCHANGED answer

(* setIndexStore: the next index goes to another file.  The blocks in RAM  *)
(* and the roots are left as they are.                                     *)
CloseIndex ==
  /\ opened' = FALSE
  /\ generated' = FALSE
  /\ entries' = 0
  /\ UNCHANGED <<root, cache, answer>>

(* ResetIndex, when a session opens: nothing to do if no index is open. *)
ResetIndex == opened /\ CloseIndex

----------------------------------------------------------------------------
(* The index records *)

FaultyAppendIndexRecord(r) ==   \* index_entries_ is not corrected after a skip
  LET b0 == BlockOf(entries)
      c1 == CacheRecordBlock(cache, b0)
      s1 == SlotOf(cache, b0)
      fits == c1.slot[s1].data.next + Size[r] + Fudge <= Capacity
      h == IF fits THEN entries ELSE FirstHandle(b0 + 1)
  IN /\ generated
     /\ BlockOf(h) <= MaxBlock
     /\ cache' = IF fits THEN AddRecord(c1, s1, IndexOf(h), r)
                 ELSE AddRecord(CacheRecordBlock(c1, b0 + 1), SlotOf(c1, b0 + 1), 0, r)
     /\ entries' = entries + 1
     /\ UNCHANGED <<opened, generated, root, answer>>

(* The record goes to the block of handle index_entries_ if it fits there  *)
(* with some room to spare, else to the next block, skipping handles.      *)
AppendIndexRecord(r) ==
  LET b0 == BlockOf(entries)
      c1 == CacheRecordBlock(cache, b0)
      s1 == SlotOf(cache, b0)
      fits == c1.slot[s1].data.next + Size[r] + Fudge <= Capacity
      h == IF fits THEN entries ELSE FirstHandle(b0 + 1)
  IN /\ generated
     /\ BlockOf(h) <= MaxBlock
     /\ cache' = IF fits THEN AddRecord(c1, s1, IndexOf(h), r)
                 ELSE AddRecord(CacheRecordBlock(c1, b0 + 1), SlotOf(c1, b0 + 1), 0, r)
     /\ entries' = h + 1
     /\ UNCHANGED <<opened, generated, root, answer>>

(* The block as a reader would find it: in the cache, else in the file. *)
Held(c, b) ==
  IF Cached(c, b) THEN c.slot[First(Copies(c, b))].data
  ELSE IF b <= c.maxw THEN c.file[b] ELSE EmptyBlock

(* The handles callers have been given. *)
Issued(h) ==
  /\ h < entries
  /\ h >= MaxFS => IndexOf(h) < Held(cache, BlockOf(h)).cnt

WriteIndexRecord(h, r) ==
  /\ Issued(h)
  /\ IF h < MaxFS
     THEN /\ r \in RootRec
          /\ root' = [root EXCEPT ![h] = r]
          /\ UNCHANGED cache
     ELSE LET c1 == CacheRecordBlock(cache, BlockOf(h))
              s == SlotOf(cache, BlockOf(h))
              k == IndexOf(h)
          IN /\ Size[r] <= Size[c1.slot[s].data.recs[k]]
             /\ cache' = PutRecord(c1, s, k, r)
             /\ UNCHANGED root
  /\ UNCHANGED <<opened, generated, entries, answer>>

(* Handles above index_entries_ are answered without touching the index;   *)
(* the next one to be issued is not one of them.                           *)
ReadIndexRecord(h) ==
  /\ IF h > entries
     THEN /\ answer' = [h |-> h, r |-> Zero]
          /\ UNCHANGED <<opened, cache>>
     ELSE /\ opened' = TRUE
          /\ LET c0 == OpenIndex
                 c1 == CacheRecordBlock(c0, BlockOf(h))
                 d == c1.slot[SlotOf(c0, BlockOf(h))].data
                 k == IndexOf(h)
             IN IF h < MaxFS
                THEN /\ answer' = [h |-> h, r |-> root[h]]
                     /\ cache' = c0
                ELSE /\ answer' = [h |-> h, r |-> IF k < d.cnt THEN d.recs[k] ELSE Zero]
                     /\ cache' = c1
  /\ UNCHANGED <<generated, entries, root>>

(* close() after a file that never opened: open_file_ is 0xFFFFFFFE, its   *)
(* record reads as zero, "not a directory", and is written back.  Its      *)
(* block number, truncated to uint16_t, is 0xffff.                         *)
CloseWithoutFile ==
  /\ generated
  /\ cache' = LET c1 == CacheRecordBlock(cache, NoBlock)
              IN PutRecord(c1, SlotOf(cache, NoBlock), 0, Zero)
  /\ UNCHANGED <<opened, generated, entries, root, answer>>

Next ==
  \/ GenerateIndex
  \/ \E r \in Rec : AppendIndexRecord(r)
  \/ \E h \in Handle, r \in Rec : WriteIndexRecord(h, r)
  \/ \E h \in Handle : ReadIndexRecord(h)
  \/ ResetIndex
  \/ CloseIndex

Spec == Init /\ [][Next]_vars

(* The same with the call close() makes when no file is open. *)
OrphanNext == Next \/ CloseWithoutFile
OrphanSpec == Init /\ [][OrphanNext]_vars

----------------------------------------------------------------------------
(* Properties *)

TypeOK ==
  /\ opened \in BOOLEAN
  /\ generated \in BOOLEAN
  /\ entries \in Handle
  /\ root \in [RootHandle -> RootRec]
  /\ cache \in Cache
  /\ answer \in [h : Handle, r : Rec]

(* A block has at most one copy in RAM: the search of CacheRecordBlock     *)
(* "makes sure the block we want is in the block cache" and never takes an *)
(* unused slot while another slot holds the block.                         *)
NoTwoCopies(c) ==
  \A s, t \in SlotId :
    s # t /\ c.slot[s].block = c.slot[t].block => c.slot[s].block = NoBlock
OneCopy == opened => NoTwoCopies(cache)

(* Unused slots come after all the used ones, so that "not in cache" means *)
(* "cache is full" when the search falls through; and a claimed slot may   *)
(* be cleared instead of read, since nothing has been spilled yet.         *)
UnusedSlotsLast(c) ==
  \A s \in SlotId :
    c.slot[s].block = NoBlock =>
      /\ c.maxw = -1
      /\ \A t \in SlotId : s < t => c.slot[t].block = NoBlock
UnusedLast == opened => UnusedSlotsLast(cache)

(* Dropping a clean slot loses nothing: the file has its block, or no      *)
(* record was ever put in it.  (Spilling a block marks its gap blocks      *)
(* clean too.)                                                             *)
CleanSlotsSpilled(c) ==
  \A s \in SlotId :
    LET b == c.slot[s].block
    IN b # NoBlock /\ ~c.slot[s].dirty
         => c.slot[s].data = IF b <= c.maxw THEN c.file[b] ELSE EmptyBlock
CleanIsSpilled == opened => CleanSlotsSpilled(cache)

(* The block of the last record appended. *)
LastOf(n) == IF n <= MaxFS THEN -1 ELSE BlockOf(n - 1)
LastBlock == LastOf(entries)

(* Every block of the index that the file does not hold yet is in RAM and  *)
(* dirty: the loop that extends the file finds each gap block, so each is  *)
(* written at its own place; and only blocks of the index are ever dirty.  *)
UnwrittenUpTo(c, last) ==
  /\ c.maxw <= last
  /\ \A b \in c.maxw + 1 .. last :
       \E s \in SlotId : c.slot[s].block = b /\ c.slot[s].dirty
  /\ \A s \in SlotId : c.slot[s].dirty => c.slot[s].block <= last
UnwrittenIsCached == opened => UnwrittenUpTo(cache, LastBlock)

(* The records counted in a block are the handles it has issued, whether   *)
(* the block is in RAM or spilled: the last block ends at index_entries_,  *)
(* later blocks are empty, earlier ones are not.                           *)
CountsUpTo(c, n, last) ==
  /\ \A b \in BlockId : b > last => Held(c, b) = EmptyBlock
  /\ \A b \in 0 .. last : Held(c, b).cnt \in 1 .. PerBlock
  /\ last >= 0 => Held(c, last).cnt = IndexOf(n - 1) + 1
CountsAgree == opened => CountsUpTo(cache, entries, LastBlock)

(* Some slot has a positive age when a victim is sought, even when the     *)
(* 16-bit cycle counter has wrapped: biIndexReplace never stays -1.        *)
VictimExists ==
  opened => \E s \in SlotId : Age(Tick(cache), s) > 0

(* The index keeps every record it was given under the handle it returned, *)
(* whatever is cached, spilled, evicted or read back, and issues handles   *)
(* in increasing order: "MTP object handles should not change or be        *)
(* re-used during a session".                                              *)
recs ==
  [h \in {g \in Handle : Issued(g)} |->
     IF h < MaxFS THEN root[h] ELSE Held(cache, BlockOf(h)).recs[IndexOf(h)]]
Store == INSTANCE IndexStore WITH recs <- recs, answer <- answer
StoreSpec == Store!Spec
============================================================================
