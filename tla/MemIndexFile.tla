---------------------------- MODULE MemIndexFile ----------------------------
(***************************************************************************)
(* MemIndexFile, the index file in memory: one piece of the heap that is   *)
(* allocated by the first write and reallocated by each one that goes      *)
(* beyond the end.  Allocation may fail, and reallocation may move it.     *)
(* The record store opens one when no store takes the index, through       *)
(* IndexMemFS, and closes it with the session.                             *)
(***************************************************************************)
EXTENDS Integers, Sequences

CONSTANTS
  Unit,        \* what a byte may be
  Junk,        \* what is in memory before anything was written
  MaxLength,   \* bound: bytes of a file
  Pieces       \* pieces of memory the heap can give

ASSUME UnitAssumption == Junk \notin Unit
ASSUME SizesAssumption == MaxLength \in Nat /\ Pieces \subseteq Nat \ {0}

VARIABLES
  heap,                  \* what each piece holds, Free if not allocated
  _storage_ptr,          \* a piece, or nullptr
  _storage_size,
  _current_file_index,
  _open,
  answer                 \* what the last read gave

vars == <<heap, _storage_ptr, _storage_size, _current_file_index, _open, answer>>

nullptr == 0
Free == <<>>
Fresh(n) == [i \in 1 .. n |-> Junk]

Data == UNION { [1 .. n -> Unit] : n \in 1 .. MaxLength }

-----------------------------------------------------------------------------
(* The heap: what malloc and realloc may return, and the heap after it.    *)

malloc(n) ==
  { [ptr |-> p, heap |-> [heap EXCEPT ![p] = Fresh(n)]] : p \in { q \in Pieces : heap[q] = Free } }

Resized(old, n) == [i \in 1 .. n |-> IF i <= Len(old) THEN old[i] ELSE Junk]

\* The piece grows where it is, or another one takes what it holds.
realloc(ptr, n) ==
  { [ptr |-> p, heap |-> [heap EXCEPT ![ptr] = Free, ![p] = Resized(heap[ptr], n)]] :
      p \in { q \in Pieces : q = ptr \/ heap[q] = Free } }

FaultyAllocated(n) == malloc(n)   \* Mutant: what was written is not taken along

Allocated(n) == IF _storage_ptr = nullptr THEN malloc(n) ELSE realloc(_storage_ptr, n)

-----------------------------------------------------------------------------
Init ==
  /\ heap = [p \in Pieces |-> Free]
  /\ _storage_ptr = nullptr /\ _storage_size = 0 /\ _current_file_index = 0
  /\ _open = FALSE /\ answer = <<>>

\* IndexMemFS::open, of OpenIndex when no index is open.
open ==
  /\ ~_open
  /\ _open' = TRUE
  /\ _storage_ptr' = nullptr /\ _storage_size' = 0 /\ _current_file_index' = 0
  /\ UNCHANGED <<heap, answer>>

Copied(piece, data) ==
  [i \in DOMAIN piece |->
     IF i - _current_file_index \in DOMAIN data THEN data[i - _current_file_index] ELSE piece[i]]

\* Within the file, data replaces what is there.
WriteWithin(data) ==
  /\ _current_file_index + Len(data) <= _storage_size
  /\ heap' = [heap EXCEPT ![_storage_ptr] = Copied(@, data)]
  /\ UNCHANGED <<_storage_ptr, _storage_size>>

\* Beyond its end, the file grows first.
WriteBeyond(data) ==
  /\ _current_file_index + Len(data) > _storage_size
  /\ _storage_size' = _current_file_index + Len(data)
  /\ \E new \in Allocated(_storage_size') :
       /\ _storage_ptr' = new.ptr
       /\ heap' = [new.heap EXCEPT ![new.ptr] = Copied(@, data)]

write(data) ==
  /\ _open
  /\ _current_file_index + Len(data) <= MaxLength
  /\ WriteWithin(data) \/ WriteBeyond(data)
  /\ _current_file_index' = _current_file_index + Len(data)
  /\ UNCHANGED <<_open, answer>>

\* No memory: -1, and everything stays.
WriteFails(data) ==
  /\ _open
  /\ _current_file_index + Len(data) > _storage_size
  /\ UNCHANGED vars

Readable(n) ==
  IF _current_file_index + n > _storage_size THEN _storage_size - _current_file_index ELSE n

read(n) ==
  /\ _open
  /\ IF _storage_ptr = nullptr
       THEN answer' = <<>> /\ UNCHANGED _current_file_index
       ELSE /\ answer' = SubSeq(heap[_storage_ptr], _current_file_index + 1,
                                _current_file_index + Readable(n))
            /\ _current_file_index' = _current_file_index + Readable(n)
  /\ UNCHANGED <<heap, _storage_ptr, _storage_size, _open>>

\* Of SeekSet, the only mode the record store uses.
seek(p) ==
  /\ _open
  /\ IF (_storage_ptr = nullptr /\ p > 0) \/ p > _storage_size
       THEN UNCHANGED _current_file_index
       ELSE _current_file_index' = p
  /\ UNCHANGED <<heap, _storage_ptr, _storage_size, _open, answer>>

FaultyFreed == heap          \* Mutant: the memory of a closed file is kept

Freed == IF _storage_ptr = nullptr THEN heap ELSE [heap EXCEPT ![_storage_ptr] = Free]

\* CloseIndex, or remove of the file system.
close ==
  /\ _open
  /\ heap' = Freed
  /\ _storage_ptr' = nullptr /\ _storage_size' = 0 /\ _current_file_index' = 0
  /\ _open' = FALSE
  /\ UNCHANGED answer

Next ==
  \/ open \/ close
  \/ \E data \in Data : write(data) \/ WriteFails(data)
  \/ \E n \in 1 .. MaxLength : read(n)
  \/ \E p \in 0 .. MaxLength : seek(p)

Spec == Init /\ [][Next]_vars

-----------------------------------------------------------------------------
(* The heap holds the one piece the file owns, as long as the file is, and *)
(* none between two sessions: no order of reopenings and moves leaks one   *)
(* or leaves the file with one that was freed.                             *)
OwnsItsMemory ==
  /\ { p \in Pieces : heap[p] # Free } = IF _storage_ptr = nullptr THEN {} ELSE {_storage_ptr}
  /\ _storage_ptr # nullptr => Len(heap[_storage_ptr]) = _storage_size

(* To the record store it is a file: it reads what was last written at a   *)
(* place, wherever the memory moved, and a write without memory or a seek  *)
(* beyond the end leaves it as it was.                                     *)
File == INSTANCE IndexFile WITH
          open <- _open,
          content <- IF _storage_ptr = nullptr THEN <<>> ELSE heap[_storage_ptr],
          position <- _current_file_index
FileSpec == File!Spec
=============================================================================
