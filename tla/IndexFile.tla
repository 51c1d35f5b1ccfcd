----------------------------- MODULE IndexFile -----------------------------
(***************************************************************************)
(* The file that the record store keeps its blocks in, as it uses one:     *)
(* opened empty, written and read at a position it set before.  A write    *)
(* that fails changes nothing, a seek beyond the end is refused.           *)
(***************************************************************************)
EXTENDS Integers, Sequences

CONSTANTS
  Unit,        \* what a byte may be
  MaxLength    \* bound: bytes of the file

VARIABLES
  open,
  content,     \* the bytes of the file
  position,
  answer       \* the bytes the last read gave

vars == <<open, content, position, answer>>

Data == UNION { [1 .. n -> Unit] : n \in 1 .. MaxLength }

Longer(a, b) == IF a > b THEN a ELSE b
Shorter(a, b) == IF a < b THEN a ELSE b

\* content with data in place of what is at the position.
Overwritten(data) ==
  [i \in 1 .. Longer(Len(content), position + Len(data)) |->
     IF i \in position + 1 .. position + Len(data) THEN data[i - position] ELSE content[i]]

Init == open = FALSE /\ content = <<>> /\ position = 0 /\ answer = <<>>

Open ==
  /\ ~open
  /\ open' = TRUE
  /\ UNCHANGED <<content, position, answer>>

Write(data) ==
  /\ open
  /\ position + Len(data) <= MaxLength
  /\ content' = Overwritten(data)
  /\ position' = position + Len(data)
  /\ UNCHANGED <<open, answer>>

Read(n) ==
  /\ open
  /\ LET end == Shorter(position + n, Len(content))
     IN  answer' = SubSeq(content, position + 1, end) /\ position' = end
  /\ UNCHANGED <<open, content>>

Seek(p) ==
  /\ open
  /\ p <= Len(content)
  /\ position' = p
  /\ UNCHANGED <<open, content, answer>>

Close ==
  /\ open
  /\ open' = FALSE /\ content' = <<>> /\ position' = 0
  /\ UNCHANGED answer

Next ==
  \/ Open \/ Close
  \/ \E data \in Data : Write(data)
  \/ \E n \in 1 .. MaxLength : Read(n)
  \/ \E p \in 0 .. MaxLength : Seek(p)

Spec == Init /\ [][Next]_vars
=============================================================================
