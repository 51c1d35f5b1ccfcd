--------------------------- MODULE MCIndexCache ---------------------------
(***************************************************************************)
(* IndexCache on small instances.  Records are told apart by a letter and  *)
(* a length: "a" and "w" are short, "L" is long enough to close a block.   *)
(***************************************************************************)
EXTENDS IndexCache

CONSTANTS
  Appended,   \* the records callers append
  Written     \* the records callers write over others

MCRec == {"zero", "old", "root", "a", "w", "L"}
MCRootRec == {"root"}
MCSize == [r \in MCRec |-> IF r = "L" THEN 2 ELSE 1]

(* Callers append and write the records of real objects. *)
MCNext ==
  \/ GenerateIndex
  \/ \E r \in Appended : AppendIndexRecord(r)
  \/ \E h \in Handle, r \in Written : WriteIndexRecord(h, r)
  \/ \E h \in Handle : ReadIndexRecord(h)
  \/ ResetIndex
  \/ CloseIndex
MCSpec == Init /\ [][MCNext]_vars

(* Two states differ only if a later step can: the last answer is only     *)
(* read by the step that gives it, slots are compared by age, and a closed *)
(* index leaves nothing a later one reads.                                 *)
MCView ==
  <<opened, generated, entries, root,
    IF opened
    THEN <<[s \in SlotId |-> <<Age(cache, s), cache.slot[s].block, cache.slot[s].dirty,
                               cache.slot[s].data>>],
           cache.maxw, cache.file>>
    ELSE <<>> >>
============================================================================
