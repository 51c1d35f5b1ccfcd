-------------------------- MODULE MCRecordLayout --------------------------
(***************************************************************************)
(* RecordLayout on a block of a few words: names that leave the last word  *)
(* almost empty, that fill it but for the NUL, and that need one more.     *)
(***************************************************************************)
EXTENDS RecordLayout

MCName == {"a", "abc", "abcd"}
MCNameLen == [n \in MCName |-> IF n = "a" THEN 1 ELSE IF n = "abc" THEN 3 ELSE 4]
============================================================================
