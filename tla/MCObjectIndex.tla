--------------------------- MODULE MCObjectIndex ---------------------------
(***************************************************************************)
(* ObjectIndex on two small stores: either the first has a directory with  *)
(* a file in it and the second is empty, or the first has a directory      *)
(* between two files and the second a file of another size.                *)
(***************************************************************************)
EXTENDS ObjectIndex

Roots == (<<0>> :> Dir) @@ (<<1>> :> Dir)
MCDisks ==
  {Roots @@ (<<0, "a">> :> Dir) @@ (<<0, "a", "b">> :> 1),
   Roots @@ (<<0, "a">> :> 1) @@ (<<0, "b">> :> Dir) @@ (<<0, "c">> :> 0) @@ (<<1, "a">> :> 2)}

(* The last answer is only read by the step that gives it.  The mode of    *)
(* file_ only matters while it is open, and open_file_ also until the      *)
(* object that was announced is closed.                                    *)
MCView == <<m.disk, m.recs, m.all, m.file,
            IF m.file # NoFile THEN <<m.mode, m.open>>
            ELSE IF objectId # 0 THEN <<m.open>> ELSE <<>>,
            m.hung, objectId, changes>>
============================================================================
