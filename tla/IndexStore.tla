---------------------------- MODULE IndexStore ----------------------------
(***************************************************************************)
(* What the index promises its callers (class MTPStorage, the "index       *)
(* record" functions of src/src/MTP_Storage.cpp): a map from the handles   *)
(* issued in this session to records.  A handle is issued once, larger     *)
(* than every handle issued before it, and keeps the record last written   *)
(* to it until the session's index is discarded.  How records are packed   *)
(* in blocks, cached and spilled to a file is IndexCache's business.       *)
(***************************************************************************)
EXTENDS Integers

CONSTANTS
  MaxFS,      \* MTPD_MAX_FILESYSTEMS: handles below it are the stores' roots
  Handle,     \* the object handles
  Rec,        \* the records
  RootRec,    \* the records a root can hold
  NewRoot,    \* the record of a root that has not been scanned
  Zero        \* the all-zero record, the answer for an unknown handle

VARIABLES
  recs,       \* the record of every handle issued in this session
  answer      \* the last ReadIndexRecord: the handle and what it returned

vars == <<recs, answer>>

RootHandle == 0 .. MaxFS - 1

NoRecs == [h \in {} |-> Zero]

Init ==
  /\ recs = NoRecs
  /\ answer = [h |-> 0, r |-> NewRoot]

(* GenerateIndex: the roots, and nothing else, are issued. *)
Generate ==
  /\ UNCHANGED answer
  /\ recs = NoRecs
  /\ recs' = [h \in RootHandle |-> NewRoot]

Above(h, f) == \A g \in DOMAIN f : g < h
Put(f, h, r) == [g \in DOMAIN f \cup {h} |-> IF g = h THEN r ELSE f[g]]

(* AppendIndexRecord: a fresh handle, above all the issued ones. *)
Append(h, r) ==
  /\ UNCHANGED answer
  /\ recs # NoRecs
  /\ Above(h, recs)
  /\ recs' = Put(recs, h, r)

(* WriteIndexRecord changes one issued handle and no other. *)
Write(h, r) ==
  /\ UNCHANGED answer
  /\ h \in DOMAIN recs
  /\ recs' = Put(recs, h, r)

(* ReadIndexRecord answers with the record last written, and with the zero *)
(* record for a handle that is neither issued nor a root.                  *)
Read(h, r) ==
  /\ answer' = [h |-> h, r |-> r]
  /\ h \in DOMAIN recs => r = recs[h]
  /\ h \notin DOMAIN recs \cup RootHandle => r = Zero
  /\ UNCHANGED recs

(* CloseIndex, ResetIndex, setIndexStore: every handle is forgotten. *)
Discard ==
  /\ UNCHANGED answer
  /\ recs' = NoRecs

Next ==
  \/ Generate
  \/ Discard
  \/ \E h \in Handle, r \in Rec : Append(h, r) \/ Write(h, r) \/ Read(h, r)

Spec == Init /\ [][Next]_vars
============================================================================
