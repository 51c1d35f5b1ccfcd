---------------------------- MODULE ObjectTree ----------------------------
(***************************************************************************)
(* What a host is promised about the objects of the mounted stores (the    *)
(* commands of MTP_Teensy.cpp that reach class MTPStorage): a handle       *)
(* denotes one directory or file, no other handle of the session denotes   *)
(* it, and it goes on denoting it, whatever is created, renamed, moved or  *)
(* deleted around it.  How handles are resolved is ObjectIndex's business. *)
(*                                                                         *)
(* A place is the sequence of a store and the names that lead from its     *)
(* root; disk gives a file its size and a directory the value Dir.         *)
(***************************************************************************)
EXTENDS Integers, Sequences, Functions

CONSTANTS
  Place,      \* the places objects can be at
  Content,    \* the contents of files, told apart by their sizes
  Handle,     \* the object handles
  Dir         \* what the disk has at the place of a directory

VARIABLES
  disk,       \* what is at each place of the stores
  objs,       \* the place of the object each handle denotes
  top,        \* handles below it have been issued in this session
  announced,  \* the file whose contents the host may send, or 0
  answer      \* the last GetObject: the handle and the contents sent

vars == <<disk, objs, top, announced, answer>>

Under(p, q) == Len(p) <= Len(q) /\ SubSeq(q, 1, Len(p)) = p
Within(d, p) == {q \in DOMAIN d : Under(p, q)}
Parent(p) == SubSeq(p, 1, Len(p) - 1)

(* The place q, or where it is once p has become to. *)
Renamed(q, p, to) == IF Under(p, q) THEN to \o SubSeq(q, Len(p) + 1, Len(q)) ELSE q

Without(d, p) == Restrict(d, DOMAIN d \ Within(d, p))
Relocated(d, p, to) ==
  [q \in {Renamed(x, p, to) : x \in DOMAIN d} |-> d[CHOOSE x \in DOMAIN d : Renamed(x, p, to) = q]]
Duplicated(d, p, to) ==
  [q \in DOMAIN d \cup {Renamed(x, p, to) : x \in Within(d, p)} |->
     IF q \in DOMAIN d THEN d[q]
     ELSE d[CHOOSE x \in Within(d, p) : Renamed(x, p, to) = q]]
Filled(d, p, c) == [q \in DOMAIN d \cup {p} |-> IF q = p THEN c ELSE d[q]]

(* Everything but the roots is in a directory. *)
IsTree(d) ==
  \A p \in DOMAIN d :
    /\ d[p] \in Content \cup {Dir}
    /\ Len(p) > 1 => Parent(p) \in DOMAIN d /\ d[Parent(p)] = Dir

Init ==
  /\ IsTree(disk)
  /\ objs = [h \in {} |-> <<>>]
  /\ top = 0
  /\ announced = 0
  /\ answer = [h |-> 0, c |-> Dir]

(* The handles of o keep their objects, and some of the other objects on   *)
(* the disk get a handle of their own that was never issued before.        *)
Extend(o) ==
  \E new \in {objs'} :
    /\ \A h \in DOMAIN o : h \in DOMAIN new /\ new[h] = o[h]
    /\ top' >= top
    /\ \A h \in DOMAIN new \ DOMAIN o : h >= top /\ h < top'
    /\ Range(new) \subseteq DOMAIN disk'
    /\ IsInjective(new)

(* A directory was looked into, perhaps to find that it has a file by the  *)
(* name of the one the host wants to send.                                 *)
Look ==
  /\ disk' = disk
  /\ Extend(objs)
  /\ announced' # 0 => announced' \in DOMAIN objs' /\ disk[objs'[announced']] # Dir
  /\ UNCHANGED answer

(* SendObjectInfo of a new object; only a file's contents are sent later. *)
Add(p, c) ==
  /\ disk' = Filled(disk, p, c)
  /\ Extend(objs)
  /\ \E h \in DOMAIN objs' : objs'[h] = p /\ announced' = IF c = Dir THEN 0 ELSE h
  /\ UNCHANGED answer

(* The device makes a file or a directory, and may tell the host.          *)
Appear(p, c) ==
  /\ disk' = Filled(disk, p, c)
  /\ Extend(objs)
  /\ UNCHANGED <<announced, answer>>

(* SendObject fills the file that was announced, and no other. *)
Store(c) ==
  /\ announced # 0
  /\ disk' \in {disk, Filled(disk, objs[announced], c)}
  /\ announced' = 0
  /\ UNCHANGED <<objs, top, answer>>

(* GetObject *)
Fetch(h) ==
  /\ answer' = [h |-> h, c |-> disk[objs[h]]]
  /\ announced' = 0
  /\ UNCHANGED <<disk, objs, top>>

(* DeleteObject: the object, all that is in it, and their handles. *)
Delete(h) ==
  LET p == objs[h]
  IN /\ disk' = Without(disk, p)
     /\ objs' = Restrict(objs, {g \in DOMAIN objs : ~Under(p, objs[g])})
     /\ announced' = 0
     /\ UNCHANGED <<top, answer>>

(* SetObjectPropValue and MoveObject: the object and all that is in it are *)
(* somewhere else, under the same handles.                                 *)
Relocate(h, to) ==
  LET p == objs[h]
  IN /\ disk' = Relocated(disk, p, to)
     /\ Extend([g \in DOMAIN objs |-> Renamed(objs[g], p, to)])
     /\ announced' = 0
     /\ UNCHANGED answer

(* CopyObject: the object and all that is in it are in two places. *)
Copy(h, to) ==
  /\ disk' = Duplicated(disk, objs[h], to)
  /\ Extend(objs)
  /\ to \in Range(objs')
  /\ announced' = 0
  /\ UNCHANGED answer

(* OpenSession: every handle is forgotten. *)
Forget ==
  /\ objs' = [h \in {} |-> <<>>]
  /\ top' = 0
  /\ announced' = 0
  /\ UNCHANGED <<disk, answer>>

(* Where an object can be put. *)
FreePlaces ==
  {p \in Place : p \notin DOMAIN disk /\ Parent(p) \in DOMAIN disk /\ disk[Parent(p)] = Dir}

Next ==
  \/ Look
  \/ Forget
  \/ \E c \in Content : Store(c)
  \/ \E h \in DOMAIN objs : Fetch(h) \/ Delete(h)
  \/ \E p \in FreePlaces, c \in Content \cup {Dir} : Add(p, c) \/ Appear(p, c)
  \/ \E h \in DOMAIN objs, p \in FreePlaces : Relocate(h, p) \/ Copy(h, p)

Spec == Init /\ [][Next]_vars
============================================================================
