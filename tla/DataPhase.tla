----------------------------- MODULE DataPhase -----------------------------
(***************************************************************************)
(* What a device promises the host that asks it for a dataset: the bytes   *)
(* it announces in the header of the data phase, in packets that are full  *)
(* but the last one, which is short or empty, and then one response in a   *)
(* packet of its own.  A cancelled transaction ends without more packets.  *)
(***************************************************************************)
EXTENDS Integers

CONSTANTS
  Packet,      \* bytes in a bulk packet
  HeaderSize   \* bytes of a header without dataset

VARIABLES
  phase,       \* "idle", "asked", "data", "response", "answered" or "cancelled"
  left         \* bytes the host still waits for

vars == <<phase, left>>

TypeOK ==
  /\ phase \in {"idle", "asked", "data", "response", "answered", "cancelled"}
  /\ left \in Nat

Init == phase = "idle" /\ left = 0

Ask ==
  /\ phase = "idle"
  /\ phase' = "asked"
  /\ UNCHANGED left

\* The device takes the command, with or without a data phase.
Take ==
  /\ phase = "asked"
  /\ \/ phase' = "data" /\ left' \in Nat /\ left' >= HeaderSize
     \/ phase' = "response" /\ left' = 0

FullPacket ==
  /\ phase = "data" /\ left >= Packet
  /\ left' = left - Packet
  /\ UNCHANGED phase

LastPacket ==
  /\ phase = "data" /\ left < Packet
  /\ phase' = "response" /\ left' = 0

\* The header of an empty dataset may come with the response, or not at all.
JoinedAnswer ==
  /\ phase = "data" /\ left = HeaderSize
  /\ phase' = "answered" /\ left' = 0

Answer ==
  /\ phase = "response"
  /\ phase' = "answered"
  /\ UNCHANGED left

Cancel ==
  /\ phase \in {"asked", "data", "response", "answered"}
  /\ phase' = "cancelled" /\ left' = 0

Done ==
  /\ phase \in {"answered", "cancelled"}
  /\ phase' = "idle"
  /\ UNCHANGED left

Next == Ask \/ Take \/ FullPacket \/ LastPacket \/ JoinedAnswer \/ Answer \/ Cancel \/ Done

Spec == Init /\ [][Next]_vars
=============================================================================
