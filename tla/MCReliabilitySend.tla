-------------------------- MODULE MCReliabilitySend --------------------------
(***************************************************************************)
(* Calls for the runs of ReliabilitySend.  With an MTU of 64 a packet of   *)
(* more than 4 bytes is split, and a datagram holds up to 23 bytes of      *)
(* packets with their headers: three short ones, or one long one.          *)
(***************************************************************************)
EXTENDS ReliabilitySend

C(length, kind, c, priority) ==
  [length |-> length, reliability |-> kind, orderChannel |-> c,
   priority |-> priority]

\* Packets that wait, of several lengths, and one on a bad channel.
QueueCalls ==
  {C(1, "RELIABLE_ORDERED", 0, "FULLQ"),
   C(2, "UNRELIABLE", 0, "FULLQ"),
   C(4, "RELIABLE_SEQUENCED", 1, "FULLQ"),
   C(2, "RELIABLE_ORDERED", 0, "UPDATE"),
   C(4, "RELIABLE", 0, "UPDATE"),
   C(1, "UNRELIABLE", 7, "UPDATE")}

\* Packets that are sent at once, whole or in parts; 8 bytes are two full parts,
\* 6 and 5 bytes end in a short one.
SplitCalls ==
  {C(1, "UNRELIABLE", 0, "IMMEDIATE"),
   C(5, "RELIABLE", 0, "IMMEDIATE"),
   C(6, "UNRELIABLE", 0, "UPDATE"),
   C(8, "RELIABLE", 0, "FULLQ"),
   C(8, "UNRELIABLE_SEQUENCED", 1, "UPDATE"),
   C(5, "RELIABLE_ORDERED", 0, "UPDATE")}

\* Both together.
PacketCalls == QueueCalls \cup SplitCalls

\* A short packet that is sent at once, one that waits, and one with two parts.
RecoveryCalls ==
  {C(1, "UNRELIABLE", 0, "IMMEDIATE"),
   C(2, "RELIABLE", 0, "UPDATE"),
   C(8, "RELIABLE", 0, "IMMEDIATE"),
   C(5, "RELIABLE_ORDERED", 0, "IMMEDIATE")}

\* The longest header a part can have.
LongHeader == {C(8, "RELIABLE_ORDERED", 0, "IMMEDIATE")}

Garbage == 0 .. 1
=============================================================================
