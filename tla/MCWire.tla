-------------------------------- MODULE MCWire --------------------------------
(***************************************************************************)
(* Messages for the run of Wire: each simple packet, and datagrams of up   *)
(* to two packets of every reliability, with indices around 24 bits and    *)
(* parts of split packets.                                                 *)
(***************************************************************************)
EXTENDS Wire

A == <<1, 2, 3, 4, 5, 6, 7, 8>>
B == <<0, 0, 255, 0, 0, 0, 1, 0>>

Home == [version |-> 4, addr |-> <<127, 0, 0, 1>>, port |-> 19132]
Foreign == [version |-> 6, addr |-> <<127, 0, 0, 1>>, port |-> 19132]
Broadcast == [version |-> 4, addr |-> <<255, 255, 255, 255>>, port |-> 19132]

Simple(name, values) == [name |-> name, values |-> values]

SimplePackets ==
  {Simple("UnconnectedPing", [pingTime |-> A, userGUID |-> B]),
   Simple("UnconnectedPong", [pingTime |-> A, serverGUID |-> B, serverID |-> <<77, 67, 59>>]),
   Simple("OpenConnectionReply1", [serverGUID |-> A, security |-> FALSE, MTU |-> 1492]),
   Simple("OpenConnectionRequest2",
     [serverAddr |-> Home, MTU |-> 1492, userGUID |-> A]),
   Simple("OpenConnectionRequest2",
     [serverAddr |-> Foreign, MTU |-> 1492, userGUID |-> A]),
   Simple("OpenConnectionReply2",
     [serverGUID |-> A, clientAddr |-> Home, MTU |-> 65535, encryption |-> TRUE]),
   Simple("IncompatibleProtocol", [protocolVersion |-> 9, serverGUID |-> B]),
   Simple("ConnectionRequest", [GUID |-> A, time |-> B]),
   Simple("ConnectionRequestAccepted",
     [clientAddress |-> Home, systemIndex |-> 0, internalID |-> Broadcast,
      requestTime |-> A, time |-> B]),
   Simple("ConnectedPing", [pingTime |-> B]),
   Simple("ConnectedPong", [pingTime |-> A, pongTime |-> B])}

\* A first request with three bytes of padding.
Padded ==
  [name |-> "OpenConnectionRequest1", values |-> [protocolVersion |-> 9],
   padding |-> <<0, 0, 0>>]

P(kind, m, payload) ==
  [reliability |-> kind, length |-> Len(payload), messageIndex |-> m,
   sequencedIndex |-> 65536 + m, orderedIndex |-> 258, orderChannel |-> 3,
   hasSplit |-> FALSE, payload |-> payload]

\* A part, such as a client sends of a packet too long for a datagram.
PartOf(p) ==
  [p EXCEPT !.hasSplit = TRUE] @@
    [splitInfo |-> [compoundSize |-> 2, compoundID |-> 0, compoundIndex |-> 1]]

\* 16777217 has 25 bits, and 40 bytes a length that shifted takes two bytes.
Packets ==
  {P(r, 16777217, <<0>>) : r \in Reliability}
    \cup {P("RELIABLE", NoIndex, [k \in 1 .. 40 |-> k]), P("UNRELIABLE", NoIndex, <<>>),
          PartOf(P("RELIABLE_ORDERED", 1, <<9, 8>>))}

Datagram(packets) ==
  [name |-> "Datagram", sequenceNumber |-> 66051, packets |-> packets]

Messages ==
  SimplePackets \cup {Padded}
    \cup {Datagram(<<p>>) : p \in Packets}
    \cup {Datagram(<<p, q>>) : p \in Packets,
            q \in {P("RELIABLE_SEQUENCED", 513, <<1, 2>>), P("UNRELIABLE", NoIndex, <<>>)}}

Orders == {<<1, 2, 3, 4>>, <<4, 3, 2, 1>>}
=============================================================================
