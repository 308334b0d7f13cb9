------------------------------ MODULE MCVitaRx ------------------------------
(***************************************************************************)
(* Packets and streams for the run of VitaRx.                               *)
(***************************************************************************)
EXTENDS VitaRx

Packet(type, c, tsi, tsf, trailer, payload) ==
  [type |-> type, c |-> c, tsi |-> tsi, tsf |-> tsf, trailer |-> trailer, payload |-> payload]

\* With payload and trailer, with a trailer alone, with neither, and a context packet
\* with class identifier.
Burst  == Packet("SIGNAL_DATA", FALSE, FALSE, FALSE, TRUE, 1)
NoData == Packet("SIGNAL_DATA", FALSE, FALSE, TRUE, TRUE, 0)
Marker == Packet("SIGNAL_DATA", FALSE, FALSE, TRUE, FALSE, 0)
Tune   == Packet("CONTEXT", TRUE, FALSE, FALSE, FALSE, 2)

WordsOf(s) ==
  FlattenSeq([n \in 1 .. Len(s) |->
                [i \in 1 .. PacketSize(s[n]) |-> [i |-> i - 1, h |-> s[n], n |-> n]]])
SomeStreams == {WordsOf(<<NoData>>), WordsOf(<<Burst>>), WordsOf(<<Marker, Tune>>)}
SomeShapes  == {Burst, Tune}
=============================================================================
