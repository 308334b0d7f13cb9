------------------------------- MODULE VitaRx -------------------------------
(***************************************************************************)
(* The VITA 49 receiver (lib/vita/vitarx.cpp, the packet parser             *)
(* VRTPacket.cpp) under the block that owns it                              *)
(* (lib/vita49_tcp_msg_source_impl.cc): a thread accepts one client at a    *)
(* time, puts the bytes it reads together to words and the words to         *)
(* packets, and hands them to the block, which publishes some.  The         *)
(* scheduler's thread starts and stops the block.                           *)
(*                                                                         *)
(* A packet is its shape: which fields it has.  Of a word the model keeps   *)
(* whose it is, and of the bytes whether they are those of one word; a word *)
(* that is taken for a header and is none may pass for any header, or none. *)
(***************************************************************************)
EXTENDS Integers, Sequences, FiniteSets, SequencesExt

CONSTANTS Streams,     \* sequences of words a client may send
          Shapes,      \* headers that other words may be taken for
          MaxClients,  \* clients that connect
          MaxStarts,   \* calls of start()
          MaxRead,     \* size of readBuf: 128 in the code
          WordBytes    \* bytes of a word: 4 in the code

Type == {"SIGNAL_DATA", "SIGNAL_DATA_ID", "EXT_DATA", "CONTEXT", "OTHER"}
Shape == [type : Type, c : BOOLEAN, tsi : BOOLEAN, tsf : BOOLEAN, trailer : BOOLEAN,
          payload : Nat]

Clients == 1 .. MaxClients

VARIABLES
  streams,      \* what the clients send
  pending,      \* the client that waits to be accepted, or 0
  client,       \* the connected client, or 0
  connected,    \* clients that have connected so far
  taken,        \* whole words read from each client, and bytes of the next
  left,         \* bytes of readBuf still to be processed
  pack,         \* packBufState and whether packBuf has the bytes of one word
  packet,       \* rxPacket
  thread,       \* where rx_task() is
  listening, running,     \* sockFd is open; running
  owner, d_running, always_on, starts,   \* the block and its calls
  delivered,    \* the packets handed to the listener, in order          (history)
  out,          \* the packets published                                 (history)
  spoiled       \* a connection ended inside a packet, or a client sent one
                \* that cannot be told from the next                     (history)
netVars   == <<streams, pending, connected>>
rxVars    == <<client, taken, left, pack, packet>>
ownerVars == <<listening, running, owner, d_running, always_on, starts>>
histVars  == <<delivered, out, spoiled>>
receiverVars == <<netVars, rxVars, thread, ownerVars, histVars>>

MIXED == <<0, 0>>     \* a packet put together from words of several

(***************************************************************************)
(* Packets.                                                                 *)
(***************************************************************************)
HasStreamId(h) == h.type \notin {"SIGNAL_DATA", "EXT_DATA"}
One(b) == IF b THEN 1 ELSE 0
TrailerSize(h) == One(h.type \in {"SIGNAL_DATA", "SIGNAL_DATA_ID"} /\ h.trailer)
PacketSize(h) ==
  1 + One(HasStreamId(h)) + 2 * One(h.c) + One(h.tsi) + 2 * One(h.tsf)
    + h.payload + TrailerSize(h)

\* A word: its place in its packet, the header and the number of that.
Word == [i : Nat, h : Shape, n : Nat \ {0}]
LastWord(w) == w.i = PacketSize(w.h) - 1

\* What a client sends are the words of packets, one packet after the other.
Sent(s) ==
  /\ s \in Seq(Word) /\ (s # <<>> => s[1].i = 0)
  /\ \A j \in 1 .. Len(s) :
       IF LastWord(s[j])
       THEN j < Len(s) => s[j + 1].i = 0 /\ s[j + 1].n = s[j].n + 1
       ELSE j < Len(s) /\ s[j + 1] = [s[j] EXCEPT !.i = @ + 1]

ASSUME VitaAssumption ==
  /\ \A s \in Streams : Sent(s)
  /\ Shapes \subseteq Shape
  /\ MaxClients \in Nat /\ MaxStarts \in Nat
  /\ MaxRead \in Nat \ {0} /\ WordBytes \in Nat \ {0}

\* Bytes a client may still send.
Unread(k) == WordBytes * (Len(streams[k]) - taken[k].words) - taken[k].bytes

NoHeader == [type |-> "UNKNOWN", c |-> FALSE, tsi |-> FALSE, tsf |-> FALSE,
             trailer |-> FALSE, payload |-> 0]
BLANK == [state |-> "BLANK", h |-> NoHeader, cnt |-> 0, from |-> MIXED]

\* The fields the header says are absent are passed over.
Pass(state, h) ==
  LET s1 == IF state = "GOT_HEADER" /\ ~HasStreamId(h) THEN "GOT_STREAM_ID" ELSE state
      s2 == IF s1 = "GOT_STREAM_ID" /\ ~h.c THEN "GOT_C2" ELSE s1
      s3 == IF s2 = "GOT_C2" /\ ~h.tsi THEN "GOT_EPOCH" ELSE s2
  IN  IF s3 = "GOT_EPOCH" /\ ~h.tsf THEN "EATTING" ELSE s3

\* What the next word leads to, once it is counted.
AfterField == [GOT_HEADER |-> "GOT_STREAM_ID", GOT_STREAM_ID |-> "GOT_C1",
               GOT_C1 |-> "GOT_C2", GOT_C2 |-> "GOT_EPOCH", GOT_EPOCH |-> "GOT_F1"]

\* Words of payload still to come; mutant: the trailer is one of them.
WithTrailer(h, cnt) == PacketSize(h) - cnt
PayloadLeft(h, cnt) == PacketSize(h) - TrailerSize(h) - cnt

\* unpack() of a word that is no header: the new state of rxPacket.
Unpacked(p, from) ==
  LET s   == Pass(p.state, p.h)
      cnt == p.cnt + 1
      to(state) == [state |-> state, h |-> p.h, cnt |-> cnt, from |-> from]
  IN  CASE s \in DOMAIN AfterField -> to(AfterField[s])
        [] s = "GOT_F1" -> to(IF cnt = PacketSize(p.h) THEN "DONE" ELSE "EATTING")
        [] s = "EATTING" /\ PayloadLeft(p.h, p.cnt) <= 0 -> BLANK
        [] s = "EATTING" /\ PayloadLeft(p.h, p.cnt) > 0 ->
             to(IF PayloadLeft(p.h, cnt) > 0 THEN "EATTING"
                ELSE IF TrailerSize(p.h) > 0 THEN "GOT_PAYLOAD" ELSE "DONE")
        [] s = "GOT_PAYLOAD" -> to("DONE")

(***************************************************************************)
(* Clients and the network.                                                 *)
(***************************************************************************)
NoBytes == [n |-> 0, ok |-> FALSE]
Nothing == [words |-> 0, bytes |-> 0]

RxInit ==
  /\ streams \in [Clients -> Streams]
  /\ pending = 0 /\ client = 0 /\ connected = 0
  /\ taken = [k \in Clients |-> Nothing] /\ left = 0 /\ pack = NoBytes /\ packet = BLANK
  /\ thread = "none" /\ listening = FALSE /\ running = FALSE
  /\ always_on \in BOOLEAN /\ owner = (IF always_on THEN "open" ELSE "idle")
  /\ d_running = FALSE /\ starts = 0
  /\ delivered = <<>> /\ out = <<>> /\ spoiled = FALSE

\* A packet without payload and fractional time stamp ends in the parser with the
\* word after it; one without payload but with a trailer is passed over.
Framed(p) == p.payload > 0 \/ p.tsf
Lossless(p) == p.payload > 0 \/ (p.tsf /\ TrailerSize(p) = 0)

Connect ==
  /\ listening /\ pending = 0 /\ connected < MaxClients
  /\ pending' = connected + 1 /\ connected' = connected + 1
  /\ spoiled' = (spoiled \/ \E j \in DOMAIN streams[pending'] : ~Framed(streams[pending'][j].h))
  /\ UNCHANGED <<streams, rxVars, thread, ownerVars, delivered, out>>

\* The connection is left inside a packet.
AtPacket(k) ==
  /\ taken[k].bytes = 0
  /\ taken[k].words < Len(streams[k]) => streams[k][taken[k].words + 1].i = 0
Leave == client' = 0 /\ spoiled' = (spoiled \/ (client # 0 /\ ~AtPacket(client)))

(***************************************************************************)
(* rx_task().                                                               *)
(***************************************************************************)
Loop ==
  /\ thread = "loop"
  /\ thread' = IF running THEN "io" ELSE "ended"
  /\ UNCHANGED <<netVars, rxVars, ownerVars, histVars>>

\* connected and clientFd; mutant: connected is not set.
NotConnected == 0
Accepted == pending
Accept ==
  /\ thread = "io" /\ client = 0 /\ pending # 0
  /\ client' = Accepted /\ pending' = 0 /\ thread' = "loop"
  /\ UNCHANGED <<streams, connected, taken, left, pack, packet, ownerVars, histVars>>

\* What read() finds; mutant: it is asked for whole words only.
WholeWords == (Unread(client) \div WordBytes) * WordBytes
Available == Unread(client)

Read ==
  /\ thread = "io" /\ client # 0
  /\ \E n \in 1 .. MaxRead : n <= Available /\ left' = n
  /\ thread' = "data"
  /\ UNCHANGED <<netVars, client, taken, pack, packet, ownerVars, histVars>>

\* The client sends no more, or an error loses what was not read.
Disconnect ==
  /\ thread = "io" /\ client # 0
  /\ Leave /\ thread' = "loop"
  /\ UNCHANGED <<netVars, taken, left, pack, packet, ownerVars, delivered, out>>

\* SO_RCVTIMEO ends read() and accept(); mutant: it is not set on the client.
AcceptWaits == client = 0 /\ pending = 0
Waits == IF client = 0 THEN pending = 0 ELSE Available = 0
RxTimeOut ==
  /\ thread = "io" /\ Waits /\ thread' = "loop"
  /\ UNCHANGED <<netVars, rxVars, ownerVars, histVars>>

\* processData(): the bytes of readBuf up to the end of a word.
MoreBytes == IF left < WordBytes - pack.n THEN left ELSE WordBytes - pack.n
AddBytes  == [n  |-> pack.n + MoreBytes,
              ok |-> (pack.n = 0 \/ pack.ok) /\ taken[client].bytes = pack.n]

\* The packet and place of the word that is complete.
ThisWord == streams[client][taken[client].words + 1]

\* A packet goes on as it began if its words come from one packet and in order.
From(word) ==
  IF word.i = packet.cnt /\ packet.from = <<client, word.n>> THEN packet.from ELSE MIXED

Header(h, from) == [state |-> "GOT_HEADER", h |-> h, cnt |-> 1, from |-> from]

\* unpack() of the word that is complete.
Unpack(ok) ==
  IF packet.state = "BLANK"
  THEN IF ok /\ ThisWord.i = 0
       THEN packet' = Header(ThisWord.h, <<client, ThisWord.n>>)
       ELSE \/ packet' = BLANK
            \/ \E h \in Shapes : packet' = Header(h, MIXED)
  ELSE packet' = Unpacked(packet, IF ok THEN From(ThisWord) ELSE MIXED)

Further(at, n) ==
  IF at.bytes + n < WordBytes THEN [at EXCEPT !.bytes = @ + n]
  ELSE [words |-> at.words + 1, bytes |-> at.bytes + n - WordBytes]

ProcessBytes ==
  /\ thread = "data" /\ left > 0
  /\ taken' = [taken EXCEPT ![client] = Further(@, MoreBytes)] /\ left' = left - MoreBytes
  /\ IF AddBytes.n < WordBytes
     THEN pack' = AddBytes /\ UNCHANGED <<packet, thread>>
     ELSE /\ pack' = NoBytes /\ Unpack(AddBytes.ok)
          /\ thread' = IF packet'.state = "DONE" THEN "fire" ELSE "data"
  /\ UNCHANGED <<netVars, client, ownerVars, histVars>>

EndOfData ==
  /\ thread = "data" /\ left = 0 /\ thread' = "loop"
  /\ UNCHANGED <<netVars, rxVars, ownerVars, histVars>>

\* reset(); mutant: the packet stays done.
Kept  == packet
Reset == BLANK

\* The packets the block publishes while it runs.
Published(h) == \/ h.type \in {"SIGNAL_DATA", "SIGNAL_DATA_ID"} /\ h.payload > 0
                \/ h.type = "CONTEXT"

\* processPacket() up to received_packet()'s test.  The fields of a context packet
\* that is mixed may be more than its payload: at() throws in the thread, and the
\* program ends.
Fire ==
  /\ thread = "fire"
  /\ \/ /\ packet.h.type = "CONTEXT" /\ packet.from = MIXED /\ packet.h.payload > 1
        /\ thread' = "aborted" /\ UNCHANGED <<packet, delivered>>
     \/ /\ delivered' = Append(delivered, packet.from)
        /\ IF d_running /\ Published(packet.h)
           THEN thread' = "publish" /\ UNCHANGED packet
           ELSE thread' = "data" /\ packet' = Reset
  /\ UNCHANGED <<netVars, client, taken, left, pack, ownerVars, out, spoiled>>

\* The rest of received_packet().
Publish ==
  /\ thread = "publish"
  /\ out' = Append(out, packet.from) /\ packet' = Reset /\ thread' = "data"
  /\ UNCHANGED <<netVars, client, taken, left, pack, ownerVars, delivered, spoiled>>

RxTask == Loop \/ Accept \/ Read \/ RxTimeOut \/ ProcessBytes \/ EndOfData \/ Fire \/ Publish

(***************************************************************************)
(* The block and the owner's side of vita_rx.                               *)
(***************************************************************************)
start ==
  /\ owner = "idle" /\ ~d_running /\ starts < MaxStarts
  /\ d_running' = TRUE /\ starts' = starts + 1
  /\ owner' = IF always_on THEN "idle" ELSE "open"
  /\ UNCHANGED <<netVars, rxVars, thread, listening, running, always_on, histVars>>

\* Does stop() close the socket?  Mutant: if it is to stay on.
ClosesAlways == always_on
Closes == ~always_on

stop ==
  /\ owner = "idle" /\ d_running
  /\ d_running' = FALSE
  /\ owner' = IF Closes THEN "close" ELSE "idle"
  /\ UNCHANGED <<netVars, rxVars, thread, listening, running, always_on, starts, histVars>>

\* vita_rx::start(): setup_socket() may fail; running is set once the thread exists.
OpenBackend ==
  /\ owner = "open" /\ ~running
  /\ \/ listening' = TRUE /\ thread' = "loop" /\ owner' = "opened"
     \/ owner' = "idle" /\ UNCHANGED <<listening, thread>>
  /\ UNCHANGED <<netVars, rxVars, running, d_running, always_on, starts, histVars>>

SetRunning ==
  /\ owner = "opened" /\ running' = TRUE /\ owner' = "idle"
  /\ UNCHANGED <<netVars, rxVars, thread, listening, d_running, always_on, starts, histVars>>

\* vita_rx::stop(); nothing is done for a receiver that did not start.
CloseBackend ==
  /\ owner = "close"
  /\ running' = FALSE /\ owner' = IF running THEN "join" ELSE "idle"
  /\ UNCHANGED <<netVars, rxVars, thread, listening, d_running, always_on, starts, histVars>>

\* pthread_join() and close_socket()
CloseSocket ==
  /\ owner = "join" /\ thread = "ended"
  /\ Leave /\ listening' = FALSE /\ pending' = 0 /\ packet' = BLANK
  /\ owner' = "idle"
  /\ UNCHANGED <<streams, connected, taken, left, pack, thread, running, d_running,
                 always_on, starts, delivered, out>>

\* The destructor of a block that is stopped.
Destroy ==
  /\ owner = "idle" /\ ~d_running /\ starts <= MaxStarts
  /\ starts' = MaxStarts + 1 /\ owner' = "close"
  /\ UNCHANGED <<netVars, rxVars, thread, listening, running, d_running, always_on, histVars>>

OwnerStep == OpenBackend \/ SetRunning \/ CloseBackend \/ CloseSocket

Alive == thread # "aborted"
RxNext == Alive /\ (Connect \/ RxTask \/ Disconnect \/ start \/ stop \/ OwnerStep \/ Destroy)

\* The operating system runs both threads; a client need not leave.
RxFairness ==
  WF_receiverVars(Alive /\ RxTask) /\ WF_receiverVars(Alive /\ OwnerStep)

RxSpec == RxInit /\ [][RxNext]_receiverVars /\ RxFairness

(***************************************************************************)
(* Properties.                                                              *)
(***************************************************************************)
RxTypeOK ==
  /\ pending \in Clients \union {0} /\ client \in Clients \union {0}
  /\ (pending # 0 \/ client # 0) => listening
  /\ \A k \in Clients : /\ taken[k].bytes \in 0 .. WordBytes - 1 /\ Unread(k) >= 0
                         /\ k > connected => taken[k] = Nothing
  /\ left \in 0 .. MaxRead /\ pack.n \in 0 .. WordBytes - 1
  /\ packet.state # "DONE" <=> thread \notin {"fire", "publish", "aborted"}
  /\ thread \in {"none", "loop", "io", "data", "fire", "publish", "ended", "aborted"}
  /\ running => thread # "none" /\ listening
  /\ owner \in {"idle", "open", "opened", "close", "join"}

\* The packets whose last word was read, but those that are passed over.
Ends(k) == {j \in 1 .. taken[k].words : LastWord(streams[k][j]) /\ Lossless(streams[k][j].h)}
Received == UNION {{<<k, streams[k][j].n>> : j \in Ends(k)} : k \in Clients}
Earlier(p, q) == p[1] < q[1] \/ (p[1] = q[1] /\ p[2] < q[2])

\* However the bytes are cut into reads, the listener gets each packet once, whole and
\* in order, as long as connections end between packets.
PacketsIntact ==
  ~spoiled /\ thread \notin {"fire", "publish"} =>
    /\ ToSet(delivered) = Received
    /\ \A i, j \in DOMAIN delivered : i < j => Earlier(delivered[i], delivered[j])

\* Once stop() has returned nothing is published, unless the socket is always on
\* and the thread had seen the block running.
QuietAfterStop ==
  [][out' # out => d_running \/ owner # "idle" \/ always_on]_receiverVars

\* What a client sent is read, unless the receiver is stopped or the client leaves.
DataRead ==
  (client # 0 /\ running /\ Unread(client) > 0)
     ~> (client = 0 \/ ~running \/ Unread(client) = 0 \/ ~Alive)

\* A waiting client is let in, unless the receiver is stopped or its thread never saw
\* that it was started.
ClientServed ==
  (pending # 0 /\ client = 0 /\ running)
     ~> (client # 0 \/ ~running \/ thread = "ended" \/ ~Alive)

\* start() and stop() return: the thread notices that it is to end.
CallsReturn == owner # "idle" ~> (owner = "idle" \/ ~Alive)

\* A receiver that was started and not stopped has its thread ("0 on error, 1 on
\* success", vitarx.cpp:50).
\* It does not hold (README, 5.2).
StartedReceives == running => thread # "ended"

\* Whoever waits for the receiver's thread is served: a client that sends, a client that
\* connects, and a caller of start() or stop().
Served == DataRead /\ ClientServed /\ CallsReturn

\* Packets are delivered whole and in order, with the types kept.
ReceiverInv == RxTypeOK /\ PacketsIntact
=============================================================================
