----------------------------- MODULE GatedBits ------------------------------
(***************************************************************************)
(* A stream_gate before a tagged_bits_to_bytes block: bursts are gated, and *)
(* what passes is packed.  The two blocks run in threads of their own, the  *)
(* buffer between them is mid with midTags.                                 *)
(***************************************************************************)
EXTENDS StreamGate, TaggedBits

vars == <<gateVars, bitsVars>>

Init == GateInit /\ BitsInit

Next == \/ GateNext /\ UNCHANGED bitsVars
        \/ BitsNext /\ UNCHANGED gateVars

\* The scheduler calls a block that has input and room.
Fairness == WF_vars(Gate /\ UNCHANGED bitsVars) /\ WF_vars(general_work /\ UNCHANGED gateVars)

Spec == Init /\ [][Next]_vars /\ Fairness

(***************************************************************************)
(* Properties.                                                              *)
(***************************************************************************)
Tag == UNION TagSets

TypeOK ==
  /\ tags \in TagSets /\ flow \in BOOLEAN /\ consume \in BOOLEAN
  /\ nread \in 0 .. StreamLen /\ dropped \in 0 .. nread
  /\ mid \in Seq(0 .. StreamLen - 1) /\ midTags \subseteq [at : 0 .. nread, tag : Tag]
  /\ config \in Configs /\ bitsRead \in 0 .. Len(mid) /\ torn \subseteq ToSet(mid)
  /\ \A i \in 1 .. Len(items) : Len(items[i]) = itemsize
  /\ \A o \in outTags : o.at \in 0 .. Len(items)

\* The places of the items, and what is at those that hold a bit.
Places == (1 .. Len(items)) \X (1 .. itemsize)
Holds(p) == items[p[1]][p[2]] # PAD
BitAt(p) == items[p[1]][p[2]]
Before(p, q) == p[1] < q[1] \/ (p[1] = q[1] /\ p[2] < q[2])
Packed == {BitAt(p) : p \in {q \in Places : Holds(q)}}

\* Two burst tags on one bit.
Doubled == \E m1, m2 \in midTags : m1 # m2 /\ m1.at = m2.at /\ m1.tag.key = "BURST" /\ m2.tag.key = "BURST"

\* What comes out are bits that were read, in order and once, whatever the windows;
\* padded items lose none, and what is dropped is less than a vector in front of a
\* burst tag.  A change of the order within a byte does harm to the bits of that byte,
\* and to no others.
BitsPacked ==
  LET came == SubSeq(mid, 1, bitsRead)
      stub(i) == \E m \in midTags : /\ m.tag.key = "BURST"
                                    /\ m.at >= i /\ m.at - i < itemsize
  IN  /\ Packed \subseteq ToSet(came)
      /\ \A p, q \in Places : Holds(p) /\ Holds(q) /\ Before(p, q) =>
           BitAt(p) < BitAt(q) \/ {BitAt(p), BitAt(q)} \subseteq torn
      /\ \A i \in 1 .. bitsRead : came[i] \in Packed \union torn \/ (config.stub = "DROP" /\ stub(i))

\* A packed bit with a burst tag is the first data bit of its item, unless the order
\* changed within its byte, the tag is on that item, and every other tag is on the item
\* that holds its bit.
TagsOnTheirItems ==
  \A p \in Places : \A m \in midTags :
    Holds(p) /\ mid[m.at + 1] = BitAt(p) =>
      /\ \E o \in outTags : o.at = p[1] - 1 /\ o.key = m.tag.key /\ o.bit = m.at
      /\ m.tag.key = "BURST" /\ BitAt(p) \notin torn =>
           \A q \in Places : q[1] = p[1] /\ q[2] < p[2] => ~Holds(q)

\* The bits that carry a time tag; the gate dropped nothing since the first of them.
Timed == {m.at : m \in {x \in midTags : x.tag.key = "rx_time"}}
Gapless ==
  /\ Timed # {}
  /\ mid[Len(mid)] - mid[Min(Timed) + 1] = Len(mid) - 1 - Min(Timed)

\* The burst time of a burst tag that follows a time tag is the time its bit left the
\* source, if the gate dropped nothing in between.
BurstTimeTrue ==
  Gapless => \A o \in outTags :
    o.key = "burst_time" /\ o.bit >= Min(Timed) => o.time = Epoch + mid[o.bit + 1]

\* "rx_time tags will be time-shifted to the beginning of the byte"
\* (tagged_bits_to_bytes_impl.cc:297).
\* It does not hold (README, 5.2).
RxTimeShifted ==
  \A o \in outTags : o.key = "rx_time" /\ o.at < Len(items) /\ mid[o.bit + 1] \in ToSet(items[o.at + 1]) =>
    \E k \in 1 .. itemsize : items[o.at + 1][k] = mid[o.bit + 1]
                             /\ o.time = Epoch + mid[o.bit + 1] - (k - 1)

\* While the gate is open all input is packed but for less than a vector, unless a bit
\* carries two burst tags, the first of which then keeps the block at its place.
AllPacked ==
  <>[]flow => <>(nread = StreamLen /\ (Len(mid) - bitsRead < itemsize \/ Doubled))

\* What leaves the packer, together: every bit once, under its own tags, at its time, with
\* the bits of a byte within which set_little_endian_flag() fell excepted.
PackerInv == TypeOK /\ BitsPacked /\ TagsOnTheirItems /\ BurstTimeTrue
=============================================================================
