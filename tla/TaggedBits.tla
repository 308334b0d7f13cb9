----------------------------- MODULE TaggedBits -----------------------------
(***************************************************************************)
(* The tagged_bits_to_bytes block (lib/tagged_bits_to_bytes_impl.{h,cc}): a *)
(* stream of bits is packed into bytes, and vectors of bytes, that start    *)
(* over at each burst tag; the bits left over are dropped or padded.        *)
(*                                                                         *)
(* A bit is what its input calls it, or PAD.  An item is the sequence of    *)
(* the bits of its bytes, each from the end that is filled first when the   *)
(* byte is done.  The order is read anew for each bit and its setter takes  *)
(* no lock: a call of general_work() is one step in which the order may     *)
(* change once, after any number of bits.  (Bound: twice within the loop    *)
(* over the bits of one call is left out.)                                  *)
(*                                                                         *)
(* The scheduler offers all the input there is, which may be less than a    *)
(* vector: forecast() asks for the bits of a byte.  The calls are those     *)
(* whose items fit the room in the output.                                  *)
(***************************************************************************)
EXTENDS GatedStream, Integers, Sequences, FiniteSets, SequencesExt, FiniteSetsExt

CONSTANTS Byte,       \* bits of a byte: 8 in the code
          Configs,    \* the configurations: [stub, lsb_first, vlen] records
          Epoch,      \* the time of the first sample of the source
          PAD

ASSUME BitsAssumption ==
  /\ Byte \in Nat \ {0} /\ Epoch \in Nat
  /\ Configs \subseteq [stub : {"DROP", "RIGHT", "LEFT"}, lsb_first : BOOLEAN,
                        vlen : Nat \ {0}]
  /\ PAD \notin Nat

VARIABLES
  config,         \* d_stub_mode, d_lsb_first, d_vlen
  extra_bits,     \* d_extra_bits
  last_rx_time,   \* d_last_rx_time and d_last_rx_time_offset
  bitsRead,       \* nitems_read(0)
  items,          \* the items produced
  outTags,        \* the tags produced: the item they are on, their key, bit and time
  torn            \* the bits of bytes within which the order changed      (history)
bitsVars == <<config, extra_bits, last_rx_time, bitsRead, items, outTags, torn>>

BitsInit ==
  /\ config \in Configs
  /\ extra_bits = 0 /\ last_rx_time = [time |-> 0, at |-> 0]
  /\ bitsRead = 0 /\ items = <<>> /\ outTags = {} /\ torn = {}

itemsize == Byte * config.vlen
NInput == Len(mid) - bitsRead

Window(n) == {m \in midTags : m.at \in bitsRead .. bitsRead + n - 1}
Keyed(k, n) == {m \in Window(n) : m.tag.key = k}

WholeItems == NInput - (NInput % itemsize)

\* The offset of tags[0], if that is not the start of the window, or of tags[1];
\* mutant: of tags[0].
AnyBurst(ts) == {m.at : m \in ts}
NextBurst(ts) ==
  LET first == {m \in ts : m.at = bitsRead}
  IN  IF Cardinality(first) > 1 THEN {bitsRead} ELSE {m.at : m \in ts \ first}

\* rel_offset: up to the next burst tag, or all whole items; mutant: the latter always.
NoCut == WholeItems
RelOffset ==
  LET next == NextBurst(Keyed("BURST", WholeItems))
  IN  IF next = {} THEN WholeItems ELSE Min(next) - bitsRead

Pads(n) == [i \in 1 .. n |-> PAD]
\* Padded to whole vectors; mutant: to whole bytes.
PaddedByte(bits) == bits \o Pads((Byte - (Len(bits) % Byte)) % Byte)
Padded(bits) == bits \o Pads((itemsize - (Len(bits) % itemsize)) % itemsize)

\* The bits the loop goes over: those of a stub are dropped or padded.
Data(bits) ==
  IF config.stub = "DROP" THEN SubSeq(bits, 1, Len(bits) - (Len(bits) % itemsize))
  ELSE Padded(bits)

\* The order changes after f bits: those of them in a byte that is not done are shifted
\* back by each bit that follows, the last of them out of the byte.
Torn(bytes, f) ==
  LET first == f - (f % Byte)
      from(i) == (2 * f - Byte) + 1 - i
  IN  [i \in 1 .. Len(bytes) |->
         IF i <= first \/ i > f THEN bytes[i]
         ELSE IF from(i) > first THEN bytes[from(i)] ELSE PAD]

\* The bits of that byte.
TornBits(bits, f) ==
  {bits[i] : i \in {j \in 1 .. Len(bits) : /\ f % Byte # 0
                                           /\ j > f - (f % Byte) /\ j <= f - (f % Byte) + Byte}}

\* out[last_data_byte_idx] >>= 8 - length % 8, of n bits: away from the end that is filled
\* first when the most significant bit comes first, and towards it otherwise.
ShiftLast(bytes, n, f) ==
  LET r == n % Byte
      last == (n - r) + 1 .. (n - r) + Byte
      lsb == config.lsb_first # (f # 0 /\ f < (n - r) + Byte)
      from(i) == IF lsb THEN i + (Byte - r) ELSE i - (Byte - r)
  IN  [i \in 1 .. Len(bytes) |->
         IF r = 0 \/ i \notin last THEN bytes[i]
         ELSE IF from(i) \in last THEN bytes[from(i)] ELSE PAD]

\* The bits of the bytes that are made of some bits.
packbuffer(bits, f) ==
  IF config.stub = "LEFT" THEN ShiftLast(Torn(Data(bits), f), Len(bits), f)
  ELSE Torn(Data(bits), f)

Items(bytes) == [i \in 1 .. Len(bytes) \div itemsize |->
                   SubSeq(bytes, (i - 1) * itemsize + 1, i * itemsize)]

\* d_extra_bits after a call that consumes n bits; mutant: the stub is not counted.
SameExtra(n) == extra_bits
ExtraBits(n) ==
  LET r == n % itemsize
  IN  CASE r = 0 -> extra_bits
        [] r > 0 /\ config.stub = "DROP" -> extra_bits - r
        [] r > 0 /\ config.stub # "DROP" -> extra_bits + itemsize - r

\* The value of an rx_time tag, and the last one of the window.
RxTime(m) == Epoch + m.tag.of
LastRxTime ==
  LET rx == Keyed("rx_time", WholeItems)
      last == CHOOSE m \in rx : \A o \in rx : o.at <= m.at
  IN  IF rx = {} THEN last_rx_time ELSE [time |-> RxTime(last), at |-> last.at]

NoTime == -1
\* A tag moves to its item; the time of an rx_time tag is moved back by the rest of
\* that item's offset, not of the tag's own.
MovedTag(m) ==
  LET o == (m.at + extra_bits) \div itemsize
  IN  [at |-> o, key |-> m.tag.key, bit |-> m.at, copy |-> m.tag.copy,
       time |-> IF m.tag.key = "rx_time" THEN RxTime(m) - (o % itemsize) ELSE NoTime]

\* get_start_time() of a burst that starts the window, with the rate as the unit
\* of time; mutant: from the time tag before this window.
OldStartTime == last_rx_time.time + bitsRead - last_rx_time.at
StartTime == LastRxTime.time + bitsRead - LastRxTime.at

BurstTime(n) ==
  IF n > 0 /\ \E m \in Keyed("BURST", WholeItems) : m.at = bitsRead
  THEN {[at |-> Len(items), key |-> "burst_time", bit |-> bitsRead, copy |-> 0,
         time |-> StartTime]}
  ELSE {}

Switched == [config EXCEPT !.lsb_first = ~@]

\* A call in which the order changes after f bits, or does not (f is 0).
Call(f) ==
  /\ NInput >= Byte
  /\ LET n == RelOffset
         bits == SubSeq(mid, bitsRead + 1, bitsRead + n)
     IN
     /\ f # 0 => f < Len(Data(bits)) /\ Switched \in Configs
     /\ config' = IF f = 0 THEN config ELSE Switched
     /\ last_rx_time' = LastRxTime
     /\ items' = items \o Items(packbuffer(bits, f))
     /\ outTags' = outTags \union {MovedTag(m) : m \in Window(n)} \union BurstTime(n)
     /\ extra_bits' = ExtraBits(n)
     /\ bitsRead' = bitsRead + n
     /\ torn' = torn \union TornBits(bits, f)

general_work == \E f \in 0 .. NInput + itemsize : Call(f)

\* Between two calls; within one it is the f of general_work.
set_little_endian_flag ==
  /\ config' \in {Switched} \intersect Configs
  /\ UNCHANGED <<extra_bits, last_rx_time, bitsRead, items, outTags, torn>>

BitsNext == general_work \/ set_little_endian_flag
=============================================================================
