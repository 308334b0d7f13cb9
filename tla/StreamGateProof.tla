-------------------------- MODULE StreamGateProof ---------------------------
(***************************************************************************)
(* Theorems about StreamGate, alone and in front of TaggedBits: the tags    *)
(* follow their samples through the gate, for any stream, any tags on it    *)
(* and any use of the gate.                                                 *)
(***************************************************************************)
EXTENDS GatedBits, SequenceTheorems, WellFoundedInduction, TLAPS

\* What has passed: as many samples as were read and not dropped, all of them older
\* than the next.  This is what makes the offset that Moved() computes the right one.
PassedInv ==
  /\ tags \in TagSets
  /\ nread \in Nat /\ dropped \in Nat
  /\ mid \in Seq(Nat)
  /\ Len(mid) + dropped = nread
  /\ \A i \in 1 .. Len(mid) : mid[i] < nread

GateInv == PassedInv /\ TagsFollowSamples

\* The offsets of tags are numbers.
LEMMA TagOffsets ==
  ASSUME NEW ts \in TagSets, NEW t \in ts
  PROVE  t.of \in Nat
BY GateAssumption

\* n samples are appended at the end of what passed.
LEMMA Appended ==
  ASSUME PassedInv, NEW n \in Nat, Flow(n)
  PROVE  /\ mid' \in Seq(Nat) /\ Len(mid') = Len(mid) + n
         /\ \A i \in 1 .. Len(mid) : mid'[i] = mid[i]
         /\ \A i \in Len(mid) + 1 .. Len(mid) + n : mid'[i] = i - 1 + dropped
<1> DEFINE s == [i \in 1 .. n |-> nread + i - 1]
<1>1. nread \in Nat /\ dropped \in Nat /\ mid \in Seq(Nat) /\ Len(mid) \in Nat
      /\ nread = Len(mid) + dropped
  BY DEF PassedInv
<1>2. s \in Seq(Nat) /\ Len(s) = n /\ \A i \in 1 .. n : s[i] = nread + i - 1
  <2>1. \A i \in 1 .. n : nread + i - 1 \in Nat
    BY <1>1
  <2>2. QED
    BY <2>1
<1>3. mid' = mid \o s
  BY DEF Flow
<1> HIDE DEF s
<1>4. mid' \in Seq(Nat) /\ Len(mid') = Len(mid) + n
  BY <1>1, <1>2, <1>3, ConcatProperties
<1>5. \A i \in 1 .. Len(mid) : mid'[i] = mid[i]
  BY <1>1, <1>2, <1>3
<1>6. ASSUME NEW i \in Len(mid) + 1 .. Len(mid) + n
      PROVE  mid'[i] = i - 1 + dropped
  <2>1. mid'[i] = s[i - Len(mid)]
    BY <1>1, <1>2, <1>3
  <2>2. i - Len(mid) \in 1 .. n
    BY <1>1
  <2>3. QED
    BY <1>1, <1>2, <2>1, <2>2
<1>7. QED
  BY <1>4, <1>5, <1>6

\* Samples that pass keep the invariant.
LEMMA FlowKeeps ==
  ASSUME GateInv, NEW n \in Nat, Flow(n)
  PROVE  GateInv'
<1> USE DEF GateInv
<1>1. /\ nread \in Nat /\ dropped \in Nat /\ Len(mid) \in Nat /\ nread = Len(mid) + dropped
      /\ nread' = nread + n /\ dropped' = dropped /\ tags' = tags /\ tags \in TagSets
  BY DEF PassedInv, Flow
<1>2. /\ mid' \in Seq(Nat) /\ Len(mid') = Len(mid) + n
      /\ \A i \in 1 .. Len(mid) : mid'[i] = mid[i]
      /\ \A i \in Len(mid) + 1 .. Len(mid) + n : mid'[i] = i - 1 + dropped
  BY Appended
<1>3. PassedInv'
  <2>1. ASSUME NEW i \in 1 .. Len(mid')
        PROVE  mid'[i] < nread'
    <3>1. CASE i \in 1 .. Len(mid)
      <4>1. mid[i] < nread /\ mid[i] \in Nat
        BY <3>1 DEF PassedInv
      <4>2. QED
        BY <1>1, <1>2, <3>1, <4>1
    <3>2. CASE i \in Len(mid) + 1 .. Len(mid) + n
      BY <1>1, <1>2, <3>2
    <3>3. QED
      BY <1>1, <1>2, <3>1, <3>2
  <2>2. QED
    BY <1>1, <1>2, <2>1 DEF PassedInv
<1>4. ASSUME NEW m \in midTags'
      PROVE  m.at \in 0 .. Len(mid') - 1 /\ mid'[m.at + 1] = m.tag.of
  <2>1. CASE m \in midTags
    <3>1. m.at \in 0 .. Len(mid) - 1 /\ mid[m.at + 1] = m.tag.of
      BY <2>1 DEF TagsFollowSamples
    <3>2. m.at + 1 \in 1 .. Len(mid)
      BY <1>1, <3>1
    <3>3. mid'[m.at + 1] = m.tag.of
      BY <1>2, <3>1, <3>2
    <3>4. QED
      BY <1>1, <1>2, <3>1, <3>3
  <2>2. CASE m \notin midTags
    <3>1. PICK t \in GateWindow(n) : m = Moved(t)
      BY <2>2 DEF Flow
    <3>2. t \in tags /\ t.of \in nread .. nread + n - 1 /\ t.of \in Nat
      BY <1>1, <3>1, TagOffsets DEF GateWindow
    <3>3. m.at = t.of - dropped /\ m.tag = t
      BY <3>1 DEF Moved
    <3>4. m.at + 1 \in Len(mid) + 1 .. Len(mid) + n
      BY <1>1, <3>2, <3>3
    <3>5. mid'[m.at + 1] = (m.at + 1) - 1 + dropped
      BY <1>2, <3>4
    <3>6. m.at \in 0 .. Len(mid') - 1
      <4>1. Len(mid') = Len(mid) + n
        BY <1>2
      <4>2. m.at \in Int
        BY <1>1, <3>2, <3>3
      <4>3. QED
        BY <1>1, <3>4, <4>1, <4>2
    <3>7. (m.at + 1) - 1 + dropped = t.of
      BY <1>1, <3>2, <3>3
    <3>8. QED
      BY <3>3, <3>5, <3>6, <3>7
  <2>3. QED
    BY <2>1, <2>2
<1>5. ASSUME NEW t \in tags, NEW i \in 1 .. Len(mid'), mid'[i] = t.of
      PROVE  [at |-> i - 1, tag |-> t] \in midTags'
  <2>1. midTags' = midTags \union {Moved(u) : u \in GateWindow(n)}
    BY DEF Flow
  <2>2. CASE i \in 1 .. Len(mid)
    BY <1>2, <1>5, <2>1, <2>2 DEF TagsFollowSamples
  <2>3. CASE i \in Len(mid) + 1 .. Len(mid) + n
    <3>1. t.of = i - 1 + dropped
      BY <1>2, <1>5, <2>3
    <3>2. t \in GateWindow(n) /\ t.of - dropped = i - 1
      BY <1>1, <2>3, <3>1 DEF GateWindow
    <3>3. Moved(t) = [at |-> i - 1, tag |-> t]
      BY <3>2 DEF Moved
    <3>4. QED
      BY <2>1, <3>2, <3>3
  <2>4. QED
    BY <1>1, <1>2, <2>2, <2>3
<1>6. ASSUME NEW i \in 1 .. Len(mid'), NEW j \in 1 .. Len(mid'), i < j
      PROVE  mid'[i] < mid'[j]
  <2>1. CASE j \in 1 .. Len(mid)
    <3>1. i \in 1 .. Len(mid)
      BY <1>1, <1>6, <2>1
    <3>2. QED
      BY <1>2, <1>6, <2>1, <3>1 DEF TagsFollowSamples
  <2>2. CASE i \in 1 .. Len(mid) /\ j \in Len(mid) + 1 .. Len(mid) + n
    <3>1. mid[i] < nread /\ mid[i] \in Nat
      BY <2>2 DEF PassedInv
    <3>2. mid'[i] = mid[i] /\ mid'[j] = j - 1 + dropped
      BY <1>2, <2>2
    <3>3. QED
      BY <1>1, <2>2, <3>1, <3>2
  <2>3. CASE i \in Len(mid) + 1 .. Len(mid) + n /\ j \in Len(mid) + 1 .. Len(mid) + n
    BY <1>1, <1>2, <1>6, <2>3
  <2>4. QED
    BY <1>1, <1>2, <1>6, <2>1, <2>2, <2>3
<1>7. TagsFollowSamples'
  BY <1>1, <1>4, <1>5, <1>6 DEF TagsFollowSamples
<1>8. QED
  BY <1>3, <1>7

\* So do samples that are dropped, as the count goes with the consumption.
LEMMA DropKeeps ==
  ASSUME GateInv, NEW n \in Nat, Drop(n)
  PROVE  GateInv'
<1>1. PassedInv'
  <2>1. \A i \in 1 .. Len(mid) : mid[i] \in Nat /\ mid[i] < nread
    BY DEF GateInv, PassedInv
  <2>2. QED
    BY <2>1 DEF GateInv, PassedInv, Drop
<1>2. TagsFollowSamples'
  BY DEF GateInv, TagsFollowSamples, Drop
<1>3. QED
  BY <1>1, <1>2 DEF GateInv

LEMMA GateInvInit == GateInit => GateInv
BY DEF GateInit, GateInv, PassedInv, TagsFollowSamples

LEMMA GateInvStep == GateInv /\ [GateNext]_gateVars => GateInv'
<1> SUFFICES ASSUME GateInv, [GateNext]_gateVars
             PROVE  GateInv'
  OBVIOUS
<1>1. ASSUME UNCHANGED <<tags, dropped, nread, mid, midTags>>
      PROVE  GateInv'
  BY <1>1 DEF GateInv, PassedInv, TagsFollowSamples
<1>2. CASE set_flow_data
  BY <1>1, <1>2 DEF set_flow_data
<1>3. CASE set_consume_data
  BY <1>1, <1>3 DEF set_consume_data
<1>4. CASE Gate
  <2>1. PICK n \in 1 .. StreamLen - nread : Flow(n) \/ Drop(n)
    BY <1>4 DEF Gate
  <2>2. n \in Nat
    BY GateAssumption DEF GateInv, PassedInv
  <2>3. QED
    BY <2>1, <2>2, FlowKeeps, DropKeeps
<1>5. CASE UNCHANGED gateVars
  BY <1>1, <1>5 DEF gateVars
<1>6. QED
  BY <1>2, <1>3, <1>4, <1>5 DEF GateNext

\* The tags come out of the gate on the samples they came in on.
THEOREM GateTags == GateSpec => []TagsFollowSamples
<1>1. GateInv => TagsFollowSamples
  BY DEF GateInv
<1>2. QED
  BY <1>1, GateInvInit, GateInvStep, PTL DEF GateSpec

\* The gate in front of the packer is a gate: the packer only reads.
THEOREM GatedIsGate == Spec => GateSpec
<1>1. Init => GateInit
  BY DEF Init
<1>2. [Next]_vars => [GateNext]_gateVars
  BY DEF Next, vars
<1>3. QED
  BY <1>1, <1>2, PTL DEF Spec, GateSpec

\* What the packer reads carries its tags on the right bits.
THEOREM TagsReachPacker == Spec => []TagsFollowSamples
BY GateTags, GatedIsGate, PTL

(***************************************************************************)
(* The packer: arithmetic of bytes and items.                               *)
(***************************************************************************)
\* A number is so many times another, and what remains.
LEMMA Division ==
  ASSUME NEW s \in Nat \ {0}, NEW n \in Int
  PROVE  n \div s \in Int /\ n % s \in 0 .. s - 1 /\ n = (n \div s) * s + (n % s)
<1>1. n \div s \in Int /\ n % s \in 0 .. s - 1
  OBVIOUS
<1>2. n = (n \div s) * s + (n % s)
  OBVIOUS
<1>3. QED
  BY <1>1, <1>2

LEMMA Quotient ==
  ASSUME NEW s \in Nat \ {0}, NEW n \in Nat
  PROVE  n \div s \in Nat /\ n % s <= n
<1>1. n \div s \in Int /\ n % s \in 0 .. s - 1 /\ n = (n \div s) * s + (n % s)
  BY Division
<1>2. \A q \in Int : q < 0 => q * s <= -s
  OBVIOUS
<1>3. \A q \in Nat : q * s \in Nat
  OBVIOUS
<1>4. n \div s \in Nat
  BY <1>1, <1>2
<1>5. QED
  BY <1>1, <1>3, <1>4

LEMMA DivMod ==
  ASSUME NEW s \in Nat \ {0}, NEW a \in Int, NEW x \in 0 .. s - 1
  PROVE  (a * s + x) \div s = a /\ (a * s + x) % s = x
OBVIOUS

\* A byte is in one item.
LEMMA SameItem ==
  ASSUME NEW b \in Nat \ {0}, NEW v \in Nat \ {0}, NEW e \in Nat, NEW x \in 0 .. b - 1
  PROVE  (e * b + x) \div (b * v) = e \div v
<1>1. PICK f \in Int, g \in 0 .. v - 1 : e = f * v + g /\ e \div v = f
  BY Division
<1>2. g * b + x \in 0 .. b * v - 1
  <2>1. g * b >= 0 /\ g * b + b = (g + 1) * b
    OBVIOUS
  <2>2. (g + 1) * b <= v * b /\ v * b = b * v
    <3>1. \A h \in Nat : (h + (g + 1)) * b >= (g + 1) * b
      OBVIOUS
    <3>2. v - (g + 1) \in Nat /\ (v - (g + 1)) + (g + 1) = v
      OBVIOUS
    <3>3. QED
      BY <3>1, <3>2
  <2>3. g * b \in Int /\ b * v \in Int
    OBVIOUS
  <2>4. QED
    BY <2>1, <2>2, <2>3
<1>3. b * v \in Nat \ {0}
  OBVIOUS
<1>4. e * b + x = f * (b * v) + (g * b + x)
  <2>1. e * b = (f * v) * b + g * b
    BY <1>1
  <2>2. (f * v) * b = f * (b * v)
    OBVIOUS
  <2>3. e * b \in Int /\ g * b \in Int /\ f * (b * v) \in Int
    OBVIOUS
  <2>4. QED
    BY <2>1, <2>2, <2>3
<1>5. (f * (b * v) + (g * b + x)) \div (b * v) = f
  BY <1>2, <1>3, DivMod
<1>6. QED
  BY <1>1, <1>4, <1>5

\* Filled up to bytes and then to items, bits are filled up to items.
RoundUp(n, s) == n + (IF n % s = 0 THEN 0 ELSE s - (n % s))

LEMMA PadCount ==
  ASSUME NEW s \in Nat \ {0}, NEW n \in Nat
  PROVE  n + ((s - (n % s)) % s) = RoundUp(n, s) /\ (s - (n % s)) % s \in Nat
<1>1. n % s \in 0 .. s - 1
  BY Division
<1>2. CASE n % s = 0
  <2>1. (s - (n % s)) % s = (1 * s + 0) % s
    BY <1>2
  <2>2. (1 * s + 0) % s = 0
    BY DivMod
  <2>3. QED
    BY <1>2, <2>1, <2>2 DEF RoundUp
<1>3. CASE n % s # 0
  <2>1. s - (n % s) \in 0 .. s - 1
    BY <1>1, <1>3
  <2>2. (0 * s + (s - (n % s))) % s = s - (n % s)
    BY <2>1, DivMod
  <2>3. QED
    BY <1>3, <2>1, <2>2 DEF RoundUp
<1>4. QED
  BY <1>2, <1>3
(***************************************************************************)
(* The packer: the places its bits go to.                                   *)
(***************************************************************************)
Content == Nat \union {PAD}

LEMMA ConfigFacts ==
  ASSUME config \in Configs
  PROVE  /\ Byte \in Nat \ {0} /\ config.vlen \in Nat \ {0} /\ itemsize \in Nat \ {0}
         /\ config.stub \in {"DROP", "RIGHT", "LEFT"} /\ config.lsb_first \in BOOLEAN
         /\ itemsize = Byte * config.vlen
<1>1. config \in [stub : {"DROP", "RIGHT", "LEFT"}, lsb_first : BOOLEAN, vlen : Nat \ {0}]
  BY BitsAssumption
<1>2. Byte \in Nat \ {0} /\ config.vlen \in Nat \ {0}
  BY <1>1, BitsAssumption
<1>3. \A b, v \in Nat \ {0} : b * v \in Nat \ {0}
  OBVIOUS
<1>4. itemsize \in Nat \ {0}
  BY <1>2, <1>3 DEF itemsize
<1>5. QED
  BY <1>1, <1>2, <1>4 DEF itemsize

LEMMA Joined ==
  ASSUME NEW C, NEW a \in Seq(C), NEW b \in Seq(C)
  PROVE  /\ a \o b \in Seq(C) /\ Len(a \o b) = Len(a) + Len(b)
         /\ \A i \in 1 .. Len(a) : (a \o b)[i] = a[i]
         /\ \A i \in 1 .. Len(b) : (a \o b)[Len(a) + i] = b[i]
<1>1. Len(a) \in Nat /\ Len(b) \in Nat
  OBVIOUS
<1>2. a \o b \in Seq(C) /\ Len(a \o b) = Len(a) + Len(b)
  BY ConcatProperties
<1>3. \A i \in 1 .. Len(a) : (a \o b)[i] = a[i]
  OBVIOUS
<1>4. \A i \in 1 .. Len(b) : (a \o b)[Len(a) + i] = b[i]
  OBVIOUS
<1>5. QED
  BY <1>2, <1>3, <1>4

LEMMA Part ==
  ASSUME NEW C, NEW s \in Seq(C), NEW m \in Nat, NEW k \in Nat, m + k <= Len(s)
  PROVE  /\ SubSeq(s, m + 1, m + k) \in Seq(C) /\ Len(SubSeq(s, m + 1, m + k)) = k
         /\ \A i \in 1 .. k : SubSeq(s, m + 1, m + k)[i] = s[m + i]
<1>1. \A i \in m + 1 .. m + k : i \in 1 .. Len(s)
  OBVIOUS
<1>2. \A i \in m + 1 .. m + k : s[i] \in C
  BY <1>1
<1>3. PICK a \in Int, b \in Int : a = m + 1 /\ b = m + k
  OBVIOUS
<1>4. /\ SubSeq(s, a, b) \in Seq(C) /\ Len(SubSeq(s, a, b)) = IF a <= b THEN (b - a) + 1 ELSE 0
      /\ \A i \in 1 .. (b - a) + 1 : SubSeq(s, a, b)[i] = s[(a + i) - 1]
  BY <1>2, <1>3, SubSeqProperties
<1>5. (IF a <= b THEN (b - a) + 1 ELSE 0) = k /\ (b - a) + 1 = k
  BY <1>3
<1>6. \A i \in 1 .. k : (a + i) - 1 = m + i
  BY <1>3
<1>7. QED
  BY <1>3, <1>4, <1>5, <1>6

LEMMA PadsFacts ==
  ASSUME NEW k \in Nat
  PROVE  Pads(k) \in Seq(Content) /\ Len(Pads(k)) = k /\ \A i \in 1 .. k : Pads(k)[i] = PAD
BY DEF Pads, Content

LEMMA PaddedFacts ==
  ASSUME config \in Configs, NEW bits \in Seq(Content)
  PROVE  /\ Padded(bits) \in Seq(Content)
         /\ Len(Padded(bits)) = RoundUp(Len(bits), itemsize) /\ Len(Padded(bits)) >= Len(bits)
         /\ \A p \in 1 .. Len(bits) : Padded(bits)[p] = bits[p]
         /\ \A p \in Len(bits) + 1 .. Len(Padded(bits)) : Padded(bits)[p] = PAD
<1>1. itemsize \in Nat \ {0} /\ Len(bits) \in Nat
  BY ConfigFacts
<1>2. PICK k \in Nat : /\ k = (itemsize - (Len(bits) % itemsize)) % itemsize
                       /\ Len(bits) + k = RoundUp(Len(bits), itemsize)
  BY <1>1, PadCount
<1>3. Padded(bits) = bits \o Pads(k)
  BY <1>2 DEF Padded
<1>4. Pads(k) \in Seq(Content) /\ Len(Pads(k)) = k /\ \A i \in 1 .. k : Pads(k)[i] = PAD
  BY PadsFacts
<1>5. PICK t : t = Pads(k)
  OBVIOUS
<1>6. t \in Seq(Content) /\ Len(t) = k /\ Padded(bits) = bits \o t
  BY <1>3, <1>4, <1>5
<1>7. /\ Padded(bits) \in Seq(Content) /\ Len(Padded(bits)) = Len(bits) + k
      /\ \A i \in 1 .. Len(bits) : Padded(bits)[i] = bits[i]
      /\ \A i \in 1 .. k : Padded(bits)[Len(bits) + i] = PAD
  BY <1>4, <1>5, <1>6, Joined
<1>9. \A p \in Len(bits) + 1 .. Len(bits) + k : p - Len(bits) \in 1 .. k /\ Len(bits) + (p - Len(bits)) = p
  BY <1>1
<1>8. QED
  BY <1>1, <1>2, <1>7, <1>9

\* Where the bits of a shifted last byte come from: the m of the bytes before it, k places
\* of padding, and the r that are left.
ShiftedFrom(p, m, k, r) ==
  IF p <= m THEN p ELSE IF p > m + k /\ p <= (m + k) + r THEN p - k ELSE 0

LEMMA ShiftRange ==
  ASSUME NEW m \in Nat, NEW k \in Nat, NEW r \in Nat, NEW p \in Nat
  PROVE  ShiftedFrom(p, m, k, r) \in 0 .. m + r
BY DEF ShiftedFrom

LEMMA ShiftOrder ==
  ASSUME NEW m \in Nat, NEW k \in Nat, NEW r \in Nat, NEW p \in Nat, NEW q \in Nat, p < q,
         ShiftedFrom(p, m, k, r) # 0, ShiftedFrom(q, m, k, r) # 0
  PROVE  ShiftedFrom(p, m, k, r) < ShiftedFrom(q, m, k, r)
BY DEF ShiftedFrom

LEMMA ShiftFirst ==
  ASSUME NEW m \in Nat, NEW k \in Nat, NEW r \in Nat, NEW p \in Nat, p <= m
  PROVE  ShiftedFrom(p, m, k, r) = p
BY DEF ShiftedFrom

LEMMA ShiftTail ==
  ASSUME NEW m \in Nat, NEW k \in Nat, NEW r \in Nat, NEW p \in Nat,
         p > m + k, p <= m + (k + r)
  PROVE  ShiftedFrom(p, m, k, r) = p - k
BY DEF ShiftedFrom

LEMMA ShiftPads ==
  ASSUME NEW m \in Nat, NEW k \in Nat, NEW r \in Nat, NEW p \in Nat \ {0},
         ShiftedFrom(p, m, k, r) = 0
  PROVE  (p > m /\ p <= m + k) \/ p > m + (k + r)
BY DEF ShiftedFrom

LEMMA ShiftKept ==
  ASSUME NEW m \in Nat, NEW k \in Nat, NEW r \in Nat, NEW p \in Nat, p > m,
         ShiftedFrom(p, m, k, r) # 0
  PROVE  \E i \in 1 .. r : p = m + (k + i) /\ ShiftedFrom(p, m, k, r) = m + i
<1>1. /\ p - (m + k) \in 1 .. r /\ p = m + (k + (p - (m + k)))
      /\ ShiftedFrom(p, m, k, r) = m + (p - (m + k))
  BY DEF ShiftedFrom
<1>2. QED
  BY <1>1

MultipleOf(m, b) == \E e \in Nat : m = e * b

SameItems(m, z, b) == \A x, y \in 0 .. b - 1 : (m + x) \div z = (m + y) \div z

LEMMA ByteInItem ==
  ASSUME NEW b \in Nat \ {0}, NEW z \in Nat \ {0}, MultipleOf(z, b), NEW m \in Nat, MultipleOf(m, b)
  PROVE  SameItems(m, z, b)
<1>1. PICK e \in Nat, v \in Nat : m = e * b /\ z = v * b
  BY DEF MultipleOf
<1>2. v # 0
  BY <1>1
<1>3. PICK w \in Nat \ {0} : w = v /\ z = b * w
  BY <1>1, <1>2
<1>4. ASSUME NEW x \in 0 .. b - 1
      PROVE  (m + x) \div z = e \div w
  <2>1. (e * b + x) \div (b * w) = e \div w
    BY ONLY SameItem, b \in Nat \ {0}, w \in Nat \ {0}, e \in Nat, x \in 0 .. b - 1
  <2>2. QED
    BY <1>1, <1>3, <2>1
<1>5. QED
  BY <1>4 DEF SameItems

LEMMA ShiftedItem ==
  ASSUME NEW b \in Nat \ {0}, NEW z \in Nat \ {0}, MultipleOf(z, b), NEW m \in Nat, MultipleOf(m, b),
         NEW k \in Nat, NEW r \in Nat, k + r = b, NEW p \in Nat \ {0},
         ShiftedFrom(p, m, k, r) # 0
  PROVE  (ShiftedFrom(p, m, k, r) - 1) \div z = (p - 1) \div z
<1>1. CASE p <= m
  <2>1. ShiftedFrom(p, m, k, r) = p
    BY <1>1, ShiftFirst
  <2>2. QED
    BY <2>1
<1>2. CASE p > m
  <2>1. PICK i \in 1 .. r : p = m + (k + i) /\ ShiftedFrom(p, m, k, r) = m + i
    BY <1>2, ShiftKept
  <2>5. \A x, y \in 0 .. b - 1 : (m + x) \div z = (m + y) \div z
    BY ByteInItem DEF SameItems
  <2>6. PICK x \in 0 .. b - 1, y \in 0 .. b - 1 : x = i - 1 /\ y = k + (i - 1)
    <3>1. i - 1 \in 0 .. b - 1 /\ k + (i - 1) \in 0 .. b - 1
      OBVIOUS
    <3>2. QED
      BY <3>1
  <2>7. (m + i) - 1 = m + x /\ (m + (k + i)) - 1 = m + y
    BY <2>6
  <2>8. QED
    BY <2>1, <2>5, <2>7
<1>3. QED
  BY <1>1, <1>2

\* What the next proof needs of its numbers.
LEMMA ByteParts ==
  ASSUME NEW b \in Nat \ {0}, NEW n \in Nat, NEW r \in Nat, r = n % b
  PROVE  \E e \in Nat, m \in Nat, k \in Nat :
           n = m + r /\ m = n - r /\ m = e * b /\ k = b - r /\ k + r = b
<1>1. PICK e \in Nat : n = e * b + r
  <2>1. n = (n \div b) * b + (n % b)
    BY Division
  <2>2. n \div b \in Nat
    BY Quotient
  <2>3. QED
    BY <2>1, <2>2
<1>2. r \in 0 .. b - 1
  BY Division
<1>3. PICK m \in Nat : m = e * b
  OBVIOUS
<1>4. n = m + r /\ m = n - r
  BY <1>1, <1>3
<1>5. b - r \in Nat /\ (b - r) + r = b
  BY <1>2
<1>6. QED
  BY <1>3, <1>4, <1>5

\* What is at each place of some bytes is one of some bits, or padding: the bits are in
\* order, but for some lost ones, and none is in another item than it would be unpadded.
Fills(bytes, bits, src, lost) ==
  /\ bytes \in Seq(Content)
  /\ src \in [1 .. Len(bytes) -> 0 .. Len(bits)]
  /\ \A p \in 1 .. Len(bytes) : bytes[p] = IF src[p] = 0 THEN PAD ELSE bits[src[p]]
  /\ \A p, q \in 1 .. Len(bytes) :
       p < q /\ src[p] # 0 /\ src[q] # 0 => src[p] < src[q] \/ (src[p] \in lost /\ src[q] \in lost)
  /\ \A p \in 1 .. Len(bytes) : src[p] # 0 => (src[p] - 1) \div itemsize = (p - 1) \div itemsize

Holding(src, i) == \E p \in DOMAIN src : src[p] = i

\* How many bits the items made of n bits have.
PackedLen(n) == IF config.stub = "DROP" THEN n - (n % itemsize) ELSE RoundUp(n, itemsize)

\* All bits are packed but those of a stub that is dropped.
IsPacked(i, n) == config.stub # "DROP" \/ i <= n - (n % itemsize)

\* So many bits of d are of some bits, in their places, and the others are padding.
Starts(d, bits, n) ==
  /\ d \in Seq(Content) /\ n <= Len(d) /\ n <= Len(bits)
  /\ \A p \in 1 .. n : d[p] = bits[p]
  /\ \A p \in n + 1 .. Len(d) : d[p] = PAD

LEMMA DataFacts ==
  ASSUME config \in Configs, NEW bits \in Seq(Nat)
  PROVE  /\ Len(Data(bits)) = PackedLen(Len(bits))
         /\ \E n \in Nat : /\ Starts(Data(bits), bits, n)
                           /\ config.stub # "DROP" => n = Len(bits)
                           /\ \A i \in 1 .. Len(bits) : IsPacked(i, Len(bits)) => i <= n
<1>1. bits \in Seq(Content) /\ Len(bits) \in Nat
  BY DEF Content
<1>2. CASE config.stub = "DROP"
  <2>1. PICK m \in Nat : m = Len(bits) - (Len(bits) % itemsize) /\ m <= Len(bits)
    <3>1. PICK z \in Nat \ {0}, n \in Nat : z = itemsize /\ n = Len(bits)
      BY ConfigFacts
    <3>2. n % z <= n /\ n % z \in Nat
      <4>1. n % z \in 0 .. z - 1
        BY Division
      <4>2. n % z <= n
        BY Quotient
      <4>3. QED
        BY <4>1, <4>2
    <3>3. n - (n % z) \in Nat /\ n - (n % z) <= n
      BY <3>2
    <3>4. QED
      BY <3>1, <3>3
  <2>2. PICK t : t = SubSeq(bits, 1, m)
    OBVIOUS
  <2>3. t \in Seq(Content) /\ Len(t) = m /\ \A i \in 1 .. m : t[i] = bits[i]
    <3>1. 0 + m <= Len(bits) /\ 0 + 1 = 1 /\ 0 + m = m /\ \A i \in 1 .. m : 0 + i = i
      BY <2>1
    <3>2. /\ SubSeq(bits, 0 + 1, 0 + m) \in Seq(Content) /\ Len(SubSeq(bits, 0 + 1, 0 + m)) = m
          /\ \A i \in 1 .. m : SubSeq(bits, 0 + 1, 0 + m)[i] = bits[0 + i]
      BY <1>1, <3>1, Part
    <3>3. QED
      BY <2>2, <3>1, <3>2
  <2>4. Data(bits) = t
    BY <1>2, <2>1, <2>2 DEF Data
  <2>5. Starts(t, bits, m)
    BY <2>1, <2>3 DEF Starts
  <2>6. \A i \in 1 .. Len(bits) : IsPacked(i, Len(bits)) => i <= m
    BY <1>2, <2>1 DEF IsPacked
  <2>7. PackedLen(Len(bits)) = m
    BY <1>2, <2>1 DEF PackedLen
  <2>8. QED
    BY <1>2, <2>1, <2>3, <2>4, <2>5, <2>6, <2>7
<1>3. CASE config.stub # "DROP"
  <2>1. PICK t, n : t = Padded(bits) /\ n = Len(bits)
    OBVIOUS
  <2>2. /\ t \in Seq(Content) /\ Len(t) = RoundUp(n, itemsize) /\ Len(t) >= n
        /\ \A p \in 1 .. n : t[p] = bits[p]
        /\ \A p \in n + 1 .. Len(t) : t[p] = PAD
    BY <1>1, <2>1, PaddedFacts
  <2>3. Data(bits) = t /\ PackedLen(Len(bits)) = RoundUp(n, itemsize)
    BY <1>3, <2>1 DEF Data, PackedLen
  <2>4. Starts(t, bits, n)
    BY <1>1, <2>1, <2>2 DEF Starts
  <2>5. QED
    BY <1>1, <2>1, <2>2, <2>3, <2>4
<1>4. QED
  BY <1>2, <1>3

\* Where the bits of bytes come from within one of which, after m bits, the order changes
\* after k of b bits.
TornFrom(p, m, k, b) ==
  IF p <= m \/ p > m + k THEN p
  ELSE IF (2 * (m + k) - b) + 1 - p > m THEN (2 * (m + k) - b) + 1 - p ELSE 0

LEMMA TornRange ==
  ASSUME NEW m \in Nat, NEW k \in Nat, NEW b \in Nat, k < b, NEW p \in Nat \ {0}
  PROVE  /\ TornFrom(p, m, k, b) \in 0 .. p \/ TornFrom(p, m, k, b) \in m + 1 .. m + k
         /\ p <= m \/ p > m + k => TornFrom(p, m, k, b) = p
         /\ p > m /\ p <= m + k /\ TornFrom(p, m, k, b) # 0 =>
              TornFrom(p, m, k, b) > m /\ TornFrom(p, m, k, b) <= m + k
BY DEF TornFrom

\* The bits of the byte within which the order changes after f bits.
Lost(f, n) == {j \in 1 .. n : /\ f % Byte # 0
                              /\ j > f - (f % Byte) /\ j <= f - (f % Byte) + Byte}

LEMMA TornFills ==
  ASSUME config \in Configs, NEW bits \in Seq(Nat), NEW d, NEW n \in Nat, Starts(d, bits, n),
         NEW f \in Nat, f <= Len(d)
  PROVE  /\ Len(Torn(d, f)) = Len(d)
         /\ \E src : /\ Fills(Torn(d, f), bits, src, Lost(f, Len(bits)))
                     /\ \A i \in 1 .. n : Holding(src, i) \/ i \in Lost(f, Len(bits))
<1>1. PICK b \in Nat \ {0}, z \in Nat \ {0} : b = Byte /\ z = itemsize /\ MultipleOf(z, b)
  <2>1. Byte \in Nat \ {0} /\ itemsize \in Nat \ {0}
    BY ConfigFacts
  <2>2. PICK v \in Nat \ {0} : itemsize = Byte * v
    BY ConfigFacts
  <2>3. itemsize = v * Byte
    BY <2>1, <2>2
  <2>4. QED
    BY <2>1, <2>2, <2>3 DEF MultipleOf
<1>2. PICK k \in Nat, m \in Nat, e \in Nat :
        k = f % b /\ m = f - k /\ f = m + k /\ k < b /\ m = e * b
  <2>1. PICK k \in Nat : k = f % b /\ k < b
    <3>1. f % b \in 0 .. b - 1
      BY Division
    <3>2. f % b \in Nat /\ f % b < b
      BY <3>1
    <3>3. QED
      BY <3>2
  <2>2. \E e \in Nat, m \in Nat, x \in Nat :
          f = m + k /\ m = f - k /\ m = e * b /\ x = b - k /\ x + k = b
    BY <2>1, ByteParts
  <2>3. PICK e \in Nat, m \in Nat : f = m + k /\ m = f - k /\ m = e * b
    BY <2>2
  <2>4. QED
    BY <2>1, <2>3
<1>3. PICK l \in Nat, u \in Nat : l = Len(d) /\ u = Len(bits) /\ n <= l /\ n <= u /\ f <= l
  BY DEF Starts
<1>4. PICK t : t = Torn(d, f)
  OBVIOUS
<1>5. /\ d \in Seq(Content) /\ \A p \in 1 .. n : d[p] = bits[p]
      /\ \A p \in n + 1 .. l : d[p] = PAD
  BY <1>3 DEF Starts
<1>6. \A p \in 1 .. l : TornFrom(p, m, k, b) \in 0 .. l
  <2>1. ASSUME NEW p \in 1 .. l
        PROVE  TornFrom(p, m, k, b) \in 0 .. l
    <3>1. p \in Nat \ {0} /\ m + k <= l
      BY <1>2, <1>3
    <3>2. TornFrom(p, m, k, b) \in 0 .. p \/ TornFrom(p, m, k, b) \in m + 1 .. m + k
      BY <1>2, <3>1, TornRange
    <3>3. QED
      BY <3>1, <3>2
  <2>2. QED
    BY <2>1
<1>7. t = [p \in 1 .. l |-> IF TornFrom(p, m, k, b) = 0 THEN PAD ELSE d[TornFrom(p, m, k, b)]]
  <2>1. t = [p \in 1 .. l |->
               IF p <= f - (f % Byte) \/ p > f THEN d[p]
               ELSE IF (2 * f - Byte) + 1 - p > f - (f % Byte)
                    THEN d[(2 * f - Byte) + 1 - p] ELSE PAD]
    BY <1>3, <1>4 DEF Torn
  <2>2. f - (f % Byte) = m /\ Byte = b /\ f = m + k
    BY <1>1, <1>2
  <2>3. \A p \in 1 .. l :
          (IF p <= m \/ p > m + k THEN d[p]
           ELSE IF (2 * (m + k) - b) + 1 - p > m THEN d[(2 * (m + k) - b) + 1 - p] ELSE PAD)
          = IF TornFrom(p, m, k, b) = 0 THEN PAD ELSE d[TornFrom(p, m, k, b)]
    BY DEF TornFrom
  <2>4. QED
    BY <2>1, <2>2, <2>3
<1>8. \A p \in 1 .. l : d[p] \in Content
  BY <1>3, <1>5
<1>9. t \in Seq(Content) /\ Len(t) = l
  <2>1. \A p \in 1 .. l : (IF TornFrom(p, m, k, b) = 0 THEN PAD ELSE d[TornFrom(p, m, k, b)]) \in Content
    <3>1. ASSUME NEW p \in 1 .. l, TornFrom(p, m, k, b) # 0
          PROVE  d[TornFrom(p, m, k, b)] \in Content
      <4>1. TornFrom(p, m, k, b) \in 1 .. l
        BY <1>6, <3>1
      <4>2. QED
        BY <1>8, <4>1
    <3>2. QED
      BY <3>1 DEF Content
  <2>2. t \in [1 .. l -> Content]
    BY <1>7, <2>1
  <2>3. QED
    BY <2>2
<1>10. PICK src : src = [p \in 1 .. l |-> IF TornFrom(p, m, k, b) <= n THEN TornFrom(p, m, k, b) ELSE 0]
  OBVIOUS
<1>11. /\ src \in [1 .. l -> 0 .. u] /\ DOMAIN src = 1 .. l
       /\ \A p \in 1 .. l : src[p] \in 0 .. n /\ (src[p] # 0 => src[p] = TornFrom(p, m, k, b))
  <2>1. ASSUME NEW p \in 1 .. l
        PROVE  src[p] \in 0 .. n /\ src[p] \in 0 .. u /\ (src[p] # 0 => src[p] = TornFrom(p, m, k, b))
    BY <1>3, <1>6, <1>10
  <2>2. QED
    BY <1>10, <2>1
<1>12. ASSUME NEW p \in 1 .. l
       PROVE  t[p] = IF src[p] = 0 THEN PAD ELSE bits[src[p]]
  <2>1. PICK x \in 0 .. l : x = TornFrom(p, m, k, b)
    BY <1>6
  <2>2. t[p] = (IF x = 0 THEN PAD ELSE d[x]) /\ src[p] = IF x <= n THEN x ELSE 0
    BY <1>7, <1>10, <2>1
  <2>3. CASE x = 0
    BY <2>2, <2>3
  <2>4. CASE x # 0 /\ x <= n
    <3>1. x \in 1 .. n
      BY <2>4
    <3>2. QED
      BY <1>5, <2>2, <2>4, <3>1
  <2>5. CASE x # 0 /\ ~ (x <= n)
    <3>1. x \in n + 1 .. l
      BY <2>5
    <3>2. QED
      BY <1>5, <2>2, <2>5, <3>1
  <2>6. QED
    BY <2>3, <2>4, <2>5
<1>13. Lost(f, u) = {j \in 1 .. u : k # 0 /\ j > m /\ j <= m + b}
  BY <1>1, <1>2 DEF Lost
<1>14. ASSUME NEW p \in 1 .. l, NEW q \in 1 .. l, p < q, src[p] # 0, src[q] # 0
       PROVE  src[p] < src[q] \/ (src[p] \in Lost(f, u) /\ src[q] \in Lost(f, u))
  <2>1. PICK x \in 1 .. n, y \in 1 .. n : /\ x = src[p] /\ y = src[q]
                                          /\ x = TornFrom(p, m, k, b) /\ y = TornFrom(q, m, k, b)
    BY <1>11, <1>14
  <2>2. p \in Nat \ {0} /\ q \in Nat \ {0}
    OBVIOUS
  <2>3. /\ p <= m \/ p > m + k => x = p
        /\ p > m /\ p <= m + k => x > m /\ x <= m + k
    BY <1>2, <2>1, <2>2, TornRange
  <2>4. /\ q <= m \/ q > m + k => y = q
        /\ q > m /\ q <= m + k => y > m /\ y <= m + k
    BY <1>2, <2>1, <2>2, TornRange
  <2>5. x < y \/ (k # 0 /\ x > m /\ y > m /\ x <= m + b /\ y <= m + b)
    BY <1>2, <1>14, <2>3, <2>4
  <2>6. x \in 1 .. u /\ y \in 1 .. u
    BY <1>3
  <2>7. QED
    BY <1>13, <2>1, <2>5, <2>6
<1>15. ASSUME NEW p \in 1 .. l, src[p] # 0
       PROVE  (src[p] - 1) \div z = (p - 1) \div z
  <2>1. PICK x \in Nat \ {0} : x = src[p] /\ x = TornFrom(p, m, k, b)
    BY <1>11, <1>15
  <2>2. p \in Nat \ {0}
    OBVIOUS
  <2>3. CASE p <= m \/ p > m + k
    <3>1. TornFrom(p, m, k, b) = p
      BY <1>2, <2>2, <2>3, TornRange
    <3>2. src[p] = p
      BY <2>1, <3>1
    <3>3. QED
      BY <3>2
  <2>4. CASE p > m /\ p <= m + k
    <3>1. x > m /\ x <= m + k
      BY <1>2, <2>1, <2>2, <2>4, TornRange
    <3>2. \A i, j \in 0 .. b - 1 : (m + i) \div z = (m + j) \div z
      <4>1. MultipleOf(m, b)
        BY <1>2 DEF MultipleOf
      <4>2. SameItems(m, z, b)
        BY <1>1, <4>1, ByteInItem
      <4>3. QED
        BY <4>2 DEF SameItems
    <3>3. PICK i \in 0 .. b - 1, j \in 0 .. b - 1 : i = x - 1 - m /\ j = p - 1 - m
      <4>1. x - 1 - m \in 0 .. b - 1 /\ p - 1 - m \in 0 .. b - 1
        BY <1>2, <2>4, <3>1
      <4>2. QED
        BY <4>1
    <3>4. x - 1 = m + i /\ p - 1 = m + j
      BY <3>3
    <3>5. QED
      BY <2>1, <3>2, <3>4
  <2>5. QED
    BY <2>3, <2>4
<1>16. Fills(t, bits, src, Lost(f, u))
  BY <1>1, <1>3, <1>9, <1>11, <1>12, <1>14, <1>15 DEF Fills
<1>17. ASSUME NEW i \in 1 .. n
       PROVE  Holding(src, i) \/ i \in Lost(f, u)
  <2>1. i \in 1 .. l /\ i \in 1 .. u /\ i \in Nat \ {0}
    BY <1>3
  <2>2. CASE i <= m \/ i > m + k
    <3>1. TornFrom(i, m, k, b) = i
      BY <1>2, <2>1, <2>2, TornRange
    <3>2. src[i] = i
      BY <1>10, <2>1, <3>1
    <3>3. QED
      BY <1>11, <2>1, <3>2 DEF Holding
  <2>3. CASE i > m /\ i <= m + k
    <3>1. k # 0 /\ i <= m + b
      BY <1>2, <2>3
    <3>2. QED
      BY <1>13, <2>1, <2>3, <3>1
  <2>4. QED
    BY <2>2, <2>3
<1>18. QED
  BY <1>3, <1>4, <1>9, <1>16, <1>17

\* Bits that fill a part of a byte leave room for it in whole items.
LEMMA ByteFits ==
  ASSUME config \in Configs, NEW n \in Nat, NEW e \in Nat, NEW m \in Nat, m = e * Byte, n > m
  PROVE  m + Byte <= RoundUp(n, itemsize)
<1>1. PICK b \in Nat \ {0}, v \in Nat \ {0}, z \in Nat \ {0} : b = Byte /\ z = itemsize /\ z = b * v
  <2>1. PICK v \in Nat \ {0} : itemsize = Byte * v
    BY ConfigFacts
  <2>2. QED
    BY <2>1, ConfigFacts
<1>2. PICK r \in 0 .. z - 1, q \in Nat : r = n % z /\ n = q * z + r
  <2>1. n % z \in 0 .. z - 1 /\ n = (n \div z) * z + (n % z)
    BY Division
  <2>2. n \div z \in Nat
    BY Quotient
  <2>3. QED
    BY <2>1, <2>2
<1>3. PICK c \in Nat : RoundUp(n, z) = c * z /\ c * z >= n
  <2>1. CASE r = 0
    BY <1>2, <2>1 DEF RoundUp
  <2>2. CASE r # 0
    <3>1. RoundUp(n, z) = n + (z - r)
      BY <1>2, <2>2 DEF RoundUp
    <3>2. q + 1 \in Nat /\ (q + 1) * z = q * z + z
      OBVIOUS
    <3>3. q * z \in Nat
      OBVIOUS
    <3>4. RoundUp(n, z) = (q + 1) * z /\ (q + 1) * z >= n
      BY <1>2, <3>1, <3>2, <3>3
    <3>5. QED
      BY <3>2, <3>4
  <2>3. QED
    BY <2>1, <2>2
<1>4. PICK g \in Nat : g = c * v /\ c * z = g * b
  <2>1. c * v \in Nat /\ c * (b * v) = (c * v) * b
    OBVIOUS
  <2>2. QED
    BY <1>1, <2>1
<1>5. g >= e + 1
  <2>1. SUFFICES ASSUME g <= e
                 PROVE  FALSE
    OBVIOUS
  <2>2. e - g \in Nat /\ e = g + (e - g)
    BY <2>1
  <2>3. \A h \in Nat : (g + h) * b >= g * b
    OBVIOUS
  <2>4. e * b >= g * b
    BY <2>2, <2>3
  <2>5. e * b = m /\ g * b \in Nat /\ n > m /\ g * b >= n
    BY <1>1, <1>3, <1>4
  <2>6. QED
    BY <2>4, <2>5
<1>6. g * b >= e * b + b
  <2>1. g - (e + 1) \in Nat /\ g = (e + 1) + (g - (e + 1))
    BY <1>5
  <2>2. \A h \in Nat : ((e + 1) + h) * b >= (e + 1) * b
    OBVIOUS
  <2>3. (e + 1) * b = e * b + b
    OBVIOUS
  <2>4. QED
    BY <2>1, <2>2, <2>3
<1>7. QED
  BY <1>1, <1>3, <1>4, <1>6

LEMMA LeftFills ==
  ASSUME config \in Configs, ~config.lsb_first, NEW bits \in Seq(Nat), NEW d,
         Starts(d, bits, Len(bits)), Len(d) = RoundUp(Len(bits), itemsize)
  PROVE  /\ Len(ShiftLast(d, Len(bits), 0)) = Len(d)
         /\ \E src : /\ Fills(ShiftLast(d, Len(bits), 0), bits, src, {})
                     /\ \A i \in 1 .. Len(bits) : Holding(src, i)
<1>1. Byte \in Nat \ {0}
  BY ConfigFacts
<1>2. MultipleOf(itemsize, Byte) /\ itemsize \in Nat \ {0}
  <2>1. PICK v \in Nat \ {0} : itemsize = Byte * v
    BY ConfigFacts
  <2>2. Byte * v = v * Byte /\ v \in Nat
    BY <1>1
  <2>3. MultipleOf(itemsize, Byte)
    BY <2>1, <2>2 DEF MultipleOf
  <2>4. QED
    BY <2>3, ConfigFacts
<1>3. PICK n \in Nat, r \in Nat : n = Len(bits) /\ r = n % Byte
  <2>1. Len(bits) % Byte \in 0 .. Byte - 1 /\ Len(bits) \in Nat
    BY <1>1, Division
  <2>2. QED
    BY <1>1, <2>1
<1>4. PICK e \in Nat, m \in Nat, k \in Nat : n = m + r /\ m = n - r /\ m = e * Byte /\ k = Byte - r /\ k + r = Byte
  BY <1>1, <1>3, ByteParts
<1>19. PICK t : t = ShiftLast(d, n, 0)
  OBVIOUS
<1>5. PICK l \in Nat : l = Len(d) /\ n <= l /\ t = ShiftLast(d, n, 0)
  BY <1>3, <1>19 DEF Starts
<1>6. /\ d \in Seq(Content) /\ \A p \in 1 .. n : d[p] = bits[p]
      /\ \A p \in n + 1 .. l : d[p] = PAD
  BY <1>3, <1>5 DEF Starts
<1>7. r # 0 => m + Byte <= l
  <2>1. r # 0 => n > m
    BY <1>4
  <2>2. QED
    BY <1>3, <1>4, <1>5, <2>1, ByteFits
<1>8. t = [p \in 1 .. l |-> IF r = 0 \/ p \notin m + 1 .. m + Byte THEN d[p]
                            ELSE IF p - k \in m + 1 .. m + Byte THEN d[p - k] ELSE PAD]
  <2>1. config.lsb_first = FALSE /\ (0 # 0 /\ 0 < (n - r) + Byte) = FALSE
    BY ConfigFacts
  <2>2. ~ (config.lsb_first # (0 # 0 /\ 0 < (n - r) + Byte))
    BY <2>1
  <2>3. t = [p \in 1 .. l |->
               IF r = 0 \/ p \notin (n - r) + 1 .. (n - r) + Byte THEN d[p]
               ELSE IF p - (Byte - r) \in (n - r) + 1 .. (n - r) + Byte
                    THEN d[p - (Byte - r)] ELSE PAD]
    BY <1>3, <1>5, <2>2 DEF ShiftLast
  <2>4. n - r = m /\ Byte - r = k
    BY <1>4
  <2>5. QED
    BY <2>3, <2>4
<1>9. PICK src : src = [p \in 1 .. l |-> ShiftedFrom(p, m, k, r)]
  OBVIOUS
<1>10. \A p \in 1 .. l : p \in Nat \ {0} /\ src[p] = ShiftedFrom(p, m, k, r)
  BY <1>9
<1>11. src \in [1 .. l -> 0 .. n]
  BY <1>4, <1>9, <1>10, ShiftRange
<1>12. ASSUME NEW p \in 1 .. l
       PROVE  t[p] = IF src[p] = 0 THEN PAD ELSE bits[src[p]]
  <2>1. t[p] = IF r = 0 \/ p \notin m + 1 .. m + Byte THEN d[p]
               ELSE IF p - k \in m + 1 .. m + Byte THEN d[p - k] ELSE PAD
    BY <1>8
  <2>2. src[p] = IF p <= m THEN p ELSE IF p > m + k /\ p <= (m + k) + r THEN p - k ELSE 0
    BY <1>10 DEF ShiftedFrom
  <2>3. CASE p <= m
    <3>1. p \notin m + 1 .. m + Byte /\ p \in 1 .. n /\ p # 0
      BY <1>1, <1>4, <2>3
    <3>2. QED
      BY <1>6, <2>1, <2>2, <2>3, <3>1
  <2>4. CASE p > m /\ r = 0
    <3>1. p \in n + 1 .. l /\ ~ (p > m + k /\ p <= (m + k) + r) /\ ~ (p <= m)
      BY <1>4, <2>4
    <3>2. QED
      BY <1>6, <2>1, <2>2, <2>4, <3>1
  <2>5. CASE p > m /\ r # 0 /\ p > m + Byte
    <3>1. p \in n + 1 .. l /\ p \notin m + 1 .. m + Byte /\ ~ (p <= (m + k) + r) /\ ~ (p <= m)
      BY <1>1, <1>4, <2>5
    <3>2. QED
      BY <1>6, <2>1, <2>2, <3>1
  <2>6. CASE p > m /\ r # 0 /\ p <= m + Byte /\ p <= m + k
    <3>1. p \in m + 1 .. m + Byte /\ p - k \notin m + 1 .. m + Byte /\ ~ (p > m + k) /\ ~ (p <= m)
      BY <1>1, <1>4, <2>6
    <3>2. QED
      BY <2>1, <2>2, <2>6, <3>1
  <2>7. CASE p > m /\ r # 0 /\ p <= m + Byte /\ p > m + k
    <3>1. /\ p \in m + 1 .. m + Byte /\ p - k \in m + 1 .. m + Byte /\ p <= (m + k) + r /\ ~ (p <= m)
          /\ p - k \in 1 .. n /\ p - k # 0
      BY <1>1, <1>4, <2>7
    <3>2. QED
      BY <1>6, <2>1, <2>2, <2>7, <3>1
  <2>8. QED
    BY <1>1, <1>4, <2>3, <2>4, <2>5, <2>6, <2>7
<1>13. t \in Seq(Content) /\ Len(t) = l
  <2>1. DOMAIN t = 1 .. l
    BY <1>8
  <2>2. ASSUME NEW p \in 1 .. l
        PROVE  t[p] \in Content
    <3>1. src[p] # 0 => src[p] \in 1 .. n
      BY <1>11
    <3>2. src[p] # 0 => bits[src[p]] \in Nat
      BY <1>3, <3>1
    <3>3. QED
      BY <1>12, <3>2 DEF Content
  <2>3. t \in [1 .. l -> Content]
    BY <1>8, <2>2
  <2>4. QED
    BY <2>3
<1>14. ASSUME NEW p \in 1 .. l, NEW q \in 1 .. l, p < q, src[p] # 0, src[q] # 0
       PROVE  src[p] < src[q]
  BY <1>10, <1>14, ShiftOrder
<1>15. ASSUME NEW p \in 1 .. l, src[p] # 0
       PROVE  (src[p] - 1) \div itemsize = (p - 1) \div itemsize
  <2>1. PICK x \in Nat \ {0} : x = p /\ src[p] = ShiftedFrom(x, m, k, r)
    BY <1>10
  <2>2. ShiftedFrom(x, m, k, r) # 0
    BY <1>15, <2>1
  <2>3. MultipleOf(m, Byte)
    BY <1>4 DEF MultipleOf
  <2>4. k + r = Byte
    BY <1>4
  <2>5. PICK b \in Nat \ {0}, z \in Nat \ {0} : b = Byte /\ z = itemsize
    BY <1>1, <1>2
  <2>6. MultipleOf(z, b) /\ MultipleOf(m, b) /\ k + r = b
    BY <1>2, <2>3, <2>4, <2>5
  <2>7. (ShiftedFrom(x, m, k, r) - 1) \div z = (x - 1) \div z
    BY <2>2, <2>6, ShiftedItem
  <2>8. QED
    BY <2>1, <2>5, <2>7
<1>16. Fills(t, bits, src, {})
  BY <1>3, <1>11, <1>12, <1>13, <1>14, <1>15 DEF Fills
<1>17. ASSUME NEW i \in 1 .. n
       PROVE  Holding(src, i)
  <2>1. CASE i <= m
    <3>1. i \in 1 .. l /\ i \in Nat
      BY <1>5
    <3>2. src[i] = i
      BY <1>10, <2>1, <3>1, ShiftFirst
    <3>3. QED
      BY <1>11, <3>1, <3>2 DEF Holding
  <2>2. CASE i > m
    <3>1. PICK p \in Nat : p = k + i
      OBVIOUS
    <3>2. r # 0 /\ p > m + k /\ p <= m + (k + r) /\ p \in 1 .. l /\ p - k = i
      BY <1>1, <1>4, <1>7, <2>2, <3>1
    <3>3. src[p] = i
      BY <1>10, <3>2, ShiftTail
    <3>4. QED
      BY <1>11, <3>2, <3>3 DEF Holding
  <2>3. QED
    BY <2>1, <2>2
<1>18. QED
  BY <1>3, <1>5, <1>13, <1>16, <1>17

\* The bits of a burst may be padded on the left only where the most significant bit of
\* a byte comes first: what is shifted is lost otherwise.
LeftMsbFirst == \A c \in Configs : c.stub = "LEFT" => ~c.lsb_first

\* The order may change after f of some bits.
MayChange(bits, f) == f \in Nat /\ (f # 0 => f < Len(Data(bits)) /\ Switched \in Configs)

LEMMA PackFills ==
  ASSUME config \in Configs, LeftMsbFirst, NEW bits \in Seq(Nat), NEW f, MayChange(bits, f)
  PROVE  /\ Len(packbuffer(bits, f)) = PackedLen(Len(bits))
         /\ \E src : /\ Fills(packbuffer(bits, f), bits, src, Lost(f, Len(bits)))
                     /\ \A i \in 1 .. Len(bits) : IsPacked(i, Len(bits)) =>
                          Holding(src, i) \/ i \in Lost(f, Len(bits))
<1>7. PICK d : d = Data(bits)
  OBVIOUS
<1>1. PICK n \in Nat :
        /\ d = Data(bits) /\ Len(d) = PackedLen(Len(bits)) /\ Starts(d, bits, n)
        /\ config.stub # "DROP" => n = Len(bits)
        /\ \A i \in 1 .. Len(bits) : IsPacked(i, Len(bits)) => i <= n
  BY <1>7, DataFacts
<1>2. f \in Nat /\ f <= Len(d) /\ Len(d) \in Nat
  BY <1>1 DEF MayChange, Starts
<1>3. /\ Len(Torn(d, f)) = Len(d)
      /\ \E src : /\ Fills(Torn(d, f), bits, src, Lost(f, Len(bits)))
                  /\ \A i \in 1 .. n : Holding(src, i) \/ i \in Lost(f, Len(bits))
  BY <1>1, <1>2, TornFills
<1>4. CASE config.stub # "LEFT"
  <2>1. packbuffer(bits, f) = Torn(d, f)
    BY <1>1, <1>4 DEF packbuffer
  <2>2. QED
    BY <1>1, <1>3, <2>1
<1>5. CASE config.stub = "LEFT"
  <2>1. ~config.lsb_first /\ config.lsb_first \in BOOLEAN
    BY <1>5, ConfigFacts DEF LeftMsbFirst
  <2>2. f = 0
    <3>1. SUFFICES ASSUME f # 0
                   PROVE  FALSE
      OBVIOUS
    <3>2. Switched \in Configs
      BY <3>1 DEF MayChange
    <3>3. config \in [stub : {"DROP", "RIGHT", "LEFT"}, lsb_first : BOOLEAN, vlen : Nat \ {0}]
      BY BitsAssumption
    <3>4. Switched.stub = "LEFT" /\ Switched.lsb_first = TRUE
      BY <1>5, <2>1, <3>3 DEF Switched
    <3>5. QED
      BY <3>2, <3>4 DEF LeftMsbFirst
  <2>3. Torn(d, 0) = d /\ Lost(0, Len(bits)) = {}
    <3>1. PICK b \in Nat \ {0} : b = Byte
      BY ConfigFacts
    <3>2. 0 % b = 0
      BY <3>1
    <3>3. Torn(d, 0) = [i \in 1 .. Len(d) |-> IF i <= 0 - (0 % Byte) \/ i > 0 THEN d[i]
                                             ELSE IF (2 * 0 - Byte) + 1 - i > 0 - (0 % Byte)
                                                  THEN d[(2 * 0 - Byte) + 1 - i] ELSE PAD]
      BY DEF Torn
    <3>4. \A i \in 1 .. Len(d) : i > 0
      OBVIOUS
    <3>5. Torn(d, 0) = [i \in 1 .. Len(d) |-> d[i]]
      BY <3>3, <3>4
    <3>6. d \in Seq(Content)
      BY <1>1 DEF Starts
    <3>7. Torn(d, 0) = d
      BY <3>5, <3>6
    <3>8. Lost(0, Len(bits)) = {}
      BY <3>1, <3>2 DEF Lost
    <3>9. QED
      BY <3>7, <3>8
  <2>4. packbuffer(bits, f) = ShiftLast(d, Len(bits), 0)
    BY <1>1, <1>5, <2>2, <2>3 DEF packbuffer
  <2>5. PackedLen(Len(bits)) = RoundUp(Len(bits), itemsize) /\ n = Len(bits)
    BY <1>1, <1>5 DEF PackedLen
  <2>6. /\ Len(ShiftLast(d, Len(bits), 0)) = Len(d)
        /\ \E src : /\ Fills(ShiftLast(d, Len(bits), 0), bits, src, {})
                    /\ \A i \in 1 .. Len(bits) : Holding(src, i)
    BY <1>1, <2>1, <2>5, LeftFills
  <2>7. QED
    BY <1>1, <2>2, <2>3, <2>4, <2>6
<1>6. QED
  BY <1>4, <1>5

LEMMA PackedLenFacts ==
  ASSUME config \in Configs, NEW n \in Nat
  PROVE  /\ PackedLen(n) \in Nat /\ MultipleOf(PackedLen(n), itemsize)
         /\ extra_bits \in Int => ExtraBits(n) = extra_bits + (PackedLen(n) - n)
<1>1. PICK z \in Nat \ {0} : z = itemsize
  BY ConfigFacts
<1>2. PICK r \in Nat, q \in Nat : r = n % z /\ r < z /\ n = q * z + r
  <2>1. PICK r \in Nat, q \in Nat : r = n % z /\ q = n \div z
    <3>1. n % z \in 0 .. z - 1
      BY Division
    <3>2. n \div z \in Nat
      BY Quotient
    <3>3. QED
      BY <3>1, <3>2
  <2>2. n = q * z + r /\ r < z
    <3>1. n % z \in 0 .. z - 1 /\ n = (n \div z) * z + (n % z)
      BY Division
    <3>2. r \in 0 .. z - 1 /\ n = q * z + r
      BY <2>1, <3>1
    <3>3. QED
      BY <3>2
  <2>3. QED
    BY <2>1, <2>2
<1>3. PICK m \in Nat, u \in Nat : m = q * z /\ u = (q + 1) * z /\ u = m + z
  OBVIOUS
<1>4. MultipleOf(m, z) /\ MultipleOf(u, z) /\ n = m + r
  BY <1>2, <1>3 DEF MultipleOf
<1>5. CASE config.stub = "DROP"
  <2>1. PackedLen(n) = m
    BY <1>1, <1>2, <1>4, <1>5 DEF PackedLen
  <2>2. ExtraBits(n) = IF r = 0 THEN extra_bits ELSE extra_bits - r
    BY <1>1, <1>2, <1>5 DEF ExtraBits
  <2>3. QED
    BY <1>1, <1>4, <2>1, <2>2
<1>6. CASE config.stub # "DROP"
  <2>1. PackedLen(n) = IF r = 0 THEN m ELSE u
    BY <1>1, <1>2, <1>3, <1>4, <1>6 DEF PackedLen, RoundUp
  <2>2. ExtraBits(n) = IF r = 0 THEN extra_bits ELSE extra_bits + (z - r)
    BY <1>1, <1>2, <1>6 DEF ExtraBits
  <2>3. QED
    BY <1>1, <1>3, <1>4, <2>1, <2>2
<1>7. QED
  BY <1>5, <1>6

\* The place among the bytes of a place of an item.
Flat(p, z) == (p[1] - 1) * z + p[2]

LEMMA FlatRange ==
  ASSUME NEW z \in Nat \ {0}, NEW c \in Nat, NEW p \in (1 .. c) \X (1 .. z)
  PROVE  /\ Flat(p, z) \in 1 .. c * z
         /\ (Flat(p, z) - 1) \div z = p[1] - 1
<1>1. PICK a \in 0 .. c - 1, x \in 0 .. z - 1 : a = p[1] - 1 /\ x = p[2] - 1
  <2>1. p[1] - 1 \in 0 .. c - 1 /\ p[2] - 1 \in 0 .. z - 1
    OBVIOUS
  <2>2. QED
    BY <2>1
<1>2. Flat(p, z) = a * z + (x + 1) /\ Flat(p, z) - 1 = a * z + x
  BY <1>1 DEF Flat
<1>3. a * z \in Nat /\ c * z \in Nat /\ a * z + z <= c * z
  <2>1. a * z + z = (a + 1) * z
    OBVIOUS
  <2>2. \A h \in Nat : (h + (a + 1)) * z = h * z + (a + 1) * z /\ h * z \in Nat /\ (a + 1) * z \in Nat
    OBVIOUS
  <2>3. c - (a + 1) \in Nat /\ (c - (a + 1)) + (a + 1) = c
    OBVIOUS
  <2>4. a * z \in Nat
    OBVIOUS
  <2>5. QED
    BY <2>1, <2>2, <2>3, <2>4
<1>4. Flat(p, z) \in 1 .. c * z
  BY <1>2, <1>3
<1>5. (a * z + x) \div z = a
  <2>1. a \in Int
    OBVIOUS
  <2>2. QED
    BY <2>1, DivMod
<1>6. QED
  BY <1>1, <1>2, <1>4, <1>5

LEMMA FlatOrder ==
  ASSUME NEW z \in Nat \ {0}, NEW c \in Nat, NEW p \in (1 .. c) \X (1 .. z),
         NEW q \in (1 .. c) \X (1 .. z), Before(p, q)
  PROVE  Flat(p, z) < Flat(q, z)
<1>1. PICK a \in Nat, b \in Nat, x \in 1 .. z, y \in 1 .. z :
        a = p[1] - 1 /\ b = q[1] - 1 /\ x = p[2] /\ y = q[2]
  <2>1. p[1] - 1 \in Nat /\ q[1] - 1 \in Nat /\ p[2] \in 1 .. z /\ q[2] \in 1 .. z
    OBVIOUS
  <2>2. QED
    BY <2>1
<1>2. a < b \/ (a = b /\ x < y)
  BY <1>1 DEF Before
<1>3. Flat(p, z) = a * z + x /\ Flat(q, z) = b * z + y
  BY <1>1 DEF Flat
<1>4. CASE a = b /\ x < y
  BY <1>3, <1>4
<1>5. CASE a < b
  <2>1. PICK h \in Nat : b = h + (a + 1)
    <3>1. b - (a + 1) \in Nat /\ b = (b - (a + 1)) + (a + 1)
      BY <1>5
    <3>2. QED
      BY <3>1
  <2>2. b * z = h * z + (a * z + z) /\ h * z \in Nat /\ a * z \in Nat
    BY <2>1
  <2>3. QED
    BY <1>3, <2>2
<1>6. QED
  BY <1>2, <1>4, <1>5

Placed(f, c, z) == \E p \in (1 .. c) \X (1 .. z) : Flat(p, z) = f

LEMMA FlatAll ==
  ASSUME NEW z \in Nat \ {0}, NEW c \in Nat, NEW f \in 1 .. c * z
  PROVE  Placed(f, c, z)
<1>1. f - 1 \in Nat
  OBVIOUS
<1>2. PICK a \in Nat, x \in 0 .. z - 1 : f - 1 = a * z + x
  <2>1. (f - 1) % z \in 0 .. z - 1 /\ f - 1 = ((f - 1) \div z) * z + ((f - 1) % z)
    BY <1>1, Division
  <2>2. (f - 1) \div z \in Nat
    BY <1>1, Quotient
  <2>3. QED
    BY <2>1, <2>2
<1>3. a < c
  <2>1. SUFFICES ASSUME a >= c
                 PROVE  FALSE
    OBVIOUS
  <2>2. PICK h \in Nat : a = h + c
    <3>1. a - c \in Nat /\ a = (a - c) + c
      BY <2>1
    <3>2. QED
      BY <3>1
  <2>3. a * z = h * z + c * z /\ h * z \in Nat /\ c * z \in Nat
    BY <2>2
  <2>4. QED
    BY <1>2, <2>3
<1>4. <<a + 1, x + 1>> \in (1 .. c) \X (1 .. z)
  BY <1>3
<1>5. Flat(<<a + 1, x + 1>>, z) = a * z + (x + 1)
  BY DEF Flat
<1>6. a * z + (x + 1) = f
  BY <1>2
<1>7. QED
  BY <1>4, <1>5, <1>6 DEF Placed

LEMMA ItemsFacts ==
  ASSUME config \in Configs, NEW bytes \in Seq(Content), MultipleOf(Len(bytes), itemsize)
  PROVE  /\ Items(bytes) \in Seq(Seq(Content)) /\ Len(Items(bytes)) * itemsize = Len(bytes)
         /\ \A j \in 1 .. Len(Items(bytes)) : Len(Items(bytes)[j]) = itemsize
         /\ \A p \in (1 .. Len(Items(bytes))) \X (1 .. itemsize) :
              Items(bytes)[p[1]][p[2]] = bytes[Flat(p, itemsize)]
<1>1. PICK z \in Nat \ {0}, c \in Nat : z = itemsize /\ Len(bytes) = c * z
  BY ConfigFacts DEF MultipleOf
<1>2. Len(bytes) \div z = c
  <2>1. (c * z + 0) \div z = c
    <3>1. c \in Int /\ 0 \in 0 .. z - 1
      OBVIOUS
    <3>2. QED
      BY <3>1, DivMod
  <2>2. c * z + 0 = c * z
    OBVIOUS
  <2>3. QED
    BY <1>1, <2>1, <2>2
<1>3. Items(bytes) = [i \in 1 .. c |-> SubSeq(bytes, (i - 1) * z + 1, i * z)]
  BY <1>1, <1>2 DEF Items
<1>4. ASSUME NEW j \in 1 .. c
      PROVE  /\ Items(bytes)[j] \in Seq(Content) /\ Len(Items(bytes)[j]) = z
             /\ \A k \in 1 .. z : Items(bytes)[j][k] = bytes[(j - 1) * z + k]
  <2>1. PICK a \in Nat : a = (j - 1) * z /\ a + z = j * z /\ a + z <= Len(bytes)
    <3>1. PICK b \in Nat, h \in Nat : b = j - 1 /\ c = h + j
      <4>1. j - 1 \in Nat /\ c - j \in Nat /\ c = (c - j) + j
        OBVIOUS
      <4>2. QED
        BY <4>1
    <3>2. b * z \in Nat /\ b * z + z = (b + 1) * z /\ b + 1 = j
      BY <3>1
    <3>3. c * z = h * z + j * z /\ h * z \in Nat /\ j * z \in Nat
      BY <3>1
    <3>4. b * z + z <= Len(bytes)
      BY <1>1, <3>2, <3>3
    <3>5. QED
      BY <3>1, <3>2, <3>4
  <2>2. Items(bytes)[j] = SubSeq(bytes, a + 1, a + z)
    BY <1>3, <2>1
  <2>3. z \in Nat
    OBVIOUS
  <2>4. QED
    BY <2>1, <2>2, <2>3, Part
<1>5. Items(bytes) \in Seq(Seq(Content)) /\ Len(Items(bytes)) = c
  <2>1. \A j \in 1 .. c : SubSeq(bytes, (j - 1) * z + 1, j * z) \in Seq(Content)
    BY <1>3, <1>4
  <2>2. PICK f : f = [i \in 1 .. c |-> SubSeq(bytes, (i - 1) * z + 1, i * z)]
    OBVIOUS
  <2>3. f \in [1 .. c -> Seq(Content)]
    BY <2>1, <2>2
  <2>4. Items(bytes) = f
    BY <1>3, <2>2
  <2> QED
    BY <2>3, <2>4
<1>6. ASSUME NEW p \in (1 .. c) \X (1 .. z)
      PROVE  Items(bytes)[p[1]][p[2]] = bytes[Flat(p, z)]
  BY <1>4 DEF Flat
<1>7. QED
  BY <1>1, <1>4, <1>5, <1>6

\* The places of some items.
PlacesOf(new) == (1 .. Len(new)) \X (1 .. itemsize)

\* What is at each place of some items is one of some bits, or padding: the bits are in
\* order, each in the item it would be in unpadded, and only those of a stub are missing,
\* but for the lost ones.
Laid(new, bits, src, lost) ==
  /\ new \in Seq(Seq(Content)) /\ Len(new) * itemsize = PackedLen(Len(bits))
  /\ \A j \in 1 .. Len(new) : Len(new[j]) = itemsize
  /\ src \in [PlacesOf(new) -> 0 .. Len(bits)]
  /\ \A p \in PlacesOf(new) : new[p[1]][p[2]] = IF src[p] = 0 THEN PAD ELSE bits[src[p]]
  /\ \A p, q \in PlacesOf(new) :
       Before(p, q) /\ src[p] # 0 /\ src[q] # 0 =>
         src[p] < src[q] \/ (src[p] \in lost /\ src[q] \in lost)
  /\ \A p \in PlacesOf(new) : src[p] # 0 => (src[p] - 1) \div itemsize = p[1] - 1
  /\ \A i \in 1 .. Len(bits) : IsPacked(i, Len(bits)) =>
       i \in lost \/ \E p \in PlacesOf(new) : src[p] = i

LEMMA NewItems ==
  ASSUME config \in Configs, LeftMsbFirst, NEW bits \in Seq(Nat), NEW f, MayChange(bits, f),
         NEW lost, lost = Lost(f, Len(bits))
  PROVE  \E src : Laid(Items(packbuffer(bits, f)), bits, src, lost)
<1>1. PICK bytes, from :
        /\ bytes = packbuffer(bits, f) /\ Len(bytes) = PackedLen(Len(bits))
        /\ Fills(bytes, bits, from, lost)
        /\ \A i \in 1 .. Len(bits) : IsPacked(i, Len(bits)) => Holding(from, i) \/ i \in lost
  BY PackFills
<1>2. Len(bits) \in Nat /\ bytes \in Seq(Content)
  BY <1>1 DEF Fills
<1>3. MultipleOf(Len(bytes), itemsize)
  BY <1>1, <1>2, PackedLenFacts
<1>4. PICK new : new = Items(bytes)
  OBVIOUS
<1>5. /\ new \in Seq(Seq(Content)) /\ Len(new) * itemsize = Len(bytes)
      /\ \A j \in 1 .. Len(new) : Len(new[j]) = itemsize
      /\ \A p \in PlacesOf(new) : new[p[1]][p[2]] = bytes[Flat(p, itemsize)]
  BY <1>2, <1>3, <1>4, ItemsFacts DEF PlacesOf
<1>6. PICK z \in Nat \ {0}, c \in Nat : z = itemsize /\ c = Len(new)
  BY <1>5, ConfigFacts
<1>7. PlacesOf(new) = (1 .. c) \X (1 .. z) /\ Len(bytes) = c * z
  BY <1>5, <1>6 DEF PlacesOf
<1>8. PICK src : src = [p \in PlacesOf(new) |-> from[Flat(p, z)]]
  OBVIOUS
<1>9. \A p \in PlacesOf(new) :
        /\ Flat(p, z) \in 1 .. Len(bytes) /\ (Flat(p, z) - 1) \div z = p[1] - 1
        /\ src[p] = from[Flat(p, z)] /\ src[p] \in 0 .. Len(bits)
  <2>1. \A p \in PlacesOf(new) : /\ Flat(p, z) \in 1 .. Len(bytes)
                                 /\ (Flat(p, z) - 1) \div z = p[1] - 1
    BY <1>7, FlatRange
  <2>2. from \in [1 .. Len(bytes) -> 0 .. Len(bits)]
    BY <1>1 DEF Fills
  <2>3. QED
    BY <1>8, <2>1, <2>2
<1>10. src \in [PlacesOf(new) -> 0 .. Len(bits)]
  BY <1>8, <1>9
<1>11. ASSUME NEW p \in PlacesOf(new)
       PROVE  new[p[1]][p[2]] = IF src[p] = 0 THEN PAD ELSE bits[src[p]]
  <2>1. \A g \in 1 .. Len(bytes) : bytes[g] = IF from[g] = 0 THEN PAD ELSE bits[from[g]]
    BY <1>1 DEF Fills
  <2>2. new[p[1]][p[2]] = bytes[Flat(p, z)]
    BY <1>5, <1>6
  <2>3. QED
    BY <1>9, <2>1, <2>2
<1>12. ASSUME NEW p \in PlacesOf(new), NEW q \in PlacesOf(new), Before(p, q), src[p] # 0, src[q] # 0
       PROVE  src[p] < src[q] \/ (src[p] \in lost /\ src[q] \in lost)
  <2>1. Flat(p, z) < Flat(q, z)
    BY <1>7, <1>12, FlatOrder
  <2>2. \A g, h \in 1 .. Len(bytes) :
          g < h /\ from[g] # 0 /\ from[h] # 0 =>
            from[g] < from[h] \/ (from[g] \in lost /\ from[h] \in lost)
    BY <1>1 DEF Fills
  <2>3. QED
    BY <1>9, <1>12, <2>1, <2>2
<1>13. ASSUME NEW p \in PlacesOf(new), src[p] # 0
       PROVE  (src[p] - 1) \div itemsize = p[1] - 1
  <2>1. \A g \in 1 .. Len(bytes) : from[g] # 0 => (from[g] - 1) \div itemsize = (g - 1) \div itemsize
    BY <1>1 DEF Fills
  <2>2. QED
    BY <1>6, <1>9, <1>13, <2>1
<1>14. ASSUME NEW i \in 1 .. Len(bits), IsPacked(i, Len(bits)), i \notin lost
       PROVE  \E p \in PlacesOf(new) : src[p] = i
  <2>1. PICK g \in DOMAIN from : from[g] = i
    BY <1>1, <1>14 DEF Holding
  <2>2. g \in 1 .. c * z
    BY <1>1, <1>7 DEF Fills
  <2>3. PICK p \in PlacesOf(new) : Flat(p, z) = g
    <3>1. Placed(g, c, z)
      BY <2>2, FlatAll
    <3>2. QED
      BY <1>7, <3>1 DEF Placed
  <2>4. QED
    BY <1>9, <2>1, <2>3
<1>15. Laid(new, bits, src, lost)
  BY <1>1, <1>5, <1>10, <1>11, <1>12, <1>13, <1>14 DEF Laid
<1>16. QED
  BY <1>1, <1>4, <1>15

(***************************************************************************)
(* The packer: its invariants.                                              *)
(***************************************************************************)
\* The smallest and the largest of some offsets.
LEMMA MinInSet ==
  ASSUME NEW S \in SUBSET Nat, S # {}
  PROVE  Min(S) \in S /\ \A x \in S : Min(S) <= x
<1> DEFINE R == OpToRel(<, Nat)
<1>1. PICK d \in S : \A e \in S : ~(<<e, d>> \in R)
  <2> HIDE DEF R
  <2>1. IsWellFoundedOn(R, Nat)
    BY NatLessThanWellFounded DEF R
  <2>2. QED
    BY <2>1, WFMin
<1>2. \A e \in S : ~(e < d)
  BY <1>1 DEF OpToRel
<1>3. \A x \in S : d <= x
  BY <1>2
<1>4. QED
  BY <1>3 DEF Min

LEMMA LargestOf ==
  ASSUME NEW n \in Nat, NEW S \in SUBSET (0 .. n), S # {}
  PROVE  \E x \in S : \A y \in S : y <= x
<1>1. PICK D : D = {n - x : x \in S}
  OBVIOUS
<1>2. D \in SUBSET Nat /\ D # {}
  <2>1. \A x \in S : n - x \in Nat
    OBVIOUS
  <2>2. QED
    BY <1>1, <2>1
<1>3. PICK d \in D : \A e \in D : d <= e
  BY <1>2, MinInSet
<1>4. PICK x \in S : d = n - x
  BY <1>1, <1>3
<1>5. ASSUME NEW y \in S
      PROVE  y <= x
  <2>1. n - x <= n - y
    BY <1>1, <1>3, <1>4
  <2>2. QED
    BY <2>1
<1>6. QED
  BY <1>5

\* What the gate's state and the tags in the buffer are.
MidTypes ==
  /\ flow \in BOOLEAN /\ consume \in BOOLEAN /\ nread \in 0 .. StreamLen
  /\ midTags \subseteq [at : Nat, tag : tags]

\* The items hold the bits read, those that were padded and not those that were
\* dropped: this is what the offsets of moved tags are computed from.
PackerTypes ==
  /\ config \in Configs /\ extra_bits \in Int /\ bitsRead \in 0 .. Len(mid)
  /\ items \in Seq(Seq(Content)) /\ Len(items) * itemsize = bitsRead + extra_bits
  /\ \A j \in 1 .. Len(items) : Len(items[j]) = itemsize
  /\ \A o \in outTags : o.at \in 0 .. Len(items) /\ o.bit \in 0 .. bitsRead - 1
  /\ \A x \in torn : \E i \in 1 .. bitsRead : x = mid[i]

\* A bit is within a vector in front of a burst tag.
InStub(i) == \E m \in midTags : m.tag.key = "BURST" /\ m.at >= i /\ m.at - i < itemsize

\* BitsPacked, bit by bit.
PlacedInv ==
  /\ \A p \in Places : Holds(p) => \E i \in 1 .. bitsRead : BitAt(p) = mid[i]
  /\ \A p, q \in Places : Holds(p) /\ Holds(q) /\ Before(p, q) =>
       BitAt(p) < BitAt(q) \/ (BitAt(p) \in torn /\ BitAt(q) \in torn)
  /\ \A i \in 1 .. bitsRead : \/ \E p \in Places : Holds(p) /\ BitAt(p) = mid[i]
                              \/ mid[i] \in torn
                              \/ config.stub = "DROP" /\ InStub(i)

\* The time kept is that of a time tag, or no time tag was read.
TimesInv ==
  \/ \E m \in midTags : /\ m.tag.key = "rx_time"
                        /\ last_rx_time.at = m.at /\ last_rx_time.time = RxTime(m)
  \/ \A m \in midTags : m.tag.key = "rx_time" => m.at >= bitsRead

PackingInv ==
  /\ GateInv /\ MidTypes /\ PackerTypes
  /\ PlacedInv /\ TagsOnTheirItems /\ TimesInv /\ BurstTimeTrue

\* The bits in the buffer are numbers, each of them once.
LEMMA MidFacts ==
  ASSUME GateInv
  PROVE  /\ mid \in Seq(Nat) /\ Len(mid) \in Nat
         /\ \A i \in 1 .. Len(mid) : mid[i] \in Nat
         /\ \A i, j \in 1 .. Len(mid) : i < j => mid[i] < mid[j]
         /\ \A i, j \in 1 .. Len(mid) : mid[i] = mid[j] => i = j
         /\ \A m \in midTags : m.at \in 0 .. Len(mid) - 1 /\ mid[m.at + 1] = m.tag.of
<1>1. /\ mid \in Seq(Nat) /\ Len(mid) \in Nat /\ \A i \in 1 .. Len(mid) : mid[i] \in Nat
  BY DEF GateInv, PassedInv
<1>2. \A i, j \in 1 .. Len(mid) : i < j => mid[i] < mid[j]
  BY DEF GateInv, TagsFollowSamples
<1>3. ASSUME NEW i \in 1 .. Len(mid), NEW j \in 1 .. Len(mid), mid[i] = mid[j]
      PROVE  i = j
  <2>1. mid[i] \in Nat /\ ~ (mid[i] < mid[i])
    BY <1>1
  <2>2. ~ (i < j) /\ ~ (j < i)
    BY <1>2, <1>3, <2>1
  <2>3. QED
    BY <1>1, <2>2
<1>4. \A m \in midTags : m.at \in 0 .. Len(mid) - 1 /\ mid[m.at + 1] = m.tag.of
  BY DEF GateInv, TagsFollowSamples
<1>5. QED
  BY <1>1, <1>2, <1>3, <1>4

LEMMA BitsPackedForm ==
  ASSUME GateInv, PackerTypes
  PROVE  PlacedInv => BitsPacked
<1>1. PICK came : came = SubSeq(mid, 1, bitsRead)
  OBVIOUS
<1>2. came \in Seq(Nat) /\ Len(came) = bitsRead /\ \A i \in 1 .. bitsRead : came[i] = mid[i]
  <2>1. mid \in Seq(Nat) /\ bitsRead \in Nat /\ 0 + bitsRead <= Len(mid) /\ 0 + 1 = 1
        /\ 0 + bitsRead = bitsRead
    BY MidFacts DEF PackerTypes
  <2>2. /\ SubSeq(mid, 0 + 1, 0 + bitsRead) \in Seq(Nat)
        /\ Len(SubSeq(mid, 0 + 1, 0 + bitsRead)) = bitsRead
        /\ \A i \in 1 .. bitsRead : SubSeq(mid, 0 + 1, 0 + bitsRead)[i] = mid[0 + i]
    BY <2>1, Part
  <2>3. \A i \in 1 .. bitsRead : 0 + i = i
    BY <2>1
  <2>4. QED
    BY <1>1, <2>1, <2>2, <2>3
<1>3. ToSet(came) = {mid[i] : i \in 1 .. bitsRead}
  BY <1>2 DEF ToSet
<1>4. ASSUME PlacedInv
      PROVE  /\ Packed \subseteq ToSet(came)
             /\ \A i \in 1 .. bitsRead :
                  came[i] \in Packed \union torn \/ (config.stub = "DROP" /\ InStub(i))
  <2>1. Packed \subseteq ToSet(came)
    BY <1>3, <1>4 DEF PlacedInv, Packed
  <2>2. \A i \in 1 .. bitsRead :
          came[i] \in Packed \union torn \/ (config.stub = "DROP" /\ InStub(i))
    BY <1>2, <1>4 DEF PlacedInv, Packed
  <2>3. QED
    BY <2>1, <2>2
<1>5. QED
  BY <1>1, <1>4 DEF BitsPacked, PlacedInv, InStub

LEMMA TypesForm ==
  ASSUME GateInv, MidTypes, PackerTypes
  PROVE  TypeOK
<1>1. tags \in TagSets /\ flow \in BOOLEAN /\ consume \in BOOLEAN /\ nread \in 0 .. StreamLen
  BY DEF GateInv, PassedInv, MidTypes
<1>2. dropped \in 0 .. nread /\ Len(mid) <= nread
  BY DEF GateInv, PassedInv
<1>3. StreamLen \in Nat
  BY GateAssumption
<1>4. mid \in Seq(0 .. StreamLen - 1)
  <2>1. mid \in Seq(Nat) /\ \A i \in 1 .. Len(mid) : mid[i] \in Nat /\ mid[i] < nread
    BY MidFacts DEF GateInv, PassedInv
  <2>2. \A x \in Nat : x < nread => x \in 0 .. StreamLen - 1
    BY <1>1, <1>3
  <2>3. \A i \in 1 .. Len(mid) : mid[i] \in 0 .. StreamLen - 1
    BY <2>1, <2>2
  <2>8. PICK k \in Nat : k = Len(mid)
    BY <2>1
  <2>4. PICK C : C = 0 .. StreamLen - 1
    OBVIOUS
  <2>5. mid \in [1 .. k -> C]
    BY <2>1, <2>3, <2>4, <2>8
  <2>6. mid \in Seq(C)
    BY <2>5
  <2>7. QED
    BY <2>4, <2>6
<1>5. midTags \subseteq [at : 0 .. nread, tag : Tag]
  <2>1. ASSUME NEW m \in midTags
        PROVE  m \in [at : 0 .. nread, tag : Tag]
    <3>1. m \in [at : Nat, tag : tags] /\ m.at \in 0 .. Len(mid) - 1
      BY MidFacts DEF MidTypes
    <3>2. m.at \in 0 .. nread
      BY <1>1, <1>2, <3>1, MidFacts
    <3>3. m.tag \in Tag
      BY <1>1, <3>1 DEF Tag
    <3>4. QED
      BY <3>1, <3>2, <3>3
  <2>2. QED
    BY <2>1
<1>6. torn \subseteq ToSet(mid)
  <2>1. Len(mid) \in Nat /\ bitsRead \in 0 .. Len(mid) /\ DOMAIN mid = 1 .. Len(mid)
    BY MidFacts DEF PackerTypes
  <2>2. \A i \in 1 .. bitsRead : i \in 1 .. Len(mid)
    BY <2>1
  <2>3. \A x \in torn : \E i \in 1 .. bitsRead : x = mid[i]
    BY DEF PackerTypes
  <2>4. QED
    BY <2>1, <2>2, <2>3 DEF ToSet
<1>7. QED
  BY <1>1, <1>2, <1>4, <1>5, <1>6 DEF TypeOK, PackerTypes

LEMMA PackingImplies == PackingInv => PackerInv
BY BitsPackedForm, TypesForm DEF PackingInv, PackerInv

(***************************************************************************)
(* The packer: a call of the gate.                                          *)
(***************************************************************************)
\* What a call of the gate leaves as it is of what the packer has read.
LEMMA FlowAppends ==
  ASSUME GateInv, MidTypes, NEW n \in Nat, nread + n <= StreamLen, Flow(n)
  PROVE  /\ MidTypes'
         /\ Len(mid) <= Len(mid') /\ \A i \in 1 .. Len(mid) : mid'[i] = mid[i]
         /\ midTags \subseteq midTags' /\ \A m \in midTags' : m.at < Len(mid) => m \in midTags
<1>1. /\ nread \in Nat /\ dropped \in Nat /\ Len(mid) \in Nat /\ nread = Len(mid) + dropped
      /\ tags \in TagSets /\ tags' = tags /\ StreamLen \in Nat /\ nread' = nread + n
      /\ flow' = flow /\ consume' = consume
  BY GateAssumption DEF GateInv, PassedInv, Flow
<1>2. Len(mid') = Len(mid) + n /\ \A i \in 1 .. Len(mid) : mid'[i] = mid[i]
  BY Appended DEF GateInv
<1>3. midTags' = midTags \union {Moved(t) : t \in GateWindow(n)}
  BY DEF Flow
<1>4. ASSUME NEW t \in GateWindow(n)
      PROVE  t \in tags /\ Moved(t) \in [at : Nat, tag : tags] /\ Moved(t).at >= Len(mid)
  <2>1. t \in tags /\ t.of \in nread .. nread + n - 1 /\ t.of \in Nat
    BY <1>1, TagOffsets DEF GateWindow
  <2>2. t.of - dropped \in Nat /\ t.of - dropped >= Len(mid)
    BY <1>1, <2>1
  <2>3. QED
    BY <2>1, <2>2 DEF Moved
<1>5. midTags' \subseteq [at : Nat, tag : tags]
  BY <1>3, <1>4 DEF MidTypes
<1>6. MidTypes'
  BY <1>1, <1>5 DEF MidTypes
<1>7. ASSUME NEW m \in midTags', m.at < Len(mid)
      PROVE  m \in midTags
  <2>1. SUFFICES ASSUME m \notin midTags
                 PROVE  FALSE
    OBVIOUS
  <2>2. PICK t \in GateWindow(n) : m = Moved(t)
    BY <1>3, <2>1
  <2>3. m.at >= Len(mid) /\ m.at \in Nat
    BY <1>4, <2>2
  <2>4. QED
    BY <1>1, <1>7, <2>3
<1>8. QED
  BY <1>1, <1>2, <1>3, <1>6, <1>7

\* From one bit to a later one there are at least as many at the source.
LEMMA Spread ==
  ASSUME NEW s, NEW n \in Nat, \A i \in 1 .. n : s[i] \in Nat,
         \A i, j \in 1 .. n : i < j => s[i] < s[j],
         NEW a \in 1 .. n
  PROVE  \A b \in a .. n : s[b] - s[a] >= b - a
<1>1. PICK S : S = {b \in a .. n : ~ (s[b] - s[a] >= b - a)}
  OBVIOUS
<1>2. SUFFICES ASSUME S # {}
               PROVE  FALSE
  BY <1>1
<1>3. S \in SUBSET Nat
  BY <1>1
<1>4. PICK b \in S : \A x \in S : b <= x
  BY <1>2, <1>3, MinInSet
<1>5. b \in a .. n /\ b \in 1 .. n /\ s[b] \in Nat /\ s[a] \in Nat /\ ~ (s[b] - s[a] >= b - a)
  BY <1>1
<1>6. b # a
  BY <1>5
<1>7. b - 1 \in a .. n /\ b - 1 \in 1 .. n /\ b - 1 < b
  BY <1>5, <1>6
<1>8. b - 1 \notin S
  <2>1. ~ (b <= b - 1)
    BY <1>5
  <2>2. QED
    BY <1>4, <2>1
<1>9. s[b - 1] \in Nat /\ s[b - 1] < s[b] /\ s[b - 1] - s[a] >= (b - 1) - a
  BY <1>1, <1>5, <1>7, <1>8
<1>10. QED
  BY <1>5, <1>9

\* If in all there are no more, there are no more from any bit to any other.
LEMMA NoGap ==
  ASSUME NEW s, NEW n \in Nat, \A i \in 1 .. n : s[i] \in Nat,
         \A i, j \in 1 .. n : i < j => s[i] < s[j],
         NEW a \in 1 .. n, NEW c \in a .. n, s[c] - s[a] = c - a, NEW b \in a .. c
  PROVE  s[b] - s[a] = b - a
<1>1. b \in a .. n /\ b \in 1 .. n /\ c \in b .. n /\ c \in 1 .. n
  OBVIOUS
<1>2. s[b] - s[a] >= b - a
  BY <1>1, Spread
<1>3. s[c] - s[b] >= c - b
  BY <1>1, Spread
<1>4. s[a] \in Nat /\ s[b] \in Nat /\ s[c] \in Nat
  BY <1>1
<1>5. QED
  BY <1>2, <1>3, <1>4

\* In terms of the buffer: a bit left the source as long after the first of some bits as
\* it follows it.
LEMMA GapFacts ==
  ASSUME NEW s, NEW n \in Nat, \A i \in 1 .. n : s[i] \in Nat,
         \A i, j \in 1 .. n : i < j => s[i] < s[j],
         NEW T, T \subseteq 0 .. n - 1, T # {}, s[n] - s[Min(T) + 1] = (n - 1) - Min(T)
  PROVE  /\ Min(T) \in T /\ Min(T) \in 0 .. n - 1 /\ \A t \in T : Min(T) <= t
         /\ \A i \in Min(T) .. n - 1 : s[i + 1] - s[Min(T) + 1] = i - Min(T)
<1>1. T \in SUBSET Nat
  OBVIOUS
<1>2. PICK a \in Nat : a = Min(T) /\ a \in T /\ \A t \in T : a <= t
  BY <1>1, MinInSet
<1>3. a \in 0 .. n - 1 /\ a + 1 \in 1 .. n /\ n \in (a + 1) .. n
  BY <1>2
<1>4. s[n] - s[a + 1] = n - (a + 1)
  <2>1. (n - 1) - a = n - (a + 1)
    OBVIOUS
  <2>2. QED
    BY <1>2, <2>1
<1>5. ASSUME NEW i \in a .. n - 1
      PROVE  s[i + 1] - s[a + 1] = i - a
  <2>1. i + 1 \in (a + 1) .. n
    BY <1>3
  <2>2. s[i + 1] - s[a + 1] = (i + 1) - (a + 1)
    BY <1>3, <1>4, <2>1, NoGap
  <2>3. (i + 1) - (a + 1) = i - a
    OBVIOUS
  <2>4. QED
    BY <2>2, <2>3
<1>6. QED
  BY <1>2, <1>3, <1>5

\* Burst times stay true as the buffer fills.
LEMMA FlowBurstTime ==
  ASSUME GateInv, MidTypes, PackerTypes, BurstTimeTrue, GateInv', MidTypes',
         outTags' = outTags,
         Len(mid) <= Len(mid'), \A i \in 1 .. Len(mid) : mid'[i] = mid[i],
         midTags \subseteq midTags', \A m \in midTags' : m.at < Len(mid) => m \in midTags
  PROVE  BurstTimeTrue'
<1>1. SUFFICES ASSUME Gapless', NEW o \in outTags, o.key = "burst_time", o.bit >= Min(Timed')
               PROVE  o.time = Epoch + mid'[o.bit + 1]
  BY DEF BurstTimeTrue
<1>2. /\ Min(Timed') \in Timed' /\ Min(Timed') \in 0 .. Len(mid') - 1
      /\ \A t \in Timed' : Min(Timed') <= t
      /\ \A i \in Min(Timed') .. Len(mid') - 1 :
           mid'[i + 1] - mid'[Min(Timed') + 1] = i - Min(Timed')
  <2>1. PICK s, n, T : s = mid' /\ n = Len(mid') /\ T = Timed'
    OBVIOUS
  <2>2. n \in Nat /\ \A i \in 1 .. n : s[i] \in Nat
    BY <2>1 DEF GateInv, PassedInv
  <2>3. \A i, j \in 1 .. n : i < j => s[i] < s[j]
    BY <2>1 DEF GateInv, TagsFollowSamples
  <2>4. T \subseteq 0 .. n - 1
    <3>1. \A m \in midTags' : m.at \in 0 .. Len(mid') - 1
      BY DEF GateInv, TagsFollowSamples
    <3>2. QED
      BY <2>1, <3>1 DEF Timed
  <2>5. T # {} /\ s[n] - s[Min(T) + 1] = (n - 1) - Min(T)
    BY <1>1, <2>1 DEF Gapless
  <2>6. QED
    BY <2>1, <2>2, <2>3, <2>4, <2>5, GapFacts
<1>3. PICK a \in Nat : a = Min(Timed')
  BY <1>2, MidFacts DEF GateInv, PassedInv
<1>4. Len(mid) \in Nat /\ Len(mid') \in Nat /\ bitsRead \in 0 .. Len(mid) /\ o.bit \in 0 .. bitsRead - 1
  BY DEF GateInv, PassedInv, PackerTypes
<1>5. o.bit \in 0 .. Len(mid) - 1 /\ o.bit + 1 \in 1 .. Len(mid) /\ a <= o.bit
  BY <1>1, <1>3, <1>4
<1>6. a < Len(mid) /\ a + 1 \in 1 .. Len(mid)
  BY <1>3, <1>4, <1>5
<1>7. a \in Timed /\ \A t \in Timed : a <= t
  <2>1. PICK m \in midTags' : m.tag.key = "rx_time" /\ m.at = a
    BY <1>2, <1>3 DEF Timed
  <2>2. m \in midTags
    BY <1>6, <2>1
  <2>3. Timed \subseteq Timed'
    BY DEF Timed
  <2>4. QED
    BY <1>2, <1>3, <2>1, <2>2, <2>3 DEF Timed
<1>8. Min(Timed) = a
  <2>1. Timed \in SUBSET Nat /\ Timed # {}
    BY <1>7 DEF Timed, MidTypes
  <2>2. Min(Timed) \in Timed /\ Min(Timed) <= a
    BY <1>7, <2>1, MinInSet
  <2>3. Min(Timed) \in Nat /\ a <= Min(Timed)
    BY <1>7, <2>1, <2>2
  <2>4. QED
    BY <2>2, <2>3
<1>9. mid[Len(mid)] - mid[a + 1] = (Len(mid) - 1) - a
  <2>1. PICK n \in Nat, l \in Nat : n = Len(mid) /\ l = Len(mid')
    BY <1>4
  <2>2. n \in 1 .. n /\ n - 1 \in a .. l - 1 /\ (n - 1) + 1 = n /\ a + 1 \in 1 .. n
    BY <1>4, <1>5, <1>6, <2>1
  <2>3. mid'[(n - 1) + 1] - mid'[a + 1] = (n - 1) - a
    BY <1>2, <1>3, <2>1, <2>2
  <2>4. mid'[n] = mid[n] /\ mid'[a + 1] = mid[a + 1]
    BY <2>1, <2>2
  <2>5. QED
    BY <2>1, <2>2, <2>3, <2>4
<1>10. Gapless
  BY <1>7, <1>8, <1>9 DEF Gapless
<1>11. o.time = Epoch + mid[o.bit + 1]
  BY <1>1, <1>3, <1>8, <1>10 DEF BurstTimeTrue
<1>12. QED
  BY <1>5, <1>11

\* A call of the gate keeps what is known of the packer.
LEMMA FlowPacker ==
  ASSUME PackingInv, NEW n \in Nat, nread + n <= StreamLen, Flow(n), UNCHANGED bitsVars
  PROVE  PackingInv'
<1>1. /\ GateInv /\ MidTypes /\ PackerTypes
      /\ PlacedInv /\ TagsOnTheirItems /\ TimesInv /\ BurstTimeTrue
  BY DEF PackingInv
<1>2. /\ config' = config /\ extra_bits' = extra_bits /\ last_rx_time' = last_rx_time
      /\ bitsRead' = bitsRead /\ items' = items /\ outTags' = outTags /\ torn' = torn
  BY DEF bitsVars
<1>3. GateInv'
  BY <1>1, FlowKeeps
<1>4. /\ MidTypes'
      /\ Len(mid) <= Len(mid') /\ \A i \in 1 .. Len(mid) : mid'[i] = mid[i]
      /\ midTags \subseteq midTags' /\ \A m \in midTags' : m.at < Len(mid) => m \in midTags
  BY <1>1, FlowAppends
<1>5. /\ Len(mid) \in Nat /\ Len(mid') \in Nat /\ bitsRead \in 0 .. Len(mid)
      /\ \A i \in 1 .. bitsRead : i \in 1 .. Len(mid) /\ i \in 1 .. Len(mid') /\ mid'[i] = mid[i]
  <2>1. Len(mid) \in Nat /\ Len(mid') \in Nat
    BY <1>1, <1>3, MidFacts DEF GateInv, PassedInv
  <2>2. bitsRead \in 0 .. Len(mid)
    BY <1>1 DEF PackerTypes
  <2>3. \A i \in 1 .. bitsRead : i \in 1 .. Len(mid) /\ i \in 1 .. Len(mid')
    BY <1>4, <2>1, <2>2
  <2>4. QED
    BY <1>4, <2>1, <2>2, <2>3
<1>6. PackerTypes'
  <2>1. itemsize' = itemsize
    BY <1>2 DEF itemsize
  <2>2. bitsRead \in 0 .. Len(mid')
    BY <1>4, <1>5
  <2>3. QED
    <3>1. \A x \in torn' : \E i \in 1 .. bitsRead' : x = mid'[i]
      BY <1>1, <1>2, <1>5 DEF PackerTypes
    <3>2. QED
      BY <1>1, <1>2, <2>1, <2>2, <3>1 DEF PackerTypes
<1>7. /\ itemsize' = itemsize /\ Places' = Places
      /\ \A p : Holds(p)' = Holds(p) /\ BitAt(p)' = BitAt(p)
  <2>1. itemsize' = itemsize
    BY <1>2 DEF itemsize
  <2>2. Places' = Places
    BY <1>2, <2>1 DEF Places
  <2>3. QED
    BY <1>2, <2>1, <2>2 DEF Holds, BitAt
<1>8. PlacedInv'
  <2>1. \A p \in Places' : Holds(p)' => \E i \in 1 .. bitsRead' : BitAt(p)' = mid'[i]
    BY <1>1, <1>2, <1>5, <1>7 DEF PlacedInv
  <2>2. \A p, q \in Places' : Holds(p)' /\ Holds(q)' /\ Before(p, q) =>
          BitAt(p)' < BitAt(q)' \/ (BitAt(p)' \in torn' /\ BitAt(q)' \in torn')
    BY <1>1, <1>2, <1>7 DEF PlacedInv
  <2>3. ASSUME NEW i \in 1 .. bitsRead'
        PROVE  \/ \E p \in Places' : Holds(p)' /\ BitAt(p)' = mid'[i]
               \/ mid'[i] \in torn'
               \/ config'.stub = "DROP" /\ InStub(i)'
    <3>1. i \in 1 .. bitsRead /\ mid'[i] = mid[i]
      BY <1>2, <1>5
    <3>2. InStub(i) => InStub(i)'
      BY <1>4, <1>7 DEF InStub
    <3>3. \/ \E p \in Places : Holds(p) /\ BitAt(p) = mid[i]
          \/ mid[i] \in torn
          \/ config.stub = "DROP" /\ InStub(i)
      BY <1>1, <3>1 DEF PlacedInv
    <3>4. QED
      BY <1>2, <1>7, <3>1, <3>2, <3>3
  <2>4. QED
    BY <2>1, <2>2, <2>3 DEF PlacedInv, Before
<1>9. TagsOnTheirItems'
  <2>1. ASSUME NEW p \in Places, NEW m \in midTags', Holds(p), mid'[m.at + 1] = BitAt(p)
        PROVE  m \in midTags /\ mid[m.at + 1] = BitAt(p)
    <3>1. PICK i \in 1 .. bitsRead : BitAt(p) = mid[i]
      BY <1>1, <2>1 DEF PlacedInv
    <3>2. m.at \in 0 .. Len(mid') - 1
      BY <1>3, MidFacts DEF GateInv, TagsFollowSamples
    <3>3. m.at + 1 \in 1 .. Len(mid') /\ m.at \in Int
      BY <1>5, <3>2
    <3>4. \A k, j \in 1 .. Len(mid') : mid'[k] = mid'[j] => k = j
      <4>1. ASSUME GateInv'
            PROVE  \A k, j \in 1 .. Len(mid') : k < j => mid'[k] < mid'[j]
        BY <4>1 DEF GateInv, TagsFollowSamples
      <4>2. \A k \in 1 .. Len(mid') : mid'[k] \in Nat
        BY <1>3 DEF GateInv, PassedInv
      <4>3. QED
        BY <1>3, <1>5, <4>1, <4>2
    <3>5. m.at + 1 = i
      BY <1>5, <2>1, <3>1, <3>3, <3>4
    <3>6. m.at < Len(mid)
      BY <1>5, <3>2, <3>3, <3>5
    <3>7. m \in midTags
      BY <1>4, <3>6
    <3>8. QED
      BY <3>1, <3>5, <3>7
  <2>2. QED
    BY <1>1, <1>2, <1>7, <2>1 DEF TagsOnTheirItems
<1>10. TimesInv'
  <2>1. CASE \E m \in midTags : /\ m.tag.key = "rx_time"
                                /\ last_rx_time.at = m.at /\ last_rx_time.time = RxTime(m)
    BY <1>2, <1>4, <2>1 DEF TimesInv, RxTime
  <2>2. CASE \A m \in midTags : m.tag.key = "rx_time" => m.at >= bitsRead
    <3>1. ASSUME NEW m \in midTags', m.tag.key = "rx_time"
          PROVE  m.at >= bitsRead
      <4>1. m.at \in Nat
        BY <1>4 DEF MidTypes
      <4>2. CASE m.at < Len(mid)
        BY <1>4, <2>2, <3>1, <4>2
      <4>3. CASE ~ (m.at < Len(mid))
        BY <1>5, <4>1, <4>3
      <4>4. QED
        BY <4>2, <4>3
    <3>2. QED
      BY <1>2, <3>1 DEF TimesInv
  <2>3. QED
    BY <1>1, <2>1, <2>2 DEF TimesInv
<1>11. BurstTimeTrue'
  BY <1>1, <1>2, <1>3, <1>4, <1>5, FlowBurstTime
<1>12. QED
  BY <1>3, <1>4, <1>6, <1>8, <1>9, <1>10, <1>11 DEF PackingInv

\* What the gate does without passing samples keeps it too.
LEMMA GatePacker ==
  ASSUME PackingInv, GateNext, UNCHANGED bitsVars
  PROVE  PackingInv'
<1>1. GateInv'
  BY GateInvStep DEF PackingInv
<1>2. /\ tags' = tags /\ flow \in BOOLEAN /\ consume \in BOOLEAN /\ nread \in 0 .. StreamLen
      /\ StreamLen \in Nat /\ midTags \subseteq [at : Nat, tag : tags]
  BY GateAssumption DEF PackingInv, MidTypes, GateNext, set_flow_data, set_consume_data, Gate, Flow, Drop
<1>3. ASSUME flow' \in BOOLEAN, consume' \in BOOLEAN, nread' \in 0 .. StreamLen,
             mid' = mid, midTags' = midTags
      PROVE  PackingInv'
  <2>1. MidTypes'
    BY <1>2, <1>3 DEF MidTypes
  <2>2. itemsize' = itemsize /\ PackerTypes'
    BY <1>3 DEF PackingInv, PackerTypes, bitsVars, itemsize
  <2>3. Places' = Places /\ \A p : Holds(p)' = Holds(p) /\ BitAt(p)' = BitAt(p)
    BY <2>2 DEF bitsVars, Places, Holds, BitAt
  <2>4. PlacedInv'
    <3>1. \A i : InStub(i)' = InStub(i)
      BY <1>3, <2>2 DEF InStub
    <3>2. config' = config /\ bitsRead' = bitsRead /\ torn' = torn /\ PlacedInv
      BY DEF PackingInv, bitsVars
    <3>3. QED
      BY <1>3, <2>3, <3>1, <3>2 DEF PlacedInv
  <2>5. TagsOnTheirItems'
    BY <1>3, <2>3 DEF PackingInv, TagsOnTheirItems, bitsVars
  <2>6. TimesInv'
    BY <1>3 DEF PackingInv, TimesInv, bitsVars, RxTime
  <2>7. BurstTimeTrue'
    BY <1>3 DEF PackingInv, BurstTimeTrue, bitsVars, Gapless, Timed
  <2>8. QED
    BY <1>1, <2>1, <2>2, <2>4, <2>5, <2>6, <2>7 DEF PackingInv
<1>4. CASE set_flow_data
  <2>1. flow' \in BOOLEAN /\ consume' = consume /\ nread' = nread /\ mid' = mid /\ midTags' = midTags
    BY <1>4 DEF set_flow_data
  <2>2. QED
    BY <1>2, <1>3, <2>1
<1>5. CASE set_consume_data
  <2>1. consume' \in BOOLEAN /\ flow' = flow /\ nread' = nread /\ mid' = mid /\ midTags' = midTags
    BY <1>5 DEF set_consume_data
  <2>2. QED
    BY <1>2, <1>3, <2>1
<1>6. CASE Gate
  <2>1. PICK n \in 1 .. StreamLen - nread : Flow(n) \/ Drop(n)
    BY <1>6 DEF Gate
  <2>2. n \in Nat /\ nread + n <= StreamLen /\ nread + n \in 0 .. StreamLen
    BY <1>2
  <2>3. CASE Flow(n)
    BY <2>2, <2>3, FlowPacker
  <2>4. CASE Drop(n)
    <3>1. consume' = consume /\ flow' = flow /\ nread' = nread + n /\ mid' = mid /\ midTags' = midTags
      BY <2>4 DEF Drop
    <3>2. QED
      BY <1>2, <1>3, <2>2, <3>1
  <2>5. QED
    BY <2>1, <2>3, <2>4
<1>7. QED
  BY <1>4, <1>5, <1>6 DEF GateNext

(***************************************************************************)
(* The packer: a call of its own.                                           *)
(***************************************************************************)
\* How many bits a call takes: whole items, or all up to the next burst tag; no burst tag
\* is inside them.
LEMMA WorkWindow ==
  ASSUME GateInv, MidTypes, PackerTypes
  PROVE  /\ WholeItems \in 0 .. Len(mid) - bitsRead /\ RelOffset \in 0 .. WholeItems
         /\ RelOffset % itemsize = 0
              \/ \E m \in midTags : m.tag.key = "BURST" /\ m.at = bitsRead + RelOffset
         /\ \A m \in Window(RelOffset) : m.tag.key = "BURST" => m.at = bitsRead
<1>1. PICK z \in Nat \ {0}, k \in Nat, b \in Nat : z = itemsize /\ b = bitsRead /\ k = Len(mid) - b /\ k = NInput
  <2>1. Len(mid) \in Nat /\ bitsRead \in 0 .. Len(mid) /\ itemsize \in Nat \ {0}
    BY ConfigFacts, MidFacts DEF PackerTypes
  <2>2. Len(mid) - bitsRead \in Nat /\ bitsRead \in Nat
    BY <2>1
  <2>3. QED
    BY <2>1, <2>2 DEF NInput
<1>2. PICK w \in Nat : w = WholeItems /\ w <= k /\ MultipleOf(w, z) /\ w % z = 0
  <2>1. PICK r \in Nat, q \in Nat : r = k % z /\ q = k \div z
    <3>1. k % z \in 0 .. z - 1
      BY Division
    <3>2. k \div z \in Nat
      BY Quotient
    <3>3. QED
      BY <3>1, <3>2
  <2>2. k = q * z + r
    <3>1. k = (k \div z) * z + (k % z)
      BY Division
    <3>2. QED
      BY <2>1, <3>1
  <2>3. PICK w \in Nat : w = q * z
    OBVIOUS
  <2>4. w = k - r /\ w <= k
    BY <2>2, <2>3
  <2>5. w % z = 0
    <3>1. q \in Int /\ 0 \in 0 .. z - 1 /\ q * z + 0 = w
      BY <2>3
    <3>2. (q * z + 0) % z = 0
      BY <3>1, DivMod
    <3>3. QED
      BY <3>1, <3>2
  <2>6. WholeItems = w
    BY <1>1, <2>1, <2>4 DEF WholeItems
  <2>7. QED
    BY <2>3, <2>4, <2>5, <2>6 DEF MultipleOf
<1>3. PICK ts : ts = Keyed("BURST", WholeItems)
  OBVIOUS
<1>4. \A m : m \in ts <=> /\ m \in midTags /\ m.at \in b .. b + w - 1 /\ m.tag.key = "BURST"
  BY <1>1, <1>2, <1>3 DEF Keyed, Window
<1>5. PICK next : next = NextBurst(ts)
  OBVIOUS
<1>6. \A m \in midTags : m.at \in Nat
  BY DEF MidTypes
<1>7. next = {b} \/ next = {m.at : m \in {u \in ts : u.at # b}}
  <2>1. NextBurst(ts) = {bitsRead}
        \/ NextBurst(ts) = {m.at : m \in ts \ {u \in ts : u.at = bitsRead}}
    BY DEF NextBurst
  <2>2. ts \ {u \in ts : u.at = bitsRead} = {u \in ts : u.at # b}
    BY <1>1
  <2>3. QED
    BY <1>1, <1>5, <2>1, <2>2
<1>8. PICK n : n = RelOffset /\ n = IF next = {} THEN w ELSE Min(next) - b
  BY <1>1, <1>2, <1>3, <1>5 DEF RelOffset
<1>9. CASE next = {b}
  <2>1. Min(next) = b
    <3>1. next \in SUBSET Nat /\ next # {}
      BY <1>9
    <3>2. QED
      BY <1>9, <3>1, MinInSet
  <2>2. n = 0
    BY <1>8, <1>9, <2>1
  <2>3. n % z = 0
    <3>1. (0 * z + 0) % z = 0
      <4>1. 0 \in Int /\ 0 \in 0 .. z - 1
        OBVIOUS
      <4>2. QED
        BY <4>1, DivMod
    <3>2. QED
      BY <2>2, <3>1
  <2>4. Window(RelOffset) = {}
    BY <1>1, <1>8, <2>2 DEF Window
  <2>5. QED
    BY <1>1, <1>2, <1>8, <2>2, <2>3, <2>4
<1>10. CASE next = {m.at : m \in {u \in ts : u.at # b}}
  <2>1. CASE next = {}
    <3>1. n = w
      BY <1>8, <2>1
    <3>2. \A m \in ts : m.at = b
      BY <1>10, <2>1
    <3>3. \A m \in Window(RelOffset) : m.tag.key = "BURST" => m \in ts
      BY <1>1, <1>4, <1>8, <3>1 DEF Window
    <3>4. QED
      BY <1>1, <1>2, <1>8, <3>1, <3>2, <3>3
  <2>2. CASE next # {}
    <3>1. next \in SUBSET Nat
      BY <1>4, <1>6, <1>10
    <3>2. Min(next) \in next /\ \A x \in next : Min(next) <= x
      BY <2>2, <3>1, MinInSet
    <3>3. PICK m \in ts : m.at # b /\ m.at = Min(next) /\ m.at \in Nat
      BY <1>10, <3>1, <3>2
    <3>4. PICK a \in Nat : a = Min(next) /\ a \in b .. b + w - 1
      BY <1>4, <3>3
    <3>5. n = a - b /\ n \in 0 .. w /\ b + n = a
      BY <1>8, <2>2, <3>4
    <3>6. m \in midTags /\ m.tag.key = "BURST" /\ m.at = bitsRead + RelOffset
      BY <1>1, <1>4, <1>8, <3>3, <3>4, <3>5
    <3>7. ASSUME NEW v \in Window(RelOffset), v.tag.key = "BURST"
          PROVE  v.at = bitsRead
      <4>1. v \in midTags /\ v.at \in b .. b + n - 1 /\ v.at \in Nat
        BY <1>1, <1>6, <1>8 DEF Window
      <4>2. v \in ts /\ v.at < a
        BY <1>4, <3>5, <3>7, <4>1
      <4>3. ASSUME v.at # b
            PROVE  FALSE
        <5>1. v.at \in next
          BY <1>10, <4>2, <4>3
        <5>2. QED
          BY <3>2, <3>4, <4>1, <4>2, <5>1
      <4>4. QED
        BY <1>1, <4>3
    <3>8. QED
      BY <1>1, <1>2, <1>8, <3>5, <3>6, <3>7
  <2>3. QED
    BY <2>1, <2>2
<1>11. QED
  BY <1>7, <1>9, <1>10

\* The items a call adds.
Added(new, src, lost) ==
  /\ items' = items \o new
  /\ lost \subseteq 1 .. RelOffset /\ torn' = torn \union {mid[bitsRead + i] : i \in lost}
  /\ new \in Seq(Seq(Content)) /\ Len(new) * itemsize = PackedLen(RelOffset)
  /\ \A j \in 1 .. Len(new) : Len(new[j]) = itemsize
  /\ \A p \in PlacesOf(new) : src[p] \in 0 .. RelOffset
  /\ \A p \in PlacesOf(new) : new[p[1]][p[2]] = IF src[p] = 0 THEN PAD ELSE mid[bitsRead + src[p]]
  /\ \A p, q \in PlacesOf(new) :
       Before(p, q) /\ src[p] # 0 /\ src[q] # 0 =>
         src[p] < src[q] \/ (src[p] \in lost /\ src[q] \in lost)
  /\ \A p \in PlacesOf(new) : src[p] # 0 => (src[p] - 1) \div itemsize = p[1] - 1
  /\ \A i \in 1 .. RelOffset : IsPacked(i, RelOffset) =>
       i \in lost \/ \E p \in PlacesOf(new) : src[p] = i

\* A call may change the order of the bits, not the vector length or the stub mode.
LEMMA CallConfig ==
  ASSUME config \in Configs, NEW f, Call(f)
  PROVE  /\ config' \in Configs /\ config'.stub = config.stub /\ config'.vlen = config.vlen
         /\ itemsize' = itemsize
<1>1. config \in [stub : {"DROP", "RIGHT", "LEFT"}, lsb_first : BOOLEAN, vlen : Nat \ {0}]
  BY BitsAssumption
<1>2. config' \in Configs /\ (config' = config \/ config' = Switched)
  BY DEF Call
<1>3. Switched.stub = config.stub /\ Switched.vlen = config.vlen
  BY <1>1 DEF Switched
<1>4. config'.stub = config.stub /\ config'.vlen = config.vlen
  BY <1>2, <1>3
<1>5. QED
  BY <1>2, <1>4 DEF itemsize

LEMMA WorkAdds ==
  ASSUME LeftMsbFirst, GateInv, MidTypes, PackerTypes, NEW f \in Nat, Call(f)
  PROVE  \E new, src, lost : Added(new, src, lost)
<1>1. PICK n \in Nat, b \in Nat : n = RelOffset /\ b = bitsRead /\ b + n <= Len(mid)
  <2>1. WholeItems \in 0 .. Len(mid) - bitsRead /\ RelOffset \in 0 .. WholeItems
    BY WorkWindow
  <2>2. Len(mid) \in Nat /\ bitsRead \in 0 .. Len(mid)
    BY MidFacts DEF PackerTypes
  <2>3. RelOffset \in Nat /\ bitsRead \in Nat /\ bitsRead + RelOffset <= Len(mid)
    BY <2>1, <2>2
  <2>4. QED
    BY <2>3
<1>2. PICK bits : bits = SubSeq(mid, b + 1, b + n)
  OBVIOUS
<1>3. bits \in Seq(Nat) /\ Len(bits) = n /\ \A i \in 1 .. n : bits[i] = mid[b + i]
  <2>1. mid \in Seq(Nat)
    BY MidFacts
  <2>2. QED
    BY <1>1, <1>2, <2>1, Part
<1>11. MayChange(bits, f)
  BY <1>1, <1>2 DEF Call, MayChange
<1>12. PICK lost : lost = Lost(f, n)
  OBVIOUS
<1>4. PICK new, src : new = Items(packbuffer(bits, f)) /\ Laid(new, bits, src, lost)
  <2>1. config \in Configs
    BY DEF PackerTypes
  <2>2. QED
    BY <1>3, <1>11, <1>12, <2>1, NewItems
<1>5. items' = items \o new
  BY <1>1, <1>2, <1>4 DEF Call
<1>13. lost \subseteq 1 .. n /\ torn' = torn \union {mid[b + i] : i \in lost}
  <2>1. torn' = torn \union TornBits(bits, f)
    BY <1>1, <1>2 DEF Call
  <2>2. TornBits(bits, f) = {bits[i] : i \in lost} /\ lost \subseteq 1 .. n
    BY <1>3, <1>12 DEF TornBits, Lost
  <2>3. {bits[i] : i \in lost} = {mid[b + i] : i \in lost}
    BY <1>3, <2>2
  <2>4. QED
    BY <2>1, <2>2, <2>3
<1>6. \A p \in PlacesOf(new) : src[p] \in 0 .. n
  BY <1>3, <1>4 DEF Laid
<1>7. ASSUME NEW p \in PlacesOf(new)
      PROVE  new[p[1]][p[2]] = IF src[p] = 0 THEN PAD ELSE mid[b + src[p]]
  <2>1. new[p[1]][p[2]] = IF src[p] = 0 THEN PAD ELSE bits[src[p]]
    BY <1>4 DEF Laid
  <2>2. src[p] # 0 => src[p] \in 1 .. n
    BY <1>6
  <2>3. QED
    BY <1>3, <2>1, <2>2
<1>8. /\ new \in Seq(Seq(Content)) /\ Len(new) * itemsize = PackedLen(n)
      /\ \A j \in 1 .. Len(new) : Len(new[j]) = itemsize
      /\ \A p, q \in PlacesOf(new) :
           Before(p, q) /\ src[p] # 0 /\ src[q] # 0 =>
             src[p] < src[q] \/ (src[p] \in lost /\ src[q] \in lost)
      /\ \A p \in PlacesOf(new) : src[p] # 0 => (src[p] - 1) \div itemsize = p[1] - 1
      /\ \A i \in 1 .. n : IsPacked(i, n) =>
           i \in lost \/ \E p \in PlacesOf(new) : src[p] = i
  BY <1>3, <1>4 DEF Laid
<1>9. Added(new, src, lost)
  BY <1>1, <1>5, <1>6, <1>7, <1>8, <1>13 DEF Added
<1>10. QED
  BY <1>9

\* What a call does to the numbers: the bits read and the items there were.
LEMMA WorkNumbers ==
  ASSUME GateInv, MidTypes, PackerTypes, NEW f \in Nat, Call(f), UNCHANGED gateVars
  PROVE  \E z \in Nat \ {0}, n \in Nat, b \in Nat, c \in Nat, l \in Nat :
           /\ z = itemsize /\ n = RelOffset /\ b = bitsRead /\ l = Len(mid) /\ b + n <= l
           /\ c = Len(items) /\ bitsRead' = b + n /\ mid' = mid /\ midTags' = midTags
<1>1. WholeItems \in 0 .. Len(mid) - bitsRead /\ RelOffset \in 0 .. WholeItems
  BY WorkWindow
<1>2. Len(mid) \in Nat /\ bitsRead \in 0 .. Len(mid) /\ itemsize \in Nat \ {0}
  BY MidFacts, ConfigFacts DEF PackerTypes
<1>3. RelOffset \in Nat /\ bitsRead \in Nat /\ bitsRead + RelOffset <= Len(mid)
  BY <1>1, <1>2
<1>4. Len(items) \in Nat
  BY DEF PackerTypes
<1>5. bitsRead' = bitsRead + RelOffset /\ mid' = mid /\ midTags' = midTags
  BY DEF Call, gateVars
<1>6. QED
  BY <1>2, <1>3, <1>4, <1>5

\* A place of the items after the call is one of before, or one of the items added.
LEMMA PlacesAfter ==
  ASSUME PackerTypes, itemsize' = itemsize, NEW new, NEW src, NEW lost, Added(new, src, lost)
  PROVE  /\ itemsize' = itemsize
         /\ Len(items) \in Nat /\ Len(new) \in Nat /\ Len(items') = Len(items) + Len(new)
         /\ items' \in Seq(Seq(Content))
         /\ \A j \in 1 .. Len(items') : Len(items'[j]) = itemsize
         /\ \A p \in Places : p \in Places' /\ Holds(p)' = Holds(p) /\ BitAt(p)' = BitAt(p)
         /\ \A q \in PlacesOf(new) :
              /\ <<Len(items) + q[1], q[2]>> \in Places'
              /\ items'[Len(items) + q[1]][q[2]] = new[q[1]][q[2]]
         /\ \A p \in Places' :
              p \in Places \/ \E q \in PlacesOf(new) : p = <<Len(items) + q[1], q[2]>>
<1>1. PICK z \in Nat \ {0} : z = itemsize /\ itemsize' = z
  BY ConfigFacts DEF PackerTypes, itemsize
<1>2. /\ items \in Seq(Seq(Content)) /\ new \in Seq(Seq(Content)) /\ items' = items \o new
      /\ \A j \in 1 .. Len(items) : Len(items[j]) = z
      /\ \A j \in 1 .. Len(new) : Len(new[j]) = z
  BY <1>1 DEF PackerTypes, Added
<1>3. PICK c \in Nat, d \in Nat : c = Len(items) /\ d = Len(new)
  BY <1>2
<1>4. /\ items' \in Seq(Seq(Content)) /\ Len(items') = c + d
      /\ \A j \in 1 .. c : items'[j] = items[j]
      /\ \A j \in 1 .. d : items'[c + j] = new[j]
  <2>1. PICK C, s, t : C = Seq(Content) /\ s = items /\ t = new
    OBVIOUS
  <2>2. s \in Seq(C) /\ t \in Seq(C) /\ items' = s \o t
    BY <1>2, <2>1
  <2>3. /\ s \o t \in Seq(C) /\ Len(s \o t) = Len(s) + Len(t)
        /\ \A i \in 1 .. Len(s) : (s \o t)[i] = s[i]
        /\ \A i \in 1 .. Len(t) : (s \o t)[Len(s) + i] = t[i]
    BY <2>2, Joined
  <2>4. QED
    BY <1>3, <2>1, <2>2, <2>3
<1>5. \A j \in 1 .. c + d : j \in 1 .. c \/ (j - c \in 1 .. d /\ j = c + (j - c))
  BY <1>3
<1>6. \A j \in 1 .. c + d : Len(items'[j]) = z
  BY <1>2, <1>3, <1>4, <1>5
<1>7. /\ Places = (1 .. c) \X (1 .. z) /\ Places' = (1 .. c + d) \X (1 .. z)
      /\ PlacesOf(new) = (1 .. d) \X (1 .. z)
  BY <1>1, <1>3, <1>4 DEF Places, PlacesOf
<1>8. ASSUME NEW p \in Places
      PROVE  p \in Places' /\ Holds(p)' = Holds(p) /\ BitAt(p)' = BitAt(p)
  <2>1. p[1] \in 1 .. c /\ p \in Places'
    BY <1>7
  <2>2. QED
    BY <1>4, <2>1 DEF Holds, BitAt
<1>9. ASSUME NEW q \in PlacesOf(new)
      PROVE  /\ <<c + q[1], q[2]>> \in Places'
             /\ items'[c + q[1]][q[2]] = new[q[1]][q[2]]
  <2>1. q[1] \in 1 .. d /\ q[2] \in 1 .. z /\ c + q[1] \in 1 .. c + d
    BY <1>7
  <2>2. QED
    BY <1>4, <1>7, <2>1 DEF BitAt
<1>10. ASSUME NEW p \in Places'
       PROVE  p \in Places \/ \E q \in PlacesOf(new) : p = <<c + q[1], q[2]>>
  <2>1. p[1] \in 1 .. c + d /\ p[2] \in 1 .. z /\ p = <<p[1], p[2]>>
    BY <1>7
  <2>2. CASE p[1] \in 1 .. c
    BY <1>7, <2>1, <2>2
  <2>3. CASE p[1] - c \in 1 .. d /\ p[1] = c + (p[1] - c)
    <3>1. PICK x : x = p[1] - c
      OBVIOUS
    <3>2. <<x, p[2]>> \in PlacesOf(new) /\ p = <<c + x, p[2]>>
      BY <1>7, <2>1, <2>3, <3>1
    <3>3. QED
      BY <3>2
  <2>4. QED
    BY <1>5, <2>1, <2>2, <2>3
<1>11. /\ itemsize' = itemsize /\ Len(items) \in Nat /\ Len(new) \in Nat
       /\ Len(items') = Len(items) + Len(new) /\ items' \in Seq(Seq(Content))
       /\ \A j \in 1 .. Len(items') : Len(items'[j]) = itemsize
  BY <1>1, <1>3, <1>4, <1>6
<1>12. /\ \A q \in PlacesOf(new) :
              /\ <<Len(items) + q[1], q[2]>> \in Places'
              /\ items'[Len(items) + q[1]][q[2]] = new[q[1]][q[2]]
       /\ \A p \in Places' :
              p \in Places \/ \E q \in PlacesOf(new) : p = <<Len(items) + q[1], q[2]>>
  BY <1>3, <1>9, <1>10
<1>13. QED
  BY <1>8, <1>11, <1>12

\* The item of a bit, so many items and bits into the stream of items.
Makes(c, z, a) == c * z = a
ItemsOn(a, x, z, c) == (a + x) \div z = c + (x \div z)

LEMMA ItemOf ==
  ASSUME NEW z \in Nat \ {0}, NEW c \in Nat, NEW a \in Int, Makes(c, z, a), NEW x \in Nat
  PROVE  ItemsOn(a, x, z, c)
<1>1. PICK q \in Nat, r \in 0 .. z - 1 : q = x \div z /\ x = q * z + r
  <2>1. x \div z \in Nat
    BY Quotient
  <2>2. x % z \in 0 .. z - 1 /\ x = (x \div z) * z + (x % z)
    BY Division
  <2>3. QED
    BY <2>1, <2>2
<1>2. a + x = (c + q) * z + r
  <2>1. (c + q) * z = c * z + q * z
    OBVIOUS
  <2>2. c * z = a /\ q * z \in Int
    BY DEF Makes
  <2>3. QED
    BY <1>1, <2>1, <2>2
<1>3. PICK f \in Int : f = c + q
  OBVIOUS
<1>4. (f * z + r) \div z = f
  BY DivMod
<1>5. QED
  BY <1>1, <1>2, <1>3, <1>4 DEF ItemsOn

LEMMA ItemWithin ==
  ASSUME NEW z \in Nat \ {0}, NEW d \in Nat, NEW n \in Nat, NEW l \in Nat, d * z = l, n < l + z,
         NEW x \in 0 .. n - 1
  PROVE  x \div z \in 0 .. d
<1>1. PICK q \in Nat, r \in 0 .. z - 1 : q = x \div z /\ x = q * z + r
  <2>1. x \div z \in Nat
    BY Quotient
  <2>2. x % z \in 0 .. z - 1 /\ x = (x \div z) * z + (x % z)
    BY Division
  <2>3. QED
    BY <2>1, <2>2
<1>2. q * z < l + z
  <2>1. q * z \in Int
    OBVIOUS
  <2>2. QED
    BY <1>1, <2>1
<1>3. ASSUME q > d
      PROVE  FALSE
  <2>1. PICK f \in Nat : q = (d + 1) + f
    <3>1. q - (d + 1) \in Nat /\ q = (d + 1) + (q - (d + 1))
      BY <1>3
    <3>2. QED
      BY <3>1
  <2>2. q * z = (d * z + z) + f * z /\ f * z \in Nat
    BY <2>1
  <2>3. QED
    BY <1>2, <2>2
<1>4. QED
  BY <1>1, <1>3

LEMMA PackedLenBounds ==
  ASSUME config \in Configs, NEW n \in Nat
  PROVE  n < PackedLen(n) + itemsize /\ (config.stub # "DROP" => n <= PackedLen(n))
<1>1. PICK z \in Nat \ {0} : z = itemsize
  BY ConfigFacts
<1>2. PICK r \in 0 .. z - 1 : r = n % z
  BY Division
<1>3. PackedLen(n) = IF config.stub = "DROP" THEN n - r ELSE n + (IF r = 0 THEN 0 ELSE z - r)
  BY <1>1, <1>2 DEF PackedLen, RoundUp
<1>4. QED
  BY <1>1, <1>2, <1>3

\* After a call the items and their tags are as many as the bits read, with those padded
\* and without those dropped.
LEMMA WorkTypes ==
  ASSUME GateInv, MidTypes, PackerTypes, NEW f \in Nat, Call(f), UNCHANGED gateVars,
         NEW new, NEW src, NEW lost, Added(new, src, lost)
  PROVE  /\ PackerTypes'
         /\ \A m \in Window(RelOffset) :
              /\ MovedTag(m).at = Len(items) + ((m.at - bitsRead) \div itemsize)
              /\ m.at - bitsRead \in 0 .. RelOffset - 1
<1>1. PICK z \in Nat \ {0}, n \in Nat, b \in Nat, c \in Nat, d \in Nat :
        /\ z = itemsize /\ n = RelOffset /\ b = bitsRead /\ b + n <= Len(mid)
        /\ c = Len(items) /\ d = Len(new)
  <2>1. WholeItems \in 0 .. Len(mid) - bitsRead /\ RelOffset \in 0 .. WholeItems
    BY WorkWindow
  <2>2. Len(mid) \in Nat /\ bitsRead \in 0 .. Len(mid) /\ itemsize \in Nat \ {0}
    BY MidFacts, ConfigFacts DEF PackerTypes
  <2>3. RelOffset \in Nat /\ bitsRead \in Nat /\ bitsRead + RelOffset <= Len(mid)
    BY <2>1, <2>2
  <2>4. Len(items) \in Nat /\ Len(new) \in Nat
    BY DEF PackerTypes, Added
  <2>5. QED
    BY <2>2, <2>3, <2>4
<1>2. /\ config' \in Configs /\ itemsize' = itemsize /\ config \in Configs /\ extra_bits \in Int
      /\ extra_bits' = ExtraBits(n) /\ bitsRead' = b + n /\ mid' = mid
      /\ outTags' = outTags \union {MovedTag(m) : m \in Window(n)} \union BurstTime(n)
  BY <1>1, CallConfig DEF Call, gateVars, PackerTypes
<1>3. PICK l \in Nat, e \in Int : /\ l = PackedLen(n) /\ n < l + z /\ e = extra_bits
                                  /\ ExtraBits(n) = e + (l - n)
  BY <1>1, <1>2, PackedLenFacts, PackedLenBounds
<1>4. /\ itemsize' = z /\ Len(items') = c + d /\ items' \in Seq(Seq(Content))
      /\ \A j \in 1 .. Len(items') : Len(items'[j]) = z
  BY <1>1, <1>2, PlacesAfter
<1>5. c * z = b + e /\ d * z = l
  BY <1>1, <1>3 DEF PackerTypes, Added
<1>6. Len(items') * itemsize' = bitsRead' + extra_bits'
  <2>1. (c + d) * z = c * z + d * z
    OBVIOUS
  <2>2. (c + d) * z = (b + e) + l
    BY <1>5, <2>1
  <2>3. QED
    BY <1>1, <1>2, <1>3, <1>4, <2>2
<1>7. ASSUME NEW m \in Window(RelOffset)
      PROVE  /\ MovedTag(m).at = c + ((m.at - b) \div z) /\ (m.at - b) \div z \in 0 .. d
             /\ m.at - b \in 0 .. n - 1 /\ m.at \in 0 .. (b + n) - 1
  <2>1. m.at \in Nat /\ m.at \in b .. b + n - 1
    BY <1>1 DEF Window, MidTypes
  <2>2. PICK x \in 0 .. n - 1 : x = m.at - b
    BY <2>1
  <2>3. x \in Nat /\ m.at = b + x
    BY <2>1, <2>2
  <2>4. ((b + e) + x) \div z = c + (x \div z)
    <3>1. PICK a \in Int : a = b + e
      OBVIOUS
    <3>2. Makes(c, z, a)
      BY <1>5, <3>1 DEF Makes
    <3>3. ItemsOn(a, x, z, c)
      BY <2>3, <3>2, ItemOf
    <3>4. QED
      BY <3>1, <3>3 DEF ItemsOn
  <2>5. x \div z \in 0 .. d
    BY <1>3, <1>5, ItemWithin
  <2>6. MovedTag(m).at = (m.at + e) \div z
    BY <1>1, <1>3 DEF MovedTag
  <2>7. m.at + e = (b + e) + x
    BY <2>3
  <2>8. QED
    BY <2>1, <2>2, <2>4, <2>5, <2>6, <2>7
<1>8. ASSUME NEW o \in outTags'
      PROVE  o.at \in 0 .. Len(items') /\ o.bit \in 0 .. bitsRead' - 1
  <2>1. CASE o \in outTags
    <3>1. o.at \in 0 .. c /\ o.bit \in 0 .. b - 1
      BY <1>1, <2>1 DEF PackerTypes
    <3>2. QED
      BY <1>2, <1>4, <3>1
  <2>2. CASE o \in {MovedTag(m) : m \in Window(n)}
    <3>1. PICK m \in Window(n) : o = MovedTag(m)
      BY <2>2
    <3>2. o.bit = m.at
      BY <3>1 DEF MovedTag
    <3>3. PICK i \in 0 .. d : o.at = c + i
      BY <1>1, <1>7, <3>1
    <3>4. m.at \in 0 .. (b + n) - 1
      BY <1>1, <1>7, <3>1
    <3>5. QED
      BY <1>2, <1>4, <3>2, <3>3, <3>4
  <2>3. CASE o \in BurstTime(n)
    <3>1. o.at = c /\ o.bit = b /\ n > 0
      BY <1>1, <2>3 DEF BurstTime
    <3>2. QED
      BY <1>2, <1>4, <3>1
  <2>4. QED
    BY <1>2, <2>1, <2>2, <2>3
<1>9. extra_bits' \in Int /\ bitsRead' \in 0 .. Len(mid')
  <2>1. Len(mid) \in Nat
    BY MidFacts
  <2>2. QED
    BY <1>1, <1>2, <1>3, <2>1
<1>12. \A x \in torn' : \E i \in 1 .. bitsRead' : x = mid'[i]
  <2>1. ASSUME NEW x \in torn'
        PROVE  \E i \in 1 .. b + n : x = mid[i]
    <3>1. CASE x \in torn
      <4>1. PICK i \in 1 .. b : x = mid[i]
        BY <1>1, <3>1 DEF PackerTypes
      <4>2. i \in 1 .. b + n
        OBVIOUS
      <4>3. QED
        BY <4>1, <4>2
    <3>2. CASE x \notin torn
      <4>1. PICK i \in 1 .. n : x = mid[b + i]
        BY <1>1, <3>2 DEF Added
      <4>2. b + i \in 1 .. b + n
        OBVIOUS
      <4>3. QED
        BY <4>1, <4>2
    <3>3. QED
      BY <3>1, <3>2
  <2>2. QED
    BY <1>2, <2>1
<1>10. PackerTypes'
  BY <1>2, <1>4, <1>6, <1>8, <1>9, <1>12 DEF PackerTypes
<1>11. QED
  BY <1>1, <1>7, <1>10

\* The place of an item added after so many.
Shifted(c, q) == <<c + q[1], q[2]>>

\* What is at the places of the items after the call: what was there, or bits read.
LEMMA BitsAfter ==
  ASSUME GateInv, MidTypes, PackerTypes, NEW f \in Nat, Call(f), UNCHANGED gateVars,
         NEW new, NEW src, NEW lost, Added(new, src, lost), NEW c \in Nat, c = Len(items)
  PROVE  /\ \A p \in Places : p \in Places' /\ Holds(p)' = Holds(p) /\ BitAt(p)' = BitAt(p)
         /\ \A q \in PlacesOf(new) :
              /\ Shifted(c, q) \in Places'
              /\ Holds(Shifted(c, q))' <=> src[q] # 0
              /\ src[q] # 0 => /\ src[q] \in 1 .. RelOffset
                               /\ BitAt(Shifted(c, q))' = mid[bitsRead + src[q]]
         /\ \A p \in Places' : p \in Places \/ \E q \in PlacesOf(new) : p = Shifted(c, q)
<1>1. itemsize' = itemsize
  BY CallConfig DEF PackerTypes
<1>2. /\ \A p \in Places : p \in Places' /\ Holds(p)' = Holds(p) /\ BitAt(p)' = BitAt(p)
      /\ \A q \in PlacesOf(new) :
           Shifted(c, q) \in Places' /\ items'[c + q[1]][q[2]] = new[q[1]][q[2]]
      /\ \A p \in Places' : p \in Places \/ \E q \in PlacesOf(new) : p = Shifted(c, q)
  BY <1>1, PlacesAfter DEF Shifted
<1>3. ASSUME NEW q \in PlacesOf(new)
      PROVE  /\ Holds(Shifted(c, q))' <=> src[q] # 0
             /\ src[q] # 0 => /\ src[q] \in 1 .. RelOffset
                              /\ BitAt(Shifted(c, q))' = mid[bitsRead + src[q]]
  <2>1. BitAt(Shifted(c, q))' = new[q[1]][q[2]]
    BY <1>2 DEF BitAt, Shifted
  <2>2. Holds(Shifted(c, q))' <=> new[q[1]][q[2]] # PAD
    BY <1>2 DEF Holds, Shifted
  <2>3. /\ src[q] \in 0 .. RelOffset
        /\ new[q[1]][q[2]] = IF src[q] = 0 THEN PAD ELSE mid[bitsRead + src[q]]
    BY DEF Added
  <2>4. WholeItems \in 0 .. Len(mid) - bitsRead /\ RelOffset \in 0 .. WholeItems
    BY WorkWindow
  <2>5. Len(mid) \in Nat /\ bitsRead \in 0 .. Len(mid)
    BY MidFacts DEF PackerTypes
  <2>6. src[q] # 0 => src[q] \in 1 .. RelOffset /\ bitsRead + src[q] \in 1 .. Len(mid)
    BY <2>3, <2>4, <2>5
  <2>7. src[q] # 0 => mid[bitsRead + src[q]] # PAD
    BY <2>6, MidFacts, BitsAssumption
  <2>8. QED
    BY <2>1, <2>2, <2>3, <2>6, <2>7
<1>4. QED
  BY <1>2, <1>3

\* The bits of the items stay in order, and none is missing but of a stub dropped in front
\* of a burst.
LEMMA WorkPlaced ==
  ASSUME GateInv, MidTypes, PackerTypes, PlacedInv, NEW f \in Nat, Call(f), UNCHANGED gateVars,
         NEW new, NEW src, NEW lost, Added(new, src, lost)
  PROVE  PlacedInv'
<1>1. PICK z \in Nat \ {0}, n \in Nat, b \in Nat, c \in Nat, l \in Nat :
        /\ z = itemsize /\ n = RelOffset /\ b = bitsRead /\ l = Len(mid) /\ b + n <= l
        /\ c = Len(items) /\ bitsRead' = b + n /\ mid' = mid /\ midTags' = midTags
  BY WorkNumbers
<1>2. /\ config'.stub = config.stub /\ config \in Configs /\ itemsize' = z
      /\ bitsRead' = b + n /\ mid' = mid /\ midTags' = midTags
  BY <1>1, CallConfig DEF PackerTypes
<1>12. torn' = torn \union {mid[b + i] : i \in lost}
  BY <1>1 DEF Added
<1>3. /\ \A p \in Places : p \in Places' /\ Holds(p)' = Holds(p) /\ BitAt(p)' = BitAt(p)
      /\ \A q \in PlacesOf(new) :
           /\ Shifted(c, q) \in Places'
           /\ Holds(Shifted(c, q))' <=> src[q] # 0
           /\ src[q] # 0 => src[q] \in 1 .. n /\ BitAt(Shifted(c, q))' = mid[b + src[q]]
      /\ \A p \in Places' : p \in Places \/ \E q \in PlacesOf(new) : p = Shifted(c, q)
  BY <1>1, BitsAfter
<1>4. /\ \A p \in Places : Holds(p) => \E i \in 1 .. b : BitAt(p) = mid[i]
      /\ \A p, q \in Places : Holds(p) /\ Holds(q) /\ Before(p, q) =>
           BitAt(p) < BitAt(q) \/ (BitAt(p) \in torn /\ BitAt(q) \in torn)
      /\ \A i \in 1 .. b : \/ \E p \in Places : Holds(p) /\ BitAt(p) = mid[i]
                           \/ mid[i] \in torn
                           \/ config.stub = "DROP" /\ InStub(i)
  BY <1>1 DEF PlacedInv
<1>5. \A i, j \in 1 .. l : i < j => mid[i] < mid[j]
  BY <1>1, MidFacts
<1>6. \A p \in Places : p[1] \in 1 .. c
  BY <1>1 DEF Places
<1>7. \A q \in PlacesOf(new) : q[1] \in Nat \ {0} /\ q[2] \in Nat
  BY <1>1 DEF PlacesOf, Added
<1>8. ASSUME NEW p \in Places', Holds(p)'
      PROVE  \E i \in 1 .. bitsRead' : BitAt(p)' = mid'[i]
  <2>1. CASE p \in Places
    <3>1. PICK i \in 1 .. b : BitAt(p) = mid[i]
      BY <1>3, <1>4, <1>8, <2>1
    <3>2. i \in 1 .. b + n
      OBVIOUS
    <3>3. QED
      BY <1>2, <1>3, <2>1, <3>1, <3>2
  <2>2. CASE p \notin Places
    <3>1. PICK q \in PlacesOf(new) : p = Shifted(c, q)
      BY <1>3, <2>2
    <3>2. src[q] \in 1 .. n /\ BitAt(p)' = mid[b + src[q]]
      BY <1>3, <1>8, <3>1
    <3>3. b + src[q] \in 1 .. b + n
      BY <3>2
    <3>4. QED
      BY <1>2, <3>2, <3>3
  <2>3. QED
    BY <2>1, <2>2
<1>9. ASSUME NEW p \in Places', NEW q \in Places', Holds(p)', Holds(q)', Before(p, q)
      PROVE  BitAt(p)' < BitAt(q)' \/ (BitAt(p)' \in torn' /\ BitAt(q)' \in torn')
  <2>1. CASE p \in Places /\ q \in Places
    BY <1>3, <1>4, <1>9, <1>12, <2>1
  <2>2. CASE p \in Places /\ q \notin Places
    <3>1. PICK i \in 1 .. b : BitAt(p)' = mid[i]
      BY <1>3, <1>4, <1>9, <2>2
    <3>2. PICK v \in PlacesOf(new) : q = Shifted(c, v)
      BY <1>3, <2>2
    <3>3. src[v] \in 1 .. n /\ BitAt(q)' = mid[b + src[v]]
      BY <1>3, <1>9, <3>2
    <3>4. b + src[v] \in 1 .. l /\ i \in 1 .. l /\ i < b + src[v]
      BY <1>1, <3>3
    <3>5. QED
      BY <1>5, <3>1, <3>3, <3>4
  <2>3. CASE p \notin Places /\ q \in Places
    <3>1. PICK u \in PlacesOf(new) : p = Shifted(c, u)
      BY <1>3, <2>3
    <3>2. p[1] = c + u[1] /\ u[1] \in Nat \ {0} /\ q[1] \in 1 .. c
      BY <1>6, <1>7, <2>3, <3>1 DEF Shifted
    <3>3. ~ (p[1] < q[1]) /\ p[1] # q[1]
      BY <3>2
    <3>4. QED
      BY <1>9, <3>3 DEF Before
  <2>4. CASE p \notin Places /\ q \notin Places
    <3>1. PICK u \in PlacesOf(new) : p = Shifted(c, u)
      BY <1>3, <2>4
    <3>2. PICK v \in PlacesOf(new) : q = Shifted(c, v)
      BY <1>3, <2>4
    <3>3. Before(u, v)
      <4>1. /\ p[1] = c + u[1] /\ p[2] = u[2] /\ q[1] = c + v[1] /\ q[2] = v[2]
            /\ u[1] \in Nat /\ v[1] \in Nat
        BY <1>7, <3>1, <3>2 DEF Shifted
      <4>2. (p[1] < q[1] => u[1] < v[1]) /\ (p[1] = q[1] => u[1] = v[1])
        BY <4>1
      <4>3. QED
        BY <1>9, <4>1, <4>2 DEF Before
    <3>4. /\ src[u] \in 1 .. n /\ BitAt(p)' = mid[b + src[u]]
          /\ src[v] \in 1 .. n /\ BitAt(q)' = mid[b + src[v]]
      BY <1>3, <1>9, <3>1, <3>2
    <3>5. src[u] < src[v] \/ (src[u] \in lost /\ src[v] \in lost)
      BY <3>3, <3>4 DEF Added
    <3>6. CASE src[u] < src[v]
      <4>1. b + src[u] \in 1 .. l /\ b + src[v] \in 1 .. l /\ b + src[u] < b + src[v]
        BY <1>1, <3>4, <3>6
      <4>2. QED
        BY <1>5, <3>4, <4>1
    <3>7. CASE src[u] \in lost /\ src[v] \in lost
      BY <1>12, <3>4, <3>7
    <3>8. QED
      BY <3>5, <3>6, <3>7
  <2>5. QED
    BY <2>1, <2>2, <2>3, <2>4
<1>10. ASSUME NEW i \in 1 .. bitsRead'
       PROVE  \/ \E p \in Places' : Holds(p)' /\ BitAt(p)' = mid'[i]
              \/ mid'[i] \in torn'
              \/ config'.stub = "DROP" /\ InStub(i)'
  <2>1. InStub(i)' <=> InStub(i)
    BY <1>1, <1>2 DEF InStub
  <2>2. CASE i \in 1 .. b
    <3>1. CASE config.stub = "DROP" /\ InStub(i)
      BY <1>2, <2>1, <3>1
    <3>2. CASE \E p \in Places : Holds(p) /\ BitAt(p) = mid[i]
      BY <1>2, <1>3, <3>2
    <3>3. CASE mid[i] \in torn
      BY <1>2, <1>12, <3>3
    <3>4. QED
      BY <1>4, <2>2, <3>1, <3>2, <3>3
  <2>3. CASE i \notin 1 .. b
    <3>1. PICK k \in 1 .. n : i = b + k
      <4>1. i - b \in 1 .. n /\ i = b + (i - b)
        BY <1>2, <2>3
      <4>2. QED
        BY <4>1
    <3>5. CASE k \in lost
      BY <1>2, <1>12, <3>1, <3>5
    <3>2. CASE IsPacked(k, n) /\ k \notin lost
      <4>1. PICK q \in PlacesOf(new) : src[q] = k
        BY <1>1, <3>2 DEF Added
      <4>2. Shifted(c, q) \in Places' /\ Holds(Shifted(c, q))' /\ BitAt(Shifted(c, q))' = mid[b + k]
        BY <1>3, <4>1
      <4>3. QED
        BY <1>2, <3>1, <4>2
    <3>3. CASE ~ IsPacked(k, n)
      <4>1. PICK r \in 0 .. z - 1 : r = n % z
        <5>1. n % z \in 0 .. z - 1
          BY Division
        <5>2. QED
          BY <5>1
      <4>2. config.stub = "DROP" /\ ~ (k <= n - r)
        BY <1>1, <3>3, <4>1 DEF IsPacked
      <4>3. r # 0
        BY <4>2
      <4>4. PICK m \in midTags : m.tag.key = "BURST" /\ m.at = b + n
        BY <1>1, <4>1, <4>3, WorkWindow
      <4>5. m.at >= i /\ m.at - i < z
        BY <3>1, <4>1, <4>2, <4>4
      <4>6. InStub(i)
        BY <1>1, <4>4, <4>5 DEF InStub
      <4>7. QED
        BY <1>2, <2>1, <4>2, <4>6
    <3>4. QED
      BY <3>2, <3>3, <3>5
  <2>4. QED
    BY <2>2, <2>3
<1>11. QED
  BY <1>8, <1>9, <1>10 DEF PlacedInv

\* The tags stay on the items that hold their bits, and bursts first in theirs.
LEMMA WorkTags ==
  ASSUME GateInv, MidTypes, PackerTypes, TagsOnTheirItems, NEW f \in Nat, Call(f), UNCHANGED gateVars,
         NEW new, NEW src, NEW lost, Added(new, src, lost)
  PROVE  TagsOnTheirItems'
<1>1. PICK z \in Nat \ {0}, n \in Nat, b \in Nat, c \in Nat, l \in Nat :
        /\ z = itemsize /\ n = RelOffset /\ b = bitsRead /\ l = Len(mid) /\ b + n <= l
        /\ c = Len(items) /\ bitsRead' = b + n /\ mid' = mid /\ midTags' = midTags
  BY WorkNumbers
<1>2. outTags \subseteq outTags' /\ \A m \in Window(n) : MovedTag(m) \in outTags'
  BY <1>1 DEF Call
<1>3. /\ \A p \in Places : p \in Places' /\ Holds(p)' = Holds(p) /\ BitAt(p)' = BitAt(p)
      /\ \A q \in PlacesOf(new) :
           /\ Shifted(c, q) \in Places'
           /\ Holds(Shifted(c, q))' <=> src[q] # 0
           /\ src[q] # 0 => src[q] \in 1 .. n /\ BitAt(Shifted(c, q))' = mid[b + src[q]]
      /\ \A p \in Places' : p \in Places \/ \E q \in PlacesOf(new) : p = Shifted(c, q)
  BY <1>1, BitsAfter
<1>4. \A p \in Places : p[1] \in 1 .. c
  BY <1>1 DEF Places
<1>5. \A q \in PlacesOf(new) : q[1] \in Nat \ {0} /\ q[2] \in Nat
  BY <1>1, ConfigFacts DEF PlacesOf, Added
<1>6. SUFFICES ASSUME NEW p \in Places', NEW m \in midTags, Holds(p)', mid[m.at + 1] = BitAt(p)'
               PROVE  /\ \E o \in outTags' : o.at = p[1] - 1 /\ o.key = m.tag.key /\ o.bit = m.at
                      /\ m.tag.key = "BURST" /\ BitAt(p)' \notin torn' =>
                           \A q \in Places' : q[1] = p[1] /\ q[2] < p[2] => ~Holds(q)'
  BY <1>1 DEF TagsOnTheirItems
<1>10. torn' = torn \union {mid[b + i] : i \in lost}
  BY <1>1 DEF Added
<1>7. CASE p \in Places
  <2>1. /\ \E o \in outTags : o.at = p[1] - 1 /\ o.key = m.tag.key /\ o.bit = m.at
        /\ m.tag.key = "BURST" /\ BitAt(p) \notin torn =>
           \A q \in Places : q[1] = p[1] /\ q[2] < p[2] => ~Holds(q)
    BY <1>3, <1>6, <1>7 DEF TagsOnTheirItems
  <2>2. ASSUME NEW q \in Places', q[1] = p[1]
        PROVE  q \in Places /\ Holds(q)' = Holds(q)
    <3>1. ASSUME NEW v \in PlacesOf(new), q = Shifted(c, v)
          PROVE  FALSE
      <4>1. q[1] = c + v[1] /\ v[1] \in Nat \ {0} /\ q[1] \in 1 .. c
        BY <1>4, <1>5, <1>7, <2>2, <3>1 DEF Shifted
      <4>2. QED
        BY <4>1
    <3>2. QED
      BY <1>3, <3>1
  <2>3. BitAt(p)' \notin torn' => BitAt(p) \notin torn
    BY <1>3, <1>7, <1>10
  <2>4. QED
    BY <1>2, <2>1, <2>2, <2>3
<1>8. CASE p \notin Places
  <2>1. PICK u \in PlacesOf(new) : p = Shifted(c, u)
    BY <1>3, <1>8
  <2>2. PICK k \in 1 .. n : k = src[u] /\ BitAt(p)' = mid[b + k]
    BY <1>3, <1>6, <2>1
  <2>3. m.at = b + (k - 1)
    <3>1. m.at \in 0 .. l - 1
      BY <1>1, MidFacts
    <3>2. m.at + 1 \in 1 .. l /\ b + k \in 1 .. l
      BY <1>1, <3>1
    <3>3. m.at + 1 = b + k
      BY <1>1, <1>6, <2>2, <3>2, MidFacts
    <3>4. QED
      BY <3>1, <3>3
  <2>4. m \in Window(RelOffset)
    <3>1. m.at \in b .. b + n - 1
      BY <2>3
    <3>2. QED
      BY <1>1, <3>1 DEF Window
  <2>5. MovedTag(m).at = p[1] - 1
    <3>1. MovedTag(m).at = c + ((m.at - b) \div z)
      BY <1>1, <2>4, WorkTypes
    <3>2. m.at - b = k - 1
      BY <2>3
    <3>3. (k - 1) \div z = u[1] - 1
      BY <1>1, <2>2 DEF Added
    <3>4. p[1] = c + u[1] /\ u[1] \in Nat
      BY <1>5, <2>1 DEF Shifted
    <3>5. QED
      BY <3>1, <3>2, <3>3, <3>4
  <2>6. MovedTag(m).key = m.tag.key /\ MovedTag(m).bit = m.at /\ MovedTag(m) \in outTags'
    BY <1>1, <1>2, <2>4 DEF MovedTag
  <2>7. ASSUME m.tag.key = "BURST", BitAt(p)' \notin torn', NEW q \in Places', q[1] = p[1], q[2] < p[2], Holds(q)'
        PROVE  FALSE
    <3>1. m.at = b /\ k = 1
      <4>1. m.at = b
        BY <1>1, <2>4, <2>7, WorkWindow
      <4>2. QED
        BY <2>3, <4>1
    <3>2. p[1] = c + u[1] /\ p[2] = u[2] /\ u[1] \in Nat \ {0}
      BY <1>5, <2>1 DEF Shifted
    <3>3. q \notin Places
      <4>1. q[1] = c + u[1]
        BY <2>7, <3>2
      <4>2. q[1] \notin 1 .. c
        BY <3>2, <4>1
      <4>3. QED
        BY <1>4, <4>2
    <3>4. PICK v \in PlacesOf(new) : q = Shifted(c, v)
      BY <1>3, <3>3
    <3>5. q[1] = c + v[1] /\ q[2] = v[2] /\ v[1] \in Nat
      BY <1>5, <3>4 DEF Shifted
    <3>6. Before(v, u)
      <4>1. v[1] = u[1]
        BY <2>7, <3>2, <3>5
      <4>2. v[2] < u[2]
        BY <2>7, <3>2, <3>5
      <4>3. QED
        BY <4>1, <4>2 DEF Before
    <3>7. src[v] \in 1 .. n
      BY <1>3, <2>7, <3>4
    <3>10. src[u] \notin lost
      BY <1>10, <2>2, <2>7
    <3>8. src[v] < src[u]
      BY <2>2, <3>6, <3>7, <3>10 DEF Added
    <3>9. QED
      BY <2>2, <3>1, <3>7, <3>8
  <2>8. QED
    BY <2>5, <2>6, <2>7
<1>9. QED
  BY <1>7, <1>8

\* No tag of the input has the key that the packer gives to its own.
OwnKey == \A ts \in TagSets : \A t \in ts : t.key # "burst_time"

\* The time a call goes by is that of a time tag, or there is none up to its window's end.
LEMMA WorkLastTime ==
  ASSUME GateInv, MidTypes, PackerTypes, TimesInv
  PROVE  \/ \E m \in midTags : /\ m.tag.key = "rx_time"
                               /\ LastRxTime.at = m.at /\ LastRxTime.time = RxTime(m)
         \/ \A m \in midTags : m.tag.key = "rx_time" => m.at >= bitsRead + WholeItems
<1>1. PICK rx : rx = Keyed("rx_time", WholeItems)
  OBVIOUS
<1>2. PICK l \in Nat, b \in Nat, w \in Nat : l = Len(mid) /\ b = bitsRead /\ w = WholeItems
  <2>1. Len(mid) \in Nat /\ bitsRead \in 0 .. Len(mid) /\ WholeItems \in 0 .. Len(mid) - bitsRead
    BY MidFacts, WorkWindow DEF PackerTypes
  <2>2. bitsRead \in Nat /\ WholeItems \in Nat
    BY <2>1
  <2>3. QED
    BY <2>1, <2>2
<1>3. \A m \in midTags : m.at \in 0 .. l - 1 /\ m.at \in Nat
  <2>1. \A m \in midTags : m.at \in 0 .. l - 1
    BY <1>2, MidFacts
  <2>2. QED
    BY <2>1
<1>4. \A m : m \in rx <=> /\ m \in midTags /\ m.at \in b .. b + w - 1 /\ m.tag.key = "rx_time"
  BY <1>1, <1>2 DEF Keyed, Window
<1>5. CASE rx = {}
  <2>1. LastRxTime = last_rx_time
    BY <1>1, <1>5 DEF LastRxTime
  <2>2. CASE \E m \in midTags : /\ m.tag.key = "rx_time"
                                /\ last_rx_time.at = m.at /\ last_rx_time.time = RxTime(m)
    BY <2>1, <2>2
  <2>3. CASE \A m \in midTags : m.tag.key = "rx_time" => m.at >= bitsRead
    <3>1. ASSUME NEW m \in midTags, m.tag.key = "rx_time"
          PROVE  m.at >= b + w
      <4>1. m.at \in Nat /\ m.at >= b /\ ~ (m.at \in b .. b + w - 1)
        BY <1>2, <1>3, <1>4, <1>5, <2>3, <3>1
      <4>2. QED
        BY <4>1
    <3>2. QED
      BY <1>2, <3>1
  <2>4. QED
    BY <2>2, <2>3 DEF TimesInv
<1>6. CASE rx # {}
  <2>1. PICK S : S = {m.at : m \in rx}
    OBVIOUS
  <2>2. S \in SUBSET (0 .. l) /\ S # {}
    <3>1. \A m \in rx : m.at \in 0 .. l
      BY <1>3, <1>4
    <3>2. QED
      BY <1>6, <2>1, <3>1
  <2>3. \E x \in S : \A y \in S : y <= x
    BY <2>2, LargestOf
  <2>4. \E m \in rx : \A o \in rx : o.at <= m.at
    BY <2>1, <2>3
  <2>5. PICK last : last = CHOOSE m \in rx : \A o \in rx : o.at <= m.at
    OBVIOUS
  <2>6. last \in rx
    BY <2>4, <2>5
  <2>7. LastRxTime = [time |-> RxTime(last), at |-> last.at]
    BY <1>1, <1>6, <2>5 DEF LastRxTime
  <2>8. QED
    BY <1>4, <2>6, <2>7
<1>7. QED
  BY <1>5, <1>6

\* The burst time of a burst that starts a call is counted from a time tag.
LEMMA WorkTimes ==
  ASSUME OwnKey, GateInv, MidTypes, PackerTypes, TimesInv, BurstTimeTrue, NEW f \in Nat, Call(f),
         UNCHANGED gateVars
  PROVE  TimesInv' /\ BurstTimeTrue'
<1>1. PICK z \in Nat \ {0}, n \in Nat, b \in Nat, c \in Nat, l \in Nat :
        /\ z = itemsize /\ n = RelOffset /\ b = bitsRead /\ l = Len(mid) /\ b + n <= l
        /\ c = Len(items) /\ bitsRead' = b + n /\ mid' = mid /\ midTags' = midTags
  BY WorkNumbers
<1>2. PICK w \in Nat : w = WholeItems /\ n <= w
  <2>1. WholeItems \in 0 .. l - b /\ RelOffset \in 0 .. WholeItems
    BY <1>1, WorkWindow
  <2>2. WholeItems \in Nat /\ n <= WholeItems
    BY <1>1, <2>1
  <2>3. QED
    BY <2>2
<1>3. \A m \in midTags : m.at \in 0 .. l - 1 /\ m.at \in Nat /\ mid[m.at + 1] = m.tag.of
  <2>1. \A m \in midTags : m.at \in 0 .. l - 1 /\ mid[m.at + 1] = m.tag.of
    BY <1>1, MidFacts
  <2>2. QED
    BY <2>1
<1>4. \/ \E m \in midTags : /\ m.tag.key = "rx_time"
                            /\ LastRxTime.at = m.at /\ LastRxTime.time = RxTime(m)
      \/ \A m \in midTags : m.tag.key = "rx_time" => m.at >= b + w
  BY <1>1, <1>2, WorkLastTime
<1>5. TimesInv'
  <2>1. last_rx_time' = LastRxTime
    BY DEF Call
  <2>2. CASE \E m \in midTags : /\ m.tag.key = "rx_time"
                                /\ LastRxTime.at = m.at /\ LastRxTime.time = RxTime(m)
    BY <1>1, <2>1, <2>2 DEF TimesInv
  <2>3. CASE \A m \in midTags : m.tag.key = "rx_time" => m.at >= b + w
    <3>1. ASSUME NEW m \in midTags, m.tag.key = "rx_time"
          PROVE  m.at >= b + n
      <4>1. m.at \in Nat /\ m.at >= b + w
        BY <1>3, <2>3, <3>1
      <4>2. QED
        BY <1>2, <4>1
    <3>2. QED
      BY <1>1, <3>1 DEF TimesInv
  <2>4. QED
    BY <1>4, <2>2, <2>3
<1>6. BurstTimeTrue'
  <2>1. Timed' = Timed /\ Gapless' = Gapless
    BY <1>1 DEF Timed, Gapless
  <2>2. SUFFICES ASSUME Gapless, NEW o \in outTags', o.key = "burst_time", o.bit >= Min(Timed)
                 PROVE  o.time = Epoch + mid[o.bit + 1]
    BY <1>1, <2>1 DEF BurstTimeTrue
  <2>3. CASE o \in outTags
    BY <2>2, <2>3 DEF BurstTimeTrue
  <2>4. CASE o \in {MovedTag(m) : m \in Window(n)}
    <3>1. PICK m \in Window(n) : o = MovedTag(m)
      BY <2>4
    <3>2. m \in midTags /\ o.key = m.tag.key
      BY <3>1 DEF MovedTag, Window
    <3>3. m.tag \in tags /\ tags \in TagSets
      BY <3>2 DEF MidTypes, GateInv, PassedInv
    <3>4. QED
      BY <2>2, <3>2, <3>3 DEF OwnKey
  <2>5. CASE o \in BurstTime(n)
    <3>1. o.bit = b /\ o.time = StartTime /\ n > 0
      BY <1>1, <2>5 DEF BurstTime
    <3>2. PICK a \in Nat :
            /\ a = Min(Timed) /\ a \in Timed /\ \A t \in Timed : a <= t
            /\ \A i \in a .. l - 1 : mid[i + 1] - mid[a + 1] = i - a
      <4>1. PICK T : T = Timed
        OBVIOUS
      <4>2. T \subseteq 0 .. l - 1
        BY <1>3, <4>1 DEF Timed
      <4>3. T # {} /\ mid[l] - mid[Min(T) + 1] = (l - 1) - Min(T)
        BY <1>1, <2>2, <4>1 DEF Gapless
      <4>4. (\A i \in 1 .. l : mid[i] \in Nat) /\ \A i, j \in 1 .. l : i < j => mid[i] < mid[j]
        BY <1>1, MidFacts
      <4>5. /\ Min(T) \in T /\ Min(T) \in 0 .. l - 1 /\ \A t \in T : Min(T) <= t
            /\ \A i \in Min(T) .. l - 1 : mid[i + 1] - mid[Min(T) + 1] = i - Min(T)
        BY <4>2, <4>3, <4>4, GapFacts
      <4>6. Min(T) \in Nat
        BY <4>5
      <4>7. QED
        BY <4>1, <4>5, <4>6
    <3>3. a <= b /\ b \in a .. l - 1
      BY <1>1, <2>2, <3>1, <3>2
    <3>4. PICK m \in midTags : /\ m.tag.key = "rx_time"
                               /\ LastRxTime.at = m.at /\ LastRxTime.time = RxTime(m)
      <4>1. PICK m0 \in midTags : m0.tag.key = "rx_time" /\ m0.at = a
        BY <3>2 DEF Timed
      <4>2. ~ (m0.at >= b + w)
        BY <1>2, <3>1, <3>3, <4>1
      <4>3. QED
        BY <1>4, <4>1, <4>2
    <3>5. PICK i \in a .. l - 1 : i = m.at
      <4>1. m.at \in Timed
        BY <3>4 DEF Timed
      <4>2. a <= m.at /\ m.at \in 0 .. l - 1
        BY <1>3, <3>2, <4>1
      <4>3. m.at \in a .. l - 1
        BY <4>2
      <4>4. QED
        BY <4>3
    <3>6. StartTime = (Epoch + mid[i + 1]) + (b - i)
      <4>1. m.tag.of = mid[i + 1]
        BY <1>3, <3>5
      <4>2. StartTime = LastRxTime.time + (bitsRead - LastRxTime.at)
        BY DEF StartTime
      <4>3. QED
        BY <1>1, <3>4, <3>5, <4>1, <4>2 DEF RxTime
    <3>7. mid[i + 1] - mid[a + 1] = i - a /\ mid[b + 1] - mid[a + 1] = b - a
      BY <3>2, <3>3
    <3>8. mid[i + 1] \in Nat /\ mid[b + 1] \in Nat /\ mid[a + 1] \in Nat
      <4>1. i + 1 \in 1 .. l /\ b + 1 \in 1 .. l /\ a + 1 \in 1 .. l
        BY <3>3
      <4>2. QED
        BY <1>1, <4>1, MidFacts
    <3>9. Epoch \in Nat
      BY BitsAssumption
    <3>10. (Epoch + mid[i + 1]) + (b - i) = Epoch + mid[b + 1]
      <4>1. PICK x \in Nat, y \in Nat, v \in Nat, e \in Nat :
              x = mid[i + 1] /\ y = mid[b + 1] /\ v = mid[a + 1] /\ e = Epoch
        BY <3>8, <3>9
      <4>2. x - v = i - a /\ y - v = b - a
        BY <3>7, <4>1
      <4>3. (e + x) + (b - i) = e + y
        BY <4>2
      <4>4. QED
        BY <4>1, <4>3
    <3>11. QED
      BY <3>1, <3>6, <3>10
  <2>6. outTags' = outTags \union {MovedTag(m) : m \in Window(n)} \union BurstTime(n)
    BY <1>1 DEF Call
  <2>7. QED
    BY <2>2, <2>3, <2>4, <2>5, <2>6
<1>7. QED
  BY <1>5, <1>6

\* A call of the packer keeps what is known of it.
LEMMA WorkPacker ==
  ASSUME LeftMsbFirst, OwnKey, PackingInv, NEW f \in Nat, Call(f), UNCHANGED gateVars
  PROVE  PackingInv'
<1>1. /\ GateInv /\ MidTypes /\ PackerTypes
      /\ PlacedInv /\ TagsOnTheirItems /\ TimesInv /\ BurstTimeTrue
  BY DEF PackingInv
<1>2. GateInv'
  BY <1>1, GateInvStep
<1>3. MidTypes'
  BY <1>1 DEF MidTypes, gateVars
<1>4. PICK new, src, lost : Added(new, src, lost)
  BY <1>1, WorkAdds
<1>5. PackerTypes'
  BY <1>1, <1>4, WorkTypes
<1>6. PlacedInv'
  BY <1>1, <1>4, WorkPlaced
<1>7. TagsOnTheirItems'
  BY <1>1, <1>4, WorkTags
<1>8. TimesInv' /\ BurstTimeTrue'
  BY <1>1, WorkTimes
<1>9. QED
  BY <1>2, <1>3, <1>5, <1>6, <1>7, <1>8 DEF PackingInv

\* What the packer knows of its configuration is the vector length and the stub mode.
LEMMA PackingStays ==
  ASSUME PackingInv, UNCHANGED gateVars,
         UNCHANGED <<extra_bits, last_rx_time, bitsRead, items, outTags, torn>>,
         config' \in Configs, config'.stub = config.stub, config'.vlen = config.vlen
  PROVE  PackingInv'
<1>1. /\ GateInv /\ MidTypes /\ PackerTypes
      /\ PlacedInv /\ TagsOnTheirItems /\ TimesInv /\ BurstTimeTrue
  BY DEF PackingInv
<1>2. /\ config' \in Configs
      /\ extra_bits' = extra_bits /\ last_rx_time' = last_rx_time /\ bitsRead' = bitsRead
      /\ items' = items /\ outTags' = outTags /\ torn' = torn
  OBVIOUS
<1>3. itemsize' = itemsize /\ config'.stub = config.stub
  BY DEF itemsize
<1>4. tags' = tags /\ nread' = nread /\ flow' = flow /\ consume' = consume /\ mid' = mid /\ midTags' = midTags
  BY DEF gateVars
<1>5. GateInv'
  BY <1>1, GateInvStep
<1>6. MidTypes'
  BY <1>1, <1>4 DEF MidTypes
<1>7. PackerTypes'
  BY <1>1, <1>2, <1>3, <1>4 DEF PackerTypes
<1>8. Places' = Places /\ \A p : (Holds(p)' <=> Holds(p)) /\ BitAt(p)' = BitAt(p)
  BY <1>2, <1>3 DEF Places, Holds, BitAt
<1>9. \A i : InStub(i)' <=> InStub(i)
  BY <1>3, <1>4 DEF InStub
<1>10. PlacedInv'
  BY <1>1, <1>2, <1>3, <1>4, <1>8, <1>9 DEF PlacedInv
<1>11. TagsOnTheirItems'
  BY <1>1, <1>2, <1>4, <1>8 DEF TagsOnTheirItems
<1>12. TimesInv'
  BY <1>1, <1>2, <1>4 DEF TimesInv
<1>13. BurstTimeTrue'
  <2>1. Timed' = Timed /\ Gapless' = Gapless
    BY <1>4 DEF Timed, Gapless
  <2>2. QED
    BY <1>1, <1>2, <1>4, <2>1 DEF BurstTimeTrue
<1>14. QED
  BY <1>5, <1>6, <1>7, <1>10, <1>11, <1>12, <1>13 DEF PackingInv

LEMMA FlagPacker ==
  ASSUME PackingInv, set_little_endian_flag, UNCHANGED gateVars
  PROVE  PackingInv'
<1>1. config \in [stub : {"DROP", "RIGHT", "LEFT"}, lsb_first : BOOLEAN, vlen : Nat \ {0}]
  BY BitsAssumption DEF PackingInv, PackerTypes
<1>2. config' \in Configs /\ config' = [config EXCEPT !.lsb_first = ~config.lsb_first]
  BY DEF set_little_endian_flag, Switched
<1>3. config'.stub = config.stub /\ config'.vlen = config.vlen
  BY <1>1, <1>2
<1>4. UNCHANGED <<extra_bits, last_rx_time, bitsRead, items, outTags, torn>>
  BY DEF set_little_endian_flag
<1>5. QED
  BY <1>2, <1>3, <1>4, PackingStays

LEMMA PackingInvInit == Init => PackingInv
<1>1. SUFFICES ASSUME Init
               PROVE  PackingInv
  OBVIOUS
<1>2. GateInv
  BY <1>1, GateInvInit DEF Init
<1>3. /\ flow \in BOOLEAN /\ consume \in BOOLEAN /\ nread = 0 /\ mid = <<>> /\ midTags = {}
      /\ config \in Configs /\ extra_bits = 0 /\ bitsRead = 0 /\ items = <<>> /\ outTags = {} /\ torn = {}
  BY <1>1 DEF Init, GateInit, BitsInit
<1>4. MidTypes
  BY <1>3, GateAssumption DEF MidTypes
<1>5. PackerTypes
  <2>1. itemsize \in Nat
    BY <1>3, ConfigFacts
  <2>2. items \in Seq(Seq(Content)) /\ Len(items) = 0 /\ Len(mid) = 0
    BY <1>3
  <2>3. Len(items) * itemsize = bitsRead + extra_bits
    BY <1>3, <2>1, <2>2
  <2>4. QED
    BY <1>3, <2>2, <2>3 DEF PackerTypes
<1>6. Places = {}
  BY <1>3 DEF Places
<1>7. PlacedInv
  BY <1>3, <1>6 DEF PlacedInv
<1>8. TagsOnTheirItems /\ TimesInv /\ BurstTimeTrue
  BY <1>3, <1>6 DEF TagsOnTheirItems, TimesInv, BurstTimeTrue
<1>9. QED
  BY <1>2, <1>4, <1>5, <1>7, <1>8 DEF PackingInv

LEMMA PackingInvStep ==
  ASSUME LeftMsbFirst, OwnKey
  PROVE  PackingInv /\ [Next]_vars => PackingInv'
<1>1. SUFFICES ASSUME PackingInv, [Next]_vars
               PROVE  PackingInv'
  OBVIOUS
<1>2. CASE GateNext /\ UNCHANGED bitsVars
  BY <1>1, <1>2, GatePacker
<1>3. CASE general_work /\ UNCHANGED gateVars
  <2>1. PICK f \in 0 .. NInput + itemsize : Call(f)
    BY <1>3 DEF general_work
  <2>2. f \in Nat
    BY <2>1
  <2>3. QED
    BY <1>1, <1>3, <2>1, <2>2, WorkPacker
<1>4. CASE set_little_endian_flag /\ UNCHANGED gateVars
  BY <1>1, <1>4, FlagPacker
<1>5. CASE UNCHANGED vars
  <2>1. /\ UNCHANGED gateVars /\ config' = config
        /\ UNCHANGED <<extra_bits, last_rx_time, bitsRead, items, outTags, torn>>
    BY <1>5 DEF vars, bitsVars
  <2>2. config \in Configs
    BY <1>1 DEF PackingInv, PackerTypes
  <2>3. QED
    BY <1>1, <2>1, <2>2, PackingStays
<1>6. QED
  BY <1>1, <1>2, <1>3, <1>4, <1>5 DEF Next, BitsNext

\* What leaves the packer are the bits the gate passed, in order and each once, none
\* missing but less than a vector dropped in front of a burst tag; every tag is on the item
\* that holds its bit, a burst starts its item, and its time is that at which its bit left
\* the source: for every stream, byte, vector and window, if what is padded on the left
\* comes most significant bit first and no input tag has the key of a burst time. The bits
\* of a byte within which the byte order changed (torn) are excepted: they may be lost
\* (general_work() and packbuffer() of tagged_bits_to_bytes_impl.cc after general_work() of
\* stream_gate_impl.cc).
THEOREM PackedInOrder ==
  ASSUME LeftMsbFirst, OwnKey
  PROVE  Spec => []PackerInv
<1>1. Spec => Init /\ [][Next]_vars
  BY DEF Spec
<1>2. PackingInv /\ [Next]_vars => PackingInv'
  BY PackingInvStep
<1>3. QED
  BY <1>1, <1>2, PackingInvInit, PackingImplies, PTL

=============================================================================
