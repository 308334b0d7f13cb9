-------------------------- MODULE BlockBufferProof --------------------------
(***************************************************************************)
(* Theorems about BlockBuffer: whatever the block sizes, the windows, the  *)
(* tags and the calls of set_nsamples, as long as set_pass_data is not     *)
(* called the output consists of blocks of consecutive samples, in none of *)
(* which the source changes, each with its tags, its time and the count of *)
(* the samples skipped before it; and that samples are in order even when  *)
(* it is called.                                                           *)
(***************************************************************************)
EXTENDS BlockBuffer, FiniteSetTheorems, SequenceTheorems, WellFoundedInduction, TLAPS

(***************************************************************************)
(* Facts about sets of places.                                             *)
(***************************************************************************)
(* The largest element of a set of offsets is one of them.                 *)
LEMMA MaxInSet ==
  ASSUME NEW n \in Nat, NEW S \in SUBSET (0 .. n), S # {}
  PROVE  Max(S) \in S /\ \A x \in S : x <= Max(S)
<1> DEFINE D == {n - x : x \in S}
           R == OpToRel(<, Nat)
<1>1. D \in SUBSET Nat /\ D # {}
  <2>1. \A x \in S : n - x \in Nat
    OBVIOUS
  <2>2. QED
    BY <2>1
<1>2. PICK d \in D : \A e \in D : ~(<<e, d>> \in R)
  <2> HIDE DEF D, R
  <2>1. IsWellFoundedOn(R, Nat)
    BY NatLessThanWellFounded DEF R
  <2>2. QED
    BY <1>1, <2>1, WFMin
<1>3. \A e \in D : ~(e < d)
  BY <1>1, <1>2 DEF OpToRel
<1>4. PICK m \in S : d = n - m
  OBVIOUS
<1>5. \A x \in S : m >= x
  <2> SUFFICES ASSUME NEW x \in S
               PROVE  m >= x
    OBVIOUS
  <2>1. ~(n - x < n - m)
    BY <1>3, <1>4
  <2>2. QED
    BY <2>1
<1> HIDE DEF D
<1>6. QED
  BY <1>4, <1>5 DEF Max

(* How many offsets of a set come before one.                              *)
Rank(S, o) == Cardinality({p \in S : p < o})

(* Each offset of a set has a place in its order, and each place is taken. *)
LEMMA RankFacts ==
  ASSUME NEW n \in Nat, NEW S \in SUBSET (0 .. n)
  PROVE  /\ Cardinality(S) \in Nat
         /\ \A o \in S : Rank(S, o) \in 0 .. Cardinality(S) - 1
         /\ \A o, q \in S : o < q => Rank(S, o) < Rank(S, q)
         /\ \A k \in 0 .. Cardinality(S) - 1 : \E o \in S : Rank(S, o) = k
<1> DEFINE B(o) == {p \in S : p < o}
           c == Cardinality(S)
<1>1. IsFiniteSet(S) /\ c \in Nat
  <2>1. IsFiniteSet(0 .. n)
    BY FS_Interval
  <2>2. IsFiniteSet(S)
    BY <2>1, FS_Subset
  <2>3. QED
    BY <2>2, FS_CardinalityType
<1>2. ASSUME NEW o \in S
      PROVE  Rank(S, o) \in 0 .. c - 1
  <2>1. B(o) \in SUBSET S /\ o \notin B(o)
    OBVIOUS
  <2>2. IsFiniteSet(B(o)) /\ Cardinality(B(o)) <= c /\ Cardinality(B(o)) # c
    BY <1>1, <2>1, FS_Subset
  <2>3. Cardinality(B(o)) \in Nat
    BY <2>2, FS_CardinalityType
  <2>4. QED
    BY <1>1, <2>2, <2>3 DEF Rank
<1>3. ASSUME NEW o \in S, NEW q \in S, o < q
      PROVE  Rank(S, o) < Rank(S, q)
  <2>1. B(q) \in SUBSET S
    OBVIOUS
  <2>2. IsFiniteSet(B(q))
    BY <1>1, <2>1, FS_Subset
  <2>3. B(o) \in SUBSET B(q) /\ o \in B(q) /\ o \notin B(o)
    <3>1. ASSUME NEW p \in B(o) PROVE p \in B(q)
      <4>1. p \in Nat /\ o \in Nat /\ q \in Nat /\ p < o
        OBVIOUS
      <4>2. QED
        BY <1>3, <4>1
    <3>2. o \in B(q)
      BY <1>3
    <3>3. o \notin B(o)
      OBVIOUS
    <3> HIDE DEF B
    <3>4. QED
      BY <3>1, <3>2, <3>3
  <2>4. IsFiniteSet(B(o)) /\ Cardinality(B(o)) <= Cardinality(B(q))
        /\ Cardinality(B(o)) # Cardinality(B(q))
    BY <2>2, <2>3, FS_Subset
  <2>5. Cardinality(B(o)) \in Nat /\ Cardinality(B(q)) \in Nat
    BY <2>2, <2>4, FS_CardinalityType
  <2>6. QED
    BY <2>4, <2>5 DEF Rank
<1>4. ASSUME NEW k \in 0 .. c - 1
      PROVE  \E o \in S : Rank(S, o) = k
  <2> DEFINE r == [o \in S |-> Rank(S, o)]
  <2>1. IsFiniteSet(0 .. c - 1) /\ Cardinality(0 .. c - 1) = c
    BY <1>1, FS_Interval
  <2>2. ASSUME NEW o \in S, NEW q \in S, r[o] = r[q]
        PROVE  o = q
    <3>1. Rank(S, o) = Rank(S, q)
      BY <2>2
    <3>2. o \in Nat /\ q \in Nat
      OBVIOUS
    <3>3. Rank(S, o) \in Int /\ Rank(S, q) \in Int
      BY <1>2
    <3>4. QED
      BY <1>3, <3>1, <3>2, <3>3
  <2>3. r \in [S -> 0 .. c - 1]
    BY <1>2
  <2>4. r \in Injection(S, 0 .. c - 1)
    BY <2>2, <2>3 DEF Injection, IsInjective
  <2> HIDE DEF r
  <2>5. r \in Surjection(S, 0 .. c - 1)
    BY <2>1, <2>4, FS_Injection
  <2>6. \E o \in S : r[o] = k
    BY <2>5 DEF Surjection
  <2>7. QED
    BY <2>6 DEF r
<1>5. QED
  BY <1>1, <1>2, <1>3, <1>4

(***************************************************************************)
(* The invariants.                                                         *)
(***************************************************************************)
(* Data are always passed.                                                 *)
AlwaysPassing == "set_pass_data" \notin Calls

(* The first n places of a buffer hold consecutive samples.                *)
Filled(b, n) == \A j \in 0 .. n - 1 : mem[b][j] = bufAbs[b] + j

(* The buffer that is read into is not one that may be written out.        *)
RingInv ==
  /\ reading # writing
  /\ latestValid => latest \in Bufs /\ latest # reading /\ writeIdx < nsamples

WindowInv ==
  /\ passData
  /\ pc \in {"read", "dead"} => nread + ninput <= StreamLen /\ inIdx <= ninput
  /\ pc \in {"idle", "write"} => inIdx = 0

(* What was read since the buffer started is all in it.                    *)
ReadInv ==
  /\ Filled(reading, readIdx)
  /\ readIdx > 0 => bufAbs[reading] + readIdx = Pos

(* The buffers to be written out are full, in the order of the stream.     *)
WriteInv ==
  latestValid =>
    /\ Filled(writing, nsamples)
    /\ Filled(latest, nsamples)
    /\ writing # latest => bufAbs[writing] + nsamples <= bufAbs[latest]
    /\ bufAbs[latest] + nsamples <= StartAbs

(* What was sent of the last block, and what comes next.                   *)
SentInv ==
  /\ latestValid /\ writeIdx > 0 => blockLen = writeIdx
  /\ blockLen > 0 =>
       /\ block = BlocksView!Stretch(block[0], blockLen)
       /\ block[0] + blockLen <= StartAbs
       /\ latestValid => IF writeIdx > 0 THEN block[0] = bufAbs[writing]
                         ELSE block[0] + blockLen <= bufAbs[writing]

IInv == BufferTypeOK /\ RingInv /\ WindowInv /\ ReadInv /\ WriteInv /\ SentInv

-----------------------------------------------------------------------------
(* Where the buffer starts, and how much of the window goes into it.       *)
LEMMA StartFacts ==
  ASSUME IInv
  PROVE  /\ nsamples \in Nat /\ nsamples > 0
         /\ nread \in Nat /\ StreamLen \in Nat
         /\ Pos \in Nat /\ StartAbs \in Nat
         /\ StartAbs + readIdx = Pos /\ StartAbs <= Pos
         /\ readIdx = 0 => StartAbs = Pos
         /\ readIdx > 0 => StartAbs = bufAbs[reading]
BY BufferAssumption
DEF IInv, BufferTypeOK, ReadInv, StartAbs, Pos

LEMMA ReadFacts ==
  ASSUME IInv, ReadTurn
  PROVE  /\ ToRead \in Nat /\ ToRead > 0
         /\ readIdx + ToRead <= nsamples
         /\ inIdx + ToRead <= ninput
         /\ inIdx + ToRead \in Nat
         /\ nread + ninput <= StreamLen
<1>1. /\ ninput \in Nat /\ inIdx \in Nat /\ inIdx < ninput
      /\ readIdx \in Nat /\ readIdx < nsamples /\ nsamples \in Nat
      /\ nread + ninput <= StreamLen
  BY StartFacts DEF IInv, BufferTypeOK, WindowInv, ReadTurn
<1>2. ToRead \in Nat /\ ToRead > 0 /\ ToRead <= ninput - inIdx
      /\ ToRead <= nsamples - readIdx
  BY <1>1 DEF ToRead
<1> HIDE DEF ToRead
<1>3. QED
  BY <1>1, <1>2

(* The invariant holds initially.                                          *)
LEMMA InitInv ==
  ASSUME AlwaysPassing, Init
  PROVE  IInv
<1> USE BufferAssumption DEF Init
<1>1. nsamples \in Nat /\ nsamples > 0
  OBVIOUS
<1>2. BufferTypeOK
  <2>1. mem \in [Bufs -> [0 .. nsamples - 1 -> Int]]
    BY DEF Junk
  <2>2. bufAbs \in [Bufs -> Nat] /\ block \in [0 .. blockLen - 1 -> Int]
    BY DEF Junk
  <2>3. latestValid \in BOOLEAN
    OBVIOUS
  <2>4. QED
    BY <1>1, <2>1, <2>2, <2>3 DEF BufferTypeOK, Bufs
<1>3. RingInv /\ WindowInv /\ ReadInv
  BY DEF AlwaysPassing, RingInv, WindowInv, ReadInv, Filled
<1>4. WriteInv /\ SentInv
  BY DEF WriteInv, SentInv
<1>5. QED
  BY <1>2, <1>3, <1>4 DEF IInv

-----------------------------------------------------------------------------
(* Steps that leave the buffers and the output alone, and do not take the  *)
(* position back.                                                          *)
LEMMA QuietInv ==
  ASSUME IInv,
         UNCHANGED << nsamples, writeIdx, ringVars, mem, bufAbs, block, blockLen >>,
         BufferTypeOK', WindowInv',
         readIdx' = 0 \/ readIdx' = readIdx,
         Pos' = Pos
  PROVE  IInv'
<1> USE DEF IInv
<1>1. UNCHANGED << nsamples, writeIdx, reading, writing, latest, latestValid, mem,
                   bufAbs, block, blockLen >>
  BY DEF ringVars
<1>2. StartAbs \in Nat /\ StartAbs' \in Nat /\ StartAbs <= StartAbs'
  <2>1. CASE readIdx' = 0
    BY <2>1, StartFacts DEF StartAbs
  <2>2. CASE readIdx' = readIdx
    BY <1>1, <2>2, StartFacts DEF StartAbs
  <2>3. QED
    BY <2>1, <2>2
<1>3. RingInv'
  BY <1>1 DEF RingInv
<1>4. ReadInv'
  <2>1. CASE readIdx' = 0
    BY <2>1 DEF ReadInv, Filled
  <2>2. CASE readIdx' = readIdx
    BY <1>1, <2>2 DEF ReadInv, Filled
  <2>3. QED
    BY <2>1, <2>2
<1>5. ASSUME NEW s \in Nat, s <= StartAbs
      PROVE  s <= StartAbs'
  BY <1>2, <1>5
<1>6. WriteInv'
  <2>1. latestValid => bufAbs[latest] + nsamples \in Nat
    <3>1. nsamples \in Nat /\ latestValid => bufAbs[latest] \in Nat
      BY DEF BufferTypeOK, RingInv
    <3>2. QED
      BY <3>1, StartFacts
  <2>2. latestValid => bufAbs[latest] + nsamples <= StartAbs'
    BY <1>5, <2>1 DEF WriteInv
  <2>3. QED
    BY <1>1, <2>2 DEF WriteInv, Filled
<1>7. SentInv'
  <2>1. blockLen > 0 => block[0] + blockLen <= StartAbs'
    <3> SUFFICES ASSUME blockLen > 0
                 PROVE  block[0] + blockLen <= StartAbs'
      OBVIOUS
    <3>1. block[0] \in Int /\ blockLen \in Nat
      BY DEF BufferTypeOK
    <3>2. block[0] + blockLen <= StartAbs
      BY DEF SentInv
    <3>3. QED
      BY <1>2, <3>1, <3>2
  <2>2. QED
    BY <1>1, <2>1 DEF SentInv
<1>8. QED
  BY <1>3, <1>4, <1>6, <1>7

LEMMA BookkeepingInv ==
  ASSUME IInv,
         \/ \E n \in 0 .. MaxItems : WorkDrop(n)
         \/ \E n \in 1 .. MaxItems, space \in 0 .. MaxRoom : WorkBegin(n, space)
         \/ Consume
         \/ WorkReturn
         \/ RestartNowhere
         \/ \E n \in NSampleChoices \cup {0} : SetNsamples(n)
         \/ UNCHANGED vars
  PROVE  IInv'
<1> USE BufferAssumption DEF IInv
<1>1. ASSUME NEW n \in 0 .. MaxItems, WorkDrop(n)
      PROVE  IInv'
  <2>1. n = 0
    BY <1>1 DEF WorkDrop, WindowInv
  <2>2. nread + 0 = nread
    BY StartFacts
  <2>3. /\ nread' = nread
        /\ UNCHANGED << nsamples, nextNsamples, readIdx, writeIdx, ringVars, passData,
                        bufVars, pc, ninput, inIdx, room, outIdx, blockVars >>
    BY <1>1, <2>1, <2>2 DEF WorkDrop
  <2>4. BufferTypeOK' /\ WindowInv' /\ Pos' = Pos
    BY <2>3 DEF BufferTypeOK, WindowInv, Pos, ringVars, bufVars, blockVars
  <2>5. QED
    BY <2>3, <2>4, QuietInv DEF bufVars, blockVars
<1>2. ASSUME NEW n \in 1 .. MaxItems, NEW space \in 0 .. MaxRoom, WorkBegin(n, space)
      PROVE  IInv'
  <2>1. /\ UNCHANGED << nsamples, nextNsamples, readIdx, writeIdx, ringVars, passData,
                        bufVars, nread, blockVars >>
        /\ ninput' = n /\ inIdx' = 0 /\ room' = space /\ outIdx' = 0 /\ pc' = "read"
        /\ nread + n <= StreamLen
        /\ inIdx = 0
        /\ n \in Nat /\ space \in Nat
    BY <1>2 DEF WorkBegin, WindowInv
  <2>2. BufferTypeOK' /\ Pos' = Pos
    BY <2>1 DEF BufferTypeOK, Pos, ringVars, bufVars, blockVars
  <2>3. WindowInv'
    <3>1. nread + n <= StreamLen /\ 0 <= n
      BY <2>1
    <3>2. QED
      BY <2>1, <3>1 DEF WindowInv
  <2>4. QED
    BY <2>1, <2>2, <2>3, QuietInv DEF bufVars, blockVars
<1>3. ASSUME Consume
      PROVE  IInv'
  <2>1. /\ UNCHANGED << nsamples, nextNsamples, readIdx, writeIdx, ringVars, passData,
                        bufVars, room, outIdx, blockVars >>
        /\ inIdx = ninput
        /\ nread' = nread + ninput /\ inIdx' = 0 /\ ninput' = 0 /\ pc' = "write"
    BY <1>3 DEF Consume
  <2>2. nread + ninput + 0 = nread + ninput /\ nread + ninput \in 0 .. StreamLen
    BY <1>3, StartFacts DEF Consume, WindowInv, BufferTypeOK
  <2>3. Pos' = Pos
    BY <2>1, <2>2 DEF Pos
  <2>4. nread' \in 0 .. StreamLen
    BY <2>1, <2>2
  <2>5. BufferTypeOK'
    BY <2>1, <2>4 DEF BufferTypeOK, ringVars, bufVars, blockVars
  <2>6. WindowInv'
    BY <2>1 DEF WindowInv
  <2>7. QED
    BY <2>1, <2>3, <2>5, <2>6, QuietInv DEF bufVars, blockVars
<1>4. ASSUME WorkReturn
      PROVE  IInv'
  <2>1. BufferTypeOK' /\ WindowInv' /\ Pos' = Pos
    BY <1>4 DEF WorkReturn, BufferTypeOK, WindowInv, Pos, ringVars, bufVars, blockVars
  <2>2. QED
    BY <1>4, <2>1, QuietInv DEF WorkReturn, bufVars, blockVars
<1>5. ASSUME NEW n \in NSampleChoices \cup {0}, SetNsamples(n)
      PROVE  IInv'
  <2>1. 0 \in 0 .. nsamples - 1
    BY StartFacts
  <2>2. BufferTypeOK' /\ WindowInv' /\ Pos' = Pos
    BY <1>5, <2>1
    DEF SetNsamples, BufferTypeOK, WindowInv, Pos, ringVars, bufVars, blockVars
  <2>3. QED
    BY <1>5, <2>2, QuietInv DEF SetNsamples, bufVars, blockVars
<1>6. ASSUME UNCHANGED vars
      PROVE  IInv'
  <2>1. BufferTypeOK' /\ WindowInv' /\ Pos' = Pos
    BY <1>6 DEF vars, BufferTypeOK, WindowInv, Pos, ringVars, bufVars, blockVars
  <2>2. QED
    BY <1>6, <2>1, QuietInv DEF vars, bufVars, blockVars
<1>7. ASSUME RestartNowhere
      PROVE  IInv'
  <2>1. BufferTypeOK' /\ WindowInv' /\ Pos' = Pos
    BY <1>7 DEF RestartNowhere, ReadTurn, BufferTypeOK, WindowInv, Pos, ringVars, bufVars,
                blockVars
  <2>2. QED
    BY <1>7, <2>1, QuietInv DEF RestartNowhere, bufVars, blockVars
<1>8. QED
  BY <1>1, <1>2, <1>3, <1>4, <1>5, <1>6, <1>7

-----------------------------------------------------------------------------
(* The read loop.                                                          *)

(* New buffers: nothing is kept but the block that was being sent.         *)
LEMMA ReinitializeInv ==
  ASSUME IInv, Reinitialize
  PROVE  IInv'
<1> USE BufferAssumption DEF IInv
<1>1. /\ readIdx = 0 /\ nextNsamples \in NSampleChoices
      /\ nsamples' = nextNsamples
      /\ mem' = [b \in Bufs |-> [j \in 0 .. nextNsamples - 1 |-> Junk]]
      /\ writeIdx' = 0 /\ readIdx' = 0 /\ reading' = 0 /\ writing' = 1
      /\ latest' = -1 /\ latestValid' = FALSE /\ nextNsamples' = 0
      /\ UNCHANGED << passData, bufAbs, nread, pc, ninput, inIdx, room, outIdx,
                      block, blockLen >>
  BY DEF Reinitialize, InitBuffers, BufferTypeOK, blockVars
<1>2. nextNsamples \in Nat /\ 0 \in 0 .. nextNsamples - 1 /\ 0 \in 0 .. nextNsamples
  BY <1>1
<1>3. mem' \in [Bufs -> [0 .. nextNsamples - 1 -> Int]]
  BY <1>1 DEF Junk
<1>4. BufferTypeOK'
  <2>1. latestValid' \in BOOLEAN
    BY <1>1
  <2>2. QED
    BY <1>1, <1>2, <1>3, <2>1 DEF BufferTypeOK, Bufs
<1>5. RingInv' /\ WindowInv' /\ ReadInv' /\ WriteInv'
  BY <1>1 DEF RingInv, WindowInv, ReadInv, WriteInv, Filled
<1>6. SentInv'
  <2>1. StartAbs' = Pos /\ StartAbs = Pos
    BY <1>1 DEF StartAbs, Pos
  <2>2. QED
    BY <1>1, <2>1 DEF SentInv
<1>7. QED
  BY <1>4, <1>5, <1>6

(* The last tag of the window lies in it.                                  *)
LEMMA LastTagFacts ==
  ASSUME IInv, ReadTurn, TimeTags # {}
  PROVE  /\ LastTag \in Nat
         /\ Pos <= LastTag
         /\ LastTag <= Pos + ToRead - 1
<1>1. /\ Pos \in Nat /\ ToRead \in Nat /\ StreamLen \in Nat
  BY StartFacts, ReadFacts
<1> HIDE DEF Pos, ToRead
<1>2. TimeTags \in SUBSET (0 .. StreamLen) /\ TimeTags # {}
      /\ \A i \in TimeTags : i \in Pos .. Pos + ToRead - 1
  BY <1>1 DEF TimeTags, Tagged, Window
<1>3. LastTag \in TimeTags
  BY <1>1, <1>2, MaxInSet DEF LastTag
<1>4. QED
  BY <1>1, <1>2, <1>3

(* Starting over: the position moves to the tag, which no sample that was  *)
(* kept lies after.                                                        *)
LEMMA RestartInv ==
  ASSUME IInv, Restart
  PROVE  IInv'
<1> USE DEF IInv
<1>1. /\ ReadTurn /\ TimeTags # {}
      /\ readIdx' = 0 /\ inIdx' = LastTag - nread
      /\ bufAbs' = [bufAbs EXCEPT ![reading] = StartAbs]
      /\ UNCHANGED << nsamples, nextNsamples, writeIdx, reading, writing, latest,
                      latestValid, passData, mem, nread, pc, ninput, room, outIdx,
                      block, blockLen >>
  BY DEF Restart, ringVars, blockVars
<1>2. /\ LastTag \in Nat /\ Pos <= LastTag /\ LastTag <= Pos + ToRead - 1
      /\ StartAbs \in Nat /\ StartAbs <= Pos /\ Pos \in Nat
      /\ nread \in Nat /\ nsamples \in Nat /\ nsamples > 0
      /\ inIdx + ToRead <= ninput /\ ToRead \in Nat /\ inIdx \in Nat /\ ninput \in Nat
  BY <1>1, StartFacts, ReadFacts, LastTagFacts DEF BufferTypeOK
<1>3. /\ LastTag - nread \in Nat
      /\ nread + (LastTag - nread) = LastTag
      /\ LastTag - nread <= ninput
      /\ StartAbs <= LastTag
  <2>1. Pos = nread + inIdx
    BY DEF Pos
  <2> HIDE DEF LastTag, ToRead, StartAbs, Pos
  <2>2. QED
    BY <1>2, <2>1
<1>4. Pos' = LastTag
  BY <1>1, <1>3 DEF Pos
<1>5. StartAbs' = LastTag
  BY <1>1, <1>4 DEF StartAbs
<1>6. bufAbs' \in [Bufs -> Nat]
      /\ \A b \in Bufs \ {reading} : bufAbs'[b] = bufAbs[b]
  BY <1>1, <1>2 DEF BufferTypeOK
<1>7. BufferTypeOK'
  <2>1. 0 \in 0 .. nsamples - 1
    BY <1>2
  <2>2. inIdx' \in Nat
    BY <1>1, <1>3
  <2>3. QED
    BY <1>1, <1>6, <2>1, <2>2 DEF BufferTypeOK
<1>8. RingInv' /\ ReadInv'
  BY <1>1 DEF RingInv, ReadInv, Filled
<1>9. WindowInv'
  <2>1. inIdx' <= ninput'
    BY <1>1, <1>3
  <2>2. QED
    BY <1>1, <2>1 DEF WindowInv, ReadTurn
<1> HIDE DEF LastTag, ToRead, StartAbs, Pos
<1>10. WriteInv'
  <2> SUFFICES ASSUME latestValid
               PROVE  WriteInv'
    BY <1>1 DEF WriteInv
  <2>1. writing \in Bufs \ {reading} /\ latest \in Bufs \ {reading}
    BY DEF RingInv, BufferTypeOK
  <2>2. bufAbs'[writing] = bufAbs[writing] /\ bufAbs'[latest] = bufAbs[latest]
    BY <1>6, <2>1
  <2>3. bufAbs[latest] + nsamples <= LastTag
    <3>1. bufAbs[latest] \in Nat /\ bufAbs[latest] + nsamples <= StartAbs
      BY <2>1 DEF WriteInv, BufferTypeOK
    <3>2. QED
      BY <1>2, <1>3, <3>1
  <2>4. Filled(writing, nsamples)' /\ Filled(latest, nsamples)'
    BY <1>1, <2>2 DEF WriteInv, Filled
  <2>5. QED
    BY <1>1, <1>5, <2>2, <2>3, <2>4 DEF WriteInv
<1>11. SentInv'
  <2>1. blockLen > 0 => block[0] + blockLen <= LastTag
    <3> SUFFICES ASSUME blockLen > 0
                 PROVE  block[0] + blockLen <= LastTag
      OBVIOUS
    <3>1. block[0] \in Int /\ blockLen \in Nat /\ block[0] + blockLen <= StartAbs
      BY DEF BufferTypeOK, SentInv
    <3>2. QED
      BY <1>2, <1>3, <3>1
  <2>2. bufAbs'[writing] = bufAbs[writing]
    BY <1>6 DEF RingInv, BufferTypeOK
  <2>3. QED
    BY <1>1, <1>5, <2>1, <2>2 DEF SentInv
<1>12. QED
  BY <1>7, <1>8, <1>9, <1>10, <1>11

(* Reading: the buffer holds the samples from its start on, and when it is *)
(* full it is the latest, behind all that is to be written out.            *)
LEMMA ReadInvariant ==
  ASSUME IInv, Read
  PROVE  IInv'
<1> USE DEF IInv
<1> DEFINE k == ToRead
           s == StartAbs
           r == readIdx
<1>1. /\ ReadTurn
      /\ bufAbs' = [bufAbs EXCEPT ![reading] = s]
      /\ mem' = [mem EXCEPT ![reading] =
                   [j \in DOMAIN mem[reading] |-> IF j \in r .. r + k - 1
                                       THEN Pos + j - r ELSE mem[reading][j]]]
      /\ inIdx' = inIdx + k
      /\ UNCHANGED << nsamples, nextNsamples, passData, nread, pc, ninput, room,
                      outIdx, block, blockLen >>
  BY DEF Read, blockVars
<1>2. \/ /\ r + k = nsamples /\ readIdx' = 0 /\ SwitchReading
      \/ /\ r + k # nsamples /\ readIdx' = r + k
         /\ UNCHANGED << writeIdx, reading, writing, latest, latestValid >>
  BY DEF Read, ringVars
<1>3. /\ k \in Nat /\ k > 0 /\ r + k <= nsamples
      /\ inIdx + k \in Nat /\ inIdx + k <= ninput
      /\ s \in Nat /\ s + r = Pos /\ s <= Pos /\ Pos \in Nat
      /\ nread \in Nat /\ nsamples \in Nat /\ nsamples > 0
      /\ r \in Nat /\ inIdx \in Nat
      /\ r > 0 => s = bufAbs[reading]
  BY <1>1, StartFacts, ReadFacts DEF BufferTypeOK
<1>4. Pos' = Pos + k
  <2>1. Pos = nread + inIdx
    BY DEF Pos
  <2>2. nread + (inIdx + k) = Pos + k
    BY <1>3, <2>1
  <2>3. Pos' = nread + (inIdx + k)
    BY <1>1 DEF Pos
  <2>4. QED
    BY <2>2, <2>3
<1> HIDE DEF ToRead, StartAbs, Pos, k, s
<1>5. /\ reading \in Bufs /\ writing \in Bufs /\ reading # writing
      /\ bufAbs' \in [Bufs -> Nat] /\ bufAbs'[reading] = s
      /\ \A b \in Bufs \ {reading} : bufAbs'[b] = bufAbs[b] /\ mem'[b] = mem[b]
  BY <1>1, <1>3 DEF BufferTypeOK, RingInv
<1>6. /\ mem' \in [Bufs -> [0 .. nsamples - 1 -> Int]]
      /\ \A j \in 0 .. nsamples - 1 :
           mem'[reading][j] = IF j \in r .. r + k - 1 THEN Pos + j - r
                              ELSE mem[reading][j]
  <2>1. /\ mem \in [Bufs -> [0 .. nsamples - 1 -> Int]]
        /\ DOMAIN mem[reading] = 0 .. nsamples - 1
    BY <1>5 DEF BufferTypeOK
  <2> DEFINE f == [j \in DOMAIN mem[reading] |-> IF j \in r .. r + k - 1
                                      THEN Pos + j - r ELSE mem[reading][j]]
  <2>2. f \in [0 .. nsamples - 1 -> Int]
    BY <1>3, <1>5, <2>1
  <2>3. mem' = [mem EXCEPT ![reading] = f]
    BY <1>1
  <2>4. \A j \in 0 .. nsamples - 1 :
          f[j] = IF j \in r .. r + k - 1 THEN Pos + j - r ELSE mem[reading][j]
    BY <2>1
  <2> HIDE DEF f
  <2>5. QED
    BY <1>5, <2>1, <2>2, <2>3, <2>4
<1>7. \A j \in 0 .. r + k - 1 : mem'[reading][j] = bufAbs'[reading] + j
  <2> SUFFICES ASSUME NEW j \in 0 .. r + k - 1
               PROVE  mem'[reading][j] = s + j
    BY <1>5
  <2>1. j \in 0 .. nsamples - 1 /\ j \in Nat
    BY <1>3
  <2>2. CASE j < r
    <3>1. j \in 0 .. r - 1 /\ r > 0 /\ j \notin r .. r + k - 1
      BY <1>3, <2>1, <2>2
    <3>2. mem[reading][j] = bufAbs[reading] + j
      BY <3>1 DEF ReadInv, Filled
    <3>3. QED
      BY <1>3, <1>6, <2>1, <3>1, <3>2
  <2>3. CASE ~(j < r)
    <3>1. j \in r .. r + k - 1 /\ Pos + j - r = s + j
      BY <1>3, <2>1, <2>3
    <3>2. QED
      BY <1>6, <2>1, <3>1
  <2>4. QED
    BY <2>2, <2>3
<1> DEFINE FilledTo(n) ==
      \A j \in 0 .. n - 1 : mem'[reading][j] = bufAbs'[reading] + j
<1>7a. PICK n \in Nat : n = r + k /\ FilledTo(n)
  BY <1>3, <1>7
<1> HIDE DEF FilledTo
<1>8. WindowInv'
  <2>1. inIdx' <= ninput'
    BY <1>1, <1>3
  <2>2. QED
    BY <1>1, <2>1 DEF WindowInv, ReadTurn
<1>9. inIdx' \in Nat
  BY <1>1, <1>3
<1>10. latestValid => /\ latest \in Bufs /\ latest # reading
                      /\ bufAbs[latest] \in Nat /\ bufAbs[writing] \in Nat
                      /\ bufAbs[latest] + nsamples <= s
                      /\ bufAbs[writing] + nsamples <= s
  <2> SUFFICES ASSUME latestValid
               PROVE  /\ latest \in Bufs /\ latest # reading
                      /\ bufAbs[latest] \in Nat /\ bufAbs[writing] \in Nat
                      /\ bufAbs[latest] + nsamples <= s
                      /\ bufAbs[writing] + nsamples <= s
    OBVIOUS
  <2>1. latest \in Bufs /\ latest # reading
    BY DEF RingInv
  <2>2. /\ bufAbs[latest] \in Nat /\ bufAbs[writing] \in Nat
        /\ bufAbs[latest] + nsamples <= s
        /\ writing # latest => bufAbs[writing] + nsamples <= bufAbs[latest]
    BY <1>5, <2>1 DEF BufferTypeOK, WriteInv, s
  <2>3. bufAbs[writing] + nsamples <= s
    BY <1>3, <2>2
  <2>4. QED
    BY <2>1, <2>2, <2>3
<1>11. blockLen > 0 => /\ block[0] \in Int /\ blockLen \in Nat
                       /\ block[0] + blockLen <= s
  BY DEF BufferTypeOK, SentInv, s
<1>12. latestValid =>
         /\ \A j \in 0 .. nsamples - 1 : mem'[writing][j] = bufAbs'[writing] + j
         /\ bufAbs'[writing] = bufAbs[writing]
  BY <1>5 DEF WriteInv, Filled
<1>13. CASE r + k = nsamples
  <2>1. /\ readIdx' = 0 /\ latest' = reading /\ latestValid' = TRUE
        /\ reading' = 3 - writing - reading
        /\ IF latestValid THEN UNCHANGED << writeIdx, writing >>
           ELSE writeIdx' = 0 /\ writing' = reading
    BY <1>2, <1>13 DEF SwitchReading, NextBuf
  <2>2. /\ reading' \in Bufs /\ reading' # reading /\ reading' # writing
    BY <1>5, <2>1 DEF Bufs
  <2>3. s + nsamples = Pos + k /\ s <= Pos + k
    BY <1>3, <1>13
  <2>4. StartAbs' = Pos + k
    BY <1>4, <2>1 DEF StartAbs
  <2>5. \A j \in 0 .. nsamples - 1 : mem'[reading][j] = bufAbs'[reading] + j
    <3>1. FilledTo(nsamples)
      BY <1>13, <1>7a
    <3>2. QED
      BY <3>1 DEF FilledTo
  <2>6. BufferTypeOK'
    <3>1. 0 \in 0 .. nsamples - 1 /\ 0 \in 0 .. nsamples
      BY <1>3
    <3>2. latestValid' \in BOOLEAN
      BY <2>1
    <3>3. writeIdx' \in 0 .. nsamples /\ writing' \in Bufs
      BY <1>5, <2>1, <3>1 DEF BufferTypeOK
    <3>4. QED
      BY <1>1, <1>5, <1>6, <1>9, <2>1, <2>2, <3>1, <3>2, <3>3 DEF BufferTypeOK
  <2>7. RingInv'
    <3>1. CASE latestValid
      BY <1>1, <1>5, <2>1, <2>2, <3>1 DEF RingInv
    <3>2. CASE ~latestValid
      BY <1>1, <1>3, <1>5, <2>1, <2>2, <3>2 DEF RingInv
    <3>3. QED
      BY <3>1, <3>2
  <2>8. ReadInv'
    BY <2>1 DEF ReadInv, Filled
  <2>9. WriteInv'
    <3>1. bufAbs'[latest'] + nsamples' <= StartAbs'
      <4>1. s + nsamples <= Pos + k
        BY <1>3, <2>3
      <4>2. QED
        BY <1>1, <1>5, <2>1, <2>4, <4>1
    <3>2. Filled(latest, nsamples)'
      BY <1>1, <2>1, <2>5 DEF Filled
    <3>3. Filled(writing, nsamples)'
      BY <1>1, <1>12, <2>1, <2>5 DEF Filled
    <3>4. writing' # latest' => bufAbs'[writing'] + nsamples' <= bufAbs'[latest']
      BY <1>1, <1>5, <1>10, <1>12, <2>1
    <3>5. QED
      BY <3>1, <3>2, <3>3, <3>4 DEF WriteInv
  <2>10. SentInv'
    <3>1. blockLen > 0 => block[0] + blockLen <= Pos + k
      BY <1>3, <1>11, <2>3
    <3>2. CASE latestValid
      BY <1>1, <1>12, <2>1, <2>4, <3>1, <3>2 DEF SentInv
    <3>3. CASE ~latestValid
      <4>1. blockLen > 0 => block[0] + blockLen <= bufAbs'[reading]
        BY <1>5, <1>11
      <4>2. ~(writeIdx' > 0)
        BY <2>1, <3>3
      <4>3. QED
        BY <1>1, <2>1, <2>4, <3>1, <3>3, <4>1, <4>2 DEF SentInv
    <3>4. QED
      BY <3>2, <3>3
  <2>11. QED
    BY <1>8, <2>6, <2>7, <2>8, <2>9, <2>10
<1>14. CASE r + k # nsamples
  <2>1. /\ readIdx' = r + k
        /\ UNCHANGED << writeIdx, reading, writing, latest, latestValid >>
    BY <1>2, <1>14
  <2>2. r + k > 0 /\ r + k \in 0 .. nsamples - 1 /\ r + k # 0
    BY <1>3, <1>14
  <2>3. readIdx' # 0 /\ readIdx' \in 0 .. nsamples - 1
    BY <2>1, <2>2
  <2>4. StartAbs' = s
    BY <1>5, <2>1, <2>3 DEF StartAbs
  <2>5. BufferTypeOK'
    BY <1>1, <1>5, <1>6, <1>9, <2>1, <2>3 DEF BufferTypeOK
  <2>6. RingInv'
    BY <1>1, <2>1 DEF RingInv
  <2>7. ReadInv'
    <3>1. s + (r + k) = Pos + k
      BY <1>3
    <3>2. bufAbs'[reading'] + readIdx' = Pos'
      BY <1>4, <1>5, <2>1, <3>1
    <3>3. Filled(reading, readIdx)'
      <4>1. FilledTo(readIdx')
        BY <1>7a, <2>1
      <4>2. QED
        BY <2>1, <4>1 DEF Filled, FilledTo
    <3>4. QED
      BY <3>2, <3>3 DEF ReadInv
  <2>8. WriteInv'
    <3> SUFFICES ASSUME latestValid
                 PROVE  WriteInv'
      BY <2>1 DEF WriteInv
    <3>1. bufAbs'[latest] = bufAbs[latest] /\ mem'[latest] = mem[latest]
      BY <1>5, <1>10
    <3>2. Filled(latest, nsamples)'
      BY <1>1, <2>1, <3>1 DEF WriteInv, Filled
    <3>3. Filled(writing, nsamples)'
      BY <1>1, <1>12, <2>1 DEF Filled
    <3>4. /\ writing # latest => bufAbs[writing] + nsamples <= bufAbs[latest]
          /\ bufAbs[latest] + nsamples <= s
      BY <1>10 DEF WriteInv
    <3>5. QED
      BY <1>1, <1>12, <2>1, <2>4, <3>1, <3>2, <3>3, <3>4 DEF WriteInv
  <2>9. SentInv'
    BY <1>1, <1>11, <1>12, <2>1, <2>4 DEF SentInv
  <2>10. QED
    BY <1>8, <2>5, <2>6, <2>7, <2>8, <2>9
<1>15. QED
  BY <1>13, <1>14

-----------------------------------------------------------------------------
(* The write loop.                                                         *)

(* A stretch of the input, spelled out.                                    *)
LEMMA StretchFacts ==
  ASSUME NEW first \in Nat, NEW k \in Nat
  PROVE  /\ BlocksView!Stretch(first, k) = [j \in 0 .. k - 1 |-> first + j]
         /\ k > 0 => BlocksView!Stretch(first, k)[0] = first
<1>1. BlocksView!Stretch(first, k) = [j \in 0 .. k - 1 |-> first + j]
  BY DEF BlocksView!Stretch
<1>2. ASSUME k > 0
      PROVE  BlocksView!Stretch(first, k)[0] = first
  <2>1. 0 \in 0 .. k - 1 /\ first + 0 = first
    BY <1>2
  <2>2. QED
    BY <1>1, <2>1
<1>3. QED
  BY <1>1, <1>2

(* What a turn of the write loop sends is the next part of the buffer, and *)
(* makes with what was sent of it a stretch of the input.                  *)
LEMMA WriteFacts ==
  ASSUME IInv, Write
  PROVE  /\ latestValid
         /\ ToWrite \in Nat /\ ToWrite > 0 /\ writeIdx \in Nat
         /\ writeIdx + ToWrite <= nsamples
         /\ bufAbs[writing] \in Nat
         /\ blockLen' = writeIdx + ToWrite
         /\ block' = BlocksView!Stretch(bufAbs[writing], writeIdx + ToWrite)
         /\ block'[0] = bufAbs[writing]
<1> USE DEF IInv
<1> DEFINE cnt == ToWrite
           w == writeIdx
           base == bufAbs[writing]
<1>1. /\ latestValid /\ w < nsamples /\ outIdx < room
      /\ w \in Nat /\ nsamples \in Nat /\ outIdx \in Nat /\ room \in Nat
      /\ base \in Nat
  BY StartFacts DEF Write, RingInv, BufferTypeOK
<1>2. cnt \in Nat /\ cnt > 0 /\ w + cnt <= nsamples
  <2>1. \/ cnt = room - outIdx /\ room - outIdx < nsamples - w
        \/ cnt = nsamples - w
    BY DEF ToWrite
  <2> HIDE DEF cnt, w
  <2>2. QED
    BY <1>1, <2>1
<1>3. \A j \in 0 .. nsamples - 1 : mem[writing][j] = base + j
  BY <1>1 DEF WriteInv, Filled
<1>4. Send(w, cnt) /\ (w > 0 => \A j \in 0 .. w - 1 : block[j] = base + j)
  <2>1. CASE w = 0
    BY <2>1 DEF Write
  <2>2. CASE w > 0
    <3>1. blockLen = w
      BY <1>1, <2>2 DEF SentInv
    <3>2. block = BlocksView!Stretch(base, w)
      BY <1>1, <2>2, <3>1 DEF SentInv
    <3>3. Send(w, cnt)
      BY <2>2, <3>1 DEF Write
    <3>4. QED
      BY <3>2, <3>3 DEF BlocksView!Stretch
  <2>3. QED
    BY <1>1, <2>1, <2>2
<1> HIDE DEF cnt, w, base
<1>5. /\ blockLen' = w + cnt
      /\ block' = [j \in 0 .. w + cnt - 1 |->
                    IF j < w THEN block[j] ELSE mem[writing][w + j - w]]
  BY <1>4 DEF Send, w
<1>6. ASSUME NEW j \in 0 .. w + cnt - 1
      PROVE  (IF j < w THEN block[j] ELSE mem[writing][w + j - w]) = base + j
  <2>1. /\ j \in Nat /\ w + j - w = j /\ j \in 0 .. nsamples - 1
        /\ j < w => j \in 0 .. w - 1 /\ w > 0
    BY <1>1, <1>2
  <2>2. QED
    BY <1>3, <1>4, <2>1
<1>7. block' = BlocksView!Stretch(base, w + cnt)
  <2> DEFINE n == w + cnt - 1
             sent(j) == IF j < w THEN block[j] ELSE mem[writing][w + j - w]
  <2>1. \A j \in 0 .. n : sent(j) = base + j
    BY <1>6
  <2>2. block' = [j \in 0 .. n |-> sent(j)]
    BY <1>5
  <2>3. PICK k \in Nat : k = w + cnt /\ n = k - 1
    BY <1>1, <1>2
  <2> HIDE DEF n, sent
  <2>4. [j \in 0 .. n |-> sent(j)] = [j \in 0 .. n |-> base + j]
    BY <2>1
  <2>5. BlocksView!Stretch(base, k) = [j \in 0 .. k - 1 |-> base + j]
    BY <1>1, StretchFacts
  <2>6. QED
    BY <2>2, <2>3, <2>4, <2>5
<1>8. block'[0] = base
  <2>1. w + cnt \in Nat /\ w + cnt > 0
    BY <1>1, <1>2
  <2>2. QED
    BY <1>1, <1>7, <2>1, StretchFacts
<1>9. QED
  BY <1>1, <1>2, <1>5, <1>7, <1>8 DEF cnt, w, base

LEMMA WriteInvariant ==
  ASSUME IInv, Write
  PROVE  IInv'
<1> USE DEF IInv
<1> DEFINE cnt == ToWrite
           w == writeIdx
           base == bufAbs[writing]
<1>1. /\ latestValid /\ cnt \in Nat /\ cnt > 0 /\ w \in Nat /\ w + cnt <= nsamples
      /\ base \in Nat
      /\ blockLen' = w + cnt /\ block'[0] = base
      /\ block' = BlocksView!Stretch(base, w + cnt)
  BY WriteFacts
<1>2. /\ UNCHANGED << nsamples, nextNsamples, readIdx, reading, latest, passData, mem,
                      bufAbs, nread, pc, ninput, inIdx, room >>
      /\ outIdx' = outIdx + cnt
      /\ \/ /\ w + cnt < nsamples /\ writeIdx' = w + cnt
            /\ UNCHANGED << writing, latestValid >>
         \/ /\ latest = writing /\ latestValid' = FALSE /\ writeIdx' = nsamples
            /\ UNCHANGED writing
         \/ /\ ~(w + cnt < nsamples) /\ latest # writing
            /\ writeIdx' = 0 /\ writing' = latest
            /\ UNCHANGED latestValid
  BY DEF Write
<1>3. /\ nsamples \in Nat /\ nsamples > 0 /\ outIdx \in Nat
      /\ latest \in Bufs /\ writing \in Bufs /\ latest # reading
      /\ bufAbs[latest] \in Nat /\ StartAbs \in Nat
      /\ bufAbs[latest] + nsamples <= StartAbs
      /\ writing # latest => base + nsamples <= bufAbs[latest]
  BY <1>1, StartFacts DEF RingInv, WriteInv, BufferTypeOK
<1>4. Pos' = Pos /\ StartAbs' = StartAbs
  BY <1>2 DEF Pos, StartAbs
<1> HIDE DEF cnt, w, base, ToWrite, StartAbs, Pos
<1>5. WindowInv' /\ ReadInv'
  BY <1>2, <1>4 DEF WindowInv, ReadInv, Filled
<1>6. /\ w + cnt \in Nat /\ outIdx + cnt \in Nat /\ w + cnt > 0
      /\ base + (w + cnt) <= StartAbs
      /\ nsamples \in 0 .. nsamples /\ 0 \in 0 .. nsamples
      /\ w + cnt \in 0 .. nsamples
  <2>1. base + nsamples <= StartAbs
    BY <1>1, <1>3 DEF base
  <2>2. QED
    BY <1>1, <1>3, <2>1
<1>7. BufferTypeOK'
  <2>1. writeIdx' \in 0 .. nsamples /\ writing' \in Bufs /\ outIdx' \in Nat
    BY <1>2, <1>3, <1>6
  <2>2. latestValid' \in BOOLEAN
    BY <1>1, <1>2
  <2>3. BlocksView!Stretch(base, w + cnt) \in [0 .. (w + cnt) - 1 -> Int]
    BY <1>1, <1>6 DEF BlocksView!Stretch
  <2>4. PICK n \in Nat : n = w + cnt
    BY <1>6
  <2>5. blockLen' \in Nat /\ block' \in [0 .. blockLen' - 1 -> Int]
    BY <1>1, <2>3, <2>4
  <2>6. QED
    BY <1>2, <2>1, <2>2, <2>5 DEF BufferTypeOK
<1>8. CASE w + cnt < nsamples /\ writeIdx' = w + cnt /\ UNCHANGED << writing, latestValid >>
  <2>1. writeIdx' < nsamples' /\ writeIdx' > 0
    BY <1>2, <1>6, <1>8
  <2>2. RingInv' /\ WriteInv'
    BY <1>2, <1>4, <1>8, <2>1 DEF RingInv, WriteInv, Filled
  <2>3. block'[0] + blockLen' <= StartAbs'
    BY <1>1, <1>4, <1>6
  <2>4. SentInv'
    BY <1>1, <1>2, <1>8, <2>1, <2>3 DEF SentInv, base
  <2>5. QED
    BY <1>5, <1>7, <2>2, <2>4
<1>9. CASE latest = writing /\ latestValid' = FALSE /\ UNCHANGED writing
  <2>1. RingInv' /\ WriteInv'
    BY <1>2, <1>9 DEF RingInv, WriteInv
  <2>2. block'[0] + blockLen' <= StartAbs'
    BY <1>1, <1>4, <1>6
  <2>3. SentInv'
    BY <1>1, <1>9, <2>2 DEF SentInv
  <2>4. QED
    BY <1>5, <1>7, <2>1, <2>3
<1>10. CASE /\ ~(w + cnt < nsamples) /\ latest # writing
            /\ writeIdx' = 0 /\ writing' = latest /\ UNCHANGED latestValid
  <2>1. RingInv'
    BY <1>1, <1>2, <1>3, <1>10 DEF RingInv
  <2>2. WriteInv'
    BY <1>1, <1>2, <1>3, <1>4, <1>10 DEF WriteInv, Filled
  <2>3. base + (w + cnt) <= bufAbs[latest]
    BY <1>1, <1>3, <1>10
  <2>4. SentInv'
    <3>1. block'[0] + blockLen' <= StartAbs'
      BY <1>1, <1>4, <1>6
    <3>2. block'[0] + blockLen' <= bufAbs'[writing']
      BY <1>1, <1>2, <1>10, <2>3
    <3>3. ~(writeIdx' > 0)
      BY <1>10
    <3>4. QED
      BY <1>1, <3>1, <3>2, <3>3 DEF SentInv
  <2>5. QED
    BY <1>5, <1>7, <2>1, <2>2, <2>4
<1>11. QED
  BY <1>2, <1>8, <1>9, <1>10

(* The invariant is inductive.                                             *)
LEMMA NextInv ==
  ASSUME AlwaysPassing, IInv, [Next]_vars
  PROVE  IInv'
<1>1. ~\E b \in BOOLEAN : SetPassData(b)
  BY DEF AlwaysPassing, SetPassData
<1>2. QED
  BY <1>1, BookkeepingInv, ReinitializeInv, RestartInv, ReadInvariant, WriteInvariant
  DEF Next, WorkStep

(* In every reachable state the buffers hold consecutive samples, are      *)
(* written out in the order of the input, and the one that is read into is *)
(* none of those to be written out.                                        *)
THEOREM Invariance ==
  ASSUME AlwaysPassing
  PROVE  Spec => []IInv
<1>1. Init => IInv
  BY InitInv
<1>2. IInv /\ [Next]_vars => IInv'
  BY NextInv
<1>3. QED
  BY <1>1, <1>2, PTL DEF Spec

-----------------------------------------------------------------------------
(* The buffer implements Blocks.                                           *)

(* A turn of the write loop starts a block or continues one.               *)
LEMMA WriteStep ==
  ASSUME IInv, Write
  PROVE  BlocksView!Next
<1> DEFINE k == writeIdx + ToWrite
           base == bufAbs[writing]
<1>1. /\ latestValid
      /\ ToWrite \in Nat /\ ToWrite > 0 /\ writeIdx \in Nat
      /\ base \in Nat
      /\ blockLen' = k
      /\ block' = BlocksView!Stretch(base, k)
      /\ block'[0] = base
  BY WriteFacts
<1> HIDE DEF base
<1>2. k \in Nat /\ k > 0 /\ k > writeIdx
  BY <1>1
<1> HIDE DEF k
<1>3. blockLen' > 0 /\ block' = BlocksView!Stretch(block'[0], blockLen')
  BY <1>1, <1>2
<1>4. CASE writeIdx = 0
  <2>1. blockLen > 0 => block[0] + blockLen <= base
    BY <1>1, <1>4 DEF IInv, SentInv, base
  <2>2. blockLen > 0 => base >= block[0] + blockLen
    <3>1. ASSUME blockLen > 0
          PROVE  block[0] \in Int /\ blockLen \in Nat
      BY <3>1 DEF IInv, BufferTypeOK
    <3>2. QED
      BY <1>1, <2>1, <3>1
  <2>3. QED
    BY <1>1, <1>3, <2>2 DEF BlocksView!Next, BlocksView!Start
<1>5. CASE writeIdx > 0
  <2>1. blockLen = writeIdx /\ block[0] = base
    BY <1>1, <1>5 DEF IInv, SentInv, base
  <2>2. blockLen > 0 /\ blockLen' > blockLen
    BY <1>1, <1>2, <1>5, <2>1
  <2>3. QED
    BY <1>1, <2>1, <2>2 DEF BlocksView!Next, BlocksView!Continue
<1>6. QED
  BY <1>1, <1>4, <1>5

(* Every other step leaves the output alone.                               *)
LEMMA QuietStep ==
  ASSUME [Next]_vars, ~Write
  PROVE  UNCHANGED << block, blockLen >>
BY DEF Next, WorkStep, WorkDrop, WorkBegin, Reinitialize, Restart, RestartNowhere, Read, Consume,
       WorkReturn, SetNsamples, SetPassData, blockVars, vars

(* The output is a sequence of blocks of consecutive input samples, in     *)
(* order and each sample once, whichever of the three buffers they went    *)
(* through, for every block size, stream of tags and window, and with      *)
(* set_nsamples called between any two calls of general_work().            *)
THEOREM SendsBlocksCorrect ==
  ASSUME AlwaysPassing
  PROVE  Spec => SendsBlocks
<1>1. Init => BlocksView!Init
  BY DEF Init, BlocksView!Init, BlocksView!Stretch, Junk
<1>2. IInv /\ [Next]_vars => [BlocksView!Next]_(BlocksView!vars)
  BY WriteStep, QuietStep DEF BlocksView!vars
<1>3. QED
  BY <1>1, <1>2, Invariance, PTL DEF Spec, SendsBlocks, BlocksView!Spec

(* Inside a block the samples are consecutive samples of the input: a gap  *)
(* needs set_pass_data.                                                    *)
THEOREM ContinuousWithoutPassData ==
  ASSUME AlwaysPassing
  PROVE  Spec => [](blockLen > 0 => ContinuousBlock)
<1>1. IInv => (blockLen > 0 => ContinuousBlock)
  BY DEF IInv, SentInv, ContinuousBlock
<1>2. QED
  BY <1>1, Invariance, PTL

-----------------------------------------------------------------------------
(* The rx_time tags that are queued.                                       *)

(* The offsets of a set in their order: each once, none missing.           *)
LEMMA InOrderFacts ==
  ASSUME NEW n \in Nat, NEW S \in SUBSET (0 .. n)
  PROVE  LET c == Cardinality(S)
         IN  /\ c \in Nat
             /\ \A i \in 1 .. c : InOrder(S)[i] \in S
             /\ \A i, j \in 1 .. c : i < j => InOrder(S)[i] < InOrder(S)[j]
             /\ \A o \in S : \E i \in 1 .. c : InOrder(S)[i] = o
<1> DEFINE c == Cardinality(S)
<1>1. /\ c \in Nat
      /\ \A o \in S : Rank(S, o) \in 0 .. c - 1
      /\ \A o, q \in S : o < q => Rank(S, o) < Rank(S, q)
      /\ \A k \in 0 .. c - 1 : \E o \in S : Rank(S, o) = k
  BY RankFacts
<1> HIDE DEF c
<1>2. ASSUME NEW i \in 1 .. c
      PROVE  InOrder(S)[i] \in S /\ Rank(S, InOrder(S)[i]) = i - 1
  <2>1. i - 1 \in 0 .. c - 1
    BY <1>1
  <2>2. \E o \in S : Rank(S, o) = i - 1
    BY <1>1, <2>1
  <2>3. InOrder(S)[i] = CHOOSE o \in S : Rank(S, o) = i - 1
    BY <1>2 DEF InOrder, Rank, c
  <2>4. QED
    BY <2>2, <2>3
<1>3. \A o, q \in S : Rank(S, o) = Rank(S, q) => o = q
  <2> SUFFICES ASSUME NEW o \in S, NEW q \in S, Rank(S, o) = Rank(S, q)
               PROVE  o = q
    OBVIOUS
  <2>1. o \in Nat /\ q \in Nat /\ Rank(S, o) \in Int /\ Rank(S, q) \in Int
    BY <1>1
  <2>2. QED
    BY <1>1, <2>1
<1>4. ASSUME NEW i \in 1 .. c, NEW j \in 1 .. c, i < j
      PROVE  InOrder(S)[i] < InOrder(S)[j]
  <2> DEFINE o == InOrder(S)[i]
             q == InOrder(S)[j]
  <2>1. /\ o \in S /\ q \in S /\ Rank(S, o) = i - 1 /\ Rank(S, q) = j - 1
        /\ Rank(S, o) \in Int /\ Rank(S, q) \in Int
    BY <1>1, <1>2
  <2> HIDE DEF o, q
  <2>2. Rank(S, o) < Rank(S, q)
    BY <1>4, <2>1
  <2>3. o # q /\ ~(q < o)
    BY <1>1, <2>1, <2>2
  <2>4. o \in Nat /\ q \in Nat
    BY <2>1
  <2>5. o < q
    BY <2>3, <2>4
  <2>6. QED
    BY <2>5 DEF o, q
<1>5. ASSUME NEW o \in S
      PROVE  \E i \in 1 .. c : InOrder(S)[i] = o
  <2>1. Rank(S, o) + 1 \in 1 .. c /\ (Rank(S, o) + 1) - 1 = Rank(S, o)
    BY <1>1
  <2>2. PICK i \in 1 .. c : i - 1 = Rank(S, o)
    BY <2>1
  <2>3. InOrder(S)[i] \in S /\ Rank(S, InOrder(S)[i]) = Rank(S, o)
    BY <1>2, <2>2
  <2>4. QED
    BY <1>3, <2>3
<1>6. QED
  BY <1>1, <1>2, <1>4, <1>5 DEF c

(* The rx_time tags of a window lie in it.                                 *)
LEMMA TimeTagFacts ==
  ASSUME IInv, ReadTurn
  PROVE  /\ StreamLen \in Nat
         /\ TimeTags \in SUBSET (0 .. StreamLen)
         /\ \A o \in TimeTags : /\ o \in Offsets /\ "rx_time" \in stream[o]
                                /\ Pos <= o /\ o < Pos + ToRead
         /\ \A o \in Offsets : "rx_time" \in stream[o] /\ Pos <= o /\ o < Pos + ToRead
                                 => o \in TimeTags
<1>1. Pos \in Nat /\ ToRead \in Nat /\ StreamLen \in Nat
  BY StartFacts, ReadFacts
<1> HIDE DEF Pos, ToRead
<1>2. QED
  BY <1>1 DEF TimeTags, Tagged, Window, Offsets

(* What a turn of the read loop appends to the queue: tags of the window,  *)
(* in their order, so that all of the window's are in the queue.           *)
LEMMA QueueFacts ==
  ASSUME IInv, rxTags \in Seq(RxTag), ReadTurn, QueueTags
  PROVE  LET n == Len(rxTags)
         IN  /\ n \in Nat
             /\ rxTags' \in Seq(RxTag)
             /\ Len(rxTags') \in Nat /\ n <= Len(rxTags')
             /\ \A i \in 1 .. n : rxTags'[i] = rxTags[i]
             /\ \A i \in n + 1 .. Len(rxTags') :
                  \E o \in TimeTags : rxTags'[i] = RxTagAt(o)
             /\ \A i, j \in n + 1 .. Len(rxTags') :
                  i < j => rxTags'[i].offset < rxTags'[j].offset
             /\ \A o \in TimeTags : \E i \in 1 .. Len(rxTags') : rxTags'[i] = RxTagAt(o)
<1> DEFINE n == Len(rxTags)
           seen == {o \in TimeTags : /\ \A p \in TimeTags : o <= p
                                     /\ rxTags # << >>
                                     /\ rxTags[Len(rxTags)] = RxTagAt(o)}
           new == TimeTags \ seen
           c == Cardinality(new)
           more == [i \in 1 .. c |-> RxTagAt(InOrder(new)[i])]
<1>1. n \in Nat /\ \A i \in 1 .. n : rxTags[i] \in RxTag
  BY LenProperties, ElementOfSeq
<1>2. rxTags' = rxTags \o more
  BY DEF QueueTags
<1>3. /\ StreamLen \in Nat /\ new \in SUBSET (0 .. StreamLen)
      /\ \A o \in TimeTags : o \in Offsets /\ RxTagAt(o) \in RxTag
                             /\ RxTagAt(o).offset = o
  <2>1. \A o \in Offsets : RxTagAt(o) \in RxTag /\ RxTagAt(o).offset = o
    BY BufferAssumption DEF Offsets, RxTagAt, RxTag
  <2>2. QED
    BY <2>1, TimeTagFacts
<1>4. \A o \in seen : n > 0 /\ n \in 1 .. n /\ rxTags[n] = RxTagAt(o)
  <2>1. rxTags # << >> => n > 0
    BY EmptySeq
  <2>2. QED
    BY <1>1, <2>1
<1> HIDE DEF seen
<1>5. /\ c \in Nat
      /\ \A i \in 1 .. c : InOrder(new)[i] \in new
      /\ \A i, j \in 1 .. c : i < j => InOrder(new)[i] < InOrder(new)[j]
      /\ \A o \in new : \E i \in 1 .. c : InOrder(new)[i] = o
  BY <1>3, InOrderFacts
<1>6. /\ more \in Seq(RxTag) /\ Len(more) = c
      /\ \A i \in 1 .. c : more[i] = RxTagAt(InOrder(new)[i])
  <2>1. \A i \in 1 .. c : RxTagAt(InOrder(new)[i]) \in RxTag
    BY <1>3, <1>5
  <2> HIDE DEF new, c
  <2>2. more \in [1 .. c -> RxTag] /\ DOMAIN more = 1 .. c
    BY <2>1
  <2>3. more \in Seq(RxTag)
    BY <1>5, <2>2
  <2>4. Len(more) = c
    BY <1>5, <2>2
  <2>5. QED
    BY <2>3, <2>4
<1> HIDE DEF more, c
<1>7. /\ rxTags' \in Seq(RxTag) /\ Len(rxTags') = n + c
      /\ \A i \in 1 .. n + c : rxTags'[i] = IF i <= n THEN rxTags[i] ELSE more[i - n]
  BY <1>2, <1>6, ConcatProperties
<1> HIDE DEF n
<1>8. ASSUME NEW i \in n + 1 .. Len(rxTags')
      PROVE  /\ i - n \in 1 .. c
             /\ rxTags'[i] = RxTagAt(InOrder(new)[i - n])
             /\ rxTags'[i].offset = InOrder(new)[i - n]
             /\ InOrder(new)[i - n] \in TimeTags
  <2>1. i - n \in 1 .. c /\ i \in 1 .. n + c /\ ~(i <= n)
    BY <1>1, <1>5, <1>7
  <2>2. rxTags'[i] = RxTagAt(InOrder(new)[i - n])
    BY <1>6, <1>7, <2>1
  <2>3. InOrder(new)[i - n] \in TimeTags
    BY <1>5, <2>1
  <2>4. QED
    BY <1>3, <2>1, <2>2, <2>3
<1>9. ASSUME NEW o \in TimeTags
      PROVE  \E i \in 1 .. Len(rxTags') : rxTags'[i] = RxTagAt(o)
  <2>1. CASE o \in seen
    BY <1>1, <1>4, <1>5, <1>7, <2>1 DEF n
  <2>2. CASE o \in new
    <3>1. PICK i \in 1 .. c : InOrder(new)[i] = o
      BY <1>5, <2>2
    <3>2. n + i \in 1 .. n + c /\ ~(n + i <= n) /\ (n + i) - n = i
      BY <1>1, <1>5
    <3>3. rxTags'[n + i] = RxTagAt(o)
      BY <1>6, <1>7, <3>1, <3>2
    <3>4. QED
      BY <1>7, <3>2, <3>3
  <2>3. QED
    BY <2>1, <2>2
<1>10. ASSUME NEW i \in n + 1 .. Len(rxTags'), NEW j \in n + 1 .. Len(rxTags'), i < j
       PROVE  rxTags'[i].offset < rxTags'[j].offset
  <2>1. i - n < j - n /\ i - n \in 1 .. c /\ j - n \in 1 .. c
    BY <1>1, <1>8, <1>10
  <2>2. QED
    BY <1>5, <1>8, <2>1
<1>11. \A i \in 1 .. n : rxTags'[i] = rxTags[i]
  BY <1>1, <1>5, <1>7
<1>12. n <= Len(rxTags') /\ Len(rxTags') \in Nat
  BY <1>1, <1>5, <1>7
<1>13. QED
  BY <1>1, <1>7, <1>8, <1>9, <1>10, <1>11, <1>12 DEF n

(* The tag d_rx_time_tags starts with.                                     *)
FirstRx == [offset |-> 0, time |-> 0]

RxTimes == {i \in Offsets : "rx_time" \in stream[i]}
Real(t) == t.offset \in RxTimes /\ t = RxTagAt(t.offset)

(* The tags that await a block, in the order of the stream, behind the one *)
(* the last estimate was based on; no tag that was read is missing.        *)
QueueInv ==
  /\ \A i, j \in 1 .. Len(rxTags) : i <= j => rxTags[i].offset <= rxTags[j].offset
  /\ \A i \in 1 .. Len(rxTags) :
       /\ currentRx.offset <= rxTags[i].offset
       /\ rxTags[i].offset <= Pos
       /\ \/ Real(rxTags[i])
          \/ i = 1 /\ rxTags[i] = FirstRx /\ currentRx = FirstRx
  /\ Real(currentRx) \/ currentRx = FirstRx
  /\ currentRx.offset <= IF blockLen > 0 THEN block[0] ELSE 0
  /\ \A o \in RxTimes : o < Pos =>
       \/ \E i \in 1 .. Len(rxTags) : rxTags[i] = RxTagAt(o)
       \/ o < currentRx.offset
       \/ currentRx = RxTagAt(o)

(* The queue after a turn of the read loop.                                *)
LEMMA QueueRead ==
  ASSUME IInv, TypeOK, QueueInv, Read \/ Restart
  PROVE  QueueInv'
<1> DEFINE n == Len(rxTags)
           m == Len(rxTags')
<1>1. /\ ReadTurn /\ QueueTags
      /\ UNCHANGED << stream, currentRx, block, blockLen >>
  BY DEF Read, Restart, timeVars, blockVars
<1>2. /\ n \in Nat /\ m \in Nat /\ n <= m
      /\ rxTags' \in Seq(RxTag)
      /\ \A i \in 1 .. n : rxTags'[i] = rxTags[i]
      /\ \A i \in n + 1 .. m : \E o \in TimeTags : rxTags'[i] = RxTagAt(o)
      /\ \A i, j \in n + 1 .. m : i < j => rxTags'[i].offset < rxTags'[j].offset
      /\ \A o \in TimeTags : \E i \in 1 .. m : rxTags'[i] = RxTagAt(o)
  BY <1>1, QueueFacts DEF TypeOK
<1>3. /\ \A o \in TimeTags : o \in RxTimes /\ Pos <= o /\ o < Pos + ToRead
      /\ \A o \in RxTimes : Pos <= o /\ o < Pos + ToRead => o \in TimeTags
      /\ RxTimes' = RxTimes
      /\ \A o \in RxTimes : o \in Nat /\ RxTagAt(o).offset = o
      /\ Pos \in Nat /\ ToRead \in Nat
  BY <1>1, TimeTagFacts, StartFacts, ReadFacts DEF RxTimes, Offsets, RxTagAt
<1>4. /\ Pos' \in Nat /\ Pos <= Pos'
      /\ \A o \in TimeTags : o <= Pos'
      /\ \A o \in RxTimes : o < Pos' => o < Pos \/ o \in TimeTags
  <2>1. CASE Read
    <3>1. inIdx' = inIdx + ToRead /\ nread' = nread
      BY <2>1 DEF Read
    <3>2. inIdx \in Nat /\ nread \in Nat
      BY StartFacts DEF IInv, BufferTypeOK
    <3>3. Pos' = Pos + ToRead
      <4>1. nread + (inIdx + ToRead) = (nread + inIdx) + ToRead
        BY <1>3, <3>2
      <4>2. QED
        BY <3>1, <4>1 DEF Pos
    <3> HIDE DEF Pos, ToRead
    <3>4. QED
      BY <1>3, <3>3
  <2>2. CASE Restart
    <3>1. /\ LastTag \in Nat /\ Pos <= LastTag /\ LastTag <= Pos + ToRead - 1
          /\ inIdx' = LastTag - nread /\ nread' = nread
      BY <2>2, LastTagFacts DEF Restart
    <3>2. \A o \in TimeTags : o <= LastTag
      <4>1. TimeTags # {} /\ StreamLen \in Nat /\ TimeTags \in SUBSET (0 .. StreamLen)
        BY <2>2, <1>1, TimeTagFacts DEF Restart
      <4>2. QED
        BY <4>1, MaxInSet DEF LastTag
    <3>3. Pos' = LastTag
      <4>1. nread + (LastTag - nread) = LastTag
        BY <3>1, StartFacts
      <4>2. QED
        BY <3>1, <4>1 DEF Pos
    <3> HIDE DEF Pos, ToRead, LastTag
    <3>4. QED
      BY <1>3, <3>1, <3>2, <3>3
  <2>3. QED
    BY <1>1, <2>1, <2>2 DEF Read, Restart
<1> HIDE DEF Pos, ToRead
<1>5. /\ \A i \in 1 .. m : rxTags'[i].offset \in Nat
      /\ currentRx.offset \in Nat
      /\ \A i \in 1 .. n : rxTags[i].offset \in Nat
  <2>1. \A i \in 1 .. m : rxTags'[i] \in RxTag
    BY <1>2, ElementOfSeq
  <2>2. \A i \in 1 .. n : rxTags[i] \in RxTag
    BY ElementOfSeq DEF TypeOK
  <2>3. QED
    BY <2>1, <2>2 DEF TypeOK, RxTag
<1>6. ASSUME NEW i \in n + 1 .. m
      PROVE  /\ Real(rxTags'[i])
             /\ Pos <= rxTags'[i].offset
             /\ rxTags'[i].offset <= Pos'
  BY <1>2, <1>3, <1>4 DEF Real
<1>7. /\ \A i \in 1 .. n : /\ currentRx.offset <= rxTags[i].offset
                           /\ rxTags[i].offset <= Pos
                           /\ \/ Real(rxTags[i])
                              \/ i = 1 /\ rxTags[i] = FirstRx /\ currentRx = FirstRx
      /\ \A i, j \in 1 .. n : i <= j => rxTags[i].offset <= rxTags[j].offset
      /\ Real(currentRx) \/ currentRx = FirstRx
      /\ currentRx.offset <= IF blockLen > 0 THEN block[0] ELSE 0
      /\ \A o \in RxTimes : o < Pos =>
           \/ \E i \in 1 .. n : rxTags[i] = RxTagAt(o)
           \/ o < currentRx.offset
           \/ currentRx = RxTagAt(o)
  BY DEF QueueInv
<1>8. currentRx.offset <= Pos
  <2>1. CASE blockLen > 0
    <3>1. /\ block[0] + blockLen <= StartAbs /\ StartAbs <= Pos /\ StartAbs \in Nat
          /\ block[0] \in Int /\ blockLen \in Nat
      BY <2>1, StartFacts DEF IInv, SentInv, BufferTypeOK
    <3>2. currentRx.offset <= block[0]
      BY <1>7, <2>1
    <3>3. QED
      BY <1>3, <1>5, <2>1, <3>1, <3>2
  <2>2. CASE ~(blockLen > 0)
    BY <1>3, <1>5, <1>7, <2>2
  <2>3. QED
    BY <2>1, <2>2
<1> HIDE DEF n, m
<1>9. ASSUME NEW i \in 1 .. m
      PROVE  /\ currentRx.offset <= rxTags'[i].offset
             /\ rxTags'[i].offset <= Pos'
             /\ \/ Real(rxTags'[i])
                \/ i = 1 /\ rxTags'[i] = FirstRx /\ currentRx = FirstRx
  <2>1. CASE i \in 1 .. n
    BY <1>2, <1>3, <1>4, <1>5, <1>7, <2>1
  <2>2. CASE i \in n + 1 .. m
    BY <1>3, <1>5, <1>6, <1>8, <2>2
  <2>3. QED
    BY <1>2, <2>1, <2>2
<1>10. ASSUME NEW i \in 1 .. m, NEW j \in 1 .. m, i <= j
       PROVE  rxTags'[i].offset <= rxTags'[j].offset
  <2>1. CASE i = j
    BY <1>5, <2>1
  <2>2. CASE j <= n
    BY <1>2, <1>7, <1>10, <2>2
  <2>3. CASE i <= n /\ ~(j <= n)
    <3>1. i \in 1 .. n /\ j \in n + 1 .. m
      BY <1>2, <2>3
    <3>2. rxTags'[i].offset <= Pos /\ Pos <= rxTags'[j].offset
      BY <1>2, <1>6, <1>7, <3>1
    <3>3. QED
      BY <1>3, <1>5, <3>2
  <2>4. CASE ~(i <= n) /\ i # j
    <3>1. i \in n + 1 .. m /\ j \in n + 1 .. m /\ i < j
      BY <1>2, <1>10, <2>4
    <3>2. rxTags'[i].offset < rxTags'[j].offset
      BY <1>2, <3>1
    <3>3. QED
      BY <1>5, <3>2
  <2>5. QED
    BY <2>1, <2>2, <2>3, <2>4
<1>11. ASSUME NEW o \in RxTimes, o < Pos'
       PROVE  \/ \E i \in 1 .. m : rxTags'[i] = RxTagAt(o)
              \/ o < currentRx.offset
              \/ currentRx = RxTagAt(o)
  <2>1. CASE o \in TimeTags
    BY <1>2, <2>1
  <2>2. CASE o < Pos
    <3>1. ASSUME NEW i \in 1 .. n, rxTags[i] = RxTagAt(o)
          PROVE  i \in 1 .. m /\ rxTags'[i] = RxTagAt(o)
      BY <1>2, <3>1
    <3>2. QED
      BY <1>7, <2>2, <3>1
  <2>3. QED
    BY <1>4, <1>11, <2>1, <2>2
<1>12. m = Len(rxTags')
  BY DEF m
<1>13. (\A i \in 1 .. m :
          /\ currentRx.offset <= rxTags'[i].offset
          /\ rxTags'[i].offset <= Pos'
          /\ \/ rxTags'[i].offset \in RxTimes /\ rxTags'[i] = RxTagAt(rxTags'[i].offset)
             \/ i = 1 /\ rxTags'[i] = FirstRx /\ currentRx = FirstRx)
       /\ (\/ currentRx.offset \in RxTimes /\ currentRx = RxTagAt(currentRx.offset)
           \/ currentRx = FirstRx)
  BY <1>7, <1>9 DEF Real
<1>14. QED
  BY <1>1, <1>3, <1>7, <1>10, <1>11, <1>12, <1>13 DEF QueueInv, Real, RxTagAt, FirstRx

(* The tags a block has reached are those at the head of the queue.        *)
LEMMA PassedFacts ==
  ASSUME IInv, TypeOK, QueueInv, NEW first \in Nat
  PROVE  LET p == PassedTags(first)
         IN  /\ p \in 0 .. Len(rxTags)
             /\ \A i \in 1 .. p : rxTags[i].offset <= first
             /\ \A i \in p + 1 .. Len(rxTags) : rxTags[i].offset > first
<1> DEFINE n == Len(rxTags)
           P == {i \in 0 .. n : \A j \in 1 .. i : first >= rxTags[j].offset}
           p == PassedTags(first)
<1>1. n \in Nat /\ \A i \in 1 .. n : rxTags[i].offset \in Nat
  <2>1. n \in Nat /\ \A i \in 1 .. n : rxTags[i] \in RxTag
    BY LenProperties, ElementOfSeq DEF TypeOK
  <2>2. QED
    BY <2>1 DEF RxTag
<1>2. p \in P /\ \A i \in P : i <= p
  <2>1. P \in SUBSET (0 .. n) /\ 0 \in P
    BY <1>1
  <2> HIDE DEF P, n
  <2>2. Max(P) \in P /\ \A i \in P : i <= Max(P)
    BY <1>1, <2>1, MaxInSet
  <2>3. QED
    BY <2>2 DEF PassedTags, P, n
<1>3. ASSUME NEW i \in p + 1 .. n
      PROVE  rxTags[i].offset > first
  <2>1. i \in 1 .. n /\ i \in Nat /\ ~(i <= p)
    BY <1>1, <1>2
  <2>2. ASSUME ~(rxTags[i].offset > first)
        PROVE  i \in P
    <3>1. rxTags[i].offset <= first
      BY <1>1, <2>1, <2>2
    <3>2. \A j \in 1 .. i : rxTags[j].offset <= rxTags[i].offset /\ j \in 1 .. n
      BY <2>1 DEF QueueInv
    <3>3. \A j \in 1 .. i : first >= rxTags[j].offset
      BY <1>1, <2>1, <3>1, <3>2
    <3>4. QED
      BY <1>1, <2>1, <3>3
  <2>3. QED
    BY <1>2, <2>1, <2>2
<1>4. \A i \in 1 .. p : rxTags[i].offset <= first
  <2> HIDE DEF p
  <2>1. \A j \in 1 .. p : j \in 1 .. n
    BY <1>1, <1>2
  <2>2. QED
    BY <1>1, <1>2, <2>1
<1>5. p \in 0 .. n
  BY <1>2
<1>6. QED
  BY <1>3, <1>4, <1>5

(* The tag the estimate for a block is based on, and what is queued then.  *)
BaseTag(first) ==
  IF PassedTags(first) = 0 THEN currentRx ELSE rxTags[PassedTags(first)]

(* No rx_time tag lies between the tag of the estimate and the block, so   *)
(* that a period for each sample since that tag is the block's true time.  *)
LEMMA BaseTagTrue ==
  ASSUME IInv, TypeOK, QueueInv, NEW first \in Nat, first < Pos,
         currentRx.offset <= first
  PROVE  /\ BaseTag(first) \in RxTag
         /\ BaseTag(first).offset <= first
         /\ currentRx.offset <= BaseTag(first).offset
         /\ ~Real(BaseTag(first)) => /\ BaseTag(first) = FirstRx
                                     /\ currentRx = FirstRx
                                     /\ PassedTags(first) <= 1
         /\ TrueTime(first) = TimeAfter(BaseTag(first), first)
<1> DEFINE p == PassedTags(first)
           base == BaseTag(first)
           n == Len(rxTags)
           past == {j \in RxTimes : j <= first}
<1>1. /\ p \in 0 .. n /\ n \in Nat
      /\ \A i \in 1 .. p : rxTags[i].offset <= first
      /\ \A i \in p + 1 .. n : rxTags[i].offset > first
  BY PassedFacts, LenProperties DEF TypeOK
<1> HIDE DEF p
<1>2. /\ \A i \in 1 .. n : rxTags[i] \in RxTag
      /\ currentRx \in RxTag
  BY ElementOfSeq DEF TypeOK
<1>3. /\ p = 0 => base = currentRx
      /\ p # 0 => base = rxTags[p] /\ p \in 1 .. n /\ p \in 1 .. p
  BY <1>1 DEF BaseTag, p
<1> HIDE DEF base
<1>4. base \in RxTag /\ base.offset \in Nat /\ base.time \in Nat /\ currentRx.offset \in Nat
  BY <1>2, <1>3 DEF RxTag
<1>5. /\ base.offset <= first
      /\ currentRx.offset <= base.offset
      /\ ~Real(base) => base = FirstRx /\ currentRx = FirstRx /\ p <= 1
  <2>1. CASE p = 0
    BY <1>3, <1>4, <2>1 DEF QueueInv
  <2>2. CASE p # 0
    <3>1. /\ currentRx.offset <= rxTags[p].offset
          /\ \/ Real(rxTags[p])
             \/ p = 1 /\ rxTags[p] = FirstRx /\ currentRx = FirstRx
      BY <1>3, <2>2 DEF QueueInv
    <3>2. rxTags[p].offset <= first
      BY <1>1, <1>3, <2>2
    <3>3. QED
      BY <1>3, <2>2, <3>1, <3>2
  <2>3. QED
    BY <2>1, <2>2
<1>6. /\ \A o \in RxTimes : o \in Nat /\ RxTagAt(o).offset = o
                            /\ RxTagAt(o).time = TagTime[o]
      /\ StreamLen \in Nat
      /\ RxTimes \subseteq 0 .. StreamLen
  BY BufferAssumption DEF RxTimes, Offsets, RxTagAt
<1>7. past = {j \in Offsets : j <= first /\ "rx_time" \in stream[j]}
  BY DEF RxTimes
<1>8. LastTime(first) = IF past = {} THEN FirstRx ELSE RxTagAt(Max(past))
  BY <1>7 DEF LastTime, TimeTagsUpTo, FirstRx
<1>9. Real(base) => base.offset \in past
  BY <1>4, <1>5 DEF Real
<1>10. CASE past = {}
  <2>1. base = FirstRx
    BY <1>5, <1>9, <1>10
  <2>2. QED
    BY <1>4, <1>5, <1>8, <1>10, <2>1 DEF p, base, TrueTime, TimeAfter
<1>11. CASE past # {}
  <2> DEFINE m == Max(past)
  <2>1. m \in past /\ \A j \in past : j <= m
    BY <1>6, <1>11, MaxInSet
  <2> HIDE DEF m
  <2>2. m \in RxTimes /\ m \in Nat /\ m <= first /\ m < Pos
    <3>1. m \in RxTimes /\ m \in Nat /\ m <= first
      BY <1>6, <2>1
    <3>2. Pos \in Nat
      BY StartFacts
    <3> HIDE DEF Pos
    <3>3. QED
      BY <3>1, <3>2
  <2> HIDE DEF past
  <2>3. Real(base) => base.offset <= m
    BY <1>9, <2>1
  <2>4. base = RxTagAt(m)
    <3>1. \/ \E i \in 1 .. n : rxTags[i] = RxTagAt(m)
          \/ m < currentRx.offset
          \/ currentRx = RxTagAt(m)
      BY <2>2 DEF QueueInv
    <3>2. ASSUME NEW i \in 1 .. n, rxTags[i] = RxTagAt(m)
          PROVE  base = RxTagAt(m)
      <4>1. rxTags[i].offset = m
        BY <1>6, <2>2, <3>2
      <4>2. i \in 1 .. p
        BY <1>1, <2>2, <4>1
      <4>3. m <= base.offset /\ p # 0
        <5>1. p # 0 /\ i <= p /\ p \in 1 .. n
          BY <1>1, <4>2
        <5>2. rxTags[i].offset <= rxTags[p].offset
          BY <5>1 DEF QueueInv
        <5>3. QED
          BY <1>3, <4>1, <5>1, <5>2
      <4>4. CASE Real(base)
        BY <1>4, <2>2, <2>3, <4>3, <4>4 DEF Real
      <4>5. CASE ~Real(base)
        <5>1. p <= 1 /\ i = p
          BY <1>1, <1>5, <4>2, <4>5
        <5>2. QED
          BY <1>3, <3>2, <4>3, <5>1
      <4>6. QED
        BY <4>4, <4>5
    <3>3. ASSUME m < currentRx.offset
          PROVE  FALSE
      <4>1. m < base.offset
        BY <1>4, <1>5, <2>2, <3>3
      <4>2. ~Real(base)
        BY <1>4, <2>2, <2>3, <4>1
      <4>3. currentRx.offset = 0
        BY <1>5, <4>2 DEF FirstRx
      <4>4. QED
        BY <2>2, <3>3, <4>3
    <3>4. ASSUME currentRx = RxTagAt(m)
          PROVE  base = RxTagAt(m)
      <4>1. currentRx.offset = m
        BY <1>6, <2>2, <3>4
      <4>2. CASE Real(base)
        BY <1>4, <1>5, <2>2, <2>3, <4>1, <4>2 DEF Real
      <4>3. CASE ~Real(base)
        BY <1>5, <3>4, <4>3
      <4>4. QED
        BY <4>2, <4>3
    <3>5. QED
      BY <3>1, <3>2, <3>3, <3>4
  <2>5. LastTime(first) = base
    BY <1>8, <1>11, <2>4 DEF m
  <2>6. QED
    BY <1>4, <1>5, <2>5 DEF p, base, TrueTime, TimeAfter
<1>12. QED
  BY <1>10, <1>11

-----------------------------------------------------------------------------
(* The tags, and what else the blocks carry.                               *)

TagOffsets == {i \in Offsets : stream[i] # {}}
TagsFrom(a, n) == {o \in TagOffsets : a <= o /\ o < a + n}

(* Among n samples from a on the source changes only at the first.         *)
Clean(a, n) ==
  \A o \in TagOffsets : a < o /\ o < a + n => Calm(stream[o], stream[a])

(* A buffer keeps the tags of the samples that are in it, and the block    *)
(* has those of its buffer.                                                *)
TagInv ==
  /\ readIdx > 0 => /\ bufTags[reading] = TagsFrom(bufAbs[reading], readIdx)
                    /\ Clean(bufAbs[reading], readIdx)
  /\ latestValid => \A b \in {writing, latest} :
                       /\ bufTags[b] = TagsFrom(bufAbs[b], nsamples)
                       /\ Clean(bufAbs[b], nsamples)
  /\ latestValid /\ writeIdx > 0 =>
       blockTags = {o - bufAbs[writing] : o \in bufTags[writing]}
  /\ blockTags \subseteq Nat
  /\ blockLen > 0 => /\ block[0] \in Nat
                     /\ Clean(block[0], blockLen)
                     /\ \A j \in 0 .. blockLen - 1 :
                          j \in blockTags <=> block[0] + j \in TagOffsets

(* The last block that was announced is the one that was sent.             *)
LastInv == blockLen > 0 => lastAbs = block[0]

(* The steps that neither read nor write leave all of it alone, except     *)
(* that they may give up what is in the buffers.                           *)
LEMMA QuietFacts ==
  ASSUME AlwaysPassing, IInv, [Next]_vars, ~Read, ~Restart, ~Write
  PROVE  /\ UNCHANGED << rxTags, currentRx, lastAbs, stream, bufAbs, bufTags, bufTime >>
         /\ UNCHANGED << block, blockLen, blockTags, blockTime, blockSkipped >>
         /\ passData' \in BOOLEAN
         /\ Pos' = Pos
         /\ readIdx' = 0 \/ UNCHANGED << readIdx, reading >>
         /\ \/ latestValid' = FALSE
            \/ UNCHANGED << nsamples, writeIdx, reading, writing, latest, latestValid >>
<1> DEFINE Kept ==
      /\ UNCHANGED << rxTags, currentRx, lastAbs, stream, bufAbs, bufTags, bufTime >>
      /\ UNCHANGED << block, blockLen, blockTags, blockTime, blockSkipped >>
      /\ passData' \in BOOLEAN
      /\ Pos' = Pos
      /\ readIdx' = 0 \/ UNCHANGED << readIdx, reading >>
      /\ \/ latestValid' = FALSE
         \/ UNCHANGED << nsamples, writeIdx, reading, writing, latest, latestValid >>
<1> USE DEF timeVars, bufVars, blockVars, ringVars
<1>1. passData \in BOOLEAN /\ nread \in Nat /\ inIdx \in Nat /\ ninput \in Nat
  BY StartFacts DEF IInv, WindowInv, BufferTypeOK
<1>2. ASSUME NEW n \in 0 .. MaxItems, WorkDrop(n)
      PROVE  Kept
  <2>1. n = 0
    BY <1>2 DEF WorkDrop, IInv, WindowInv
  <2>2. nread + 0 = nread
    BY <1>1
  <2>3. QED
    BY <1>1, <1>2, <2>1, <2>2 DEF WorkDrop, Pos
<1>3. ASSUME NEW n \in 1 .. MaxItems, NEW space \in 0 .. MaxRoom, WorkBegin(n, space)
      PROVE  Kept
  <2>1. inIdx' = inIdx /\ nread' = nread
    BY <1>3 DEF WorkBegin, IInv, WindowInv
  <2>2. QED
    BY <1>1, <1>3, <2>1 DEF WorkBegin, Pos
<1>4. ASSUME Reinitialize
      PROVE  Kept
  BY <1>1, <1>4 DEF Reinitialize, InitBuffers, Pos
<1>5. ASSUME Consume
      PROVE  Kept
  <2>1. nread + ninput + 0 = nread + ninput
    BY <1>1
  <2>2. Pos' = Pos
    BY <1>5, <2>1 DEF Consume, Pos
  <2>3. QED
    BY <1>1, <1>5, <2>2 DEF Consume
<1>6. ASSUME WorkReturn
      PROVE  Kept
  BY <1>1, <1>6 DEF WorkReturn, Pos
<1>7. ASSUME NEW n \in NSampleChoices \cup {0}, SetNsamples(n)
      PROVE  Kept
  BY <1>1, <1>7 DEF SetNsamples, Pos
<1>8. ASSUME UNCHANGED vars
      PROVE  Kept
  BY <1>1, <1>8 DEF vars, Pos
<1>9. ~\E b \in BOOLEAN : SetPassData(b)
  BY DEF AlwaysPassing, SetPassData
<1>10. ASSUME RestartNowhere
       PROVE  Kept
  BY <1>1, <1>10 DEF RestartNowhere, Pos
<1> HIDE DEF Kept
<1>11. Kept
  BY <1>2, <1>3, <1>4, <1>5, <1>6, <1>7, <1>8, <1>9, <1>10 DEF Next, WorkStep
<1>12. QED
  BY <1>11 DEF Kept

(* What the read loop puts among the tags of the buffer are those of the   *)
(* samples it reads, and unless it starts over, the source changes at none *)
(* of them but where the buffer starts.                                    *)
LEMMA WindowTags ==
  ASSUME IInv, TypeOK, ReadTurn
  PROVE  /\ Tagged(TagKinds) = TagsFrom(Pos, ToRead)
         /\ ~MustRestart => \A o \in TagsFrom(Pos, ToRead) :
                               o = StartAbs \/ Calm(stream[o], stream[StartAbs])
<1>1. Pos \in Nat /\ ToRead \in Nat /\ StreamLen \in Nat
  BY StartFacts, ReadFacts
<1>2. \A o \in Offsets : stream[o] \subseteq TagKinds
  <2>1. stream \in Streams /\ stream \in [0 .. StreamLen - 1 -> SUBSET TagKinds]
    BY BufferAssumption DEF TypeOK
  <2>2. QED
    BY <2>1 DEF Offsets
<1> HIDE DEF Pos, ToRead
<1>3. \A o \in Window : o < StreamLen <=> o \in Offsets
  BY <1>1 DEF Window, Offsets
<1>4. \A o \in TagsFrom(Pos, ToRead) : o \in Window /\ o \in Offsets /\ stream[o] # {}
  BY <1>1 DEF TagsFrom, TagOffsets, Window, Offsets
<1>5. \A o \in Window : o \in Offsets /\ stream[o] # {} => o \in TagsFrom(Pos, ToRead)
  BY <1>1 DEF TagsFrom, TagOffsets, Window
<1>6. Tagged(TagKinds) = TagsFrom(Pos, ToRead)
  <2>1. \A o \in Tagged(TagKinds) : o \in TagsFrom(Pos, ToRead)
    BY <1>3, <1>5 DEF Tagged
  <2>2. ASSUME NEW o \in TagsFrom(Pos, ToRead)
        PROVE  o \in Tagged(TagKinds)
    <3>1. o \in Window /\ o < StreamLen /\ stream[o] # {} /\ stream[o] \subseteq TagKinds
      BY <1>2, <1>3, <1>4
    <3>2. stream[o] \cap TagKinds # {}
      BY <3>1
    <3>3. QED
      BY <3>1, <3>2 DEF Tagged
  <2>3. QED
    BY <2>1, <2>2
<1>7. ASSUME ~MustRestart, NEW o \in TagsFrom(Pos, ToRead), o # StartAbs
      PROVE  Calm(stream[o], stream[StartAbs])
  <2>1. o \in Window /\ o \in Offsets /\ o < StreamLen
    BY <1>3, <1>4
  <2>2. /\ o \in TimeTags <=> "rx_time" \in stream[o]
        /\ o \in OverflowTags <=> stream[o] \cap OverflowTag # {}
        /\ o \in Tagged({"overflow"}) <=> "overflow" \in stream[o]
    BY <2>1 DEF TimeTags, OverflowTags, Tagged, OverflowTag
  <2>3. CASE TagAtStart
    <3>1. "rx_time" \in stream[StartAbs] /\ o \notin TimeTags
      BY <1>7, <2>3 DEF TagAtStart, TimeTags, Tagged
    <3>2. QED
      BY <2>2, <3>1 DEF Calm
  <2>4. CASE ~Overflows
    <3>1. TimeTags = OverflowTags /\ o \notin Tagged({"overflow"})
      BY <2>4 DEF Overflows
    <3>2. QED
      BY <2>2, <3>1 DEF Calm, OverflowTag
  <2>5. QED
    BY <1>7, <2>3, <2>4 DEF MustRestart
<1>8. QED
  BY <1>6, <1>7

(* A turn of the read loop: what it does to the buffer that is read into.  *)
LEMMA ReadBufferFacts ==
  ASSUME IInv, TypeOK, Read
  PROVE  /\ bufTags' \in [Bufs -> SUBSET Nat]
         /\ bufTime' \in [Bufs -> Int]
         /\ bufAbs'[reading] = StartAbs
         /\ bufTags'[reading] = KeptTags \cup TagsFrom(Pos, ToRead)
         /\ \A b \in Bufs \ {reading} : bufAbs'[b] = bufAbs[b] /\ bufTags'[b] = bufTags[b]
<1>1. /\ ReadTurn
      /\ bufAbs' = [bufAbs EXCEPT ![reading] = StartAbs]
      /\ bufTags' = [bufTags EXCEPT ![reading] = KeptTags \cup Tagged(TagKinds)]
      /\ bufTime' = [bufTime EXCEPT ![reading] =
                   IF TagAtStart THEN TagTime[StartAbs]
                   ELSE IF readIdx = 0 THEN NoTime ELSE @]
  BY DEF Read
<1>2. /\ reading \in Bufs /\ bufAbs \in [Bufs -> Nat]
      /\ bufTags \in [Bufs -> SUBSET Nat] /\ bufTime \in [Bufs -> Int]
  BY DEF TypeOK, BufferTypeOK
<1>3. KeptTags \cup Tagged(TagKinds) \in SUBSET Nat
  <2>1. Tagged(TagKinds) \subseteq Nat
    BY <1>1, WindowTags, BufferAssumption DEF TagsFrom, TagOffsets, Offsets
  <2>2. QED
    BY <1>2, <2>1 DEF KeptTags
<1>4. TagAtStart => TagTime[StartAbs] \in Int
  <2>1. TagAtStart => StartAbs \in TimeTags
    BY DEF TagAtStart
  <2>2. StartAbs \in TimeTags => StartAbs \in Offsets
    BY <1>1, TimeTagFacts
  <2>3. QED
    BY <2>1, <2>2, BufferAssumption DEF Offsets
<1>5. NoTime \in Int
  BY DEF NoTime
<1> HIDE DEF Tagged, KeptTags, StartAbs, TagAtStart
<1>6. bufTags' \in [Bufs -> SUBSET Nat]
  BY <1>1, <1>2, <1>3
<1>7. bufTime' \in [Bufs -> Int]
  BY <1>1, <1>2, <1>4, <1>5
<1>8. Tagged(TagKinds) = TagsFrom(Pos, ToRead)
  BY <1>1, WindowTags
<1>9. QED
  BY <1>1, <1>2, <1>6, <1>7, <1>8

(* Types, step by step.                                                    *)
LEMMA TypeStep ==
  ASSUME AlwaysPassing, IInv, IInv', TypeOK, QueueInv, [Next]_vars
  PROVE  TypeOK'
<1> USE DEF TypeOK
<1>1. CASE Read
  <2>1. /\ ReadTurn /\ QueueTags
        /\ UNCHANGED << passData, lastAbs, currentRx, stream, blockTags, blockTime,
                        blockSkipped >>
    BY <1>1 DEF Read, timeVars, blockVars
  <2>2. rxTags' \in Seq(RxTag)
    BY <2>1, QueueFacts
  <2>3. bufTags' \in [Bufs -> SUBSET Nat] /\ bufTime' \in [Bufs -> Int]
    BY <1>1, ReadBufferFacts
  <2>4. QED
    BY <2>1, <2>2, <2>3 DEF IInv
<1>2. CASE Restart
  <2>1. /\ ReadTurn /\ QueueTags
        /\ bufTags' = [bufTags EXCEPT ![reading] = KeptTags]
        /\ bufTime' = [bufTime EXCEPT ![reading] = IF readIdx = 0 THEN NoTime ELSE @]
        /\ UNCHANGED << passData, lastAbs, currentRx, stream, blockTags, blockTime,
                        blockSkipped >>
    BY <1>2 DEF Restart, timeVars, blockVars
  <2>2. rxTags' \in Seq(RxTag)
    BY <2>1, QueueFacts
  <2>3. bufTags' \in [Bufs -> SUBSET Nat] /\ bufTime' \in [Bufs -> Int]
    BY <2>1 DEF KeptTags, BufferTypeOK, NoTime
  <2>4. QED
    BY <2>1, <2>2, <2>3 DEF IInv
<1>3. CASE Write
  <2>1. /\ UNCHANGED << passData, bufTags, stream >>
        /\ IF writeIdx = 0 THEN SendTags
           ELSE UNCHANGED << timeVars, rxTags, bufTime, blockTags, blockTime,
                             blockSkipped >>
    BY <1>3 DEF Write
  <2>2. CASE writeIdx # 0
    <3>1. UNCHANGED << lastAbs, currentRx, rxTags, bufTime, blockTags, blockTime,
                       blockSkipped >>
      BY <2>1, <2>2 DEF timeVars
    <3>2. QED
      BY <2>1, <3>1 DEF IInv
  <2>3. CASE writeIdx = 0
    <3> DEFINE first == bufAbs[writing]
               p == PassedTags(first)
               base == BaseTag(first)
               n == Len(rxTags)
               t == TimeAfter(base, first)
    <3>1. /\ currentRx' = base
          /\ rxTags' = SubSeq(rxTags, p + 1, n)
          /\ blockTags' = {o - first : o \in bufTags[writing]}
          /\ blockTime' \in {t, NoTime}
          /\ bufTime' \in {bufTime, [bufTime EXCEPT ![writing] = t]}
          /\ blockSkipped' = Skipped(first)
          /\ lastAbs' = first
      BY <2>1, <2>3 DEF SendTags, BaseTag, BufferTypeOK
    <3>2. first \in Nat /\ writing \in Bufs
      BY DEF BufferTypeOK
    <3>3. /\ p \in 0 .. n /\ n \in Nat
          /\ \A i \in 1 .. n : rxTags[i] \in RxTag
      BY <3>2, PassedFacts, LenProperties, ElementOfSeq
    <3>4. base \in RxTag
      <4>1. p # 0 => p \in 1 .. n
        BY <3>3
      <4>2. QED
        BY <3>3, <4>1 DEF BaseTag
    <3>5. t \in Int /\ NoTime \in Int
      <4>1. SampPeriod \in Nat /\ first - base.offset \in Int /\ base.time \in Nat
        BY <3>2, <3>4, BufferAssumption DEF RxTag
      <4>2. \A x \in Int : x * SampPeriod \in Int
        BY <4>1
      <4>3. QED
        BY <4>1, <4>2 DEF TimeAfter, NoTime
    <3>6. rxTags' \in Seq(RxTag)
      <4>1. p + 1 \in 1 .. n + 1
        BY <3>3
      <4> HIDE DEF p
      <4>2. QED
        BY <3>1, <3>3, <4>1, SubSeqProperties
    <3>7. blockSkipped' \in Nat
      <4>1. 0 \in Nat /\ \A x \in Int : x % Word \in Nat
        BY BufferAssumption
      <4>2. lastAbs \in Int /\ nsamples \in Int
        BY StartFacts
      <4>3. first - lastAbs - nsamples \in Int
        BY <3>2, <4>2
      <4>4. QED
        BY <3>1, <4>1, <4>3 DEF Skipped
    <3>8. blockTags' \subseteq Int
      <4>1. \A o \in bufTags[writing] : o - first \in Int
        BY <3>2
      <4>2. QED
        BY <3>1, <4>1
    <3> HIDE DEF t, base, p, first
    <3>9. bufTime' \in [Bufs -> Int] /\ blockTime' \in Int
      BY <3>1, <3>2, <3>5
    <3>10. QED
      BY <2>1, <3>1, <3>2, <3>4, <3>6, <3>7, <3>8, <3>9 DEF IInv
  <2>4. QED
    BY <2>2, <2>3
<1>4. CASE ~Read /\ ~Restart /\ ~Write
  <2>1. /\ UNCHANGED << rxTags, currentRx, lastAbs, stream, bufTags, bufTime >>
        /\ UNCHANGED << blockTags, blockTime, blockSkipped >>
        /\ passData' \in BOOLEAN
    BY <1>4, QuietFacts
  <2>2. QED
    BY <2>1 DEF IInv
<1>5. QED
  BY <1>1, <1>2, <1>3, <1>4

(* The queue after a turn of the write loop that starts a block, and the   *)
(* time the block is announced with.                                       *)
LEMMA QueueWrite ==
  ASSUME IInv, TypeOK, QueueInv, Write, writeIdx = 0
  PROVE  QueueInv' /\ EstimatedTimeTrue' /\ lastAbs' = block'[0]
<1> DEFINE first == bufAbs[writing]
           p == PassedTags(first)
           base == BaseTag(first)
           n == Len(rxTags)
           m == Len(rxTags')
<1>1. /\ SendTags
      /\ UNCHANGED << stream, nread, inIdx >>
  BY DEF Write
<1>2. /\ block'[0] = first /\ blockLen' > 0 /\ first \in Nat
      /\ latestValid /\ nsamples \in Nat /\ nsamples > 0
  <2>1. /\ ToWrite \in Nat /\ ToWrite > 0 /\ blockLen' = writeIdx + ToWrite
        /\ block'[0] = first /\ first \in Nat /\ latestValid
    BY WriteFacts
  <2>2. 0 + ToWrite > 0
    BY <2>1
  <2>3. QED
    BY <2>1, <2>2, StartFacts
<1>3. /\ currentRx' = base
      /\ rxTags' = SubSeq(rxTags, p + 1, n)
      /\ blockTime' \in {TimeAfter(base, first), NoTime}
      /\ lastAbs' = first
  BY <1>1 DEF SendTags, BaseTag
<1>4. Pos' = Pos
  BY <1>1 DEF Pos
<1>5. first < Pos
  <2>1. /\ bufAbs[latest] + nsamples <= StartAbs
        /\ writing # latest => first + nsamples <= bufAbs[latest]
        /\ latest \in Bufs
    BY <1>2 DEF IInv, WriteInv, RingInv
  <2>2. bufAbs[latest] \in Nat
    BY <2>1 DEF IInv, BufferTypeOK
  <2>3. StartAbs \in Nat /\ Pos \in Nat /\ StartAbs <= Pos
    BY StartFacts
  <2> HIDE DEF StartAbs, Pos
  <2>4. QED
    BY <1>2, <2>1, <2>2, <2>3
<1>6. currentRx.offset <= first
  <2>1. currentRx.offset <= IF blockLen > 0 THEN block[0] ELSE 0
    BY DEF QueueInv
  <2>2. currentRx.offset \in Nat
    BY DEF TypeOK, RxTag
  <2>3. CASE blockLen > 0
    <3>1. block[0] + blockLen <= first /\ block[0] \in Int /\ blockLen \in Nat
      BY <1>2, <2>3 DEF IInv, SentInv, BufferTypeOK
    <3>2. QED
      BY <1>2, <2>1, <2>2, <2>3, <3>1
  <2>4. QED
    BY <1>2, <2>1, <2>2, <2>3
<1>7. /\ p \in 0 .. n /\ n \in Nat
      /\ \A i \in p + 1 .. n : rxTags[i].offset > first
      /\ \A i \in 1 .. p : rxTags[i].offset <= first
  BY <1>2, PassedFacts, LenProperties DEF TypeOK
<1>8. /\ base \in RxTag /\ base.offset <= first /\ currentRx.offset <= base.offset
      /\ ~Real(base) => base = FirstRx /\ currentRx = FirstRx /\ p <= 1
      /\ TrueTime(first) = TimeAfter(base, first)
  BY <1>2, <1>5, <1>6, BaseTagTrue
<1>9. /\ p = 0 => base = currentRx
      /\ p # 0 => base = rxTags[p] /\ p \in 1 .. n
  BY <1>7 DEF BaseTag
<1> HIDE DEF p, base
<1>10. /\ \A i \in 1 .. n : rxTags[i].offset \in Nat
       /\ base.offset \in Nat /\ currentRx.offset \in Nat
  <2>1. \A i \in 1 .. n : rxTags[i] \in RxTag
    BY ElementOfSeq DEF TypeOK
  <2>2. QED
    BY <1>8, <2>1 DEF RxTag, TypeOK
<1>11. m = n - p /\ m \in Nat /\ \A i \in 1 .. m : /\ p + i \in p + 1 .. n
                                                  /\ p + i \in 1 .. n
                                                  /\ rxTags'[i] = rxTags[p + i]
  <2>1. p + 1 \in 1 .. n + 1
    BY <1>7
  <2>2. /\ m = IF p + 1 <= n THEN n - (p + 1) + 1 ELSE 0
        /\ \A i \in 1 .. n - (p + 1) + 1 : rxTags'[i] = rxTags[p + 1 + i - 1]
    BY <1>3, <1>7, <2>1, SubSeqProperties DEF TypeOK
  <2>3. n - (p + 1) + 1 = n - p /\ m = n - p
    BY <1>7, <2>2
  <2>4. \A i \in 1 .. m : p + 1 + i - 1 = p + i /\ p + i \in p + 1 .. n /\ p + i \in 1 .. n
    BY <1>7, <2>3
  <2> HIDE DEF m, n
  <2>5. QED
    BY <1>7, <2>2, <2>3, <2>4
<1> HIDE DEF m
<1>12. RxTimes' = RxTimes
  BY <1>1 DEF RxTimes
<1>13. ASSUME NEW i \in 1 .. m
       PROVE  /\ base.offset <= rxTags'[i].offset
              /\ rxTags'[i].offset <= Pos
              /\ \/ Real(rxTags'[i])
                 \/ i = 1 /\ rxTags'[i] = FirstRx /\ base = FirstRx
  <2>1. rxTags'[i].offset > first /\ rxTags'[i] = rxTags[p + i] /\ p + i \in 1 .. n
    BY <1>7, <1>11
  <2>2. rxTags[p + i].offset # 0
    BY <1>2, <1>10, <2>1
  <2>3. rxTags[p + i].offset <= Pos /\ Real(rxTags[p + i])
    BY <2>1, <2>2 DEF QueueInv, FirstRx
  <2>4. base.offset <= rxTags'[i].offset
    BY <1>2, <1>8, <1>10, <2>1
  <2>5. QED
    BY <2>1, <2>3, <2>4
<1>14. ASSUME NEW i \in 1 .. m, NEW j \in 1 .. m, i <= j
       PROVE  rxTags'[i].offset <= rxTags'[j].offset
  <2>1. p + i \in 1 .. n /\ p + j \in 1 .. n /\ p + i <= p + j
    BY <1>7, <1>11, <1>14
  <2>2. rxTags[p + i].offset <= rxTags[p + j].offset
    BY <2>1 DEF QueueInv
  <2>3. QED
    BY <1>11, <2>2
<1>15. ASSUME NEW o \in RxTimes, o < Pos
       PROVE  \/ \E i \in 1 .. m : rxTags'[i] = RxTagAt(o)
              \/ o < base.offset
              \/ base = RxTagAt(o)
  <2>1. o \in Nat /\ RxTagAt(o).offset = o
    BY BufferAssumption DEF RxTimes, Offsets, RxTagAt
  <2>2. \/ \E i \in 1 .. n : rxTags[i] = RxTagAt(o)
        \/ o < currentRx.offset
        \/ currentRx = RxTagAt(o)
    BY <1>15 DEF QueueInv
  <2>3. ASSUME NEW i \in 1 .. n, rxTags[i] = RxTagAt(o)
        PROVE  \/ \E k \in 1 .. m : rxTags'[k] = RxTagAt(o)
               \/ o < base.offset
               \/ base = RxTagAt(o)
    <3>1. rxTags[i].offset = o
      BY <2>1, <2>3
    <3>2. CASE i <= p
      <4>1. p # 0 /\ p \in 1 .. n
        BY <1>7, <3>2
      <4>2. o <= base.offset
        BY <1>9, <3>1, <3>2, <4>1 DEF QueueInv
      <4>3. CASE Real(base)
        BY <1>10, <2>1, <4>2, <4>3 DEF Real
      <4>4. CASE ~Real(base)
        <5>1. i = p
          BY <1>7, <1>8, <3>2, <4>4
        <5>2. QED
          BY <1>9, <2>3, <4>1, <5>1
      <4>5. QED
        BY <4>3, <4>4
    <3>3. CASE ~(i <= p)
      <4>1. i - p \in 1 .. m /\ p + (i - p) = i
        BY <1>7, <1>11, <3>3
      <4>2. rxTags'[i - p] = RxTagAt(o)
        BY <1>11, <2>3, <4>1
      <4>3. QED
        BY <4>1, <4>2
    <3>4. QED
      BY <3>2, <3>3
  <2>4. ASSUME o < currentRx.offset
        PROVE  o < base.offset
    BY <1>8, <1>10, <2>1, <2>4
  <2>5. ASSUME currentRx = RxTagAt(o)
        PROVE  o < base.offset \/ base = RxTagAt(o)
    <3>1. currentRx.offset = o
      BY <2>1, <2>5
    <3>2. CASE Real(base)
      BY <1>8, <1>10, <2>1, <3>1, <3>2 DEF Real
    <3>3. CASE ~Real(base)
      BY <1>8, <2>5, <3>3
    <3>4. QED
      BY <3>2, <3>3
  <2>6. QED
    BY <2>2, <2>3, <2>4, <2>5
<1>16. Real(base) \/ base = FirstRx
  BY <1>8
<1> HIDE DEF Pos
<1>17. QueueInv'
  <2>1. (\A i \in 1 .. m :
           /\ base.offset <= rxTags'[i].offset
           /\ rxTags'[i].offset <= Pos
           /\ \/ rxTags'[i].offset \in RxTimes /\ rxTags'[i] = RxTagAt(rxTags'[i].offset)
              \/ i = 1 /\ rxTags'[i] = FirstRx /\ base = FirstRx)
        /\ (\/ base.offset \in RxTimes /\ base = RxTagAt(base.offset)
            \/ base = FirstRx)
    BY <1>13, <1>16 DEF Real
  <2>2. base.offset <= IF blockLen' > 0 THEN block'[0] ELSE 0
    BY <1>2, <1>8
  <2>3. QED
    BY <1>3, <1>4, <1>12, <1>14, <1>15, <2>1, <2>2
    DEF QueueInv, Real, RxTagAt, FirstRx, m
<1>18. EstimatedTimeTrue'
  <2>1. stream' = stream /\ block'[0] = first
    BY <1>1, <1>2
  <2>2. blockTime' # NoTime => blockTime' = TrueTime(first)
    BY <1>3, <1>8
  <2> HIDE DEF first
  <2>3. QED
    BY <2>1, <2>2 DEF EstimatedTimeTrue, TrueTime, LastTime, TimeTagsUpTo, SteadyRate, PeriodAt
<1>19. QED
  BY <1>2, <1>3, <1>17, <1>18

(* No tags come from no samples.                                           *)
LEMMA TagsFromNone ==
  ASSUME StreamLen \in Nat, NEW a \in Nat
  PROVE  TagsFrom(a, 0) = {}
<1>1. \A o \in TagOffsets : o \in Nat
  BY DEF TagOffsets, Offsets
<1>2. QED
  BY <1>1 DEF TagsFrom

(* The tags after a turn of the read loop.                                 *)
LEMMA TagRead ==
  ASSUME IInv, TypeOK, TagInv, Read
  PROVE  TagInv'
<1> DEFINE k == ToRead
           s == StartAbs
           r == readIdx
<1>1. /\ ReadTurn /\ ~MustRestart
      /\ UNCHANGED << nsamples, stream, block, blockLen, blockTags >>
      /\ \/ /\ r + k = nsamples /\ readIdx' = 0 /\ SwitchReading
         \/ /\ r + k # nsamples /\ readIdx' = r + k
            /\ UNCHANGED << writeIdx, reading, writing, latest, latestValid >>
  BY DEF Read, ringVars, blockVars
<1>2. /\ k \in Nat /\ k > 0 /\ Pos \in Nat /\ s \in Nat /\ s + r = Pos /\ r \in Nat
      /\ StreamLen \in Nat /\ nsamples \in Nat
      /\ r = 0 => s = Pos
      /\ r > 0 => s = bufAbs[reading]
  BY <1>1, StartFacts, ReadFacts DEF IInv, BufferTypeOK
<1>3. /\ bufAbs'[reading] = s
      /\ bufTags'[reading] = KeptTags \cup TagsFrom(Pos, k)
      /\ \A b \in Bufs \ {reading} : bufAbs'[b] = bufAbs[b] /\ bufTags'[b] = bufTags[b]
  BY ReadBufferFacts
<1>4. /\ reading \in Bufs /\ writing \in Bufs /\ reading # writing
      /\ latestValid => latest \in Bufs /\ latest # reading
  BY DEF IInv, BufferTypeOK, RingInv
<1>5. KeptTags = TagsFrom(s, r) /\ Clean(s, r)
  <2>1. CASE r = 0
    <3>1. \A o \in TagOffsets : ~(s < o /\ o < s + 0)
      BY <1>2 DEF TagOffsets, Offsets
    <3>2. QED
      BY <1>2, <2>1, <3>1, TagsFromNone DEF KeptTags, Clean
  <2>2. CASE r > 0
    BY <1>2, <2>2 DEF KeptTags, TagInv
  <2>3. QED
    BY <1>2, <2>1, <2>2
<1>6. \A o \in TagsFrom(Pos, k) : o = s \/ Calm(stream[o], stream[s])
  BY <1>1, WindowTags
<1> HIDE DEF k, s, Pos, StartAbs, ToRead, KeptTags
<1>7. bufTags'[reading] = TagsFrom(s, r + k)
  <2>1. \A o \in TagOffsets : o \in Nat
    BY DEF TagOffsets, Offsets
  <2>2. \A o \in TagOffsets : s <= o /\ o < s + (r + k) <=>
                              \/ s <= o /\ o < s + r
                              \/ Pos <= o /\ o < Pos + k
    BY <1>2, <2>1
  <2>3. QED
    BY <1>3, <1>5, <2>2 DEF TagsFrom
<1>8. Clean(s, r + k)
  <2> SUFFICES ASSUME NEW o \in TagOffsets, s < o, o < s + (r + k)
               PROVE  Calm(stream[o], stream[s])
    BY DEF Clean
  <2>1. o \in Nat
    BY DEF TagOffsets, Offsets
  <2>2. CASE o < s + r
    BY <1>5, <2>2 DEF Clean
  <2>3. CASE ~(o < s + r)
    <3>1. Pos <= o /\ o < Pos + k /\ o # s
      BY <1>2, <2>1, <2>3
    <3>2. QED
      BY <1>6, <3>1 DEF TagsFrom
  <2>4. QED
    BY <2>2, <2>3
<1>9. /\ TagOffsets' = TagOffsets
      /\ \A a, n : TagsFrom(a, n)' = TagsFrom(a, n)
      /\ \A a, n : Clean(a, n)' = Clean(a, n)
  BY <1>1 DEF TagOffsets, TagsFrom, Clean
<1> DEFINE Has(b, n) == bufTags'[b] = TagsFrom(bufAbs'[b], n) /\ Clean(bufAbs'[b], n)
<1>10. Has(reading, r + k)
  BY <1>3, <1>7, <1>8
<1>11. latestValid => Has(writing, nsamples) /\ Has(latest, nsamples)
  BY <1>3, <1>4 DEF TagInv
<1>12. readIdx' > 0 => Has(reading', readIdx')
  <2>1. CASE r + k = nsamples /\ readIdx' = 0
    BY <2>1
  <2>2. CASE readIdx' = r + k /\ reading' = reading
    BY <1>10, <2>2
  <2>3. QED
    BY <1>1, <2>1, <2>2
<1>13. latestValid' => Has(writing', nsamples') /\ Has(latest', nsamples')
  <2>1. CASE r + k = nsamples /\ SwitchReading
    <3>1. /\ latest' = reading
          /\ IF latestValid THEN writing' = writing ELSE writing' = reading
      BY <2>1 DEF SwitchReading
    <3>2. QED
      BY <1>1, <1>10, <1>11, <2>1, <3>1
  <2>2. CASE UNCHANGED << writeIdx, reading, writing, latest, latestValid >>
    BY <1>1, <1>11, <2>2
  <2>3. QED
    BY <1>1, <2>1, <2>2
<1>14. latestValid' /\ writeIdx' > 0 =>
         blockTags' = {o - bufAbs'[writing'] : o \in bufTags'[writing']}
  <2>1. ASSUME latestValid', writeIdx' > 0
        PROVE  latestValid /\ writeIdx > 0 /\ writing' = writing
    <3>1. CASE SwitchReading
      <4>1. IF latestValid THEN writeIdx' = writeIdx /\ writing' = writing
                           ELSE writeIdx' = 0
        BY <3>1 DEF SwitchReading
      <4>2. QED
        BY <2>1, <4>1
    <3>2. CASE UNCHANGED << writeIdx, reading, writing, latest, latestValid >>
      BY <2>1, <3>2
    <3>3. QED
      BY <1>1, <3>1, <3>2
  <2>2. QED
    BY <1>1, <1>3, <1>4, <2>1 DEF TagInv
<1>15. /\ blockTags' \subseteq Nat
       /\ blockLen' > 0 => /\ block'[0] \in Nat
                           /\ Clean(block'[0], blockLen')
                           /\ \A j \in 0 .. blockLen' - 1 :
                                j \in blockTags' <=> block'[0] + j \in TagOffsets'
  BY <1>1, <1>9 DEF TagInv
<1>16. QED
  BY <1>9, <1>12, <1>13, <1>14, <1>15 DEF TagInv

(* The tags after a turn of the write loop.                                *)
LEMMA TagWrite ==
  ASSUME IInv, TypeOK, TagInv, Write
  PROVE  TagInv'
<1> DEFINE base == bufAbs[writing]
           k == blockLen'
<1>1. /\ UNCHANGED << nsamples, readIdx, reading, latest, bufAbs, bufTags, stream >>
      /\ latestValid
      /\ \/ UNCHANGED << writing, latestValid >>
         \/ latestValid' = FALSE
         \/ writeIdx' = 0 /\ writing' = latest /\ UNCHANGED latestValid
  BY DEF Write
<1>2. /\ ToWrite \in Nat /\ ToWrite > 0 /\ writeIdx \in Nat /\ nsamples \in Nat
      /\ writeIdx + ToWrite <= nsamples
      /\ base \in Nat /\ k = writeIdx + ToWrite /\ block'[0] = base
  BY WriteFacts, StartFacts
<1> HIDE DEF ToWrite
<1>3. k \in Nat /\ k <= nsamples
  BY <1>2
<1>4. bufTags[writing] = TagsFrom(base, nsamples) /\ Clean(base, nsamples)
  BY <1>1 DEF TagInv
<1>5. blockTags' = {o - base : o \in bufTags[writing]}
  <2>1. CASE writeIdx = 0
    BY <2>1 DEF Write, SendTags
  <2>2. CASE writeIdx # 0
    BY <1>1, <1>2, <2>2 DEF Write, TagInv
  <2>3. QED
    BY <2>1, <2>2
<1> HIDE DEF base, k
<1>6. /\ TagOffsets' = TagOffsets
      /\ \A a, n : TagsFrom(a, n)' = TagsFrom(a, n)
      /\ \A a, n : Clean(a, n)' = Clean(a, n)
  BY <1>1 DEF TagOffsets, TagsFrom, Clean
<1>7. \A o \in TagOffsets : o \in Nat
  BY BufferAssumption DEF TagOffsets, Offsets
<1>8. \A o \in bufTags[writing] : /\ o \in TagOffsets /\ o \in Nat
                                  /\ o - base \in Nat /\ base + (o - base) = o
  <2>1. \A o \in bufTags[writing] : o \in TagOffsets /\ o \in Nat /\ base <= o
    BY <1>4, <1>7 DEF TagsFrom
  <2>2. QED
    BY <1>2, <2>1
<1>9. blockTags' \subseteq Nat
  BY <1>5, <1>8
<1>10. Clean(base, k)
  <2> SUFFICES ASSUME NEW o \in TagOffsets, base < o, o < base + k
               PROVE  Calm(stream[o], stream[base])
    BY DEF Clean
  <2>1. o < base + nsamples
    BY <1>2, <1>3, <1>7
  <2>2. QED
    BY <1>4, <2>1 DEF Clean
<1>11. ASSUME NEW j \in 0 .. k - 1
       PROVE  j \in blockTags' <=> base + j \in TagOffsets
  <2>1. j \in Nat /\ j < nsamples /\ base + j \in Nat /\ (base + j) - base = j
    BY <1>2, <1>3
  <2>2. ASSUME j \in blockTags'
        PROVE  base + j \in TagOffsets
    <3>1. PICK o \in bufTags[writing] : j = o - base
      BY <1>5, <2>2
    <3>2. QED
      BY <1>8, <3>1
  <2>3. ASSUME base + j \in TagOffsets
        PROVE  j \in blockTags'
    <3>1. base <= base + j /\ base + j < base + nsamples
      BY <1>2, <1>3, <2>1
    <3>2. base + j \in bufTags[writing]
      BY <1>4, <2>3, <3>1 DEF TagsFrom
    <3>3. QED
      BY <1>5, <2>1, <3>2
  <2>4. QED
    BY <2>2, <2>3
<1>12. readIdx' > 0 => /\ bufTags'[reading'] = TagsFrom(bufAbs'[reading'], readIdx')
                       /\ Clean(bufAbs'[reading'], readIdx')
  BY <1>1 DEF TagInv
<1>13. latestValid' => \A b \in {writing', latest'} :
                         /\ bufTags'[b] = TagsFrom(bufAbs'[b], nsamples')
                         /\ Clean(bufAbs'[b], nsamples')
  BY <1>1 DEF TagInv
<1>14. latestValid' /\ writeIdx' > 0 =>
         blockTags' = {o - bufAbs'[writing'] : o \in bufTags'[writing']}
  <2>1. ASSUME latestValid', writeIdx' > 0
        PROVE  writing' = writing
    BY <1>1, <2>1
  <2>2. QED
    BY <1>1, <1>5, <2>1 DEF base
<1>15. blockLen' > 0 => /\ block'[0] \in Nat
                        /\ Clean(block'[0], blockLen')
                        /\ \A j \in 0 .. blockLen' - 1 :
                             j \in blockTags' <=> block'[0] + j \in TagOffsets'
  BY <1>2, <1>6, <1>10, <1>11 DEF k
<1>16. QED
  BY <1>6, <1>9, <1>12, <1>13, <1>14, <1>15 DEF TagInv

(* The tags after any other step: what is in the buffers is kept or given  *)
(* up, and starting over only touches the buffer that is read into.        *)
LEMMA TagKeep ==
  ASSUME AlwaysPassing, IInv, TypeOK, TagInv, [Next]_vars, ~Read, ~Write
  PROVE  TagInv'
<1>1. /\ UNCHANGED << stream, block, blockLen, blockTags >>
      /\ readIdx' = 0
         \/ UNCHANGED << readIdx, reading, bufAbs, bufTags >>
      /\ \/ latestValid' = FALSE
         \/ /\ UNCHANGED << nsamples, writeIdx, reading, writing, latest, latestValid >>
            /\ \A b \in Bufs \ {reading} : bufAbs'[b] = bufAbs[b]
                                           /\ bufTags'[b] = bufTags[b]
  <2>1. CASE Restart
    BY <2>1 DEF Restart, ringVars, blockVars, TypeOK, BufferTypeOK
  <2>2. CASE ~Restart
    BY <2>2, QuietFacts
  <2>3. QED
    BY <2>1, <2>2
<1>2. /\ TagOffsets' = TagOffsets
      /\ \A a, n : TagsFrom(a, n)' = TagsFrom(a, n)
      /\ \A a, n : Clean(a, n)' = Clean(a, n)
  BY <1>1 DEF TagOffsets, TagsFrom, Clean
<1>3. readIdx' > 0 => /\ bufTags'[reading'] = TagsFrom(bufAbs'[reading'], readIdx')
                      /\ Clean(bufAbs'[reading'], readIdx')
  BY <1>1 DEF TagInv
<1>4. latestValid => writing \in Bufs \ {reading} /\ latest \in Bufs \ {reading}
  BY DEF IInv, RingInv, BufferTypeOK
<1>5. latestValid' => \A b \in {writing', latest'} :
                         /\ bufTags'[b] = TagsFrom(bufAbs'[b], nsamples')
                         /\ Clean(bufAbs'[b], nsamples')
  BY <1>1, <1>4 DEF TagInv
<1>6. latestValid' /\ writeIdx' > 0 =>
         blockTags' = {o - bufAbs'[writing'] : o \in bufTags'[writing']}
  BY <1>1, <1>4 DEF TagInv
<1>7. QED
  BY <1>1, <1>2, <1>3, <1>5, <1>6 DEF TagInv

ContentInv == TypeOK /\ QueueInv /\ TagInv /\ EstimatedTimeTrue /\ LastInv

LEMMA ContentInit ==
  ASSUME Init
  PROVE  ContentInv
<1> USE BufferAssumption DEF Init
<1>1. /\ nsamples \in Nat /\ nsamples > 0
      /\ passData \in BOOLEAN
      /\ currentRx = FirstRx /\ currentRx \in RxTag
      /\ rxTags = << FirstRx >> /\ Len(rxTags) = 1
      /\ blockLen = 0 /\ readIdx = 0 /\ latestValid = FALSE
      /\ nread + inIdx = 0
  <2>1. nsamples \in Nat /\ nsamples > 0 /\ passData \in BOOLEAN
    <3>1. nsamples \in Nat \ {0}
      OBVIOUS
    <3>2. passData \in IF "set_pass_data" \in Calls THEN BOOLEAN ELSE {TRUE}
      OBVIOUS
    <3> HIDE DEF Init
    <3>3. passData \in BOOLEAN
      BY <3>2
    <3>4. QED
      BY <3>1, <3>3
  <2>2. currentRx = FirstRx /\ currentRx \in RxTag
    BY DEF FirstRx, RxTag
  <2>3. rxTags = << FirstRx >> /\ Len(rxTags) = 1
    BY <2>2
  <2>4. blockLen = 0 /\ readIdx = 0 /\ latestValid = FALSE /\ nread = 0 /\ inIdx = 0
    OBVIOUS
  <2> HIDE DEF Init
  <2>5. QED
    BY <2>1, <2>2, <2>3, <2>4
<1>2. BufferTypeOK
  <2>1. mem \in [Bufs -> [0 .. nsamples - 1 -> Int]]
    BY DEF Junk
  <2>2. bufAbs \in [Bufs -> Nat] /\ block \in [0 .. blockLen - 1 -> Int]
    BY DEF Junk
  <2>3. latestValid \in BOOLEAN
    OBVIOUS
  <2>4. QED
    BY <1>1, <2>1, <2>2, <2>3 DEF BufferTypeOK, Bufs
<1>3. rxTags \in Seq(RxTag) /\ \A i \in 1 .. Len(rxTags) : i = 1 /\ rxTags[i] = FirstRx
  BY <1>1
<1>4. TypeOK
  <2>1. bufTags \in [Bufs -> SUBSET Nat] /\ bufTime \in [Bufs -> Int]
    BY DEF NoTime
  <2>2. QED
    BY <1>1, <1>2, <1>3, <2>1 DEF TypeOK, NoTime
<1>5. QueueInv
  <2>1. \A o \in RxTimes : ~(o < Pos)
    BY <1>1 DEF RxTimes, Offsets, Pos
  <2>2. FirstRx.offset = 0 /\ FirstRx.offset <= Pos
    BY <1>1 DEF FirstRx, Pos
  <2> HIDE DEF Init
  <2>3. QED
    BY <1>1, <1>3, <2>1, <2>2 DEF QueueInv
<1>6. TagInv /\ EstimatedTimeTrue /\ LastInv
  BY <1>1 DEF TagInv, EstimatedTimeTrue, LastInv
<1>7. QED
  BY <1>4, <1>5, <1>6 DEF ContentInv

LEMMA ContentNext ==
  ASSUME AlwaysPassing, IInv, IInv', ContentInv, [Next]_vars
  PROVE  ContentInv'
<1> USE DEF ContentInv
<1>1. TypeOK'
  BY TypeStep
<1>2. TagInv'
  BY TagRead, TagWrite, TagKeep
<1>3. CASE Write /\ writeIdx = 0
  <2>1. QueueInv' /\ EstimatedTimeTrue' /\ LastInv'
    BY <1>3, QueueWrite DEF LastInv
  <2>2. QED
    BY <1>1, <1>2, <2>1
<1>4. CASE Write /\ writeIdx # 0
  <2>1. UNCHANGED << lastAbs, currentRx, rxTags, blockTime, stream, nread, inIdx >>
    BY <1>4 DEF Write, timeVars
  <2>2. blockLen > 0 /\ blockLen' > 0 /\ block'[0] = block[0]
    <3>1. /\ latestValid /\ writeIdx \in Nat /\ ToWrite \in Nat /\ ToWrite > 0
          /\ blockLen' = writeIdx + ToWrite /\ block'[0] = bufAbs[writing]
      BY <1>4, WriteFacts
    <3>2. writeIdx > 0 /\ blockLen' > 0
      BY <1>4, <3>1
    <3>3. blockLen > 0 /\ block[0] = bufAbs[writing]
      BY <3>1, <3>2 DEF IInv, SentInv
    <3>4. QED
      BY <3>1, <3>2, <3>3
  <2>3. QueueInv'
    BY <2>1, <2>2 DEF QueueInv, Real, RxTimes, RxTagAt, FirstRx, Pos
  <2>4. EstimatedTimeTrue' /\ LastInv'
    BY <2>1, <2>2 DEF EstimatedTimeTrue, TrueTime, LastTime, TimeTagsUpTo, SteadyRate, PeriodAt,
          LastInv
  <2>5. QED
    BY <1>1, <1>2, <2>3, <2>4
<1>5. CASE Read \/ Restart
  <2>1. UNCHANGED << lastAbs, block, blockLen, blockTime, stream >>
    BY <1>5 DEF Read, Restart, timeVars, blockVars
  <2>2. EstimatedTimeTrue' /\ LastInv'
    BY <2>1 DEF EstimatedTimeTrue, TrueTime, LastTime, TimeTagsUpTo, SteadyRate, PeriodAt,
          LastInv
  <2>3. QED
    BY <1>1, <1>2, <1>5, <2>2, QueueRead
<1>6. CASE ~Write /\ ~Read /\ ~Restart
  <2>1. /\ UNCHANGED << lastAbs, block, blockLen, blockTime, stream, rxTags, currentRx >>
        /\ Pos' = Pos
    BY <1>6, QuietFacts
  <2>2. QueueInv'
    BY <2>1 DEF QueueInv, Real, RxTimes, RxTagAt, FirstRx
  <2>3. EstimatedTimeTrue' /\ LastInv'
    BY <2>1 DEF EstimatedTimeTrue, TrueTime, LastTime, TimeTagsUpTo, SteadyRate, PeriodAt,
          LastInv
  <2>4. QED
    BY <1>1, <1>2, <2>2, <2>3
<1>7. QED
  BY <1>3, <1>4, <1>5, <1>6

LEMMA ContentInvariance ==
  ASSUME AlwaysPassing
  PROVE  Spec => [](IInv /\ ContentInv)
<1>1. Init => ContentInv
  BY ContentInit
<1>2. IInv /\ IInv' /\ ContentInv /\ [Next]_vars => ContentInv'
  BY ContentNext
<1>3. QED
  BY <1>1, <1>2, Invariance, PTL DEF Spec

(* No more is read than there is.                                          *)
LEMMA PosBound ==
  ASSUME IInv
  PROVE  Pos <= StreamLen
<1>1. /\ nread \in Nat /\ nread <= StreamLen /\ inIdx \in Nat /\ ninput \in Nat
      /\ StreamLen \in Nat
  BY StartFacts DEF IInv, BufferTypeOK
<1>2. \/ nread + ninput <= StreamLen /\ inIdx <= ninput
      \/ inIdx = 0
  BY DEF IInv, WindowInv, BufferTypeOK
<1>3. nread + inIdx <= StreamLen
  BY <1>1, <1>2
<1>4. QED
  BY <1>3 DEF Pos

(* The samples of a block are samples that were read.                      *)
LEMMA BlockFacts ==
  ASSUME IInv, TagInv, NEW j \in 0 .. blockLen - 1
  PROVE  /\ block[j] = block[0] + j
         /\ block[j] \in Offsets
<1>1. /\ block \in [0 .. blockLen - 1 -> Int] /\ blockLen \in Nat
      /\ blockLen > 0 /\ j \in Nat /\ j < blockLen
  BY DEF IInv, BufferTypeOK
<1>2. /\ block[0] \in Nat
      /\ block = BlocksView!Stretch(block[0], blockLen)
      /\ block[0] + blockLen <= StartAbs
  BY <1>1 DEF IInv, SentInv, TagInv
<1>3. block[j] = block[0] + j
  <2> DEFINE b == block[0]
  <2>1. block = [i \in 0 .. blockLen - 1 |-> b + i]
    BY <1>1, <1>2, StretchFacts
  <2> HIDE DEF b
  <2>2. block[j] = b + j
    BY <2>1
  <2>3. QED
    BY <2>2 DEF b
<1>4. StartAbs <= Pos /\ StartAbs \in Nat /\ Pos \in Nat /\ Pos <= StreamLen
      /\ StreamLen \in Nat
  BY PosBound, StartFacts
<1> HIDE DEF StartAbs, Pos
<1>5. block[0] + j \in 0 .. StreamLen - 1
  BY <1>1, <1>2, <1>4
<1>6. QED
  BY <1>3, <1>5 DEF Offsets

LEMMA SentClean ==
  ASSUME IInv, ContentInv
  PROVE  BufferInv
<1> USE DEF ContentInv
<1>1. ASSUME NEW j \in 1 .. blockLen - 1
      PROVE  Calm(stream[block[j]], stream[block[0]])
  <2>1. /\ j \in 0 .. blockLen - 1 /\ j \in Nat /\ j > 0 /\ j < blockLen
        /\ blockLen \in Nat /\ blockLen > 0
    BY DEF IInv, BufferTypeOK
  <2>2. block[j] = block[0] + j /\ block[j] \in Offsets
    BY <2>1, BlockFacts
  <2>3. block[0] \in Nat /\ Clean(block[0], blockLen)
    BY <2>1 DEF TagInv
  <2>4. block[0] < block[j] /\ block[j] < block[0] + blockLen
    BY <2>1, <2>2, <2>3
  <2>5. QED
    BY <2>2, <2>3, <2>4 DEF Clean, TagOffsets, Calm
<1>2. ASSUME NEW j \in 0 .. blockLen - 1
      PROVE  j \in blockTags <=> stream[block[j]] # {}
  <2>1. block[j] = block[0] + j /\ block[j] \in Offsets
    BY BlockFacts
  <2>2. blockLen > 0
    BY DEF IInv, BufferTypeOK
  <2>3. j \in blockTags <=> block[0] + j \in TagOffsets
    BY <2>2 DEF TagInv
  <2>4. QED
    BY <2>1, <2>3 DEF TagOffsets
<1>3. \A j \in blockTags : j >= 0
  <2>1. blockTags \subseteq Nat
    BY DEF TagInv
  <2>2. QED
    BY <2>1
<1>4. QED
  BY <1>1, <1>2, <1>3 DEF BufferInv, NoChangeInBlock, TagsStayOnSamples

(* What is sent as a block is free of the overflows its rx_time tags tell, *)
(* has its tags on the samples they came in on, and the time announced for *)
(* it is that of its first sample as long as the rate is the constructor's:*)
(* for every stream of tags, paired or not, every block size and division  *)
(* into calls, with set_nsamples called between any two.                   *)
THEOREM BufferCorrect ==
  ASSUME AlwaysPassing
  PROVE  Spec => []BufferInv
<1>1. IInv /\ ContentInv => BufferInv
  BY SentClean
<1>2. QED
  BY <1>1, ContentInvariance, PTL

(* The count a BLOCK tag carries after a block that was sent whole: as long*)
(* as 64 bits count the samples.                                           *)
LEMMA SkipStep ==
  ASSUME AlwaysPassing, StreamLen <= Word, IInv, ContentInv, [Next]_vars
  PROVE  pc = "write" /\ writeIdx = 0 /\ blockLen = nsamples /\ lastAbs' # lastAbs
           => blockSkipped' = block'[0] - (block[0] + blockLen)
<1> SUFFICES ASSUME writeIdx = 0, blockLen = nsamples, lastAbs' # lastAbs
             PROVE  blockSkipped' = block'[0] - (block[0] + blockLen)
  OBVIOUS
<1> DEFINE first == bufAbs[writing]
<1>1. Write
  <2>1. Read \/ Restart => lastAbs' = lastAbs
    BY DEF Read, Restart, timeVars
  <2>2. QED
    BY <2>1, QuietFacts
<1>2. block'[0] = first /\ first \in Nat /\ latestValid
  BY <1>1, WriteFacts
<1>3. blockSkipped' = IF first = 0 THEN 0 ELSE (first - lastAbs - nsamples) % Word
  BY <1>1 DEF Write, SendTags, Skipped
<1>4. /\ blockLen > 0 /\ blockLen \in Nat /\ nsamples \in Nat
      /\ block[0] + blockLen <= first /\ lastAbs = block[0] /\ block[0] \in Nat
  <2>1. nsamples > 0 /\ nsamples \in Nat
    BY StartFacts
  <2>2. QED
    BY <1>2, <2>1 DEF IInv, SentInv, ContentInv, LastInv, TagInv
<1>5. first <= StreamLen
  <2>1. /\ bufAbs[latest] + nsamples <= StartAbs
        /\ writing # latest => first + nsamples <= bufAbs[latest]
        /\ latest \in Bufs
    BY <1>2 DEF IInv, WriteInv, RingInv
  <2>2. bufAbs[latest] \in Nat
    BY <2>1 DEF IInv, BufferTypeOK
  <2>3. StartAbs \in Nat /\ Pos \in Nat /\ StartAbs <= Pos /\ StreamLen \in Nat
    BY StartFacts
  <2>4. Pos <= StreamLen
    BY PosBound
  <2> HIDE DEF StartAbs, Pos
  <2>5. QED
    BY <1>2, <1>4, <2>1, <2>2, <2>3, <2>4
<1> HIDE DEF first
<1>6. PICK d \in Nat : d = first - lastAbs - nsamples
  BY <1>2, <1>4
<1>7. d < Word /\ d = first - (block[0] + blockLen) /\ first # 0
  BY <1>2, <1>4, <1>5, <1>6, BufferAssumption
<1>8. d % Word = d
  <2>1. \A w \in Nat \ {0}, x \in Nat : x < w => x % w = x
    OBVIOUS
  <2>2. Word \in Nat \ {0}
    BY BufferAssumption
  <2>3. QED
    BY <1>6, <1>7, <2>1, <2>2
<1>9. QED
  BY <1>2, <1>3, <1>6, <1>7, <1>8

(* A block sent whole is followed by a block whose tag counts the samples  *)
(* skipped between them.                                                   *)
THEOREM SkipCountCorrect ==
  ASSUME AlwaysPassing, StreamLen <= Word
  PROVE  Spec => SkipCountAfterWholeBlock
<1>1. IInv /\ ContentInv /\ [Next]_vars =>
        [pc = "write" /\ writeIdx = 0 /\ blockLen = nsamples /\ lastAbs' # lastAbs
           => blockSkipped' = block'[0] - (block[0] + blockLen)]_vars
  BY SkipStep
<1>2. QED
  BY <1>1, ContentInvariance, PTL DEF Spec, SkipCountAfterWholeBlock

(***************************************************************************)
(* The order of the output, with set_pass_data called as well.             *)
(***************************************************************************)
(* The first n places of a buffer hold samples in the order of the stream. *)
Rising(buf, n) == \A i, j \in 0 .. n - 1 : i < j => buf[i] < buf[j]

(* The first sample in the buffer that is read into, or to come into it.   *)
Begin == IF readIdx = 0 THEN Pos ELSE mem[reading][0]

CallOrder ==
  /\ pc \in {"read", "dead"} => nread + ninput <= StreamLen /\ inIdx <= ninput
  /\ pc \in {"idle", "write"} => inIdx = 0

ReadOrder ==
  /\ Rising(mem[reading], readIdx)
  /\ \A j \in 0 .. readIdx - 1 : mem[reading][j] < Pos

WriteOrder ==
  latestValid =>
    /\ Rising(mem[writing], nsamples)
    /\ Rising(mem[latest], nsamples)
    /\ writing # latest => mem[writing][nsamples - 1] < mem[latest][0]
    /\ mem[latest][nsamples - 1] < Begin

(* What was sent of a block whose buffer is still being written out is     *)
(* what the buffer holds.                                                  *)
SentOrder ==
  /\ latestValid /\ writeIdx > 0 =>
       blockLen = writeIdx /\ \A j \in 0 .. writeIdx - 1 : block[j] = mem[writing][j]
  /\ blockLen > 0 =>
       /\ Rising(block, blockLen)
       /\ block[blockLen - 1] < Begin
       /\ latestValid /\ writeIdx = 0 => block[blockLen - 1] < mem[writing][0]

OrderInv == BufferTypeOK /\ CallOrder /\ RingInv /\ ReadOrder /\ WriteOrder /\ SentOrder

(* The numbers of the invariant.                                           *)
LEMMA OrderFacts ==
  ASSUME OrderInv
  PROVE  /\ nsamples \in Nat /\ nsamples > 0
         /\ readIdx \in Nat /\ readIdx < nsamples
         /\ writeIdx \in Nat /\ writeIdx <= nsamples
         /\ nread \in Nat /\ inIdx \in Nat /\ ninput \in Nat /\ StreamLen \in Nat
         /\ Pos \in Nat /\ Begin \in Int /\ Begin <= Pos
         /\ \A b \in Bufs, j \in 0 .. nsamples - 1 : mem[b][j] \in Int
<1>1. /\ nsamples \in Nat /\ nsamples > 0 /\ readIdx \in Nat /\ readIdx < nsamples
      /\ writeIdx \in Nat /\ writeIdx <= nsamples
      /\ nread \in Nat /\ inIdx \in Nat /\ ninput \in Nat /\ StreamLen \in Nat
      /\ reading \in Bufs /\ mem \in [Bufs -> [0 .. nsamples - 1 -> Int]]
  BY BufferAssumption DEF OrderInv, BufferTypeOK
<1>2. \A b \in Bufs, j \in 0 .. nsamples - 1 : mem[b][j] \in Int
  BY <1>1
<1>3. Pos \in Nat
  BY <1>1 DEF Pos
<1> HIDE DEF Pos
<1>4. readIdx > 0 => mem[reading][0] < Pos /\ mem[reading][0] \in Int
  <2>1. readIdx > 0 => 0 \in 0 .. readIdx - 1 /\ 0 \in 0 .. nsamples - 1
    BY <1>1
  <2>2. QED
    BY <1>1, <1>2, <2>1 DEF OrderInv, ReadOrder
<1>5. Begin \in Int /\ Begin <= Pos
  BY <1>1, <1>3, <1>4 DEF Begin
<1>6. QED
  BY <1>1, <1>2, <1>3, <1>5

(* In a buffer in order, no place holds a sample after a later place's.    *)
LEMMA RisingFacts ==
  ASSUME NEW n \in Nat, NEW buf \in [0 .. n - 1 -> Int], Rising(buf, n),
         NEW i \in 0 .. n - 1, NEW j \in 0 .. n - 1, i <= j
  PROVE  buf[i] <= buf[j]
<1>1. buf[i] \in Int /\ buf[j] \in Int
  OBVIOUS
<1>2. CASE i < j
  BY <1>1, <1>2 DEF Rising
<1>3. CASE i = j
  BY <1>1, <1>3
<1>4. QED
  BY <1>2, <1>3

(* Whatever is to be written out comes before what is read.                *)
LEMMA WritingBehind ==
  ASSUME OrderInv, latestValid
  PROVE  mem[writing][nsamples - 1] < Begin
<1>1. /\ nsamples - 1 \in 0 .. nsamples - 1 /\ 0 \in 0 .. nsamples - 1 /\ 0 <= nsamples - 1
      /\ nsamples \in Nat /\ writing \in Bufs /\ latest \in Bufs /\ Begin \in Int
      /\ mem \in [Bufs -> [0 .. nsamples - 1 -> Int]]
  BY OrderFacts DEF OrderInv, BufferTypeOK, RingInv
<1>2. /\ mem[latest] \in [0 .. nsamples - 1 -> Int] /\ Rising(mem[latest], nsamples)
      /\ mem[latest][nsamples - 1] < Begin
      /\ writing # latest => mem[writing][nsamples - 1] < mem[latest][0]
  BY <1>1 DEF OrderInv, WriteOrder
<1>3. mem[latest][0] <= mem[latest][nsamples - 1]
  BY <1>1, <1>2, RisingFacts
<1>4. /\ mem[latest][0] \in Int /\ mem[latest][nsamples - 1] \in Int
      /\ mem[writing][nsamples - 1] \in Int
  BY <1>1
<1>5. QED
  BY <1>1, <1>2, <1>3, <1>4

(* Steps that leave buffers and output alone, and do not take the position *)
(* back: what is read next is no earlier.                                  *)
LEMMA QuietOrder ==
  ASSUME OrderInv, UNCHANGED << nsamples, writeIdx, ringVars, mem, block, blockLen >>,
         BufferTypeOK', CallOrder',
         readIdx' = 0 \/ readIdx' = readIdx,
         Pos' \in Nat, Pos <= Pos'
  PROVE  OrderInv'
<1> USE DEF OrderInv
<1>1. UNCHANGED << nsamples, writeIdx, reading, writing, latest, latestValid, mem, block,
                   blockLen >>
  BY DEF ringVars
<1>2. /\ Pos \in Nat /\ Begin \in Int /\ Begin <= Pos /\ readIdx \in Nat
      /\ readIdx < nsamples /\ nsamples \in Nat /\ nsamples > 0
      /\ \A b \in Bufs, j \in 0 .. nsamples - 1 : mem[b][j] \in Int
  BY OrderFacts
<1>3. Begin' \in Int /\ Begin <= Begin'
  <2>1. CASE readIdx' = 0
    <3>1. Begin' = Pos'
      BY <2>1 DEF Begin
    <3> HIDE DEF Pos
    <3>2. QED
      BY <1>2, <3>1
  <2>2. CASE readIdx' = readIdx /\ readIdx # 0
    <3>1. Begin' = Begin
      BY <1>1, <2>2 DEF Begin
    <3>2. QED
      BY <1>2, <3>1
  <2>3. QED
    BY <2>1, <2>2
<1> HIDE DEF Pos, Begin
<1>4. RingInv'
  BY <1>1 DEF RingInv
<1>5. ReadOrder'
  <2>1. CASE readIdx' = 0
    BY <2>1 DEF ReadOrder, Rising
  <2>2. CASE readIdx' = readIdx
    <3>1. \A j \in 0 .. readIdx - 1 : mem[reading][j] < Pos'
      <4> SUFFICES ASSUME NEW j \in 0 .. readIdx - 1
                   PROVE  mem[reading][j] < Pos'
        OBVIOUS
      <4>1. mem[reading][j] < Pos
        BY DEF ReadOrder
      <4>2. mem[reading][j] \in Int
        BY <1>2 DEF BufferTypeOK
      <4>3. QED
        BY <1>2, <4>1, <4>2
    <3>2. QED
      BY <1>1, <2>2, <3>1 DEF ReadOrder
  <2>3. QED
    BY <2>1, <2>2
<1>6. ASSUME NEW s \in Int, s < Begin
      PROVE  s < Begin'
  BY <1>2, <1>3, <1>6
<1>7. WriteOrder'
  <2>1. latestValid => mem[latest][nsamples - 1] \in Int
    BY <1>2 DEF RingInv
  <2>2. latestValid => mem[latest][nsamples - 1] < Begin'
    BY <1>6, <2>1 DEF WriteOrder
  <2>3. QED
    BY <1>1, <2>2 DEF WriteOrder
<1>8. SentOrder'
  <2>1. blockLen > 0 => block[blockLen - 1] \in Int
    <3>1. blockLen \in Nat /\ block \in [0 .. blockLen - 1 -> Int]
      BY DEF BufferTypeOK
    <3>2. blockLen > 0 => blockLen - 1 \in 0 .. blockLen - 1
      BY <3>1
    <3>3. QED
      BY <3>1, <3>2
  <2>2. blockLen > 0 => block[blockLen - 1] < Begin'
    BY <1>6, <2>1 DEF SentOrder
  <2>3. QED
    BY <1>1, <2>2 DEF SentOrder
<1>9. QED
  BY <1>4, <1>5, <1>7, <1>8

LEMMA BookkeepingOrder ==
  ASSUME OrderInv,
         \/ \E n \in 0 .. MaxItems : WorkDrop(n)
         \/ \E n \in 1 .. MaxItems, space \in 0 .. MaxRoom : WorkBegin(n, space)
         \/ Consume
         \/ WorkReturn
         \/ RestartNowhere
         \/ \E n \in NSampleChoices \cup {0} : SetNsamples(n)
         \/ \E b \in BOOLEAN : SetPassData(b)
         \/ UNCHANGED vars
  PROVE  OrderInv'
<1> USE BufferAssumption DEF OrderInv
<1>1. /\ Pos \in Nat /\ Pos <= Pos /\ nread \in Nat /\ inIdx \in Nat /\ ninput \in Nat
      /\ nsamples \in Nat /\ nsamples > 0 /\ StreamLen \in Nat
  BY OrderFacts
<1>2. ASSUME NEW n \in 0 .. MaxItems, WorkDrop(n)
      PROVE  OrderInv'
  <2>1. /\ nread' = nread + n /\ pc = "idle" /\ nread + n <= StreamLen /\ n \in Nat
        /\ UNCHANGED << nsamples, nextNsamples, readIdx, writeIdx, ringVars, bufVars, pc,
                        ninput, inIdx, room, outIdx, blockVars >>
    BY <1>2 DEF WorkDrop
  <2>2. inIdx = 0
    BY <2>1 DEF CallOrder
  <2>3. Pos' \in Nat /\ Pos <= Pos' /\ nread' \in 0 .. StreamLen
    BY <1>1, <2>1, <2>2 DEF Pos
  <2>4. BufferTypeOK' /\ CallOrder'
    BY <2>1, <2>3 DEF BufferTypeOK, CallOrder, ringVars, bufVars, blockVars
  <2>5. QED
    BY <2>1, <2>3, <2>4, QuietOrder DEF bufVars, blockVars
<1>3. ASSUME NEW n \in 1 .. MaxItems, NEW space \in 0 .. MaxRoom, WorkBegin(n, space)
      PROVE  OrderInv'
  <2>1. /\ UNCHANGED << nsamples, nextNsamples, readIdx, writeIdx, ringVars, bufVars, nread,
                        blockVars >>
        /\ ninput' = n /\ inIdx' = 0 /\ room' = space /\ outIdx' = 0 /\ pc' = "read"
        /\ nread + n <= StreamLen
        /\ inIdx = 0
        /\ n \in Nat /\ space \in Nat
    BY <1>3 DEF WorkBegin, CallOrder
  <2>2. BufferTypeOK' /\ Pos' = Pos
    BY <2>1 DEF BufferTypeOK, Pos, ringVars, bufVars, blockVars
  <2>3. CallOrder'
    <3>1. nread + n <= StreamLen /\ 0 <= n
      BY <2>1
    <3>2. QED
      BY <2>1, <3>1 DEF CallOrder
  <2>4. QED
    BY <1>1, <2>1, <2>2, <2>3, QuietOrder DEF bufVars, blockVars
<1>4. CASE Consume
  <2>1. /\ UNCHANGED << nsamples, nextNsamples, readIdx, writeIdx, ringVars, bufVars, room,
                        outIdx, blockVars >>
        /\ inIdx = ninput /\ pc = "read"
        /\ nread' = nread + ninput /\ inIdx' = 0 /\ ninput' = 0 /\ pc' = "write"
    BY <1>4 DEF Consume
  <2>2. nread + ninput + 0 = nread + ninput /\ nread + ninput \in 0 .. StreamLen
    BY <1>1, <2>1 DEF CallOrder
  <2>3. Pos' = Pos
    BY <2>1, <2>2 DEF Pos
  <2>4. nread' \in 0 .. StreamLen
    BY <2>1, <2>2
  <2>5. BufferTypeOK'
    BY <2>1, <2>4 DEF BufferTypeOK, ringVars, bufVars, blockVars
  <2>6. CallOrder'
    BY <2>1 DEF CallOrder
  <2>7. QED
    BY <1>1, <2>1, <2>3, <2>5, <2>6, QuietOrder DEF bufVars, blockVars
<1>5. CASE WorkReturn
  <2>1. BufferTypeOK' /\ CallOrder' /\ Pos' = Pos
    BY <1>5 DEF WorkReturn, BufferTypeOK, CallOrder, Pos, ringVars, bufVars, blockVars
  <2>2. QED
    BY <1>1, <1>5, <2>1, QuietOrder DEF WorkReturn, bufVars, blockVars
<1>6. ASSUME NEW n \in NSampleChoices \cup {0}, SetNsamples(n)
      PROVE  OrderInv'
  <2>1. 0 \in 0 .. nsamples - 1
    BY <1>1
  <2>2. BufferTypeOK' /\ CallOrder' /\ Pos' = Pos
    BY <1>6, <2>1 DEF SetNsamples, BufferTypeOK, CallOrder, Pos, ringVars, bufVars, blockVars
  <2>3. QED
    BY <1>1, <1>6, <2>2, QuietOrder DEF SetNsamples, bufVars, blockVars
<1>7. ASSUME NEW b \in BOOLEAN, SetPassData(b)
      PROVE  OrderInv'
  <2>1. BufferTypeOK' /\ CallOrder' /\ Pos' = Pos
    BY <1>7 DEF SetPassData, BufferTypeOK, CallOrder, Pos, ringVars, bufVars, blockVars
  <2>2. QED
    BY <1>1, <1>7, <2>1, QuietOrder DEF SetPassData, bufVars, blockVars
<1>8. CASE UNCHANGED vars
  <2>1. BufferTypeOK' /\ CallOrder' /\ Pos' = Pos
    BY <1>8 DEF vars, BufferTypeOK, CallOrder, Pos, ringVars, bufVars, blockVars
  <2>2. QED
    BY <1>1, <1>8, <2>1, QuietOrder DEF vars, bufVars, blockVars
<1>9. CASE RestartNowhere
  <2>1. BufferTypeOK' /\ CallOrder' /\ Pos' = Pos
    BY <1>9 DEF RestartNowhere, ReadTurn, BufferTypeOK, CallOrder, Pos, ringVars, bufVars,
                blockVars
  <2>2. QED
    BY <1>1, <1>9, <2>1, QuietOrder DEF RestartNowhere, bufVars, blockVars
<1>10. QED
  BY <1>2, <1>3, <1>4, <1>5, <1>6, <1>7, <1>8, <1>9

LEMMA ReinitializeOrder ==
  ASSUME OrderInv, Reinitialize
  PROVE  OrderInv'
<1> USE BufferAssumption DEF OrderInv
<1>1. /\ readIdx = 0 /\ nextNsamples \in NSampleChoices
      /\ nsamples' = nextNsamples
      /\ mem' = [b \in Bufs |-> [j \in 0 .. nextNsamples - 1 |-> Junk]]
      /\ writeIdx' = 0 /\ readIdx' = 0 /\ reading' = 0 /\ writing' = 1
      /\ latest' = -1 /\ latestValid' = FALSE /\ nextNsamples' = 0
      /\ UNCHANGED << bufAbs, nread, pc, ninput, inIdx, room, outIdx, block, blockLen >>
  BY DEF Reinitialize, InitBuffers, BufferTypeOK, blockVars
<1>2. nextNsamples \in Nat /\ 0 \in 0 .. nextNsamples - 1 /\ 0 \in 0 .. nextNsamples
  BY <1>1
<1>3. mem' \in [Bufs -> [0 .. nextNsamples - 1 -> Int]]
  BY <1>1 DEF Junk
<1>4. BufferTypeOK'
  <2>1. latestValid' \in BOOLEAN
    BY <1>1
  <2>2. QED
    BY <1>1, <1>2, <1>3, <2>1 DEF BufferTypeOK, Bufs
<1>5. RingInv' /\ CallOrder' /\ ReadOrder' /\ WriteOrder'
  BY <1>1 DEF RingInv, CallOrder, ReadOrder, WriteOrder, Rising
<1>6. SentOrder'
  <2>1. Begin' = Pos /\ Begin = Pos
    BY <1>1 DEF Begin, Pos
  <2>2. QED
    BY <1>1, <2>1 DEF SentOrder
<1>7. QED
  BY <1>4, <1>5, <1>6

(* How much a turn of the read loop reads.                                 *)
LEMMA TurnFacts ==
  ASSUME OrderInv, ReadTurn
  PROVE  /\ ToRead \in Nat /\ ToRead > 0
         /\ readIdx + ToRead <= nsamples
         /\ inIdx + ToRead <= ninput
         /\ pc = "read" /\ nread + ninput <= StreamLen
<1>1. /\ ninput \in Nat /\ inIdx \in Nat /\ inIdx < ninput
      /\ readIdx \in Nat /\ readIdx < nsamples /\ nsamples \in Nat
      /\ nread + ninput <= StreamLen /\ pc = "read"
  BY OrderFacts DEF OrderInv, CallOrder, ReadTurn
<1>2. ToRead \in Nat /\ ToRead > 0 /\ ToRead <= ninput - inIdx
      /\ ToRead <= nsamples - readIdx
  BY <1>1 DEF ToRead
<1> HIDE DEF ToRead
<1>3. QED
  BY <1>1, <1>2

LEMMA RestartOrder ==
  ASSUME OrderInv, Restart
  PROVE  OrderInv'
<1> USE DEF OrderInv
<1>1. /\ ReadTurn /\ TimeTags # {}
      /\ readIdx' = 0 /\ inIdx' = LastTag - nread
      /\ bufAbs' = [bufAbs EXCEPT ![reading] = StartAbs]
      /\ UNCHANGED << nsamples, nextNsamples, writeIdx, ringVars, mem, nread, pc, ninput, room,
                      outIdx, block, blockLen >>
  BY DEF Restart, blockVars
<1>2. /\ Pos \in Nat /\ ToRead \in Nat /\ StreamLen \in Nat /\ ToRead > 0
      /\ nread \in Nat /\ inIdx \in Nat /\ ninput \in Nat /\ nsamples \in Nat /\ nsamples > 0
      /\ inIdx + ToRead <= ninput /\ nread + ninput <= StreamLen /\ pc = "read"
  BY <1>1, OrderFacts, TurnFacts
<1>3. LastTag \in Nat /\ Pos <= LastTag /\ LastTag <= Pos + ToRead - 1
  <2> HIDE DEF Pos, ToRead
  <2>1. TimeTags \in SUBSET (0 .. StreamLen) /\ TimeTags # {}
        /\ \A i \in TimeTags : i \in Pos .. Pos + ToRead - 1
    BY <1>1, <1>2 DEF TimeTags, Tagged, Window
  <2>2. LastTag \in TimeTags
    BY <1>2, <2>1, MaxInSet DEF LastTag
  <2>3. QED
    BY <1>2, <2>1, <2>2
<1>4. LastTag - nread \in Nat /\ nread + (LastTag - nread) = LastTag
      /\ LastTag - nread <= ninput
  <2>1. Pos = nread + inIdx
    BY DEF Pos
  <2> HIDE DEF LastTag, ToRead, Pos
  <2>2. QED
    BY <1>2, <1>3, <2>1
<1>5. Pos' = LastTag
  BY <1>1, <1>4 DEF Pos
<1>6. BufferTypeOK'
  <2>1. StartAbs \in Nat /\ 0 \in 0 .. nsamples - 1 /\ inIdx' \in Nat
    BY <1>1, <1>2, <1>4 DEF StartAbs, BufferTypeOK
  <2>2. bufAbs' \in [Bufs -> Nat]
    BY <1>1, <2>1 DEF BufferTypeOK
  <2>3. QED
    BY <1>1, <2>1, <2>2 DEF BufferTypeOK, ringVars
<1>7. CallOrder'
  <2>1. inIdx' <= ninput'
    BY <1>1, <1>4
  <2>2. QED
    BY <1>1, <1>2, <2>1 DEF CallOrder
<1>8. QED
  BY <1>1, <1>3, <1>5, <1>6, <1>7, QuietOrder

(* Reading puts later samples behind those that the buffer holds; a buffer *)
(* that is full comes before what is read next.                            *)
LEMMA ReadInOrder ==
  ASSUME OrderInv, Read
  PROVE  OrderInv'
<1> USE DEF OrderInv
<1> DEFINE k == ToRead
           s == StartAbs
           r == readIdx
           m == mem'[reading]
<1>1. /\ ReadTurn
      /\ bufAbs' = [bufAbs EXCEPT ![reading] = s]
      /\ mem' = [mem EXCEPT ![reading] =
                   [j \in DOMAIN mem[reading] |-> IF j \in r .. r + k - 1
                                       THEN Pos + j - r ELSE mem[reading][j]]]
      /\ inIdx' = inIdx + k
      /\ UNCHANGED << nsamples, nextNsamples, nread, pc, ninput, room, outIdx, block, blockLen >>
  BY DEF Read, blockVars
<1>2. \/ /\ r + k = nsamples /\ readIdx' = 0 /\ SwitchReading
      \/ /\ r + k # nsamples /\ readIdx' = r + k
         /\ UNCHANGED << writeIdx, reading, writing, latest, latestValid >>
  BY DEF Read, ringVars
<1>3. /\ k \in Nat /\ k > 0 /\ r + k <= nsamples
      /\ inIdx + k <= ninput /\ nread + ninput <= StreamLen /\ pc = "read"
      /\ Pos \in Nat /\ Begin \in Int /\ Begin <= Pos
      /\ nread \in Nat /\ nsamples \in Nat /\ nsamples > 0
      /\ r \in Nat /\ r < nsamples /\ inIdx \in Nat /\ ninput \in Nat
      /\ \A b \in Bufs, j \in 0 .. nsamples - 1 : mem[b][j] \in Int
  BY <1>1, OrderFacts, TurnFacts
<1>4. Pos' = Pos + k
  <2>1. Pos = nread + inIdx
    BY DEF Pos
  <2>2. nread + (inIdx + k) = Pos + k
    BY <1>3, <2>1
  <2>3. Pos' = nread + (inIdx + k)
    BY <1>1 DEF Pos
  <2>4. QED
    BY <2>2, <2>3
<1>5. s \in Nat
  BY <1>3 DEF StartAbs, BufferTypeOK
<1>6. readIdx = 0 => Begin = Pos
  BY DEF Begin
<1>7. readIdx > 0 => Begin = mem[reading][0]
  BY DEF Begin
<1> HIDE DEF ToRead, StartAbs, Pos, Begin, k, s
<1>8. /\ reading \in Bufs /\ writing \in Bufs /\ reading # writing
      /\ bufAbs' \in [Bufs -> Nat]
      /\ \A b \in Bufs \ {reading} : mem'[b] = mem[b]
  BY <1>1, <1>5 DEF BufferTypeOK, RingInv
<1>9. /\ mem' \in [Bufs -> [0 .. nsamples - 1 -> Int]]
      /\ \A j \in 0 .. nsamples - 1 :
           m[j] = IF j \in r .. r + k - 1 THEN Pos + j - r ELSE mem[reading][j]
  <2>1. /\ mem \in [Bufs -> [0 .. nsamples - 1 -> Int]]
        /\ DOMAIN mem[reading] = 0 .. nsamples - 1
    BY <1>8 DEF BufferTypeOK
  <2> DEFINE f == [j \in DOMAIN mem[reading] |-> IF j \in r .. r + k - 1
                                      THEN Pos + j - r ELSE mem[reading][j]]
  <2>2. f \in [0 .. nsamples - 1 -> Int]
    BY <1>3, <1>8, <2>1
  <2>3. mem' = [mem EXCEPT ![reading] = f]
    BY <1>1
  <2>4. \A j \in 0 .. nsamples - 1 :
          f[j] = IF j \in r .. r + k - 1 THEN Pos + j - r ELSE mem[reading][j]
    BY <2>1
  <2> HIDE DEF f
  <2>5. QED
    BY <1>8, <2>1, <2>2, <2>3, <2>4
<1>10. m \in [0 .. nsamples - 1 -> Int]
  BY <1>8, <1>9
<1> HIDE DEF m
<1>11. /\ \A j \in 0 .. r - 1 : m[j] = mem[reading][j] /\ m[j] \in Int /\ m[j] < Pos
       /\ \A j \in r .. r + k - 1 : m[j] = Pos + j - r /\ m[j] >= Pos /\ m[j] < Pos + k
  <2>1. ASSUME NEW j \in 0 .. r - 1
        PROVE  m[j] = mem[reading][j] /\ m[j] \in Int /\ m[j] < Pos
    <3>1. j \in 0 .. nsamples - 1 /\ j \notin r .. r + k - 1
      BY <1>3
    <3>2. mem[reading][j] < Pos
      BY DEF ReadOrder
    <3>3. QED
      BY <1>3, <1>8, <1>9, <3>1, <3>2
  <2>2. ASSUME NEW j \in r .. r + k - 1
        PROVE  m[j] = Pos + j - r /\ m[j] >= Pos /\ m[j] < Pos + k
    <3>1. j \in 0 .. nsamples - 1
      BY <1>3
    <3>2. m[j] = Pos + j - r
      BY <1>9, <3>1
    <3>3. QED
      BY <1>3, <3>2
  <2>3. QED
    BY <2>1, <2>2
<1>12. Rising(m, r + k) /\ \A j \in 0 .. r + k - 1 : m[j] < Pos + k
  <2>1. ASSUME NEW i \in 0 .. r + k - 1, NEW j \in 0 .. r + k - 1, i < j
        PROVE  m[i] < m[j]
    <3>1. CASE j < r
      <4>1. i \in 0 .. r - 1 /\ j \in 0 .. r - 1
        BY <1>3, <2>1, <3>1
      <4>2. mem[reading][i] < mem[reading][j]
        BY <2>1, <4>1 DEF ReadOrder, Rising
      <4>3. QED
        BY <1>11, <4>1, <4>2
    <3>2. CASE ~(j < r) /\ i < r
      <4>1. i \in 0 .. r - 1 /\ j \in r .. r + k - 1
        BY <1>3, <3>2
      <4>2. m[i] < Pos /\ m[i] \in Int /\ m[j] = Pos + j - r /\ m[j] >= Pos
        BY <1>11, <4>1
      <4>3. m[j] \in Int
        BY <1>3, <4>2
      <4>4. QED
        BY <1>3, <4>2, <4>3
    <3>3. CASE ~(i < r)
      <4>1. i \in r .. r + k - 1 /\ j \in r .. r + k - 1
        BY <1>3, <2>1, <3>3
      <4>2. m[i] = Pos + i - r /\ m[j] = Pos + j - r
        BY <1>11, <4>1
      <4>3. QED
        BY <1>3, <2>1, <4>2
    <3>4. QED
      BY <1>3, <3>1, <3>2, <3>3
  <2>2. ASSUME NEW j \in 0 .. r + k - 1
        PROVE  m[j] < Pos + k
    <3>1. CASE j \in 0 .. r - 1
      BY <1>3, <1>11, <3>1
    <3>2. CASE j \in r .. r + k - 1
      BY <1>11, <3>2
    <3>3. QED
      BY <1>3, <3>1, <3>2
  <2>3. (r + k) - 1 = r + k - 1
    BY <1>3
  <2>4. Rising(m, r + k)
    BY <2>1, <2>3 DEF Rising
  <2>5. QED
    BY <2>2, <2>4
<1>13. m[0] = Begin
  <2>1. CASE r = 0
    <3>1. 0 \in r .. r + k - 1
      BY <1>3, <2>1
    <3>2. m[0] = Pos + 0 - r
      BY <1>11, <3>1
    <3>3. QED
      BY <1>3, <1>6, <2>1, <3>2
  <2>2. CASE r > 0
    <3>1. 0 \in 0 .. r - 1
      BY <1>3, <2>2
    <3>2. QED
      BY <1>7, <1>11, <2>2, <3>1
  <2>3. QED
    BY <1>3, <2>1, <2>2
<1>14. CallOrder'
  <2>1. inIdx' <= ninput'
    BY <1>1, <1>3
  <2>2. QED
    BY <1>1, <1>3, <2>1 DEF CallOrder
<1>15. inIdx' \in Nat
  BY <1>1, <1>3
<1>16. latestValid => /\ latest \in Bufs \ {reading} /\ writing \in Bufs \ {reading}
                      /\ mem'[writing] = mem[writing] /\ mem'[latest] = mem[latest]
                      /\ mem[writing][nsamples - 1] < Begin
  BY <1>8, WritingBehind DEF RingInv
<1>17. blockLen > 0 => block[blockLen - 1] < Begin /\ block[blockLen - 1] \in Int
  <2>1. blockLen \in Nat /\ block \in [0 .. blockLen - 1 -> Int]
    BY DEF BufferTypeOK
  <2>2. blockLen > 0 => blockLen - 1 \in 0 .. blockLen - 1
    BY <2>1
  <2>3. QED
    BY <2>1, <2>2 DEF SentOrder
<1>18. PICK n \in Nat : n = r + k /\ Rising(m, n) /\ \A j \in 0 .. n - 1 : m[j] < Pos + k
  BY <1>3, <1>12
<1>19. CASE r + k = nsamples
  <2>1. /\ readIdx' = 0 /\ latest' = reading /\ latestValid' = TRUE
        /\ reading' = 3 - writing - reading
        /\ IF latestValid THEN UNCHANGED << writeIdx, writing >>
           ELSE writeIdx' = 0 /\ writing' = reading
    BY <1>2, <1>19 DEF SwitchReading, NextBuf
  <2>2. reading' \in Bufs /\ reading' # reading /\ reading' # writing
    BY <1>8, <2>1 DEF Bufs
  <2>3. Begin' = Pos + k /\ Begin < Pos + k
    <3>1. Begin' = Pos'
      BY <2>1 DEF Begin
    <3>2. QED
      BY <1>3, <1>4, <3>1
  <2>4. n = nsamples /\ nsamples - 1 \in 0 .. nsamples - 1
    BY <1>3, <1>18, <1>19
  <2>5. BufferTypeOK'
    <3>1. 0 \in 0 .. nsamples - 1 /\ 0 \in 0 .. nsamples
      BY <1>3
    <3>2. latestValid' \in BOOLEAN
      BY <2>1
    <3>3. writeIdx' \in 0 .. nsamples /\ writing' \in Bufs
      BY <1>8, <2>1, <3>1 DEF BufferTypeOK
    <3>4. QED
      BY <1>1, <1>8, <1>9, <1>15, <2>1, <2>2, <3>1, <3>2, <3>3 DEF BufferTypeOK
  <2>6. RingInv'
    <3>1. CASE latestValid
      BY <1>1, <1>8, <2>1, <2>2, <3>1 DEF RingInv
    <3>2. CASE ~latestValid
      BY <1>1, <1>3, <1>8, <2>1, <2>2, <3>2 DEF RingInv
    <3>3. QED
      BY <3>1, <3>2
  <2>7. ReadOrder'
    BY <2>1 DEF ReadOrder, Rising
  <2>8. mem'[latest'] = m /\ (~latestValid => mem'[writing'] = m)
        /\ (latestValid => mem'[writing'] = mem[writing])
    BY <1>16, <2>1 DEF m
  <2>9. WriteOrder'
    <3>1. Rising(m, nsamples) /\ m[nsamples - 1] < Begin'
      BY <1>18, <2>3, <2>4
    <3>2. CASE latestValid
      <4>1. Rising(mem[writing], nsamples)
        BY <3>2 DEF WriteOrder
      <4>2. mem[writing][nsamples - 1] < m[0]
        BY <1>13, <1>16, <3>2
      <4>3. QED
        BY <1>1, <2>1, <2>8, <3>1, <3>2, <4>1, <4>2 DEF WriteOrder
    <3>3. CASE ~latestValid
      BY <1>1, <2>1, <2>8, <3>1, <3>3 DEF WriteOrder
    <3>4. QED
      BY <3>2, <3>3
  <2>10. SentOrder'
    <3>1. blockLen > 0 => block[blockLen - 1] < Begin'
      BY <1>3, <1>17, <2>3
    <3>2. CASE latestValid
      BY <1>1, <2>1, <2>8, <3>1, <3>2 DEF SentOrder
    <3>3. CASE ~latestValid
      <4>1. blockLen > 0 => block[blockLen - 1] < m[0]
        BY <1>13, <1>17
      <4>2. ~(writeIdx' > 0)
        BY <2>1, <3>3
      <4>3. QED
        BY <1>1, <2>1, <2>8, <3>1, <3>3, <4>1, <4>2 DEF SentOrder
    <3>4. QED
      BY <3>2, <3>3
  <2>11. QED
    BY <1>14, <2>5, <2>6, <2>7, <2>9, <2>10
<1>20. CASE r + k # nsamples
  <2>1. /\ readIdx' = r + k
        /\ UNCHANGED << writeIdx, reading, writing, latest, latestValid >>
    BY <1>2, <1>20
  <2>2. r + k \in 0 .. nsamples - 1 /\ r + k # 0
    BY <1>3, <1>20
  <2>3. readIdx' # 0 /\ readIdx' \in 0 .. nsamples - 1 /\ readIdx' = n
    BY <1>18, <2>1, <2>2
  <2>4. mem'[reading'] = m
    BY <2>1 DEF m
  <2>5. Begin' = Begin
    BY <1>13, <2>3, <2>4 DEF Begin
  <2>6. BufferTypeOK'
    BY <1>1, <1>8, <1>9, <1>15, <2>1, <2>3 DEF BufferTypeOK
  <2>7. RingInv'
    BY <1>1, <2>1 DEF RingInv
  <2>8. ReadOrder'
    <3>1. \A j \in 0 .. n - 1 : m[j] < Pos'
      BY <1>4, <1>18
    <3>2. QED
      BY <1>18, <2>3, <2>4, <3>1 DEF ReadOrder
  <2>9. WriteOrder'
    BY <1>1, <1>16, <2>1, <2>5 DEF WriteOrder
  <2>10. SentOrder'
    BY <1>1, <1>16, <2>1, <2>5 DEF SentOrder
  <2>11. QED
    BY <1>14, <2>6, <2>7, <2>8, <2>9, <2>10
<1>21. QED
  BY <1>19, <1>20

(* What a turn of the write loop sends is the next part of the buffer,     *)
(* which comes after all that was sent.                                    *)
LEMMA SendFacts ==
  ASSUME OrderInv, Write
  PROVE  /\ latestValid
         /\ ToWrite \in Nat /\ ToWrite > 0 /\ writeIdx \in Nat
         /\ writeIdx + ToWrite <= nsamples
         /\ blockLen' = writeIdx + ToWrite
         /\ block' \in [0 .. blockLen' - 1 -> Int]
         /\ \A j \in 0 .. blockLen' - 1 : block'[j] = mem[writing][j]
<1> USE DEF OrderInv
<1> DEFINE cnt == ToWrite
           w == writeIdx
<1>1. /\ latestValid /\ w < nsamples /\ outIdx < room
      /\ w \in Nat /\ nsamples \in Nat /\ outIdx \in Nat /\ room \in Nat
      /\ writing \in Bufs
      /\ \A j \in 0 .. nsamples - 1 : mem[writing][j] \in Int
  BY OrderFacts DEF Write, RingInv, BufferTypeOK
<1>2. cnt \in Nat /\ cnt > 0 /\ w + cnt <= nsamples
  <2>1. \/ cnt = room - outIdx /\ room - outIdx < nsamples - w
        \/ cnt = nsamples - w
    BY DEF ToWrite
  <2> HIDE DEF cnt, w
  <2>2. QED
    BY <1>1, <2>1
<1>3. Send(w, cnt) /\ (w > 0 => \A j \in 0 .. w - 1 : block[j] = mem[writing][j])
  <2>1. CASE w = 0
    BY <2>1 DEF Write
  <2>2. CASE w > 0
    <3>1. blockLen = w /\ \A j \in 0 .. w - 1 : block[j] = mem[writing][j]
      BY <1>1, <2>2 DEF SentOrder
    <3>2. Send(w, cnt)
      BY <2>2, <3>1 DEF Write
    <3>3. QED
      BY <3>1, <3>2
  <2>3. QED
    BY <1>1, <2>1, <2>2
<1> HIDE DEF cnt, w
<1>4. /\ blockLen' = w + cnt
      /\ block' = [j \in 0 .. w + cnt - 1 |->
                    IF j < w THEN block[j] ELSE mem[writing][w + j - w]]
  BY <1>3 DEF Send, w
<1>5. ASSUME NEW j \in 0 .. w + cnt - 1
      PROVE  block'[j] = mem[writing][j] /\ mem[writing][j] \in Int
  <2>1. /\ j \in Nat /\ w + j - w = j /\ j \in 0 .. nsamples - 1
        /\ j < w => j \in 0 .. w - 1 /\ w > 0
    BY <1>1, <1>2
  <2>2. QED
    BY <1>1, <1>3, <1>4, <2>1
<1>6. PICK n \in Nat : n = w + cnt
  BY <1>1, <1>2
<1>7. w + cnt - 1 = n - 1
  BY <1>1, <1>2, <1>6
<1>8. block' \in [0 .. n - 1 -> Int]
  <2> DEFINE sent(j) == IF j < w THEN block[j] ELSE mem[writing][w + j - w]
  <2>1. block' = [j \in 0 .. n - 1 |-> sent(j)]
    BY <1>4, <1>7
  <2>2. \A j \in 0 .. n - 1 : sent(j) \in Int
    <3>1. \A j \in 0 .. n - 1 : block'[j] \in Int
      BY <1>5, <1>7
    <3> HIDE DEF sent
    <3>2. \A j \in 0 .. n - 1 : block'[j] = sent(j)
      BY <2>1
    <3>3. QED
      BY <3>1, <3>2
  <2> HIDE DEF sent
  <2>3. QED
    BY <2>1, <2>2
<1>9. QED
  BY <1>1, <1>2, <1>4, <1>5, <1>6, <1>8 DEF cnt, w

LEMMA WriteInOrder ==
  ASSUME OrderInv, Write
  PROVE  OrderInv'
<1> USE DEF OrderInv
<1> DEFINE cnt == ToWrite
           w == writeIdx
<1>1. /\ latestValid /\ cnt \in Nat /\ cnt > 0 /\ w \in Nat /\ w + cnt <= nsamples
      /\ blockLen' = w + cnt
      /\ block' \in [0 .. blockLen' - 1 -> Int]
      /\ \A j \in 0 .. blockLen' - 1 : block'[j] = mem[writing][j]
  BY SendFacts
<1>2. /\ UNCHANGED << nsamples, nextNsamples, readIdx, reading, latest, mem, bufAbs, nread, pc,
                      ninput, inIdx, room >>
      /\ outIdx' = outIdx + cnt
      /\ \/ /\ w + cnt < nsamples /\ writeIdx' = w + cnt
            /\ UNCHANGED << writing, latestValid >>
         \/ /\ latest = writing /\ latestValid' = FALSE /\ writeIdx' = nsamples
            /\ UNCHANGED writing
         \/ /\ ~(w + cnt < nsamples) /\ latest # writing
            /\ writeIdx' = 0 /\ writing' = latest
            /\ UNCHANGED latestValid
  BY DEF Write
<1>3. /\ nsamples \in Nat /\ nsamples > 0 /\ outIdx \in Nat
      /\ latest \in Bufs /\ writing \in Bufs /\ latest # reading /\ Begin \in Int
      /\ mem[writing] \in [0 .. nsamples - 1 -> Int] /\ Rising(mem[writing], nsamples)
      /\ mem[writing][nsamples - 1] < Begin
      /\ writing # latest => mem[writing][nsamples - 1] < mem[latest][0]
  BY <1>1, OrderFacts, WritingBehind DEF RingInv, WriteOrder, BufferTypeOK
<1>4. Begin' = Begin /\ Pos' = Pos
  BY <1>2 DEF Begin, Pos
<1> HIDE DEF cnt, w, ToWrite, Begin, Pos
<1>5. CallOrder' /\ ReadOrder'
  BY <1>2, <1>4 DEF CallOrder, ReadOrder
<1>6. PICK n \in Nat : n = w + cnt /\ n > 0 /\ n <= nsamples
  BY <1>1, <1>3
<1>7. /\ blockLen' = n /\ block' \in [0 .. n - 1 -> Int]
      /\ \A j \in 0 .. n - 1 : block'[j] = mem[writing][j] /\ j \in 0 .. nsamples - 1
  BY <1>1, <1>3, <1>6
<1>8. Rising(block', n)
  BY <1>3, <1>7 DEF Rising
<1>9. block'[n - 1] <= mem[writing][nsamples - 1]
  <2>1. n - 1 \in 0 .. n - 1 /\ n - 1 \in 0 .. nsamples - 1 /\ nsamples - 1 \in 0 .. nsamples - 1
        /\ n - 1 <= nsamples - 1
    BY <1>3, <1>6
  <2>2. mem[writing][n - 1] <= mem[writing][nsamples - 1]
    BY <1>3, <2>1, RisingFacts
  <2>3. QED
    BY <1>7, <2>1, <2>2
<1>10. /\ block'[n - 1] \in Int /\ mem[writing][nsamples - 1] \in Int
       /\ block'[n - 1] < Begin
  <2>1. n - 1 \in 0 .. n - 1 /\ nsamples - 1 \in 0 .. nsamples - 1
    BY <1>3, <1>6
  <2>2. block'[n - 1] \in Int /\ mem[writing][nsamples - 1] \in Int
    BY <1>3, <1>7, <2>1
  <2>3. QED
    BY <1>3, <1>9, <2>2
<1>11. BufferTypeOK'
  <2>1. writeIdx' \in 0 .. nsamples
    <3>1. n \in 0 .. nsamples /\ 0 \in 0 .. nsamples /\ nsamples \in 0 .. nsamples
      BY <1>3, <1>6
    <3>2. QED
      BY <1>2, <1>6, <3>1
  <2>2. writing' \in Bufs /\ outIdx' \in Nat
    <3>1. writing' = writing \/ writing' = latest
      BY <1>2
    <3>2. outIdx + cnt \in Nat
      BY <1>1, <1>3
    <3>3. outIdx' = outIdx + cnt
      BY <1>2
    <3>4. QED
      BY <1>3, <3>1, <3>2, <3>3
  <2>3. latestValid' \in BOOLEAN
    BY <1>1, <1>2
  <2>4. QED
    BY <1>2, <1>7, <2>1, <2>2, <2>3 DEF BufferTypeOK
<1>12. CASE w + cnt < nsamples /\ writeIdx' = w + cnt /\ UNCHANGED << writing, latestValid >>
  <2>1. writeIdx' < nsamples' /\ writeIdx' = n
    BY <1>2, <1>6, <1>12
  <2>2. RingInv' /\ WriteOrder'
    BY <1>2, <1>4, <1>12, <2>1 DEF RingInv, WriteOrder
  <2>3. SentOrder'
    <3>1. writeIdx' # 0
      BY <1>6, <2>1
    <3>2. QED
      BY <1>2, <1>4, <1>7, <1>8, <1>10, <1>12, <2>1, <3>1 DEF SentOrder
  <2>4. QED
    BY <1>5, <1>11, <2>2, <2>3
<1>13. CASE latest = writing /\ latestValid' = FALSE /\ UNCHANGED writing
  <2>1. RingInv' /\ WriteOrder'
    BY <1>2, <1>13 DEF RingInv, WriteOrder
  <2>2. SentOrder'
    BY <1>4, <1>7, <1>8, <1>10, <1>13 DEF SentOrder
  <2>3. QED
    BY <1>5, <1>11, <2>1, <2>2
<1>14. CASE /\ ~(w + cnt < nsamples) /\ latest # writing
            /\ writeIdx' = 0 /\ writing' = latest /\ UNCHANGED latestValid
  <2>1. RingInv'
    BY <1>1, <1>2, <1>3, <1>14 DEF RingInv
  <2>2. WriteOrder'
    BY <1>1, <1>2, <1>3, <1>4, <1>14 DEF WriteOrder
  <2>3. block'[n - 1] < mem[latest][0]
    <3>1. mem[latest][0] \in Int
      <4>1. 0 \in 0 .. nsamples - 1
        BY <1>3
      <4>2. QED
        BY <1>3, <4>1, OrderFacts
    <3>2. QED
      BY <1>3, <1>9, <1>10, <1>14, <3>1
  <2>4. SentOrder'
    BY <1>2, <1>4, <1>7, <1>8, <1>10, <1>14, <2>3 DEF SentOrder
  <2>5. QED
    BY <1>5, <1>11, <2>1, <2>2, <2>4
<1>15. QED
  BY <1>2, <1>12, <1>13, <1>14

LEMMA InitOrder ==
  ASSUME Init
  PROVE  OrderInv
<1> USE BufferAssumption DEF Init
<1>1. nsamples \in Nat /\ nsamples > 0
  OBVIOUS
<1>2. BufferTypeOK
  <2>1. mem \in [Bufs -> [0 .. nsamples - 1 -> Int]]
    BY DEF Junk
  <2>2. bufAbs \in [Bufs -> Nat] /\ block \in [0 .. blockLen - 1 -> Int]
    BY DEF Junk
  <2>3. latestValid \in BOOLEAN
    OBVIOUS
  <2>4. QED
    BY <1>1, <2>1, <2>2, <2>3 DEF BufferTypeOK, Bufs
<1>3. RingInv /\ CallOrder /\ ReadOrder
  BY DEF RingInv, CallOrder, ReadOrder, Rising
<1>4. WriteOrder /\ SentOrder
  BY DEF WriteOrder, SentOrder
<1>5. QED
  BY <1>2, <1>3, <1>4 DEF OrderInv

LEMMA NextOrder ==
  ASSUME OrderInv, [Next]_vars
  PROVE  OrderInv'
BY BookkeepingOrder, ReinitializeOrder, RestartOrder, ReadInOrder, WriteInOrder DEF Next, WorkStep

(* No sample is sent twice, or before an earlier one, neither in a block   *)
(* nor from a block to the next, whichever setters are called: what        *)
(* set_pass_data and the restarts leave out is all that is missing.        *)
THEOREM OrderCorrect == Spec => OutputInOrder
<1>1. ASSUME OrderInv
      PROVE  \A i, j \in 0 .. blockLen - 1 : i < j => block[i] < block[j]
  <2>1. blockLen \in Nat
    BY <1>1 DEF OrderInv, BufferTypeOK
  <2>2. QED
    BY <1>1, <2>1 DEF OrderInv, SentOrder, Rising
<1>2. ASSUME OrderInv, [Next]_vars, writeIdx = 0, blockLen > 0, block' # block
      PROVE  block'[0] > block[blockLen - 1]
  <2>1. Write
    BY <1>2, QuietStep
  <2>2. latestValid /\ block'[0] = mem[writing][0]
    <3>1. 0 \in 0 .. blockLen' - 1
      BY <1>2, <2>1, SendFacts
    <3>2. QED
      BY <1>2, <2>1, <3>1, SendFacts
  <2>3. block[blockLen - 1] < mem[writing][0]
    BY <1>2, <2>2 DEF OrderInv, SentOrder
  <2>4. block[blockLen - 1] \in Int /\ mem[writing][0] \in Int
    <3>1. blockLen - 1 \in 0 .. blockLen - 1 /\ block \in [0 .. blockLen - 1 -> Int]
      BY <1>2 DEF OrderInv, BufferTypeOK
    <3>2. 0 \in 0 .. nsamples - 1 /\ writing \in Bufs
      BY <1>2, OrderFacts DEF OrderInv, BufferTypeOK
    <3>3. QED
      BY <1>2, <3>1, <3>2, OrderFacts
  <2>5. QED
    BY <2>2, <2>3, <2>4
<1>3. OrderInv /\ [Next]_vars =>
        [writeIdx = 0 /\ blockLen > 0 /\ block' # block => block'[0] > block[blockLen - 1]]_vars
  BY <1>2
<1>4. QED
  BY <1>1, <1>3, InitOrder, NextOrder, PTL DEF Spec, OutputInOrder

=============================================================================
