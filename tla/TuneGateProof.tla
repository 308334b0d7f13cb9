--------------------------- MODULE TuneGateProof ---------------------------
(***************************************************************************)
(* Theorems about TuneGate: whatever the tags, the cut of the input into    *)
(* windows and the sizes of the block, the gate publishes whole blocks, in  *)
(* order, each under the event it answers, with the other tags and the     *)
(* delay in their place, as long as a call has room for a block.            *)
(***************************************************************************)
EXTENDS TuneGate, FiniteSetTheorems, SequenceTheorems, WellFoundedInduction, TLAPS

(***************************************************************************)
(* Facts about sets of places.                                             *)
(***************************************************************************)
(* The largest element of a set of offsets is one of them.                 *)
LEMMA MaxInSet ==
  ASSUME NEW n \in Nat, NEW S \in SUBSET (0 .. n), S # {}
  PROVE  Max(S) \in S /\ \A x \in S : x <= Max(S)
<1> DEFINE D == {n - x : x \in S}
           R == OpToRel(<, Nat)
<1>1. D \in SUBSET Nat /\ D # {}
  <2>1. \A x \in S : n - x \in Nat
    OBVIOUS
  <2>2. QED
    BY <2>1
<1>2. PICK d \in D : \A e \in D : ~(<<e, d>> \in R)
  <2> HIDE DEF D, R
  <2>1. IsWellFoundedOn(R, Nat)
    BY NatLessThanWellFounded DEF R
  <2>2. QED
    BY <1>1, <2>1, WFMin
<1>3. \A e \in D : ~(e < d)
  BY <1>1, <1>2 DEF OpToRel
<1>4. PICK m \in S : d = n - m
  OBVIOUS
<1>5. \A x \in S : m >= x
  <2> SUFFICES ASSUME NEW x \in S
               PROVE  m >= x
    OBVIOUS
  <2>1. ~(n - x < n - m)
    BY <1>3, <1>4
  <2>2. QED
    BY <2>1
<1> HIDE DEF D
<1>6. QED
  BY <1>4, <1>5 DEF Max

(* A set of places that with a place holds all before it is those up to its *)
(* cardinality.                                                             *)
LEMMA InitialSegment ==
  ASSUME NEW n \in Nat, NEW S \in SUBSET (1 .. n),
         \A i \in S, j \in 1 .. n : j <= i => j \in S
  PROVE  S = 1 .. Cardinality(S) /\ Cardinality(S) \in 0 .. n
<1>1. CASE S = {}
  <2>1. Cardinality(S) = 0
    BY <1>1, FS_EmptySet
  <2>2. 1 .. 0 = {}
    OBVIOUS
  <2> QED
    BY <2>1, <2>2, <1>1
<1>2. CASE S # {}
  <2>1. S \in SUBSET (0 .. n)
    OBVIOUS
  <2>2. PICK m \in S : \A x \in S : x <= m
    BY <2>1, <1>2, MaxInSet
  <2>3. m \in 1 .. n
    OBVIOUS
  <2>4. \A x : x \in S <=> x \in 1 .. m
    <3>1. \A x \in S : x \in 1 .. m
      BY <2>2, <2>3
    <3>2. \A x \in 1 .. m : x \in 1 .. n /\ x <= m
      BY <2>3
    <3>3. \A x \in 1 .. m : x \in S
      BY <2>2, <3>2
    <3> QED
      BY <3>1, <3>3
  <2>5. S = 1 .. m
    BY <2>4
  <2>6. Cardinality(1 .. m) = m
    BY <2>3, FS_Interval
  <2> QED
    BY <2>3, <2>5, <2>6
<1> QED
  BY <1>1, <1>2

(* The smallest element of a set of places is one of them.                 *)
LEMMA MinInSet ==
  ASSUME NEW S \in SUBSET Nat, S # {}
  PROVE  Min(S) \in S /\ \A x \in S : Min(S) <= x
<1> DEFINE R == OpToRel(<, Nat)
<1>1. PICK d \in S : \A e \in S : ~(<<e, d>> \in R)
  <2> HIDE DEF R
  <2>1. IsWellFoundedOn(R, Nat)
    BY NatLessThanWellFounded DEF R
  <2>2. QED
    BY <2>1, WFMin
<1>2. \A e \in S : ~(e < d)
  BY <1>1 DEF OpToRel
<1>3. \A x \in S : d <= x
  BY <1>2
<1>4. QED
  BY <1>3 DEF Min

(***************************************************************************)
(* The invariants.                                                         *)
(***************************************************************************)
(* Every call is given room for a whole block.                             *)
RoomForBlock == \A m \in OutLens : m >= NPub

Event == [at : Nat, key : Requests \union {"none", "timeout"}, value : Int]

GateRec ==
  [read : Nat, state : {"wait", "discard", "publish"}, n_since : Int,
   out_buf : Seq(0 .. NIn - 1), event_tag : Event, out_offset : Nat, nout_total : Nat,
   pubtimeout : BOOLEAN, samp_period : {1, RatePeriod}, rx_delay : Int,
   pc : {"idle", "work", "discard", "publish", "fill", "raised"},
   in_len : Nat, out_len : Nat, nread : Int, nout : Nat, tags : Seq(Tag),
   out : Seq(0 .. NIn - 1), events : Seq(Event),
   passed : SUBSET [pos : Int, at : Int, exact : BOOLEAN]]

Walking == g.pc \in {"work", "idle"}

(* A list of tags is in the order of their samples.                        *)
Sorted(tags) == \A i, j \in DOMAIN tags : i <= j => tags[i].at <= tags[j].at

(* The tags listed are those of the window, in order; those behind the      *)
(* position are not among them.                                            *)
Listed ==
  /\ \A i \in DOMAIN g.tags : /\ g.tags[i] \in ToSet(stream)
                              /\ g.read <= g.tags[i].at
                              /\ g.tags[i].at < g.read + g.in_len
  /\ Sorted(g.tags)
Ahead == \A i \in DOMAIN g.tags : Position(g) <= g.tags[i].at

(* What each state of the gate says of its place in the window; while it     *)
(* looks for tags it may be behind one, and then it has not waited.         *)
StateInv ==
  /\ ~ Walking => g.state = "wait"
  /\ g.pc = "fill" => g.nread <= g.in_len /\ g.n_since = 0
  /\ Walking /\ g.nread > g.in_len => g.state = "wait" /\ g.n_since = 0
  /\ g.state = "discard" => g.n_since <= Position(g)
  /\ g.state = "publish" => g.n_since < NPub
  /\ g.state = "wait" /\ Walking => g.n_since <= NTimeout + Position(g)
  /\ \/ Ahead
     \/ g.nread >= g.in_len \/ g.pc \in {"publish", "fill"}
     \/ g.state = "wait" /\ g.n_since <= 0

(* What holds of the fields even when the read index has gone backwards, a  *)
(* discard has gone past the window and n_since has become negative by it.  *)
FieldInv ==
  /\ g \in GateRec
  /\ stream \in Streams /\ n_discard \in NDiscards /\ sets \in 0 .. MaxSets
  /\ waited \subseteq 0 .. NIn - 1 /\ rewound \in BOOLEAN /\ torn \in BOOLEAN
  /\ Position(g) >= 0
  /\ g.in_len <= MaxWindow /\ g.read + g.in_len <= NIn
  /\ IF g.pc = "idle"
     THEN g.nread = 0 /\ g.in_len = 0 /\ g.out_len = 0 /\ g.nout = 0 /\ g.tags = <<>>
     ELSE g.in_len > 0 /\ g.out_len \in OutLens
  /\ StateInv /\ Listed

(***************************************************************************)
(* The rest holds until the read index has gone backwards.                 *)
(***************************************************************************)
(* Where the block is in the window and in what it does there.             *)
ShapeInv ==
  /\ g \in GateRec /\ g.n_since \in Nat
  /\ stream \in Streams /\ n_discard \in NDiscards /\ sets \in 0 .. MaxSets
  /\ waited \subseteq 0 .. NIn - 1 /\ thrown \subseteq 0 .. NIn - 1
  /\ rewound \in BOOLEAN /\ torn \in BOOLEAN
  /\ Position(g) >= 0 /\ g.nread >= 0
  /\ g.in_len <= MaxWindow /\ g.read + g.in_len <= NIn
  /\ IF g.pc = "idle"
     THEN g.nread = 0 /\ g.in_len = 0 /\ g.out_len = 0 /\ g.nout = 0 /\ g.tags = <<>>
     ELSE g.in_len > 0 /\ g.out_len \in OutLens
  /\ g.pc \in {"discard", "publish", "fill"} => g.nread <= g.in_len
  /\ ~ Walking => g.state = "wait"
  /\ Walking /\ g.nread > g.in_len => g.state = "wait" /\ g.n_since = 0
  /\ g.pc \notin {"fill", "raised"} /\ g.state # "publish" => g.out_buf = <<>>
  /\ g.state = "discard" => g.n_since <= Position(g)
  /\ g.state = "publish" => g.n_since < NPub /\ Len(g.out_buf) <= g.n_since
  /\ g.pc = "fill" => g.n_since = 0 /\ Len(g.out_buf) <= NPub
  /\ g.state = "wait" /\ Walking => g.n_since <= NTimeout + Position(g)

(* The tags listed are ahead, but after a discard that moved on further than*)
(* it looked for tags: publish() then takes those it passed over, or the    *)
(* window is over.                                                          *)
TagInv == Listed /\ (Ahead \/ (torn /\ (g.pc = "publish" \/ g.nread >= g.in_len)))

(* A request ahead in the window is listed, unless publish() took it ahead,*)
(* and then it is less than a block ahead and before all that is listed.   *)
Overlooked(t) == /\ t.key \in Requests /\ t \notin ToSet(g.tags)
                 /\ Position(g) <= t.at /\ t.at < g.read + g.in_len

RequestInv ==
  /\ \A t \in ToSet(stream) : Overlooked(t) =>
       /\ t \in overread /\ t.at < Position(g) - g.n_since + NPub - 1
       /\ \A u \in ToSet(g.tags) : t.at < u.at
  /\ RequestHeard

(* How far the input is used up: a timeout's block given up at the end of  *)
(* the window leaves the position behind it.                               *)
Edge == g.read + Lesser(g.nread, g.in_len)

(* The block being put together is of consecutive samples up to the        *)
(* position, behind all that was published.                                *)
OrderInv ==
  /\ g.pc # "raised"
  /\ g.state = "publish" => Len(g.out_buf) = g.n_since
  /\ g.pc = "fill" => Len(g.out_buf) = NPub
  /\ \A i \in 1 .. Len(g.out_buf) : g.out_buf[i] = Position(g) - Len(g.out_buf) + i - 1
  /\ g.out # <<>> => g.out[Len(g.out)] < Edge - Len(g.out_buf)
  /\ BlocksInOrder

InBlock == g.state = "publish" \/ g.pc \in {"publish", "fill"}
BlockStart == Position(g) - Len(g.out_buf)
Delays(key, n, s) == IF key # "tune" THEN {0} ELSE IF s = 0 THEN {n} ELSE NDiscards

(* The event under which the block will be published.                      *)
EventInv ==
  /\ g.out_offset = Len(g.out) /\ Len(g.out) = Len(g.events) * NPub
  /\ g.pc = "discard" \/ g.state = "discard" =>
       /\ g.event_tag.key = "tune"
       /\ g.event_tag.value = Position(g) - (IF g.pc = "discard" THEN 0 ELSE g.n_since)
  /\ InBlock => \E d \in Delays(g.event_tag.key, n_discard, sets) : BlockStart = g.event_tag.value + d
  /\ InBlock \/ g.pc = "discard" \/ g.state = "discard" =>
       /\ g.event_tag.at = g.out_offset
       /\ g.event_tag.key \in Requests =>
            [at |-> g.event_tag.value, key |-> g.event_tag.key] \in ToSet(stream)
  /\ EventTagTrue

NoRequest(lo, hi) ==
  \A t \in ToSet(stream) : t.key \in Requests => t.at \notin lo .. hi

(* The samples before a timeout were waited for, and no request was passed *)
(* over in its block.                                                      *)
TimeoutInv ==
  /\ g.state = "wait" /\ Walking =>
       Position(g) - g.n_since .. Position(g) - 1 \subseteq waited
  /\ InBlock /\ g.event_tag.key = "timeout" =>
       /\ g.pubtimeout
       /\ g.event_tag.value - NTimeout .. g.event_tag.value - 1 \subseteq waited
       /\ NoRequest(g.event_tag.value, Position(g) - 1)
       /\ g.pc # "fill" => \A t \in ToSet(stream) :
            /\ t.key \in Requests
            /\ Position(g) <= t.at /\ t.at < g.read + g.in_len
            => t \in ToSet(g.tags)
       /\ g.pc = "publish" => \A i \in DOMAIN g.tags : g.tags[i].at >= Position(g) + NPub
  /\ TimeoutYields

(* A tag forwarded ahead of its sample waits for the block to be published.*)
ForwardInv ==
  \A p \in g.passed : p.exact =>
    /\ p.pos >= 0
    /\ p.pos < Len(g.out) => g.out[p.pos + 1] = p.at
    /\ p.pos >= Len(g.out) =>
         /\ g.state = "publish" \/ g.pc = "fill"
         /\ ~ g.pubtimeout
         /\ p.pos < Len(g.out) + NPub
         /\ p.at = BlockStart + p.pos - Len(g.out)

(* The sample period in force is the one before the first rate tag or the  *)
(* one after it.                                                           *)
RateInv ==
  /\ \A x \in thrown : x < Edge
  /\ \A t \in RateTags : t \notin ToSet(g.tags) /\ t.at < g.read + g.in_len =>
                           g.samp_period = RatePeriod
  /\ g.samp_period # 1 => \E t \in RateTags : t.at <= Edge
  /\ RxDelayTrue

IInv ==
  /\ FieldInv
  /\ ~ rewound => ShapeInv /\ TagInv /\ OrderInv /\ EventInv
  /\ ~ rewound /\ ~ torn => RequestInv /\ ForwardInv
  /\ ~ rewound /\ ~ torn /\ RateTags \intersect overread = {} => RateInv

IInv2 == ~ rewound /\ ~ torn /\ NoForeignTag => TimeoutInv

(***************************************************************************)
(* Lists of tags.                                                          *)
(***************************************************************************)
LEMMA TagFields ==
  \A t \in Tag : t.at \in Nat /\ t.at < NIn /\ t.key \in Keys
<1>1. \A t \in Tag : t.at \in 0 .. NIn - 1 /\ t.key \in Keys
  BY DEF Tag
<1> QED
  BY <1>1, SizesAssumption

(* Neighbours in order put the whole list in order.                        *)
LEMMA NeighboursSorted ==
  ASSUME NEW q \in Seq(Tag), \A i \in 1 .. Len(q) - 1 : q[i].at <= q[i + 1].at
  PROVE  Sorted(q)
<1> SUFFICES ASSUME NEW i \in DOMAIN q, NEW j \in DOMAIN q, i <= j
             PROVE  q[i].at <= q[j].at
  BY DEF Sorted
<1>1. \A k \in 1 .. Len(q) : q[k].at \in Int
  BY TagFields
<1> DEFINE S == {k \in i .. j : q[i].at <= q[k].at}
<1>2. i \in 1 .. Len(q) /\ j \in 1 .. Len(q)
  OBVIOUS
<1>3. j \in Nat /\ S \in SUBSET (0 .. j) /\ i \in S /\ S # {}
  BY <1>1, <1>2
<1>4. PICK m \in S : \A k \in S : k <= m
  <2> HIDE DEF S
  <2> QED BY <1>2, <1>3, MaxInSet
<1>5. m \in i .. j /\ q[i].at <= q[m].at
  OBVIOUS
<1>6. CASE m = j
  BY <1>5, <1>6
<1>7. CASE m # j
  <2>1. m \in 1 .. Len(q) - 1 /\ m + 1 \in i .. j /\ m + 1 \in 1 .. Len(q)
    BY <1>2, <1>5, <1>7
  <2>2. q[m].at <= q[m + 1].at
    BY <2>1
  <2>3. q[i].at <= q[m + 1].at
    BY <1>1, <1>2, <1>5, <2>1, <2>2
  <2>4. m + 1 \in S
    BY <2>1, <2>3
  <2> QED
    BY <1>4, <1>5, <2>4
<1> QED
  BY <1>6, <1>7

(* The tags before a sample come first in a list in order.                 *)
LEMMA BeforeFacts ==
  ASSUME NEW q \in Seq(Tag), Sorted(q), NEW x \in Int
  PROVE  /\ {i \in DOMAIN q : q[i].at < x} = 1 .. Cardinality({i \in DOMAIN q : q[i].at < x})
         /\ Cardinality({i \in DOMAIN q : q[i].at < x}) \in 0 .. Len(q)
<1> DEFINE S == {i \in DOMAIN q : q[i].at < x}
<1>1. \A k \in DOMAIN q : q[k].at \in Int
  <2>1. \A k \in DOMAIN q : q[k] \in Tag
    OBVIOUS
  <2> QED
    BY <2>1, TagFields
<1>2. Len(q) \in Nat /\ DOMAIN q = 1 .. Len(q) /\ S \in SUBSET (1 .. Len(q))
  OBVIOUS
<1>3. \A i \in S, j \in 1 .. Len(q) : j <= i => j \in S
  BY <1>1, <1>2 DEF Sorted
<1>4. S = 1 .. Cardinality(S) /\ Cardinality(S) \in 0 .. Len(q)
  <2> HIDE DEF S
  <2> QED BY <1>2, <1>3, InitialSegment
<1> QED
  BY <1>4

(* A stretch of a list in order is in order.                               *)
LEMMA StretchFacts ==
  ASSUME NEW q \in Seq(Tag), Sorted(q), NEW m \in Nat, NEW n \in 0 .. Len(q)
  PROVE  /\ SubSeq(q, m + 1, n) \in Seq(Tag)
         /\ Sorted(SubSeq(q, m + 1, n))
         /\ Len(SubSeq(q, m + 1, n)) = IF m <= n THEN n - m ELSE 0
         /\ \A i \in 1 .. Len(SubSeq(q, m + 1, n)) :
              m + i \in DOMAIN q /\ SubSeq(q, m + 1, n)[i] = q[m + i]
         /\ \A t : t \in ToSet(SubSeq(q, m + 1, n)) <=> \E i \in m + 1 .. n : t = q[i]
<1> DEFINE r == SubSeq(q, m + 1, n)
<1>1. m + 1 \in Int /\ n \in Int /\ n - (m + 1) + 1 = n - m
  OBVIOUS
<1>2. \A i \in m + 1 .. n : q[i] \in Tag
  OBVIOUS
<1>3. /\ r \in Seq(Tag)
      /\ Len(r) = IF m + 1 <= n THEN n - (m + 1) + 1 ELSE 0
      /\ \A i \in 1 .. n - (m + 1) + 1 : r[i] = q[m + 1 + i - 1]
  BY <1>1, <1>2, SubSeqProperties
<1>4. Len(r) = IF m <= n THEN n - m ELSE 0
  BY <1>3
<1>5. \A i \in 1 .. Len(r) : m + i \in 1 .. Len(q) /\ i \in 1 .. n - m /\ m + 1 + i - 1 = m + i
  BY <1>4
<1>6. \A i \in 1 .. Len(r) : m + i \in DOMAIN q /\ r[i] = q[m + i]
  <2>1. DOMAIN q = 1 .. Len(q)
    OBVIOUS
  <2> HIDE DEF r
  <2> QED BY <1>1, <1>3, <1>5, <2>1
<1> HIDE DEF r
<1>7. DOMAIN r = 1 .. Len(r)
  BY <1>3
<1>8. Sorted(r)
  <2> SUFFICES ASSUME NEW i \in 1 .. Len(r), NEW j \in 1 .. Len(r), i <= j
               PROVE  r[i].at <= r[j].at
    BY <1>7 DEF Sorted
  <2>1. m + i <= m + j /\ m + i \in DOMAIN q /\ m + j \in DOMAIN q
    BY <1>6
  <2>2. q[m + i].at <= q[m + j].at
    BY <2>1 DEF Sorted
  <2> QED
    BY <1>6, <2>2
<1>9. \A t : t \in ToSet(r) <=> \E i \in m + 1 .. n : t = q[i]
  <2>1. ASSUME NEW i \in 1 .. Len(r)
        PROVE  m + i \in m + 1 .. n /\ r[i] = q[m + i]
    BY <1>4, <1>6
  <2>2. ASSUME NEW i \in m + 1 .. n
        PROVE  i - m \in 1 .. Len(r) /\ r[i - m] = q[i]
    <3>1. i - m \in 1 .. Len(r) /\ m + (i - m) = i
      BY <1>4
    <3> QED
      BY <3>1, <1>6
  <2>3. ToSet(r) = {r[i] : i \in 1 .. Len(r)}
    BY <1>7 DEF ToSet
  <2> QED
    BY <2>1, <2>2, <2>3
<1> QED
  BY <1>3, <1>4, <1>6, <1>8, <1>9 DEF r

(* get_tags_in_window: exactly the tags of the window, in order.           *)
LEMMA TagsInFacts ==
  ASSUME stream \in Seq(Tag), Sorted(stream), NEW lo \in Int, NEW hi \in Int
  PROVE  /\ TagsIn(lo, hi) \in Seq(Tag) /\ Sorted(TagsIn(lo, hi))
         /\ \A t : t \in ToSet(TagsIn(lo, hi)) <=> t \in ToSet(stream) /\ lo <= t.at /\ t.at < hi
<1> DEFINE L == {i \in DOMAIN stream : stream[i].at < lo}
           H == {i \in DOMAIN stream : stream[i].at < hi}
           m == Cardinality(L)
           n == Cardinality(H)
<1>1. L = 1 .. m /\ m \in 0 .. Len(stream)
  BY BeforeFacts
<1>2. H = 1 .. n /\ n \in 0 .. Len(stream)
  BY BeforeFacts
<1>3. TagsIn(lo, hi) = SubSeq(stream, m + 1, n)
  BY DEF TagsIn
<1>4. \A i \in DOMAIN stream : stream[i] \in Tag /\ stream[i].at \in Int
  <2>1. \A i \in DOMAIN stream : stream[i] \in Tag
    OBVIOUS
  <2> QED
    BY <2>1, TagFields
<1>5. \A i \in DOMAIN stream : (i \in m + 1 .. n <=> lo <= stream[i].at /\ stream[i].at < hi)
  <2> SUFFICES ASSUME NEW i \in DOMAIN stream
               PROVE  i \in m + 1 .. n <=> lo <= stream[i].at /\ stream[i].at < hi
    OBVIOUS
  <2>1. i \in 1 .. m <=> stream[i].at < lo
    BY <1>1
  <2>2. i \in 1 .. n <=> stream[i].at < hi
    BY <1>2
  <2>3. i \in 1 .. Len(stream)
    OBVIOUS
  <2> HIDE DEF m, n
  <2> QED
    BY <1>1, <1>2, <1>4, <2>1, <2>2, <2>3
<1>6. /\ SubSeq(stream, m + 1, n) \in Seq(Tag) /\ Sorted(SubSeq(stream, m + 1, n))
      /\ \A t : t \in ToSet(SubSeq(stream, m + 1, n)) <=> \E i \in m + 1 .. n : t = stream[i]
  <2> HIDE DEF m, n
  <2> QED BY <1>1, <1>2, StretchFacts
<1> HIDE DEF m, n
<1>7. \A i \in m + 1 .. n : i \in DOMAIN stream
  BY <1>1, <1>2
<1>8. ASSUME NEW t
      PROVE  (\E i \in m + 1 .. n : t = stream[i])
               <=> t \in ToSet(stream) /\ lo <= t.at /\ t.at < hi
  <2>1. t \in ToSet(stream) <=> \E i \in DOMAIN stream : t = stream[i]
    BY DEF ToSet
  <2> QED
    BY <1>5, <1>7, <2>1
<1> QED
  BY <1>3, <1>6, <1>8

(* The tags a block leaves are those at or behind its end, in order; those *)
(* it reads come first.                                                    *)
LEMMA TagsLeftFacts ==
  ASSUME NEW b, b.tags \in Seq(Tag), Sorted(b.tags), b.read \in Int, b.nread \in Int,
         NEW limit \in Int
  PROVE  /\ TagsLeft(b, limit) \in Seq(Tag) /\ Sorted(TagsLeft(b, limit))
         /\ \A t : t \in ToSet(TagsLeft(b, limit))
                     <=> t \in ToSet(b.tags) /\ Position(b) + limit <= t.at
         /\ \A i \in DOMAIN b.tags :
              i \in TagsRead(b, limit) <=> b.tags[i].at < Position(b) + limit
         /\ \E c \in 0 .. Len(b.tags) : TagsRead(b, limit) = 1 .. c
<1> DEFINE q == b.tags
           x == b.read + b.nread + limit
           S == {i \in DOMAIN q : q[i].at < x}
           m == Cardinality(S)
<1>1. x \in Int
  OBVIOUS
<1>2. \A i \in DOMAIN q : q[i] \in Tag /\ q[i].at \in Int
  <2>1. \A i \in DOMAIN q : q[i] \in Tag
    OBVIOUS
  <2> QED
    BY <2>1, TagFields
<1>3. \A i \in DOMAIN q : q[i].at - b.nread < limit + b.read <=> q[i].at < x
  BY <1>2
<1>4. TagsRead(b, limit) = S
  BY <1>3 DEF TagsRead
<1>5. Position(b) + limit = x
  BY DEF Position
<1>6. S = 1 .. m /\ m \in 0 .. Len(q)
  <2> HIDE DEF x
  <2> QED BY <1>1, BeforeFacts
<1>7. TagsLeft(b, limit) = SubSeq(q, m + 1, Len(q))
  BY <1>4 DEF TagsLeft
<1>8. \A i \in DOMAIN q : (i \in m + 1 .. Len(q) <=> x <= q[i].at)
  <2> SUFFICES ASSUME NEW i \in DOMAIN q
               PROVE  i \in m + 1 .. Len(q) <=> x <= q[i].at
    OBVIOUS
  <2>1. i \in 1 .. m <=> q[i].at < x
    BY <1>6
  <2>2. i \in 1 .. Len(q) /\ q[i].at \in Int
    BY <1>2
  <2> HIDE DEF m, q, x
  <2> QED
    BY <1>1, <1>6, <2>1, <2>2
<1>9. /\ SubSeq(q, m + 1, Len(q)) \in Seq(Tag) /\ Sorted(SubSeq(q, m + 1, Len(q)))
      /\ \A t : t \in ToSet(SubSeq(q, m + 1, Len(q))) <=> \E i \in m + 1 .. Len(q) : t = q[i]
  <2> HIDE DEF m
  <2>1. Len(q) \in 0 .. Len(q) /\ m \in Nat
    BY <1>6
  <2> QED BY <2>1, StretchFacts
<1>10. \A i \in m + 1 .. Len(q) : i \in DOMAIN q
  <2> HIDE DEF m
  <2> QED BY <1>6
<1> HIDE DEF m, x, S, q
<1>11. ASSUME NEW t
       PROVE  (\E i \in m + 1 .. Len(q) : t = q[i]) <=> t \in ToSet(q) /\ x <= t.at
  <2>1. t \in ToSet(q) <=> \E i \in DOMAIN q : t = q[i]
    BY DEF ToSet
  <2> QED
    BY <1>8, <1>10, <2>1
<1>12. \A i \in DOMAIN q : i \in S <=> q[i].at < x
  BY DEF S
<1> QED
  BY <1>4, <1>5, <1>6, <1>7, <1>9, <1>11, <1>12 DEF q

(* The list without its first tag.                                         *)
LEMMA TailFacts ==
  ASSUME NEW q \in Seq(Tag), Sorted(q), q # <<>>
  PROVE  /\ Tail(q) \in Seq(Tag) /\ Sorted(Tail(q))
         /\ q[1] \in Tag /\ q[1] \in ToSet(q)
         /\ ToSet(Tail(q)) \subseteq ToSet(q)
         /\ ToSet(q) \subseteq ToSet(Tail(q)) \union {q[1]}
         /\ \A t \in ToSet(q) : q[1].at <= t.at
<1>1. Len(q) \in Nat \ {0} /\ DOMAIN q = 1 .. Len(q)
  OBVIOUS
<1>2. Tail(q) = SubSeq(q, 1 + 1, Len(q))
  BY <1>1, TailIsSubSeq
<1>3. /\ SubSeq(q, 1 + 1, Len(q)) \in Seq(Tag) /\ Sorted(SubSeq(q, 1 + 1, Len(q)))
      /\ \A t : t \in ToSet(SubSeq(q, 1 + 1, Len(q))) <=> \E i \in 1 + 1 .. Len(q) : t = q[i]
  <2>1. Len(q) \in 0 .. Len(q) /\ 1 \in Nat
    BY <1>1
  <2> QED
    BY <2>1, StretchFacts
<1>4. \A t : t \in ToSet(q) <=> \E i \in 1 .. Len(q) : t = q[i]
  BY <1>1 DEF ToSet
<1>5. 1 \in 1 .. Len(q) /\ \A i \in 1 .. Len(q) : i = 1 \/ i \in 1 + 1 .. Len(q)
  BY <1>1
<1>6. \A i \in 1 + 1 .. Len(q) : i \in 1 .. Len(q)
  BY <1>1
<1>7. \A i \in 1 .. Len(q) : q[1].at <= q[i].at
  BY <1>1, <1>5 DEF Sorted
<1>8. Tail(q) \in Seq(Tag) /\ Sorted(Tail(q))
  BY <1>2, <1>3
<1>9. q[1] \in Tag /\ q[1] \in ToSet(q)
  BY <1>4, <1>5
<1>10. \A t \in ToSet(q) : q[1].at <= t.at
  BY <1>4, <1>7
<1>11. \A t : t \in ToSet(Tail(q)) <=> \E i \in 1 + 1 .. Len(q) : t = q[i]
  BY <1>2, <1>3
<1>12. ToSet(Tail(q)) \subseteq ToSet(q)
  BY <1>4, <1>6, <1>11
<1>13. ToSet(q) \subseteq ToSet(Tail(q)) \union {q[1]}
  BY <1>4, <1>5, <1>11
<1> QED
  BY <1>8, <1>9, <1>10, <1>12, <1>13

(* The input is in order, and so is what it is made of.                    *)
LEMMA StreamFacts ==
  ASSUME stream \in Streams
  PROVE  /\ stream \in Seq(Tag) /\ Sorted(stream)
         /\ \A t \in ToSet(stream) : t \in Tag
<1>1. CASE stream = <<>>
  <2>1. stream \in Seq(Tag) /\ DOMAIN stream = {}
    BY <1>1
  <2> QED
    BY <2>1 DEF Sorted, ToSet
<1>2. CASE stream # <<>>
  <2>1. PICK n \in 1 .. MaxTags : stream \in [1 .. n -> Tag]
    BY <1>2 DEF Streams
  <2>2. \A i \in 1 .. Len(stream) - 1 : stream[i].at <= stream[i + 1].at
    BY <1>2 DEF Streams
  <2>3. stream \in Seq(Tag)
    BY <2>1, SizesAssumption
  <2>4. Sorted(stream)
    BY <2>2, <2>3, NeighboursSorted
  <2> QED
    BY <2>3, <2>4 DEF ToSet
<1> QED
  BY <1>1, <1>2

(***************************************************************************)
(* What each turn of the loop does to the fields.                          *)
(***************************************************************************)
WindowKept == /\ g'.read = g.read /\ g'.in_len = g.in_len /\ g'.out_len = g.out_len
              /\ g'.nout_total = g.nout_total
OutputKept == /\ g'.out = g.out /\ g'.events = g.events /\ g'.out_offset = g.out_offset
              /\ g'.nout = g.nout
HistoryKept == /\ UNCHANGED <<stream, n_discard, sets, thrown, overread, torn>>
               /\ waited' = waited \union (Position(g) .. Position(g)' - 1)
               /\ rewound' = (rewound \/ Position(g)' < Position(g))

(* The gate goes on to a block at sample n of the window.                  *)
StartStep(key, n, next, flag) ==
  /\ g.pc = "work" /\ g.nread < g.in_len /\ g.state = "wait"
  /\ g' \in GateRec /\ WindowKept /\ OutputKept /\ HistoryKept
  /\ g'.samp_period = g.samp_period /\ g'.rx_delay = g.rx_delay /\ g'.passed = g.passed
  /\ g'.state = "wait" /\ g'.n_since = g.n_since /\ g'.out_buf = g.out_buf
  /\ g'.tags = g.tags /\ g'.pubtimeout = flag /\ g'.nread = n /\ g'.pc = next
  /\ g'.event_tag = [at |-> g.out_offset, key |-> key, value |-> g.read + n]

(* The gate waits on, until sample n of the window.                        *)
WaitStep(n, since, tags, period) ==
  /\ g.pc = "work" /\ g.nread < g.in_len /\ g.state = "wait"
  /\ g' \in GateRec /\ WindowKept /\ OutputKept /\ HistoryKept
  /\ g'.samp_period = period /\ g'.rx_delay = g.rx_delay /\ g'.passed = g.passed
  /\ g'.state = "wait" /\ g'.n_since = since /\ g'.out_buf = g.out_buf
  /\ g'.tags = tags /\ g'.pubtimeout = g.pubtimeout /\ g'.nread = n /\ g'.pc = "work"
  /\ g'.event_tag = g.event_tag

LEMMA AtEventFacts ==
  ASSUME g \in GateRec, NEW key \in Requests \union {"timeout"}, NEW n \in Int,
         NEW next \in {"discard", "publish"}
  PROVE  LET b == AtEvent(key, n, next)
         IN  /\ b \in GateRec
             /\ b.read = g.read /\ b.in_len = g.in_len /\ b.out_len = g.out_len
             /\ b.nout_total = g.nout_total
             /\ b.out = g.out /\ b.events = g.events /\ b.out_offset = g.out_offset
             /\ b.nout = g.nout
             /\ b.samp_period = g.samp_period /\ b.rx_delay = g.rx_delay
             /\ b.state = g.state /\ b.n_since = g.n_since /\ b.out_buf = g.out_buf
             /\ b.passed = g.passed /\ b.tags = g.tags /\ b.pubtimeout = g.pubtimeout
             /\ b.nread = n /\ b.pc = next
             /\ b.event_tag = [at |-> g.out_offset, key |-> key, value |-> g.read + n]
<1>1. [at |-> g.out_offset, key |-> key, value |-> g.read + n] \in Event
  BY DEF GateRec, Event
<1> HIDE DEF Event
<1> QED
  BY <1>1 DEF AtEvent, GateRec

LEMMA NextTagFacts ==
  ASSUME g \in GateRec, Listed
  PROVE  /\ next_tag \in Int /\ next_timeout \in Int
         /\ g.tags # <<>> =>
              /\ g.tags[1] \in Tag /\ g.tags[1] \in ToSet(stream) /\ g.tags[1] \in ToSet(g.tags)
              /\ next_tag = g.tags[1].at - g.read
              /\ next_tag >= 0 /\ next_tag < g.in_len
              /\ Ahead => next_tag >= g.nread
         /\ g.tags = <<>> => next_tag = g.in_len + NPub + 1
         /\ next_timeout = NTimeout - g.n_since + g.nread
<1>1. g.tags \in Seq(Tag) /\ g.read \in Int /\ g.in_len \in Int /\ g.n_since \in Int /\ g.nread \in Int
  BY DEF GateRec
<1>2. ASSUME g.tags # <<>>
      PROVE  /\ g.tags[1] \in Tag /\ g.tags[1] \in ToSet(stream) /\ g.tags[1] \in ToSet(g.tags)
             /\ g.tags[1].at \in Int
             /\ Ahead => g.read + g.nread <= g.tags[1].at
             /\ g.read <= g.tags[1].at
             /\ g.tags[1].at < g.read + g.in_len
  <2>1. 1 \in DOMAIN g.tags /\ g.tags[1] \in Tag
    BY <1>1, <1>2
  <2>2. g.tags[1].at \in Int
    BY <2>1, TagFields
  <2> QED
    BY <2>1, <2>2 DEF Listed, Ahead, Position, ToSet
<1>3. NPub \in Int /\ NTimeout \in Int
  BY SizesAssumption
<1>4. next_timeout = NTimeout - g.n_since + g.nread
  BY DEF next_timeout
<1>5. next_tag = IF g.tags # <<>> THEN g.tags[1].at - g.read ELSE g.in_len + NPub + 1
  BY DEF next_tag
<1> QED
  BY <1>1, <1>2, <1>3, <1>4, <1>5

(* A turn that goes to a listed tag finds one.                             *)
LEMMA TagNextFacts ==
  ASSUME g \in GateRec, Listed, TagNext
  PROVE  g.tags # <<>>
<1>1. g.in_len \in Int /\ NPub \in Nat
  BY SizesAssumption DEF GateRec
<1> QED
  BY <1>1, NextTagFacts DEF TagNext

LEMMA TuneTagFacts ==
  ASSUME g \in GateRec, Listed, TuneTag
  PROVE  StartStep("tune", next_tag, "discard", g.pubtimeout)
<1>1. g' = AtEvent("tune", next_tag, "discard") /\ HistoryKept
  BY DEF TuneTag, Advance, Waiting, HistoryKept, Position
<1>2. "tune" \in Requests \union {"timeout"} /\ next_tag \in Int
  BY NextTagFacts DEF Requests
<1> QED
  BY <1>1, <1>2, AtEventFacts DEF StartStep, WindowKept, OutputKept, TuneTag, Waiting, Looping

LEMMA PubTagFacts ==
  ASSUME g \in GateRec, Listed, PubTag
  PROVE  StartStep("pub", next_tag, "publish", g.pubtimeout)
<1>1. g' = AtEvent("pub", next_tag, "publish") /\ HistoryKept
  BY DEF PubTag, Advance, Waiting, HistoryKept, Position
<1>2. "pub" \in Requests \union {"timeout"} /\ next_tag \in Int
  BY NextTagFacts DEF Requests
<1> QED
  BY <1>1, <1>2, AtEventFacts DEF StartStep, WindowKept, OutputKept, PubTag, Waiting, Looping

LEMMA TimeoutFacts ==
  ASSUME g \in GateRec, Listed, Timeout
  PROVE  StartStep("timeout", next_timeout, "publish", TRUE)
<1> DEFINE b == AtEvent("timeout", next_timeout, "publish")
<1>1. g' = [b EXCEPT !.pubtimeout = TRUE] /\ HistoryKept
  BY DEF Timeout, Advance, Waiting, HistoryKept, Position
<1>2. "timeout" \in Requests \union {"timeout"} /\ next_timeout \in Int
  BY NextTagFacts
<1>3. /\ b \in GateRec
      /\ b.read = g.read /\ b.in_len = g.in_len /\ b.out_len = g.out_len
      /\ b.nout_total = g.nout_total
      /\ b.out = g.out /\ b.events = g.events /\ b.out_offset = g.out_offset
      /\ b.nout = g.nout
      /\ b.samp_period = g.samp_period /\ b.rx_delay = g.rx_delay
      /\ b.state = g.state /\ b.n_since = g.n_since /\ b.out_buf = g.out_buf
      /\ b.passed = g.passed /\ b.tags = g.tags
      /\ b.nread = next_timeout /\ b.pc = "publish"
      /\ b.event_tag = [at |-> g.out_offset, key |-> "timeout", value |-> g.read + next_timeout]
  BY <1>2, AtEventFacts
<1> HIDE DEF b
<1>4. /\ g' \in GateRec /\ g'.pubtimeout = TRUE
      /\ g'.read = b.read /\ g'.in_len = b.in_len /\ g'.out_len = b.out_len
      /\ g'.nout_total = b.nout_total
      /\ g'.out = b.out /\ g'.events = b.events /\ g'.out_offset = b.out_offset
      /\ g'.nout = b.nout
      /\ g'.samp_period = b.samp_period /\ g'.rx_delay = b.rx_delay
      /\ g'.state = b.state /\ g'.n_since = b.n_since /\ g'.out_buf = b.out_buf
      /\ g'.passed = b.passed /\ g'.tags = b.tags
      /\ g'.nread = b.nread /\ g'.pc = b.pc /\ g'.event_tag = b.event_tag
  BY <1>1, <1>3 DEF GateRec
<1> QED
  BY <1>1, <1>3, <1>4 DEF StartStep, WindowKept, OutputKept, Timeout, Waiting, Looping

LEMMA WaitFacts ==
  ASSUME g \in GateRec, Waiting, HistoryKept,
         NEW n \in Int, NEW since \in Int, NEW tags \in Seq(Tag), NEW period \in {1, RatePeriod},
         g' = [g EXCEPT !.samp_period = period, !.n_since = since, !.nread = n, !.tags = tags]
  PROVE  WaitStep(n, since, tags, period)
<1>1. g' \in GateRec
  BY DEF GateRec
<1>2. /\ WindowKept /\ OutputKept
      /\ g'.samp_period = period /\ g'.rx_delay = g.rx_delay /\ g'.passed = g.passed
      /\ g'.state = g.state /\ g'.n_since = since /\ g'.out_buf = g.out_buf
      /\ g'.tags = tags /\ g'.pubtimeout = g.pubtimeout /\ g'.nread = n /\ g'.pc = g.pc
      /\ g'.event_tag = g.event_tag
  BY DEF GateRec, WindowKept, OutputKept
<1>3. g.pc = "work" /\ g.nread < g.in_len /\ g.state = "wait"
  BY DEF Waiting, Looping
<1> QED
  BY <1>1, <1>2, <1>3 DEF WaitStep

LEMMA RateTagFacts ==
  ASSUME g \in GateRec, Listed, RateTag
  PROVE  WaitStep(next_tag, g.n_since + (next_tag - g.nread), Tail(g.tags), RatePeriod)
<1>1. Waiting /\ HistoryKept
  BY DEF RateTag, Advance, Waiting, HistoryKept, Position
<1>2. /\ next_tag \in Int /\ g.n_since + (next_tag - g.nread) \in Int
      /\ Tail(g.tags) \in Seq(Tag) /\ RatePeriod \in {1, RatePeriod}
  BY NextTagFacts, TagNextFacts, TailFacts DEF RateTag, GateRec, Listed
<1>3. g' = [g EXCEPT !.samp_period = RatePeriod, !.n_since = @ + (next_tag - g.nread),
                     !.nread = next_tag, !.tags = Tail(g.tags)]
  BY DEF RateTag, Advance, NextTags
<1>4. g' = [g EXCEPT !.samp_period = RatePeriod, !.n_since = g.n_since + (next_tag - g.nread),
                     !.nread = next_tag, !.tags = Tail(g.tags)]
  BY <1>3 DEF GateRec
<1> QED
  BY <1>1, <1>2, <1>4, WaitFacts

LEMMA ForeignTagFacts ==
  ASSUME g \in GateRec, Listed, ForeignTag
  PROVE  WaitStep(next_tag, g.n_since + next_tag, Tail(g.tags), g.samp_period)
<1>1. Waiting /\ HistoryKept
  BY DEF ForeignTag, Advance, Waiting, HistoryKept, Position
<1>2. /\ next_tag \in Int /\ g.n_since + next_tag \in Int
      /\ Tail(g.tags) \in Seq(Tag) /\ g.samp_period \in {1, RatePeriod}
  BY NextTagFacts, TagNextFacts, TailFacts DEF ForeignTag, GateRec, Listed
<1>3. g' = [g EXCEPT !.n_since = @ + next_tag, !.nread = next_tag, !.tags = Tail(g.tags)]
  BY DEF ForeignTag, Advance, NextTags
<1>4. g' = [g EXCEPT !.samp_period = g.samp_period, !.n_since = g.n_since + next_tag,
                     !.nread = next_tag, !.tags = Tail(g.tags)]
  BY <1>3 DEF GateRec
<1> QED
  BY <1>1, <1>2, <1>4, WaitFacts

LEMMA TimeoutNearTagFacts ==
  ASSUME g \in GateRec, Listed, TimeoutNearTag
  PROVE  WaitStep(next_tag, g.n_since, g.tags, g.samp_period)
<1>1. Waiting /\ HistoryKept
  BY DEF TimeoutNearTag, Advance, Waiting, HistoryKept, Position
<1>2. /\ next_tag \in Int /\ g.n_since \in Int
      /\ g.tags \in Seq(Tag) /\ g.samp_period \in {1, RatePeriod}
  BY NextTagFacts DEF GateRec
<1>3. g' = [g EXCEPT !.nread = next_tag]
  BY DEF TimeoutNearTag, Advance
<1>4. g' = [g EXCEPT !.samp_period = g.samp_period, !.n_since = g.n_since,
                     !.nread = next_tag, !.tags = g.tags]
  BY <1>3 DEF GateRec
<1> QED
  BY <1>1, <1>2, <1>4, WaitFacts

LEMMA EndOfBlockFacts ==
  ASSUME g \in GateRec, Listed, EndOfBlock
  PROVE  WaitStep(g.in_len, g.n_since + (g.in_len - g.nread), g.tags, g.samp_period)
<1>1. Waiting /\ HistoryKept
  BY DEF EndOfBlock, Advance, Waiting, HistoryKept, Position
<1>2. /\ g.in_len \in Int /\ g.n_since + (g.in_len - g.nread) \in Int
      /\ g.tags \in Seq(Tag) /\ g.samp_period \in {1, RatePeriod}
  BY DEF GateRec, EndOfBlock, Waiting, Looping
<1>3. g' = [g EXCEPT !.n_since = @ + (g.in_len - g.nread), !.nread = g.in_len]
  BY DEF EndOfBlock, Advance
<1>4. g' = [g EXCEPT !.samp_period = g.samp_period, !.n_since = g.n_since + (g.in_len - g.nread),
                     !.nread = g.in_len, !.tags = g.tags]
  BY <1>3 DEF GateRec
<1> QED
  BY <1>1, <1>2, <1>4, WaitFacts

(* Of a block that starts, nothing is there yet.                           *)
Since == IF g.state = "wait" THEN 0 ELSE g.n_since
Here  == g.in_len - g.nread

Left == Lesser(n_discard - Since, Here)
RatesLeft == {i \in TagsRead(g, Left) : g.tags[i].key = "rate"}

(* A discard in which every read finds the same n_discard.                 *)
SteadyDiscard ==
  /\ g.pc = "discard" \/ (Looping /\ g.state = "discard")
  /\ g' \in GateRec /\ WindowKept /\ OutputKept
  /\ UNCHANGED <<stream, n_discard, sets, waited, overread, torn>>
  /\ thrown' = thrown \union (Position(g) .. Position(g)' - 1)
  /\ rewound' = (rewound \/ Position(g)' < Position(g))
  /\ g'.passed = g.passed /\ g'.out_buf = g.out_buf /\ g'.event_tag = g.event_tag
  /\ g'.pubtimeout = g.pubtimeout
  /\ g'.nread = g.nread + Left /\ g'.tags = TagsLeft(g, Left)
  /\ RatesLeft = {} => /\ g'.samp_period = g.samp_period
                       /\ g'.rx_delay = g.rx_delay + Left * g.samp_period
  /\ RatesLeft # {} => /\ g'.samp_period = RatePeriod
                       /\ Min(RatesLeft) \in RatesLeft
                       /\ LET split == g.tags[Min(RatesLeft)].at - g.nread
                          IN  g'.rx_delay = g.rx_delay + split * g.samp_period
                                              + (Left - split) * RatePeriod
  /\ \/ /\ n_discard - Since > Here
        /\ Left = Here /\ g'.n_since = Since + Here /\ g'.state = "discard" /\ g'.pc = "work"
     \/ /\ n_discard - Since <= Here
        /\ Left = n_discard - Since /\ g'.n_since = 0 /\ g'.state = "wait" /\ g'.pc = "publish"

(* Any discard: the tags it takes are those of as many samples as the first *)
(* read finds, and what it moves by is what the last one finds.            *)
DiscardStep ==
  /\ g.pc = "discard" \/ (Looping /\ g.state = "discard")
  /\ g' \in GateRec /\ WindowKept /\ OutputKept
  /\ UNCHANGED <<stream, waited, overread>>
  /\ n_discard' \in NDiscards /\ sets' \in 0 .. MaxSets /\ torn' \in BOOLEAN
  /\ (n_discard' = n_discard /\ sets' = sets) \/ sets' > 0
  /\ torn => torn'
  /\ thrown' = thrown \union (Position(g) .. Position(g)' - 1)
  /\ rewound' = (rewound \/ Position(g)' \notin Position(g) .. g.read + g.in_len)
  /\ g'.passed = g.passed /\ g'.out_buf = g.out_buf /\ g'.event_tag = g.event_tag
  /\ g'.pubtimeout = g.pubtimeout /\ g'.tags = TagsLeft(g, Left)
  /\ \/ /\ g'.nread = g.nread + Here /\ g'.n_since = Since + Here
        /\ g'.state = "discard" /\ g'.pc = "work"
     \/ /\ g'.nread = g.nread + (n_discard' - Since) /\ g'.n_since = 0
        /\ g'.state = "wait" /\ g'.pc = "publish"
  /\ ~ torn' => SteadyDiscard

LEMMA SinceFacts ==
  ASSUME g \in GateRec, n_discard \in NDiscards
  PROVE  /\ Since \in Int /\ Here \in Int /\ n_discard - Since \in Int /\ Left \in Int
         /\ Left = IF n_discard - Since > Here THEN Here ELSE n_discard - Since
<1>1. g.n_since \in Int /\ g.in_len \in Nat /\ g.nread \in Int
  BY DEF GateRec
<1>2. n_discard \in Nat
  BY SizesAssumption
<1>3. Since \in Int /\ Here \in Int
  BY <1>1 DEF Since, Here
<1> QED
  BY <1>2, <1>3 DEF Left, Lesser

(* The first rate tag among those read.                                    *)
LEMMA FirstRate ==
  ASSUME g \in GateRec, n_discard \in NDiscards, Sorted(g.tags), RatesLeft # {}
  PROVE  Min(RatesLeft) \in RatesLeft /\ \A i \in RatesLeft : Min(RatesLeft) <= i
<1>1. \A i \in RatesLeft : i \in DOMAIN g.tags
  BY DEF RatesLeft, TagsRead
<1>2. g.tags \in Seq(Tag)
  BY DEF GateRec
<1>3. RatesLeft \in SUBSET Nat
  BY <1>1, <1>2
<1> QED
  BY <1>3, MinInSet

(* A block that starts begins to count its samples.                        *)
LEMMA StartedFacts ==
  ASSUME g \in GateRec
  PROVE  LET b == IF g.state = "wait" THEN [g EXCEPT !.n_since = 0] ELSE g
         IN  /\ b \in GateRec /\ b.n_since = Since
             /\ b.read = g.read /\ b.in_len = g.in_len /\ b.out_len = g.out_len
             /\ b.nout_total = g.nout_total
             /\ b.out = g.out /\ b.events = g.events /\ b.out_offset = g.out_offset
             /\ b.nout = g.nout
             /\ b.samp_period = g.samp_period /\ b.rx_delay = g.rx_delay
             /\ b.state = g.state /\ b.out_buf = g.out_buf
             /\ b.passed = g.passed /\ b.tags = g.tags /\ b.pubtimeout = g.pubtimeout
             /\ b.nread = g.nread /\ b.pc = g.pc /\ b.event_tag = g.event_tag
<1>1. PICK z \in Int : z = 0
  OBVIOUS
<1> DEFINE c == [g EXCEPT !.n_since = z]
<1>2. /\ c \in GateRec /\ c.n_since = z
      /\ c.read = g.read /\ c.in_len = g.in_len /\ c.out_len = g.out_len
      /\ c.nout_total = g.nout_total
      /\ c.out = g.out /\ c.events = g.events /\ c.out_offset = g.out_offset
      /\ c.nout = g.nout
      /\ c.samp_period = g.samp_period /\ c.rx_delay = g.rx_delay
      /\ c.state = g.state /\ c.out_buf = g.out_buf
      /\ c.passed = g.passed /\ c.tags = g.tags /\ c.pubtimeout = g.pubtimeout
      /\ c.nread = g.nread /\ c.pc = g.pc /\ c.event_tag = g.event_tag
  BY <1>1 DEF GateRec
<1>3. [g EXCEPT !.n_since = 0] = c
  BY <1>1
<1> HIDE DEF c
<1>4. CASE g.state = "wait"
  BY <1>1, <1>2, <1>3, <1>4 DEF Since
<1>5. CASE g.state # "wait"
  BY <1>5 DEF Since
<1> QED
  BY <1>4, <1>5

LEMMA DiscardFacts ==
  ASSUME g \in GateRec, n_discard \in NDiscards, sets \in 0 .. MaxSets, torn \in BOOLEAN,
         Sorted(g.tags), DiscardSamples
  PROVE  DiscardStep
<1>0. PICK test \in NDiscards, move \in NDiscards :
        LET calls == (IF test # n_discard THEN 1 ELSE 0) + (IF move # test THEN 1 ELSE 0)
        IN  /\ g' = Discard(g, test, move)
            /\ sets' = sets + calls
            /\ sets' <= MaxSets
            /\ n_discard' = move
            /\ torn' = (torn \/ calls > 0)
  BY DEF DiscardSamples
<1> DEFINE b == IF g.state = "wait" THEN [g EXCEPT !.n_since = 0] ELSE g
           D(owed, last, here, left) ==
              LET rs == {i \in TagsRead(b, left) : b.tags[i].key = "rate"}
                  sp == IF rs = {} THEN left ELSE b.tags[Min(rs)].at - b.nread
                  nx == IF rs = {} THEN b.samp_period ELSE RatePeriod
                  cut == [b EXCEPT !.tags = TagsLeft(b, left), !.samp_period = nx,
                                   !.rx_delay = @ + Delay(b, left, sp, nx)]
              IN  IF owed > here
                  THEN [cut EXCEPT !.n_since = Counted(b), !.nread = b.in_len,
                                   !.state = "discard", !.pc = "work"]
                  ELSE [cut EXCEPT !.n_since = 0, !.nread = @ + last, !.state = "wait",
                                   !.pc = "publish"]
           rates == {i \in TagsRead(b, Left) : b.tags[i].key = "rate"}
           split == IF rates = {} THEN Left ELSE b.tags[Min(rates)].at - b.nread
           next  == IF rates = {} THEN b.samp_period ELSE RatePeriod
           delay == b.rx_delay + Delay(b, Left, split, next)
           c     == [b EXCEPT !.tags = TagsLeft(b, Left), !.samp_period = next,
                              !.rx_delay = delay]
<1>1. /\ b \in GateRec /\ b.n_since = Since
      /\ b.read = g.read /\ b.in_len = g.in_len /\ b.out_len = g.out_len
      /\ b.nout_total = g.nout_total
      /\ b.out = g.out /\ b.events = g.events /\ b.out_offset = g.out_offset
      /\ b.nout = g.nout
      /\ b.samp_period = g.samp_period /\ b.rx_delay = g.rx_delay
      /\ b.state = g.state /\ b.out_buf = g.out_buf
      /\ b.passed = g.passed /\ b.tags = g.tags /\ b.pubtimeout = g.pubtimeout
      /\ b.nread = g.nread /\ b.pc = g.pc /\ b.event_tag = g.event_tag
  BY StartedFacts
<1>2. /\ Owed(b, n_discard) = n_discard - Since /\ Owed(b, test) = test - Since
      /\ Owed(b, move) = move - Since
      /\ b.in_len - b.nread = Here /\ Lesser(n_discard - Since, Here) = Left
      /\ Counted(b) = Since + Here
  BY <1>1 DEF Owed, Here, Left, Counted
<1>3. Discard(g, test, move)
        = IF test - Since > Here
          THEN [c EXCEPT !.n_since = Since + Here, !.nread = b.in_len,
                         !.state = "discard", !.pc = "work"]
          ELSE [c EXCEPT !.n_since = 0, !.nread = @ + (move - Since),
                         !.state = "wait", !.pc = "publish"]
  <2>1. Discard(g, test, move)
          = D(Owed(b, test), Owed(b, move), b.in_len - b.nread,
              Lesser(Owed(b, n_discard), b.in_len - b.nread))
    BY DEF Discard
  <2>2. D(Owed(b, test), Owed(b, move), b.in_len - b.nread,
          Lesser(Owed(b, n_discard), b.in_len - b.nread))
        = D(test - Since, move - Since, Here, Left)
    <3> HIDE DEF D
    <3> QED BY <1>2
  <2>3. D(test - Since, move - Since, Here, Left)
        = IF test - Since > Here
          THEN [c EXCEPT !.n_since = Counted(b), !.nread = b.in_len,
                         !.state = "discard", !.pc = "work"]
          ELSE [c EXCEPT !.n_since = 0, !.nread = @ + (move - Since),
                         !.state = "wait", !.pc = "publish"]
    <3> HIDE DEF b
    <3> QED OBVIOUS
  <2> HIDE DEF b, c, D
  <2> QED BY <1>2, <2>1, <2>2, <2>3
<1>4. /\ b.tags \in Seq(Tag) /\ b.read \in Int /\ b.nread \in Int /\ b.rx_delay \in Int
      /\ b.samp_period \in {1, RatePeriod} /\ b.samp_period \in Int
      /\ RatePeriod \in Int /\ Sorted(b.tags)
  <2>1. RatePeriod \in Int
    BY SizesAssumption
  <2>2. /\ b.tags \in Seq(Tag) /\ b.read \in Int /\ b.nread \in Int /\ b.rx_delay \in Int
        /\ b.samp_period \in {1, RatePeriod}
    BY <1>1 DEF GateRec
  <2>3. Sorted(b.tags)
    BY <1>1
  <2> QED
    BY <2>1, <2>2, <2>3
<1>5. TagsLeft(b, Left) = TagsLeft(g, Left) /\ TagsRead(b, Left) = TagsRead(g, Left)
  BY <1>1 DEF TagsLeft, TagsRead
<1>6. rates = RatesLeft
  BY <1>1, <1>5 DEF RatesLeft
<1>7. TagsLeft(b, Left) \in Seq(Tag)
  BY <1>4, SinceFacts, TagsLeftFacts
<1>8. rates # {} => /\ Min(rates) \in rates
                    /\ b.tags[Min(rates)].at \in Int
  <2> SUFFICES ASSUME rates # {}
               PROVE  Min(rates) \in rates /\ b.tags[Min(rates)].at \in Int
    OBVIOUS
  <2>1. Min(rates) \in rates
    BY <1>6, FirstRate
  <2>2. Min(rates) \in DOMAIN b.tags
    BY <2>1 DEF TagsRead
  <2> HIDE DEF b, rates
  <2>3. b.tags[Min(rates)] \in Tag
    BY <1>4, <2>2
  <2> QED
    BY <2>1, <2>3, TagFields
<1>19. delay = b.rx_delay + (split * b.samp_period + (Left - split) * next)
  <2> HIDE DEF split, next, b
  <2> QED BY DEF Delay
<1> HIDE DEF b, rates
<1>9. split \in Int /\ next \in {1, RatePeriod} /\ next \in Int
  BY <1>1, <1>4, <1>8, SinceFacts
<1> HIDE DEF split, next
<1> HIDE DEF delay
<1>10. delay \in Int
  <2>1. split * b.samp_period \in Int /\ (Left - split) * next \in Int
    BY <1>4, <1>9, SinceFacts
  <2> QED
    BY <1>4, <1>19, <2>1
<1>11. /\ c \in GateRec /\ c.n_since = b.n_since
       /\ c.read = b.read /\ c.in_len = b.in_len /\ c.out_len = b.out_len
       /\ c.nout_total = b.nout_total
       /\ c.out = b.out /\ c.events = b.events /\ c.out_offset = b.out_offset
       /\ c.nout = b.nout
       /\ c.samp_period = next /\ c.rx_delay = delay
       /\ c.state = b.state /\ c.out_buf = b.out_buf
       /\ c.passed = b.passed /\ c.tags = TagsLeft(b, Left) /\ c.pubtimeout = b.pubtimeout
       /\ c.nread = b.nread /\ c.pc = b.pc /\ c.event_tag = b.event_tag
  BY <1>1, <1>7, <1>9, <1>10 DEF GateRec
<1> HIDE DEF c
<1>12. /\ g.pc = "discard" \/ (Looping /\ g.state = "discard")
       /\ UNCHANGED <<stream, waited, overread>>
       /\ thrown' = thrown \union (Position(g) .. Position(g)' - 1)
       /\ rewound' = (rewound \/ Position(g)' \notin Position(g) .. g.read + g.in_len)
  BY DEF DiscardSamples, Position
<1>13. /\ Since \in Int /\ Here \in Int /\ n_discard - Since \in Int /\ Left \in Int
       /\ Left = IF n_discard - Since > Here THEN Here ELSE n_discard - Since
  BY SinceFacts
<1>23. test \in Nat /\ move \in Nat /\ n_discard \in Nat /\ MaxSets \in Nat /\ sets \in Nat
  BY SizesAssumption
<1>24. g' = Discard(g, test, move) /\ n_discard' = move
  BY <1>0
<1>25. /\ sets' \in 0 .. MaxSets /\ torn' \in BOOLEAN /\ (torn => torn')
       /\ (n_discard' = n_discard /\ sets' = sets) \/ sets' > 0
  <2>1. CASE test = n_discard /\ move = test
    <3>1. sets' = sets + (0 + 0) /\ torn' = (torn \/ 0 + 0 > 0) /\ n_discard' = n_discard
      BY <1>0, <2>1
    <3> QED
      BY <1>23, <3>1
  <2>2. CASE ~ (test = n_discard /\ move = test)
    <3>1. \E c1 \in 1 .. 2 : sets' = sets + c1 /\ sets' <= MaxSets /\ torn' = (torn \/ c1 > 0)
      <4>1. CASE test # n_discard /\ move # test
        <5>1. sets' = sets + (1 + 1) /\ sets' <= MaxSets /\ torn' = (torn \/ 1 + 1 > 0)
          BY <1>0, <4>1
        <5>2. 1 + 1 \in 1 .. 2
          OBVIOUS
        <5> QED
          BY <5>1, <5>2
      <4>2. CASE test # n_discard /\ move = test
        <5>1. sets' = sets + (1 + 0) /\ sets' <= MaxSets /\ torn' = (torn \/ 1 + 0 > 0)
          BY <1>0, <4>2
        <5>2. 1 + 0 \in 1 .. 2
          OBVIOUS
        <5> QED
          BY <5>1, <5>2
      <4>3. CASE test = n_discard /\ move # test
        <5>1. sets' = sets + (0 + 1) /\ sets' <= MaxSets /\ torn' = (torn \/ 0 + 1 > 0)
          BY <1>0, <4>3
        <5>2. 0 + 1 \in 1 .. 2
          OBVIOUS
        <5> QED
          BY <5>1, <5>2
      <4> QED
        BY <2>2, <4>1, <4>2, <4>3
    <3>2. PICK c1 \in 1 .. 2 : sets' = sets + c1 /\ sets' <= MaxSets /\ torn' = (torn \/ c1 > 0)
      BY <3>1
    <3>3. sets' \in 0 .. MaxSets /\ sets' > 0
      BY <1>23, <3>2
    <3>4. torn' \in BOOLEAN /\ (torn => torn')
      BY <3>2
    <3> QED
      BY <3>3, <3>4
  <2> QED
    BY <2>1, <2>2
<1>26. ASSUME ~ torn'
       PROVE  test = n_discard /\ move = n_discard /\ sets' = sets /\ torn' = torn
  <2>1. ~ torn /\ torn \in BOOLEAN
    BY <1>25, <1>26
  <2>2. ~ ((IF test # n_discard THEN 1 ELSE 0) + (IF move # test THEN 1 ELSE 0) > 0)
    BY <1>0, <1>26
  <2>3. test = n_discard /\ move = test
    BY <2>2
  <2>4. sets' = sets + (0 + 0)
    BY <1>0, <2>3
  <2>5. sets' = sets
    BY <1>23, <2>4
  <2> QED
    BY <1>25, <1>26, <2>1, <2>3, <2>5
<1>14. ASSUME test - Since > Here
       PROVE  /\ g' \in GateRec /\ g'.n_since = Since + Here
              /\ g'.read = c.read /\ g'.in_len = c.in_len /\ g'.out_len = c.out_len
              /\ g'.nout_total = c.nout_total
              /\ g'.out = c.out /\ g'.events = c.events /\ g'.out_offset = c.out_offset
              /\ g'.nout = c.nout
              /\ g'.samp_period = c.samp_period /\ g'.rx_delay = c.rx_delay
              /\ g'.state = "discard" /\ g'.out_buf = c.out_buf
              /\ g'.passed = c.passed /\ g'.tags = c.tags /\ g'.pubtimeout = c.pubtimeout
              /\ g'.nread = b.in_len /\ g'.pc = "work" /\ g'.event_tag = c.event_tag
  <2>1. g' = [c EXCEPT !.n_since = Since + Here, !.nread = b.in_len,
                       !.state = "discard", !.pc = "work"]
    BY <1>3, <1>14, <1>24
  <2>2. b.in_len \in Int /\ Since + Here \in Int
    BY <1>1, <1>13 DEF GateRec, Here
  <2> QED
    BY <1>11, <1>14, <2>1, <2>2 DEF GateRec
<1>15. ASSUME ~ (test - Since > Here)
       PROVE  /\ g' \in GateRec /\ g'.n_since = 0
              /\ g'.read = c.read /\ g'.in_len = c.in_len /\ g'.out_len = c.out_len
              /\ g'.nout_total = c.nout_total
              /\ g'.out = c.out /\ g'.events = c.events /\ g'.out_offset = c.out_offset
              /\ g'.nout = c.nout
              /\ g'.samp_period = c.samp_period /\ g'.rx_delay = c.rx_delay
              /\ g'.state = "wait" /\ g'.out_buf = c.out_buf
              /\ g'.passed = c.passed /\ g'.tags = c.tags /\ g'.pubtimeout = c.pubtimeout
              /\ g'.nread = c.nread + (move - Since) /\ g'.pc = "publish"
              /\ g'.event_tag = c.event_tag
  <2>1. g' = [c EXCEPT !.n_since = 0, !.nread = @ + (move - Since),
                       !.state = "wait", !.pc = "publish"]
    BY <1>3, <1>15, <1>24
  <2>2. c.nread + (move - Since) \in Int
    <3>1. c.nread \in Int
      BY <1>11 DEF GateRec
    <3> QED
      BY <1>13, <1>23, <3>1
  <2>3. PICK z \in Int : z = 0
    OBVIOUS
  <2>4. g' = [c EXCEPT !.n_since = z, !.nread = c.nread + (move - Since),
                       !.state = "wait", !.pc = "publish"]
    BY <1>11, <2>1, <2>3 DEF GateRec
  <2> QED
    BY <1>11, <2>2, <2>3, <2>4 DEF GateRec
<1>16. /\ rates = {} => next = g.samp_period /\ split = Left
       /\ rates # {} => next = RatePeriod /\ split = g.tags[Min(rates)].at - g.nread
  BY <1>1 DEF next, split
<1>17. /\ RatesLeft = {} => /\ next = g.samp_period
                            /\ delay = g.rx_delay + Left * g.samp_period
       /\ RatesLeft # {} => /\ next = RatePeriod
                            /\ Min(RatesLeft) \in RatesLeft
                            /\ LET s == g.tags[Min(RatesLeft)].at - g.nread
                               IN  delay = g.rx_delay + s * g.samp_period
                                              + (Left - s) * RatePeriod
  <2>1. ASSUME RatesLeft = {}
        PROVE  next = g.samp_period /\ delay = g.rx_delay + Left * g.samp_period
    <3>1. next = g.samp_period /\ split = Left
      BY <1>6, <1>16, <2>1
    <3>2. (Left - Left) * next = 0
      BY <1>9, <1>13
    <3>3. Left * g.samp_period \in Int
      BY <1>1, <1>4, <1>13
    <3> QED
      BY <1>1, <1>4, <1>19, <3>1, <3>2, <3>3
  <2>2. ASSUME RatesLeft # {}
        PROVE  /\ next = RatePeriod
               /\ Min(RatesLeft) \in RatesLeft
               /\ LET s == g.tags[Min(RatesLeft)].at - g.nread
                  IN  delay = g.rx_delay + s * g.samp_period + (Left - s) * RatePeriod
    <3>1. next = RatePeriod /\ split = g.tags[Min(RatesLeft)].at - g.nread
      BY <1>6, <1>16, <2>2
    <3>2. delay = g.rx_delay + (split * g.samp_period + (Left - split) * RatePeriod)
      BY <1>1, <1>19, <3>1
    <3>3. split * g.samp_period \in Int /\ (Left - split) * RatePeriod \in Int
      BY <1>1, <1>4, <1>9, <1>13
    <3>4. delay = g.rx_delay + split * g.samp_period + (Left - split) * RatePeriod
      BY <1>1, <1>4, <3>2, <3>3
    <3>5. split = g.tags[Min(RatesLeft)].at - g.nread /\ Min(RatesLeft) \in RatesLeft
      BY <1>6, <1>8, <2>2, <3>1
    <3>6. delay = g.rx_delay + (g.tags[Min(RatesLeft)].at - g.nread) * g.samp_period
                    + (Left - (g.tags[Min(RatesLeft)].at - g.nread)) * RatePeriod
      BY <3>4, <3>5, Zenon
    <3> QED
      BY <3>1, <3>5, <3>6, Zenon
  <2> QED
    BY <2>1, <2>2
<1>18. /\ g' \in GateRec /\ WindowKept /\ OutputKept
       /\ g'.passed = g.passed /\ g'.out_buf = g.out_buf /\ g'.event_tag = g.event_tag
       /\ g'.pubtimeout = g.pubtimeout /\ g'.tags = TagsLeft(g, Left)
       /\ g'.samp_period = next /\ g'.rx_delay = delay
       /\ \/ /\ test - Since > Here
             /\ g'.nread = g.nread + Here /\ g'.n_since = Since + Here
             /\ g'.state = "discard" /\ g'.pc = "work"
          \/ /\ ~ (test - Since > Here)
             /\ g'.nread = g.nread + (move - Since) /\ g'.n_since = 0
             /\ g'.state = "wait" /\ g'.pc = "publish"
  <2>1. CASE test - Since > Here
    <3>1. b.in_len = g.nread + Here
      BY <1>1 DEF Here, GateRec
    <3> QED
      BY <1>1, <1>5, <1>11, <1>14, <2>1, <3>1 DEF WindowKept, OutputKept
  <2>2. CASE ~ (test - Since > Here)
    BY <1>1, <1>5, <1>11, <1>15, <2>2 DEF WindowKept, OutputKept
  <2> QED
    BY <2>1, <2>2
<1>20. ~ torn' => SteadyDiscard
  <2> SUFFICES ASSUME ~ torn'
               PROVE  SteadyDiscard
    OBVIOUS
  <2>1. test = n_discard /\ move = n_discard /\ sets' = sets /\ torn' = torn
    BY <1>26
  <2>2. \/ /\ n_discard - Since > Here /\ Left = Here /\ g'.nread = g.nread + Left
           /\ g'.n_since = Since + Here /\ g'.state = "discard" /\ g'.pc = "work"
        \/ /\ n_discard - Since <= Here /\ Left = n_discard - Since
           /\ g'.nread = g.nread + Left
           /\ g'.n_since = 0 /\ g'.state = "wait" /\ g'.pc = "publish"
    BY <1>13, <1>18, <2>1
  <2>3. Left <= Here /\ g.nread + Left <= g.in_len
    <3>1. g.nread \in Int /\ g.in_len \in Int
      BY DEF GateRec
    <3> QED
      BY <1>13, <3>1 DEF Here
  <2>4. Position(g)' = g.read + (g.nread + Left)
    BY <1>18, <2>2 DEF Position, WindowKept
  <2>5. Position(g) = g.read + g.nread /\ g.read \in Int /\ g.nread \in Int /\ g.in_len \in Int
    BY DEF Position, GateRec
  <2>6. Position(g)' \in Int /\ Position(g) \in Int /\ Position(g)' <= g.read + g.in_len
    BY <1>13, <2>3, <2>4, <2>5
  <2>7. Position(g)' \notin Position(g) .. g.read + g.in_len <=> Position(g)' < Position(g)
    BY <2>5, <2>6
  <2>8. rewound' = (rewound \/ Position(g)' < Position(g))
    BY <1>12, <2>7
  <2>9. UNCHANGED <<stream, n_discard, sets, waited, overread, torn>>
    BY <1>12, <1>24, <2>1
  <2> QED
    BY <1>12, <1>17, <1>18, <2>2, <2>8, <2>9 DEF SteadyDiscard
<1>21. n_discard' \in NDiscards /\ n_discard' = move
  BY <1>24
<1> QED
  BY <1>12, <1>18, <1>20, <1>21, <1>25 DEF DiscardStep

(* A slice of the window.                                                  *)
LEMMA SliceFacts ==
  ASSUME g \in GateRec, NEW i \in Int, NEW j \in Int, g.read + g.in_len <= NIn
  PROVE  /\ Slice(g, i, j) \in Seq(0 .. NIn - 1)
         /\ Bound(i, g.in_len) \in 0 .. g.in_len /\ Bound(j, g.in_len) \in 0 .. g.in_len
         /\ Len(Slice(g, i, j)) = IF Bound(j, g.in_len) > Bound(i, g.in_len)
                                  THEN Bound(j, g.in_len) - Bound(i, g.in_len) ELSE 0
         /\ \A k \in 1 .. Len(Slice(g, i, j)) :
              Slice(g, i, j)[k] = g.read + Bound(i, g.in_len) + k - 1
<1> DEFINE lo == Bound(i, g.in_len)
           hi == Bound(j, g.in_len)
           n  == IF hi > lo THEN hi - lo ELSE 0
<1>1. g.in_len \in Nat /\ g.read \in Nat /\ NIn \in Nat
  BY SizesAssumption DEF GateRec
<1>2. lo \in 0 .. g.in_len /\ hi \in 0 .. g.in_len
  BY <1>1 DEF Bound, Lesser
<1>3. Slice(g, i, j) = [k \in 1 .. n |-> g.read + lo + k - 1]
  BY DEF Slice
<1> HIDE DEF lo, hi
<1>4. n \in Nat /\ \A k \in 1 .. n : g.read + lo + k - 1 \in 0 .. NIn - 1
  BY <1>1, <1>2
<1> HIDE DEF n
<1>5. Slice(g, i, j) \in Seq(0 .. NIn - 1) /\ Len(Slice(g, i, j)) = n
      /\ \A k \in 1 .. n : Slice(g, i, j)[k] = g.read + lo + k - 1
  BY <1>3, <1>4
<1> QED
  BY <1>2, <1>5 DEF lo, hi, n

PublishStep ==
  /\ \/ g.pc = "publish"
     \/ Looping /\ g.state = "publish" /\ ~ TagEndsTimeout
  /\ g' \in GateRec /\ WindowKept /\ OutputKept
  /\ UNCHANGED <<stream, n_discard, sets, waited, thrown, torn>>
  /\ rewound' = (rewound \/ Position(g)' < Position(g))
  /\ overread' = overread \union
       (IF g.state = "publish"
        THEN {t \in ToSet(g.tags) \ ToSet(g'.tags) : t.at >= Position(g)'}
        ELSE {})
  /\ g'.rx_delay = g.rx_delay /\ g'.event_tag = g.event_tag /\ g'.pubtimeout = g.pubtimeout
  /\ g'.tags = TagsLeft(g, NPub)
  /\ \A p \in g'.passed :
       \/ p \in g.passed
       \/ \E i \in TagsRead(g, NPub) :
            /\ p.at = g.tags[i].at
            /\ p.pos = g.nout_total + g.nout - g.nread + g.tags[i].at - g.read
            /\ p.exact => /\ Since = 0 /\ g.out_buf = <<>> /\ ~ g.pubtimeout
                          /\ g.nout_total + g.nout = Len(g.out)
  /\ g'.samp_period = IF \E i \in TagsRead(g, NPub) : g.tags[i].key = "rate"
                      THEN RatePeriod ELSE g.samp_period
  /\ \/ /\ Since + Here < NPub
        /\ g'.n_since = Since + Here /\ g'.nread = g.in_len
        /\ g'.state = "publish" /\ g'.pc = "work"
        /\ g'.out_buf = g.out_buf \o Slice(g, g.nread, g.in_len)
     \/ /\ Since + Here >= NPub
        /\ g'.n_since = 0 /\ g'.nread = g.nread + (NPub - Since)
        /\ g'.state = "wait" /\ g'.pc = "fill"
        /\ g'.out_buf = g.out_buf \o Slice(g, g.nread, g.nread + NPub - Len(g.out_buf))

LEMMA PublishFacts ==
  ASSUME g \in GateRec, Sorted(g.tags), PublishSamples,
         g.read + g.in_len <= NIn
  PROVE  PublishStep
<1> DEFINE b == IF g.state = "wait" THEN [g EXCEPT !.n_since = 0] ELSE g
           period == IF \E i \in TagsRead(b, NPub) : b.tags[i].key = "rate"
                     THEN RatePeriod ELSE b.samp_period
           passed == b.passed \union Forwarded(b)
           c == [b EXCEPT !.tags = TagsLeft(b, NPub), !.passed = passed, !.samp_period = period]
           short == b.out_buf \o Slice(b, b.nread, b.in_len)
           full  == b.out_buf \o Slice(b, b.nread, b.nread + NPub - Len(b.out_buf))
<1>1. /\ b \in GateRec /\ b.n_since = Since
      /\ b.read = g.read /\ b.in_len = g.in_len /\ b.out_len = g.out_len
      /\ b.nout_total = g.nout_total
      /\ b.out = g.out /\ b.events = g.events /\ b.out_offset = g.out_offset
      /\ b.nout = g.nout
      /\ b.samp_period = g.samp_period /\ b.rx_delay = g.rx_delay
      /\ b.state = g.state /\ b.out_buf = g.out_buf
      /\ b.passed = g.passed /\ b.tags = g.tags /\ b.pubtimeout = g.pubtimeout
      /\ b.nread = g.nread /\ b.pc = g.pc /\ b.event_tag = g.event_tag
  BY StartedFacts
<1>2. b.in_len - b.nread = Here /\ Counted(b) = Since + Here
  BY <1>1 DEF Here, Counted
<1>3. /\ g.in_len \in Nat /\ g.nread \in Int /\ g.read \in Nat /\ g.n_since \in Int
      /\ g.nout_total \in Nat /\ g.nout \in Nat /\ NPub \in Nat /\ NPub > 0
      /\ g.tags \in Seq(Tag) /\ g.out_buf \in Seq(0 .. NIn - 1) /\ g.samp_period \in {1, RatePeriod}
      /\ g.passed \subseteq [pos : Int, at : Int, exact : BOOLEAN]
  BY SizesAssumption DEF GateRec
<1>4. Since \in Int /\ Here \in Int
  BY <1>3 DEF Since, Here
<1>5. Publish(g) = IF b.n_since + (b.in_len - b.nread) < NPub
                   THEN [c EXCEPT !.n_since = Counted(b), !.nread = b.in_len,
                                  !.state = "publish", !.pc = "work", !.out_buf = @ \o Slice(b, b.nread, b.in_len)]
                   ELSE [c EXCEPT !.n_since = 0, !.nread = @ + (NPub - b.n_since),
                                  !.state = "wait", !.pc = "fill",
                                  !.out_buf = @ \o Slice(b, b.nread, b.nread + NPub - Len(@))]
  BY DEF Publish
<1>6. TagsLeft(b, NPub) = TagsLeft(g, NPub) /\ TagsRead(b, NPub) = TagsRead(g, NPub)
  BY <1>1 DEF TagsLeft, TagsRead
<1>7. TagsLeft(g, NPub) \in Seq(Tag)
  BY <1>3, TagsLeftFacts
<1>8. \A i \in TagsRead(g, NPub) : i \in DOMAIN g.tags /\ g.tags[i].at \in Int
  <2>1. \A i \in TagsRead(g, NPub) : i \in DOMAIN g.tags
    BY DEF TagsRead
  <2>2. \A i \in DOMAIN g.tags : g.tags[i] \in Tag
    BY <1>3
  <2> QED
    BY <2>1, <2>2, TagFields
<1>9. \A p \in Forwarded(b) :
        /\ p \in [pos : Int, at : Int, exact : BOOLEAN]
        /\ \E i \in TagsRead(g, NPub) :
             /\ p.at = g.tags[i].at
             /\ p.pos = g.nout_total + g.nout - g.nread + g.tags[i].at - g.read
             /\ p.exact => /\ Since = 0 /\ g.out_buf = <<>> /\ ~ g.pubtimeout
                           /\ g.nout_total + g.nout = Len(g.out)
  <2> SUFFICES ASSUME NEW p \in Forwarded(b)
               PROVE  /\ p \in [pos : Int, at : Int, exact : BOOLEAN]
                      /\ \E i \in TagsRead(g, NPub) :
                           /\ p.at = g.tags[i].at
                           /\ p.pos = g.nout_total + g.nout - g.nread + g.tags[i].at - g.read
                           /\ p.exact => /\ Since = 0 /\ g.out_buf = <<>> /\ ~ g.pubtimeout
                                         /\ g.nout_total + g.nout = Len(g.out)
    OBVIOUS
  <2> HIDE DEF b
  <2>1. PICK i \in TagsRead(b, NPub) :
          p = [pos |-> OutputOffset(b, b.tags[i]), at |-> b.tags[i].at,
               exact |-> /\ b.n_since = 0 /\ b.out_buf = <<>> /\ ~ b.pubtimeout
                         /\ b.nout_total + b.nout = Len(b.out)]
    BY DEF Forwarded
  <2>2. OutputOffset(b, b.tags[i])
        = g.nout_total + g.nout - g.nread + g.tags[i].at - g.read
    BY <1>1 DEF OutputOffset
  <2>3. i \in TagsRead(g, NPub) /\ g.tags[i].at \in Int
    BY <1>6, <1>8
  <2>4. p.pos = g.nout_total + g.nout - g.nread + g.tags[i].at - g.read /\ p.at = g.tags[i].at
    BY <1>1, <2>1, <2>2
  <2>5. p.exact <=> /\ Since = 0 /\ g.out_buf = <<>> /\ ~ g.pubtimeout
                    /\ g.nout_total + g.nout = Len(g.out)
    BY <1>1, <2>1
  <2>6. p \in [pos : Int, at : Int, exact : BOOLEAN]
    <3>1. OutputOffset(b, b.tags[i]) \in Int /\ b.tags[i].at \in Int
      BY <1>1, <1>3, <2>2, <2>3
    <3> QED
      BY <2>1, <3>1
  <2> QED
    BY <2>3, <2>4, <2>5, <2>6
<1>10. passed \subseteq [pos : Int, at : Int, exact : BOOLEAN]
  <2> HIDE DEF b
  <2> QED BY <1>1, <1>3, <1>9
<1>11. period = (IF \E i \in TagsRead(g, NPub) : g.tags[i].key = "rate"
                 THEN RatePeriod ELSE g.samp_period)
       /\ period \in {1, RatePeriod}
  <2> HIDE DEF b
  <2> QED BY <1>1, <1>3, <1>6
<1>12. /\ short = g.out_buf \o Slice(g, g.nread, g.in_len)
       /\ full = g.out_buf \o Slice(g, g.nread, g.nread + NPub - Len(g.out_buf))
  <2> HIDE DEF b
  <2> QED BY <1>1 DEF Slice
<1>13. short \in Seq(0 .. NIn - 1) /\ full \in Seq(0 .. NIn - 1)
  <2>1. g.nread + NPub - Len(g.out_buf) \in Int /\ g.in_len \in Int
    BY <1>3
  <2>2. /\ Slice(g, g.nread, g.in_len) \in Seq(0 .. NIn - 1)
        /\ Slice(g, g.nread, g.nread + NPub - Len(g.out_buf)) \in Seq(0 .. NIn - 1)
    BY <1>3, <2>1, SliceFacts
  <2> QED
    BY <1>3, <1>12, <2>2, ConcatProperties
<1> HIDE DEF b, period, passed, short, full
<1>14. /\ c \in GateRec /\ c.n_since = b.n_since
       /\ c.read = b.read /\ c.in_len = b.in_len /\ c.out_len = b.out_len
       /\ c.nout_total = b.nout_total
       /\ c.out = b.out /\ c.events = b.events /\ c.out_offset = b.out_offset
       /\ c.nout = b.nout
       /\ c.samp_period = period /\ c.rx_delay = b.rx_delay
       /\ c.state = b.state /\ c.out_buf = b.out_buf
       /\ c.passed = passed /\ c.tags = TagsLeft(b, NPub) /\ c.pubtimeout = b.pubtimeout
       /\ c.nread = b.nread /\ c.pc = b.pc /\ c.event_tag = b.event_tag
  BY <1>1, <1>6, <1>7, <1>10, <1>11 DEF GateRec
<1> HIDE DEF c
<1>15. g' = Publish(g) /\ UNCHANGED <<stream, n_discard, sets, waited, thrown, torn>>
       /\ rewound' = (rewound \/ Position(g)' < Position(g))
       /\ overread' = overread \union
            (IF g.state = "publish"
             THEN {t \in ToSet(g.tags) \ ToSet(g'.tags) : t.at >= Position(g)'}
             ELSE {})
       /\ \/ g.pc = "publish"
          \/ Looping /\ g.state = "publish" /\ ~ TagEndsTimeout
  BY DEF PublishSamples, Advance, Position
<1>16. ASSUME Since + Here < NPub
       PROVE  /\ g' \in GateRec /\ g'.n_since = Since + Here
              /\ g'.read = c.read /\ g'.in_len = c.in_len /\ g'.out_len = c.out_len
              /\ g'.nout_total = c.nout_total
              /\ g'.out = c.out /\ g'.events = c.events /\ g'.out_offset = c.out_offset
              /\ g'.nout = c.nout
              /\ g'.samp_period = c.samp_period /\ g'.rx_delay = c.rx_delay
              /\ g'.state = "publish" /\ g'.out_buf = short
              /\ g'.passed = c.passed /\ g'.tags = c.tags /\ g'.pubtimeout = c.pubtimeout
              /\ g'.nread = b.in_len /\ g'.pc = "work" /\ g'.event_tag = c.event_tag
  <2>1. g' = [c EXCEPT !.n_since = Since + Here, !.nread = b.in_len,
                       !.state = "publish", !.pc = "work", !.out_buf = @ \o Slice(b, b.nread, b.in_len)]
    BY <1>1, <1>2, <1>5, <1>15, <1>16
  <2>2. g' = [c EXCEPT !.n_since = Since + Here, !.nread = b.in_len,
                       !.state = "publish", !.pc = "work", !.out_buf = short]
    BY <1>14, <2>1 DEF short
  <2>3. b.in_len \in Int /\ Since + Here \in Int
    BY <1>1, <1>3, <1>4
  <2> QED
    BY <1>13, <1>14, <2>2, <2>3 DEF GateRec
<1>17. ASSUME Since + Here >= NPub
       PROVE  /\ g' \in GateRec /\ g'.n_since = 0
              /\ g'.read = c.read /\ g'.in_len = c.in_len /\ g'.out_len = c.out_len
              /\ g'.nout_total = c.nout_total
              /\ g'.out = c.out /\ g'.events = c.events /\ g'.out_offset = c.out_offset
              /\ g'.nout = c.nout
              /\ g'.samp_period = c.samp_period /\ g'.rx_delay = c.rx_delay
              /\ g'.state = "wait" /\ g'.out_buf = full
              /\ g'.passed = c.passed /\ g'.tags = c.tags /\ g'.pubtimeout = c.pubtimeout
              /\ g'.nread = g.nread + (NPub - Since) /\ g'.pc = "fill"
              /\ g'.event_tag = c.event_tag
  <2>1. ~ (b.n_since + (b.in_len - b.nread) < NPub)
    BY <1>1, <1>2, <1>3, <1>4, <1>17
  <2>2. g' = [c EXCEPT !.n_since = 0, !.nread = @ + (NPub - b.n_since),
                       !.state = "wait", !.pc = "fill",
                       !.out_buf = @ \o Slice(b, b.nread, b.nread + NPub - Len(@))]
    BY <1>5, <1>15, <2>1
  <2>3. g' = [c EXCEPT !.n_since = 0, !.nread = g.nread + (NPub - Since),
                       !.state = "wait", !.pc = "fill", !.out_buf = full]
    BY <1>1, <1>14, <2>2 DEF full
  <2>4. g.nread + (NPub - Since) \in Int
    BY <1>3, <1>4
  <2>5. PICK z \in Int : z = 0
    OBVIOUS
  <2>6. g' = [c EXCEPT !.n_since = z, !.nread = g.nread + (NPub - Since),
                       !.state = "wait", !.pc = "fill", !.out_buf = full]
    BY <2>3, <2>5
  <2> QED
    BY <1>13, <1>14, <2>4, <2>5, <2>6 DEF GateRec
<1>18. /\ WindowKept /\ OutputKept /\ g' \in GateRec
       /\ g'.rx_delay = g.rx_delay /\ g'.event_tag = g.event_tag /\ g'.pubtimeout = g.pubtimeout
       /\ g'.tags = TagsLeft(g, NPub) /\ g'.passed = passed /\ g'.samp_period = period
       /\ \/ /\ Since + Here < NPub
             /\ g'.n_since = Since + Here /\ g'.nread = g.in_len
             /\ g'.state = "publish" /\ g'.pc = "work"
             /\ g'.out_buf = g.out_buf \o Slice(g, g.nread, g.in_len)
          \/ /\ Since + Here >= NPub
             /\ g'.n_since = 0 /\ g'.nread = g.nread + (NPub - Since)
             /\ g'.state = "wait" /\ g'.pc = "fill"
             /\ g'.out_buf = g.out_buf \o Slice(g, g.nread, g.nread + NPub - Len(g.out_buf))
  <2>1. CASE Since + Here < NPub
    BY <1>1, <1>6, <1>12, <1>14, <1>16, <2>1 DEF WindowKept, OutputKept
  <2>2. CASE Since + Here >= NPub
    BY <1>1, <1>6, <1>12, <1>14, <1>17, <2>2 DEF WindowKept, OutputKept
  <2>3. Since + Here < NPub \/ Since + Here >= NPub
    BY <1>3, <1>4
  <2> QED
    BY <2>1, <2>2, <2>3, Zenon
<1>19. \A p \in g'.passed :
         \/ p \in g.passed
         \/ \E i \in TagsRead(g, NPub) :
              /\ p.at = g.tags[i].at
              /\ p.pos = g.nout_total + g.nout - g.nread + g.tags[i].at - g.read
              /\ p.exact => /\ Since = 0 /\ g.out_buf = <<>> /\ ~ g.pubtimeout
                            /\ g.nout_total + g.nout = Len(g.out)
  <2>1. g'.passed = g.passed \union Forwarded(b)
    BY <1>1, <1>18 DEF passed
  <2> QED
    BY <1>9, <2>1
<1> QED
  BY <1>11, <1>15, <1>18, <1>19 DEF PublishStep

(* A block is handed out whole: a call has room for it.                    *)
FillStep ==
  /\ g.pc = "fill" /\ UNCHANGED <<stream, n_discard, sets, waited, thrown, overread, torn>>
  /\ rewound' = (rewound \/ Position(g)' < Position(g))
  /\ g' \in GateRec
  /\ g'.samp_period = g.samp_period /\ g'.rx_delay = g.rx_delay /\ g'.passed = g.passed
  /\ g'.state = g.state /\ g'.n_since = g.n_since /\ g'.pubtimeout = g.pubtimeout
  /\ g'.event_tag = g.event_tag /\ g'.nout_total = g.nout_total
  /\ \/ /\ Len(g.out_buf) # NPub /\ g'.pc = "raised" /\ WindowKept /\ OutputKept
        /\ g'.out_buf = g.out_buf /\ g'.tags = g.tags /\ g'.nread = g.nread
     \/ /\ Len(g.out_buf) = NPub /\ g'.out_buf = <<>> /\ g'.out = g.out \o g.out_buf
        /\ g'.events = Append(g.events, g.event_tag) /\ g'.out_offset = g.out_offset + NPub
        /\ \/ /\ g'.pc = "work" /\ WindowKept /\ g'.tags = g.tags /\ g'.nread = g.nread
              /\ g'.nout = g.nout + NPub
           \/ /\ g'.pc = "idle" /\ g'.read = g.read + g.nread /\ g'.nread = 0 /\ g'.nout = 0
              /\ g'.in_len = 0 /\ g'.out_len = 0 /\ g'.tags = <<>>

LEMMA ReturnFacts ==
  ASSUME NEW b \in GateRec, NEW n \in Int, b.read + n \in Nat
  PROVE  /\ Return(b, n) \in GateRec
         /\ Return(b, n).read = b.read + n /\ Return(b, n).pc = "idle"
         /\ Return(b, n).nread = 0 /\ Return(b, n).nout = 0 /\ Return(b, n).in_len = 0
         /\ Return(b, n).out_len = 0 /\ Return(b, n).tags = <<>>
         /\ Return(b, n).nout_total = b.nout_total /\ Return(b, n).out = b.out
         /\ Return(b, n).events = b.events /\ Return(b, n).out_offset = b.out_offset
         /\ Return(b, n).samp_period = b.samp_period /\ Return(b, n).rx_delay = b.rx_delay
         /\ Return(b, n).state = b.state /\ Return(b, n).n_since = b.n_since
         /\ Return(b, n).out_buf = b.out_buf /\ Return(b, n).passed = b.passed
         /\ Return(b, n).pubtimeout = b.pubtimeout /\ Return(b, n).event_tag = b.event_tag
<1>1. <<>> \in Seq(Tag)
  OBVIOUS
<1>2. PICK z \in Nat, y \in Int : z = 0 /\ y = 0
  OBVIOUS
<1> DEFINE r == Return(b, n)
<1>3. r = [b EXCEPT !.read = b.read + n, !.pc = "idle", !.nread = y, !.nout = z,
                    !.in_len = z, !.out_len = z, !.tags = <<>>]
  BY <1>2 DEF Return, Consumed
<1> HIDE DEF r
<1>4. r \in GateRec
  BY <1>1, <1>3 DEF GateRec
<1>5. /\ r.read = b.read + n /\ r.pc = "idle" /\ r.nread = y /\ r.nout = z /\ r.in_len = z
      /\ r.out_len = z /\ r.tags = <<>>
  BY <1>3 DEF GateRec
<1>6. /\ r.nout_total = b.nout_total /\ r.out = b.out
      /\ r.events = b.events /\ r.out_offset = b.out_offset
      /\ r.samp_period = b.samp_period /\ r.rx_delay = b.rx_delay
      /\ r.state = b.state /\ r.n_since = b.n_since
      /\ r.out_buf = b.out_buf /\ r.passed = b.passed
      /\ r.pubtimeout = b.pubtimeout /\ r.event_tag = b.event_tag
  BY <1>3 DEF GateRec
<1> QED
  BY <1>2, <1>4, <1>5, <1>6 DEF r

LEMMA FillFacts ==
  ASSUME g \in GateRec, Fill, Len(g.out_buf) <= g.out_len, Position(g) >= 0
  PROVE  FillStep
<1> DEFINE c == [g EXCEPT !.pc = "work", !.nout = @ + NPub, !.out = @ \o g.out_buf,
                          !.out_buf = <<>>, !.events = Append(@, g.event_tag),
                          !.out_offset = @ + NPub]
<1>1. /\ g.pc = "fill" /\ g' = FillOutBuf(g)
      /\ UNCHANGED <<stream, n_discard, sets, waited, thrown, overread, torn>>
      /\ rewound' = (rewound \/ Position(g)' < Position(g))
  BY DEF Fill, Advance, Position
<1>2. /\ NPub \in Nat /\ Len(g.out_buf) \in Nat /\ g.out_len \in Nat
      /\ g.read \in Nat /\ g.nread \in Int /\ g.nout \in Nat /\ g.out_offset \in Nat
      /\ g.event_tag \in Event /\ g.events \in Seq(Event)
      /\ g.out \in Seq(0 .. NIn - 1) /\ g.out_buf \in Seq(0 .. NIn - 1)
  BY SizesAssumption DEF GateRec
<1>3. g' = IF Len(g.out_buf) # NPub THEN [g EXCEPT !.pc = "raised"]
           ELSE IF c.nout + NPub > c.out_len THEN Return(c, c.nread) ELSE c
  BY <1>1, <1>2 DEF FillOutBuf
<1>4. /\ g.out \o g.out_buf \in Seq(0 .. NIn - 1) /\ Append(g.events, g.event_tag) \in Seq(Event)
      /\ <<>> \in Seq(0 .. NIn - 1) /\ g.nout + NPub \in Nat /\ g.out_offset + NPub \in Nat
  BY <1>2, ConcatProperties, AppendProperties
<1>5. /\ c \in GateRec /\ c.n_since = g.n_since
      /\ c.read = g.read /\ c.in_len = g.in_len /\ c.out_len = g.out_len
      /\ c.nout_total = g.nout_total
      /\ c.out = g.out \o g.out_buf /\ c.events = Append(g.events, g.event_tag)
      /\ c.out_offset = g.out_offset + NPub
      /\ c.nout = g.nout + NPub
      /\ c.samp_period = g.samp_period /\ c.rx_delay = g.rx_delay
      /\ c.state = g.state /\ c.out_buf = <<>>
      /\ c.passed = g.passed /\ c.tags = g.tags /\ c.pubtimeout = g.pubtimeout
      /\ c.nread = g.nread /\ c.pc = "work" /\ c.event_tag = g.event_tag
  BY <1>4 DEF GateRec
<1> HIDE DEF c
<1>6. CASE Len(g.out_buf) # NPub
  <2>1. g' = [g EXCEPT !.pc = "raised"]
    BY <1>3, <1>6
  <2>2. /\ g' \in GateRec /\ g'.pc = "raised" /\ WindowKept /\ OutputKept
        /\ g'.out_buf = g.out_buf /\ g'.tags = g.tags /\ g'.nread = g.nread
        /\ g'.samp_period = g.samp_period /\ g'.rx_delay = g.rx_delay /\ g'.passed = g.passed
        /\ g'.state = g.state /\ g'.n_since = g.n_since /\ g'.pubtimeout = g.pubtimeout
        /\ g'.event_tag = g.event_tag /\ g'.nout_total = g.nout_total
    BY <2>1 DEF GateRec, WindowKept, OutputKept
  <2>3. Len(g.out_buf) # NPub /\ g'.pc = "raised" /\ WindowKept /\ OutputKept
        /\ g'.out_buf = g.out_buf /\ g'.tags = g.tags /\ g'.nread = g.nread
    BY <1>6, <2>2
  <2>5. g.pc = "fill" /\ UNCHANGED <<stream, n_discard, sets, waited, thrown, overread, torn>>
        /\ rewound' = (rewound \/ Position(g)' < Position(g))
    BY <1>1
  <2>4. /\ g' \in GateRec
        /\ g'.samp_period = g.samp_period /\ g'.rx_delay = g.rx_delay /\ g'.passed = g.passed
        /\ g'.state = g.state /\ g'.n_since = g.n_since /\ g'.pubtimeout = g.pubtimeout
        /\ g'.event_tag = g.event_tag /\ g'.nout_total = g.nout_total
    BY <2>2
  <2> QED
    BY <2>3, <2>4, <2>5 DEF FillStep
<1>7. CASE Len(g.out_buf) = NPub /\ ~ (c.nout + NPub > c.out_len)
  <2>1. g' = c
    BY <1>3, <1>7
  <2> QED
    BY <1>1, <1>5, <1>7, <2>1 DEF FillStep, WindowKept
<1>8. CASE Len(g.out_buf) = NPub /\ c.nout + NPub > c.out_len
  <2>1. g' = Return(c, c.nread)
    BY <1>3, <1>8
  <2>2. c.nread \in Int /\ c.read + c.nread \in Nat
    BY <1>2, <1>5 DEF Position
  <2>3. /\ g' \in GateRec
        /\ g'.read = c.read + c.nread /\ g'.pc = "idle"
        /\ g'.nread = 0 /\ g'.nout = 0 /\ g'.in_len = 0
        /\ g'.out_len = 0 /\ g'.tags = <<>>
        /\ g'.nout_total = c.nout_total /\ g'.out = c.out
        /\ g'.events = c.events /\ g'.out_offset = c.out_offset
        /\ g'.samp_period = c.samp_period /\ g'.rx_delay = c.rx_delay
        /\ g'.state = c.state /\ g'.n_since = c.n_since
        /\ g'.out_buf = c.out_buf /\ g'.passed = c.passed
        /\ g'.pubtimeout = c.pubtimeout /\ g'.event_tag = c.event_tag
    BY <1>5, <2>1, <2>2, ReturnFacts
  <2> QED
    BY <1>1, <1>5, <1>8, <2>3 DEF FillStep
<1> QED
  BY <1>6, <1>7, <1>8

(* A block longer than the room of the call is handed out in pieces: one   *)
(* that a negative n_since has let grow.                                   *)
PieceStep ==
  /\ g.pc = "fill" /\ Len(g.out_buf) > g.out_len
  /\ UNCHANGED <<stream, n_discard, sets, waited, thrown, overread, torn>>
  /\ rewound' = (rewound \/ Position(g)' < Position(g))
  /\ g' \in GateRec /\ g'.state = "publish" /\ g'.n_since = g.n_since
  /\ g'.pc = "idle" /\ g'.read = g.read + g.nread /\ g'.nread = 0 /\ g'.nout = 0
  /\ g'.in_len = 0 /\ g'.out_len = 0 /\ g'.tags = <<>>

LEMMA PieceFacts ==
  ASSUME g \in GateRec, Fill, Len(g.out_buf) > g.out_len, Position(g) >= 0
  PROVE  PieceStep
<1> DEFINE c == [g EXCEPT !.out = @ \o SubSeq(g.out_buf, 1, g.out_len),
                          !.out_buf = SubSeq(@, g.out_len + 1, Len(@)),
                          !.state = "publish",
                          !.out_offset = @ + g.out_len]
<1>1. /\ g.pc = "fill" /\ g' = FillOutBuf(g)
      /\ UNCHANGED <<stream, n_discard, sets, waited, thrown, overread, torn>>
      /\ rewound' = (rewound \/ Position(g)' < Position(g))
  BY DEF Fill, Advance, Position
<1>2. /\ Len(g.out_buf) \in Nat /\ g.out_len \in Nat
      /\ g.read \in Nat /\ g.nread \in Int /\ g.out_offset \in Nat
      /\ g.out \in Seq(0 .. NIn - 1) /\ g.out_buf \in Seq(0 .. NIn - 1)
  BY DEF GateRec
<1>3. g' = Return(c, g.nread)
  BY <1>1 DEF FillOutBuf
<1>4. /\ SubSeq(g.out_buf, 1, g.out_len) \in Seq(0 .. NIn - 1)
      /\ SubSeq(g.out_buf, g.out_len + 1, Len(g.out_buf)) \in Seq(0 .. NIn - 1)
  <2>1. 1 \in Int /\ g.out_len + 1 \in Int /\ g.out_len \in Int /\ Len(g.out_buf) \in Int
    BY <1>2
  <2>2. \A i \in 1 .. Len(g.out_buf) : g.out_buf[i] \in 0 .. NIn - 1
    BY <1>2, ElementOfSeq
  <2>3. \A i \in 1 .. g.out_len : g.out_buf[i] \in 0 .. NIn - 1
    BY <1>2, <2>2
  <2>4. \A i \in g.out_len + 1 .. Len(g.out_buf) : g.out_buf[i] \in 0 .. NIn - 1
    BY <1>2, <2>2
  <2> QED
    BY <2>1, <2>3, <2>4, SubSeqProperties
<1>5. g.out \o SubSeq(g.out_buf, 1, g.out_len) \in Seq(0 .. NIn - 1) /\ g.out_offset + g.out_len \in Nat
  BY <1>2, <1>4, ConcatProperties
<1>6. /\ c \in GateRec /\ c.n_since = g.n_since /\ c.read = g.read /\ c.state = "publish"
  BY <1>4, <1>5 DEF GateRec
<1> HIDE DEF c
<1>7. g.nread \in Int /\ c.read + g.nread \in Nat
  BY <1>2, <1>6 DEF Position
<1>8. /\ g' \in GateRec /\ g'.read = c.read + g.nread /\ g'.pc = "idle"
      /\ g'.nread = 0 /\ g'.nout = 0 /\ g'.in_len = 0 /\ g'.out_len = 0 /\ g'.tags = <<>>
      /\ g'.state = c.state /\ g'.n_since = c.n_since
  BY <1>3, <1>6, <1>7, ReturnFacts
<1> QED
  BY <1>1, <1>6, <1>8 DEF PieceStep

(* The samples of the window are used up.                                  *)
EndStep ==
  /\ g.pc = "work" /\ g.nread >= g.in_len
  /\ UNCHANGED <<stream, n_discard, sets, waited, thrown, overread, rewound, torn>>
  /\ g' \in GateRec
  /\ g'.samp_period = g.samp_period /\ g'.rx_delay = g.rx_delay /\ g'.passed = g.passed
  /\ g'.state = g.state /\ g'.n_since = g.n_since /\ g'.pubtimeout = g.pubtimeout
  /\ g'.event_tag = g.event_tag /\ g'.nout_total = g.nout_total + g.nout
  /\ g'.out_buf = g.out_buf /\ g'.out = g.out /\ g'.events = g.events
  /\ g'.out_offset = g.out_offset
  /\ g'.pc = "idle" /\ g'.read = g.read + g.in_len /\ g'.nread = 0 /\ g'.nout = 0
  /\ g'.in_len = 0 /\ g'.out_len = 0 /\ g'.tags = <<>>

LEMMA EndFacts ==
  ASSUME g \in GateRec, EndOfWork
  PROVE  EndStep
<1> DEFINE c == [g EXCEPT !.nout_total = g.nout_total + g.nout]
<1>1. /\ g.in_len \in Nat /\ g.read \in Nat /\ g.nout \in Nat /\ g.nout_total \in Nat
      /\ g.nout_total + g.nout \in Nat
  <2>1. /\ g.in_len \in Nat /\ g.read \in Nat /\ g.nout \in Nat /\ g.nout_total \in Nat
    BY DEF GateRec
  <2> QED
    BY <2>1
<1>2. /\ c \in GateRec /\ c.n_since = g.n_since
      /\ c.read = g.read
      /\ c.nout_total = g.nout_total + g.nout
      /\ c.out = g.out /\ c.events = g.events /\ c.out_offset = g.out_offset
      /\ c.samp_period = g.samp_period /\ c.rx_delay = g.rx_delay
      /\ c.state = g.state /\ c.out_buf = g.out_buf
      /\ c.passed = g.passed /\ c.pubtimeout = g.pubtimeout
      /\ c.event_tag = g.event_tag
  BY <1>1 DEF GateRec
<1>3. g' = Return(c, g.in_len)
  <2>1. g' = Return([g EXCEPT !.nout_total = @ + g.nout], g.in_len)
    BY DEF EndOfWork
  <2>2. [g EXCEPT !.nout_total = @ + g.nout] = c
    BY DEF GateRec
  <2> QED
    BY <2>1, <2>2
<1> HIDE DEF c
<1>4. c.read + g.in_len \in Nat /\ g.in_len \in Int
  BY <1>1, <1>2
<1>5. /\ g.pc = "work" /\ g.nread >= g.in_len
      /\ UNCHANGED <<stream, n_discard, sets, waited, thrown, overread, rewound, torn>>
  BY DEF EndOfWork
<1> QED
  BY <1>2, <1>3, <1>4, <1>5, ReturnFacts DEF EndStep

(* A tag ends the block of a timeout.                                      *)
AbortStep ==
  /\ Looping /\ g.state = "publish" /\ TagEndsTimeout
  /\ g' \in GateRec /\ WindowKept /\ OutputKept
  /\ UNCHANGED <<stream, n_discard, sets, waited, thrown, overread, torn>>
  /\ rewound' = (rewound \/ Position(g)' < Position(g))
  /\ g'.samp_period = g.samp_period /\ g'.rx_delay = g.rx_delay /\ g'.passed = g.passed
  /\ g'.state = "wait" /\ g'.n_since = 0 /\ g'.out_buf = <<>> /\ g'.pc = "work"
  /\ g'.tags = g.tags /\ g'.pubtimeout = FALSE /\ g'.nread = next_tag
  /\ g'.event_tag = g.event_tag

LEMMA AbortFacts ==
  ASSUME g \in GateRec, Listed, AbortTimeout
  PROVE  AbortStep
<1>1. /\ g' = [g EXCEPT !.nread = next_tag, !.out_buf = <<>>, !.state = "wait",
                        !.pubtimeout = FALSE, !.n_since = 0]
      /\ UNCHANGED <<stream, n_discard, sets, waited, thrown, overread, torn>>
      /\ rewound' = (rewound \/ Position(g)' < Position(g))
      /\ Looping /\ g.state = "publish" /\ TagEndsTimeout
  BY DEF AbortTimeout, Advance, AbortedBuffer, Position
<1>2. next_tag \in Int /\ <<>> \in Seq(0 .. NIn - 1)
  BY NextTagFacts
<1>4. PICK z \in Int : z = 0
  OBVIOUS
<1>5. g' = [g EXCEPT !.nread = next_tag, !.out_buf = <<>>, !.state = "wait",
                     !.pubtimeout = FALSE, !.n_since = z]
  BY <1>1, <1>4
<1>3. /\ g' \in GateRec /\ WindowKept /\ OutputKept
      /\ g'.samp_period = g.samp_period /\ g'.rx_delay = g.rx_delay /\ g'.passed = g.passed
      /\ g'.state = "wait" /\ g'.n_since = 0 /\ g'.out_buf = <<>> /\ g'.pc = g.pc
      /\ g'.tags = g.tags /\ g'.pubtimeout = FALSE /\ g'.nread = next_tag
      /\ g'.event_tag = g.event_tag
  BY <1>2, <1>4, <1>5 DEF GateRec, WindowKept, OutputKept
<1> QED
  BY <1>1, <1>3 DEF AbortStep, Looping

(* The scheduler gives the block a window.                                 *)
CallStep ==
  /\ g.pc = "idle" /\ UNCHANGED <<stream, n_discard, sets, waited, thrown, overread, rewound, torn>>
  /\ g' \in GateRec /\ OutputKept
  /\ g'.samp_period = g.samp_period /\ g'.rx_delay = g.rx_delay /\ g'.passed = g.passed
  /\ g'.state = g.state /\ g'.n_since = g.n_since /\ g'.pubtimeout = g.pubtimeout
  /\ g'.event_tag = g.event_tag /\ g'.nout_total = g.nout_total
  /\ g'.out_buf = g.out_buf /\ g'.read = g.read /\ g'.nread = g.nread
  /\ g'.pc = "work" /\ g'.in_len \in 1 .. MaxWindow /\ g'.out_len \in OutLens
  /\ g'.read + g'.in_len <= NIn /\ g'.tags = TagsIn(g.read, g.read + g'.in_len)

LEMMA CallFacts ==
  ASSUME g \in GateRec, stream \in Streams, Call
  PROVE  CallStep
<1>1. PICK n \in 1 .. MaxWindow, m \in OutLens :
        /\ g.read + n <= NIn
        /\ g' = [g EXCEPT !.pc = "work", !.in_len = n, !.out_len = m,
                          !.tags = TagsIn(g.read, g.read + n)]
  BY DEF Call
<1>2. n \in Nat /\ m \in Nat /\ g.read \in Int /\ g.read + n \in Int
  BY SizesAssumption DEF GateRec
<1>3. TagsIn(g.read, g.read + n) \in Seq(Tag)
  BY <1>2, StreamFacts, TagsInFacts
<1>4. /\ g' \in GateRec /\ OutputKept
      /\ g'.samp_period = g.samp_period /\ g'.rx_delay = g.rx_delay /\ g'.passed = g.passed
      /\ g'.state = g.state /\ g'.n_since = g.n_since /\ g'.pubtimeout = g.pubtimeout
      /\ g'.event_tag = g.event_tag /\ g'.nout_total = g.nout_total
      /\ g'.out_buf = g.out_buf /\ g'.read = g.read /\ g'.nread = g.nread
      /\ g'.pc = "work" /\ g'.in_len = n /\ g'.out_len = m
      /\ g'.tags = TagsIn(g.read, g.read + n)
  BY <1>1, <1>2, <1>3 DEF GateRec, OutputKept
<1>5. g.pc = "idle" /\ UNCHANGED <<stream, n_discard, sets, waited, thrown, overread, rewound, torn>>
  BY DEF Call
<1> QED
  BY <1>1, <1>4, <1>5 DEF CallStep

(***************************************************************************)
(* The turns, and how far each moves the block.                            *)
(***************************************************************************)
FirstTag(key) == TagNext /\ g.tags # <<>> /\ g.tags[1].key = key

TuneStep    == FirstTag("tune") /\ StartStep("tune", next_tag, "discard", g.pubtimeout)
PubStep     == FirstTag("pub") /\ StartStep("pub", next_tag, "publish", g.pubtimeout)
TimeoutStep == /\ TimeoutNext /\ next_tag >= next_timeout + NPub
               /\ StartStep("timeout", next_timeout, "publish", TRUE)
RateStep    == /\ FirstTag("rate")
               /\ WaitStep(next_tag, g.n_since + (next_tag - g.nread), Tail(g.tags), RatePeriod)
ForeignStep == /\ FirstTag("foreign")
               /\ WaitStep(next_tag, g.n_since + next_tag, Tail(g.tags), g.samp_period)
NearStep    == /\ TimeoutNext /\ next_tag < next_timeout + NPub
               /\ WaitStep(next_tag, g.n_since, g.tags, g.samp_period)
WaitEndStep == /\ ~ TagNext /\ ~ TimeoutNext
               /\ WaitStep(g.in_len, g.n_since + (g.in_len - g.nread), g.tags, g.samp_period)

StartTurn == TuneStep \/ PubStep \/ TimeoutStep
WaitTurn  == RateStep \/ ForeignStep \/ NearStep \/ WaitEndStep
Turn == \/ CallStep \/ SetNDiscard \/ StartTurn \/ WaitTurn
        \/ DiscardStep \/ AbortStep \/ PublishStep \/ FillStep \/ EndStep

LEMMA Turns ==
  ASSUME FieldInv, Next
  PROVE  Turn \/ PieceStep
<1>1. /\ g \in GateRec /\ stream \in Streams /\ n_discard \in NDiscards
      /\ sets \in 0 .. MaxSets /\ torn \in BOOLEAN
      /\ Listed /\ Sorted(g.tags) /\ Position(g) >= 0 /\ g.read + g.in_len <= NIn
  BY DEF FieldInv, Listed
<1>2. CASE Call
  BY <1>1, <1>2, CallFacts DEF Turn
<1>3. CASE SetNDiscard
  BY <1>3 DEF Turn
<1>4. CASE TuneTag
  <2>1. FirstTag("tune")
    BY <1>1, <1>4, TagNextFacts DEF FirstTag, TuneTag
  <2> QED
    BY <1>1, <1>4, <2>1, TuneTagFacts DEF Turn, StartTurn, TuneStep
<1>5. CASE PubTag
  <2>1. FirstTag("pub")
    BY <1>1, <1>5, TagNextFacts DEF FirstTag, PubTag
  <2> QED
    BY <1>1, <1>5, <2>1, PubTagFacts DEF Turn, StartTurn, PubStep
<1>6. CASE RateTag
  <2>1. FirstTag("rate")
    BY <1>1, <1>6, TagNextFacts DEF FirstTag, RateTag
  <2> QED
    BY <1>1, <1>6, <2>1, RateTagFacts DEF Turn, WaitTurn, RateStep
<1>7. CASE ForeignTag
  <2>1. FirstTag("foreign")
    BY <1>1, <1>7, TagNextFacts DEF FirstTag, ForeignTag
  <2> QED
    BY <1>1, <1>7, <2>1, ForeignTagFacts DEF Turn, WaitTurn, ForeignStep
<1>8. CASE TimeoutNearTag
  <2>1. TimeoutNext /\ next_tag < next_timeout + NPub
    BY <1>8 DEF TimeoutNearTag
  <2> QED
    BY <1>1, <1>8, <2>1, TimeoutNearTagFacts DEF Turn, WaitTurn, NearStep
<1>9. CASE Timeout
  <2>1. TimeoutNext /\ next_tag >= next_timeout + NPub
    BY <1>9 DEF Timeout
  <2> QED
    BY <1>1, <1>9, <2>1, TimeoutFacts DEF Turn, StartTurn, TimeoutStep
<1>10. CASE EndOfBlock
  <2>1. ~ TagNext /\ ~ TimeoutNext
    BY <1>10 DEF EndOfBlock
  <2> QED
    BY <1>1, <1>10, <2>1, EndOfBlockFacts DEF Turn, WaitTurn, WaitEndStep
<1>11. CASE DiscardSamples
  BY <1>1, <1>11, DiscardFacts DEF Turn
<1>12. CASE AbortTimeout
  BY <1>1, <1>12, AbortFacts DEF Turn
<1>13. CASE PublishSamples
  BY <1>1, <1>13, PublishFacts DEF Turn
<1>14. CASE Fill
  <2>1. Len(g.out_buf) \in Nat /\ g.out_len \in Nat
    BY <1>1 DEF GateRec
  <2>2. CASE Len(g.out_buf) <= g.out_len
    BY <1>1, <1>14, <2>2, FillFacts DEF Turn
  <2>3. CASE Len(g.out_buf) > g.out_len
    BY <1>1, <1>14, <2>3, PieceFacts
  <2> QED
    BY <2>1, <2>2, <2>3
<1>15. CASE EndOfWork
  BY <1>1, <1>15, EndFacts DEF Turn
<1> QED
  BY <1>2, <1>3, <1>4, <1>5, <1>6, <1>7, <1>8, <1>9, <1>10, <1>11, <1>12, <1>13, <1>14, <1>15
     DEF Next, LoopTurn

(* A block that is no longer than it should be is handed out whole.        *)
LEMMA NoPiece ==
  ASSUME ShapeInv, RoomForBlock
  PROVE  ~ PieceStep
<1> SUFFICES ASSUME PieceStep
             PROVE  FALSE
  OBVIOUS
<1>1. g.pc = "fill" /\ Len(g.out_buf) > g.out_len
  BY DEF PieceStep
<1>2. Len(g.out_buf) <= NPub /\ g.out_len \in OutLens /\ g.out_len >= NPub
  BY <1>1 DEF ShapeInv, RoomForBlock
<1>3. Len(g.out_buf) \in Nat /\ g.out_len \in Nat /\ NPub \in Nat
  BY SizesAssumption DEF ShapeInv, GateRec
<1> QED
  BY <1>1, <1>2, <1>3

(* The numbers of the gate.                                                *)
LEMMA GateTypes ==
  ASSUME g \in GateRec
  PROVE  /\ g.read \in Nat /\ g.in_len \in Nat /\ g.out_len \in Nat /\ g.nread \in Int
         /\ g.n_since \in Int /\ g.nout \in Nat /\ g.nout_total \in Nat /\ g.out_offset \in Nat
         /\ g.tags \in Seq(Tag) /\ g.out_buf \in Seq(0 .. NIn - 1) /\ g.out \in Seq(0 .. NIn - 1)
         /\ Len(g.out_buf) \in Nat /\ Len(g.out) \in Nat /\ Len(g.tags) \in Nat
         /\ g.events \in Seq(Event) /\ Len(g.events) \in Nat /\ g.event_tag \in Event
         /\ g.samp_period \in {1, RatePeriod} /\ g.samp_period \in Int /\ g.rx_delay \in Int
         /\ g.pubtimeout \in BOOLEAN
         /\ g.state \in {"wait", "discard", "publish"}
         /\ g.pc \in {"idle", "work", "discard", "publish", "fill", "raised"}
         /\ NPub \in Nat /\ NPub > 0 /\ NTimeout \in Nat /\ NTimeout > 0 /\ NIn \in Nat
         /\ RatePeriod \in Nat /\ MaxWindow \in Nat
         /\ Position(g) \in Int /\ Position(g) = g.read + g.nread
<1>1. RatePeriod \in Nat
  BY SizesAssumption
<1>2. g.samp_period \in {1, RatePeriod}
  BY DEF GateRec
<1>3. g.samp_period \in Int
  BY <1>1, <1>2
<1>4. g.read \in Nat /\ g.nread \in Int
  BY DEF GateRec
<1> QED
  BY <1>1, <1>3, <1>4, SizesAssumption DEF GateRec, Position

(* The first listed tag, seen from the window.                             *)
LEMMA FirstTagFacts ==
  ASSUME g \in GateRec, Listed, g.tags # <<>>
  PROVE  /\ next_tag = g.tags[1].at - g.read /\ g.read + next_tag = g.tags[1].at
         /\ next_tag \in Nat /\ next_tag < g.in_len /\ (Ahead => next_tag >= g.nread)
         /\ g.tags[1] \in Tag /\ g.tags[1] \in ToSet(stream) /\ g.tags[1] \in ToSet(g.tags)
         /\ \A i \in DOMAIN g.tags : g.tags[i].at \in Int /\ g.read + next_tag <= g.tags[i].at
         /\ Tail(g.tags) \in Seq(Tag) /\ Sorted(Tail(g.tags))
         /\ \A i \in DOMAIN Tail(g.tags) : Tail(g.tags)[i] \in ToSet(g.tags)
<1>1. g.read \in Nat /\ g.tags \in Seq(Tag) /\ Sorted(g.tags)
  BY GateTypes DEF Listed
<1>2. /\ next_tag = g.tags[1].at - g.read /\ next_tag \in Int
      /\ g.tags[1] \in Tag /\ g.tags[1] \in ToSet(stream) /\ g.tags[1] \in ToSet(g.tags)
      /\ next_tag >= 0 /\ next_tag < g.in_len /\ (Ahead => next_tag >= g.nread)
  BY NextTagFacts
<1>3. g.tags[1].at \in Int
  BY <1>2, TagFields
<1>4. next_tag \in Nat /\ g.read + next_tag = g.tags[1].at
  BY <1>1, <1>2, <1>3
<1>5. \A i \in DOMAIN g.tags : g.tags[i].at \in Int /\ g.tags[1].at <= g.tags[i].at
  <2> SUFFICES ASSUME NEW i \in DOMAIN g.tags
               PROVE  g.tags[i].at \in Int /\ g.tags[1].at <= g.tags[i].at
    OBVIOUS
  <2>1. i \in 1 .. Len(g.tags) /\ 1 \in DOMAIN g.tags /\ 1 <= i /\ g.tags[i] \in Tag
    BY <1>1
  <2> QED
    BY <1>1, <2>1, TagFields DEF Sorted
<1>6. /\ Tail(g.tags) \in Seq(Tag) /\ Sorted(Tail(g.tags))
      /\ \A i \in DOMAIN Tail(g.tags) : Tail(g.tags)[i] \in ToSet(g.tags)
  BY <1>1, TailFacts DEF ToSet
<1> QED
  BY <1>2, <1>4, <1>5, <1>6

(* A turn that starts a block moves to a sample of the window, or its end, *)
(* past no listed tag; for a timeout it may move back.                     *)
StartMoves(key, n, next, flag) ==
  /\ StartStep(key, n, next, flag)
  /\ n <= g.in_len /\ g.read + n >= 0
  /\ \A i \in DOMAIN g.tags : g.read + n <= g.tags[i].at
  /\ next = "discard" <=> key = "tune"
  /\ key # "timeout" => /\ g.nread <= n /\ 0 <= n
                        /\ [at |-> g.read + n, key |-> key] \in ToSet(g.tags)
                        /\ flag = g.pubtimeout
  /\ key = "timeout" => /\ flag = TRUE /\ n = NTimeout - g.n_since + g.nread
                        /\ \A i \in DOMAIN g.tags : g.tags[i].at >= g.read + n + NPub

LEMMA StartMove ==
  ASSUME ShapeInv, TagInv, StartTurn
  PROVE  \E key \in Requests \union {"timeout"}, n \in Int, next \in {"discard", "publish"},
           flag \in BOOLEAN : StartMoves(key, n, next, flag)
<1>0. Ahead
  <2>1. g.pc = "work" /\ g.nread < g.in_len
    BY DEF StartTurn, TuneStep, PubStep, TimeoutStep, StartStep
  <2>2. g.nread \in Int /\ g.in_len \in Int
    BY DEF ShapeInv, GateRec
  <2> QED
    BY <2>1, <2>2 DEF TagInv
<1>1. g \in GateRec /\ Listed /\ Sorted(g.tags)
  BY DEF ShapeInv, TagInv, Listed
<1>2. /\ g.read \in Nat /\ g.in_len \in Nat /\ g.nread \in Int /\ g.n_since \in Nat
      /\ g.tags \in Seq(Tag) /\ NPub \in Nat /\ NTimeout \in Nat /\ g.pubtimeout \in BOOLEAN
      /\ Position(g) = g.read + g.nread
  BY <1>1, GateTypes DEF ShapeInv
<1>3. next_timeout \in Int /\ next_timeout = NTimeout - g.n_since + g.nread /\ next_tag \in Int
  BY <1>0, <1>1, NextTagFacts
<1>6. ASSUME NEW key \in Requests, FirstTag(key)
      PROVE  /\ next_tag <= g.in_len /\ g.read + next_tag >= 0 /\ next_tag \in Int
             /\ \A i \in DOMAIN g.tags : g.read + next_tag <= g.tags[i].at
             /\ g.nread <= next_tag /\ 0 <= next_tag
             /\ [at |-> g.read + next_tag, key |-> key] \in ToSet(g.tags)
  <2>1. g.tags # <<>> /\ g.tags[1].key = key
    BY <1>6 DEF FirstTag
  <2>2. /\ next_tag \in Nat /\ next_tag >= g.nread /\ next_tag < g.in_len
        /\ \A i \in DOMAIN g.tags : g.read + next_tag <= g.tags[i].at
        /\ g.read + next_tag = g.tags[1].at /\ g.tags[1] \in Tag /\ g.tags[1] \in ToSet(g.tags)
    BY <1>0, <1>1, <2>1, FirstTagFacts
  <2>3. g.tags[1] = [at |-> g.tags[1].at, key |-> g.tags[1].key]
    BY <2>2 DEF Tag
  <2>4. [at |-> g.read + next_tag, key |-> key] = g.tags[1]
    BY <2>1, <2>2, <2>3
  <2>5. next_tag <= g.in_len /\ g.read + next_tag >= 0 /\ 0 <= next_tag /\ next_tag \in Int
    BY <1>2, <2>2
  <2> QED
    BY <2>2, <2>4, <2>5
<1>10. "tune" \in Requests /\ "pub" \in Requests /\ "timeout" \notin Requests
  BY DEF Requests
<1>7. CASE TuneStep
  <2>1. FirstTag("tune") /\ StartStep("tune", next_tag, "discard", g.pubtimeout)
    BY <1>7 DEF TuneStep
  <2>2. StartMoves("tune", next_tag, "discard", g.pubtimeout) /\ next_tag \in Int
    BY <1>6, <1>10, <2>1 DEF StartMoves
  <2> QED
    BY <1>2, <1>10, <2>2
<1>8. CASE PubStep
  <2>1. FirstTag("pub") /\ StartStep("pub", next_tag, "publish", g.pubtimeout)
    BY <1>8 DEF PubStep
  <2>2. StartMoves("pub", next_tag, "publish", g.pubtimeout) /\ next_tag \in Int
    BY <1>6, <1>10, <2>1 DEF StartMoves
  <2> QED
    BY <1>2, <1>10, <2>2
<1>9. CASE TimeoutStep
  <2>1. /\ TimeoutNext /\ next_tag >= next_timeout + NPub
        /\ StartStep("timeout", next_timeout, "publish", TRUE)
    BY <1>9 DEF TimeoutStep
  <2>2. next_timeout <= g.in_len
    BY <2>1 DEF TimeoutNext
  <2>3. g.n_since <= NTimeout + (g.read + g.nread)
    BY <1>2, <2>1 DEF ShapeInv, StartStep, Walking
  <2>4. g.read + next_timeout >= 0
    BY <1>2, <1>3, <2>3
  <2>5. ASSUME NEW i \in DOMAIN g.tags
        PROVE  g.tags[i].at >= g.read + next_timeout + NPub /\ g.read + next_timeout <= g.tags[i].at
    <3>1. g.tags # <<>>
      OBVIOUS
    <3>2. g.tags[i].at \in Int /\ g.read + next_tag <= g.tags[i].at
      BY <1>1, <3>1, FirstTagFacts
    <3>3. next_tag >= next_timeout + NPub
      BY <2>1
    <3>4. g.read \in Nat /\ NPub \in Nat /\ next_tag \in Int /\ next_timeout \in Int
      BY <1>2, <1>3
    <3> QED
      BY <3>2, <3>3, <3>4
  <2>6. StartMoves("timeout", next_timeout, "publish", TRUE)
    BY <1>3, <2>1, <2>2, <2>4, <2>5 DEF StartMoves
  <2> QED
    BY <1>3, <2>6
<1> QED
  BY <1>7, <1>8, <1>9 DEF StartTurn

(* A turn that waits moves on, past no tag that stays listed.              *)
WaitMoves(n, since, tags, period) ==
  /\ WaitStep(n, since, tags, period)
  /\ g.nread <= n /\ n <= g.in_len /\ n >= 0
  /\ since <= NTimeout + (g.read + n)
  /\ ~ ForeignStep => since - g.n_since <= n - g.nread
  /\ tags = g.tags \/ (g.tags # <<>> /\ tags = Tail(g.tags) /\ FirstTag(g.tags[1].key)
                        /\ g.tags[1].key \notin Requests)
  /\ \A i \in DOMAIN g.tags : g.read + n <= g.tags[i].at
  /\ Sorted(tags) /\ \A i \in DOMAIN tags : tags[i] \in ToSet(g.tags)

LEMMA WaitMove ==
  ASSUME ShapeInv, TagInv, WaitTurn
  PROVE  \E n \in Int, since \in Nat, tags \in Seq(Tag), period \in {1, RatePeriod} :
           WaitMoves(n, since, tags, period)
<1>0. Ahead
  <2>1. g.pc = "work" /\ g.nread < g.in_len
    BY DEF WaitTurn, RateStep, ForeignStep, NearStep, WaitEndStep, WaitStep
  <2>2. g.nread \in Int /\ g.in_len \in Int
    BY DEF ShapeInv, GateRec
  <2> QED
    BY <2>1, <2>2 DEF TagInv
<1>1. g \in GateRec /\ Listed /\ Sorted(g.tags)
  BY DEF ShapeInv, TagInv, Listed
<1>2. /\ g.read \in Nat /\ g.in_len \in Nat /\ g.nread \in Int /\ g.n_since \in Nat
      /\ NPub \in Nat /\ NTimeout \in Nat
      /\ Position(g) = g.read + g.nread
  BY <1>1, GateTypes DEF ShapeInv
<1>3. g.tags \in Seq(Tag) /\ g.samp_period \in {1, RatePeriod}
  BY <1>1, GateTypes
<1>4. next_timeout \in Int /\ next_timeout = NTimeout - g.n_since + g.nread /\ next_tag \in Int
  BY <1>0, <1>1, NextTagFacts
<1>5. g.tags # <<>> => next_tag \in Nat /\ next_tag >= g.nread /\ next_tag < g.in_len
  BY <1>0, <1>1, FirstTagFacts
<1>6. g.tags # <<>> => /\ Tail(g.tags) \in Seq(Tag) /\ Sorted(Tail(g.tags))
                       /\ \A i \in DOMAIN Tail(g.tags) : Tail(g.tags)[i] \in ToSet(g.tags)
                       /\ \A i \in DOMAIN g.tags : g.read + next_tag <= g.tags[i].at
  BY <1>0, <1>1, FirstTagFacts
<1>7. \A i \in DOMAIN g.tags : g.tags[i] \in ToSet(g.tags)
  BY DEF ToSet
<1>8. g.state = "wait" /\ g.pc = "work" /\ g.nread < g.in_len
  BY DEF WaitTurn, RateStep, ForeignStep, NearStep, WaitEndStep, WaitStep
<1>9. ~ ("rate" \in Requests) /\ ~ ("foreign" \in Requests)
  BY DEF Requests
<1>10. CASE RateStep
  <2>1. FirstTag("rate") /\ WaitStep(next_tag, g.n_since + (next_tag - g.nread), Tail(g.tags), RatePeriod)
    BY <1>10 DEF RateStep
  <2>2. g.tags # <<>> /\ g.tags[1].key = "rate" /\ next_tag <= next_timeout
    BY <2>1 DEF FirstTag, TagNext
  <2>3. next_tag <= g.in_len /\ next_tag >= 0 /\ next_tag >= g.nread
    BY <1>2, <1>4, <1>5, <2>2
  <2> DEFINE w == g.n_since + (next_tag - g.nread)
  <2>4. w \in Nat
    BY <1>2, <1>4, <2>3
  <2>5. w <= NTimeout + (g.read + next_tag)
    BY <1>2, <1>4, <2>2, <2>3
  <2>6. w - g.n_since <= next_tag - g.nread
    BY <1>2, <1>4
  <2>7. WaitStep(next_tag, w, Tail(g.tags), RatePeriod)
    BY <2>1
  <2> HIDE DEF w
  <2>8. WaitMoves(next_tag, w, Tail(g.tags), RatePeriod)
    BY <1>6, <1>9, <2>1, <2>2, <2>3, <2>5, <2>6, <2>7 DEF WaitMoves
  <2> QED
    BY <1>4, <1>6, <2>2, <2>4, <2>8
<1>11. CASE ForeignStep
  <2>1. FirstTag("foreign") /\ WaitStep(next_tag, g.n_since + next_tag, Tail(g.tags), g.samp_period)
    BY <1>11 DEF ForeignStep
  <2>2. g.tags # <<>> /\ g.tags[1].key = "foreign" /\ next_tag <= next_timeout
    BY <2>1 DEF FirstTag, TagNext
  <2>3. /\ g.n_since + next_tag \in Nat
        /\ g.n_since + next_tag <= NTimeout + (g.read + next_tag)
        /\ next_tag <= g.in_len /\ next_tag >= 0
    BY <1>2, <1>4, <1>5, <2>2
  <2>4. WaitMoves(next_tag, g.n_since + next_tag, Tail(g.tags), g.samp_period)
    BY <1>5, <1>6, <1>9, <1>11, <2>1, <2>2, <2>3 DEF WaitMoves
  <2> QED
    BY <1>3, <1>4, <1>6, <2>2, <2>3, <2>4
<1>12. CASE NearStep
  <2>1. /\ TimeoutNext /\ next_tag < next_timeout + NPub
        /\ WaitStep(next_tag, g.n_since, g.tags, g.samp_period)
    BY <1>12 DEF NearStep
  <2>2. next_timeout <= g.in_len
    BY <2>1 DEF TimeoutNext
  <2>3. g.tags # <<>>
    <3>1. g.tags = <<>> => next_tag = g.in_len + NPub + 1
      BY <1>0, <1>1, NextTagFacts
    <3> QED
      BY <1>2, <1>4, <2>1, <2>2, <3>1
  <2>4. g.n_since <= NTimeout + (g.read + g.nread)
    BY <1>2, <1>8 DEF ShapeInv, Walking
  <2>5. /\ g.n_since <= NTimeout + (g.read + next_tag) /\ g.n_since - g.n_since <= next_tag - g.nread
        /\ next_tag <= g.in_len /\ next_tag >= 0
    BY <1>2, <1>4, <1>5, <2>3, <2>4
  <2>6. WaitMoves(next_tag, g.n_since, g.tags, g.samp_period)
    BY <1>1, <1>5, <1>6, <1>7, <2>1, <2>3, <2>5 DEF WaitMoves
  <2> QED
    BY <1>2, <1>3, <1>4, <2>6
<1>13. CASE WaitEndStep
  <2>1. /\ ~ TagNext /\ ~ TimeoutNext
        /\ WaitStep(g.in_len, g.n_since + (g.in_len - g.nread), g.tags, g.samp_period)
    BY <1>13 DEF WaitEndStep
  <2>2. next_timeout > g.in_len
    BY <1>2, <1>4, <2>1 DEF TimeoutNext
  <2>3. ~ (next_tag <= g.in_len)
    BY <1>2, <1>4, <2>1, <2>2 DEF TagNext
  <2>4. g.tags = <<>> /\ DOMAIN g.tags = {}
    BY <1>2, <1>4, <1>5, <2>3
  <2>5. g.in_len >= 0 /\ g.in_len \in Int /\ g.in_len <= g.in_len /\ g.nread <= g.in_len
    BY <1>2, <1>8
  <2> DEFINE w == g.n_since + (g.in_len - g.nread)
  <2>6. w \in Nat
    BY <1>2, <2>5
  <2>7. w <= NTimeout + (g.read + g.in_len)
    BY <1>2, <1>4, <2>2
  <2>8. w - g.n_since <= g.in_len - g.nread
    BY <1>2
  <2>9. WaitStep(g.in_len, w, g.tags, g.samp_period)
    BY <2>1
  <2> HIDE DEF w
  <2>10. WaitMoves(g.in_len, w, g.tags, g.samp_period)
    BY <1>1, <1>7, <2>4, <2>5, <2>7, <2>8, <2>9 DEF WaitMoves
  <2> QED
    BY <1>3, <2>5, <2>6, <2>10
<1> QED
  BY <1>10, <1>11, <1>12, <1>13 DEF WaitTurn

(* How far discard() and publish() move.                                   *)
LEMMA DiscardMove ==
  ASSUME ShapeInv, DiscardStep, ~ rewound'
  PROVE  /\ g.nread <= g.in_len /\ Here \in Nat /\ Here = g.in_len - g.nread
         /\ Since \in Nat /\ Since <= Position(g) /\ n_discard' \in Nat /\ Left \in Int
         /\ g'.nread \in Int /\ g.nread <= g'.nread /\ g'.nread <= g.in_len
         /\ Position(g)' = g.read + g'.nread
         /\ g.state # "publish" /\ (g.state = "wait" => g.pc = "discard")
         /\ g.pc \in {"work", "discard"} /\ g.out_buf = <<>>
<1>1. /\ g \in GateRec /\ n_discard \in NDiscards
  BY DEF ShapeInv
<1>2. /\ g.read \in Nat /\ g.in_len \in Nat /\ g.nread \in Int /\ g.n_since \in Nat
      /\ Position(g) = g.read + g.nread
  BY <1>1, GateTypes DEF ShapeInv
<1>3. Since \in Int /\ Here \in Int /\ Left \in Int
  BY <1>1, SinceFacts
<1>4. n_discard' \in Nat
  BY SizesAssumption DEF DiscardStep
<1>5. g.pc = "discard" \/ (Looping /\ g.state = "discard")
  BY DEF DiscardStep
<1>6. g.nread <= g.in_len
  BY <1>2, <1>5 DEF ShapeInv, Looping
<1>7. Here = g.in_len - g.nread
  BY DEF Here
<1>8. /\ g.state # "publish" /\ (g.state = "wait" => g.pc = "discard")
      /\ g.pc \in {"work", "discard"} /\ g.out_buf = <<>>
      /\ g.state = "wait" \/ g.n_since <= Position(g)
  BY <1>5 DEF ShapeInv, Looping, Walking
<1>9. Since \in Nat /\ Since <= Position(g)
  BY <1>2, <1>8 DEF Since, ShapeInv
<1>10. Position(g)' = g.read + g'.nread /\ g'.nread \in Int
  <2>1. g' \in GateRec /\ g'.read = g.read
    BY DEF DiscardStep, WindowKept
  <2> QED
    BY <2>1 DEF Position, GateRec
<1>11. Position(g)' \in Position(g) .. g.read + g.in_len
  BY DEF DiscardStep
<1>12. g.nread <= g'.nread /\ g'.nread <= g.in_len
  BY <1>2, <1>10, <1>11
<1>13. Here \in Nat
  BY <1>2, <1>6, <1>7
<1> QED
  BY <1>3, <1>4, <1>6, <1>7, <1>8, <1>9, <1>10, <1>12, <1>13

LEMMA SteadyMove ==
  ASSUME ShapeInv, SteadyDiscard
  PROVE  /\ g.nread <= g.in_len /\ Here \in Nat /\ Here = g.in_len - g.nread
         /\ Since \in Nat /\ n_discard \in Nat /\ Left \in Int
         /\ Left = IF n_discard - Since > Here THEN Here ELSE n_discard - Since
         /\ g.nread + Left <= g.in_len /\ (g.read + g.nread) + Left >= 0
         /\ Position(g)' = (g.read + g.nread) + Left
         /\ g.state # "publish" /\ (g.state = "wait" => g.pc = "discard")
         /\ g.pc \in {"work", "discard"} /\ g.out_buf = <<>>
<1>1. /\ g \in GateRec /\ n_discard \in NDiscards
  BY DEF ShapeInv
<1>2. /\ g.read \in Nat /\ g.in_len \in Nat /\ g.nread \in Int /\ g.n_since \in Nat
      /\ Position(g) = g.read + g.nread
  BY <1>1, GateTypes DEF ShapeInv
<1>3. /\ Since \in Nat /\ Here \in Int /\ n_discard - Since \in Int /\ Left \in Int
      /\ Left = IF n_discard - Since > Here THEN Here ELSE n_discard - Since
  BY <1>1, <1>2, SinceFacts DEF Since
<1>4. n_discard \in Nat
  BY <1>1, SizesAssumption
<1>5. g.pc = "discard" \/ (Looping /\ g.state = "discard")
  BY DEF SteadyDiscard
<1>6. g.nread <= g.in_len
  BY <1>2, <1>5 DEF ShapeInv, Looping
<1>7. Here = g.in_len - g.nread
  BY DEF Here
<1>8. /\ g.state # "publish" /\ (g.state = "wait" => g.pc = "discard")
      /\ g.pc \in {"work", "discard"} /\ g.out_buf = <<>>
      /\ g.state = "wait" \/ g.n_since <= Position(g)
  BY <1>5 DEF ShapeInv, Looping, Walking
<1>9. Since <= Position(g)
  BY <1>2, <1>8 DEF Since, ShapeInv
<1>10. g.nread + Left <= g.in_len /\ (g.read + g.nread) + Left >= 0
  BY <1>2, <1>3, <1>4, <1>6, <1>7, <1>9
<1>11. Position(g)' = g.read + (g.nread + Left)
  BY DEF Position, SteadyDiscard, WindowKept
<1>12. g.read + (g.nread + Left) = (g.read + g.nread) + Left
  BY <1>2, <1>3
<1>13. Here \in Nat
  BY <1>2, <1>6, <1>7
<1> QED
  BY <1>3, <1>4, <1>6, <1>7, <1>8, <1>10, <1>11, <1>12, <1>13

LEMMA PublishMove ==
  ASSUME ShapeInv, PublishStep
  PROVE  /\ g.nread <= g.in_len /\ Here \in Nat /\ Here = g.in_len - g.nread
         /\ Since \in Nat /\ Since < NPub /\ Len(g.out_buf) <= Since
         /\ g.nread <= g'.nread /\ g'.nread <= g.in_len /\ g'.nread \in Int
         /\ g'.nread <= g.nread + NPub
         /\ Position(g)' = g.read + g'.nread
         /\ (g.state = "wait" /\ g.pc = "publish" /\ Since = 0 /\ g.out_buf = <<>>)
            \/ (g.state = "publish" /\ g.pc = "work" /\ Since = g.n_since)
<1>1. g \in GateRec
  BY DEF ShapeInv
<1>2. /\ g.read \in Nat /\ g.in_len \in Nat /\ g.nread \in Int /\ g.n_since \in Nat
      /\ Position(g) = g.read + g.nread /\ NPub \in Nat /\ NPub > 0
  BY <1>1, GateTypes DEF ShapeInv
<1>3. \/ g.pc = "publish"
      \/ Looping /\ g.state = "publish" /\ ~ TagEndsTimeout
  BY DEF PublishStep
<1>4. g.nread <= g.in_len
  BY <1>2, <1>3 DEF ShapeInv, Looping
<1>5. (g.state = "wait" /\ g.pc = "publish" /\ g.out_buf = <<>>)
      \/ (g.state = "publish" /\ g.pc = "work")
  BY <1>3 DEF ShapeInv, Looping, Walking
<1>6. (g.state = "wait" /\ g.pc = "publish" /\ Since = 0 /\ g.out_buf = <<>>)
      \/ (g.state = "publish" /\ g.pc = "work" /\ Since = g.n_since)
  BY <1>5 DEF Since
<1>7. Since \in Nat /\ Since < NPub /\ Len(g.out_buf) <= Since
  <2>1. CASE g.state = "wait" /\ g.pc = "publish" /\ Since = 0 /\ g.out_buf = <<>>
    BY <1>2, <2>1
  <2>2. CASE g.state = "publish" /\ g.pc = "work" /\ Since = g.n_since
    BY <1>2, <2>2 DEF ShapeInv
  <2> QED
    BY <1>6, <2>1, <2>2
<1>8. Here \in Nat /\ Here = g.in_len - g.nread
  BY <1>2, <1>4 DEF Here
<1>9. \/ Since + Here < NPub /\ g'.nread = g.in_len
      \/ Since + Here >= NPub /\ g'.nread = g.nread + (NPub - Since)
  BY DEF PublishStep
<1>10. /\ g.nread <= g'.nread /\ g'.nread <= g.in_len /\ g'.nread \in Int
       /\ g'.nread <= g.nread + NPub
  BY <1>2, <1>4, <1>7, <1>8, <1>9
<1>11. Position(g)' = g.read + g'.nread
  BY DEF Position, PublishStep, WindowKept
<1> QED
  BY <1>4, <1>6, <1>7, <1>8, <1>10, <1>11

(***************************************************************************)
(* ShapeInv and TagInv.                                                    *)
(***************************************************************************)
LEMMA ShapeInit ==
  ASSUME Init
  PROVE  ShapeInv /\ TagInv
<1>1. g = InitialGate /\ stream \in Streams /\ n_discard \in NDiscards /\ sets = 0
      /\ waited = {} /\ thrown = {} /\ overread = {} /\ rewound = FALSE /\ torn = FALSE
  BY DEF Init
<1>2. PICK z \in Nat, y \in Int : z = 0 /\ y = 0
  OBVIOUS
<1>3. NoEvent \in Event
  BY DEF NoEvent, Event
<1>4. <<>> \in Seq(Tag) /\ <<>> \in Seq(Event) /\ <<>> \in Seq(0 .. NIn - 1)
  OBVIOUS
<1>5. g = [read |-> z,
           state |-> "wait", n_since |-> z, out_buf |-> <<>>, event_tag |-> NoEvent,
           out_offset |-> z, nout_total |-> z, pubtimeout |-> FALSE,
           samp_period |-> 1, rx_delay |-> y,
           pc |-> "idle", in_len |-> z, out_len |-> z, nread |-> y, nout |-> z, tags |-> <<>>,
           out |-> <<>>, events |-> <<>>, passed |-> {}]
  BY <1>1, <1>2 DEF InitialGate
<1>6. g \in GateRec
  BY <1>3, <1>4, <1>5 DEF GateRec
<1>7. /\ g.read = 0 /\ g.state = "wait" /\ g.n_since = 0 /\ g.out_buf = <<>> /\ g.pc = "idle"
      /\ g.in_len = 0 /\ g.out_len = 0 /\ g.nread = 0 /\ g.nout = 0 /\ g.tags = <<>>
  BY <1>1 DEF InitialGate
<1>8. Position(g) = 0
  BY <1>7 DEF Position
<1>9. ShapeInv
  <2>1. /\ sets \in 0 .. MaxSets /\ g.in_len <= MaxWindow /\ g.read + g.in_len <= NIn
        /\ ~ (g.nread > g.in_len) /\ g.n_since <= NTimeout + Position(g) /\ Position(g) >= 0
        /\ g.nread >= 0 /\ g.n_since \in Nat
    BY <1>1, <1>7, <1>8, SizesAssumption
  <2> QED
    BY <1>1, <1>2, <1>6, <1>7, <2>1 DEF ShapeInv, Walking
<1>10. TagInv
  <2>1. DOMAIN g.tags = {}
    BY <1>7
  <2> QED
    BY <2>1 DEF TagInv, Listed, Ahead, Sorted
<1> QED
  BY <1>9, <1>10

LEMMA ShapeStart ==
  ASSUME ShapeInv, TagInv, StartTurn, ~ rewound'
  PROVE  ShapeInv' /\ TagInv'
<1>1. PICK key \in Requests \union {"timeout"}, n \in Int, next \in {"discard", "publish"},
           flag \in BOOLEAN : StartMoves(key, n, next, flag)
  BY StartMove
<1>2. g \in GateRec
  BY DEF ShapeInv
<1>3. /\ g.read \in Nat /\ g.in_len \in Nat /\ g.nread \in Int /\ g.n_since \in Nat
      /\ Position(g) = g.read + g.nread /\ NIn \in Nat
  BY <1>2, GateTypes DEF ShapeInv
<1>4. /\ StartStep(key, n, next, flag) /\ n <= g.in_len /\ g.read + n >= 0
      /\ \A i \in DOMAIN g.tags : g.read + n <= g.tags[i].at
  BY <1>1 DEF StartMoves
<1>5. /\ g.pc = "work" /\ g.nread < g.in_len /\ g.state = "wait"
      /\ g' \in GateRec /\ g'.read = g.read /\ g'.in_len = g.in_len /\ g'.out_len = g.out_len
      /\ g'.state = "wait" /\ g'.n_since = g.n_since /\ g'.out_buf = g.out_buf
      /\ g'.tags = g.tags /\ g'.nread = n /\ g'.pc = next
  BY <1>4 DEF StartStep, WindowKept
<1>6. Position(g)' = g.read + n
  BY <1>5 DEF Position
<1>7. /\ UNCHANGED <<stream, n_discard, sets, thrown, overread, torn>>
      /\ waited' = waited \union (Position(g) .. Position(g)' - 1)
      /\ rewound' = (rewound \/ Position(g)' < Position(g))
  BY <1>4 DEF StartStep, HistoryKept
<1>8. stream' = stream /\ n_discard' = n_discard /\ sets' = sets /\ thrown' = thrown /\ torn' = torn
  BY <1>7
<1>9. waited' \subseteq 0 .. NIn - 1
  <2>1. waited \subseteq 0 .. NIn - 1 /\ Position(g) >= 0 /\ g.read + g.in_len <= NIn
    BY DEF ShapeInv
  <2>2. \A x \in Position(g) .. Position(g)' - 1 : x \in 0 .. NIn - 1
    BY <1>3, <1>4, <1>6, <2>1
  <2> QED
    BY <1>7, <2>1, <2>2
<1>10. rewound' \in BOOLEAN /\ torn' \in BOOLEAN
  BY <1>7, <1>8 DEF ShapeInv
<1>11. /\ stream \in Streams /\ n_discard \in NDiscards /\ sets \in 0 .. MaxSets
       /\ thrown \subseteq 0 .. NIn - 1
       /\ g.in_len <= MaxWindow /\ g.read + g.in_len <= NIn
       /\ g.in_len > 0 /\ g.out_len \in OutLens /\ g.out_buf = <<>>
  BY <1>5 DEF ShapeInv
<1>14. n >= 0 /\ g.n_since \in Nat
  <2>1. ~ (Position(g)' < Position(g)) /\ g.nread >= 0 /\ g.n_since \in Nat
    BY <1>7 DEF ShapeInv
  <2> QED
    BY <1>3, <1>6, <2>1
<1>12. ShapeInv'
  BY <1>4, <1>5, <1>6, <1>8, <1>9, <1>10, <1>11, <1>14 DEF ShapeInv, Walking
<1>13. TagInv'
  BY <1>4, <1>5, <1>6, <1>8 DEF TagInv, Listed, Ahead
<1> QED
  BY <1>12, <1>13

LEMMA ShapeWait ==
  ASSUME ShapeInv, TagInv, WaitTurn, ~ rewound'
  PROVE  ShapeInv' /\ TagInv'
<1>1. PICK n \in Int, since \in Nat, tags \in Seq(Tag), period \in {1, RatePeriod} :
           WaitMoves(n, since, tags, period)
  BY WaitMove
<1>2. g \in GateRec
  BY DEF ShapeInv
<1>3. /\ g.read \in Nat /\ g.in_len \in Nat /\ g.nread \in Int /\ g.n_since \in Nat
      /\ Position(g) = g.read + g.nread /\ NIn \in Nat
  BY <1>2, GateTypes DEF ShapeInv
<1>4. /\ WaitStep(n, since, tags, period) /\ g.nread <= n /\ n <= g.in_len /\ n >= 0
      /\ since <= NTimeout + (g.read + n)
      /\ \A i \in DOMAIN g.tags : g.read + n <= g.tags[i].at
      /\ Sorted(tags) /\ \A i \in DOMAIN tags : tags[i] \in ToSet(g.tags)
  BY <1>1 DEF WaitMoves
<1>5. /\ g.pc = "work" /\ g.nread < g.in_len /\ g.state = "wait"
      /\ g' \in GateRec /\ g'.read = g.read /\ g'.in_len = g.in_len /\ g'.out_len = g.out_len
      /\ g'.state = "wait" /\ g'.n_since = since /\ g'.out_buf = g.out_buf
      /\ g'.tags = tags /\ g'.nread = n /\ g'.pc = "work"
  BY <1>4 DEF WaitStep, WindowKept
<1>6. Position(g)' = g.read + n
  BY <1>5 DEF Position
<1>7. /\ UNCHANGED <<stream, n_discard, sets, thrown, overread, torn>>
      /\ waited' = waited \union (Position(g) .. Position(g)' - 1)
      /\ rewound' = (rewound \/ Position(g)' < Position(g))
  BY <1>4 DEF WaitStep, HistoryKept
<1>8. stream' = stream /\ n_discard' = n_discard /\ sets' = sets /\ thrown' = thrown /\ torn' = torn
  BY <1>7
<1>9. waited' \subseteq 0 .. NIn - 1
  <2>1. waited \subseteq 0 .. NIn - 1 /\ Position(g) >= 0 /\ g.read + g.in_len <= NIn
    BY DEF ShapeInv
  <2>2. \A x \in Position(g) .. Position(g)' - 1 : x \in 0 .. NIn - 1
    BY <1>3, <1>4, <1>6, <2>1
  <2> QED
    BY <1>7, <2>1, <2>2
<1>10. rewound' \in BOOLEAN /\ torn' \in BOOLEAN
  BY <1>7, <1>8 DEF ShapeInv
<1>11. /\ stream \in Streams /\ n_discard \in NDiscards /\ sets \in 0 .. MaxSets
       /\ thrown \subseteq 0 .. NIn - 1
       /\ g.in_len <= MaxWindow /\ g.read + g.in_len <= NIn
       /\ g.in_len > 0 /\ g.out_len \in OutLens /\ g.out_buf = <<>>
  BY <1>5 DEF ShapeInv
<1>12. g.read + n >= 0 /\ ~ (n > g.in_len)
  BY <1>3, <1>4
<1>13. ShapeInv'
  BY <1>4, <1>5, <1>6, <1>8, <1>9, <1>10, <1>11, <1>12 DEF ShapeInv, Walking
<1>14. \A i \in DOMAIN tags : \E j \in DOMAIN g.tags : tags[i] = g.tags[j]
  BY <1>4 DEF ToSet
<1>15. TagInv'
  BY <1>4, <1>5, <1>6, <1>8, <1>14 DEF TagInv, Listed, Ahead
<1> QED
  BY <1>13, <1>15

LEMMA ShapeDiscard ==
  ASSUME ShapeInv, TagInv, DiscardStep, ~ rewound'
  PROVE  ShapeInv' /\ TagInv'
<1>1. /\ g \in GateRec /\ n_discard \in NDiscards
  BY DEF ShapeInv
<1>2. /\ g.read \in Nat /\ g.in_len \in Nat /\ g.nread \in Int /\ g.n_since \in Nat
      /\ g.tags \in Seq(Tag) /\ Position(g) = g.read + g.nread /\ NIn \in Nat
      /\ NPub \in Nat /\ NPub > 0 /\ NTimeout \in Nat
  BY <1>1, GateTypes DEF ShapeInv
<1>3. /\ g.nread <= g.in_len /\ Here \in Nat /\ Here = g.in_len - g.nread
      /\ Since \in Nat /\ Since <= Position(g) /\ Left \in Int
      /\ g'.nread \in Int /\ g.nread <= g'.nread /\ g'.nread <= g.in_len
      /\ Position(g)' = g.read + g'.nread
      /\ g.pc \in {"work", "discard"} /\ g.out_buf = <<>> /\ g.state # "publish"
  BY DiscardMove
<1>4. Sorted(g.tags)
  BY DEF TagInv, Listed, Ahead
<1>5. /\ TagsLeft(g, Left) \in Seq(Tag) /\ Sorted(TagsLeft(g, Left))
      /\ \A t : t \in ToSet(TagsLeft(g, Left))
                  <=> t \in ToSet(g.tags) /\ Position(g) + Left <= t.at
  <2>1. g.tags \in Seq(Tag) /\ g.read \in Int /\ g.nread \in Int /\ Left \in Int
    BY <1>2, <1>3
  <2> QED
    BY <1>4, <2>1, TagsLeftFacts
<1>6. /\ g' \in GateRec /\ g'.read = g.read /\ g'.in_len = g.in_len /\ g'.out_len = g.out_len
      /\ g'.out_buf = g.out_buf /\ g'.tags = TagsLeft(g, Left)
      /\ thrown' = thrown \union (Position(g) .. Position(g)' - 1)
      /\ rewound' = (rewound \/ Position(g)' \notin Position(g) .. g.read + g.in_len)
  BY DEF DiscardStep, WindowKept
<1>7. /\ stream' = stream /\ n_discard' \in NDiscards /\ sets' \in 0 .. MaxSets
      /\ waited' = waited /\ torn' \in BOOLEAN
  BY DEF DiscardStep
<1>8. \/ /\ g'.nread = g.nread + Here /\ g'.n_since = Since + Here
         /\ g'.state = "discard" /\ g'.pc = "work"
      \/ /\ g'.n_since = 0 /\ g'.state = "wait" /\ g'.pc = "publish"
  BY DEF DiscardStep
<1>9. thrown' \subseteq 0 .. NIn - 1
  <2>1. thrown \subseteq 0 .. NIn - 1 /\ Position(g) >= 0 /\ g.read + g.in_len <= NIn
    BY DEF ShapeInv
  <2>2. \A x \in Position(g) .. Position(g)' - 1 : x \in 0 .. NIn - 1
    BY <1>2, <1>3, <2>1
  <2> QED
    BY <1>6, <2>1, <2>2
<1>10. rewound' \in BOOLEAN
  BY <1>6
<1>11. /\ stream \in Streams /\ n_discard \in NDiscards /\ sets \in 0 .. MaxSets
       /\ waited \subseteq 0 .. NIn - 1
       /\ g.in_len <= MaxWindow /\ g.read + g.in_len <= NIn
       /\ g.in_len > 0 /\ g.out_len \in OutLens
       /\ g.state # "wait" => g.n_since <= Position(g)
       /\ Position(g) >= 0
  <2>1. g.pc # "idle" /\ g.state \in {"wait", "discard"}
    BY <1>1, <1>3, GateTypes DEF ShapeInv
  <2> QED
    BY <2>1 DEF ShapeInv
<1>12. ASSUME g'.state = "discard"
       PROVE  g'.n_since <= Position(g)'
  <2>1. g'.nread = g.nread + Here /\ g'.n_since = Since + Here
    BY <1>8, <1>12
  <2> QED
    BY <1>2, <1>3, <2>1
<1>13. ~ (g'.nread > g'.in_len) /\ g'.nread <= g'.in_len
  BY <1>2, <1>3, <1>6
<1>14. Position(g)' >= 0 /\ g'.nread >= 0 /\ g'.n_since \in Nat
  <2>1. g.nread >= 0
    BY DEF ShapeInv
  <2> QED
    BY <1>2, <1>3, <1>8, <2>1
<1>15. ShapeInv'
  BY <1>3, <1>6, <1>7, <1>8, <1>9, <1>10, <1>11, <1>12, <1>13, <1>14 DEF ShapeInv, Walking
<1>16. Listed'
  <2> SUFFICES ASSUME NEW i \in DOMAIN g'.tags
               PROVE  /\ g'.tags[i] \in ToSet(stream)
                      /\ g.read <= g'.tags[i].at
                      /\ g'.tags[i].at < g.read + g.in_len
    BY <1>5, <1>6, <1>7 DEF Listed
  <2>1. g'.tags[i] \in ToSet(g'.tags)
    BY DEF ToSet
  <2>2. g'.tags[i] \in ToSet(g.tags)
    BY <1>5, <1>6, <2>1
  <2>3. PICK j \in DOMAIN g.tags : g'.tags[i] = g.tags[j]
    BY <2>2 DEF ToSet
  <2> QED
    BY <2>3 DEF TagInv, Listed
<1>17. ASSUME ~ torn'
       PROVE  Ahead'
  <2>1. g'.nread = g.nread + Left
    BY <1>17 DEF DiscardStep, SteadyDiscard
  <2> SUFFICES ASSUME NEW i \in DOMAIN g'.tags
               PROVE  Position(g)' <= g'.tags[i].at
    BY DEF Ahead
  <2>2. g'.tags[i] \in ToSet(g'.tags)
    BY DEF ToSet
  <2>3. Position(g) + Left <= g'.tags[i].at
    BY <1>5, <1>6, <2>2
  <2>4. Position(g)' = Position(g) + Left
    BY <1>2, <1>3, <2>1
  <2> QED
    BY <2>3, <2>4
<1>18. g'.pc = "publish" \/ g'.nread >= g'.in_len
  BY <1>2, <1>3, <1>6, <1>8
<1>19. TagInv'
  BY <1>16, <1>17, <1>18 DEF TagInv
<1> QED
  BY <1>15, <1>19

(* Where Python cuts.                                                      *)
LEMMA BoundFacts ==
  ASSUME NEW n \in Nat, NEW i \in Int, NEW j \in Int, i <= j
  PROVE  /\ Bound(i, n) \in 0 .. n /\ Bound(j, n) \in 0 .. n
         /\ Bound(j, n) - Bound(i, n) <= j - i
         /\ Bound(n, n) = n
         /\ i <= n => Bound(i, n) >= i
         /\ 0 <= i /\ i <= n => Bound(i, n) = i
         /\ 0 <= j /\ j <= n => Bound(j, n) = j
<1>1. Bound(i, n) = IF i < 0 THEN (IF i + n < 0 THEN 0 ELSE i + n) ELSE IF i < n THEN i ELSE n
  BY DEF Bound, Lesser
<1>2. Bound(j, n) = IF j < 0 THEN (IF j + n < 0 THEN 0 ELSE j + n) ELSE IF j < n THEN j ELSE n
  BY DEF Bound, Lesser
<1>3. Bound(n, n) = n
  BY DEF Bound, Lesser
<1> QED
  BY <1>1, <1>2, <1>3

(* Two pieces of a buffer.                                                 *)
LEMMA JoinLength ==
  ASSUME NEW s \in Seq(0 .. NIn - 1), NEW t \in Seq(0 .. NIn - 1)
  PROVE  Len(s \o t) = Len(s) + Len(t)
BY ConcatProperties

LEMMA ShapePublish ==
  ASSUME ShapeInv, TagInv, PublishStep
  PROVE  ShapeInv' /\ TagInv'
<1>1. /\ g \in GateRec /\ n_discard \in NDiscards /\ g.read + g.in_len <= NIn
  BY DEF ShapeInv
<1>2. /\ g.read \in Nat /\ g.in_len \in Nat /\ g.nread \in Int /\ g.n_since \in Nat
      /\ g.tags \in Seq(Tag) /\ Position(g) = g.read + g.nread /\ NIn \in Nat
      /\ NPub \in Nat /\ NPub > 0 /\ NTimeout \in Nat /\ NPub \in Int /\ g.in_len \in Int
      /\ g.read \in Int
      /\ g.out_buf \in Seq(0 .. NIn - 1) /\ Len(g.out_buf) \in Nat
  BY <1>1, GateTypes DEF ShapeInv
<1>3. /\ g.nread <= g.in_len /\ Here \in Nat /\ Here = g.in_len - g.nread
      /\ Since \in Nat /\ Since < NPub /\ Len(g.out_buf) <= Since
      /\ g.nread <= g'.nread /\ g'.nread <= g.in_len /\ g'.nread \in Int
      /\ g'.nread <= g.nread + NPub
      /\ Position(g)' = g.read + g'.nread
  BY PublishMove
<1>4. Sorted(g.tags)
  BY DEF TagInv, Listed, Ahead
<1>5. /\ TagsLeft(g, NPub) \in Seq(Tag) /\ Sorted(TagsLeft(g, NPub))
      /\ \A t : t \in ToSet(TagsLeft(g, NPub))
                  <=> t \in ToSet(g.tags) /\ Position(g) + NPub <= t.at
  BY <1>2, <1>4, TagsLeftFacts
<1>6. /\ g' \in GateRec /\ g'.read = g.read /\ g'.in_len = g.in_len /\ g'.out_len = g.out_len
      /\ g'.tags = TagsLeft(g, NPub)
      /\ rewound' = (rewound \/ Position(g)' < Position(g))
  BY DEF PublishStep, WindowKept
<1>7. stream' = stream /\ n_discard' = n_discard /\ sets' = sets /\ waited' = waited /\ thrown' = thrown
      /\ torn' = torn
  BY DEF PublishStep
<1>8. \/ /\ Since + Here < NPub
         /\ g'.n_since = Since + Here
         /\ g'.state = "publish" /\ g'.pc = "work"
         /\ g'.out_buf = g.out_buf \o Slice(g, g.nread, g.in_len)
      \/ /\ g'.n_since = 0
         /\ g'.state = "wait" /\ g'.pc = "fill"
         /\ g'.out_buf = g.out_buf \o Slice(g, g.nread, g.nread + NPub - Len(g.out_buf))
  BY DEF PublishStep
<1>9. /\ Slice(g, g.nread, g.in_len) \in Seq(0 .. NIn - 1)
      /\ Len(Slice(g, g.nread, g.in_len)) = IF Bound(g.in_len, g.in_len) > Bound(g.nread, g.in_len)
             THEN Bound(g.in_len, g.in_len) - Bound(g.nread, g.in_len) ELSE 0
  BY <1>1, <1>2, SliceFacts
<1>10. Len(Slice(g, g.nread, g.in_len)) <= Here /\ Len(Slice(g, g.nread, g.in_len)) \in Nat
  <2>1. /\ Bound(g.nread, g.in_len) \in 0 .. g.in_len /\ Bound(g.in_len, g.in_len) \in 0 .. g.in_len
        /\ Bound(g.in_len, g.in_len) - Bound(g.nread, g.in_len) <= g.in_len - g.nread
    BY <1>2, <1>3, BoundFacts
  <2> QED
    BY <1>2, <1>3, <1>9, <2>1
<1> DEFINE j == g.nread + NPub - Len(g.out_buf)
<1>11. j \in Int /\ j - g.nread = NPub - Len(g.out_buf) /\ g.nread <= j
  BY <1>2, <1>3
<1> HIDE DEF j
<1>12. /\ Slice(g, g.nread, j) \in Seq(0 .. NIn - 1)
       /\ Len(Slice(g, g.nread, j)) = IF Bound(j, g.in_len) > Bound(g.nread, g.in_len)
             THEN Bound(j, g.in_len) - Bound(g.nread, g.in_len) ELSE 0
  BY <1>1, <1>2, <1>11, SliceFacts
<1>13. Len(Slice(g, g.nread, j)) <= j - g.nread /\ Len(Slice(g, g.nread, j)) \in Nat
  <2>1. /\ Bound(g.nread, g.in_len) \in 0 .. g.in_len /\ Bound(j, g.in_len) \in 0 .. g.in_len
        /\ Bound(j, g.in_len) - Bound(g.nread, g.in_len) <= j - g.nread
    BY <1>2, <1>11, BoundFacts
  <2> QED
    BY <1>2, <1>11, <1>12, <2>1
<1>14. ASSUME g'.state = "publish"
       PROVE  g'.n_since < NPub /\ Len(g'.out_buf) <= g'.n_since
  <2>1. /\ Since + Here < NPub /\ g'.n_since = Since + Here
        /\ g'.out_buf = g.out_buf \o Slice(g, g.nread, g.in_len)
    BY <1>8, <1>14
  <2>2. Len(g'.out_buf) = Len(g.out_buf) + Len(Slice(g, g.nread, g.in_len))
    BY <1>2, <1>9, <2>1, JoinLength
  <2>3. g'.n_since = Since + Here /\ Since + Here < NPub
    BY <2>1
  <2> DEFINE m == Len(Slice(g, g.nread, g.in_len))
  <2>4. m <= Here /\ m \in Nat /\ Len(g'.out_buf) = Len(g.out_buf) + m
    BY <1>10, <2>2
  <2> HIDE DEF m
  <2> QED
    BY <1>2, <1>3, <2>3, <2>4
<1>15. ASSUME g'.pc = "fill"
       PROVE  g'.n_since = 0 /\ Len(g'.out_buf) <= NPub
  <2>1. g'.n_since = 0 /\ g'.out_buf = g.out_buf \o Slice(g, g.nread, j)
    BY <1>8, <1>15 DEF j
  <2>2. Len(g'.out_buf) = Len(g.out_buf) + Len(Slice(g, g.nread, j))
    BY <1>2, <1>12, <2>1, JoinLength
  <2> DEFINE m == Len(Slice(g, g.nread, j))
  <2>3. m <= NPub - Len(g.out_buf) /\ m \in Nat /\ Len(g'.out_buf) = Len(g.out_buf) + m
    BY <1>11, <1>13, <2>2
  <2> HIDE DEF m
  <2> QED
    BY <1>2, <2>1, <2>3
<1>16. /\ rewound' \in BOOLEAN /\ torn' \in BOOLEAN
       /\ g'.nread >= 0 /\ g'.n_since \in Nat
  <2>1. g.nread >= 0 /\ torn \in BOOLEAN
    BY DEF ShapeInv
  <2>2. g'.nread >= 0
    BY <1>2, <1>3, <2>1
  <2>4. g'.n_since = Since + Here \/ g'.n_since = 0
    BY <1>8
  <2>3. g'.n_since \in Nat
    BY <1>3, <2>4
  <2> QED
    BY <1>6, <1>7, <2>1, <2>2, <2>3
<1>17. /\ stream \in Streams /\ n_discard \in NDiscards /\ sets \in 0 .. MaxSets
       /\ waited \subseteq 0 .. NIn - 1 /\ thrown \subseteq 0 .. NIn - 1
       /\ g.in_len <= MaxWindow /\ g.read + g.in_len <= NIn
       /\ g.in_len > 0 /\ g.out_len \in OutLens
       /\ Position(g) >= 0
  BY <1>1 DEF ShapeInv, PublishStep, Looping
<1>18. /\ ~ (g'.nread > g'.in_len) /\ g'.nread <= g'.in_len /\ Position(g)' >= 0
       /\ Position(g)' <= Position(g) + NPub
  <2>1. g'.in_len = g.in_len /\ g'.nread <= g.in_len
    BY <1>3, <1>6
  <2>2. ~ (g'.nread > g'.in_len) /\ g'.nread <= g'.in_len
    BY <1>2, <1>3, <2>1
  <2>3. \A r, n, k, p \in Int : r + n >= 0 /\ n <= k /\ k <= n + p
                                => r + k >= 0 /\ r + k <= (r + n) + p
    OBVIOUS
  <2>4. g.read + g.nread >= 0 /\ g.nread <= g'.nread /\ g'.nread <= g.nread + NPub
    BY <1>2, <1>3, <1>17
  <2>5. g.read + g'.nread >= 0 /\ g.read + g'.nread <= (g.read + g.nread) + NPub
    BY <1>2, <1>3, <2>3, <2>4
  <2> QED
    BY <1>2, <1>3, <2>2, <2>5
<1>19. g'.pc \in {"work", "fill"} /\ (g'.pc = "work" => g'.state = "publish")
       /\ (g'.pc = "fill" => g'.state = "wait")
  BY <1>8
<1>20. ShapeInv'
  BY <1>6, <1>7, <1>14, <1>15, <1>16, <1>17, <1>18, <1>19 DEF ShapeInv, Walking
<1>21. TagInv'
  <2> SUFFICES ASSUME NEW i \in DOMAIN g'.tags
               PROVE  /\ g'.tags[i] \in ToSet(stream)
                      /\ Position(g)' <= g'.tags[i].at
                      /\ g.read <= g'.tags[i].at
                      /\ g'.tags[i].at < g.read + g.in_len
    BY <1>5, <1>6, <1>7 DEF TagInv, Listed, Ahead
  <2>1. g'.tags[i] \in ToSet(g'.tags)
    BY DEF ToSet
  <2>2. g'.tags[i] \in ToSet(g.tags) /\ Position(g) + NPub <= g'.tags[i].at
    BY <1>5, <1>6, <2>1
  <2>3. PICK k \in DOMAIN g.tags : g'.tags[i] = g.tags[k]
    BY <2>2 DEF ToSet
  <2>4. g.tags[k].at \in Int
    <3>1. g.tags[k] \in Tag
      BY <1>2
    <3> QED
      BY <3>1, TagFields
  <2>5. Position(g)' <= g'.tags[i].at
    BY <1>2, <1>3, <1>18, <2>2, <2>3, <2>4
  <2> QED
    BY <2>3, <2>5 DEF TagInv, Listed, Ahead
<1> QED
  BY <1>20, <1>21

LEMMA ShapeAbort ==
  ASSUME ShapeInv, TagInv, AbortStep
  PROVE  ShapeInv' /\ TagInv'
<1>1. /\ g \in GateRec
  BY DEF ShapeInv
<1>2. /\ g.read \in Nat /\ g.in_len \in Nat /\ g.nread \in Int /\ g.n_since \in Nat
      /\ g.tags \in Seq(Tag) /\ Position(g) = g.read + g.nread /\ NIn \in Nat
      /\ NPub \in Nat /\ NPub > 0 /\ NTimeout \in Nat
  BY <1>1, GateTypes DEF ShapeInv
<1>3. g.tags = <<>> => next_tag = g.in_len + NPub + 1
  BY <1>1, NextTagFacts DEF TagInv
<1>4. g.tags # <<>> => /\ next_tag \in Nat
                       /\ \A i \in DOMAIN g.tags : g.read + next_tag <= g.tags[i].at
  BY <1>1, FirstTagFacts DEF TagInv
<1>5. next_tag \in Nat
  BY <1>2, <1>3, <1>4
<1>6. \A i \in DOMAIN g.tags : g.read + next_tag <= g.tags[i].at
  <2>1. g.tags = <<>> => DOMAIN g.tags = {}
    OBVIOUS
  <2> QED
    BY <1>4, <2>1
<1>7. /\ g' \in GateRec /\ g'.read = g.read /\ g'.in_len = g.in_len /\ g'.out_len = g.out_len
      /\ g'.tags = g.tags /\ g'.nread = next_tag
      /\ g'.state = "wait" /\ g'.n_since = 0 /\ g'.out_buf = <<>> /\ g'.pc = "work"
      /\ rewound' = (rewound \/ Position(g)' < Position(g))
  BY DEF AbortStep, WindowKept
<1>8. /\ stream' = stream /\ n_discard' = n_discard /\ sets' = sets /\ waited' = waited
      /\ thrown' = thrown /\ torn' = torn
  BY DEF AbortStep
<1>9. Position(g)' = g.read + next_tag
  BY <1>7 DEF Position
<1>10. rewound' \in BOOLEAN /\ torn' \in BOOLEAN /\ next_tag >= 0 /\ 0 \in Nat
  BY <1>5, <1>7, <1>8 DEF ShapeInv
<1>11. /\ stream \in Streams /\ n_discard \in NDiscards /\ sets \in 0 .. MaxSets
       /\ waited \subseteq 0 .. NIn - 1 /\ thrown \subseteq 0 .. NIn - 1
       /\ g.in_len <= MaxWindow /\ g.read + g.in_len <= NIn
       /\ g.in_len > 0 /\ g.out_len \in OutLens
  BY DEF ShapeInv, AbortStep, Looping
<1>12. g.read + next_tag >= 0 /\ 0 <= NTimeout + (g.read + next_tag)
  BY <1>2, <1>5
<1>13. ShapeInv'
  BY <1>7, <1>8, <1>9, <1>10, <1>11, <1>12 DEF ShapeInv, Walking
<1>14. TagInv'
  BY <1>6, <1>7, <1>8, <1>9 DEF TagInv, Listed, Ahead
<1> QED
  BY <1>13, <1>14

LEMMA ShapeFill ==
  ASSUME ShapeInv, TagInv, FillStep
  PROVE  ShapeInv' /\ TagInv'
<1>1. /\ g \in GateRec /\ g.pc = "fill"
  BY DEF ShapeInv, FillStep
<1>2. /\ g.read \in Nat /\ g.in_len \in Nat /\ g.nread \in Int /\ g.n_since \in Nat
      /\ g.tags \in Seq(Tag) /\ Position(g) = g.read + g.nread /\ NIn \in Nat
      /\ NPub \in Nat /\ NPub > 0 /\ NTimeout \in Nat
  BY <1>1, GateTypes DEF ShapeInv
<1>3. /\ stream \in Streams /\ n_discard \in NDiscards /\ sets \in 0 .. MaxSets
      /\ waited \subseteq 0 .. NIn - 1 /\ thrown \subseteq 0 .. NIn - 1
      /\ g.in_len <= MaxWindow /\ g.read + g.in_len <= NIn
      /\ g.in_len > 0 /\ g.out_len \in OutLens /\ g.state = "wait" /\ g.n_since = 0
      /\ g.nread <= g.in_len /\ Position(g) >= 0 /\ Len(g.out_buf) <= NPub
      /\ g.nread >= 0 /\ torn \in BOOLEAN
  BY <1>1 DEF ShapeInv, Walking
<1>4. /\ stream' = stream /\ n_discard' = n_discard /\ sets' = sets /\ waited' = waited
      /\ thrown' = thrown /\ rewound' \in BOOLEAN /\ g' \in GateRec
      /\ g'.state = "wait" /\ g'.n_since = 0 /\ torn' = torn
  BY <1>3 DEF FillStep
<1>5. CASE g'.pc = "raised" /\ WindowKept /\ g'.out_buf = g.out_buf /\ g'.tags = g.tags /\ g'.nread = g.nread
  <2>1. Position(g)' = Position(g) /\ g'.in_len = g.in_len /\ g'.read = g.read /\ g'.out_len = g.out_len
    BY <1>5 DEF Position, WindowKept
  <2>2. ShapeInv'
    BY <1>3, <1>4, <1>5, <2>1 DEF ShapeInv, Walking
  <2>3. TagInv'
    BY <1>1, <1>4, <1>5, <2>1 DEF TagInv, Listed, Ahead
  <2> QED
    BY <2>2, <2>3
<1>6. CASE g'.pc = "work" /\ WindowKept /\ g'.out_buf = <<>> /\ g'.tags = g.tags /\ g'.nread = g.nread
  <2>1. Position(g)' = Position(g) /\ g'.in_len = g.in_len /\ g'.read = g.read /\ g'.out_len = g.out_len
    BY <1>6 DEF Position, WindowKept
  <2>2. ~ (g.nread > g.in_len) /\ 0 <= NTimeout + Position(g)
    BY <1>2, <1>3
  <2>3. ShapeInv'
    BY <1>3, <1>4, <1>6, <2>1, <2>2 DEF ShapeInv, Walking
  <2>4. TagInv'
    BY <1>1, <1>4, <1>6, <2>1 DEF TagInv, Listed, Ahead
  <2> QED
    BY <2>3, <2>4
<1>7. CASE /\ g'.pc = "idle" /\ g'.out_buf = <<>> /\ g'.read = g.read + g.nread /\ g'.nread = 0
           /\ g'.nout = 0 /\ g'.in_len = 0 /\ g'.out_len = 0 /\ g'.tags = <<>>
  <2>1. Position(g)' = Position(g) /\ g'.read = Position(g)
    BY <1>2, <1>7 DEF Position
  <2>2. /\ 0 <= MaxWindow /\ Position(g) + 0 <= NIn /\ 0 <= NTimeout + Position(g)
        /\ ~ (0 > 0)
    BY <1>2, <1>3, SizesAssumption
  <2>3. ShapeInv'
    BY <1>3, <1>4, <1>7, <2>1, <2>2 DEF ShapeInv, Walking
  <2>4. DOMAIN g'.tags = {}
    BY <1>7
  <2>5. TagInv'
    BY <2>4 DEF TagInv, Listed, Ahead, Sorted
  <2> QED
    BY <2>3, <2>5
<1> QED
  BY <1>5, <1>6, <1>7 DEF FillStep

LEMMA ShapeEnd ==
  ASSUME ShapeInv, TagInv, EndStep
  PROVE  ShapeInv' /\ TagInv'
<1>1. /\ g \in GateRec /\ g.pc = "work" /\ g.nread >= g.in_len
  BY DEF ShapeInv, EndStep
<1>2. /\ g.read \in Nat /\ g.in_len \in Nat /\ g.nread \in Int /\ g.n_since \in Nat
      /\ Position(g) = g.read + g.nread /\ NIn \in Nat
      /\ NPub \in Nat /\ NPub > 0 /\ NTimeout \in Nat /\ MaxWindow \in Nat
      /\ Len(g.out_buf) \in Nat
  BY <1>1, GateTypes DEF ShapeInv
<1>3. /\ stream \in Streams /\ n_discard \in NDiscards /\ sets \in 0 .. MaxSets
      /\ waited \subseteq 0 .. NIn - 1 /\ thrown \subseteq 0 .. NIn - 1
      /\ rewound \in BOOLEAN /\ torn \in BOOLEAN /\ g.n_since \in Nat
      /\ g.in_len <= MaxWindow /\ g.read + g.in_len <= NIn
      /\ g.in_len > 0 /\ g.out_len \in OutLens
      /\ g.nread > g.in_len => g.state = "wait" /\ g.n_since = 0
      /\ g.state # "publish" => g.out_buf = <<>>
      /\ g.state = "discard" => g.n_since <= Position(g)
      /\ g.state = "publish" => g.n_since < NPub /\ Len(g.out_buf) <= g.n_since
      /\ g.state = "wait" => g.n_since <= NTimeout + Position(g)
  BY <1>1 DEF ShapeInv, Walking
<1>4. /\ stream' = stream /\ n_discard' = n_discard /\ sets' = sets /\ waited' = waited
      /\ thrown' = thrown /\ rewound' = rewound /\ torn' = torn /\ g' \in GateRec
      /\ g'.state = g.state /\ g'.n_since = g.n_since /\ g'.out_buf = g.out_buf
      /\ g'.pc = "idle" /\ g'.read = g.read + g.in_len /\ g'.nread = 0 /\ g'.nout = 0
      /\ g'.in_len = 0 /\ g'.out_len = 0 /\ g'.tags = <<>>
  BY DEF EndStep
<1>5. Position(g)' = g.read + g.in_len
  BY <1>2, <1>4 DEF Position
<1>6. g.nread = g.in_len \/ (g.state = "wait" /\ g.n_since = 0)
  BY <1>1, <1>2, <1>3
<1>7. /\ g.state = "discard" => g.n_since <= Position(g)'
      /\ g.state = "wait" => g.n_since <= NTimeout + Position(g)'
  <2>1. CASE g.nread = g.in_len
    BY <1>2, <1>3, <1>5, <2>1
  <2>2. CASE g.state = "wait" /\ g.n_since = 0
    BY <1>2, <1>5, <2>2
  <2> QED
    BY <1>6, <2>1, <2>2
<1>8. /\ 0 <= MaxWindow /\ (g.read + g.in_len) + 0 <= NIn /\ Position(g)' >= 0 /\ ~ (0 > 0)
  BY <1>2, <1>3, <1>5
<1>9. ShapeInv'
  BY <1>3, <1>4, <1>7, <1>8 DEF ShapeInv, Walking
<1>10. DOMAIN g'.tags = {}
  BY <1>4
<1>11. TagInv'
  BY <1>10 DEF TagInv, Listed, Ahead, Sorted
<1> QED
  BY <1>9, <1>11

LEMMA ShapeCall ==
  ASSUME ShapeInv, TagInv, CallStep
  PROVE  /\ ShapeInv' /\ TagInv' /\ Position(g)' = Position(g) /\ g.nread = 0
         /\ \A t : t \in ToSet(g'.tags)
                     <=> t \in ToSet(stream) /\ Position(g) <= t.at /\ t.at < g'.read + g'.in_len
<1>1. /\ g \in GateRec /\ g.pc = "idle"
  BY DEF ShapeInv, CallStep
<1>2. /\ g.read \in Nat /\ g.nread \in Int /\ g.n_since \in Nat
      /\ Position(g) = g.read + g.nread /\ NIn \in Nat /\ MaxWindow \in Nat
  BY <1>1, GateTypes DEF ShapeInv
<1>3. /\ stream \in Streams /\ n_discard \in NDiscards /\ sets \in 0 .. MaxSets
      /\ waited \subseteq 0 .. NIn - 1 /\ thrown \subseteq 0 .. NIn - 1
      /\ rewound \in BOOLEAN /\ torn \in BOOLEAN /\ g.n_since \in Nat
      /\ g.nread = 0 /\ Position(g) >= 0
      /\ g.state # "publish" => g.out_buf = <<>>
      /\ g.state = "discard" => g.n_since <= Position(g)
      /\ g.state = "publish" => g.n_since < NPub /\ Len(g.out_buf) <= g.n_since
      /\ g.state = "wait" => g.n_since <= NTimeout + Position(g)
  BY <1>1 DEF ShapeInv, Walking
<1>4. /\ stream' = stream /\ n_discard' = n_discard /\ sets' = sets /\ waited' = waited
      /\ thrown' = thrown /\ rewound' = rewound /\ torn' = torn /\ g' \in GateRec
      /\ g'.state = g.state /\ g'.n_since = g.n_since /\ g'.out_buf = g.out_buf
      /\ g'.read = g.read /\ g'.nread = g.nread
      /\ g'.pc = "work" /\ g'.in_len \in 1 .. MaxWindow /\ g'.out_len \in OutLens
      /\ g'.read + g'.in_len <= NIn /\ g'.tags = TagsIn(g.read, g.read + g'.in_len)
  BY DEF CallStep
<1>5. Position(g)' = Position(g) /\ Position(g) = g.read
  BY <1>2, <1>3, <1>4 DEF Position
<1>6. g'.in_len > 0 /\ g'.in_len <= MaxWindow /\ ~ (0 > g'.in_len) /\ g.read + g'.in_len \in Int
      /\ g.read \in Int
  BY <1>2, <1>4
<1>7. ShapeInv'
  BY <1>3, <1>4, <1>5, <1>6 DEF ShapeInv, Walking
<1>8. /\ Sorted(g'.tags)
      /\ \A t : t \in ToSet(g'.tags)
                  <=> t \in ToSet(stream) /\ g.read <= t.at /\ t.at < g.read + g'.in_len
  BY <1>3, <1>4, <1>6, StreamFacts, TagsInFacts
<1>9. TagInv'
  <2> SUFFICES ASSUME NEW i \in DOMAIN g'.tags
               PROVE  /\ g'.tags[i] \in ToSet(stream)
                      /\ Position(g) <= g'.tags[i].at
                      /\ g.read <= g'.tags[i].at
                      /\ g'.tags[i].at < g.read + g'.in_len
    BY <1>4, <1>5, <1>8 DEF TagInv, Listed, Ahead
  <2>1. g'.tags[i] \in ToSet(g'.tags)
    BY DEF ToSet
  <2> QED
    BY <1>5, <1>8, <2>1
<1> QED
  BY <1>3, <1>4, <1>5, <1>7, <1>8, <1>9

LEMMA ShapeSet ==
  ASSUME ShapeInv, TagInv, SetNDiscard
  PROVE  ShapeInv' /\ TagInv'
<1>1. /\ stream' = stream /\ g' = g /\ waited' = waited /\ thrown' = thrown /\ rewound' = rewound
      /\ torn' = torn
      /\ n_discard' \in NDiscards /\ sets' = sets + 1 /\ sets < MaxSets
  BY DEF SetNDiscard
<1>2. sets' \in 0 .. MaxSets
  BY <1>1, SizesAssumption DEF ShapeInv
<1>3. Position(g)' = Position(g)
  BY <1>1 DEF Position
<1> QED
  BY <1>1, <1>2, <1>3 DEF ShapeInv, TagInv, Listed, Ahead, Walking

LEMMA ShapeStep ==
  ASSUME ShapeInv, TagInv, Turn, ~ rewound'
  PROVE  ShapeInv' /\ TagInv'
BY ShapeCall, ShapeSet, ShapeStart, ShapeWait, ShapeDiscard, ShapeAbort, ShapePublish, ShapeFill,
   ShapeEnd DEF Turn

(***************************************************************************)
(* RequestInv.                                                             *)
(***************************************************************************)
LEMMA StreamTags ==
  ASSUME ShapeInv
  PROVE  \A t \in ToSet(stream) : t \in Tag /\ t.at \in Int /\ t.at < NIn
BY StreamFacts, TagFields DEF ShapeInv

LEMMA ListedTags ==
  ASSUME ShapeInv, TagInv, ~ torn
  PROVE  \A t \in ToSet(g.tags) : /\ t \in ToSet(stream) /\ t \in Tag /\ t.at \in Int
                                  /\ Position(g) <= t.at /\ g.read <= t.at
                                  /\ t.at < g.read + g.in_len
BY StreamTags DEF TagInv, Listed, Ahead, ToSet

(* The property, said of the tags rather than of their places.             *)
Heard == \A t \in ToSet(stream) : t.key \in Requests /\ t.at \in waited => t \in overread

LEMMA HeardFacts ==
  ASSUME ~ rewound, ~ torn
  PROVE  RequestHeard <=> Heard
BY DEF RequestHeard, Heard, ToSet

(* What is overlooked stays so while the block moves on in its window.     *)
LEMMA RequestCarried ==
  ASSUME ShapeInv, TagInv, ~ torn, ~ torn', RequestInv, g' \in GateRec,
         stream' = stream, g'.read = g.read, g'.in_len = g.in_len,
         \A t \in overread : t \in overread',
         Position(g)' >= Position(g),
         \/ Position(g)' - g'.n_since >= Position(g) - g.n_since
         \/ \E u \in ToSet(g.tags) : u.at <= Position(g)',
         \A u \in ToSet(g'.tags) : u \in ToSet(g.tags),
         \A t \in ToSet(g.tags) :
           t.key \in Requests /\ Position(g)' <= t.at =>
             \/ t \in ToSet(g'.tags)
             \/ /\ t \in overread' /\ t.at < Position(g)' - g'.n_since + NPub - 1
                /\ \A u \in ToSet(g'.tags) : t.at < u.at
  PROVE  \A t \in ToSet(stream') : Overlooked(t)' =>
           /\ t \in overread' /\ t.at < Position(g)' - g'.n_since + NPub - 1
           /\ \A u \in ToSet(g'.tags) : t.at < u.at
<1> SUFFICES ASSUME NEW t \in ToSet(stream), Overlooked(t)'
             PROVE  /\ t \in overread' /\ t.at < Position(g)' - g'.n_since + NPub - 1
                    /\ \A u \in ToSet(g'.tags) : t.at < u.at
  OBVIOUS
<1>1. /\ t.key \in Requests /\ t \notin ToSet(g'.tags)
      /\ Position(g)' <= t.at /\ t.at < g.read + g.in_len
  BY DEF Overlooked
<1>2. /\ g.n_since \in Nat /\ Position(g) \in Int /\ NPub \in Nat
      /\ g'.n_since \in Int /\ Position(g)' \in Int
  <2>1. g \in GateRec
    BY DEF ShapeInv
  <2>2. g.n_since \in Nat /\ Position(g) \in Int /\ NPub \in Nat
    BY <2>1, GateTypes DEF ShapeInv
  <2>3. g'.n_since \in Int /\ g'.read \in Nat /\ g'.nread \in Int
    BY DEF GateRec
  <2> QED
    BY <2>2, <2>3 DEF Position
<1>3. t.at \in Int
  BY StreamTags
<1>4. CASE t \in ToSet(g.tags)
  BY <1>1, <1>4
<1>5. CASE t \notin ToSet(g.tags)
  <2>1. Overlooked(t)
    BY <1>1, <1>2, <1>3, <1>5 DEF Overlooked
  <2>2. /\ t \in overread /\ t.at < Position(g) - g.n_since + NPub - 1
        /\ \A u \in ToSet(g.tags) : t.at < u.at
    BY <2>1 DEF RequestInv
  <2>3. ~ \E u \in ToSet(g.tags) : u.at <= Position(g)'
    <3>1. \A u \in ToSet(g.tags) : u.at \in Int
      BY ListedTags
    <3> QED
      BY <1>1, <1>2, <1>3, <2>2, <3>1
  <2>4. t.at < Position(g)' - g'.n_since + NPub - 1
    BY <1>2, <1>3, <2>2, <2>3
  <2> QED
    BY <2>2, <2>4
<1> QED
  BY <1>4, <1>5

(* Samples waited for hold no request but those overlooked.                *)
LEMMA HeardOn ==
  ASSUME ShapeInv, TagInv, ~ torn, ~ torn', RequestInv, ~ rewound, ~ rewound',
         g' \in GateRec, stream' = stream, overread' = overread,
         waited' = waited \union (Position(g) .. Position(g)' - 1),
         Position(g)' <= g.read + g.in_len,
         \A i \in DOMAIN g.tags : Position(g)' <= g.tags[i].at
  PROVE  RequestHeard'
<1>1. Heard
  BY HeardFacts DEF RequestInv
<1>2. ASSUME NEW t \in ToSet(stream), t.key \in Requests, t.at \in waited'
      PROVE  t \in overread
  <2>1. CASE t.at \in waited
    BY <1>1, <1>2, <2>1 DEF Heard
  <2>2. CASE t.at \in Position(g) .. Position(g)' - 1
    <3>1. /\ g.read \in Nat /\ g.in_len \in Nat /\ Position(g) \in Int /\ Position(g)' \in Int
      <4>1. g \in GateRec
        BY DEF ShapeInv
      <4>2. g'.read \in Nat /\ g'.nread \in Int
        BY DEF GateRec
      <4>3. Position(g)' \in Int
        BY <4>2 DEF Position
      <4> QED
        BY <4>1, <4>3, GateTypes
    <3>2. t \notin ToSet(g.tags)
      BY <2>2, <3>1 DEF ToSet
    <3>3. Position(g) <= t.at /\ t.at < g.read + g.in_len
      BY <2>2, <3>1
    <3> QED
      BY <1>2, <3>2, <3>3 DEF RequestInv, Overlooked
  <2> QED
    BY <1>2, <2>1, <2>2
<1>3. Heard'
  BY <1>2 DEF Heard
<1>4. RequestHeard' <=> Heard'
  BY DEF RequestHeard, Heard, ToSet
<1> QED
  BY <1>3, <1>4

LEMMA HeardKept ==
  ASSUME RequestInv, ~ rewound, ~ torn, stream' = stream, waited' = waited,
         \A t \in overread : t \in overread'
  PROVE  RequestHeard'
BY DEF RequestInv, RequestHeard

LEMMA RequestStart ==
  ASSUME ShapeInv, TagInv, ~ torn, ~ torn', RequestInv, StartTurn, ~ rewound'
  PROVE  RequestInv'
<1>1. PICK key \in Requests \union {"timeout"}, n \in Int, next \in {"discard", "publish"},
           flag \in BOOLEAN : StartMoves(key, n, next, flag)
  BY StartMove
<1>2. g \in GateRec
  BY DEF ShapeInv
<1>3. /\ g.read \in Nat /\ g.in_len \in Nat /\ g.nread \in Int /\ g.n_since \in Nat
      /\ Position(g) = g.read + g.nread
  BY <1>2, GateTypes DEF ShapeInv
<1>4. /\ StartStep(key, n, next, flag) /\ n <= g.in_len
      /\ \A i \in DOMAIN g.tags : g.read + n <= g.tags[i].at
  BY <1>1 DEF StartMoves
<1>5. /\ g' \in GateRec /\ g'.read = g.read /\ g'.in_len = g.in_len
      /\ g'.n_since = g.n_since /\ g'.tags = g.tags /\ g'.nread = n
      /\ rewound' = (rewound \/ Position(g)' < Position(g))
      /\ waited' = waited \union (Position(g) .. Position(g)' - 1)
      /\ stream' = stream /\ overread' = overread
  BY <1>4 DEF StartStep, WindowKept, HistoryKept
<1>6. Position(g)' = g.read + n
  BY <1>5 DEF Position
<1>7. ~ rewound /\ n >= g.nread
  <2>1. ~ rewound /\ ~ (Position(g)' < Position(g))
    BY <1>5
  <2> QED
    BY <1>3, <1>6, <2>1
<1>8. Position(g)' >= Position(g) /\ Position(g)' <= g.read + g.in_len
      /\ Position(g)' - g'.n_since >= Position(g) - g.n_since
  BY <1>3, <1>4, <1>5, <1>6, <1>7
<1>9. \A t \in ToSet(stream') : Overlooked(t)' =>
           /\ t \in overread' /\ t.at < Position(g)' - g'.n_since + NPub - 1
           /\ \A u \in ToSet(g'.tags) : t.at < u.at
  BY <1>5, <1>8, RequestCarried
<1>10. RequestHeard'
  BY <1>4, <1>5, <1>6, <1>7, <1>8, HeardOn
<1> QED
  BY <1>5, <1>8, <1>9, <1>10 DEF RequestInv

LEMMA RequestWait ==
  ASSUME ShapeInv, TagInv, ~ torn, ~ torn', RequestInv, WaitTurn, ~ rewound'
  PROVE  RequestInv'
<1>1. PICK n \in Int, since \in Nat, tags \in Seq(Tag), period \in {1, RatePeriod} :
           WaitMoves(n, since, tags, period)
  BY WaitMove
<1>2. g \in GateRec
  BY DEF ShapeInv
<1>3. /\ g.read \in Nat /\ g.in_len \in Nat /\ g.nread \in Int /\ g.n_since \in Nat
      /\ Position(g) = g.read + g.nread
  BY <1>2, GateTypes DEF ShapeInv
<1>4. /\ WaitStep(n, since, tags, period) /\ g.nread <= n /\ n <= g.in_len /\ n >= 0
      /\ ~ ForeignStep => since - g.n_since <= n - g.nread
      /\ tags = g.tags \/ (g.tags # <<>> /\ tags = Tail(g.tags) /\ FirstTag(g.tags[1].key)
                            /\ g.tags[1].key \notin Requests)
      /\ \A i \in DOMAIN g.tags : g.read + n <= g.tags[i].at
      /\ \A i \in DOMAIN tags : tags[i] \in ToSet(g.tags)
  BY <1>1 DEF WaitMoves
<1>5. /\ g' \in GateRec /\ g'.read = g.read /\ g'.in_len = g.in_len
      /\ g'.n_since = since /\ g'.tags = tags /\ g'.nread = n
      /\ rewound' = (rewound \/ Position(g)' < Position(g))
      /\ waited' = waited \union (Position(g) .. Position(g)' - 1)
      /\ stream' = stream /\ overread' = overread
  BY <1>4 DEF WaitStep, WindowKept, HistoryKept
<1>6. Position(g)' = g.read + n
  BY <1>5 DEF Position
<1>7. Position(g)' >= Position(g) /\ Position(g)' <= g.read + g.in_len /\ ~ rewound
  <2>1. ~ rewound
    BY <1>5
  <2>2. Position(g)' >= Position(g) /\ Position(g)' <= g.read + g.in_len
    BY <1>3, <1>4, <1>6
  <2> QED
    BY <2>1, <2>2
<1>8. \/ Position(g)' - g'.n_since >= Position(g) - g.n_since
      \/ \E u \in ToSet(g.tags) : u.at <= Position(g)'
  <2>1. CASE ForeignStep
    <3>1. g.tags # <<>> /\ n = next_tag
      <4>1. g.tags # <<>> /\ g'.nread = next_tag
        BY <2>1 DEF ForeignStep, FirstTag, WaitStep
      <4> QED
        BY <1>5, <4>1
    <3>2. g.read + next_tag = g.tags[1].at /\ g.tags[1] \in ToSet(g.tags) /\ g.tags[1] \in Tag
      BY <1>2, <3>1, FirstTagFacts DEF TagInv
    <3>3. g.tags[1].at <= Position(g)'
      BY <1>6, <3>1, <3>2, TagFields
    <3> QED
      BY <3>2, <3>3
  <2>2. CASE ~ ForeignStep
    <3>1. since - g.n_since <= n - g.nread /\ since \in Nat
      BY <1>4, <2>2
    <3>2. Position(g)' - g'.n_since >= Position(g) - g.n_since
      BY <1>3, <1>5, <1>6, <3>1
    <3> QED
      BY <3>2
  <2> QED
    BY <2>1, <2>2
<1>9. \A t \in ToSet(g.tags) : t.key \in Requests => t \in ToSet(g'.tags)
  <2>1. CASE tags = g.tags
    BY <1>5, <2>1
  <2>2. CASE g.tags # <<>> /\ tags = Tail(g.tags) /\ g.tags[1].key \notin Requests
    <3>1. g.tags \in Seq(Tag) /\ Sorted(g.tags)
      BY <1>2, GateTypes DEF TagInv, Listed, Ahead
    <3>2. \A t : t \in ToSet(g.tags) => t = g.tags[1] \/ t \in ToSet(Tail(g.tags))
      BY <2>2, <3>1, TailFacts
    <3> QED
      BY <1>5, <2>2, <3>2
  <2> QED
    BY <1>4, <2>1, <2>2
<1>10. \A u \in ToSet(g'.tags) : u \in ToSet(g.tags)
  <2>1. \A i \in DOMAIN g'.tags : g'.tags[i] \in ToSet(g.tags)
    BY <1>4, <1>5
  <2> QED
    BY <2>1 DEF ToSet
<1>11. \A t \in ToSet(stream') : Overlooked(t)' =>
           /\ t \in overread' /\ t.at < Position(g)' - g'.n_since + NPub - 1
           /\ \A u \in ToSet(g'.tags) : t.at < u.at
  BY <1>5, <1>7, <1>8, <1>9, <1>10, RequestCarried
<1>12. \A i \in DOMAIN g.tags : Position(g)' <= g.tags[i].at
  BY <1>4, <1>6
<1>13. RequestHeard'
  BY <1>5, <1>7, <1>12, HeardOn
<1> QED
  BY <1>11, <1>13 DEF RequestInv

LEMMA RequestDiscard ==
  ASSUME ShapeInv, TagInv, ~ torn, ~ torn', RequestInv, SteadyDiscard, ~ rewound'
  PROVE  RequestInv'
<1>1. g \in GateRec
  BY DEF ShapeInv
<1>2. /\ g.read \in Nat /\ g.in_len \in Nat /\ g.nread \in Int /\ g.n_since \in Nat
      /\ g.tags \in Seq(Tag) /\ Position(g) = g.read + g.nread
  BY <1>1, GateTypes DEF ShapeInv
<1>3. /\ Since \in Nat /\ Left \in Int /\ Position(g)' = (g.read + g.nread) + Left
      /\ Here \in Nat /\ n_discard \in Nat
  BY SteadyMove
<1>4. /\ g' \in GateRec /\ g'.read = g.read /\ g'.in_len = g.in_len
      /\ g'.tags = TagsLeft(g, Left) /\ g'.nread = g.nread + Left
      /\ rewound' = (rewound \/ Position(g)' < Position(g))
      /\ stream' = stream /\ overread' = overread /\ waited' = waited
  BY DEF SteadyDiscard, WindowKept
<1>5. ~ rewound /\ ~ (Position(g)' < Position(g))
  BY <1>4
<1>6. Position(g)' >= Position(g) /\ Left >= 0 /\ Position(g)' = Position(g) + Left
  BY <1>2, <1>3, <1>5
<1>7. \/ Left = Here /\ g'.n_since = Since + Here
      \/ g'.n_since = 0
  BY DEF SteadyDiscard
<1>8. Since <= g.n_since
  BY <1>2 DEF Since
<1>9. Position(g)' - g'.n_since >= Position(g) - g.n_since
  BY <1>2, <1>3, <1>6, <1>7, <1>8
<1>10. \A t : t \in ToSet(g'.tags) <=> t \in ToSet(g.tags) /\ Position(g)' <= t.at
  <2>1. Sorted(g.tags)
    BY DEF TagInv, Listed, Ahead
  <2>2. /\ TagsLeft(g, Left) \in Seq(Tag) /\ Sorted(TagsLeft(g, Left))
        /\ \A t : t \in ToSet(TagsLeft(g, Left))
                    <=> t \in ToSet(g.tags) /\ Position(g) + Left <= t.at
    BY <1>2, <1>3, <2>1, TagsLeftFacts
  <2> QED
    BY <1>4, <1>6, <2>2
<1>11. \A t \in ToSet(stream') : Overlooked(t)' =>
           /\ t \in overread' /\ t.at < Position(g)' - g'.n_since + NPub - 1
           /\ \A u \in ToSet(g'.tags) : t.at < u.at
  BY <1>4, <1>6, <1>9, <1>10, RequestCarried
<1>12. RequestHeard'
  BY <1>4, <1>5, HeardKept
<1> QED
  BY <1>11, <1>12 DEF RequestInv

(* What publish() takes ahead of its block's end lies within a block.      *)
LEMMA RequestPublish ==
  ASSUME ShapeInv, TagInv, ~ torn, ~ torn', RequestInv, PublishStep, ~ rewound'
  PROVE  RequestInv'
<1>1. g \in GateRec
  BY DEF ShapeInv
<1>2. /\ g.read \in Nat /\ g.in_len \in Nat /\ g.nread \in Int /\ g.n_since \in Nat
      /\ g.tags \in Seq(Tag) /\ Position(g) = g.read + g.nread /\ NPub \in Nat
  BY <1>1, GateTypes DEF ShapeInv
<1>3. /\ Since \in Nat /\ Since < NPub /\ Here \in Nat /\ Here = g.in_len - g.nread
      /\ g.nread <= g'.nread /\ g'.nread \in Int /\ Position(g)' = g.read + g'.nread
      /\ (g.state = "wait" /\ Since = 0) \/ (g.state = "publish" /\ Since = g.n_since)
  BY PublishMove
<1>4. /\ g' \in GateRec /\ g'.read = g.read /\ g'.in_len = g.in_len
      /\ g'.tags = TagsLeft(g, NPub)
      /\ rewound' = (rewound \/ Position(g)' < Position(g))
      /\ stream' = stream /\ waited' = waited
      /\ overread' = overread \union
           (IF g.state = "publish"
            THEN {t \in ToSet(g.tags) \ ToSet(g'.tags) : t.at >= Position(g)'}
            ELSE {})
  BY DEF PublishStep, WindowKept
<1>5. ~ rewound /\ ~ (Position(g)' < Position(g)) /\ \A t \in overread : t \in overread'
  BY <1>4
<1>6. Position(g)' >= Position(g)
  BY <1>2, <1>3
<1>7. \/ Since + Here < NPub /\ g'.n_since = Since + Here /\ g'.nread = g.in_len
      \/ g'.n_since = 0 /\ g'.nread = g.nread + (NPub - Since)
  BY DEF PublishStep
<1>8. Since <= g.n_since
  BY <1>2, <1>3
<1>9. Position(g)' - g'.n_since >= Position(g) - g.n_since
  BY <1>2, <1>3, <1>7, <1>8
<1>10. \A t : t \in ToSet(g'.tags) <=> t \in ToSet(g.tags) /\ Position(g) + NPub <= t.at
  <2>1. Sorted(g.tags)
    BY DEF TagInv, Listed, Ahead
  <2>2. /\ TagsLeft(g, NPub) \in Seq(Tag) /\ Sorted(TagsLeft(g, NPub))
        /\ \A t : t \in ToSet(TagsLeft(g, NPub))
                    <=> t \in ToSet(g.tags) /\ Position(g) + NPub <= t.at
    <3>1. g.read \in Int /\ g.nread \in Int /\ NPub \in Int /\ g.tags \in Seq(Tag)
      BY <1>2
    <3> QED
      BY <2>1, <3>1, TagsLeftFacts
  <2> QED
    BY <1>4, <2>2
<1>11. ASSUME NEW t \in ToSet(g.tags), t.key \in Requests, Position(g)' <= t.at, t \notin ToSet(g'.tags)
       PROVE  /\ t \in overread' /\ t.at < Position(g)' - g'.n_since + NPub - 1
              /\ \A u \in ToSet(g'.tags) : t.at < u.at
  <2>1. t.at \in Int /\ t.at < g.read + g.in_len /\ t.at < Position(g) + NPub
    <3>1. t.at \in Int /\ t.at < g.read + g.in_len
      BY ListedTags
    <3>2. ~ (Position(g) + NPub <= t.at)
      BY <1>10, <1>11
    <3> QED
      BY <1>2, <3>1, <3>2
  <2>2. g'.n_since = 0 /\ g'.nread = g.nread + (NPub - Since)
    BY <1>2, <1>3, <1>7, <1>11, <2>1
  <2>3. Position(g)' = Position(g) + NPub - Since
    BY <1>2, <1>3, <2>2
  <2>4. g.state = "publish"
    BY <1>2, <1>3, <1>11, <2>1, <2>3
  <2>5. t \in overread'
    <3>1. t.at >= Position(g)'
      BY <1>2, <1>3, <1>11, <2>1, <2>3
    <3> QED
      BY <1>4, <1>11, <2>4, <3>1
  <2>6. t.at < Position(g)' - g'.n_since + NPub - 1
    BY <1>2, <1>3, <2>1, <2>2, <2>3
  <2>7. \A u \in ToSet(g'.tags) : t.at < u.at
    <3> SUFFICES ASSUME NEW u \in ToSet(g'.tags)
                 PROVE  t.at < u.at
      OBVIOUS
    <3>1. u \in ToSet(g.tags) /\ Position(g) + NPub <= u.at
      BY <1>10
    <3>2. u.at \in Int
      BY <3>1, ListedTags
    <3> QED
      BY <1>2, <2>1, <3>1, <3>2
  <2> QED
    BY <2>5, <2>6, <2>7
<1>12. \A t \in ToSet(stream') : Overlooked(t)' =>
           /\ t \in overread' /\ t.at < Position(g)' - g'.n_since + NPub - 1
           /\ \A u \in ToSet(g'.tags) : t.at < u.at
  BY <1>4, <1>5, <1>6, <1>9, <1>10, <1>11, RequestCarried
<1>13. RequestHeard'
  BY <1>4, <1>5, HeardKept
<1> QED
  BY <1>12, <1>13 DEF RequestInv

LEMMA RequestAbort ==
  ASSUME ShapeInv, TagInv, ~ torn, ~ torn', RequestInv, AbortStep, ~ rewound'
  PROVE  RequestInv'
<1>1. g \in GateRec
  BY DEF ShapeInv
<1>2. /\ g.read \in Nat /\ g.nread \in Int /\ g.n_since \in Nat /\ Position(g) = g.read + g.nread
  BY <1>1, GateTypes DEF ShapeInv
<1>3. /\ g' \in GateRec /\ g'.read = g.read /\ g'.in_len = g.in_len
      /\ g'.tags = g.tags /\ g'.n_since = 0
      /\ rewound' = (rewound \/ Position(g)' < Position(g))
      /\ stream' = stream /\ overread' = overread /\ waited' = waited
  BY DEF AbortStep, WindowKept
<1>4. ~ rewound /\ ~ (Position(g)' < Position(g))
  BY <1>3
<1>5. g'.nread \in Int /\ Position(g)' = g.read + g'.nread
  BY <1>3 DEF GateRec, Position
<1>6. Position(g)' >= Position(g) /\ g'.nread >= g.nread
      /\ Position(g)' - g'.n_since >= Position(g) - g.n_since
  BY <1>2, <1>3, <1>4, <1>5
<1>7. \A t \in ToSet(stream') : Overlooked(t)' =>
           /\ t \in overread' /\ t.at < Position(g)' - g'.n_since + NPub - 1
           /\ \A u \in ToSet(g'.tags) : t.at < u.at
  BY <1>3, <1>6, RequestCarried
<1>8. RequestHeard'
  BY <1>3, <1>4, HeardKept
<1> QED
  BY <1>7, <1>8 DEF RequestInv

(* Between calls there is no window to overlook a request in.              *)
LEMMA RequestIdle ==
  ASSUME ShapeInv, ~ torn, ~ torn', RequestInv, ~ rewound, g' \in GateRec, g'.in_len = 0, g'.nread = 0,
         stream' = stream, waited' = waited, overread' = overread
  PROVE  RequestInv'
<1>1. \A t \in ToSet(stream') : ~ Overlooked(t)'
  <2> SUFFICES ASSUME NEW t \in ToSet(stream), Overlooked(t)'
               PROVE  FALSE
    OBVIOUS
  <2>1. g'.read + 0 <= t.at /\ t.at < g'.read + 0
    BY DEF Overlooked, Position
  <2>2. g'.read \in Nat
    BY DEF GateRec
  <2>3. t.at \in Int
    BY StreamTags
  <2> QED
    BY <2>1, <2>2, <2>3
<1>2. RequestHeard'
  BY HeardKept
<1> QED
  BY <1>1, <1>2 DEF RequestInv

LEMMA RequestRest ==
  ASSUME ShapeInv, TagInv, ~ torn, ~ torn', RequestInv, FillStep \/ EndStep \/ CallStep \/ SetNDiscard, ~ rewound'
  PROVE  RequestInv'
<1>1. /\ g \in GateRec
      /\ g.read \in Nat /\ g.nread \in Int /\ g.n_since \in Nat /\ Position(g) = g.read + g.nread
  BY GateTypes DEF ShapeInv
<1>2. /\ stream' = stream /\ overread' = overread /\ waited' = waited
      /\ SetNDiscard \/ g' \in GateRec
  BY DEF FillStep, EndStep, CallStep, SetNDiscard
<1>3. ~ rewound
  <2>1. rewound' = (rewound \/ Position(g)' < Position(g)) \/ rewound' = rewound
    BY DEF FillStep, EndStep, CallStep, SetNDiscard
  <2> QED
    BY <2>1
<1>4. CASE /\ g'.read = g.read /\ g'.in_len = g.in_len /\ g'.nread = g.nread /\ g'.tags = g.tags
           /\ g'.n_since = g.n_since
  <2>1. Position(g)' = Position(g)
    BY <1>4 DEF Position
  <2>2. RequestHeard'
    BY <1>2, <1>3, HeardKept
  <2> QED
    BY <1>2, <1>4, <2>1, <2>2 DEF RequestInv, Overlooked
<1>5. CASE g' \in GateRec /\ g'.in_len = 0 /\ g'.nread = 0
  BY <1>2, <1>3, <1>5, RequestIdle
<1>6. CASE CallStep
  <2>1. /\ Position(g)' = Position(g) /\ g'.nread = g.nread
        /\ \A t : t \in ToSet(g'.tags)
                    <=> t \in ToSet(stream) /\ Position(g) <= t.at /\ t.at < g'.read + g'.in_len
    BY <1>6, ShapeCall DEF CallStep
  <2>2. \A t \in ToSet(stream') : ~ Overlooked(t)'
    BY <1>2, <2>1 DEF Overlooked
  <2>3. RequestHeard'
    BY <1>2, <1>3, HeardKept
  <2> QED
    BY <1>1, <2>1, <2>2, <2>3 DEF RequestInv
<1>7. CASE SetNDiscard
  BY <1>4, <1>7 DEF SetNDiscard
<1>8. CASE FillStep
  BY <1>4, <1>5, <1>8 DEF FillStep, WindowKept
<1>9. CASE EndStep
  BY <1>5, <1>9 DEF EndStep
<1> QED
  BY <1>6, <1>7, <1>8, <1>9

LEMMA RequestStep ==
  ASSUME ShapeInv, TagInv, ~ torn, ~ torn', RequestInv, Turn, ~ rewound'
  PROVE  RequestInv'
BY RequestStart, RequestWait, RequestDiscard, RequestPublish, RequestAbort, RequestRest DEF Turn, DiscardStep

(***************************************************************************)
(* OrderInv.                                                               *)
(***************************************************************************)
LEMMA Remainder ==
  ASSUME NEW n \in Nat, n > 0, NEW q \in Nat, NEW r \in 0 .. n - 1
  PROVE  (q * n + r) % n = r
OBVIOUS

LEMMA JoinFacts ==
  ASSUME NEW a \in Seq(0 .. NIn - 1), NEW b \in Seq(0 .. NIn - 1)
  PROVE  /\ a \o b \in Seq(0 .. NIn - 1) /\ Len(a \o b) = Len(a) + Len(b)
         /\ \A i \in 1 .. Len(a) : (a \o b)[i] = a[i]
         /\ \A i \in 1 .. Len(b) : (a \o b)[Len(a) + i] = b[i]
<1>1. Len(a) \in Nat /\ Len(b) \in Nat
  OBVIOUS
<1>2. /\ a \o b \in Seq(0 .. NIn - 1) /\ Len(a \o b) = Len(a) + Len(b)
      /\ \A i \in 1 .. Len(a) + Len(b) :
           (a \o b)[i] = IF i <= Len(a) THEN a[i] ELSE b[i - Len(a)]
  BY ConcatProperties
<1>3. ASSUME NEW i \in 1 .. Len(a)
      PROVE  (a \o b)[i] = a[i]
  BY <1>1, <1>2
<1>4. ASSUME NEW i \in 1 .. Len(b)
      PROVE  (a \o b)[Len(a) + i] = b[i]
  <2>1. /\ Len(a) + i \in 1 .. Len(a) + Len(b) /\ ~ (Len(a) + i <= Len(a))
        /\ (Len(a) + i) - Len(a) = i
    BY <1>1
  <2> QED
    BY <1>2, <2>1
<1> QED
  BY <1>2, <1>3, <1>4

LEMMA EdgeFacts ==
  ASSUME g \in GateRec
  PROVE  /\ Edge \in Int /\ (g.nread <= g.in_len => Edge = Position(g))
         /\ (g.nread > g.in_len => Edge = g.read + g.in_len)
<1>1. g.read \in Nat /\ g.in_len \in Nat /\ g.nread \in Int
  BY GateTypes
<1> QED
  BY <1>1 DEF Edge, Lesser, Position

LEMMA EdgeFactsNext ==
  ASSUME g' \in GateRec
  PROVE  /\ Edge' \in Int /\ Position(g)' = g'.read + g'.nread
         /\ g'.read \in Nat /\ g'.in_len \in Nat /\ g'.nread \in Int /\ Position(g)' \in Int
         /\ (g'.nread <= g'.in_len => Edge' = Position(g)')
         /\ (g'.nread > g'.in_len => Edge' = g'.read + g'.in_len)
<1>1. g'.read \in Nat /\ g'.in_len \in Nat /\ g'.nread \in Int
  BY DEF GateRec
<1> QED
  BY <1>1 DEF Edge, Lesser, Position

(* publish() adds the samples at the position to the block.                *)
LEMMA PublishBlock ==
  ASSUME ShapeInv, TagInv, g.nread >= 0, OrderInv, PublishStep
  PROVE  /\ Len(g.out_buf) = Since /\ BlockStart' = BlockStart /\ BlockStart = Position(g) - Since
         /\ g'.state = "publish" => Len(g'.out_buf) = g'.n_since
         /\ g'.pc = "fill" => Len(g'.out_buf) = NPub
         /\ Len(g'.out_buf) \in Nat
         /\ Position(g)' = g.read + g'.nread /\ Position(g)' - Len(g'.out_buf) = BlockStart
         /\ \A i \in 1 .. Len(g'.out_buf) : g'.out_buf[i] = BlockStart + i - 1
<1>1. g \in GateRec /\ g.read + g.in_len <= NIn
  BY DEF ShapeInv
<1>2. /\ g.read \in Nat /\ g.in_len \in Nat /\ g.nread \in Int /\ g.n_since \in Nat
      /\ Position(g) = g.read + g.nread /\ NPub \in Nat
      /\ g.out_buf \in Seq(0 .. NIn - 1) /\ Len(g.out_buf) \in Nat
  BY <1>1, GateTypes DEF ShapeInv
<1>3. /\ Since \in Nat /\ Since < NPub /\ Here = g.in_len - g.nread /\ g.nread <= g.in_len
      /\ g.nread <= g'.nread /\ g'.nread \in Int /\ Position(g)' = g.read + g'.nread
      /\ (g.state = "wait" /\ Since = 0 /\ g.out_buf = <<>>)
         \/ (g.state = "publish" /\ Since = g.n_since)
  BY PublishMove
<1>4. Len(g.out_buf) = Since
  <2>1. CASE g.state = "wait" /\ Since = 0 /\ g.out_buf = <<>>
    BY <2>1
  <2>2. CASE g.state = "publish" /\ Since = g.n_since
    BY <2>2 DEF OrderInv
  <2> QED
    BY <1>3, <2>1, <2>2
<1>5. BlockStart = Position(g) - Since
  BY <1>4 DEF BlockStart
<1>6. \A i \in 1 .. Since : g.out_buf[i] = Position(g) - Since + i - 1
  BY <1>4 DEF OrderInv
<1>7. ASSUME NEW j \in Int, g.nread <= j, j <= g.in_len,
             g'.out_buf = g.out_buf \o Slice(g, g.nread, j), g'.nread = j
      PROVE  /\ Len(g'.out_buf) = Since + (j - g.nread)
             /\ \A i \in 1 .. Len(g'.out_buf) : g'.out_buf[i] = BlockStart + i - 1
  <2> DEFINE s == Slice(g, g.nread, j)
  <2>1. Bound(g.nread, g.in_len) = g.nread /\ Bound(j, g.in_len) = j
    BY <1>2, <1>3, <1>7 DEF Bound, Lesser
  <2>2. /\ s \in Seq(0 .. NIn - 1)
        /\ Len(s) = IF Bound(j, g.in_len) > Bound(g.nread, g.in_len)
                    THEN Bound(j, g.in_len) - Bound(g.nread, g.in_len) ELSE 0
        /\ \A k \in 1 .. Len(s) : s[k] = g.read + Bound(g.nread, g.in_len) + k - 1
    BY <1>1, <1>2, SliceFacts
  <2>3. /\ Len(s) = j - g.nread /\ Len(s) \in Nat
        /\ \A k \in 1 .. Len(s) : s[k] = Position(g) + k - 1
    BY <1>2, <1>7, <2>1, <2>2
  <2>4. g'.out_buf = g.out_buf \o s
    BY <1>7
  <2> HIDE DEF s
  <2>5. /\ Len(g'.out_buf) = Since + Len(s)
        /\ \A i \in 1 .. Since : g'.out_buf[i] = g.out_buf[i]
        /\ \A i \in 1 .. Len(s) : g'.out_buf[Since + i] = s[i]
    <3>1. /\ Len(g.out_buf \o s) = Len(g.out_buf) + Len(s)
          /\ \A i \in 1 .. Len(g.out_buf) : (g.out_buf \o s)[i] = g.out_buf[i]
          /\ \A i \in 1 .. Len(s) : (g.out_buf \o s)[Len(g.out_buf) + i] = s[i]
      BY <1>2, <2>2, JoinFacts
    <3> QED
      BY <1>4, <2>4, <3>1
  <2>6. ASSUME NEW i \in 1 .. Len(g'.out_buf)
        PROVE  g'.out_buf[i] = BlockStart + i - 1
    <3>1. CASE i <= Since
      BY <1>2, <1>3, <1>5, <1>6, <2>5, <3>1
    <3>2. CASE ~ (i <= Since)
      <4>1. i - Since \in 1 .. Len(s) /\ Since + (i - Since) = i
        BY <1>3, <2>3, <2>5, <3>2
      <4>2. g'.out_buf[i] = Position(g) + (i - Since) - 1
        BY <2>3, <2>5, <4>1
      <4> QED
        BY <1>2, <1>3, <1>5, <4>2
    <3> QED
      BY <3>1, <3>2
  <2> QED
    BY <2>3, <2>5, <2>6
<1>8. CASE /\ Since + Here < NPub /\ g'.n_since = Since + Here /\ g'.nread = g.in_len
           /\ g'.state = "publish" /\ g'.pc = "work"
           /\ g'.out_buf = g.out_buf \o Slice(g, g.nread, g.in_len)
  <2> DEFINE j == g.in_len
  <2>1. j \in Int /\ g.nread <= j /\ j <= g.in_len /\ g'.nread = j
        /\ g'.out_buf = g.out_buf \o Slice(g, g.nread, j)
    BY <1>2, <1>3, <1>8
  <2> HIDE DEF j
  <2>2. /\ Len(g'.out_buf) = Since + (j - g.nread)
        /\ \A i \in 1 .. Len(g'.out_buf) : g'.out_buf[i] = BlockStart + i - 1
    BY <1>7, <2>1
  <2>3. /\ Len(g'.out_buf) = Since + (g.in_len - g.nread)
        /\ \A i \in 1 .. Len(g'.out_buf) : g'.out_buf[i] = BlockStart + i - 1
    BY <2>2 DEF j
  <2>4. Len(g'.out_buf) = g'.n_since /\ Len(g'.out_buf) \in Nat
        /\ Position(g)' - Len(g'.out_buf) = BlockStart
    BY <1>2, <1>3, <1>5, <1>8, <2>3
  <2> QED
    BY <1>3, <1>4, <1>5, <1>8, <2>3, <2>4 DEF BlockStart
<1>9. CASE /\ Since + Here >= NPub /\ g'.nread = g.nread + (NPub - Since)
           /\ g'.state = "wait" /\ g'.pc = "fill"
           /\ g'.out_buf = g.out_buf \o Slice(g, g.nread, g.nread + NPub - Len(g.out_buf))
  <2> DEFINE j == g.nread + NPub - Len(g.out_buf)
  <2>1. j \in Int /\ g.nread <= j /\ j <= g.in_len /\ g'.nread = j /\ j - g.nread = NPub - Since
    BY <1>2, <1>3, <1>4, <1>9
  <2>2. g'.out_buf = g.out_buf \o Slice(g, g.nread, j)
    BY <1>9
  <2> HIDE DEF j
  <2>3. /\ Len(g'.out_buf) = Since + (j - g.nread)
        /\ \A i \in 1 .. Len(g'.out_buf) : g'.out_buf[i] = BlockStart + i - 1
    BY <1>7, <2>1, <2>2
  <2>4. Len(g'.out_buf) = NPub /\ Len(g'.out_buf) \in Nat
    <3> DEFINE m == Len(g'.out_buf)
    <3>1. m = Since + (j - g.nread) /\ j - g.nread = NPub - Since
      BY <2>1, <2>3
    <3> HIDE DEF m
    <3>2. m = NPub /\ m \in Nat
      BY <1>2, <1>3, <3>1
    <3> QED
      BY <3>2 DEF m
  <2>5. Position(g)' - NPub = BlockStart
    BY <1>2, <1>3, <1>5, <1>9
  <2> QED
    BY <1>3, <1>4, <1>5, <1>9, <2>3, <2>4, <2>5 DEF BlockStart
<1> QED
  BY <1>8, <1>9 DEF PublishStep

(* A whole block goes out as it is.                                        *)
LEMMA FillBlock ==
  ASSUME ShapeInv, OrderInv, FillStep
  PROVE  /\ g'.pc \in {"work", "idle"} /\ Len(g.out_buf) = NPub /\ g'.out_buf = <<>>
         /\ g'.events = Append(g.events, g.event_tag) /\ g'.out_offset = g.out_offset + NPub
         /\ g'.state = "wait" /\ g'.n_since = 0
         /\ Position(g)' = Position(g) /\ Edge' = Position(g) /\ BlockStart = Position(g) - NPub
         /\ Edge = Position(g)
         /\ Len(g'.out) = Len(g.out) + NPub
         /\ \A i \in 1 .. Len(g.out) : g'.out[i] = g.out[i]
         /\ \A i \in 1 .. NPub : g'.out[Len(g.out) + i] = BlockStart + i - 1
<1>1. g \in GateRec /\ g.state = "wait" /\ g.n_since = 0 /\ g.nread <= g.in_len
  BY DEF ShapeInv, FillStep, Walking
<1>2. /\ g.read \in Nat /\ g.in_len \in Nat /\ g.nread \in Int
      /\ Position(g) = g.read + g.nread /\ NPub \in Nat
      /\ g.out_buf \in Seq(0 .. NIn - 1) /\ g.out \in Seq(0 .. NIn - 1)
  BY <1>1, GateTypes
<1>3. Len(g.out_buf) = NPub /\ g.pc = "fill"
  BY DEF OrderInv, FillStep
<1>4. /\ g'.out_buf = <<>> /\ g'.out = g.out \o g.out_buf
      /\ g'.events = Append(g.events, g.event_tag) /\ g'.out_offset = g.out_offset + NPub
      /\ \/ /\ g'.pc = "work" /\ WindowKept /\ g'.nread = g.nread
         \/ /\ g'.pc = "idle" /\ g'.read = g.read + g.nread /\ g'.nread = 0 /\ g'.in_len = 0
      /\ g'.state = "wait" /\ g'.n_since = 0 /\ g' \in GateRec
  BY <1>1, <1>3 DEF FillStep
<1>5. Position(g)' = Position(g) /\ g'.nread <= g'.in_len
  BY <1>1, <1>2, <1>4 DEF Position, WindowKept
<1>6. Edge' = Position(g) /\ Edge = Position(g)
  BY <1>1, <1>4, <1>5, EdgeFacts, EdgeFactsNext
<1>7. BlockStart = Position(g) - NPub
  BY <1>3 DEF BlockStart
<1>8. /\ Len(g'.out) = Len(g.out) + NPub
      /\ \A i \in 1 .. Len(g.out) : g'.out[i] = g.out[i]
      /\ \A i \in 1 .. NPub : g'.out[Len(g.out) + i] = g.out_buf[i]
  <2>1. /\ Len(g.out \o g.out_buf) = Len(g.out) + Len(g.out_buf)
        /\ \A i \in 1 .. Len(g.out) : (g.out \o g.out_buf)[i] = g.out[i]
        /\ \A i \in 1 .. Len(g.out_buf) : (g.out \o g.out_buf)[Len(g.out) + i] = g.out_buf[i]
    BY <1>2, JoinFacts
  <2> QED
    BY <1>3, <1>4, <2>1
<1>9. \A i \in 1 .. NPub : g.out_buf[i] = BlockStart + i - 1
  BY <1>3 DEF OrderInv, BlockStart
<1> QED
  BY <1>3, <1>4, <1>5, <1>6, <1>7, <1>8, <1>9

LEMMA LastOut ==
  ASSUME g \in GateRec, g.out # <<>>
  PROVE  Len(g.out) \in Nat /\ Len(g.out) > 0 /\ g.out[Len(g.out)] \in Int
<1>1. g.out \in Seq(0 .. NIn - 1)
  BY GateTypes
<1>2. Len(g.out) \in Nat /\ Len(g.out) # 0
  BY <1>1, EmptySeq
<1>3. Len(g.out) \in 1 .. Len(g.out)
  BY <1>2
<1>4. g.out[Len(g.out)] \in 0 .. NIn - 1
  BY <1>1, <1>3, ElementOfSeq
<1> QED
  BY <1>2, <1>4, SizesAssumption

(* With no block begun, the order stays while the block moves on.          *)
LEMMA OrderCarried ==
  ASSUME g \in GateRec, OrderInv, ~ rewound, g' \in GateRec,
         g'.out = g.out, g'.out_buf = <<>>, Edge' >= Edge,
         g'.pc \notin {"raised", "fill"}, g'.state # "publish"
  PROVE  OrderInv'
<1>1. Len(g'.out_buf) = 0 /\ Len(g.out_buf) \in Nat /\ Edge \in Int /\ Edge' \in Int
  BY GateTypes, EdgeFacts, EdgeFactsNext
<1>2. \A i \in 1 .. Len(g'.out_buf) : g'.out_buf[i] = Position(g)' - Len(g'.out_buf) + i - 1
  BY <1>1
<1>3. g'.out # <<>> => g'.out[Len(g'.out)] < Edge' - Len(g'.out_buf)
  <2> SUFFICES ASSUME g.out # <<>>
               PROVE  g.out[Len(g.out)] < Edge'
    BY <1>1
  <2>1. g.out[Len(g.out)] < Edge - Len(g.out_buf)
    BY DEF OrderInv
  <2>2. g.out[Len(g.out)] \in Int
    BY LastOut
  <2> QED
    BY <1>1, <2>1, <2>2
<1>4. BlocksInOrder'
  BY DEF OrderInv, BlocksInOrder
<1> QED
  BY <1>2, <1>3, <1>4 DEF OrderInv

(* Nor does it change between two windows.                                 *)
LEMMA OrderSame ==
  ASSUME OrderInv, ~ rewound,
         g'.out = g.out, g'.out_buf = g.out_buf, Edge' = Edge, Position(g)' = Position(g),
         g'.state = g.state, g'.n_since = g.n_since,
         g'.pc # "raised", g'.pc = "fill" => g.pc = "fill"
  PROVE  OrderInv'
BY DEF OrderInv, BlocksInOrder

LEMMA OrderPublish ==
  ASSUME ShapeInv, TagInv, g.nread >= 0, OrderInv, PublishStep, ~ rewound'
  PROVE  OrderInv'
<1>1. /\ Len(g.out_buf) = Since /\ BlockStart = Position(g) - Since
      /\ g'.state = "publish" => Len(g'.out_buf) = g'.n_since
      /\ g'.pc = "fill" => Len(g'.out_buf) = NPub
      /\ Position(g)' - Len(g'.out_buf) = BlockStart
      /\ \A i \in 1 .. Len(g'.out_buf) : g'.out_buf[i] = BlockStart + i - 1
  BY PublishBlock
<1>2. /\ g' \in GateRec /\ g'.in_len = g.in_len /\ g'.out = g.out
      /\ rewound' = (rewound \/ Position(g)' < Position(g))
  BY DEF PublishStep, WindowKept, OutputKept
<1>3. g'.pc # "raised" /\ ~ rewound
  <2>1. ~ rewound
    BY <1>2
  <2>2. g'.pc \in {"work", "fill"}
    BY DEF PublishStep
  <2> QED
    BY <2>1, <2>2
<1>4. g.nread <= g.in_len /\ g'.nread <= g.in_len
  BY PublishMove
<1>5. g \in GateRec
  BY DEF ShapeInv
<1>6. Edge = Position(g) /\ Edge' = Position(g)'
  BY <1>2, <1>4, <1>5, EdgeFacts, EdgeFactsNext
<1>7. Edge' - Len(g'.out_buf) = Edge - Len(g.out_buf)
  BY <1>1, <1>6
<1>8. g'.out # <<>> => g'.out[Len(g'.out)] < Edge' - Len(g'.out_buf)
  BY <1>2, <1>7 DEF OrderInv
<1>9. \A i \in 1 .. Len(g'.out_buf) : g'.out_buf[i] = Position(g)' - Len(g'.out_buf) + i - 1
  BY <1>1
<1>10. BlocksInOrder'
  BY <1>2, <1>3 DEF OrderInv, BlocksInOrder
<1> QED
  BY <1>1, <1>3, <1>8, <1>9, <1>10 DEF OrderInv

LEMMA OrderFill ==
  ASSUME ShapeInv, OrderInv, EventInv, FillStep, ~ rewound'
  PROVE  OrderInv'
<1>1. /\ g'.pc \in {"work", "idle"} /\ Len(g.out_buf) = NPub /\ g'.out_buf = <<>>
      /\ g'.state = "wait"
      /\ Edge' = Position(g) /\ BlockStart = Position(g) - NPub /\ Edge = Position(g)
      /\ Len(g'.out) = Len(g.out) + NPub
      /\ \A i \in 1 .. Len(g.out) : g'.out[i] = g.out[i]
      /\ \A i \in 1 .. NPub : g'.out[Len(g.out) + i] = BlockStart + i - 1
  BY FillBlock
<1>2. g \in GateRec
  BY DEF ShapeInv
<1>3. /\ Position(g) \in Int /\ NPub \in Nat /\ NPub > 0 /\ Len(g.out) \in Nat
      /\ g.out \in Seq(0 .. NIn - 1) /\ Len(g.events) \in Nat
  BY <1>2, GateTypes
<1>4. Len(g.out) = Len(g.events) * NPub
  BY DEF EventInv
<1>5. BlocksInOrder /\ ~ rewound
  <2>1. ~ rewound
    BY DEF FillStep
  <2> QED
    BY <2>1 DEF OrderInv
<1>6. g.out # <<>> => /\ g.out[Len(g.out)] < BlockStart /\ g.out[Len(g.out)] \in Int
                      /\ Len(g.out) > 0
  <2> SUFFICES ASSUME g.out # <<>>
               PROVE  g.out[Len(g.out)] < BlockStart /\ g.out[Len(g.out)] \in Int /\ Len(g.out) > 0
    OBVIOUS
  <2>1. g.out[Len(g.out)] < Edge - NPub
    BY <1>1 DEF OrderInv
  <2>2. g.out[Len(g.out)] \in Int /\ Len(g.out) > 0
    BY <1>2, LastOut
  <2> QED
    BY <1>1, <2>1, <2>2
<1> DEFINE n == Len(g.out)
           q == Len(g.events)
           new == g'.out
           start == BlockStart
<1>7. /\ n \in Nat /\ q \in Nat /\ n = q * NPub /\ Len(new) = n + NPub /\ start \in Int
      /\ \A i \in 1 .. n : new[i] = g.out[i]
      /\ \A i \in 1 .. NPub : new[n + i] = start + i - 1
      /\ n > 0 => g.out[n] < start
  BY <1>1, <1>3, <1>4, <1>6
<1>8. \A i \in 1 .. n - 1 :
        IF i % NPub # 0 THEN g.out[i + 1] = g.out[i] + 1 ELSE g.out[i + 1] > g.out[i]
  BY <1>5 DEF BlocksInOrder
<1> HIDE DEF n, q, new, start
<1>9. \A i \in 1 .. Len(new) - 1 :
        IF i % NPub # 0 THEN new[i + 1] = new[i] + 1 ELSE new[i + 1] > new[i]
  <2> SUFFICES ASSUME NEW i \in 1 .. Len(new) - 1
               PROVE  IF i % NPub # 0 THEN new[i + 1] = new[i] + 1 ELSE new[i + 1] > new[i]
    OBVIOUS
  <2>1. i \in 1 .. n + NPub - 1
    <3>1. Len(new) - 1 = n + NPub - 1
      BY <1>3, <1>7
    <3> QED
      BY <3>1
  <2>2. CASE i < n
    <3>1. i \in 1 .. n - 1 /\ i \in 1 .. n /\ i + 1 \in 1 .. n
      BY <1>3, <1>7, <2>1, <2>2
    <3>2. new[i] = g.out[i] /\ new[i + 1] = g.out[i + 1]
      BY <1>7, <3>1
    <3> QED
      BY <1>8, <3>1, <3>2
  <2>3. CASE i = n
    <3>1. i % NPub = 0
      <4>1. 0 \in 0 .. NPub - 1 /\ i = q * NPub + 0
        BY <1>3, <1>7, <2>3
      <4> QED
        BY <1>3, <1>7, <4>1, Remainder
    <3>2. n > 0 /\ i \in 1 .. n /\ 1 \in 1 .. NPub
      BY <1>3, <1>7, <2>1, <2>3
    <3>3. new[i] = g.out[n] /\ new[i + 1] = start
      <4>1. new[i] = g.out[n]
        BY <1>7, <2>3, <3>2
      <4>2. new[n + 1] = start + 1 - 1
        BY <1>7, <3>2
      <4> QED
        BY <1>7, <2>3, <4>1, <4>2
    <3>4. start > g.out[n]
      <4>1. g.out[n] < start
        BY <1>7, <3>2
      <4> QED
        BY <4>1
    <3> QED
      BY <3>1, <3>3, <3>4
  <2>4. CASE i > n
    <3> DEFINE k == i - n
    <3>1. k \in 1 .. NPub - 1 /\ k \in 1 .. NPub /\ k + 1 \in 1 .. NPub /\ k \in 0 .. NPub - 1
          /\ n + k = i /\ n + (k + 1) = i + 1 /\ k \in Int
      BY <1>3, <1>7, <2>1, <2>4
    <3> HIDE DEF k
    <3>2. i % NPub = k
      <4>1. i = q * NPub + k
        BY <1>7, <3>1
      <4> QED
        BY <1>3, <1>7, <3>1, <4>1, Remainder
    <3>3. new[n + k] = start + k - 1 /\ new[n + (k + 1)] = start + (k + 1) - 1
      BY <1>7, <3>1
    <3>4. new[i + 1] = new[i] + 1
      BY <1>7, <3>1, <3>3
    <3> QED
      BY <3>1, <3>2, <3>4
  <2> QED
    BY <1>7, <2>1, <2>2, <2>3, <2>4
<1>10. BlocksInOrder'
  BY <1>9 DEF BlocksInOrder, new
<1>11. g'.out[Len(g'.out)] < Edge' - Len(g'.out_buf)
  <2>1. Len(new) = n + NPub /\ NPub \in 1 .. NPub
    BY <1>3, <1>7
  <2>2. new[n + NPub] = start + NPub - 1
    BY <1>7, <2>1
  <2>3. start + NPub - 1 < Edge' - Len(g'.out_buf)
    <3>1. start = Position(g) - NPub /\ Edge' = Position(g) /\ Len(g'.out_buf) = 0
      BY <1>1 DEF start
    <3> QED
      BY <1>3, <3>1
  <2> QED
    BY <2>1, <2>2, <2>3 DEF new
<1>12. \A i \in 1 .. Len(g'.out_buf) : g'.out_buf[i] = Position(g)' - Len(g'.out_buf) + i - 1
  BY <1>1
<1> QED
  BY <1>1, <1>10, <1>11, <1>12 DEF OrderInv

LEMMA OrderStep ==
  ASSUME ShapeInv, TagInv, OrderInv, EventInv, Turn, ~ rewound'
  PROVE  OrderInv'
<1>1. /\ g \in GateRec /\ g.nread >= 0
      /\ g.read \in Nat /\ g.in_len \in Nat /\ g.nread \in Int /\ Position(g) = g.read + g.nread
  BY GateTypes DEF ShapeInv
<1>2. Edge \in Int /\ Edge <= Position(g) /\ Edge <= g.read + g.in_len
  BY <1>1, EdgeFacts
<1>3. ASSUME g' \in GateRec, g'.read = g.read, g'.in_len = g.in_len, ~ (Position(g)' < Position(g))
      PROVE  Edge' >= Edge
  BY <1>1, <1>2, <1>3, EdgeFactsNext
<1>4. CASE StartTurn
  <2>1. PICK key \in Requests \union {"timeout"}, n \in Int, next \in {"discard", "publish"},
             flag \in BOOLEAN : StartMoves(key, n, next, flag)
    BY <1>4, StartMove
  <2>2. /\ g.pc = "work" /\ g.state = "wait"
        /\ g' \in GateRec /\ g'.read = g.read /\ g'.in_len = g.in_len /\ g'.out = g.out
        /\ g'.out_buf = g.out_buf /\ g'.state = "wait" /\ g'.pc \in {"discard", "publish"}
        /\ rewound' = (rewound \/ Position(g)' < Position(g))
    BY <2>1 DEF StartMoves, StartStep, WindowKept, OutputKept, HistoryKept
  <2>3. g.out_buf = <<>>
    BY <2>2 DEF ShapeInv
  <2>4. ~ rewound /\ ~ (Position(g)' < Position(g))
    BY <2>2
  <2> QED
    BY <1>1, <1>3, <2>2, <2>3, <2>4, OrderCarried
<1>5. CASE WaitTurn
  <2>1. PICK n \in Int, since \in Nat, tags \in Seq(Tag), period \in {1, RatePeriod} :
             WaitMoves(n, since, tags, period)
    BY <1>5, WaitMove
  <2>2. /\ g.pc = "work" /\ g.state = "wait"
        /\ g' \in GateRec /\ g'.read = g.read /\ g'.in_len = g.in_len /\ g'.out = g.out
        /\ g'.out_buf = g.out_buf /\ g'.state = "wait" /\ g'.pc = "work"
        /\ rewound' = (rewound \/ Position(g)' < Position(g))
    BY <2>1 DEF WaitMoves, WaitStep, WindowKept, OutputKept, HistoryKept
  <2>3. g.out_buf = <<>>
    BY <2>2 DEF ShapeInv
  <2>4. ~ rewound /\ ~ (Position(g)' < Position(g))
    BY <2>2
  <2> QED
    BY <1>1, <1>3, <2>2, <2>3, <2>4, OrderCarried
<1>6. CASE DiscardStep
  <2>1. /\ g' \in GateRec /\ g'.read = g.read /\ g'.in_len = g.in_len /\ g'.out = g.out
        /\ g'.out_buf = g.out_buf /\ g'.state \in {"wait", "discard"}
        /\ g'.pc \in {"work", "publish"}
        /\ rewound => rewound'
    BY <1>6 DEF DiscardStep, WindowKept, OutputKept
  <2>2. /\ g.out_buf = <<>> /\ g.nread <= g'.nread /\ g'.nread \in Int
        /\ Position(g)' = g.read + g'.nread
    BY <1>6, DiscardMove
  <2>3. ~ rewound /\ ~ (Position(g)' < Position(g))
    BY <1>1, <2>1, <2>2
  <2> QED
    BY <1>1, <1>3, <2>1, <2>2, <2>3, OrderCarried
<1>7. CASE AbortStep
  <2>1. /\ g' \in GateRec /\ g'.read = g.read /\ g'.in_len = g.in_len /\ g'.out = g.out
        /\ g'.out_buf = <<>> /\ g'.state = "wait" /\ g'.pc = "work"
        /\ rewound' = (rewound \/ Position(g)' < Position(g))
    BY <1>7 DEF AbortStep, WindowKept, OutputKept
  <2>2. ~ rewound /\ ~ (Position(g)' < Position(g))
    BY <2>1
  <2> QED
    BY <1>1, <1>3, <2>1, <2>2, OrderCarried
<1>8. CASE PublishStep
  BY <1>1, <1>8, OrderPublish
<1>9. CASE FillStep
  BY <1>9, OrderFill
<1>10. CASE EndStep
  <2>1. /\ g.pc = "work" /\ g.nread >= g.in_len
        /\ g' \in GateRec /\ g'.read = g.read + g.in_len /\ g'.in_len = 0 /\ g'.nread = 0
        /\ g'.out = g.out /\ g'.out_buf = g.out_buf /\ g'.state = g.state
        /\ g'.n_since = g.n_since /\ g'.pc = "idle" /\ rewound' = rewound
    BY <1>10 DEF EndStep
  <2>2. Position(g)' = g.read + g.in_len /\ Edge' = g.read + g.in_len /\ Edge = g.read + g.in_len
    BY <1>1, <2>1, EdgeFacts, EdgeFactsNext
  <2>3. CASE g.nread > g.in_len
    <3>1. g.state = "wait" /\ g.out_buf = <<>>
      BY <2>1, <2>3 DEF ShapeInv, Walking
    <3>2. g'.out_buf = <<>> /\ Edge' >= Edge
      BY <1>2, <2>1, <2>2, <3>1
    <3> QED
      BY <1>1, <2>1, <3>1, <3>2, OrderCarried
  <2>4. CASE ~ (g.nread > g.in_len)
    <3>1. Position(g)' = Position(g)
      BY <1>1, <2>1, <2>2, <2>4
    <3> QED
      BY <2>1, <2>2, <3>1, OrderSame
  <2> QED
    BY <2>3, <2>4
<1>11. CASE CallStep
  <2>1. /\ Position(g)' = Position(g) /\ g'.nread = g.nread /\ g.nread = 0 /\ g'.in_len >= 0
        /\ g' \in GateRec /\ g'.out = g.out /\ g'.out_buf = g.out_buf /\ g'.state = g.state
        /\ g'.n_since = g.n_since /\ g'.pc = "work" /\ rewound' = rewound
    <3>1. Position(g)' = Position(g) /\ g.nread = 0
      BY <1>11, ShapeCall
    <3>2. g'.in_len >= 0
      BY <1>11 DEF CallStep
    <3> QED
      BY <1>11, <3>1, <3>2 DEF CallStep, OutputKept
  <2>2. Edge' = Edge
    BY <1>1, <2>1, EdgeFacts, EdgeFactsNext
  <2> QED
    BY <2>1, <2>2, OrderSame
<1>12. CASE SetNDiscard
  <2>1. g' = g /\ rewound' = rewound
    BY <1>12 DEF SetNDiscard
  <2>2. Edge' = Edge /\ Position(g)' = Position(g) /\ g.pc # "raised"
    BY <2>1 DEF Edge, Position, OrderInv
  <2> QED
    BY <2>1, <2>2, OrderSame
<1> QED
  BY <1>4, <1>5, <1>6, <1>7, <1>8, <1>9, <1>10, <1>11, <1>12 DEF Turn

(***************************************************************************)
(* EventInv.                                                               *)
(***************************************************************************)
LEMMA DelaysKept ==
  ASSUME n_discard \in NDiscards, (n_discard' = n_discard /\ sets' = sets) \/ sets' > 0
  PROVE  \A key, d : d \in Delays(key, n_discard, sets) => d \in Delays(key, n_discard', sets')
<1>1. CASE n_discard' = n_discard /\ sets' = sets
  BY <1>1 DEF Delays
<1>2. CASE sets' > 0
  <2>1. sets' # 0
    BY <1>2
  <2> QED
    BY <2>1 DEF Delays
<1> QED
  BY <1>1, <1>2

(* The property, for one event.                                            *)
EventTrue(k) ==
  /\ g.events[k].at = (k - 1) * NPub
  /\ \E d \in Delays(g.events[k].key, n_discard, sets) :
       g.out[g.events[k].at + 1] = g.events[k].value + d
  /\ g.events[k].key \in Requests =>
       [at |-> g.events[k].value, key |-> g.events[k].key] \in ToSet(stream)

LEMMA EventTrueFacts ==
  ~ rewound => (EventTagTrue <=> \A k \in DOMAIN g.events : EventTrue(k))
BY DEF EventTagTrue, EventTrue, Delays

LEMMA EventTrueFactsNext ==
  ~ rewound' => (EventTagTrue' <=> \A k \in DOMAIN g'.events : EventTrue(k)')
BY DEF EventTagTrue, EventTrue, Delays

(* What is published keeps its event.                                      *)
LEMMA EventsKept ==
  ASSUME ShapeInv, EventInv, ~ rewound, ~ rewound', g'.out = g.out, g'.events = g.events,
         stream' = stream, (n_discard' = n_discard /\ sets' = sets) \/ sets' > 0
  PROVE  EventTagTrue'
<1>1. \A k \in DOMAIN g.events : EventTrue(k)
  BY EventTrueFacts DEF EventInv
<1>2. ASSUME NEW k \in DOMAIN g.events
      PROVE  EventTrue(k)'
  <2>1. EventTrue(k)
    BY <1>1
  <2>2. \A key, d : d \in Delays(key, n_discard, sets) => d \in Delays(key, n_discard', sets')
    BY DelaysKept DEF ShapeInv
  <2>3. \E d \in Delays(g.events[k].key, n_discard', sets') : g.out[g.events[k].at + 1] = g.events[k].value + d
    BY <2>1, <2>2 DEF EventTrue
  <2> QED
    BY <2>1, <2>3 DEF EventTrue
<1> QED
  BY <1>2, EventTrueFactsNext

LEMMA EventStart ==
  ASSUME ShapeInv, TagInv, EventInv, StartTurn, ~ rewound'
  PROVE  EventInv'
<1>1. PICK key \in Requests \union {"timeout"}, n \in Int, next \in {"discard", "publish"},
           flag \in BOOLEAN : StartMoves(key, n, next, flag)
  BY StartMove
<1>2. g \in GateRec
  BY DEF ShapeInv
<1>3. g.read \in Nat
  BY <1>2, GateTypes
<1>4. /\ StartStep(key, n, next, flag)
      /\ next = "discard" <=> key = "tune"
      /\ key # "timeout" => [at |-> g.read + n, key |-> key] \in ToSet(g.tags)
  BY <1>1 DEF StartMoves
<1>5. /\ g'.read = g.read /\ g'.nread = n /\ g'.pc = next /\ g'.state = "wait"
      /\ g.pc = "work" /\ g.state = "wait"
      /\ g'.out = g.out /\ g'.events = g.events /\ g'.out_offset = g.out_offset
      /\ g'.out_buf = g.out_buf
      /\ g'.event_tag = [at |-> g.out_offset, key |-> key, value |-> g.read + n]
      /\ rewound' = (rewound \/ Position(g)' < Position(g))
      /\ stream' = stream /\ n_discard' = n_discard /\ sets' = sets
  BY <1>4 DEF StartStep, WindowKept, OutputKept, HistoryKept
<1>6. ~ rewound
  BY <1>5
<1>7. Position(g)' = g.read + n /\ g'.event_tag.value = g.read + n /\ g'.event_tag.key = key
      /\ g'.event_tag.at = g.out_offset
  BY <1>5 DEF Position
<1>8. EventTagTrue'
  BY <1>5, <1>6, EventsKept
<1>9. g.out_buf = <<>> /\ Len(g.out_buf) = 0
  BY <1>5 DEF ShapeInv
<1>10. ASSUME g'.pc = "publish"
       PROVE  \E d \in Delays(g'.event_tag.key, n_discard', sets') : BlockStart' = g'.event_tag.value + d
  <2>1. key # "tune" /\ 0 \in Delays(key, n_discard', sets')
    BY <1>4, <1>5, <1>10 DEF Delays
  <2>2. BlockStart' = (g.read + n) - 0
    BY <1>5, <1>7, <1>9 DEF BlockStart
  <2>3. BlockStart' = g'.event_tag.value + 0
    BY <1>3, <1>7, <2>2
  <2> QED
    BY <1>7, <2>1, <2>3
<1>11. key \in Requests => [at |-> g.read + n, key |-> key] \in ToSet(stream)
  <2>1. key \in Requests => key # "timeout"
    BY DEF Requests
  <2> QED
    BY <1>4, <2>1 DEF TagInv, Listed, ToSet
<1>12. g'.pc = "discard" => g'.event_tag.key = "tune" /\ g'.event_tag.value = Position(g)' - 0
  BY <1>3, <1>4, <1>5, <1>7
<1> QED
  BY <1>5, <1>7, <1>8, <1>10, <1>11, <1>12 DEF EventInv, InBlock

LEMMA EventWait ==
  ASSUME ShapeInv, TagInv, EventInv, WaitTurn \/ AbortStep, ~ rewound'
  PROVE  EventInv'
<1>1. /\ g'.pc = "work" /\ g'.state = "wait"
      /\ g'.out = g.out /\ g'.events = g.events /\ g'.out_offset = g.out_offset
      /\ rewound' = (rewound \/ Position(g)' < Position(g))
      /\ stream' = stream /\ n_discard' = n_discard /\ sets' = sets
  <2>1. CASE WaitTurn
    <3>1. PICK n \in Int, since \in Nat, tags \in Seq(Tag), period \in {1, RatePeriod} :
               WaitMoves(n, since, tags, period)
      BY <2>1, WaitMove
    <3> QED
      BY <3>1 DEF WaitMoves, WaitStep, OutputKept, HistoryKept
  <2>2. CASE AbortStep
    BY <2>2 DEF AbortStep, OutputKept
  <2> QED
    BY <2>1, <2>2
<1>2. ~ rewound
  BY <1>1
<1>3. EventTagTrue'
  BY <1>1, <1>2, EventsKept
<1> QED
  BY <1>1, <1>3 DEF EventInv, InBlock

LEMMA EventDiscard ==
  ASSUME ShapeInv, TagInv, EventInv, DiscardStep, ~ rewound'
  PROVE  EventInv'
<1>1. g \in GateRec /\ n_discard \in NDiscards
  BY DEF ShapeInv
<1>2. /\ g.read \in Nat /\ g.nread \in Int /\ g.n_since \in Nat
      /\ Position(g) = g.read + g.nread
  BY <1>1, GateTypes DEF ShapeInv
<1>3. /\ Since \in Nat /\ Here \in Nat /\ n_discard' \in Nat
      /\ g'.nread \in Int /\ Position(g)' = g.read + g'.nread
      /\ (g.state = "wait" => g.pc = "discard") /\ g.state # "publish" /\ g.out_buf = <<>>
      /\ g.pc \in {"work", "discard"}
  BY DiscardMove
<1>4. /\ g'.out = g.out /\ g'.events = g.events /\ g'.out_offset = g.out_offset
      /\ g'.out_buf = g.out_buf /\ g'.event_tag = g.event_tag
      /\ rewound => rewound'
      /\ stream' = stream
      /\ (n_discard' = n_discard /\ sets' = sets) \/ sets' > 0
      /\ n_discard' \in NDiscards
  BY DEF DiscardStep, OutputKept
<1>5. ~ rewound
  BY <1>4
<1>6. g.pc = "discard" \/ g.state = "discard"
  BY DEF DiscardStep
<1>7. /\ g.event_tag.key = "tune" /\ g.event_tag.at = g.out_offset
      /\ [at |-> g.event_tag.value, key |-> g.event_tag.key] \in ToSet(stream)
  BY <1>6 DEF EventInv, Requests
<1>8. g.event_tag.value = Position(g) - Since
  <2>1. g.pc = "discard" => g.state = "wait"
    BY DEF ShapeInv, Walking
  <2>2. Since = IF g.pc = "discard" THEN 0 ELSE g.n_since
    BY <1>3, <2>1 DEF Since
  <2> QED
    BY <1>6, <2>2 DEF EventInv
<1>9. EventTagTrue'
  BY <1>4, <1>5, EventsKept
<1>10. CASE g'.nread = g.nread + Here /\ g'.n_since = Since + Here /\ g'.state = "discard" /\ g'.pc = "work"
  <2>1. g'.event_tag.value = Position(g)' - g'.n_since
    BY <1>2, <1>3, <1>4, <1>8, <1>10
  <2> QED
    BY <1>4, <1>7, <1>9, <1>10, <2>1 DEF EventInv, InBlock
<1>11. CASE g'.nread = g.nread + (n_discard' - Since) /\ g'.state = "wait" /\ g'.pc = "publish"
  <2>1. BlockStart' = g.read + g'.nread
    <3>1. BlockStart' = Position(g)' - Len(g'.out_buf) /\ Len(g'.out_buf) = 0
      BY <1>3, <1>4 DEF BlockStart
    <3> QED
      BY <1>2, <1>3, <3>1
  <2>2. BlockStart' = g'.event_tag.value + n_discard'
    BY <1>2, <1>3, <1>4, <1>8, <1>11, <2>1
  <2>3. n_discard' \in Delays(g'.event_tag.key, n_discard', sets')
    BY <1>4, <1>7 DEF Delays
  <2>4. \E d \in Delays(g'.event_tag.key, n_discard', sets') : BlockStart' = g'.event_tag.value + d
    BY <2>2, <2>3
  <2> QED
    BY <1>4, <1>7, <1>9, <1>11, <2>4 DEF EventInv, InBlock
<1> QED
  BY <1>10, <1>11 DEF DiscardStep

LEMMA EventPublish ==
  ASSUME ShapeInv, TagInv, g.nread >= 0, OrderInv, EventInv, PublishStep, ~ rewound'
  PROVE  EventInv'
<1>1. /\ g'.out = g.out /\ g'.events = g.events /\ g'.out_offset = g.out_offset
      /\ g'.event_tag = g.event_tag
      /\ rewound' = (rewound \/ Position(g)' < Position(g))
      /\ stream' = stream /\ n_discard' = n_discard /\ sets' = sets
      /\ g'.pc \in {"work", "fill"} /\ g'.state \in {"publish", "wait"}
  BY DEF PublishStep, OutputKept
<1>2. ~ rewound
  BY <1>1
<1>3. InBlock
  BY DEF PublishStep, InBlock
<1>4. BlockStart' = BlockStart
  BY PublishBlock
<1>5. PICK d \in Delays(g.event_tag.key, n_discard, sets) : BlockStart = g.event_tag.value + d
  BY <1>3 DEF EventInv
<1>6. d \in Delays(g'.event_tag.key, n_discard', sets') /\ BlockStart' = g'.event_tag.value + d
  BY <1>1, <1>4, <1>5 DEF Delays
<1>7. EventTagTrue'
  BY <1>1, <1>2, EventsKept
<1>8. /\ g.event_tag.at = g.out_offset
      /\ g.event_tag.key \in Requests =>
           [at |-> g.event_tag.value, key |-> g.event_tag.key] \in ToSet(stream)
  BY <1>3 DEF EventInv
<1> QED
  BY <1>1, <1>6, <1>7, <1>8 DEF EventInv

LEMMA Multiples ==
  ASSUME NEW n \in Nat, n > 0, NEW q \in Nat
  PROVE  /\ (q + 1) * n = q * n + n /\ q * n \in Nat
         /\ \A k \in 1 .. q : (k - 1) * n \in Nat /\ (k - 1) * n + 1 \in 1 .. q * n
<1>1. (q + 1) * n = q * n + n /\ q * n \in Nat
  OBVIOUS
<1>2. ASSUME NEW k \in 1 .. q
      PROVE  (k - 1) * n \in Nat /\ (k - 1) * n + 1 \in 1 .. q * n
  <2>1. k - 1 \in Nat /\ q - k \in Nat
    OBVIOUS
  <2>2. (k - 1) * n \in Nat /\ (q - k) * n \in Nat /\ q * n = (k - 1) * n + (q - k) * n + n
    BY <2>1
  <2> QED
    BY <1>1, <2>2
<1> QED
  BY <1>1, <1>2

LEMMA EventFill ==
  ASSUME ShapeInv, OrderInv, EventInv, FillStep, ~ rewound'
  PROVE  EventInv'
<1>1. /\ g'.pc \in {"work", "idle"} /\ g'.state = "wait"
      /\ g'.events = Append(g.events, g.event_tag) /\ g'.out_offset = g.out_offset + NPub
      /\ Len(g'.out) = Len(g.out) + NPub
      /\ \A i \in 1 .. Len(g.out) : g'.out[i] = g.out[i]
      /\ \A i \in 1 .. NPub : g'.out[Len(g.out) + i] = BlockStart + i - 1
  BY FillBlock
<1>2. /\ stream' = stream /\ n_discard' = n_discard /\ sets' = sets /\ ~ rewound
      /\ g.pc = "fill"
  BY DEF FillStep
<1>3. g \in GateRec
  BY DEF ShapeInv
<1>4. /\ NPub \in Nat /\ NPub > 0 /\ g.events \in Seq(Event) /\ Len(g.events) \in Nat
      /\ g.event_tag \in Event /\ Len(g.out) \in Nat /\ Position(g) \in Int
      /\ Len(g.out_buf) \in Nat
  BY <1>3, GateTypes
<1>5. BlockStart \in Int
  BY <1>4 DEF BlockStart
<1>6. InBlock
  BY <1>2 DEF InBlock
<1>7. /\ g.out_offset = Len(g.out) /\ Len(g.out) = Len(g.events) * NPub
      /\ g.event_tag.at = g.out_offset
      /\ g.event_tag.key \in Requests =>
           [at |-> g.event_tag.value, key |-> g.event_tag.key] \in ToSet(stream)
      /\ \E d \in Delays(g.event_tag.key, n_discard, sets) : BlockStart = g.event_tag.value + d
  BY <1>6 DEF EventInv
<1>8. \A k \in DOMAIN g.events : EventTrue(k)
  BY <1>2, EventTrueFacts DEF EventInv
<1>9. /\ Len(g'.events) = Len(g.events) + 1 /\ DOMAIN g'.events = 1 .. Len(g.events) + 1
      /\ \A k \in 1 .. Len(g.events) : g'.events[k] = g.events[k]
      /\ g'.events[Len(g.events) + 1] = g.event_tag
  BY <1>1, <1>4, AppendProperties
<1>10. \A key : Delays(key, n_discard', sets') = Delays(key, n_discard, sets)
  BY <1>2 DEF Delays
<1>11. ASSUME NEW k \in 1 .. Len(g.events)
       PROVE  EventTrue(k)'
  <2>1. EventTrue(k) /\ g'.events[k] = g.events[k]
    BY <1>4, <1>8, <1>9
  <2>2. g.events[k].at = (k - 1) * NPub
    BY <2>1 DEF EventTrue
  <2>3. g.events[k].at + 1 \in 1 .. Len(g.out)
    BY <1>4, <1>7, <2>2, Multiples
  <2>4. g'.out[g.events[k].at + 1] = g.out[g.events[k].at + 1]
    BY <1>1, <2>3
  <2> QED
    BY <1>2, <1>10, <2>1, <2>4 DEF EventTrue
<1>12. ASSUME NEW k, k = Len(g.events) + 1
       PROVE  EventTrue(k)'
  <2>1. g.event_tag.at = Len(g.events) * NPub
    BY <1>7
  <2>2. (Len(g.events) + 1) - 1 = Len(g.events)
    BY <1>4
  <2>3. g'.out[g.event_tag.at + 1] = BlockStart
    <3>1. 1 \in 1 .. NPub
      BY <1>4
    <3>2. g'.out[Len(g.out) + 1] = BlockStart + 1 - 1
      BY <1>1, <3>1
    <3> QED
      BY <1>5, <1>7, <3>2
  <2>4. g'.events[k] = g.event_tag /\ (k - 1) = Len(g.events)
    BY <1>9, <1>12, <2>2
  <2> QED
    BY <1>2, <1>7, <1>10, <2>1, <2>3, <2>4 DEF EventTrue
<1>13. EventTagTrue'
  <2>1. \A k \in DOMAIN g'.events : k \in 1 .. Len(g.events) \/ k = Len(g.events) + 1
    BY <1>4, <1>9
  <2> QED
    BY <1>11, <1>12, <2>1, EventTrueFactsNext
<1>14. g'.out_offset = Len(g'.out) /\ Len(g'.out) = Len(g'.events) * NPub
  <2>1. (Len(g.events) + 1) * NPub = Len(g.events) * NPub + NPub
    BY <1>4, Multiples
  <2> QED
    BY <1>1, <1>7, <1>9, <2>1
<1> QED
  BY <1>1, <1>13, <1>14 DEF EventInv, InBlock

LEMMA EventStep ==
  ASSUME ShapeInv, TagInv, OrderInv, EventInv, Turn, ~ rewound'
  PROVE  EventInv'
<1>1. /\ g \in GateRec /\ g.nread >= 0
      /\ g.read \in Nat /\ g.in_len \in Nat /\ g.nread \in Int /\ Position(g) = g.read + g.nread
  BY GateTypes DEF ShapeInv
<1>2. ASSUME EndStep \/ CallStep \/ SetNDiscard
      PROVE  EventInv'
  <2>1. /\ g'.out = g.out /\ g'.events = g.events /\ g'.out_offset = g.out_offset
        /\ g'.out_buf = g.out_buf /\ g'.event_tag = g.event_tag
        /\ g'.state = g.state /\ g'.n_since = g.n_since
        /\ g'.pc = g.pc \/ (g.pc \in {"work", "idle"} /\ g'.pc \in {"work", "idle"})
        /\ rewound' = rewound /\ stream' = stream
        /\ (n_discard' = n_discard /\ sets' = sets) \/ sets' > 0
    BY <1>2 DEF ShapeInv, EndStep, CallStep, SetNDiscard, OutputKept
  <2>2. g.state # "wait" \/ g.pc \notin {"work", "idle"} => Position(g)' = Position(g)
    <3>1. CASE EndStep
      <4>1. /\ g.pc = "work" /\ g.nread >= g.in_len
            /\ g'.read = g.read + g.in_len /\ g'.nread = 0
        BY <3>1 DEF EndStep
      <4>2. g.nread > g.in_len => g.state = "wait"
        BY <4>1 DEF ShapeInv, Walking
      <4>3. Position(g)' = g.read + g.in_len
        BY <1>1, <4>1 DEF Position
      <4> QED
        BY <1>1, <4>1, <4>2, <4>3
    <3>2. CASE CallStep
      BY <3>2, ShapeCall
    <3>3. CASE SetNDiscard
      BY <3>3 DEF SetNDiscard, Position
    <3> QED
      BY <1>2, <3>1, <3>2, <3>3
  <2>3. EventTagTrue'
    BY <2>1, EventsKept
  <2>4. InBlock' => InBlock /\ BlockStart' = BlockStart
    BY <2>1, <2>2 DEF InBlock, BlockStart
  <2>5. \A key, d : d \in Delays(key, n_discard, sets) => d \in Delays(key, n_discard', sets')
    BY <2>1, DelaysKept DEF ShapeInv
  <2>6. InBlock' => \E d \in Delays(g.event_tag.key, n_discard', sets') : BlockStart' = g.event_tag.value + d
    BY <2>4, <2>5 DEF EventInv
  <2> QED
    BY <2>1, <2>2, <2>3, <2>4, <2>6 DEF EventInv, InBlock
<1> QED
  BY <1>1, <1>2, EventStart, EventWait, EventDiscard, EventPublish, EventFill DEF Turn

(***************************************************************************)
(* ForwardInv.                                                             *)
(***************************************************************************)
LEMMA ForwardedFields ==
  ASSUME g \in GateRec
  PROVE  \A p \in g.passed : p.pos \in Int /\ p.at \in Int
<1>1. g.passed \in SUBSET [pos : Int, at : Int, exact : BOOLEAN]
  BY DEF GateRec
<1> QED
  BY <1>1

(* Outside a block nothing is waiting for its sample.                      *)
LEMMA ForwardSettled ==
  ASSUME g \in GateRec, ForwardInv, (g.state # "publish" /\ g.pc # "fill") \/ g.pubtimeout,
         g'.passed = g.passed, g'.out = g.out
  PROVE  ForwardInv'
<1> SUFFICES ASSUME NEW p \in g.passed, p.exact
             PROVE  /\ p.pos >= 0 /\ (p.pos < Len(g.out) => g.out[p.pos + 1] = p.at)
                    /\ ~ (p.pos >= Len(g.out))
  BY DEF ForwardInv
<1> QED
  BY DEF ForwardInv

LEMMA ForwardPublish ==
  ASSUME ShapeInv, TagInv, ~ torn, g.nread >= 0, OrderInv, ForwardInv, PublishStep
  PROVE  ForwardInv'
<1>1. g \in GateRec
  BY DEF ShapeInv
<1>2. /\ g.read \in Nat /\ g.nread \in Int /\ Position(g) = g.read + g.nread /\ NPub \in Nat
      /\ g.tags \in Seq(Tag) /\ Len(g.out) \in Nat /\ g.nout_total \in Nat /\ g.nout \in Nat
  BY <1>1, GateTypes
<1>3. /\ BlockStart' = BlockStart /\ BlockStart = Position(g) - Since
  BY PublishBlock
<1>4. /\ g'.out = g.out /\ g'.pubtimeout = g.pubtimeout
      /\ g'.state = "publish" \/ g'.pc = "fill"
      /\ \A p \in g'.passed :
           \/ p \in g.passed
           \/ \E i \in TagsRead(g, NPub) :
                /\ p.at = g.tags[i].at
                /\ p.pos = g.nout_total + g.nout - g.nread + g.tags[i].at - g.read
                /\ p.exact => /\ Since = 0 /\ g.out_buf = <<>> /\ ~ g.pubtimeout
                              /\ g.nout_total + g.nout = Len(g.out)
  BY DEF PublishStep, OutputKept
<1>5. ASSUME NEW p \in g.passed, p.exact
      PROVE  /\ p.pos >= 0
             /\ p.pos < Len(g.out) => g.out[p.pos + 1] = p.at
             /\ p.pos >= Len(g.out) =>
                  /\ ~ g.pubtimeout /\ p.pos < Len(g.out) + NPub
                  /\ p.at = BlockStart + p.pos - Len(g.out)
  BY <1>5 DEF ForwardInv
<1>6. ASSUME NEW p, p.exact, NEW i \in TagsRead(g, NPub),
             p.at = g.tags[i].at,
             p.pos = g.nout_total + g.nout - g.nread + g.tags[i].at - g.read,
             Since = 0, ~ g.pubtimeout, g.nout_total + g.nout = Len(g.out)
      PROVE  /\ p.pos >= 0
             /\ ~ (p.pos < Len(g.out))
             /\ p.pos < Len(g.out) + NPub
             /\ p.at = BlockStart + p.pos - Len(g.out)
  <2>1. i \in DOMAIN g.tags
    BY DEF TagsRead
  <2>2. g.tags[i].at < Position(g) + NPub
    <3>1. g.read \in Int /\ g.nread \in Int /\ NPub \in Int /\ Sorted(g.tags)
      BY <1>2 DEF TagInv, Listed, Ahead
    <3>2. \A j \in DOMAIN g.tags : j \in TagsRead(g, NPub) <=> g.tags[j].at < Position(g) + NPub
      BY <1>2, <3>1, TagsLeftFacts
    <3> QED
      BY <2>1, <3>2
  <2>3. g.tags[i].at \in Int /\ Position(g) <= g.tags[i].at
    BY <2>1, ListedTags DEF ToSet
  <2> DEFINE a == g.tags[i].at
             n == Len(g.out)
  <2>4. /\ a \in Int /\ Position(g) <= a /\ a < Position(g) + NPub /\ n \in Nat
        /\ p.at = a /\ p.pos = n - g.nread + a - g.read
    BY <1>2, <1>6, <2>2, <2>3
  <2> HIDE DEF a, n
  <2>5. p.pos = n + a - Position(g) /\ p.pos \in Int
    BY <1>2, <2>4
  <2>6. BlockStart = Position(g)
    BY <1>2, <1>3, <1>6
  <2>7. p.pos >= 0 /\ ~ (p.pos < n) /\ p.pos < n + NPub /\ p.at = BlockStart + p.pos - n
    BY <1>2, <2>4, <2>5, <2>6
  <2> QED
    BY <2>7 DEF n
<1>7. ASSUME NEW p \in g'.passed, p.exact
      PROVE  /\ p.pos >= 0
             /\ p.pos < Len(g.out) => g.out[p.pos + 1] = p.at
             /\ p.pos >= Len(g.out) =>
                  /\ ~ g.pubtimeout /\ p.pos < Len(g.out) + NPub
                  /\ p.at = BlockStart + p.pos - Len(g.out)
  <2>1. CASE p \in g.passed
    BY <1>5, <1>7, <2>1
  <2>2. CASE p \notin g.passed
    <3>1. PICK i \in TagsRead(g, NPub) :
            /\ p.at = g.tags[i].at
            /\ p.pos = g.nout_total + g.nout - g.nread + g.tags[i].at - g.read
            /\ p.exact => /\ Since = 0 /\ g.out_buf = <<>> /\ ~ g.pubtimeout
                          /\ g.nout_total + g.nout = Len(g.out)
      BY <1>4, <2>2
    <3>2. /\ Since = 0 /\ ~ g.pubtimeout /\ g.nout_total + g.nout = Len(g.out)
      BY <1>7, <3>1
    <3> QED
      BY <1>6, <1>7, <3>1, <3>2
  <2> QED
    BY <2>1, <2>2
<1> QED
  BY <1>3, <1>4, <1>7 DEF ForwardInv

LEMMA ForwardFill ==
  ASSUME ShapeInv, OrderInv, ForwardInv, FillStep
  PROVE  ForwardInv'
<1>1. /\ Len(g'.out) = Len(g.out) + NPub /\ BlockStart = Position(g) - NPub
      /\ \A i \in 1 .. Len(g.out) : g'.out[i] = g.out[i]
      /\ \A i \in 1 .. NPub : g'.out[Len(g.out) + i] = BlockStart + i - 1
  BY FillBlock
<1>2. g \in GateRec
  BY DEF ShapeInv
<1>3. Len(g.out) \in Nat /\ NPub \in Nat /\ Position(g) \in Int
  BY <1>2, GateTypes
<1>4. g'.passed = g.passed
  BY DEF FillStep
<1> DEFINE n == Len(g.out)
<1>5. ASSUME NEW p \in g.passed, p.exact
      PROVE  p.pos >= 0 /\ g'.out[p.pos + 1] = p.at /\ ~ (p.pos >= n + NPub)
  <2>1. /\ p.pos >= 0
        /\ p.pos < n => g.out[p.pos + 1] = p.at
        /\ p.pos >= n => p.pos < n + NPub /\ p.at = BlockStart + p.pos - n
    BY <1>5 DEF ForwardInv
  <2>2. p.pos \in Int /\ p.at \in Int
    BY <1>2, ForwardedFields
  <2>3. n \in Nat /\ BlockStart \in Int
    BY <1>1, <1>3
  <2>4. /\ \A i \in 1 .. n : g'.out[i] = g.out[i]
        /\ \A i \in 1 .. NPub : g'.out[n + i] = BlockStart + i - 1
    BY <1>1
  <2> HIDE DEF n
  <2>5. CASE p.pos < n
    <3>1. p.pos + 1 \in 1 .. n
      BY <2>1, <2>2, <2>3, <2>5
    <3> QED
      BY <1>3, <2>1, <2>2, <2>3, <2>4, <2>5, <3>1
  <2>6. CASE p.pos >= n
    <3> DEFINE k == p.pos - n + 1
    <3>1. k \in 1 .. NPub /\ n + k = p.pos + 1 /\ BlockStart + k - 1 = BlockStart + p.pos - n
      BY <1>3, <2>1, <2>2, <2>3, <2>6
    <3> HIDE DEF k
    <3>2. g'.out[n + k] = BlockStart + k - 1
      BY <2>4, <3>1
    <3> QED
      BY <1>3, <2>1, <2>2, <2>3, <2>6, <3>1, <3>2
  <2> QED
    BY <2>2, <2>3, <2>5, <2>6
<1> QED
  BY <1>1, <1>4, <1>5 DEF ForwardInv

LEMMA ForwardStep ==
  ASSUME ShapeInv, TagInv, ~ torn, OrderInv, ForwardInv, Turn, ~ rewound'
  PROVE  ForwardInv'
<1>1. /\ g \in GateRec /\ g.nread >= 0
      /\ g.read \in Nat /\ g.in_len \in Nat /\ g.nread \in Int /\ Position(g) = g.read + g.nread
  BY GateTypes DEF ShapeInv
<1>2. CASE StartTurn
  <2>1. PICK key \in Requests \union {"timeout"}, n \in Int, next \in {"discard", "publish"},
             flag \in BOOLEAN : StartMoves(key, n, next, flag)
    BY <1>2, StartMove
  <2>2. g.pc = "work" /\ g.state = "wait" /\ g'.out = g.out /\ g'.passed = g.passed
    BY <2>1 DEF StartMoves, StartStep, OutputKept
  <2> QED
    BY <1>1, <2>2, ForwardSettled
<1>3. CASE WaitTurn
  <2>1. PICK n \in Int, since \in Nat, tags \in Seq(Tag), period \in {1, RatePeriod} :
             WaitMoves(n, since, tags, period)
    BY <1>3, WaitMove
  <2>2. g.pc = "work" /\ g.state = "wait" /\ g'.out = g.out /\ g'.passed = g.passed
    BY <2>1 DEF WaitMoves, WaitStep, OutputKept
  <2> QED
    BY <1>1, <2>2, ForwardSettled
<1>4. CASE DiscardStep
  <2>1. g.state # "publish" /\ g.pc \in {"work", "discard"}
    BY <1>4, DiscardMove
  <2>2. g'.out = g.out /\ g'.passed = g.passed
    BY <1>4 DEF DiscardStep, OutputKept
  <2> QED
    BY <1>1, <2>1, <2>2, ForwardSettled
<1>5. CASE AbortStep
  <2>1. g'.out = g.out /\ g'.passed = g.passed /\ g.pubtimeout
    BY <1>5 DEF AbortStep, OutputKept, TagEndsTimeout
  <2> QED
    BY <1>1, <2>1, ForwardSettled
<1>6. CASE EndStep \/ CallStep \/ SetNDiscard
  <2>1. /\ g'.out = g.out /\ g'.passed = g.passed /\ g'.pubtimeout = g.pubtimeout
        /\ g'.out_buf = g.out_buf /\ g'.state = g.state
        /\ g'.pc = g.pc \/ g.pc \in {"work", "idle"}
    BY <1>6 DEF EndStep, CallStep, SetNDiscard, OutputKept
  <2>2. g.state = "publish" \/ g.pc = "fill" => Position(g)' = Position(g)
    <3>1. CASE EndStep
      <4>1. /\ g.pc = "work" /\ g.nread >= g.in_len
            /\ g'.read = g.read + g.in_len /\ g'.nread = 0
        BY <3>1 DEF EndStep
      <4>2. g.nread > g.in_len => g.state = "wait"
        BY <4>1 DEF ShapeInv, Walking
      <4>3. Position(g)' = g.read + g.in_len
        BY <1>1, <4>1 DEF Position
      <4> QED
        BY <1>1, <4>1, <4>2, <4>3
    <3>2. CASE CallStep
      BY <3>2, ShapeCall
    <3>3. CASE SetNDiscard
      BY <3>3 DEF SetNDiscard, Position
    <3> QED
      BY <1>6, <3>1, <3>2, <3>3
  <2>3. g.state = "publish" \/ g.pc = "fill" => BlockStart' = BlockStart
    BY <2>1, <2>2 DEF BlockStart
  <2>4. g.state = "publish" \/ g.pc = "fill" => g'.state = "publish" \/ g'.pc = "fill"
    BY <2>1
  <2> QED
    BY <2>1, <2>3, <2>4 DEF ForwardInv
<1> QED
  BY <1>1, <1>2, <1>3, <1>4, <1>5, <1>6, ForwardPublish, ForwardFill DEF Turn

(***************************************************************************)
(* RateInv.                                                                *)
(***************************************************************************)
(* The edge never moves back.                                              *)
LEMMA EdgeStep ==
  ASSUME ShapeInv, TagInv, g.nread >= 0, OrderInv, Turn, ~ rewound'
  PROVE  Edge' >= Edge /\ g'.read >= g.read
<1>1. /\ g \in GateRec /\ Position(g) >= 0
      /\ g.read \in Nat /\ g.in_len \in Nat /\ g.nread \in Int /\ Position(g) = g.read + g.nread
  BY GateTypes DEF ShapeInv
<1>2. Edge \in Int /\ Edge <= Position(g) /\ Edge <= g.read + g.in_len
  BY <1>1, EdgeFacts
<1>3. ASSUME g' \in GateRec, g'.read = g.read, g'.in_len = g.in_len,
             rewound' = (rewound \/ Position(g)' < Position(g))
      PROVE  Edge' >= Edge /\ g'.read >= g.read
  <2>1. ~ (Position(g)' < Position(g))
    BY <1>3
  <2> QED
    BY <1>1, <1>2, <1>3, <2>1, EdgeFactsNext
<1>4. CASE StartTurn
  <2>1. PICK key \in Requests \union {"timeout"}, n \in Int, next \in {"discard", "publish"},
             flag \in BOOLEAN : StartMoves(key, n, next, flag)
    BY <1>4, StartMove
  <2>2. /\ g' \in GateRec /\ g'.read = g.read /\ g'.in_len = g.in_len
        /\ rewound' = (rewound \/ Position(g)' < Position(g))
    BY <2>1 DEF StartMoves, StartStep, WindowKept, HistoryKept
  <2> QED
    BY <1>3, <2>2
<1>5. CASE WaitTurn
  <2>1. PICK n \in Int, since \in Nat, tags \in Seq(Tag), period \in {1, RatePeriod} :
             WaitMoves(n, since, tags, period)
    BY <1>5, WaitMove
  <2>2. /\ g' \in GateRec /\ g'.read = g.read /\ g'.in_len = g.in_len
        /\ rewound' = (rewound \/ Position(g)' < Position(g))
    BY <2>1 DEF WaitMoves, WaitStep, WindowKept, HistoryKept
  <2> QED
    BY <1>3, <2>2
<1>6. CASE DiscardStep
  <2>1. /\ g' \in GateRec /\ g'.read = g.read /\ g'.in_len = g.in_len
    BY <1>6 DEF DiscardStep, WindowKept
  <2>2. /\ g.nread <= g'.nread /\ g'.nread <= g.in_len /\ g'.nread \in Int
        /\ Position(g)' = g.read + g'.nread
    BY <1>6, DiscardMove
  <2> QED
    BY <1>1, <1>2, <2>1, <2>2, EdgeFactsNext
<1>7. CASE AbortStep
  <2>1. /\ g' \in GateRec /\ g'.read = g.read /\ g'.in_len = g.in_len
        /\ rewound' = (rewound \/ Position(g)' < Position(g))
    BY <1>7 DEF AbortStep, WindowKept
  <2> QED
    BY <1>3, <2>1
<1>8. CASE PublishStep
  <2>1. /\ g' \in GateRec /\ g'.read = g.read /\ g'.in_len = g.in_len
        /\ rewound' = (rewound \/ Position(g)' < Position(g))
    BY <1>8 DEF PublishStep, WindowKept
  <2> QED
    BY <1>3, <2>1
<1>9. CASE FillStep
  <2>1. Edge' = Position(g) /\ Edge = Position(g) /\ g'.pc \in {"work", "idle"}
    BY <1>9, FillBlock
  <2>2. g'.read = g.read \/ g'.read = g.read + g.nread
    BY <1>9, <2>1 DEF FillStep, WindowKept
  <2> QED
    BY <1>1, <2>1, <2>2
<1>10. CASE EndStep
  <2>1. /\ g.nread >= g.in_len
        /\ g' \in GateRec /\ g'.read = g.read + g.in_len /\ g'.in_len = 0 /\ g'.nread = 0
    BY <1>10 DEF EndStep
  <2> QED
    BY <1>1, <2>1, EdgeFacts, EdgeFactsNext
<1>11. CASE CallStep
  <2>1. /\ Position(g)' = Position(g) /\ g.nread = 0 /\ g'.nread = 0
        /\ g' \in GateRec /\ g'.read = g.read
    BY <1>11, ShapeCall DEF CallStep
  <2>2. g'.in_len >= 0
    BY <2>1, EdgeFactsNext
  <2> QED
    BY <1>1, <2>1, <2>2, EdgeFacts, EdgeFactsNext
<1>12. CASE SetNDiscard
  <2>1. g' = g
    BY <1>12 DEF SetNDiscard
  <2>2. Edge' = Edge
    BY <2>1 DEF Edge
  <2> QED
    BY <1>1, <1>2, <2>1, <2>2
<1> QED
  BY <1>4, <1>5, <1>6, <1>7, <1>8, <1>9, <1>10, <1>11, <1>12 DEF Turn

(* A rate tag not listed, but in the window or before it, is in force.     *)
InForce == \A t \in RateTags : t \notin ToSet(g.tags) /\ t.at < g.read + g.in_len =>
                                 g.samp_period = RatePeriod
Announced == g.samp_period # 1 => \E t \in RateTags : t.at <= Edge

LEMMA InForceStep ==
  ASSUME ShapeInv, TagInv, ~ torn, ~ torn', InForce, Turn
  PROVE  InForce'
<1>1. /\ g \in GateRec
      /\ g.read \in Nat /\ g.in_len \in Nat /\ g.nread \in Int /\ Position(g) = g.read + g.nread
      /\ g.tags \in Seq(Tag) /\ Sorted(g.tags) /\ NPub \in Int
  BY GateTypes DEF ShapeInv, TagInv, Listed, Ahead
<1>2. \A t \in RateTags : t \in ToSet(stream) /\ t.at \in Int /\ t.key = "rate"
  BY StreamTags DEF RateTags
<1>3. ASSUME g'.tags = g.tags, g'.read = g.read, g'.in_len = g.in_len,
             g'.samp_period = g.samp_period, stream' = stream
      PROVE  InForce'
  BY <1>3 DEF InForce, RateTags
<1>4. CASE StartTurn
  <2>1. PICK key \in Requests \union {"timeout"}, n \in Int, next \in {"discard", "publish"},
             flag \in BOOLEAN : StartMoves(key, n, next, flag)
    BY <1>4, StartMove
  <2>2. /\ g'.tags = g.tags /\ g'.read = g.read /\ g'.in_len = g.in_len
        /\ g'.samp_period = g.samp_period /\ stream' = stream
    BY <2>1 DEF StartMoves, StartStep, WindowKept, HistoryKept
  <2> QED
    BY <1>3, <2>2
<1>5. CASE RateStep
  <2>1. g'.samp_period = RatePeriod
    BY <1>5 DEF RateStep, WaitStep
  <2> QED
    BY <2>1 DEF InForce
<1>6. CASE ForeignStep
  <2>1. /\ g'.read = g.read /\ g'.in_len = g.in_len /\ g'.tags = Tail(g.tags)
        /\ g'.samp_period = g.samp_period /\ stream' = stream
        /\ g.tags # <<>> /\ g.tags[1].key = "foreign"
    BY <1>6 DEF ForeignStep, FirstTag, WaitStep, WindowKept, HistoryKept
  <2>2. ToSet(g.tags) \subseteq ToSet(Tail(g.tags)) \union {g.tags[1]}
    BY <1>1, <2>1, TailFacts
  <2>3. \A t \in RateTags : t \in ToSet(g.tags) => t \in ToSet(g'.tags)
    BY <1>2, <2>1, <2>2
  <2> QED
    BY <2>1, <2>3 DEF InForce, RateTags
<1>7. CASE NearStep \/ WaitEndStep
  <2>1. /\ g'.tags = g.tags /\ g'.read = g.read /\ g'.in_len = g.in_len
        /\ g'.samp_period = g.samp_period /\ stream' = stream
    BY <1>7 DEF NearStep, WaitEndStep, WaitStep, WindowKept, HistoryKept
  <2> QED
    BY <1>3, <2>1
<1>8. CASE SteadyDiscard
  <2>1. /\ g'.read = g.read /\ g'.in_len = g.in_len /\ g'.tags = TagsLeft(g, Left)
        /\ RatesLeft = {} => g'.samp_period = g.samp_period
        /\ RatesLeft # {} => g'.samp_period = RatePeriod
        /\ stream' = stream
    BY <1>8 DEF SteadyDiscard, WindowKept
  <2>2. g.read \in Int /\ g.nread \in Int /\ Left \in Int
    BY <1>1, <1>8, SteadyMove
  <2>3. /\ \A t : t \in ToSet(TagsLeft(g, Left))
                    <=> t \in ToSet(g.tags) /\ Position(g) + Left <= t.at
        /\ \A i \in DOMAIN g.tags :
             i \in TagsRead(g, Left) <=> g.tags[i].at < Position(g) + Left
    BY <1>1, <2>2, TagsLeftFacts
  <2>4. ASSUME NEW t \in RateTags, t \notin ToSet(g'.tags), t \in ToSet(g.tags)
        PROVE  g'.samp_period = RatePeriod
    <3>1. PICK i \in DOMAIN g.tags : t = g.tags[i]
      BY <2>4 DEF ToSet
    <3>2. ~ (Position(g) + Left <= t.at)
      BY <2>1, <2>3, <2>4
    <3>3. t.at < Position(g) + Left
      BY <1>1, <1>2, <2>2, <3>2
    <3>4. i \in RatesLeft
      BY <1>2, <2>3, <3>1, <3>3 DEF RatesLeft
    <3> QED
      BY <2>1, <3>4
  <2> QED
    BY <2>1, <2>4 DEF InForce, RateTags
<1>9. CASE AbortStep
  <2>1. /\ g'.tags = g.tags /\ g'.read = g.read /\ g'.in_len = g.in_len
        /\ g'.samp_period = g.samp_period /\ stream' = stream
    BY <1>9 DEF AbortStep, WindowKept
  <2> QED
    BY <1>3, <2>1
<1>10. CASE PublishStep
  <2>1. /\ g'.read = g.read /\ g'.in_len = g.in_len /\ g'.tags = TagsLeft(g, NPub)
        /\ g'.samp_period = IF \E i \in TagsRead(g, NPub) : g.tags[i].key = "rate"
                            THEN RatePeriod ELSE g.samp_period
        /\ stream' = stream
    BY <1>10 DEF PublishStep, WindowKept
  <2>2. g.read \in Int /\ g.nread \in Int /\ NPub \in Int
    BY <1>1
  <2>3. /\ \A t : t \in ToSet(TagsLeft(g, NPub))
                    <=> t \in ToSet(g.tags) /\ Position(g) + NPub <= t.at
        /\ \A i \in DOMAIN g.tags :
             i \in TagsRead(g, NPub) <=> g.tags[i].at < Position(g) + NPub
    BY <1>1, <2>2, TagsLeftFacts
  <2>4. ASSUME NEW t \in RateTags, t \notin ToSet(g'.tags), t \in ToSet(g.tags)
        PROVE  g'.samp_period = RatePeriod
    <3>1. PICK i \in DOMAIN g.tags : t = g.tags[i]
      BY <2>4 DEF ToSet
    <3>2. ~ (Position(g) + NPub <= t.at)
      BY <2>1, <2>3, <2>4
    <3>3. t.at < Position(g) + NPub
      BY <1>1, <1>2, <3>2
    <3>4. i \in TagsRead(g, NPub) /\ g.tags[i].key = "rate"
      BY <1>2, <2>3, <3>1, <3>3
    <3> QED
      BY <2>1, <3>4
  <2> QED
    BY <2>1, <2>4 DEF InForce, RateTags
<1>11. CASE FillStep \/ EndStep
  <2>1. CASE g'.tags = g.tags /\ g'.read = g.read /\ g'.in_len = g.in_len
             /\ g'.samp_period = g.samp_period /\ stream' = stream
    BY <1>3, <2>1
  <2>2. CASE /\ g'.in_len = 0 /\ g'.samp_period = g.samp_period /\ stream' = stream
             /\ \/ g'.read = g.read + g.nread /\ g.nread <= g.in_len
                \/ g'.read = g.read + g.in_len /\ g.nread >= g.in_len
    <3>1. \A t \in RateTags : t.at < g'.read + g'.in_len =>
            t \notin ToSet(g.tags) /\ t.at < g.read + g.in_len
      <4> SUFFICES ASSUME NEW t \in RateTags, t.at < g'.read + g'.in_len
                   PROVE  t \notin ToSet(g.tags) /\ t.at < g.read + g.in_len
        OBVIOUS
      <4>1. t \in ToSet(g.tags) => Position(g) <= t.at /\ t.at < g.read + g.in_len
        BY ListedTags
      <4> QED
        BY <1>1, <1>2, <2>2, <4>1
    <3> QED
      BY <2>2, <3>1 DEF InForce, RateTags
  <2>3. CASE FillStep
    <3>1. g.nread <= g.in_len
      BY <2>3 DEF FillStep, ShapeInv
    <3> QED
      BY <2>1, <2>2, <2>3, <3>1 DEF FillStep, WindowKept
  <2>4. CASE EndStep
    BY <2>2, <2>4 DEF EndStep
  <2> QED
    BY <1>11, <2>3, <2>4
<1>12. CASE CallStep
  <2>1. /\ g.nread = 0
        /\ \A t : t \in ToSet(g'.tags)
                    <=> t \in ToSet(stream) /\ Position(g) <= t.at /\ t.at < g'.read + g'.in_len
    BY <1>12, ShapeCall
  <2>2. g'.samp_period = g.samp_period /\ stream' = stream /\ g.in_len = 0 /\ g.tags = <<>>
    BY <1>12 DEF CallStep, ShapeInv
  <2>3. ASSUME NEW t \in RateTags, t \notin ToSet(g'.tags), t.at < g'.read + g'.in_len
        PROVE  t \notin ToSet(g.tags) /\ t.at < g.read + g.in_len
    <3>1. ~ (Position(g) <= t.at)
      BY <1>2, <2>1, <2>3
    <3>2. t.at < g.read + g.in_len
      BY <1>1, <1>2, <2>1, <2>2, <3>1
    <3>3. t \notin ToSet(g.tags)
      BY <3>1, ListedTags
    <3> QED
      BY <3>2, <3>3
  <2> QED
    BY <2>2, <2>3 DEF InForce, RateTags
<1>13. CASE SetNDiscard
  BY <1>3, <1>13 DEF SetNDiscard
<1>14. DiscardStep => SteadyDiscard
  BY DEF DiscardStep
<1> QED
  BY <1>4, <1>5, <1>6, <1>7, <1>8, <1>9, <1>10, <1>11, <1>12, <1>13, <1>14 DEF Turn, WaitTurn

LEMMA AnnouncedStep ==
  ASSUME ShapeInv, TagInv, ~ torn, ~ torn', OrderInv, Announced, Turn, ~ rewound',
         RateTags' \intersect overread' = {}
  PROVE  Announced'
<1>1. /\ g \in GateRec
      /\ g.read \in Nat /\ g.in_len \in Nat /\ g.nread \in Int /\ Position(g) = g.read + g.nread
      /\ g.tags \in Seq(Tag) /\ Sorted(g.tags) /\ NPub \in Int
  BY GateTypes DEF ShapeInv, TagInv, Listed, Ahead
<1>2. \A t \in RateTags : t \in ToSet(stream) /\ t.at \in Int /\ t.key = "rate"
  BY StreamTags DEF RateTags
<1>3. stream' = stream /\ RateTags' = RateTags
  <2>1. stream' = stream
    BY DEF Turn, StartTurn, WaitTurn, TuneStep, PubStep, TimeoutStep, RateStep, ForeignStep,
           NearStep, WaitEndStep, StartStep, WaitStep, HistoryKept, DiscardStep, AbortStep,
           PublishStep, FillStep, CallStep, SetNDiscard, EndStep
  <2> QED
    BY <2>1 DEF RateTags
<1>4. Edge' >= Edge /\ Edge \in Int /\ Edge' \in Int
  <2>1. g' \in GateRec
    BY ShapeStep DEF ShapeInv
  <2> QED
    BY <1>1, <2>1, EdgeStep, EdgeFacts, EdgeFactsNext DEF ShapeInv
<1>5. ASSUME g'.samp_period = g.samp_period
      PROVE  Announced'
  <2> SUFFICES ASSUME g.samp_period # 1
               PROVE  \E t \in RateTags : t.at <= Edge'
    BY <1>3, <1>5 DEF Announced
  <2>1. PICK t \in RateTags : t.at <= Edge
    BY DEF Announced
  <2>2. t.at <= Edge'
    BY <1>2, <1>4, <2>1
  <2> QED
    BY <2>2
<1>6. ASSUME NEW i \in DOMAIN g.tags, g.tags[i].key = "rate", g.tags[i].at <= Edge'
      PROVE  Announced'
  <2>1. g.tags[i] \in RateTags
    BY <1>6, ListedTags DEF RateTags, ToSet
  <2> QED
    BY <1>3, <1>6, <2>1 DEF Announced
<1>7. CASE RateStep
  <2>1. /\ g'.read = g.read /\ g'.in_len = g.in_len /\ g'.nread = next_tag
        /\ g.tags # <<>> /\ g.tags[1].key = "rate" /\ g' \in GateRec
    BY <1>7 DEF RateStep, FirstTag, WaitStep, WindowKept
  <2>2. g.read + next_tag = g.tags[1].at /\ next_tag < g.in_len /\ next_tag \in Nat
    BY <1>1, <2>1, FirstTagFacts DEF TagInv
  <2>3. g.tags[1].at <= Edge' /\ 1 \in DOMAIN g.tags
    <3>1. Edge' = g.read + next_tag
      BY <1>1, <2>1, <2>2, EdgeFactsNext
    <3>2. 1 \in DOMAIN g.tags
      BY <1>1, <2>1
    <3> QED
      BY <1>1, <2>2, <3>1, <3>2
  <2> QED
    BY <1>6, <2>1, <2>3
<1>8. CASE SteadyDiscard /\ RatesLeft # {}
  <2>1. /\ g'.read = g.read /\ g'.in_len = g.in_len /\ g'.nread = g.nread + Left
        /\ Min(RatesLeft) \in RatesLeft /\ g' \in GateRec
    BY <1>8 DEF SteadyDiscard, WindowKept
  <2>2. g.read \in Int /\ g.nread \in Int /\ Left \in Int /\ g.nread + Left <= g.in_len
        /\ Position(g)' = (g.read + g.nread) + Left
    BY <1>1, <1>8, SteadyMove
  <2>3. \A i \in DOMAIN g.tags :
          i \in TagsRead(g, Left) <=> g.tags[i].at < Position(g) + Left
    BY <1>1, <2>2, TagsLeftFacts
  <2>4. PICK i \in RatesLeft : TRUE
    BY <1>8
  <2>5. i \in DOMAIN g.tags /\ i \in TagsRead(g, Left) /\ g.tags[i].key = "rate"
    BY <2>4 DEF RatesLeft, TagsRead
  <2>6. Edge' = Position(g)'
    BY <2>1, <2>2, EdgeFactsNext
  <2>7. g.tags[i].at < Position(g) + Left /\ g.tags[i].at \in Int
    BY <2>3, <2>5, ListedTags DEF ToSet
  <2>8. g.tags[i].at <= Edge'
    BY <1>1, <2>2, <2>6, <2>7
  <2> QED
    BY <1>6, <2>5, <2>8
<1>9. CASE PublishStep /\ \E i \in TagsRead(g, NPub) : g.tags[i].key = "rate"
  <2>1. PICK i \in TagsRead(g, NPub) : g.tags[i].key = "rate"
    BY <1>9
  <2>2. i \in DOMAIN g.tags
    BY DEF TagsRead
  <2>3. g.tags[i].at < Position(g) + NPub /\ g.tags[i].at \in Int
        /\ g.tags[i].at < g.read + g.in_len
    <3>1. g.read \in Int /\ g.nread \in Int /\ NPub \in Int
      BY <1>1
    <3>2. \A j \in DOMAIN g.tags : j \in TagsRead(g, NPub) <=> g.tags[j].at < Position(g) + NPub
      BY <1>1, <3>1, TagsLeftFacts
    <3>3. g.tags[i].at < Position(g) + NPub
      BY <2>2, <3>2
    <3> QED
      BY <2>2, <3>3, ListedTags DEF ToSet
  <2>4. /\ g'.read = g.read /\ g'.in_len = g.in_len /\ g' \in GateRec
        /\ g'.tags = TagsLeft(g, NPub)
        /\ overread' = overread \union
             (IF g.state = "publish"
              THEN {t \in ToSet(g.tags) \ ToSet(g'.tags) : t.at >= Position(g)'}
              ELSE {})
    BY <1>9 DEF PublishStep, WindowKept
  <2>5. /\ g'.nread <= g.in_len /\ Position(g)' = g.read + g'.nread /\ g'.nread \in Int
        /\ Here = g.in_len - g.nread /\ Since \in Nat
        /\ (g.state = "wait" /\ Since = 0) \/ g.state = "publish"
    BY <1>9, PublishMove
  <2>6. Edge' = Position(g)'
    BY <2>4, <2>5, EdgeFactsNext
  <2>7. g.tags[i].at <= Position(g)'
    <3>1. CASE g.state = "publish"
      <4> SUFFICES ASSUME g.tags[i].at >= Position(g)'
                   PROVE  FALSE
        BY <1>1, <2>3, <2>5
      <4>1. g.tags[i] \in ToSet(g.tags) /\ g.tags[i] \in RateTags
        BY <2>1, <2>2, ListedTags DEF RateTags, ToSet
      <4>2. g.tags[i] \notin ToSet(g'.tags)
        <5>1. /\ g.read \in Int /\ g.nread \in Int /\ NPub \in Int
          BY <1>1
        <5>2. \A t : t \in ToSet(TagsLeft(g, NPub))
                       <=> t \in ToSet(g.tags) /\ Position(g) + NPub <= t.at
          BY <1>1, <5>1, TagsLeftFacts
        <5>3. ~ (Position(g) + NPub <= g.tags[i].at)
          BY <1>1, <2>3
        <5> QED
          BY <2>4, <5>2, <5>3
      <4>3. g.tags[i] \in overread'
        BY <2>4, <3>1, <4>1, <4>2
      <4> QED
        BY <1>3, <4>1, <4>3
    <3>2. CASE g.state = "wait" /\ Since = 0
      <4>1. \/ g'.nread = g.in_len
            \/ g'.nread = g.nread + (NPub - Since)
        BY <1>9 DEF PublishStep
      <4> QED
        BY <1>1, <2>3, <2>5, <3>2, <4>1
    <3> QED
      BY <2>5, <3>1, <3>2
  <2> QED
    BY <1>6, <2>1, <2>2, <2>6, <2>7
<1>10. RateStep \/ (SteadyDiscard /\ RatesLeft # {})
       \/ (PublishStep /\ \E i \in TagsRead(g, NPub) : g.tags[i].key = "rate")
       \/ g'.samp_period = g.samp_period
  BY DEF Turn, StartTurn, WaitTurn, TuneStep, PubStep, TimeoutStep, ForeignStep,
         NearStep, WaitEndStep, StartStep, WaitStep, DiscardStep, SteadyDiscard, AbortStep,
         PublishStep, FillStep, CallStep, SetNDiscard, EndStep
<1> QED
  BY <1>5, <1>7, <1>8, <1>9, <1>10

(* A stretch ahead of a set of samples adds its length to it.              *)
LEMMA StretchAdded ==
  ASSUME NEW n \in Int, NEW S \in SUBSET (0 .. n), NEW a \in Int, NEW c \in Nat,
         \A x \in S : x < a
  PROVE  /\ Cardinality(S) \in Nat
         /\ Cardinality(S \union (a .. a + c - 1)) = Cardinality(S) + c
<1> DEFINE T == a .. a + c - 1
<1>1. IsFiniteSet(S)
  <2>1. IsFiniteSet(0 .. n)
    BY FS_Interval
  <2> QED
    BY <2>1, FS_Subset
<1>2. IsFiniteSet(T) /\ Cardinality(T) = c
  <2>1. a + c - 1 \in Int /\ (a > a + c - 1 => c = 0) /\ (a + c - 1) - a + 1 = c
    OBVIOUS
  <2>2. /\ IsFiniteSet(T)
        /\ Cardinality(T) = IF a > a + c - 1 THEN 0 ELSE (a + c - 1) - a + 1
    BY <2>1, FS_Interval
  <2> QED
    BY <2>1, <2>2
<1>3. S \intersect T = {}
  OBVIOUS
<1>4. Cardinality(S \intersect T) = 0
  BY <1>3, FS_EmptySet
<1> HIDE DEF T
<1>5. /\ Cardinality(S) \in Nat
      /\ Cardinality(S \union T) = Cardinality(S) + Cardinality(T) - Cardinality(S \intersect T)
  BY <1>1, <1>2, FS_Union, FS_CardinalityType
<1> QED
  BY <1>2, <1>4, <1>5 DEF T

LEMMA DelaySum ==
  ASSUME NEW r \in Int, NEW n \in Int, NEW s \in Int, NEW l \in Int, NEW c \in Int
  PROVE  n + (r - 1) * s + (l - c) + c * r = (n + l) + (r - 1) * (s + c)
<1>1. (r - 1) * (s + c) = (r - 1) * s + (r - 1) * c /\ (r - 1) * c = r * c - c /\ c * r = r * c
  OBVIOUS
<1>2. (r - 1) * s \in Int /\ r * c \in Int
  OBVIOUS
<1> QED
  BY <1>1, <1>2

ThrownBehind == \A x \in thrown : x < Edge
Slow(S) == {x \in S : \E t \in RateTags : t.at <= x}

(* The samples thrown away past the first rate tag take its period, those  *)
(* before it the period in force.                                          *)
LEMMA DelayDiscard ==
  ASSUME ShapeInv, TagInv, ~ torn, InForce, Announced, SteadyDiscard, Position(g)' >= Position(g),
         g.read = 0 \/ \A t \in RateTags : t.at \notin thrown',
         RatePeriod # 1
  PROVE  \E c \in 0 .. Left :
           /\ g'.rx_delay = g.rx_delay + (Left - c) + c * RatePeriod
           /\ \A x \in Position(g) .. Position(g)' - 1 :
                (\E t \in RateTags : t.at <= x)
                  <=> x \in Position(g) + (Left - c) .. Position(g) + (Left - c) + c - 1
<1>1. /\ g \in GateRec
      /\ g.read \in Nat /\ g.in_len \in Nat /\ g.nread \in Int /\ Position(g) = g.read + g.nread
      /\ g.tags \in Seq(Tag) /\ Sorted(g.tags)
      /\ g.samp_period \in {1, RatePeriod} /\ g.rx_delay \in Int
      /\ RatePeriod \in Int /\ Position(g) \in Int
  BY GateTypes DEF ShapeInv, TagInv, Listed, Ahead
<1>2. \A t \in RateTags : t \in ToSet(stream) /\ t.at \in Int /\ t.key = "rate"
  BY StreamTags DEF RateTags
<1>3. /\ Left \in Int /\ Position(g)' = (g.read + g.nread) + Left
      /\ g.nread + Left <= g.in_len /\ g.nread <= g.in_len
  BY SteadyMove
<1>4. Left \in Nat /\ Position(g)' = Position(g) + Left
  BY <1>1, <1>3
<1>5. /\ RatesLeft = {} => g'.rx_delay = g.rx_delay + Left * g.samp_period
      /\ RatesLeft # {} => /\ Min(RatesLeft) \in RatesLeft
                           /\ g'.rx_delay = g.rx_delay
                                + (g.tags[Min(RatesLeft)].at - g.nread) * g.samp_period
                                + (Left - (g.tags[Min(RatesLeft)].at - g.nread)) * RatePeriod
      /\ thrown' = thrown \union (Position(g) .. Position(g)' - 1)
  BY DEF SteadyDiscard
<1>6. \A i \in DOMAIN g.tags :
        /\ i \in TagsRead(g, Left) <=> g.tags[i].at < Position(g) + Left
        /\ g.tags[i] \in ToSet(g.tags)
  <2>1. g.read \in Int /\ g.nread \in Int
    BY <1>1
  <2>2. \A i \in DOMAIN g.tags : i \in TagsRead(g, Left) <=> g.tags[i].at < Position(g) + Left
    BY <1>1, <1>3, <2>1, TagsLeftFacts
  <2> QED
    BY <2>2 DEF ToSet
<1>7. ASSUME NEW t \in RateTags, t.at < Position(g) + Left, g.samp_period # RatePeriod
      PROVE  \E i \in RatesLeft : t = g.tags[i]
  <2>1. t.at < g.read + g.in_len
    BY <1>1, <1>2, <1>3, <1>7
  <2>2. t \in ToSet(g.tags)
    BY <1>7, <2>1 DEF InForce
  <2>3. PICK i \in DOMAIN g.tags : t = g.tags[i]
    BY <2>2 DEF ToSet
  <2>4. i \in RatesLeft
    BY <1>2, <1>6, <1>7, <2>3 DEF RatesLeft
  <2> QED
    BY <2>3, <2>4
<1>8. CASE g.samp_period = RatePeriod /\ RatesLeft = {}
  <2>1. g'.rx_delay = g.rx_delay + (Left - Left) + Left * RatePeriod
    BY <1>1, <1>4, <1>5, <1>8
  <2>2. PICK t \in RateTags : t.at <= Edge
    BY <1>8 DEF Announced
  <2>3. t.at <= Position(g) /\ t.at \in Int
    BY <1>1, <1>2, <1>3, <2>2, EdgeFacts
  <2>4. \A x \in Position(g) .. Position(g)' - 1 :
          /\ t.at <= x
          /\ x \in Position(g) + (Left - Left) .. Position(g) + (Left - Left) + Left - 1
    BY <1>1, <1>4, <2>3
  <2>5. \A x \in Position(g) .. Position(g)' - 1 :
          (\E u \in RateTags : u.at <= x)
            <=> x \in Position(g) + (Left - Left) .. Position(g) + (Left - Left) + Left - 1
    BY <2>4
  <2>6. Left \in 0 .. Left
    BY <1>4
  <2> QED
    BY <2>1, <2>5, <2>6
<1>9. CASE g.samp_period # RatePeriod /\ RatesLeft = {}
  <2>1. g.samp_period = 1
    BY <1>1, <1>9
  <2>2. g'.rx_delay = g.rx_delay + Left
    BY <1>4, <1>5, <1>9, <2>1
  <2>3. g'.rx_delay = g.rx_delay + (Left - 0) + 0 * RatePeriod
    BY <1>1, <1>4, <2>2
  <2>4. \A x \in Position(g) .. Position(g)' - 1 :
          /\ ~ \E u \in RateTags : u.at <= x
          /\ x \notin Position(g) + (Left - 0) .. Position(g) + (Left - 0) + 0 - 1
    <3> SUFFICES ASSUME NEW x \in Position(g) .. Position(g)' - 1
                 PROVE  /\ ~ \E u \in RateTags : u.at <= x
                        /\ x \notin Position(g) + (Left - 0) .. Position(g) + (Left - 0) + 0 - 1
      OBVIOUS
    <3>1. ASSUME NEW u \in RateTags, u.at <= x
          PROVE  FALSE
      <4>1. u.at < Position(g) + Left
        BY <1>1, <1>2, <1>4, <3>1
      <4> QED
        BY <1>7, <1>9, <4>1
    <3>2. x \notin Position(g) + (Left - 0) .. Position(g) + (Left - 0) + 0 - 1
      BY <1>1, <1>4
    <3> QED
      BY <3>1, <3>2
  <2>5. \A x \in Position(g) .. Position(g)' - 1 :
          (\E u \in RateTags : u.at <= x)
            <=> x \in Position(g) + (Left - 0) .. Position(g) + (Left - 0) + 0 - 1
    BY <2>4
  <2>6. 0 \in 0 .. Left
    BY <1>4
  <2> QED
    BY <2>3, <2>5, <2>6
<1>10. CASE RatesLeft # {}
  <2> DEFINE m == Min(RatesLeft)
             p == g.tags[m].at
  <2>1. m \in RatesLeft /\ \A i \in RatesLeft : m <= i
    BY <1>1, <1>10, FirstRate DEF ShapeInv
  <2>2. m \in DOMAIN g.tags /\ m \in TagsRead(g, Left) /\ g.tags[m].key = "rate"
    BY <2>1 DEF RatesLeft, TagsRead
  <2>3. g.tags[m] \in RateTags
    BY <1>6, <2>2, ListedTags DEF RateTags
  <2>4. /\ p \in Int /\ p < Position(g) + Left /\ Position(g) <= p
    BY <1>6, <2>2, ListedTags
  <2>5. g'.rx_delay = g.rx_delay + (p - g.nread) * g.samp_period + (Left - (p - g.nread)) * RatePeriod
    BY <1>5, <1>10
  <2>6. \A i \in RatesLeft : p <= g.tags[i].at
    <3> SUFFICES ASSUME NEW i \in RatesLeft
                 PROVE  p <= g.tags[i].at
      OBVIOUS
    <3>1. i \in DOMAIN g.tags /\ m <= i
      BY <2>1 DEF RatesLeft, TagsRead
    <3> QED
      BY <1>1, <2>2, <3>1 DEF Sorted
  <2> HIDE DEF m, p
  <2>7. g.read = 0
    <3>1. p \in thrown'
      BY <1>1, <1>4, <1>5, <2>4
    <3> QED
      BY <2>3, <3>1 DEF p
  <2>8. p - g.nread = p - Position(g)
    BY <1>1, <2>4, <2>7
  <2>9. CASE g.samp_period = RatePeriod
    <3>1. g'.rx_delay = g.rx_delay + (Left - Left) + Left * RatePeriod
      <4> DEFINE q == p - g.nread
      <4>1. q \in Int /\ g'.rx_delay = g.rx_delay + q * RatePeriod + (Left - q) * RatePeriod
        BY <1>1, <2>4, <2>5, <2>9
      <4> HIDE DEF q
      <4>2. (Left - q) * RatePeriod = Left * RatePeriod - q * RatePeriod
            /\ q * RatePeriod \in Int /\ Left * RatePeriod \in Int
        BY <1>1, <1>4, <4>1
      <4> QED
        BY <1>1, <1>4, <4>1, <4>2
    <3>2. PICK t \in RateTags : t.at <= Edge
      BY <2>9 DEF Announced
    <3>3. t.at <= Position(g) /\ t.at \in Int
      BY <1>1, <1>2, <1>3, <3>2, EdgeFacts
    <3>4. \A x \in Position(g) .. Position(g)' - 1 :
            /\ t.at <= x
            /\ x \in Position(g) + (Left - Left) .. Position(g) + (Left - Left) + Left - 1
      BY <1>1, <1>4, <3>3
    <3>5. \A x \in Position(g) .. Position(g)' - 1 :
            (\E u \in RateTags : u.at <= x)
              <=> x \in Position(g) + (Left - Left) .. Position(g) + (Left - Left) + Left - 1
      BY <3>4
    <3>6. Left \in 0 .. Left
      BY <1>4
    <3> QED
      BY <3>1, <3>5, <3>6
  <2>10. CASE g.samp_period # RatePeriod
    <3>1. g.samp_period = 1
      BY <1>1, <2>10
    <3> DEFINE q == p - Position(g)
               c == Left - q
    <3>2. q \in Nat /\ c \in Nat /\ Left - c = q /\ Position(g) + q = p
          /\ Position(g) + q + c - 1 = Position(g)' - 1
      <4>1. q \in Nat /\ q <= Left /\ Position(g) + q = p
        <5>1. /\ p \in Int /\ Position(g) \in Int /\ Left \in Int
              /\ Position(g) <= p /\ p < Position(g) + Left
          BY <1>1, <1>4, <2>4
        <5>2. p - Position(g) \in Nat
          BY <5>1
        <5>3. p - Position(g) <= Left
          BY <5>1
        <5>4. Position(g) + (p - Position(g)) = p
          BY <5>1
        <5> QED
          BY <5>2, <5>3, <5>4
      <4>2. c = Left - q
        OBVIOUS
      <4> HIDE DEF q, c
      <4>3. c \in Nat /\ Left - c = q
        BY <1>4, <4>1, <4>2
      <4>4. Position(g) + q + c - 1 = Position(g)' - 1
        BY <1>1, <1>4, <4>1, <4>2, <4>3
      <4> QED
        BY <4>1, <4>3, <4>4
    <3>3. g'.rx_delay = g.rx_delay + q + c * RatePeriod
      BY <1>1, <2>5, <2>8, <3>1, <3>2
    <3> HIDE DEF q, c
    <3>4. g'.rx_delay = g.rx_delay + (Left - c) + c * RatePeriod
      BY <3>2, <3>3
    <3>5. ASSUME NEW x \in Position(g) .. Position(g)' - 1
          PROVE  (\E t \in RateTags : t.at <= x) <=> p <= x
      <4>1. ASSUME p <= x
            PROVE  \E t \in RateTags : t.at <= x
        BY <2>3, <4>1 DEF p
      <4>2. ASSUME NEW t \in RateTags, t.at <= x
            PROVE  p <= x
        <5>1. t.at < Position(g) + Left
          BY <1>1, <1>2, <1>4, <4>2
        <5>2. p <= t.at
          BY <1>7, <2>6, <2>10, <5>1
        <5> QED
          BY <1>1, <1>2, <1>4, <2>4, <4>2, <5>2
      <4> QED
        BY <4>1, <4>2
    <3>6. \A x \in Position(g) .. Position(g)' - 1 :
            (\E t \in RateTags : t.at <= x)
              <=> x \in Position(g) + (Left - c) .. Position(g) + (Left - c) + c - 1
      <4> SUFFICES ASSUME NEW x \in Position(g) .. Position(g)' - 1
                   PROVE  (\E t \in RateTags : t.at <= x)
                            <=> x \in Position(g) + (Left - c) .. Position(g) + (Left - c) + c - 1
        OBVIOUS
      <4>1. p <= x <=> x \in p .. Position(g)' - 1
        BY <1>1, <1>4, <2>4
      <4>2. Position(g) + (Left - c) = p /\ Position(g) + (Left - c) + c - 1 = Position(g)' - 1
        BY <3>2
      <4> QED
        BY <3>5, <4>1, <4>2
    <3>7. c \in 0 .. Left
      BY <1>4, <3>2
    <3> QED
      BY <3>4, <3>6, <3>7
  <2> QED
    BY <2>9, <2>10
<1> QED
  BY <1>8, <1>9, <1>10

(* What RxDelayTrue says, and where it says it.                            *)
DelayClaimed == /\ ~ rewound /\ ~ torn
                /\ g.read = 0 \/ \A t \in RateTags : t.at \notin thrown
                /\ RateTags \intersect overread = {}
DelayTrue == g.rx_delay = Cardinality(thrown) + (RatePeriod - 1) * Cardinality(Slow(thrown))

LEMMA DelayFacts ==
  RxDelayTrue <=> (DelayClaimed => DelayTrue)
BY DEF RxDelayTrue, DelayClaimed, DelayTrue, Slow

LEMMA DelayFactsNext ==
  ASSUME stream' = stream
  PROVE  RxDelayTrue' <=> (DelayClaimed' => DelayTrue')
BY DEF RxDelayTrue, DelayClaimed, DelayTrue, Slow, RateTags

LEMMA DelayStep ==
  ASSUME ShapeInv, TagInv, ~ torn, ThrownBehind, InForce, Announced, RxDelayTrue, SteadyDiscard
  PROVE  RxDelayTrue'
<1>1. /\ g \in GateRec /\ thrown \subseteq 0 .. NIn - 1
      /\ g.read \in Nat /\ g.in_len \in Nat /\ g.nread \in Int /\ Position(g) = g.read + g.nread
      /\ g.samp_period \in {1, RatePeriod} /\ g.rx_delay \in Int
      /\ RatePeriod \in Int /\ Position(g) \in Int /\ NIn \in Nat
  BY GateTypes DEF ShapeInv
<1>2. /\ stream' = stream /\ overread' = overread /\ g'.read = g.read
      /\ thrown' = thrown \union (Position(g) .. Position(g)' - 1)
      /\ rewound' = (rewound \/ Position(g)' < Position(g))
  BY DEF SteadyDiscard, WindowKept
<1>3. RateTags' = RateTags
  BY <1>2 DEF RateTags
<1> SUFFICES ASSUME DelayClaimed'
             PROVE  DelayTrue'
  BY <1>2, DelayFactsNext
<1>4. /\ ~ rewound /\ ~ (Position(g)' < Position(g))
      /\ g.read = 0 \/ \A t \in RateTags : t.at \notin thrown'
      /\ RateTags \intersect overread = {}
  BY <1>2, <1>3 DEF DelayClaimed
<1>5. DelayTrue
  <2>1. DelayClaimed
    BY <1>2, <1>4 DEF DelayClaimed
  <2> QED
    BY <2>1, DelayFacts
<1>6. /\ Left \in Int /\ Position(g)' = (g.read + g.nread) + Left
      /\ g.nread <= g.in_len
  BY SteadyMove
<1>7. Left \in Nat /\ Position(g)' = Position(g) + Left /\ Position(g)' >= Position(g)
      /\ Position(g)' \in Int
  BY <1>1, <1>4, <1>6
<1>8. \A x \in thrown : x < Position(g)
  BY <1>1, <1>6, EdgeFacts DEF ThrownBehind
<1> DEFINE n == Cardinality(thrown)
           s == Cardinality(Slow(thrown))
<1>9. n \in Nat /\ Cardinality(thrown') = n + Left
  <2>1. thrown \in SUBSET (0 .. NIn - 1) /\ NIn - 1 \in Int
    BY <1>1
  <2>2. /\ Cardinality(thrown) \in Nat
        /\ Cardinality(thrown \union (Position(g) .. Position(g) + Left - 1))
             = Cardinality(thrown) + Left
    BY <1>1, <1>7, <1>8, <2>1, StretchAdded
  <2>3. Position(g)' = Position(g) + Left
    BY <1>7
  <2>4. thrown' = thrown \union (Position(g) .. Position(g)' - 1)
    BY <1>2
  <2>5. thrown' = thrown \union (Position(g) .. Position(g) + Left - 1)
    <3>1. (Position(g) + Left) - 1 = Position(g) + Left - 1
      BY <1>1, <1>7
    <3>2. Position(g)' - 1 = Position(g) + Left - 1
      BY <2>3, <3>1
    <3> QED
      BY <2>4, <3>2
  <2> QED
    BY <2>2, <2>5
<1>10. Slow(thrown) \in SUBSET (0 .. NIn - 1) /\ \A x \in Slow(thrown) : x < Position(g)
  BY <1>1, <1>8 DEF Slow
<1>11. s \in Nat
  <2>1. NIn - 1 \in Int /\ 0 \in Nat
    BY <1>1
  <2> QED
    BY <1>1, <1>10, <2>1, StretchAdded
<1>12. g.rx_delay = n + (RatePeriod - 1) * s
  BY <1>5 DEF DelayTrue
<1>13. DelayTrue' <=> g'.rx_delay = Cardinality(thrown') + (RatePeriod - 1) * Cardinality(Slow(thrown)')
  BY DEF DelayTrue
<1>14. CASE RatePeriod = 1
  <2>1. g'.rx_delay = g.rx_delay + Left
    <3>1. g.samp_period = 1
      BY <1>1, <1>14
    <3>2. CASE RatesLeft = {}
      <4>1. g'.rx_delay = g.rx_delay + Left * g.samp_period
        BY <3>2 DEF SteadyDiscard
      <4> QED
        BY <1>7, <3>1, <4>1
    <3>3. CASE RatesLeft # {}
      <4> DEFINE q == g.tags[Min(RatesLeft)].at - g.nread
      <4>1. /\ Min(RatesLeft) \in RatesLeft
            /\ g'.rx_delay = g.rx_delay + q * g.samp_period + (Left - q) * RatePeriod
        BY <3>3 DEF SteadyDiscard
      <4>2. g.tags[Min(RatesLeft)].at \in Int
        BY <4>1, ListedTags DEF RatesLeft, TagsRead, ToSet
      <4>3. q \in Int
        BY <1>1, <4>2
      <4> HIDE DEF q
      <4> QED
        BY <1>1, <1>7, <1>14, <3>1, <4>1, <4>3
    <3> QED
      BY <3>2, <3>3
  <2>2. Cardinality(Slow(thrown)') \in Nat
    <3>1. Slow(thrown)' \subseteq thrown'
      BY DEF Slow
    <3>2. IsFiniteSet(thrown')
      <4>1. IsFiniteSet(0 .. NIn - 1) /\ IsFiniteSet(Position(g) .. Position(g)' - 1)
        <5>1. NIn - 1 \in Int /\ Position(g) \in Int /\ Position(g)' - 1 \in Int /\ 0 \in Int
          BY <1>1, <1>7
        <5> QED
          BY <5>1, FS_Interval
      <4>2. IsFiniteSet(thrown)
        BY <1>1, <4>1, FS_Subset
      <4> QED
        BY <1>2, <4>1, <4>2, FS_Union
    <3> QED
      BY <3>1, <3>2, FS_Subset, FS_CardinalityType
  <2> DEFINE z == Cardinality(Slow(thrown)')
  <2>3. z \in Nat
    BY <2>2
  <2>4. g'.rx_delay = (n + Left) + (RatePeriod - 1) * z
    <3> HIDE DEF z, n, s
    <3>1. (RatePeriod - 1) * z = 0 /\ (RatePeriod - 1) * s = 0
      BY <1>11, <1>14, <2>3
    <3> QED
      BY <1>7, <1>9, <1>12, <2>1, <3>1
  <2> QED
    BY <1>9, <1>13, <2>4
<1>15. CASE RatePeriod # 1
  <2>1. PICK c \in 0 .. Left :
           /\ g'.rx_delay = g.rx_delay + (Left - c) + c * RatePeriod
           /\ \A x \in Position(g) .. Position(g)' - 1 :
                (\E t \in RateTags : t.at <= x)
                  <=> x \in Position(g) + (Left - c) .. Position(g) + (Left - c) + c - 1
    BY <1>4, <1>7, <1>15, DelayDiscard
  <2> DEFINE a == Position(g) + (Left - c)
             new == a .. a + c - 1
  <2>2. a \in Int /\ c \in Nat /\ Position(g) <= a /\ a + c - 1 = Position(g)' - 1
    BY <1>1, <1>7
  <2>3. Slow(thrown)' = Slow(thrown) \union new
    <3>1. \A x : x \in new => x \in Position(g) .. Position(g)' - 1
      BY <1>1, <1>7, <2>2
    <3>2. \A x : x \in Slow(thrown)' <=> x \in thrown' /\ \E t \in RateTags : t.at <= x
      BY <1>3 DEF Slow
    <3>3. \A x : x \in Slow(thrown) <=> x \in thrown /\ \E t \in RateTags : t.at <= x
      BY DEF Slow
    <3>4. \A x \in Position(g) .. Position(g)' - 1 : (\E t \in RateTags : t.at <= x) <=> x \in new
      BY <2>1
    <3> HIDE DEF new
    <3>5. \A x : x \in Slow(thrown)' <=> x \in Slow(thrown) \/ x \in new
      BY <1>2, <3>1, <3>2, <3>3, <3>4
    <3> QED
      BY <3>5
  <2>4. Cardinality(Slow(thrown)') = s + c
    <3>1. \A x \in Slow(thrown) : x < a
      <4> SUFFICES ASSUME NEW x \in Slow(thrown)
                   PROVE  x < a
        OBVIOUS
      <4>1. x \in Int /\ x < Position(g)
        BY <1>10
      <4> QED
        BY <1>1, <2>2, <4>1
    <3>2. NIn - 1 \in Int
      BY <1>1
    <3>3. Cardinality(Slow(thrown) \union (a .. a + c - 1)) = Cardinality(Slow(thrown)) + c
      <4> HIDE DEF a
      <4> QED BY <1>10, <2>2, <3>1, <3>2, StretchAdded
    <3> QED
      BY <2>3, <3>3
  <2>5. g'.rx_delay = (n + Left) + (RatePeriod - 1) * (s + c)
    <3>1. g'.rx_delay = n + (RatePeriod - 1) * s + (Left - c) + c * RatePeriod
      BY <1>12, <2>1
    <3> HIDE DEF n, s
    <3>2. n + (RatePeriod - 1) * s + (Left - c) + c * RatePeriod
            = (n + Left) + (RatePeriod - 1) * (s + c)
      <4>1. n \in Int /\ s \in Int /\ Left \in Int /\ c \in Int /\ RatePeriod \in Int
        BY <1>1, <1>7, <1>9, <1>11
      <4> QED
        BY <4>1, DelaySum
    <3> QED
      BY <3>1, <3>2
  <2> QED
    BY <1>9, <1>13, <2>4, <2>5
<1> QED
  BY <1>14, <1>15

(* Every other turn leaves the delay and the samples thrown away.          *)
LEMMA DelayKept ==
  ASSUME g.read \in Nat, stream' = stream, thrown' = thrown, g'.rx_delay = g.rx_delay,
         g'.read >= g.read, g'.read \in Nat, rewound => rewound', torn => torn',
         \A t \in overread : t \in overread', RxDelayTrue
  PROVE  RxDelayTrue'
<1>1. RateTags' = RateTags
  BY DEF RateTags
<1> SUFFICES ASSUME DelayClaimed'
             PROVE  DelayTrue'
  BY DelayFactsNext
<1>2. g'.read = 0 => g.read = 0
  OBVIOUS
<1>3. DelayClaimed
  BY <1>1, <1>2 DEF DelayClaimed
<1>4. DelayTrue
  BY <1>3, DelayFacts
<1> QED
  BY <1>1, <1>4 DEF DelayTrue, Slow

LEMMA RateStepHolds ==
  ASSUME ShapeInv, TagInv, ~ torn, ~ torn', OrderInv, RateInv, Turn, ~ rewound',
         RateTags' \intersect overread' = {}
  PROVE  RateInv'
<1>1. /\ g \in GateRec /\ g.nread >= 0
      /\ g.read \in Nat /\ g.in_len \in Nat /\ g.nread \in Int /\ Position(g) = g.read + g.nread
  BY GateTypes DEF ShapeInv
<1>2. ThrownBehind /\ InForce /\ Announced /\ RxDelayTrue
  BY DEF RateInv, ThrownBehind, InForce, Announced
<1>3. InForce' /\ Announced'
  BY <1>1, <1>2, InForceStep, AnnouncedStep
<1>4. /\ Edge' >= Edge /\ g'.read >= g.read /\ Edge \in Int /\ Edge' \in Int
      /\ g'.read \in Nat /\ Position(g)' \in Int /\ thrown \subseteq 0 .. NIn - 1
      /\ (g'.nread <= g'.in_len => Edge' = Position(g)')
  <2>1. g' \in GateRec
    BY ShapeStep DEF ShapeInv
  <2>2. thrown \subseteq 0 .. NIn - 1
    BY DEF ShapeInv
  <2> QED
    BY <1>1, <2>1, <2>2, EdgeStep, EdgeFacts, EdgeFactsNext
<1>5. \A x \in thrown : x \in Int /\ x < Edge'
  <2> SUFFICES ASSUME NEW x \in thrown
               PROVE  x \in Int /\ x < Edge'
    OBVIOUS
  <2>1. x \in Int /\ x < Edge
    BY <1>2, <1>4, SizesAssumption DEF ThrownBehind
  <2> QED
    BY <1>4, <2>1
<1>6. ThrownBehind' /\ RxDelayTrue'
  <2>1. CASE SteadyDiscard
    <3>1. RxDelayTrue'
      BY <1>2, <2>1, DelayStep
    <3>2. g'.nread <= g'.in_len
      BY <2>1, SteadyMove DEF SteadyDiscard, WindowKept
    <3>3. thrown' = thrown \union (Position(g) .. Position(g)' - 1)
      BY <2>1 DEF SteadyDiscard
    <3>4. \A x \in Position(g) .. Position(g)' - 1 : x < Edge'
      BY <1>4, <3>2
    <3> QED
      BY <1>5, <3>1, <3>3, <3>4 DEF ThrownBehind
  <2>2. CASE ~ DiscardStep
    <3> DEFINE Kept == /\ stream' = stream /\ thrown' = thrown /\ g'.rx_delay = g.rx_delay
                       /\ (rewound => rewound') /\ (torn => torn')
                       /\ \A t \in overread : t \in overread'
    <3>1. ASSUME CallStep \/ SetNDiscard PROVE Kept
      BY <3>1 DEF CallStep, SetNDiscard
    <3>2. ASSUME StartTurn PROVE Kept
      <4>1. HistoryKept /\ g'.rx_delay = g.rx_delay
        BY <3>2 DEF StartTurn, TuneStep, PubStep, TimeoutStep, StartStep
      <4> QED
        BY <4>1 DEF HistoryKept
    <3>3. ASSUME WaitTurn PROVE Kept
      <4>1. HistoryKept /\ g'.rx_delay = g.rx_delay
        BY <3>3 DEF WaitTurn, RateStep, ForeignStep, NearStep, WaitEndStep, WaitStep
      <4> QED
        BY <4>1 DEF HistoryKept
    <3>4. ASSUME AbortStep PROVE Kept
      BY <3>4 DEF AbortStep
    <3>5. ASSUME PublishStep PROVE Kept
      <4>1. /\ stream' = stream /\ thrown' = thrown /\ g'.rx_delay = g.rx_delay
            /\ rewound' = (rewound \/ Position(g)' < Position(g)) /\ torn' = torn
            /\ overread \subseteq overread'
        BY <3>5 DEF PublishStep
      <4> QED
        BY <4>1
    <3>6. ASSUME FillStep PROVE Kept
      <4>1. /\ stream' = stream /\ thrown' = thrown /\ g'.rx_delay = g.rx_delay
            /\ rewound' = (rewound \/ Position(g)' < Position(g)) /\ torn' = torn
            /\ overread' = overread
        BY <3>6 DEF FillStep
      <4> QED
        BY <4>1
    <3>7. ASSUME EndStep PROVE Kept
      BY <3>7 DEF EndStep
    <3>8. Kept
      BY <2>2, <3>1, <3>2, <3>3, <3>4, <3>5, <3>6, <3>7 DEF Turn
    <3> QED
      BY <1>1, <1>2, <1>4, <1>5, <3>8, DelayKept DEF ThrownBehind
  <2>3. DiscardStep => SteadyDiscard
    BY DEF DiscardStep
  <2> QED
    BY <2>1, <2>2, <2>3
<1> QED
  BY <1>3, <1>6 DEF RateInv, ThrownBehind, InForce, Announced

(***************************************************************************)
(* TimeoutInv.                                                             *)
(***************************************************************************)
(* The property, for one event.                                            *)
YieldsAt(k) ==
  g.events[k].key = "timeout" =>
    /\ g.events[k].value - NTimeout .. g.events[k].value - 1 \subseteq waited
    /\ NoRequest(g.events[k].value, g.events[k].value + NPub - 1)

(* What is so while the gate waits, and while it takes a timeout's block.  *)
WaitedSince == g.state = "wait" /\ Walking => Position(g) - g.n_since .. Position(g) - 1 \subseteq waited
TimeoutBlock == /\ g.pubtimeout
                /\ g.event_tag.value - NTimeout .. g.event_tag.value - 1 \subseteq waited
                /\ NoRequest(g.event_tag.value, Position(g) - 1)
AllListed == \A t \in ToSet(stream) :
               t.key \in Requests /\ Position(g) <= t.at /\ t.at < g.read + g.in_len
                 => t \in ToSet(g.tags)
RoomAhead == \A i \in DOMAIN g.tags : g.tags[i].at >= Position(g) + NPub

LEMMA TimeoutParts ==
  TimeoutInv <=>
    /\ WaitedSince /\ TimeoutYields
    /\ InBlock /\ g.event_tag.key = "timeout" =>
         TimeoutBlock /\ (g.pc # "fill" => AllListed) /\ (g.pc = "publish" => RoomAhead)
BY DEF TimeoutInv, WaitedSince, TimeoutBlock, AllListed, RoomAhead

LEMMA TimeoutPartsNext ==
  TimeoutInv' <=>
    /\ WaitedSince' /\ TimeoutYields'
    /\ InBlock' /\ g'.event_tag.key = "timeout" =>
         TimeoutBlock' /\ (g'.pc # "fill" => AllListed') /\ (g'.pc = "publish" => RoomAhead')
BY DEF TimeoutInv, WaitedSince, TimeoutBlock, AllListed, RoomAhead

LEMMA YieldsFacts ==
  ~ rewound /\ ~ torn /\ NoForeignTag => (TimeoutYields <=> \A k \in DOMAIN g.events : YieldsAt(k))
BY DEF TimeoutYields, YieldsAt, NoRequest, ToSet

LEMMA YieldsFactsNext ==
  ~ rewound' /\ ~ torn' /\ NoForeignTag' => (TimeoutYields' <=> \A k \in DOMAIN g'.events : YieldsAt(k)')
BY DEF TimeoutYields, YieldsAt, NoRequest, ToSet

LEMMA YieldsCarried ==
  ASSUME stream' = stream, waited \subseteq waited', NEW k, g'.events[k] = g.events[k], YieldsAt(k)
  PROVE  YieldsAt(k)'
BY DEF YieldsAt, NoRequest

LEMMA YieldsKept ==
  ASSUME TimeoutYields, NoForeignTag, ~ rewound, ~ rewound', ~ torn, ~ torn',
         g'.events = g.events, stream' = stream, waited \subseteq waited'
  PROVE  TimeoutYields'
<1>1. NoForeignTag'
  BY DEF NoForeignTag
<1>2. \A k \in DOMAIN g.events : YieldsAt(k)
  BY YieldsFacts
<1>3. \A k \in DOMAIN g'.events : YieldsAt(k)'
  BY <1>2, YieldsCarried
<1> QED
  BY <1>1, <1>3, YieldsFactsNext

LEMMA TimeoutStart ==
  ASSUME ShapeInv, TagInv, ~ torn, ~ torn', RequestInv, TimeoutInv, NoForeignTag, NTimeout >= NPub - 1,
         StartTurn, ~ rewound'
  PROVE  TimeoutInv'
<1>1. PICK key \in Requests \union {"timeout"}, n \in Int, next \in {"discard", "publish"},
           flag \in BOOLEAN : StartMoves(key, n, next, flag)
  BY StartMove
<1>2. g \in GateRec
  BY DEF ShapeInv
<1>3. /\ g.read \in Nat /\ g.in_len \in Nat /\ g.nread \in Int /\ g.n_since \in Nat
      /\ Position(g) = g.read + g.nread /\ Position(g) \in Int
      /\ NPub \in Nat /\ NTimeout \in Nat
  BY <1>2, GateTypes DEF ShapeInv
<1>4. /\ StartStep(key, n, next, flag)
      /\ key = "timeout" => /\ flag = TRUE /\ n = NTimeout - g.n_since + g.nread
                            /\ \A i \in DOMAIN g.tags : g.tags[i].at >= g.read + n + NPub
  BY <1>1 DEF StartMoves
<1>5. /\ g.pc = "work" /\ g.state = "wait"
      /\ g'.read = g.read /\ g'.in_len = g.in_len /\ g'.nread = n /\ g'.pc = next
      /\ g'.tags = g.tags /\ g'.pubtimeout = flag /\ g'.events = g.events
      /\ g'.event_tag = [at |-> g.out_offset, key |-> key, value |-> g.read + n]
      /\ rewound' = (rewound \/ Position(g)' < Position(g))
      /\ waited' = waited \union (Position(g) .. Position(g)' - 1)
      /\ stream' = stream
  BY <1>4 DEF StartStep, WindowKept, OutputKept, HistoryKept
<1>6. Position(g)' = g.read + n /\ Position(g)' \in Int
  BY <1>3, <1>5 DEF Position
<1>7. ~ rewound
  BY <1>5
<1>8. Position(g) <= Position(g)'
  <2>1. ~ (Position(g)' < Position(g))
    BY <1>5
  <2> QED
    BY <1>3, <1>6, <2>1
<1>9. WaitedSince' /\ TimeoutYields'
  <2>1. WaitedSince'
    BY <1>5 DEF WaitedSince, Walking
  <2> QED
    BY <1>5, <1>7, <2>1, TimeoutParts, YieldsKept
<1>10. ASSUME key = "timeout"
       PROVE  TimeoutBlock' /\ AllListed' /\ RoomAhead'
  <2>1. g'.event_tag.value = g.read + n /\ flag = TRUE
    BY <1>4, <1>5, <1>10
  <2>2. n = NTimeout - g.n_since + g.nread
        /\ \A i \in DOMAIN g.tags : g.tags[i].at >= g.read + n + NPub
    BY <1>4, <1>10
  <2>3. Position(g) - g.n_since .. Position(g) - 1 \subseteq waited
    BY <1>5, TimeoutParts DEF WaitedSince, Walking
  <2>4. (g.read + n) - NTimeout = Position(g) - g.n_since
    BY <1>3, <2>2
  <2>5. (g.read + n) - NTimeout .. (g.read + n) - 1 \subseteq waited'
    <3> SUFFICES ASSUME NEW x \in (g.read + n) - NTimeout .. (g.read + n) - 1
                 PROVE  x \in waited'
      OBVIOUS
    <3>1. x \in Int /\ Position(g) - g.n_since <= x /\ x <= Position(g)' - 1
      BY <1>3, <1>6, <2>4
    <3>2. CASE x <= Position(g) - 1
      <4>1. x \in Position(g) - g.n_since .. Position(g) - 1
        BY <1>3, <3>1, <3>2
      <4> QED
        BY <1>5, <2>3, <4>1
    <3>3. CASE ~ (x <= Position(g) - 1)
      <4>1. x \in Position(g) .. Position(g)' - 1
        BY <1>3, <1>6, <3>1, <3>3
      <4> QED
        BY <1>5, <4>1
    <3> QED
      BY <3>2, <3>3
  <2>6. TimeoutBlock'
    <3>1. \A t \in ToSet(stream') :
            t.key \in Requests => t.at \notin g'.event_tag.value .. Position(g)' - 1
      <4>1. g'.event_tag.value .. Position(g)' - 1 = {}
        BY <1>6, <2>1
      <4> QED
        BY <4>1
    <3> QED
      BY <1>5, <2>1, <2>5, <3>1 DEF TimeoutBlock, NoRequest
  <2>7. ASSUME NEW t \in ToSet(stream), t.key \in Requests,
               Position(g)' <= t.at, t.at < g.read + g.in_len
        PROVE  t \in ToSet(g.tags)
    <3> SUFFICES ASSUME t \notin ToSet(g.tags)
                 PROVE  FALSE
      OBVIOUS
    <3>1. t.at \in Int
      BY StreamTags
    <3>2. Overlooked(t)
      BY <1>3, <1>6, <1>8, <2>7, <3>1 DEF Overlooked
    <3>3. t.at < Position(g) - g.n_since + NPub - 1
      BY <3>2 DEF RequestInv
    <3> QED
      BY <1>3, <1>6, <2>4, <2>7, <3>1, <3>3
  <2>8. AllListed'
    BY <1>5, <2>7 DEF AllListed
  <2>9. RoomAhead'
    BY <1>5, <1>6, <2>2 DEF RoomAhead
  <2> QED
    BY <2>6, <2>8, <2>9
<1>11. g'.event_tag.key = key
  BY <1>5
<1> QED
  BY <1>9, <1>10, <1>11, TimeoutPartsNext

LEMMA TimeoutWait ==
  ASSUME ~ torn, ~ torn', ShapeInv, TagInv, TimeoutInv, NoForeignTag, WaitTurn, ~ rewound'
  PROVE  TimeoutInv'
<1>1. PICK n \in Int, since \in Nat, tags \in Seq(Tag), period \in {1, RatePeriod} :
           WaitMoves(n, since, tags, period)
  BY WaitMove
<1>2. g \in GateRec
  BY DEF ShapeInv
<1>3. /\ g.read \in Nat /\ g.nread \in Int /\ g.n_since \in Nat
      /\ Position(g) = g.read + g.nread /\ Position(g) \in Int
  BY <1>2, GateTypes DEF ShapeInv
<1>4. /\ WaitStep(n, since, tags, period) /\ g.nread <= n
      /\ ~ ForeignStep => since - g.n_since <= n - g.nread
  BY <1>1 DEF WaitMoves
<1>5. /\ g.pc = "work" /\ g.state = "wait" /\ g'.pc = "work" /\ g'.state = "wait"
      /\ g'.read = g.read /\ g'.nread = n /\ g'.n_since = since /\ g'.events = g.events
      /\ rewound' = (rewound \/ Position(g)' < Position(g))
      /\ waited' = waited \union (Position(g) .. Position(g)' - 1)
      /\ stream' = stream
  BY <1>4 DEF WaitStep, WindowKept, OutputKept, HistoryKept
<1>6. Position(g)' = g.read + n /\ Position(g)' \in Int /\ Position(g) <= Position(g)'
  BY <1>3, <1>4, <1>5 DEF Position
<1>7. ~ ForeignStep
  <2> SUFFICES ASSUME ForeignStep
               PROVE  FALSE
    OBVIOUS
  <2>1. g.tags # <<>> /\ g.tags[1].key = "foreign"
    BY DEF ForeignStep, FirstTag
  <2>2. g.tags[1] \in ToSet(stream)
    BY <1>2, <2>1, FirstTagFacts DEF TagInv
  <2> QED
    BY <2>1, <2>2 DEF NoForeignTag, ToSet
<1>8. since - g.n_since <= n - g.nread
  BY <1>4, <1>7
<1>9. WaitedSince'
  <2>1. Position(g) - g.n_since .. Position(g) - 1 \subseteq waited
    BY <1>5, TimeoutParts DEF WaitedSince, Walking
  <2>3. /\ Position(g) - g.n_since <= Position(g)' - since
        /\ Position(g) - g.n_since \in Int /\ Position(g)' - since \in Int
    <3>1. since \in Int /\ n \in Int /\ g.read \in Int /\ g.nread \in Int /\ g.n_since \in Int
      BY <1>3
    <3>2. (g.read + g.nread) - g.n_since <= (g.read + n) - since
      BY <1>8, <3>1
    <3> QED
      BY <1>3, <1>6, <3>1, <3>2
  <2>2. ASSUME NEW x \in Position(g)' - since .. Position(g)' - 1
        PROVE  x \in waited'
    <3>1. x \in Int /\ Position(g) - g.n_since <= x /\ x <= Position(g)' - 1
      BY <1>6, <2>3
    <3>2. CASE x <= Position(g) - 1
      <4>1. x \in Position(g) - g.n_since .. Position(g) - 1
        BY <1>3, <3>1, <3>2
      <4> QED
        BY <1>5, <2>1, <4>1
    <3>3. CASE ~ (x <= Position(g) - 1)
      <4>1. x \in Position(g) .. Position(g)' - 1
        BY <1>3, <1>6, <3>1, <3>3
      <4> QED
        BY <1>5, <4>1
    <3> QED
      BY <3>2, <3>3
  <2> QED
    BY <1>5, <2>2 DEF WaitedSince
<1>10. ~ rewound
  BY <1>5
<1>11. TimeoutYields'
  BY <1>5, <1>10, TimeoutParts, YieldsKept
<1>12. ~ InBlock'
  BY <1>5 DEF InBlock
<1> QED
  BY <1>9, <1>11, <1>12, TimeoutPartsNext
(* The block ends before the listed tags, else the timeout is given up.    *)
LEMMA TimeoutPublish ==
  ASSUME ~ torn, ~ torn', ShapeInv, TagInv, TimeoutInv, NoForeignTag, PublishStep, ~ rewound'
  PROVE  TimeoutInv'
<1>1. /\ g.nread <= g.in_len /\ Here \in Nat /\ Here = g.in_len - g.nread
      /\ Since \in Nat /\ Since < NPub
      /\ g'.nread <= g.in_len /\ g'.nread \in Int
      /\ Position(g)' = g.read + g'.nread
      /\ (g.state = "wait" /\ g.pc = "publish" /\ Since = 0)
         \/ (g.state = "publish" /\ g.pc = "work" /\ Since = g.n_since)
  BY PublishMove
<1>2. g \in GateRec
  BY DEF ShapeInv
<1>3. /\ g.read \in Nat /\ g.in_len \in Nat /\ g.nread \in Int /\ g.n_since \in Nat
      /\ Position(g) = g.read + g.nread /\ Position(g) \in Int /\ NPub \in Nat
  BY <1>2, GateTypes DEF ShapeInv
<1>4. /\ g'.read = g.read /\ g'.in_len = g.in_len /\ g'.events = g.events
      /\ g'.event_tag = g.event_tag /\ g'.pubtimeout = g.pubtimeout
      /\ stream' = stream /\ waited' = waited
      /\ rewound' = (rewound \/ Position(g)' < Position(g))
      /\ (g'.state = "publish" /\ g'.pc = "work") \/ (g'.state = "wait" /\ g'.pc = "fill")
      /\ g'.pc = "work" => g'.nread = g.in_len
  BY DEF PublishStep, WindowKept, OutputKept
<1>5. g'.nread <= g.nread + (NPub - Since)
  <2>1. \/ Since + Here < NPub /\ g'.nread = g.in_len
        \/ Since + Here >= NPub /\ g'.nread = g.nread + (NPub - Since)
    BY DEF PublishStep
  <2> QED
    BY <1>1, <1>3, <2>1
<1>6. ~ rewound
  BY <1>4
<1>7. WaitedSince' /\ TimeoutYields'
  <2>1. WaitedSince'
    BY <1>4 DEF WaitedSince, Walking
  <2>2. TimeoutYields'
    BY <1>4, <1>6, TimeoutParts, YieldsKept
  <2> QED
    BY <2>1, <2>2
<1>8. ASSUME g.event_tag.key = "timeout"
      PROVE  TimeoutBlock' /\ (g'.pc # "fill" => AllListed')
  <2>1. InBlock /\ g.pc # "fill"
    BY <1>1 DEF InBlock
  <2>2. TimeoutBlock /\ AllListed /\ (g.pc = "publish" => RoomAhead)
    BY <1>8, <2>1, TimeoutParts
  <2>3. \A i \in DOMAIN g.tags : g.tags[i].at >= Position(g) + (NPub - Since)
    <3>1. CASE g.pc = "publish" /\ Since = 0
      <4>1. NPub - Since = NPub
        BY <1>3, <3>1
      <4> QED
        BY <2>2, <3>1, <4>1 DEF RoomAhead
    <3>2. CASE g.state = "publish" /\ g.pc = "work" /\ Since = g.n_since
      <4> SUFFICES ASSUME NEW i \in DOMAIN g.tags
                   PROVE  g.tags[i].at >= Position(g) + (NPub - Since)
        OBVIOUS
      <4>1. g.tags # <<>>
        OBVIOUS
      <4>2. /\ next_tag \in Nat /\ g.tags[i].at \in Int /\ g.read + next_tag <= g.tags[i].at
        BY <1>2, <4>1, FirstTagFacts DEF TagInv
      <4>3. ~ TagEndsTimeout
        BY <3>2 DEF PublishStep
      <4>4. g.pubtimeout
        BY <2>2 DEF TimeoutBlock
      <4>5. ~ (NPub - g.n_since + g.nread > next_tag - g.read)
        BY <4>3, <4>4 DEF TagEndsTimeout
      <4>6. NPub - g.n_since + g.nread <= next_tag - g.read
        BY <1>3, <4>2, <4>5
      <4> QED
        BY <1>3, <3>2, <4>2, <4>6
    <3> QED
      BY <1>1, <3>1, <3>2
  <2>4. Position(g)' <= Position(g) + (NPub - Since) /\ Position(g)' <= g.read + g.in_len
        /\ Position(g)' \in Int
    BY <1>1, <1>3, <1>5
  <2>5. \A t \in ToSet(g.tags) : Position(g)' <= t.at
    <3>1. \A i \in DOMAIN g.tags : g.tags[i].at \in Int
      BY ListedTags DEF ToSet
    <3>2. \A i \in DOMAIN g.tags : Position(g)' <= g.tags[i].at
      BY <1>1, <1>3, <2>3, <2>4, <3>1
    <3> QED
      BY <3>2 DEF ToSet
  <2>6. ASSUME NEW t \in ToSet(stream), t.key \in Requests,
               t.at \in g.event_tag.value .. Position(g)' - 1
        PROVE  FALSE
    <3>1. t.at \in Int /\ t.at < Position(g)'
      BY <2>4, <2>6, StreamTags
    <3>2. ~ (Position(g) <= t.at)
      <4> SUFFICES ASSUME Position(g) <= t.at
                   PROVE  FALSE
        OBVIOUS
      <4>1. t.at < g.read + g.in_len
        BY <1>3, <2>4, <3>1
      <4>2. t \in ToSet(g.tags)
        BY <2>2, <2>6, <4>1 DEF AllListed
      <4> QED
        BY <2>4, <2>5, <3>1, <4>2
    <3>3. t.at \in g.event_tag.value .. Position(g) - 1
      BY <1>3, <2>6, <3>1, <3>2
    <3> QED
      BY <2>2, <2>6, <3>3 DEF TimeoutBlock, NoRequest
  <2>7. TimeoutBlock'
    BY <1>4, <2>2, <2>6 DEF TimeoutBlock, NoRequest
  <2>8. ASSUME g'.pc # "fill"
        PROVE  AllListed'
    <3>1. Position(g)' = g.read + g.in_len
      BY <1>1, <1>4, <2>8
    <3>2. ~ \E t \in ToSet(stream) : Position(g)' <= t.at /\ t.at < g.read + g.in_len
      <4>1. g.read + g.in_len \in Int /\ \A t \in ToSet(stream) : t.at \in Int
        BY <1>3, StreamTags
      <4> QED
        BY <3>1, <4>1
    <3> QED
      BY <1>4, <3>2 DEF AllListed
  <2> QED
    BY <2>7, <2>8
<1>9. g'.pc # "publish"
  BY <1>4
<1> QED
  BY <1>4, <1>7, <1>8, <1>9, TimeoutPartsNext

LEMMA TimeoutFill ==
  ASSUME ~ torn, ~ torn', ShapeInv, OrderInv, EventInv, TimeoutInv, NoForeignTag, FillStep, ~ rewound'
  PROVE  TimeoutInv'
<1>1. /\ g'.pc \in {"work", "idle"} /\ g'.state = "wait"
      /\ g'.events = Append(g.events, g.event_tag)
  BY FillBlock
<1>2. g \in GateRec
  BY DEF ShapeInv
<1>3. /\ Position(g) \in Int /\ NPub \in Nat
      /\ g.events \in Seq(Event) /\ Len(g.events) \in Nat /\ g.event_tag \in Event
  BY <1>2, GateTypes
<1>4. /\ g.pc = "fill" /\ stream' = stream /\ waited' = waited /\ ~ rewound
      /\ g'.n_since = g.n_since
  BY DEF FillStep
<1>5. g.n_since = 0 /\ Len(g.out_buf) = NPub
  BY <1>4 DEF ShapeInv, OrderInv
<1>6. WaitedSince'
  <2>1. g' \in GateRec
    BY DEF FillStep
  <2>2. Position(g)' \in Int
    BY <2>1, EdgeFactsNext
  <2>3. Position(g)' - 0 .. Position(g)' - 1 = {}
    BY <2>2
  <2>4. g'.n_since = 0
    BY <1>4, <1>5
  <2> QED
    BY <2>3, <2>4 DEF WaitedSince
<1>7. NoForeignTag'
  BY <1>4 DEF NoForeignTag
<1>8. \A k \in DOMAIN g.events : YieldsAt(k)
  BY <1>4, TimeoutParts, YieldsFacts
<1>9. /\ DOMAIN g'.events = 1 .. Len(g.events) + 1
      /\ \A k \in 1 .. Len(g.events) : g'.events[k] = g.events[k]
      /\ g'.events[Len(g.events) + 1] = g.event_tag
      /\ DOMAIN g.events = 1 .. Len(g.events)
  BY <1>1, <1>3, AppendProperties
<1>10. ASSUME NEW k \in 1 .. Len(g.events)
       PROVE  YieldsAt(k)'
  BY <1>4, <1>8, <1>9, YieldsCarried
<1>11. ASSUME NEW k, k = Len(g.events) + 1
       PROVE  YieldsAt(k)'
  <2>1. g'.events[k] = g.event_tag
    BY <1>9, <1>11
  <2>2. ASSUME g.event_tag.key = "timeout"
        PROVE  /\ g.event_tag.value - NTimeout .. g.event_tag.value - 1 \subseteq waited
               /\ NoRequest(g.event_tag.value, g.event_tag.value + NPub - 1)
    <3>1. InBlock
      BY <1>4 DEF InBlock
    <3>2. TimeoutBlock
      BY <2>2, <3>1, TimeoutParts
    <3>3. PICK d \in Delays(g.event_tag.key, n_discard, sets) : BlockStart = g.event_tag.value + d
      BY <3>1 DEF EventInv
    <3>4. d = 0
      BY <2>2 DEF Delays
    <3>5. g.event_tag.value \in Int
      BY <1>3 DEF Event
    <3>6. Position(g) - NPub = g.event_tag.value
      BY <1>5, <3>3, <3>4, <3>5 DEF BlockStart
    <3>7. Position(g) - 1 = g.event_tag.value + NPub - 1
      BY <1>3, <3>5, <3>6
    <3> QED
      BY <3>2, <3>7 DEF TimeoutBlock
  <2> QED
    BY <1>4, <2>1, <2>2 DEF YieldsAt, NoRequest
<1>12. \A k \in DOMAIN g'.events : k \in 1 .. Len(g.events) \/ k = Len(g.events) + 1
  BY <1>3, <1>9
<1>13. TimeoutYields'
  BY <1>7, <1>10, <1>11, <1>12, YieldsFactsNext
<1>14. ~ InBlock'
  BY <1>1 DEF InBlock
<1> QED
  BY <1>6, <1>13, <1>14, TimeoutPartsNext
LEMMA TimeoutDiscard ==
  ASSUME ~ torn, ~ torn', EventInv, TimeoutInv, NoForeignTag, SteadyDiscard, ~ rewound'
  PROVE  TimeoutInv'
<1>1. /\ g.pc = "discard" \/ g.state = "discard"
      /\ g'.events = g.events /\ g'.event_tag = g.event_tag
      /\ stream' = stream /\ waited' = waited
      /\ rewound' = (rewound \/ Position(g)' < Position(g))
      /\ (g'.state = "discard" /\ g'.pc = "work") \/ (g'.state = "wait" /\ g'.pc = "publish")
  BY DEF SteadyDiscard, OutputKept
<1>2. ~ rewound
  BY <1>1
<1>3. WaitedSince'
  BY <1>1 DEF WaitedSince, Walking
<1>4. TimeoutYields'
  BY <1>1, <1>2, TimeoutParts, YieldsKept
<1>5. g'.event_tag.key # "timeout"
  BY <1>1 DEF EventInv
<1> QED
  BY <1>3, <1>4, <1>5, TimeoutPartsNext

LEMMA TimeoutAbort ==
  ASSUME ~ torn, ~ torn', TimeoutInv, NoForeignTag, AbortStep, ~ rewound'
  PROVE  TimeoutInv'
<1>1. /\ g'.events = g.events /\ stream' = stream /\ waited' = waited
      /\ rewound' = (rewound \/ Position(g)' < Position(g))
      /\ g'.state = "wait" /\ g'.pc = "work" /\ g'.n_since = 0 /\ g' \in GateRec
  BY DEF AbortStep, OutputKept
<1>2. ~ rewound
  BY <1>1
<1>3. WaitedSince'
  <2>1. Position(g)' \in Int
    BY <1>1, EdgeFactsNext
  <2>2. Position(g)' - 0 .. Position(g)' - 1 = {}
    BY <2>1
  <2> QED
    BY <1>1, <2>2 DEF WaitedSince
<1>4. TimeoutYields'
  BY <1>1, <1>2, TimeoutParts, YieldsKept
<1>5. ~ InBlock'
  BY <1>1 DEF InBlock
<1> QED
  BY <1>3, <1>4, <1>5, TimeoutPartsNext

(* Between two walks the position stays, unless the block waits anew.      *)
LEMMA TimeoutRest ==
  ASSUME ~ torn, ~ torn', ShapeInv, TagInv, TimeoutInv, NoForeignTag, EndStep \/ CallStep \/ SetNDiscard,
         ~ rewound'
  PROVE  TimeoutInv'
<1>1. g \in GateRec
  BY DEF ShapeInv
<1>2. /\ g.read \in Nat /\ g.in_len \in Nat /\ g.nread \in Int /\ g.n_since \in Nat
      /\ Position(g) = g.read + g.nread /\ Position(g) \in Int
  BY <1>1, GateTypes DEF ShapeInv
<1>3. /\ g'.events = g.events /\ g'.event_tag = g.event_tag
      /\ g'.state = g.state /\ g'.n_since = g.n_since /\ g'.pubtimeout = g.pubtimeout
      /\ g'.pc = g.pc \/ (g.pc \in {"work", "idle"} /\ g'.pc \in {"work", "idle"})
      /\ rewound' = rewound /\ stream' = stream /\ waited' = waited
  BY DEF EndStep, CallStep, SetNDiscard, OutputKept
<1>4. /\ Position(g)' \in Int
      /\ Position(g)' = Position(g) \/ (g.state = "wait" /\ g.n_since = 0 /\ g.pc = "work")
  <2>1. CASE EndStep
    <3>1. /\ g.pc = "work" /\ g.nread >= g.in_len
          /\ g'.read = g.read + g.in_len /\ g'.nread = 0
      BY <2>1 DEF EndStep
    <3>2. g.nread > g.in_len => g.state = "wait" /\ g.n_since = 0
      BY <3>1 DEF ShapeInv, Walking
    <3>3. Position(g)' = g.read + g.in_len
      BY <1>2, <3>1 DEF Position
    <3> QED
      BY <1>2, <3>1, <3>2, <3>3
  <2>2. CASE CallStep
    BY <1>2, <2>2 DEF CallStep, Position
  <2>3. CASE SetNDiscard
    BY <1>2, <2>3 DEF SetNDiscard, Position
  <2> QED
    BY <2>1, <2>2, <2>3
<1>5. WaitedSince'
  <2>1. ASSUME Position(g)' # Position(g)
        PROVE  Position(g)' - g'.n_since .. Position(g)' - 1 = {}
    <3>1. g'.n_since = 0
      BY <1>3, <1>4, <2>1
    <3>2. Position(g)' - 0 .. Position(g)' - 1 = {}
      BY <1>4
    <3> QED
      BY <3>1, <3>2
  <2>2. Walking' => Walking
    BY <1>3 DEF Walking
  <2> QED
    BY <1>3, <2>1, <2>2, TimeoutParts DEF WaitedSince
<1>6. TimeoutYields'
  BY <1>3, TimeoutParts, YieldsKept
<1>7. InBlock' => InBlock /\ Position(g)' = Position(g)
  <2>1. InBlock' => InBlock
    BY <1>3 DEF InBlock
  <2>2. InBlock => ~ (g.state = "wait" /\ g.pc = "work")
    BY DEF InBlock
  <2> QED
    BY <1>4, <2>1, <2>2
<1>8. ASSUME InBlock', g'.event_tag.key = "timeout"
      PROVE  /\ TimeoutBlock' /\ (g'.pc # "fill" => AllListed')
             /\ (g'.pc = "publish" => RoomAhead')
  <2>1. /\ Position(g)' = Position(g)
        /\ TimeoutBlock /\ (g.pc # "fill" => AllListed) /\ (g.pc = "publish" => RoomAhead)
    BY <1>3, <1>7, <1>8, TimeoutParts
  <2>2. TimeoutBlock'
    BY <1>3, <2>1 DEF TimeoutBlock, NoRequest
  <2>3. CASE SetNDiscard
    <3>1. g' = g
      BY <2>3 DEF SetNDiscard
    <3>2. g.pc # "fill" => AllListed'
      BY <1>3, <2>1, <3>1 DEF AllListed
    <3>3. g.pc = "publish" => RoomAhead'
      BY <2>1, <3>1 DEF RoomAhead
    <3> QED
      BY <2>2, <3>1, <3>2, <3>3
  <2>4. CASE CallStep
    <3>1. /\ g'.read = g.read /\ g'.tags = TagsIn(g.read, g.read + g'.in_len) /\ g'.pc = "work"
          /\ g'.in_len \in 1 .. MaxWindow /\ g.pc = "idle"
      BY <2>4 DEF CallStep
    <3>2. g.nread = 0
      BY <3>1 DEF ShapeInv
    <3>3. stream \in Seq(Tag) /\ Sorted(stream)
      BY StreamFacts DEF ShapeInv
    <3>4. g.read \in Int /\ g.read + g'.in_len \in Int
      BY <1>2, <3>1, SizesAssumption
    <3>5. \A t : t \in ToSet(g'.tags) <=> t \in ToSet(stream) /\ g.read <= t.at /\ t.at < g.read + g'.in_len
      BY <3>1, <3>3, <3>4, TagsInFacts
    <3>6. Position(g)' = g.read
      BY <1>2, <2>1, <3>2
    <3>7. AllListed'
      BY <1>3, <3>1, <3>5, <3>6 DEF AllListed
    <3> QED
      BY <2>2, <3>1, <3>7
  <2>5. CASE EndStep
    <3>1. g'.pc = "idle" /\ g'.in_len = 0 /\ g'.nread = 0 /\ g' \in GateRec
      BY <2>5 DEF EndStep
    <3>2. g'.read \in Int /\ Position(g)' = g'.read + 0
      BY <3>1, EdgeFactsNext
    <3>3. Position(g)' = g'.read + g'.in_len
      BY <3>1, <3>2
    <3>4. ~ \E t \in ToSet(stream) : Position(g)' <= t.at /\ t.at < g'.read + g'.in_len
      <4>1. g'.read + g'.in_len \in Int /\ \A t \in ToSet(stream) : t.at \in Int
        BY <1>4, <3>3, StreamTags
      <4> QED
        BY <3>3, <4>1
    <3>5. AllListed'
      BY <1>3, <3>4 DEF AllListed
    <3> QED
      BY <2>2, <3>1, <3>5
  <2> QED
    BY <2>3, <2>4, <2>5
<1> QED
  BY <1>5, <1>6, <1>8, TimeoutPartsNext

LEMMA TimeoutKept ==
  ASSUME ShapeInv, TagInv, ~ torn, ~ torn', RequestInv, OrderInv, EventInv, TimeoutInv,
         NoForeignTag, NTimeout >= NPub - 1, Turn, ~ rewound'
  PROVE  TimeoutInv'
BY TimeoutStart, TimeoutWait, TimeoutDiscard, TimeoutAbort, TimeoutPublish, TimeoutFill, TimeoutRest
   DEF Turn, DiscardStep

(***************************************************************************)
(* FieldInv.                                                               *)
(***************************************************************************)
(* A turn inside the window keeps the fields in their types.               *)
LEMMA FieldKept ==
  ASSUME FieldInv, g' \in GateRec, WindowKept, stream' = stream,
         n_discard' \in NDiscards, sets' \in 0 .. MaxSets,
         waited' \subseteq 0 .. NIn - 1, rewound' \in BOOLEAN, torn' \in BOOLEAN,
         g.pc # "idle", g'.pc # "idle", g.read + g'.nread >= 0, StateInv',
         Sorted(g'.tags), \A i \in DOMAIN g'.tags : g'.tags[i] \in ToSet(g.tags)
  PROVE  FieldInv'
<1>1. /\ stream \in Streams /\ g.in_len <= MaxWindow /\ g.read + g.in_len <= NIn
      /\ g.in_len > 0 /\ g.out_len \in OutLens /\ Listed
  BY DEF FieldInv
<1>2. g'.read = g.read /\ g'.in_len = g.in_len /\ g'.out_len = g.out_len
  BY DEF WindowKept
<1>3. Position(g)' = g.read + g'.nread
  BY <1>2 DEF Position
<1>4. Listed'
  <2> SUFFICES ASSUME NEW i \in DOMAIN g'.tags
               PROVE  /\ g'.tags[i] \in ToSet(stream) /\ g.read <= g'.tags[i].at
                      /\ g'.tags[i].at < g.read + g.in_len
    BY <1>2 DEF Listed
  <2>1. PICK j \in DOMAIN g.tags : g'.tags[i] = g.tags[j]
    BY DEF ToSet
  <2> QED
    BY <1>1, <2>1 DEF Listed
<1> QED
  BY <1>1, <1>2, <1>3, <1>4 DEF FieldInv

(* The samples a move passes over are of the input.                        *)
LEMMA FieldWaited ==
  ASSUME FieldInv, HistoryKept, g' \in GateRec, g'.read = g.read, g'.nread <= g.in_len
  PROVE  waited' \subseteq 0 .. NIn - 1 /\ rewound' \in BOOLEAN /\ torn' \in BOOLEAN
<1>1. /\ waited \subseteq 0 .. NIn - 1 /\ rewound \in BOOLEAN /\ torn \in BOOLEAN
      /\ Position(g) >= 0 /\ g.read + g.in_len <= NIn /\ g \in GateRec
  BY DEF FieldInv
<1>2. /\ g.read \in Int /\ g.in_len \in Int /\ NIn \in Int /\ Position(g) \in Int
      /\ g'.nread \in Int
  <2>1. g'.nread \in Int
    BY DEF GateRec
  <2> QED
    BY <1>1, <2>1, GateTypes
<1>3. Position(g)' = g.read + g'.nread
  BY DEF Position
<1>4. Position(g)' - 1 <= NIn - 1 /\ Position(g)' \in Int
  BY <1>1, <1>2, <1>3
<1>5. Position(g) .. Position(g)' - 1 \subseteq 0 .. NIn - 1
  BY <1>1, <1>2, <1>4
<1>6. waited' \subseteq 0 .. NIn - 1
  BY <1>1, <1>5 DEF HistoryKept
<1>7. rewound' \in BOOLEAN /\ torn' \in BOOLEAN
  BY <1>1 DEF HistoryKept
<1> QED
  BY <1>6, <1>7

LEMMA FieldStart ==
  ASSUME FieldInv, StartTurn
  PROVE  FieldInv'
<1>1. /\ g \in GateRec /\ Listed /\ StateInv /\ n_discard \in NDiscards /\ sets \in 0 .. MaxSets
      /\ Position(g) >= 0
  BY DEF FieldInv
<1>2. PICK key \in Requests \union {"timeout"}, n \in Int, next \in {"discard", "publish"},
           flag \in BOOLEAN :
        /\ StartStep(key, n, next, flag)
        /\ \/ n = next_tag /\ g.tags # <<>>
           \/ n = next_timeout /\ next = "publish" /\ TimeoutNext
  <2>1. next_tag \in Int /\ next_timeout \in Int
    BY <1>1, NextTagFacts
  <2>2. g.pubtimeout \in BOOLEAN
    BY <1>1, GateTypes
  <2>3. "tune" \in Requests /\ "pub" \in Requests
    BY DEF Requests
  <2> QED
    BY <2>1, <2>2, <2>3 DEF StartTurn, TuneStep, PubStep, TimeoutStep, FirstTag
<1>3. /\ g.pc = "work" /\ g.state = "wait" /\ g' \in GateRec /\ WindowKept /\ HistoryKept
      /\ g'.state = "wait" /\ g'.tags = g.tags /\ g'.nread = n /\ g'.pc = next
      /\ g'.read = g.read /\ g'.in_len = g.in_len
  BY <1>2 DEF StartStep, WindowKept
<1>4. /\ g.read \in Nat /\ g.in_len \in Nat /\ g.nread \in Int /\ g.n_since \in Int
      /\ NTimeout \in Nat /\ Position(g) = g.read + g.nread
  BY <1>1, GateTypes
<1>5. n <= g.in_len /\ g.read + n >= 0
  <2>1. CASE n = next_tag /\ g.tags # <<>>
    <3>1. next_tag \in Nat /\ next_tag < g.in_len
      BY <1>1, <2>1, FirstTagFacts
    <3> QED
      BY <1>4, <2>1, <3>1
  <2>2. CASE n = next_timeout /\ TimeoutNext
    <3>1. n = NTimeout - g.n_since + g.nread /\ n <= g.in_len
      BY <1>1, <2>2, NextTagFacts DEF TimeoutNext
    <3>2. g.n_since <= NTimeout + Position(g)
      BY <1>1, <1>3 DEF StateInv, Walking
    <3> QED
      BY <1>4, <3>1, <3>2
  <2> QED
    BY <1>2, <2>1, <2>2
<1>6. Position(g)' = g.read + n
  BY <1>3 DEF Position
<1>7. next = "publish" \/ Ahead'
  <2> SUFFICES ASSUME n = next_tag, g.tags # <<>>
               PROVE  Ahead'
    BY <1>2
  <2>1. \A i \in DOMAIN g.tags : g.read + next_tag <= g.tags[i].at
    BY <1>1, FirstTagFacts
  <2> QED
    BY <1>3, <1>6, <2>1 DEF Ahead
<1>8. StateInv'
  BY <1>3, <1>7 DEF StateInv, Walking
<1>9. \A i \in DOMAIN g'.tags : g'.tags[i] \in ToSet(g.tags)
  BY <1>3 DEF ToSet
<1>10. waited' \subseteq 0 .. NIn - 1 /\ rewound' \in BOOLEAN /\ torn' \in BOOLEAN
  BY <1>3, <1>5, FieldWaited
<1>11. stream' = stream /\ n_discard' = n_discard /\ sets' = sets
  BY <1>3 DEF HistoryKept
<1>12. Sorted(g'.tags)
  BY <1>1, <1>3 DEF Listed
<1> QED
  BY <1>1, <1>3, <1>5, <1>8, <1>9, <1>10, <1>11, <1>12, FieldKept

(* How far a turn that waits moves, be it behind a tag or not.             *)
LEMMA FieldWaitMoves ==
  ASSUME FieldInv, WaitTurn
  PROVE  \E n \in Nat, since \in Int, tags \in Seq(Tag), period \in {1, RatePeriod} :
           /\ WaitStep(n, since, tags, period)
           /\ n <= g.in_len /\ since <= NTimeout + (g.read + n)
           /\ n = g.in_len \/ \A i \in DOMAIN g.tags : g.read + n <= g.tags[i].at
           /\ Sorted(tags) /\ \A i \in DOMAIN tags : tags[i] \in ToSet(g.tags)
<1>1. g \in GateRec /\ Listed /\ Sorted(g.tags) /\ StateInv
  BY DEF FieldInv, Listed
<1>2. /\ g.read \in Nat /\ g.in_len \in Nat /\ g.nread \in Int /\ g.n_since \in Int
      /\ NTimeout \in Nat /\ NPub \in Nat /\ Position(g) = g.read + g.nread
      /\ g.tags \in Seq(Tag) /\ g.samp_period \in {1, RatePeriod} /\ RatePeriod \in {1, RatePeriod}
  BY <1>1, GateTypes
<1>3. next_timeout = NTimeout - g.n_since + g.nread /\ next_tag \in Int
  BY <1>1, NextTagFacts
<1>4. g.state = "wait" /\ g.pc = "work" /\ g.nread < g.in_len
  BY DEF WaitTurn, RateStep, ForeignStep, NearStep, WaitEndStep, WaitStep
<1>5. ASSUME g.tags # <<>>
      PROVE  /\ next_tag \in Nat /\ next_tag < g.in_len
             /\ \A i \in DOMAIN g.tags : g.read + next_tag <= g.tags[i].at
             /\ Tail(g.tags) \in Seq(Tag) /\ Sorted(Tail(g.tags))
             /\ \A i \in DOMAIN Tail(g.tags) : Tail(g.tags)[i] \in ToSet(g.tags)
             /\ g.nread <= next_tag \/ g.n_since <= 0
  <2>1. Ahead \/ g.n_since <= 0
    BY <1>1, <1>2, <1>4 DEF StateInv
  <2> QED
    BY <1>1, <1>5, <2>1, FirstTagFacts
<1>6. \A i \in DOMAIN g.tags : g.tags[i] \in ToSet(g.tags)
  BY DEF ToSet
<1>7. g.n_since <= NTimeout + (g.read + g.nread)
  BY <1>1, <1>2, <1>4 DEF StateInv, Walking
<1>8. CASE RateStep
  <2>1. /\ FirstTag("rate")
        /\ WaitStep(next_tag, g.n_since + (next_tag - g.nread), Tail(g.tags), RatePeriod)
    BY <1>8 DEF RateStep
  <2>2. g.tags # <<>> /\ next_tag <= next_timeout
    BY <2>1 DEF FirstTag, TagNext
  <2> DEFINE w == g.n_since + (next_tag - g.nread)
  <2>3. w \in Int /\ w <= NTimeout + (g.read + next_tag)
    BY <1>2, <1>3, <1>5, <2>2
  <2>4. WaitStep(next_tag, w, Tail(g.tags), RatePeriod) /\ next_tag \in Nat /\ next_tag <= g.in_len
    BY <1>2, <1>5, <2>1, <2>2
  <2> HIDE DEF w
  <2> QED
    BY <1>2, <1>5, <2>2, <2>3, <2>4
<1>9. CASE ForeignStep
  <2>1. /\ FirstTag("foreign")
        /\ WaitStep(next_tag, g.n_since + next_tag, Tail(g.tags), g.samp_period)
    BY <1>9 DEF ForeignStep
  <2>2. g.tags # <<>> /\ next_tag <= next_timeout
    BY <2>1 DEF FirstTag, TagNext
  <2> DEFINE w == g.n_since + next_tag
  <2>3. w \in Int /\ w <= NTimeout + (g.read + next_tag)
    BY <1>2, <1>3, <1>5, <2>2
  <2>4. WaitStep(next_tag, w, Tail(g.tags), g.samp_period) /\ next_tag \in Nat /\ next_tag <= g.in_len
    BY <1>2, <1>5, <2>1, <2>2
  <2> HIDE DEF w
  <2> QED
    BY <1>2, <1>5, <2>2, <2>3, <2>4
<1>10. CASE NearStep
  <2>1. /\ TimeoutNext /\ next_tag < next_timeout + NPub
        /\ WaitStep(next_tag, g.n_since, g.tags, g.samp_period)
    BY <1>10 DEF NearStep
  <2>2. next_timeout <= g.in_len
    BY <2>1 DEF TimeoutNext
  <2>3. g.tags # <<>>
    <3> SUFFICES ASSUME g.tags = <<>>
                 PROVE  FALSE
      OBVIOUS
    <3>1. next_tag = g.in_len + NPub + 1
      BY <1>1, NextTagFacts
    <3> QED
      BY <1>2, <1>3, <2>1, <2>2, <3>1
  <2>4. g.n_since \in Int /\ g.n_since <= NTimeout + (g.read + next_tag)
    BY <1>2, <1>5, <1>7, <2>3
  <2>5. next_tag \in Nat /\ next_tag <= g.in_len
    BY <1>2, <1>5, <2>3
  <2> QED
    BY <1>1, <1>2, <1>5, <1>6, <2>1, <2>3, <2>4, <2>5
<1>11. CASE WaitEndStep
  <2>1. /\ ~ TagNext /\ ~ TimeoutNext
        /\ WaitStep(g.in_len, g.n_since + (g.in_len - g.nread), g.tags, g.samp_period)
    BY <1>11 DEF WaitEndStep
  <2>2. next_timeout > g.in_len
    BY <1>2, <1>3, <2>1 DEF TimeoutNext
  <2> DEFINE w == g.n_since + (g.in_len - g.nread)
  <2>3. w \in Int /\ w <= NTimeout + (g.read + g.in_len)
    BY <1>2, <1>3, <2>2
  <2>4. WaitStep(g.in_len, w, g.tags, g.samp_period) /\ g.in_len \in Nat /\ g.in_len <= g.in_len
    BY <1>2, <2>1
  <2> HIDE DEF w
  <2> QED
    BY <1>1, <1>2, <1>6, <2>3, <2>4
<1> QED
  BY <1>8, <1>9, <1>10, <1>11 DEF WaitTurn

LEMMA FieldWait ==
  ASSUME FieldInv, WaitTurn
  PROVE  FieldInv'
<1>1. /\ g \in GateRec /\ Listed /\ n_discard \in NDiscards /\ sets \in 0 .. MaxSets
  BY DEF FieldInv
<1>2. PICK n \in Nat, since \in Int, tags \in Seq(Tag), period \in {1, RatePeriod} :
        /\ WaitStep(n, since, tags, period)
        /\ n <= g.in_len /\ since <= NTimeout + (g.read + n)
        /\ n = g.in_len \/ \A i \in DOMAIN g.tags : g.read + n <= g.tags[i].at
        /\ Sorted(tags) /\ \A i \in DOMAIN tags : tags[i] \in ToSet(g.tags)
  BY FieldWaitMoves
<1>3. /\ g.pc = "work" /\ g' \in GateRec /\ WindowKept /\ HistoryKept
      /\ g'.state = "wait" /\ g'.n_since = since /\ g'.tags = tags /\ g'.nread = n /\ g'.pc = "work"
      /\ g'.read = g.read /\ g'.in_len = g.in_len
  BY <1>2 DEF WaitStep, WindowKept
<1>4. g.read \in Nat /\ g.in_len \in Nat /\ g.tags \in Seq(Tag)
  BY <1>1, GateTypes
<1>5. Position(g)' = g.read + n /\ g.read + n >= 0
  BY <1>2, <1>3, <1>4 DEF Position
<1>6. n = g.in_len \/ Ahead'
  <2> SUFFICES ASSUME \A i \in DOMAIN g.tags : g.read + n <= g.tags[i].at, NEW j \in DOMAIN tags
               PROVE  g.read + n <= tags[j].at
    BY <1>2, <1>3, <1>5 DEF Ahead
  <2>1. PICK i \in DOMAIN g.tags : tags[j] = g.tags[i]
    BY <1>2 DEF ToSet
  <2> QED
    BY <2>1
<1>7. StateInv'
  BY <1>2, <1>3, <1>4, <1>5, <1>6 DEF StateInv, Walking
<1>8. waited' \subseteq 0 .. NIn - 1 /\ rewound' \in BOOLEAN /\ torn' \in BOOLEAN
  BY <1>2, <1>3, FieldWaited
<1>9. stream' = stream /\ n_discard' = n_discard /\ sets' = sets
  BY <1>3 DEF HistoryKept
<1> QED
  BY <1>1, <1>2, <1>3, <1>5, <1>7, <1>8, <1>9, FieldKept

LEMMA FieldDiscard ==
  ASSUME FieldInv, DiscardStep
  PROVE  FieldInv'
<1>1. /\ g \in GateRec /\ Listed /\ StateInv /\ n_discard \in NDiscards
      /\ waited \subseteq 0 .. NIn - 1 /\ rewound \in BOOLEAN /\ Position(g) >= 0
      /\ g.pc # "idle"
  BY DEF FieldInv, DiscardStep, Looping
<1>2. /\ g.read \in Nat /\ g.in_len \in Nat /\ g.nread \in Int /\ g.n_since \in Int
      /\ g.tags \in Seq(Tag) /\ Position(g) = g.read + g.nread
  BY <1>1, GateTypes
<1>3. Since \in Int /\ Here \in Int /\ Left \in Int /\ Here = g.in_len - g.nread
  BY <1>1, SinceFacts DEF Here
<1>4. Since <= Position(g)
  BY <1>1, <1>2 DEF Since, StateInv, DiscardStep, Looping, Walking
<1>5. /\ g' \in GateRec /\ WindowKept /\ stream' = stream /\ waited' = waited
      /\ n_discard' \in NDiscards /\ sets' \in 0 .. MaxSets /\ torn' \in BOOLEAN
      /\ g'.tags = TagsLeft(g, Left) /\ g'.read = g.read /\ g'.in_len = g.in_len
  BY DEF DiscardStep, WindowKept
<1>6. n_discard' \in Nat
  BY <1>5, SizesAssumption
<1>7. rewound' \in BOOLEAN
  BY <1>1 DEF DiscardStep
<1>8. /\ Sorted(g'.tags)
      /\ \A t : t \in ToSet(g'.tags) => t \in ToSet(g.tags)
  BY <1>1, <1>2, <1>3, <1>5, TagsLeftFacts DEF Listed
<1>9. \A i \in DOMAIN g'.tags : g'.tags[i] \in ToSet(g.tags)
  BY <1>8 DEF ToSet
<1>10. Position(g)' = g.read + g'.nread
  BY <1>5 DEF Position
<1>11. CASE /\ g'.nread = g.nread + Here /\ g'.n_since = Since + Here
            /\ g'.state = "discard" /\ g'.pc = "work"
  <2>1. g'.nread = g.in_len
    BY <1>2, <1>3, <1>11
  <2>2. g'.n_since <= Position(g)' /\ g.read + g'.nread >= 0
    BY <1>2, <1>3, <1>4, <1>10, <1>11, <2>1
  <2>3. ~ (g'.nread > g'.in_len) /\ g'.nread >= g'.in_len
    BY <1>2, <1>5, <2>1
  <2>4. StateInv'
    BY <1>11, <2>2, <2>3 DEF StateInv, Walking
  <2> QED
    BY <1>1, <1>5, <1>7, <1>8, <1>9, <1>11, <2>2, <2>4, FieldKept
<1>12. CASE /\ g'.nread = g.nread + (n_discard' - Since) /\ g'.n_since = 0
            /\ g'.state = "wait" /\ g'.pc = "publish"
  <2>1. g.read + g'.nread >= 0
    BY <1>2, <1>3, <1>4, <1>6, <1>12
  <2>2. StateInv'
    BY <1>12 DEF StateInv, Walking
  <2> QED
    BY <1>1, <1>5, <1>7, <1>8, <1>9, <1>12, <2>1, <2>2, FieldKept
<1> QED
  BY <1>11, <1>12 DEF DiscardStep

LEMMA FieldAbort ==
  ASSUME FieldInv, AbortStep
  PROVE  FieldInv'
<1>1. /\ g \in GateRec /\ Listed /\ n_discard \in NDiscards /\ sets \in 0 .. MaxSets
      /\ waited \subseteq 0 .. NIn - 1 /\ rewound \in BOOLEAN /\ torn \in BOOLEAN
  BY DEF FieldInv
<1>2. /\ g.read \in Nat /\ g.in_len \in Nat /\ NPub \in Nat /\ NTimeout \in Nat
  BY <1>1, GateTypes
<1>3. next_tag >= 0 /\ next_tag \in Int
  <2>1. CASE g.tags = <<>>
    BY <1>1, <1>2, <2>1, NextTagFacts
  <2>2. CASE g.tags # <<>>
    BY <1>1, <2>2, FirstTagFacts
  <2> QED
    BY <2>1, <2>2
<1>4. /\ g' \in GateRec /\ WindowKept /\ stream' = stream /\ waited' = waited
      /\ n_discard' = n_discard /\ sets' = sets /\ torn' = torn
      /\ g'.tags = g.tags /\ g'.read = g.read /\ g'.nread = next_tag
      /\ g'.state = "wait" /\ g'.n_since = 0 /\ g'.pc = "work" /\ g.pc = "work"
  BY DEF AbortStep, WindowKept, Looping
<1>5. rewound' \in BOOLEAN
  BY <1>1 DEF AbortStep
<1>6. Position(g)' = g.read + next_tag /\ g.read + next_tag >= 0
      /\ 0 <= NTimeout + (g.read + next_tag)
  BY <1>2, <1>3, <1>4 DEF Position
<1>7. StateInv'
  <2>1. g'.n_since <= 0 /\ g'.n_since <= NTimeout + Position(g)'
    BY <1>4, <1>6
  <2> QED
    BY <1>4, <2>1 DEF StateInv, Walking
<1>8. Sorted(g'.tags) /\ \A i \in DOMAIN g'.tags : g'.tags[i] \in ToSet(g.tags)
  BY <1>1, <1>4 DEF Listed, ToSet
<1> QED
  BY <1>1, <1>4, <1>5, <1>6, <1>7, <1>8, FieldKept

LEMMA FieldPublish ==
  ASSUME FieldInv, PublishStep
  PROVE  FieldInv'
<1>1. /\ g \in GateRec /\ Listed /\ StateInv /\ n_discard \in NDiscards /\ sets \in 0 .. MaxSets
      /\ waited \subseteq 0 .. NIn - 1 /\ rewound \in BOOLEAN /\ torn \in BOOLEAN
      /\ Position(g) >= 0 /\ g.pc # "idle"
  BY DEF FieldInv, PublishStep, Looping
<1>2. /\ g.read \in Nat /\ g.in_len \in Nat /\ g.nread \in Int /\ g.n_since \in Int
      /\ g.tags \in Seq(Tag) /\ Position(g) = g.read + g.nread /\ NPub \in Nat /\ NPub > 0
  BY <1>1, GateTypes
<1>3. Since \in Int /\ Here \in Int /\ Here = g.in_len - g.nread
  BY <1>1, SinceFacts DEF Here
<1>4. Since < NPub
  BY <1>1, <1>2 DEF Since, StateInv, PublishStep, Looping, Walking
<1>5. /\ g' \in GateRec /\ WindowKept /\ stream' = stream /\ waited' = waited
      /\ n_discard' = n_discard /\ sets' = sets /\ torn' = torn
      /\ g'.tags = TagsLeft(g, NPub) /\ g'.read = g.read /\ g'.in_len = g.in_len
  BY DEF PublishStep, WindowKept
<1>6. rewound' \in BOOLEAN
  BY <1>1 DEF PublishStep
<1>7. /\ Sorted(g'.tags)
      /\ \A t : t \in ToSet(g'.tags) => t \in ToSet(g.tags)
  <2>1. NPub \in Int
    BY <1>2
  <2> QED
    BY <1>1, <1>2, <1>5, <2>1, TagsLeftFacts DEF Listed
<1>8. \A i \in DOMAIN g'.tags : g'.tags[i] \in ToSet(g.tags)
  BY <1>7 DEF ToSet
<1>9. CASE /\ Since + Here < NPub /\ g'.n_since = Since + Here /\ g'.nread = g.in_len
           /\ g'.state = "publish" /\ g'.pc = "work"
  <2>1. g'.n_since < NPub /\ g.read + g'.nread >= 0
    BY <1>2, <1>9
  <2>2. ~ (g'.nread > g'.in_len) /\ g'.nread >= g'.in_len
    BY <1>2, <1>5, <1>9
  <2>3. StateInv'
    BY <1>9, <2>1, <2>2 DEF StateInv, Walking
  <2> QED
    BY <1>1, <1>5, <1>6, <1>7, <1>8, <1>9, <2>1, <2>3, FieldKept
<1>10. CASE /\ Since + Here >= NPub /\ g'.n_since = 0 /\ g'.nread = g.nread + (NPub - Since)
            /\ g'.state = "wait" /\ g'.pc = "fill"
  <2>1. g'.nread <= g'.in_len /\ g.read + g'.nread >= 0
    BY <1>1, <1>2, <1>3, <1>4, <1>5, <1>10
  <2>2. StateInv'
    BY <1>10, <2>1 DEF StateInv, Walking
  <2> QED
    BY <1>1, <1>5, <1>6, <1>7, <1>8, <1>10, <2>1, <2>2, FieldKept
<1> QED
  BY <1>9, <1>10 DEF PublishStep

(* A call that returns leaves no window.                                   *)
LEMMA FieldReturn ==
  ASSUME FieldInv, g' \in GateRec, stream' = stream, n_discard' = n_discard, sets' = sets,
         waited' = waited, rewound' \in BOOLEAN, torn' = torn,
         g'.pc = "idle", g'.read >= 0, g'.read <= NIn, g'.nread = 0, g'.nout = 0, g'.in_len = 0,
         g'.out_len = 0, g'.tags = <<>>,
         g'.state = "discard" => g'.n_since <= g'.read,
         g'.state = "publish" => g'.n_since < NPub,
         g'.state = "wait" => g'.n_since <= NTimeout + g'.read
  PROVE  FieldInv'
<1>1. g'.read \in Nat /\ MaxWindow \in Nat
  BY SizesAssumption DEF GateRec
<1>2. Position(g)' = g'.read /\ g'.read + g'.in_len = g'.read
  BY <1>1 DEF Position
<1>3. DOMAIN g'.tags = {}
  OBVIOUS
<1>4. Listed'
  BY <1>3 DEF Listed, Sorted
<1>5. ~ (g'.nread > g'.in_len)
  OBVIOUS
<1>6. StateInv'
  BY <1>2, <1>3, <1>5 DEF StateInv, Walking, Ahead
<1> QED
  BY <1>1, <1>2, <1>4, <1>6 DEF FieldInv

LEMMA FieldFill ==
  ASSUME FieldInv, FillStep \/ PieceStep
  PROVE  FieldInv'
<1>1. /\ g \in GateRec /\ Listed /\ n_discard \in NDiscards /\ sets \in 0 .. MaxSets
      /\ waited \subseteq 0 .. NIn - 1 /\ rewound \in BOOLEAN /\ torn \in BOOLEAN
      /\ Position(g) >= 0 /\ g.read + g.in_len <= NIn
      /\ g.pc = "fill" /\ g.state = "wait" /\ g.n_since = 0 /\ g.nread <= g.in_len
  BY DEF FieldInv, StateInv, Walking, FillStep, PieceStep
<1>2. /\ g.read \in Nat /\ g.in_len \in Nat /\ g.nread \in Int /\ NIn \in Nat /\ NTimeout \in Nat
      /\ Position(g) = g.read + g.nread /\ NPub \in Nat /\ NPub > 0
  BY <1>1, GateTypes
<1>3. /\ stream' = stream /\ n_discard' = n_discard /\ sets' = sets /\ waited' = waited
      /\ torn' = torn /\ g' \in GateRec /\ g'.n_since = 0
  BY <1>1 DEF FillStep, PieceStep
<1>4. rewound' \in BOOLEAN
  BY <1>1 DEF FillStep, PieceStep
<1>5. CASE /\ g'.pc \in {"work", "raised"} /\ WindowKept /\ g'.tags = g.tags
           /\ g'.nread = g.nread /\ g'.state = g.state
  <2>1. g'.read = g.read /\ g'.in_len = g.in_len /\ g.read + g'.nread >= 0
    BY <1>1, <1>2, <1>5 DEF WindowKept
  <2>2. Position(g)' = Position(g) /\ ~ (g'.nread > g'.in_len)
        /\ 0 <= NTimeout + Position(g)
    BY <1>1, <1>2, <1>5, <2>1 DEF Position
  <2>3. StateInv'
    <3>1. g'.n_since <= 0
      BY <1>3
    <3> QED
      BY <1>1, <1>3, <1>5, <2>2, <3>1 DEF StateInv, Walking
  <2>4. Sorted(g'.tags) /\ \A i \in DOMAIN g'.tags : g'.tags[i] \in ToSet(g.tags)
    BY <1>1, <1>5 DEF Listed, ToSet
  <2> QED
    BY <1>1, <1>3, <1>4, <1>5, <2>1, <2>3, <2>4, FieldKept
<1>6. CASE /\ g'.pc = "idle" /\ g'.read = g.read + g.nread /\ g'.nread = 0 /\ g'.nout = 0
           /\ g'.in_len = 0 /\ g'.out_len = 0 /\ g'.tags = <<>>
           /\ g'.state \in {"wait", "publish"}
  <2>1. g'.read >= 0 /\ g'.read <= NIn /\ 0 <= NTimeout + g'.read /\ 0 < NPub
    BY <1>1, <1>2, <1>6
  <2> QED
    BY <1>3, <1>4, <1>6, <2>1, FieldReturn
<1> QED
  BY <1>1, <1>5, <1>6 DEF FillStep, PieceStep

LEMMA FieldEnd ==
  ASSUME FieldInv, EndStep
  PROVE  FieldInv'
<1>1. /\ g \in GateRec /\ StateInv /\ rewound \in BOOLEAN /\ g.read + g.in_len <= NIn
      /\ g.pc = "work" /\ g.nread >= g.in_len
  BY DEF FieldInv, EndStep
<1>2. /\ g.read \in Nat /\ g.in_len \in Nat /\ g.nread \in Int /\ g.n_since \in Int
      /\ NTimeout \in Nat /\ NPub \in Nat /\ Position(g) = g.read + g.nread
  BY <1>1, GateTypes
<1>3. /\ stream' = stream /\ n_discard' = n_discard /\ sets' = sets /\ waited' = waited
      /\ torn' = torn /\ rewound' = rewound /\ g' \in GateRec
      /\ g'.pc = "idle" /\ g'.read = g.read + g.in_len /\ g'.nread = 0 /\ g'.nout = 0
      /\ g'.in_len = 0 /\ g'.out_len = 0 /\ g'.tags = <<>>
      /\ g'.state = g.state /\ g'.n_since = g.n_since
  BY DEF EndStep
<1>4. /\ g.nread > g.in_len => g.state = "wait" /\ g.n_since = 0
      /\ g.state = "discard" => g.n_since <= g.read + g.nread
      /\ g.state = "publish" => g.n_since < NPub
      /\ g.state = "wait" => g.n_since <= NTimeout + (g.read + g.nread)
  BY <1>1, <1>2 DEF StateInv, Walking
<1>5. /\ g'.read >= 0 /\ g'.read <= NIn
      /\ g'.state = "discard" => g'.n_since <= g'.read
      /\ g'.state = "publish" => g'.n_since < NPub
      /\ g'.state = "wait" => g'.n_since <= NTimeout + g'.read
  <2>1. CASE g.nread = g.in_len
    BY <1>1, <1>2, <1>3, <1>4, <2>1
  <2>2. CASE g.nread > g.in_len
    BY <1>1, <1>2, <1>3, <1>4, <2>2
  <2> QED
    BY <1>1, <1>2, <2>1, <2>2
<1> QED
  BY <1>1, <1>3, <1>5, FieldReturn

LEMMA FieldCall ==
  ASSUME FieldInv, CallStep
  PROVE  FieldInv'
<1>1. /\ g \in GateRec /\ StateInv /\ stream \in Streams /\ n_discard \in NDiscards
      /\ sets \in 0 .. MaxSets /\ waited \subseteq 0 .. NIn - 1
      /\ rewound \in BOOLEAN /\ torn \in BOOLEAN /\ Position(g) >= 0
      /\ g.pc = "idle" /\ g.nread = 0
  BY DEF FieldInv, CallStep
<1>2. /\ g.read \in Nat /\ Position(g) = g.read + g.nread /\ MaxWindow \in Nat
  BY <1>1, GateTypes
<1>3. /\ stream' = stream /\ n_discard' = n_discard /\ sets' = sets /\ waited' = waited
      /\ rewound' = rewound /\ torn' = torn /\ g' \in GateRec
      /\ g'.state = g.state /\ g'.n_since = g.n_since /\ g'.read = g.read /\ g'.nread = g.nread
      /\ g'.pc = "work" /\ g'.in_len \in 1 .. MaxWindow /\ g'.out_len \in OutLens
      /\ g'.read + g'.in_len <= NIn /\ g'.tags = TagsIn(g.read, g.read + g'.in_len)
  BY DEF CallStep
<1>4. Position(g)' = Position(g) /\ Position(g) = g.read
  BY <1>1, <1>2, <1>3 DEF Position
<1>5. /\ g'.in_len > 0 /\ g'.in_len <= MaxWindow /\ g.read + g'.in_len \in Int
      /\ g.read \in Int
  BY <1>2, <1>3
<1>6. ~ (g'.nread > g'.in_len)
  BY <1>1, <1>3, <1>5
<1>7. /\ Sorted(g'.tags)
      /\ \A t : t \in ToSet(g'.tags)
                  <=> t \in ToSet(stream) /\ g.read <= t.at /\ t.at < g.read + g'.in_len
  BY <1>1, <1>3, <1>5, StreamFacts, TagsInFacts
<1>8. Listed' /\ Ahead'
  <2> SUFFICES ASSUME NEW i \in DOMAIN g'.tags
               PROVE  /\ g'.tags[i] \in ToSet(stream)
                      /\ g.read <= g'.tags[i].at
                      /\ g'.tags[i].at < g.read + g'.in_len
    BY <1>3, <1>4, <1>7 DEF Listed, Ahead
  <2>1. g'.tags[i] \in ToSet(g'.tags)
    BY DEF ToSet
  <2> QED
    BY <1>7, <2>1
<1>9. StateInv'
  BY <1>1, <1>3, <1>4, <1>6, <1>8 DEF StateInv, Walking
<1> QED
  BY <1>1, <1>3, <1>4, <1>5, <1>8, <1>9 DEF FieldInv

LEMMA FieldSet ==
  ASSUME FieldInv, SetNDiscard
  PROVE  FieldInv'
<1>1. /\ stream' = stream /\ g' = g /\ waited' = waited /\ rewound' = rewound /\ torn' = torn
      /\ n_discard' \in NDiscards /\ sets' = sets + 1 /\ sets < MaxSets
  BY DEF SetNDiscard
<1>2. sets' \in 0 .. MaxSets
  BY <1>1, SizesAssumption DEF FieldInv
<1>3. Position(g)' = Position(g) /\ (StateInv => StateInv') /\ (Listed => Listed')
  BY <1>1 DEF Position, StateInv, Listed, Ahead, Walking
<1> QED
  BY <1>1, <1>2, <1>3 DEF FieldInv

LEMMA FieldStep ==
  ASSUME FieldInv, Turn \/ PieceStep
  PROVE  FieldInv'
BY FieldCall, FieldSet, FieldStart, FieldWait, FieldDiscard, FieldAbort, FieldPublish, FieldFill,
   FieldEnd DEF Turn

(***************************************************************************)
(* The inductive invariant.                                                *)
(***************************************************************************)
(* What has gone wrong stays so.                                           *)
LEMMA Lasting ==
  ASSUME Turn \/ PieceStep
  PROVE  /\ stream' = stream
         /\ rewound => rewound'
         /\ torn => torn'
         /\ \A t \in overread : t \in overread'
<1> DEFINE Kept == /\ stream' = stream /\ (rewound => rewound') /\ (torn => torn')
                   /\ \A t \in overread : t \in overread'
<1>1. ASSUME CallStep \/ SetNDiscard \/ EndStep PROVE Kept
  BY <1>1 DEF CallStep, SetNDiscard, EndStep
<1>2. ASSUME StartTurn \/ WaitTurn PROVE Kept
  <2>1. HistoryKept
    BY <1>2 DEF StartTurn, TuneStep, PubStep, TimeoutStep, StartStep, WaitTurn, RateStep,
                ForeignStep, NearStep, WaitEndStep, WaitStep
  <2> QED
    BY <2>1 DEF HistoryKept
<1>3. ASSUME PublishStep PROVE Kept
  <2>1. /\ stream' = stream /\ rewound' = (rewound \/ Position(g)' < Position(g))
        /\ torn' = torn /\ overread \subseteq overread'
    BY <1>3 DEF PublishStep
  <2> QED
    BY <2>1
<1>4. ASSUME AbortStep \/ FillStep \/ PieceStep PROVE Kept
  <2>1. /\ stream' = stream /\ rewound' = (rewound \/ Position(g)' < Position(g))
        /\ torn' = torn /\ overread' = overread
    BY <1>4 DEF AbortStep, FillStep, PieceStep
  <2> QED
    BY <2>1
<1>5. ASSUME DiscardStep PROVE Kept
  BY <1>5 DEF DiscardStep
<1> QED
  BY <1>1, <1>2, <1>3, <1>4, <1>5 DEF Turn

LEMMA InitInv ==
  ASSUME Init
  PROVE  IInv /\ IInv2
<1>1. ShapeInv /\ TagInv
  BY ShapeInit
<1>2. /\ g = InitialGate /\ waited = {} /\ thrown = {} /\ overread = {}
      /\ rewound = FALSE /\ torn = FALSE
  BY DEF Init
<1>3. /\ g.read = 0 /\ g.nread = 0 /\ g.in_len = 0 /\ g.n_since = 0 /\ g.rx_delay = 0
      /\ g.samp_period = 1 /\ g.state = "wait" /\ g.pc = "idle" /\ g.out_offset = 0
      /\ g.out_buf = <<>> /\ g.out = <<>> /\ g.events = <<>> /\ g.tags = <<>> /\ g.passed = {}
  BY <1>2 DEF InitialGate
<1>4. Position(g) = 0
  BY <1>3 DEF Position
<1>5. \A t \in ToSet(stream) : t.at \in Int /\ ~ (t.at < 0)
  BY <1>1, StreamFacts, TagFields DEF ShapeInv
<1>12. FieldInv
  <2>1. Ahead /\ Listed
    BY <1>1, <1>2 DEF TagInv
  <2>2. StateInv
    BY <1>1, <1>3, <2>1 DEF StateInv, ShapeInv, Walking
  <2> QED
    BY <1>1, <2>1, <2>2 DEF FieldInv, ShapeInv
<1>6. RequestInv
  <2>1. \A t \in ToSet(stream) : ~ Overlooked(t)
    BY <1>3, <1>5 DEF Overlooked
  <2>2. RequestHeard
    BY <1>2 DEF RequestHeard
  <2> QED
    BY <1>3, <2>1, <2>2 DEF RequestInv
<1>7. OrderInv
  <2>1. Len(g.out_buf) = 0 /\ Len(g.out) = 0
    BY <1>3
  <2>2. BlocksInOrder
    BY <2>1 DEF BlocksInOrder
  <2> QED
    BY <1>3, <2>1, <2>2 DEF OrderInv
<1>8. EventInv
  <2>1. Len(g.out) = 0 /\ Len(g.events) = 0 /\ DOMAIN g.events = {}
    BY <1>3
  <2>2. NPub \in Nat /\ 0 * NPub = 0
    BY SizesAssumption
  <2>3. EventTagTrue
    BY <2>1 DEF EventTagTrue
  <2> QED
    BY <1>3, <2>1, <2>2, <2>3 DEF EventInv, InBlock
<1>9. ForwardInv
  BY <1>3 DEF ForwardInv
<1>10. RateInv
  <2>1. \A x \in thrown : x < Edge
    BY <1>2
  <2>2. \A t \in RateTags : ~ (t.at < g.read + g.in_len)
    BY <1>3, <1>5 DEF RateTags
  <2>3. DelayTrue
    <3>1. thrown = {} /\ Slow(thrown) = {}
      BY <1>2 DEF Slow
    <3>2. RatePeriod - 1 \in Int
      BY SizesAssumption
    <3>3. Cardinality(thrown) = 0 /\ Cardinality(Slow(thrown)) = 0
      BY <3>1, FS_EmptySet
    <3>4. 0 = 0 + (RatePeriod - 1) * 0
      BY <3>2
    <3> QED
      BY <1>3, <3>3, <3>4 DEF DelayTrue
  <2>4. RxDelayTrue
    BY <2>3, DelayFacts
  <2> QED
    BY <1>3, <2>1, <2>2, <2>4 DEF RateInv
<1>11. TimeoutInv
  <2>1. WaitedSince
    <3>1. 0 - 0 .. 0 - 1 = {}
      OBVIOUS
    <3> QED
      BY <1>3, <1>4, <3>1 DEF WaitedSince
  <2>2. TimeoutYields
    <3>1. DOMAIN g.events = {}
      BY <1>3
    <3> QED
      BY <3>1 DEF TimeoutYields
  <2>3. ~ InBlock
    BY <1>3 DEF InBlock
  <2> QED
    BY <2>1, <2>2, <2>3, TimeoutParts
<1> QED
  BY <1>1, <1>12, <1>6, <1>7, <1>8, <1>9, <1>10, <1>11 DEF IInv, IInv2

LEMMA Stutter ==
  ASSUME UNCHANGED vars
  PROVE  (IInv => IInv') /\ (IInv2 => IInv2')
<1>1. /\ g' = g /\ stream' = stream /\ n_discard' = n_discard /\ sets' = sets
      /\ waited' = waited /\ thrown' = thrown /\ overread' = overread /\ rewound' = rewound
      /\ torn' = torn
  BY DEF vars
<1>2. ShapeInv => ShapeInv'
  BY <1>1 DEF ShapeInv, Position, Walking
<1>3. TagInv => TagInv'
  BY <1>1 DEF TagInv, Listed, Ahead, Position
<1>4. RequestInv => RequestInv'
  BY <1>1 DEF RequestInv, Overlooked, Position, RequestHeard
<1>5. OrderInv => OrderInv'
  BY <1>1 DEF OrderInv, Position, Edge, BlocksInOrder
<1>6. EventInv => EventInv'
  BY <1>1 DEF EventInv, Position, InBlock, BlockStart, EventTagTrue
<1>7. ForwardInv => ForwardInv'
  BY <1>1 DEF ForwardInv, Position, BlockStart
<1>8. RateTags' = RateTags
  BY <1>1 DEF RateTags
<1>9. RateInv => RateInv'
  BY <1>1, <1>8 DEF RateInv, Edge, RxDelayTrue
<1>10. TimeoutInv => TimeoutInv'
  BY <1>1 DEF TimeoutInv, Position, Walking, InBlock, NoRequest, TimeoutYields, NoForeignTag
<1>11. NoForeignTag' <=> NoForeignTag
  BY <1>1 DEF NoForeignTag
<1>12. FieldInv => FieldInv'
  BY <1>1 DEF FieldInv, StateInv, Listed, Ahead, Position, Walking
<1> QED
  BY <1>1, <1>2, <1>3, <1>4, <1>5, <1>6, <1>7, <1>8, <1>9, <1>10, <1>11, <1>12 DEF IInv, IInv2

(* The step is a turn, until the read index has gone backwards.            *)
LEMMA WholeTurn ==
  ASSUME RoomForBlock, IInv, Next
  PROVE  /\ FieldInv /\ (Turn \/ PieceStep)
         /\ ~ rewound' => ~ rewound /\ ShapeInv /\ TagInv /\ OrderInv /\ EventInv /\ Turn
<1>1. FieldInv
  BY DEF IInv
<1>2. Turn \/ PieceStep
  BY <1>1, Turns
<1>3. rewound => rewound'
  BY <1>2, Lasting
<1> SUFFICES ASSUME ~ rewound'
             PROVE  ~ rewound /\ ShapeInv /\ TagInv /\ OrderInv /\ EventInv /\ Turn
  BY <1>1, <1>2
<1>4. ~ rewound /\ ShapeInv /\ TagInv /\ OrderInv /\ EventInv
  BY <1>3 DEF IInv
<1> QED
  BY <1>2, <1>4, NoPiece

LEMMA StepInv ==
  ASSUME RoomForBlock, IInv, Next
  PROVE  IInv'
<1>1. FieldInv /\ (Turn \/ PieceStep)
  BY WholeTurn
<1>2. FieldInv'
  BY <1>1, FieldStep
<1>3. /\ stream' = stream /\ (torn => torn')
      /\ \A t \in overread : t \in overread'
  BY <1>1, Lasting
<1>4. ASSUME ~ rewound'
      PROVE  /\ ~ rewound /\ ShapeInv /\ TagInv /\ OrderInv /\ EventInv /\ Turn
             /\ ShapeInv' /\ TagInv' /\ OrderInv' /\ EventInv'
  <2>1. ~ rewound /\ ShapeInv /\ TagInv /\ OrderInv /\ EventInv /\ Turn
    BY <1>4, WholeTurn
  <2> QED
    BY <1>4, <2>1, ShapeStep, OrderStep, EventStep
<1>5. ASSUME ~ rewound', ~ torn'
      PROVE  RequestInv' /\ ForwardInv'
  <2>1. RequestInv /\ ForwardInv /\ ~ torn
    BY <1>3, <1>4, <1>5 DEF IInv
  <2> QED
    BY <1>4, <1>5, <2>1, RequestStep, ForwardStep
<1>6. ASSUME ~ rewound', ~ torn', RateTags' \intersect overread' = {}
      PROVE  RateInv'
  <2>1. RateTags' = RateTags
    BY <1>3 DEF RateTags
  <2>2. RateTags \intersect overread = {}
    BY <1>3, <1>6, <2>1
  <2>3. RateInv /\ ~ torn
    BY <1>3, <1>4, <1>6, <2>2 DEF IInv
  <2> QED
    BY <1>4, <1>6, <2>3, RateStepHolds
<1> QED
  BY <1>2, <1>4, <1>5, <1>6 DEF IInv

LEMMA StepInv2 ==
  ASSUME RoomForBlock, NTimeout >= NPub - 1, IInv, IInv2, Next
  PROVE  IInv2'
<1>1. FieldInv /\ (Turn \/ PieceStep)
  BY WholeTurn
<1>2. stream' = stream /\ (torn => torn')
  BY <1>1, Lasting
<1> SUFFICES ASSUME ~ rewound', ~ torn', NoForeignTag'
             PROVE  TimeoutInv'
  BY DEF IInv2
<1>3. ~ rewound /\ ShapeInv /\ TagInv /\ OrderInv /\ EventInv /\ Turn
  BY WholeTurn
<1>4. ~ torn /\ NoForeignTag
  BY <1>2 DEF NoForeignTag
<1>5. RequestInv /\ TimeoutInv
  BY <1>3, <1>4 DEF IInv, IInv2
<1> QED
  BY <1>3, <1>4, <1>5, TimeoutKept

(* The invariant is as strong as the properties the runs check.            *)
LEMMA InvGate ==
  ASSUME IInv
  PROVE  GateInv
<1>1. FieldInv
  BY DEF IInv
<1>2. TypeOK
  <2>1. stream \in Seq(Tag) /\ g \in GateRec
    BY <1>1, StreamFacts DEF FieldInv
  <2>2. /\ g.state \in {"wait", "discard", "publish"}
        /\ g.pc \in {"idle", "work", "discard", "publish", "fill", "raised"}
        /\ g.nread \in Int /\ g.n_since \in Int /\ g.nout \in Nat /\ g.nout_total \in Nat
        /\ g.out_offset \in Nat /\ g.tags \in Seq(Tag) /\ g.out_buf \in Seq(0 .. NIn - 1)
        /\ g.out \in Seq(0 .. NIn - 1) /\ g.pubtimeout \in BOOLEAN
        /\ g.samp_period \in {1, RatePeriod}
        /\ g.read \in Nat /\ g.in_len \in Nat
    BY <2>1, GateTypes
  <2>3. /\ g.in_len <= MaxWindow /\ g.read + g.in_len <= NIn
        /\ n_discard \in NDiscards /\ sets \in 0 .. MaxSets
        /\ waited \subseteq 0 .. NIn - 1 /\ rewound \in BOOLEAN /\ torn \in BOOLEAN
        /\ g.out_len = 0 \/ g.out_len \in OutLens
    BY <1>1 DEF FieldInv
  <2>4. g.read \in 0 .. NIn /\ g.in_len \in 0 .. MaxWindow
    BY <2>2, <2>3, SizesAssumption
  <2> QED
    BY <2>1, <2>2, <2>3, <2>4 DEF TypeOK
<1>3. BlocksInOrder /\ EventTagTrue
  <2>1. CASE rewound
    BY <2>1 DEF BlocksInOrder, EventTagTrue
  <2>2. CASE ~ rewound
    BY <2>2 DEF IInv, OrderInv, EventInv
  <2> QED
    BY <2>1, <2>2
<1>4. RequestHeard /\ ForwardedInPlace
  <2>1. CASE rewound \/ torn
    BY <2>1 DEF RequestHeard, ForwardedInPlace
  <2>2. CASE ~ rewound /\ ~ torn
    BY <2>2 DEF IInv, RequestInv, ForwardInv, ForwardedInPlace
  <2> QED
    BY <2>1, <2>2
<1>5. RxDelayTrue
  <2>1. CASE ~ rewound /\ ~ torn /\ RateTags \intersect overread = {}
    BY <2>1 DEF IInv, RateInv
  <2>2. CASE ~ DelayClaimed
    BY <2>2, DelayFacts
  <2> QED
    BY <2>1, <2>2 DEF DelayClaimed
<1> QED
  BY <1>2, <1>3, <1>4, <1>5 DEF GateInv

(***************************************************************************)
(* Theorems.                                                               *)
(***************************************************************************)
(* As long as a call of general_work has room for a block, and until the    *)
(* read index has gone backwards or a discard past its window: what the     *)
(* gate publishes is whole blocks of consecutive samples, in order, each    *)
(* under the tag or timeout it answers, wherever set_n_discard falls.  As   *)
(* long as no discard has found two values of n_discard: no request is      *)
(* waited across but those publish() took ahead, and other tags and the     *)
(* delay are in their place.  The types hold always.                       *)
THEOREM GateCorrect ==
  ASSUME RoomForBlock
  PROVE  Spec => []GateInv
<1>1. Init => IInv
  BY InitInv
<1>2. IInv /\ [Next]_vars => IInv'
  BY StepInv, Stutter
<1>3. IInv => GateInv
  BY InvGate
<1> QED
  BY <1>1, <1>2, <1>3, PTL DEF Spec

(* A timeout not shorter than a block publishes only what the gate waited   *)
(* NTimeout samples for, and no block with a request in it, until the read  *)
(* index has gone backwards or a discard has found two values of n_discard. *)
THEOREM TimeoutCorrect ==
  ASSUME RoomForBlock, NTimeout >= NPub - 1
  PROVE  Spec => []TimeoutYields
<1> DEFINE Both == IInv /\ IInv2
<1>1. Init => Both
  BY InitInv
<1>2. Both /\ [Next]_vars => Both'
  BY StepInv, StepInv2, Stutter
<1>3. Both => TimeoutYields
  BY TimeoutParts DEF IInv2, TimeoutYields
<1> HIDE DEF Both
<1> QED
  BY <1>1, <1>2, <1>3, PTL DEF Spec

=============================================================================
